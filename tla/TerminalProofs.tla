------------------------------ MODULE TerminalProofs ------------------------------
(*****************************************************************************)
(* Theorems about TerminalUserInterface, for every number of clients, of     *)
(* descriptors and of events, and every way to cut what is sent into         *)
(* buffers.  All of them follow from the inductive invariant Inv.            *)
(*****************************************************************************)
EXTENDS TerminalUserInterface, SequenceTheorems, TLAPS

\* What holds at each place of the program: which of its variables are in use,
\* and that no client has a descriptor before the loop has started.
PhaseOK ==
    /\ pc \notin {"events", "recv"} => events = {}
    /\ pc = "recv" => reading \in Fd \ (events \cup {FD})
    /\ pc = "init" => backlog = << >> /\ \A f \in Fd : table[f] \in {"std", "free"}
    /\ pc \in {"init", "listening"} =>
          RemoteFD = -1 /\ \A f \in Fd : table[f] \notin Client
    /\ pc \notin {"init", "exited"} => EpollFD \in Fd /\ FD \in Fd

\* DescriptorsOK survives the stale number because that number can only be one
\* that is free, a client's, or the one of the socket Request waits on.
TableOK ==
    /\ DescriptorsOK
    /\ pc = "exited" => \A f \in Fd : table[f] = "free"
    /\ pc # "exited" /\ RemoteFD # -1 =>
          table[RemoteFD] \in Client \cup {"free", "udp"}
    /\ IF pc = "request" THEN RemoteFD # -1 /\ table[RemoteFD] = "udp"
                         ELSE \A f \in Fd : table[f] # "udp"

\* A connection is in line for accept at most once, and not any more when it
\* has a descriptor.
ConnectionsOK ==
    /\ \A i, j \in DOMAIN backlog : backlog[i] = backlog[j] => i = j
    /\ \A i \in DOMAIN backlog : /\ status[backlog[i]] # "new"
                                 /\ \A f \in Fd : table[f] # backlog[i]
    /\ \A f \in Fd : table[f] \in Client => status[table[f]] # "new"

\* A client with something to say is on the ready list, or its event has been
\* reported and is not handled yet, or its descriptor is being read.
EdgesOK ==
    pc # "exited" =>
        \A f \in Fd : table[f] \in Client /\ HasEvent(table[f]) =>
            table[f] \in ready \/ f \in events \/ (pc = "recv" /\ reading = f)

\* Only what was received is searched.
PosOK == pc = "recv" => pos <= read[table[reading]]

\* Every instruction that was ever queued, in the order of the queue.
All == handled \o Instructions

\* Nothing is queued that the search has not passed: what it finds next is
\* new, and behind everything of the same client.
OrderOK ==
    /\ ClientOrder
    /\ \A i \in DOMAIN All : 2 * All[i][2] <= Parsed(All[i][1])

\* The search stops within an instruction only where a buffer ended in it.
SplitOK ==
    pc # "exited" => \A c \in Client : \A n \in 1..Len(text[c]) :
        Parsed(c) = 2 * n - 1 => <<c, n>> \in split

QueueOK == OrderOK /\ SplitOK /\ NothingOverlooked

Inv == TypeOK /\ PhaseOK /\ TableOK /\ ConnectionsOK /\ EdgesOK /\ PosOK /\ QueueOK

--------------------------------------------------------------------------------
(* Facts about the pieces the steps are made of *)

\* Dequeue moves an instruction from the queue to what was handled; All stays.
LEMMA Popped ==
    ASSUME TypeOK, NEW kind, Dequeue(kind)
    PROVE  /\ Instructions' \in Seq(Id)
           /\ handled' \in Seq(Id)
           /\ handled' \o Instructions' = handled \o Instructions
<1> DEFINE h == handled
           q == Instructions
<1>1. h \in Seq(Id) /\ q \in Seq(Id) /\ q # << >>
  BY DEF TypeOK, Dequeue
<1>2. h' = Append(h, Head(q)) /\ q' = Tail(q)
  BY DEF Dequeue
<1> HIDE DEF h, q
<1>3. /\ Head(q) \in Id /\ Tail(q) \in Seq(Id) /\ Len(Tail(q)) = Len(q) - 1
      /\ \A i \in 1..Len(Tail(q)) : Tail(q)[i] = q[i + 1]
  BY <1>1, HeadTailProperties
<1>4. Head(q) = q[1]
  BY <1>1
<1>5. /\ Append(h, Head(q)) \in Seq(Id) /\ Len(Append(h, Head(q))) = Len(h) + 1
      /\ \A i \in 1..Len(h) : Append(h, Head(q))[i] = h[i]
      /\ Append(h, Head(q))[Len(h) + 1] = Head(q)
  BY <1>1, <1>3, AppendProperties
<1>6. /\ h' \o q' \in Seq(Id)
      /\ Len(h' \o q') = Len(h') + Len(q')
      /\ \A i \in 1..Len(h') + Len(q') :
            (h' \o q')[i] = IF i <= Len(h') THEN h'[i] ELSE q'[i - Len(h')]
  BY <1>2, <1>3, <1>5, ConcatProperties
<1>7. /\ h \o q \in Seq(Id)
      /\ Len(h \o q) = Len(h) + Len(q)
      /\ \A i \in 1..Len(h) + Len(q) :
            (h \o q)[i] = IF i <= Len(h) THEN h[i] ELSE q[i - Len(h)]
  BY <1>1, ConcatProperties
<1>8. Len(h) \in Nat /\ Len(q) \in Nat /\ Len(h') = Len(h) + 1 /\ Len(q') = Len(q) - 1
  BY <1>1, <1>2, <1>3, <1>5
<1>9. Len(h' \o q') = Len(h \o q)
  BY <1>6, <1>7, <1>8
<1>10. ASSUME NEW i \in 1..Len(h' \o q') PROVE (h' \o q')[i] = (h \o q)[i]
  <2>1. CASE i <= Len(h)
    BY <2>1, <1>2, <1>5, <1>6, <1>7, <1>8
  <2>2. CASE i = Len(h) + 1
    BY <2>2, <1>2, <1>4, <1>5, <1>6, <1>7, <1>8
  <2>3. CASE i > Len(h) + 1
    <3>1. (h' \o q')[i] = q'[i - (Len(h) + 1)]
      BY <2>3, <1>6, <1>8
    <3>2. q'[i - (Len(h) + 1)] = q[i - (Len(h) + 1) + 1]
      BY <2>3, <1>2, <1>3, <1>6, <1>8
    <3>3. i - (Len(h) + 1) + 1 = i - Len(h)
      BY <1>8
    <3>4. (h \o q)[i] = q[i - Len(h)]
      BY <2>3, <1>6, <1>7, <1>8
    <3> QED
      BY <3>1, <3>2, <3>3, <3>4
  <2> QED
    BY <2>1, <2>2, <2>3, <1>6, <1>8
<1>11. h' \o q' = h \o q
  BY <1>6, <1>7, <1>9, <1>10, SeqEqual
<1> QED
  BY <1>2, <1>3, <1>5, <1>11 DEF h, q

\* accept takes the connection that came first, and the others move up.
LEMMA FirstInLine ==
    ASSUME TypeOK, backlog # << >>
    PROVE  /\ Head(backlog) \in Client
           /\ 1 \in DOMAIN backlog /\ Head(backlog) = backlog[1]
           /\ Tail(backlog) \in Seq(Client)
           /\ \A i \in DOMAIN Tail(backlog) :
                 /\ i + 1 \in DOMAIN backlog /\ i + 1 # 1 /\ i \in Nat
                 /\ Tail(backlog)[i] = backlog[i + 1]
<1>1. backlog \in Seq(Client)
  BY DEF TypeOK
<1>2. /\ Head(backlog) \in Client /\ Tail(backlog) \in Seq(Client)
      /\ Len(Tail(backlog)) = Len(backlog) - 1
      /\ \A i \in 1..Len(Tail(backlog)) : Tail(backlog)[i] = backlog[i + 1]
  BY <1>1, HeadTailProperties
<1>3. Len(backlog) \in Nat /\ Len(backlog) > 0 /\ DOMAIN backlog = 1..Len(backlog)
  BY <1>1, EmptySeq, LenProperties
<1>4. DOMAIN Tail(backlog) = 1..Len(Tail(backlog))
  BY <1>2, LenProperties
<1>5. Head(backlog) = backlog[1]
  BY <1>1
<1> QED
  BY <1>2, <1>3, <1>4, <1>5

\* A new connection comes last.
LEMMA LastInLine ==
    ASSUME TypeOK, NEW c \in Client
    PROVE  /\ Append(backlog, c) \in Seq(Client)
           /\ \A i \in DOMAIN Append(backlog, c) :
                 \/ i \in DOMAIN backlog /\ Append(backlog, c)[i] = backlog[i]
                 \/ /\ i = Len(backlog) + 1 /\ Len(backlog) \in Nat
                    /\ i \notin DOMAIN backlog /\ Append(backlog, c)[i] = c
<1>1. backlog \in Seq(Client)
  BY DEF TypeOK
<1>2. /\ Append(backlog, c) \in Seq(Client)
      /\ Len(Append(backlog, c)) = Len(backlog) + 1
      /\ \A i \in 1..Len(backlog) : Append(backlog, c)[i] = backlog[i]
      /\ Append(backlog, c)[Len(backlog) + 1] = c
  BY <1>1, AppendProperties
<1>3. /\ Len(backlog) \in Nat /\ DOMAIN backlog = 1..Len(backlog)
      /\ DOMAIN Append(backlog, c) = 1..Len(Append(backlog, c))
  BY <1>1, <1>2, LenProperties
<1> QED
  BY <1>2, <1>3

\* What Request's first close does to the table: it takes at most one
\* descriptor away, and that one is a client's.
LEMMA StaleFact ==
    ASSUME Inv, pc = "drain"
    PROVE  /\ StaleClosed \in [Fd -> Client \cup Kernel]
           /\ \A f \in Fd :
                 \/ StaleClosed[f] = table[f] /\ (table[f] \in Client => table[f] \notin Stale)
                 \/ /\ StaleClosed[f] = "free" /\ f = RemoteFD
                    /\ table[f] \in Client \cup {"free"}
<1> USE TerminalAssumption
<1>1. StaleClosed \in [Fd -> Client \cup Kernel]
  BY DEF Inv, TypeOK, StaleClosed, Kernel
<1>2. ASSUME NEW f \in Fd, f = RemoteFD
      PROVE  StaleClosed[f] = "free" /\ table[f] \in Client \cup {"free"}
  <2>1. RemoteFD # -1
    BY <1>2 DEF Fd
  <2> QED
    BY <1>2, <2>1 DEF Inv, TableOK, StaleClosed
<1>3. ASSUME NEW f \in Fd, f # RemoteFD
      PROVE  StaleClosed[f] = table[f] /\ (table[f] \in Client => table[f] \notin Stale)
  <2>1. StaleClosed[f] = table[f]
    BY <1>3 DEF StaleClosed
  <2>2. ASSUME table[f] \in Client, table[f] \in Stale PROVE FALSE
    <3>1. RemoteFD \in Fd /\ table[f] = table[RemoteFD]
      BY <2>2 DEF Stale, Inv, TypeOK
    <3>2. table[f] # "free"
      BY <2>2 DEF Kernel
    <3> QED
      BY <1>3, <3>1, <3>2 DEF Inv, TableOK, DescriptorsOK
  <2> QED
    BY <2>1, <2>2
<1> QED
  BY <1>1, <1>2, <1>3

\* The end of the process, however it comes about, keeps the types.
LEMMA EndsType ==
    ASSUME TypeOK, Ends, UNCHANGED <<split, victims, dropped>>,
           Instructions' \in Seq(Id), handled' \in Seq(Id)
    PROVE  TypeOK'
<1>1. backlog' \in Seq(Client)
  BY EmptySeq DEF Ends
<1>2. table' \in [Fd -> Client \cup Kernel]
  BY DEF Ends, Kernel
<1> QED
  BY <1>1, <1>2 DEF Ends, TypeOK, clientVars

\* So what is not a client's stays, and nothing else gets in.
LEMMA StaleTable ==
    ASSUME Inv, pc = "drain"
    PROVE  /\ StaleClosed[0] = "std" /\ 0 \in Fd
           /\ EpollFD \in Fd /\ StaleClosed[EpollFD] = "epoll"
           /\ FD \in Fd /\ StaleClosed[FD] = "listen"
           /\ \A f, g \in Fd :
                 StaleClosed[f] = StaleClosed[g] /\ StaleClosed[f] # "free" => f = g
           /\ \A f \in Fd : StaleClosed[f] # "udp"
           /\ \A f \in Fd : StaleClosed[f] \in Client => StaleClosed[f] = table[f]
           /\ events = {}
<1> USE TerminalAssumption
<1>1. /\ 0 \in Fd /\ table[0] = "std" /\ events = {}
      /\ EpollFD \in Fd /\ table[EpollFD] = "epoll"
      /\ FD \in Fd /\ table[FD] = "listen"
      /\ \A f, g \in Fd : table[f] = table[g] /\ table[f] # "free" => f = g
      /\ \A f \in Fd : table[f] # "udp"
  BY DEF Inv, PhaseOK, TableOK, DescriptorsOK, Fd
<1>2. \A f \in Fd : \/ StaleClosed[f] = table[f]
                    \/ StaleClosed[f] = "free" /\ table[f] \in Client \cup {"free"}
  BY StaleFact
<1>3. \A f \in Fd : table[f] \in {"std", "epoll", "listen"} => StaleClosed[f] = table[f]
  BY <1>2 DEF Kernel
<1>4. \A f \in Fd : StaleClosed[f] # "free" => StaleClosed[f] = table[f]
  BY <1>2
<1>5. "free" \notin Client /\ "udp" # "free"
  BY DEF Kernel
<1> QED
  BY <1>1, <1>3, <1>4, <1>5

\* Steps that neither search a buffer nor reorder the queue.
QueueKept ==
    /\ All' = All
    /\ text' = text
    /\ split' = split
    /\ pc = "exited" => pc' = "exited"
    /\ \A c \in Client : \/ Parsed(c)' = Parsed(c)
                         \/ pc' = "exited" /\ Parsed(c)' = read[c]

\* The search is never ahead of what was received.
LEMMA ParsedType ==
    ASSUME Inv, NEW c \in Client
    PROVE  Parsed(c) \in Nat /\ Parsed(c) <= read[c] /\ read[c] \in Nat
BY DEF Inv, TypeOK, PosOK, Parsed

\* The type of All.
LEMMA AllType ==
    ASSUME TypeOK
    PROVE  /\ All \in Seq(Id) /\ Len(All) \in Nat /\ DOMAIN All = 1..Len(All)
           /\ \A i \in DOMAIN All : /\ All[i] \in Id /\ All[i][1] \in Client
                                    /\ All[i][2] \in Nat
<1>1. All \in Seq(Id)
  BY ConcatProperties DEF TypeOK, All
<1>2. Len(All) \in Nat /\ DOMAIN All = 1..Len(All)
  BY <1>1, LenProperties
<1>3. \A i \in 1..Len(All) : All[i] \in Id
  BY <1>1, ElementOfSeq
<1> QED
  BY <1>1, <1>2, <1>3 DEF Id

\* Such steps keep what is known of the queue; at the end of the process
\* Parsed may only grow.
LEMMA QueueKeptOK ==
    ASSUME Inv, QueueKept
    PROVE  QueueOK'
<1>1. ClientOrder'
  BY DEF Inv, QueueOK, OrderOK, ClientOrder, All, QueueKept
<1>2. ASSUME NEW i \in DOMAIN All
      PROVE  2 * All[i][2] <= Parsed(All[i][1])'
  <2>1. All[i][1] \in Client /\ All[i][2] \in Nat /\ 2 * All[i][2] <= Parsed(All[i][1])
    BY AllType DEF Inv, QueueOK, OrderOK
  <2> DEFINE c == All[i][1]
  <2>2. Parsed(c) \in Nat /\ Parsed(c) <= read[c] /\ read[c] \in Nat
    BY <2>1, ParsedType
  <2>3. Parsed(c)' = Parsed(c) \/ Parsed(c)' = read[c]
    BY <2>1 DEF QueueKept
  <2> QED
    BY <2>1, <2>2, <2>3
<1>3. SplitOK'
  BY DEF Inv, QueueOK, SplitOK, QueueKept
<1>4. NothingOverlooked'
  BY DEF Inv, QueueOK, NothingOverlooked, QueueKept, All
<1> QED
  BY <1>1, <1>2, <1>3, <1>4 DEF QueueOK, OrderOK, QueueKept

\* Queueing an instruction appends it to All.
LEMMA AppendedAll ==
    ASSUME TypeOK, NEW e \in Id, Instructions' = Append(Instructions, e),
           handled' = handled
    PROVE  /\ All' = Append(All, e)
           /\ Len(All') = Len(All) + 1
           /\ DOMAIN All' = DOMAIN All \cup {Len(All) + 1}
           /\ Len(All) + 1 \notin DOMAIN All
           /\ \A i \in DOMAIN All : All'[i] = All[i] /\ i < Len(All) + 1
           /\ All'[Len(All) + 1] = e
<1>1. handled \in Seq(Id) /\ Instructions \in Seq(Id)
  BY DEF TypeOK
<1>2. All' = Append(All, e)
  <2>1. Append(Instructions, e) = Instructions \o <<e>>
    BY <1>1, AppendIsConcat
  <2>2. <<e>> \in Seq(Id)
    OBVIOUS
  <2>3. handled \o (Instructions \o <<e>>) = (handled \o Instructions) \o <<e>>
    BY <1>1, <2>2, ConcatAssociative
  <2>4. Append(All, e) = All \o <<e>>
    BY AllType, AppendIsConcat
  <2> QED
    BY <2>1, <2>3, <2>4 DEF All
<1>3. /\ Append(All, e) \in Seq(Id) /\ Len(Append(All, e)) = Len(All) + 1
      /\ \A i \in 1..Len(All) : Append(All, e)[i] = All[i]
      /\ Append(All, e)[Len(All) + 1] = e
  BY AllType, AppendProperties
<1>4. DOMAIN Append(All, e) = 1..Len(Append(All, e))
  BY <1>3, LenProperties
<1> QED
  BY <1>2, <1>3, <1>4, AllType

\* One instruction is found: it comes behind everything of this client.
LEMMA ParseQueue ==
    ASSUME Inv, NEW c \in Client, Parse(c)
    PROVE  QueueOK'
<1> DEFINE n == NextFrom(pos)
<1>1. /\ pc = "recv" /\ pc' = "recv" /\ table[reading] = c /\ table' = table
      /\ reading' = reading /\ 2 * n <= read[c] /\ pos' = 2 * n
      /\ UNCHANGED <<read, text, split, handled>>
  BY DEF Parse, clientVars, historyVars
<1>2. pos \in Nat /\ n \in Nat \ {0} /\ pos + 2 <= 2 * n /\ 2 * n <= pos + 3
  BY DEF Inv, TypeOK, NextFrom
<1>3. Parsed(c) = pos /\ Parsed(c)' = 2 * n
  BY <1>1 DEF Parsed
<1>4. \A d \in Client \ {c} : Parsed(d)' = Parsed(d)
  BY <1>1 DEF Parsed
<1>5. <<c, n>> \in Id
  BY <1>2 DEF Id
<1>6. n \in 1..Len(text[c])
  <2>1. 2 * n <= 2 * Len(text[c])
    <3>1. read[c] \in Nat /\ sent[c] \in Nat /\ read[c] <= sent[c] /\ sent[c] <= 2 * Len(text[c])
      BY DEF Inv, TypeOK
    <3>2. Len(text[c]) \in Nat
      BY LenProperties DEF Inv, TypeOK
    <3> QED
      BY <1>1, <1>2, <3>1, <3>2
  <2>2. Len(text[c]) \in Nat
    BY LenProperties DEF Inv, TypeOK
  <2> QED
    BY <1>2, <2>1, <2>2
<1> HIDE DEF n
<1>7. \A i \in DOMAIN All : /\ All[i][1] \in Client /\ All[i][2] \in Nat
                           /\ 2 * All[i][2] <= Parsed(All[i][1])
  BY AllType DEF Inv, QueueOK, OrderOK
<1>8. \A i \in DOMAIN All : All[i][1] = c => All[i][2] < n
  BY <1>2, <1>3, <1>7
<1>9. \A i \in DOMAIN All : \A d \in Client :
          All[i][1] = d => 2 * All[i][2] <= Parsed(d)'
  BY <1>2, <1>3, <1>4, <1>7
<1>10. \A i, j \in DOMAIN All : i < j /\ All[i][1] = All[j][1] => All[i][2] < All[j][2]
  BY DEF Inv, QueueOK, OrderOK, ClientOrder, All
<1>11. SplitOK'
  <2> SUFFICES ASSUME NEW d \in Client, NEW k \in 1..Len(text[d]), Parsed(d)' = 2 * k - 1
               PROVE  <<d, k>> \in split
    BY <1>1 DEF SplitOK
  <2>1. d # c
    BY <1>2, <1>3
  <2> QED
    BY <1>1, <1>4, <2>1 DEF Inv, QueueOK, SplitOK
\* An instruction between pos and 2 n, if any, has been split before.
<1>12. ASSUME NEW k \in 1..Len(text[c]), 2 * k <= 2 * n, k # n, ~(2 * k <= pos)
       PROVE  <<c, k>> \in split
  <2>1. pos = 2 * k - 1
    BY <1>2, <1>12
  <2> QED
    BY <1>1, <1>3, <2>1 DEF Inv, QueueOK, SplitOK
<1>13. ASSUME NEW d \in Client, NEW k \in 1..Len(text[d]), 2 * k <= Parsed(d)',
              <<d, k>> # <<c, n>>
       PROVE  Contains(All, <<d, k>>) \/ text[d][k] = "invalid" \/ <<d, k>> \in split
  <2>1. CASE 2 * k <= Parsed(d)
    BY <1>1, <2>1 DEF Inv, QueueOK, NothingOverlooked, All
  <2>2. CASE ~(2 * k <= Parsed(d))
    <3>1. d = c
      BY <1>4, <1>13, <2>2
    <3> QED
      BY <1>3, <1>12, <1>13, <2>2, <3>1
  <2> QED
    BY <2>1, <2>2
<1>14. CASE text[c][n] = "invalid"
  <2>1. All' = All
    BY <1>1, <1>14 DEF Parse, All, n
  <2>2. OrderOK'
    BY <1>7, <1>9, <1>10, <2>1 DEF OrderOK, ClientOrder, All
  <2>3. NothingOverlooked'
    BY <1>1, <1>13, <1>14, <2>1 DEF NothingOverlooked, All
  <2> QED
    BY <1>11, <2>2, <2>3 DEF QueueOK
<1>15. CASE text[c][n] # "invalid"
  <2>1. Instructions' = Append(Instructions, <<c, n>>)
    BY <1>15 DEF Parse, n
  <2>2. /\ Len(All') = Len(All) + 1
        /\ DOMAIN All' = DOMAIN All \cup {Len(All) + 1}
        /\ Len(All) + 1 \notin DOMAIN All
        /\ \A i \in DOMAIN All : All'[i] = All[i] /\ i < Len(All) + 1
        /\ All'[Len(All) + 1] = <<c, n>>
    BY <1>1, <1>5, <2>1, AppendedAll DEF Inv
  <2>3. DOMAIN All = 1..Len(All) /\ Len(All) \in Nat
    BY AllType DEF Inv
  <2>4. \A i, j \in DOMAIN All' : i < j /\ All'[i][1] = All'[j][1] => All'[i][2] < All'[j][2]
    BY <1>8, <1>10, <2>2, <2>3
  <2>5. \A i \in DOMAIN All' : All'[i][1] \in Client /\ \A d \in Client :
          All'[i][1] = d => 2 * All'[i][2] <= Parsed(d)'
    <3> SUFFICES ASSUME NEW i \in DOMAIN All'
                 PROVE  All'[i][1] \in Client /\ \A d \in Client :
                          All'[i][1] = d => 2 * All'[i][2] <= Parsed(d)'
      OBVIOUS
    <3>1. CASE i \in DOMAIN All
      BY <1>7, <1>9, <2>2, <3>1
    <3>2. CASE i = Len(All) + 1
      <4>1. All'[i][1] = c /\ All'[i][2] = n
        BY <2>2, <3>2
      <4> QED
        BY <1>2, <1>3, <4>1
    <3> QED
      BY <2>2, <3>1, <3>2
  <2>6. OrderOK'
    BY <2>4, <2>5 DEF OrderOK, ClientOrder, All
  <2>7. \A e : Contains(All, e) => Contains(All', e)
    BY <2>2, <2>3 DEF Contains
  <2>8. Contains(All', <<c, n>>)
    BY <2>2, <2>3 DEF Contains
  <2>9. NothingOverlooked'
    BY <1>1, <1>13, <2>7, <2>8 DEF NothingOverlooked, All
  <2> QED
    BY <1>11, <2>6, <2>9 DEF QueueOK
<1> QED
  BY <1>14, <1>15

\* The search of a buffer ends: what it leaves is split, or was not begun.
LEMMA ParseBreaksQueue ==
    ASSUME Inv, NEW c \in Client, ParseBreaks(c)
    PROVE  QueueOK'
<1> DEFINE n == NextFrom(pos)
<1>1. /\ pc = "recv" /\ pc' = "recv" /\ table[reading] = c /\ table' = table
      /\ reading' = reading /\ pos < read[c] /\ read[c] < 2 * n /\ pos' = read[c]
      /\ UNCHANGED <<read, text, handled, Instructions>>
      /\ split' = IF read[c] = 2 * n - 1 THEN split \cup {<<c, n>>} ELSE split
  BY DEF ParseBreaks, clientVars
<1>2. /\ pos \in Nat /\ n \in Nat \ {0} /\ pos + 2 <= 2 * n /\ 2 * n <= pos + 3
      /\ read[c] \in Nat
  BY DEF Inv, TypeOK, NextFrom
<1>3. Parsed(c) = pos /\ Parsed(c)' = read[c] /\ \A d \in Client \ {c} : Parsed(d)' = Parsed(d)
  BY <1>1 DEF Parsed
<1> HIDE DEF n
<1>4. OrderOK'
  <2>1. \A i \in DOMAIN All : /\ All[i][1] \in Client /\ All[i][2] \in Nat
                             /\ 2 * All[i][2] <= Parsed(All[i][1])
    BY AllType DEF Inv, QueueOK, OrderOK
  <2>2. \A i \in DOMAIN All : \A d \in Client :
          All[i][1] = d => 2 * All[i][2] <= Parsed(d)'
    BY <1>1, <1>2, <1>3, <2>1
  <2>3. All' = All
    BY <1>1 DEF All
  <2>4. ClientOrder'
    BY <1>1 DEF Inv, QueueOK, OrderOK, ClientOrder
  <2> QED
    BY <2>1, <2>2, <2>3, <2>4 DEF OrderOK
<1>5. SplitOK'
  <2> SUFFICES ASSUME NEW d \in Client, NEW k \in 1..Len(text[d]), Parsed(d)' = 2 * k - 1
               PROVE  <<d, k>> \in split'
    BY <1>1 DEF SplitOK
  <2>1. CASE d = c
    <3>1. k = n
      BY <1>1, <1>2, <1>3, <2>1
    <3> QED
      BY <1>1, <1>2, <1>3, <2>1, <3>1
  <2>2. CASE d # c
    BY <1>1, <1>3, <2>2 DEF Inv, QueueOK, SplitOK
  <2> QED
    BY <2>1, <2>2
<1>6. NothingOverlooked'
  <2> SUFFICES ASSUME NEW d \in Client, NEW k \in 1..Len(text[d]), 2 * k <= Parsed(d)'
               PROVE  Contains(All, <<d, k>>) \/ text[d][k] = "invalid" \/ <<d, k>> \in split
    BY <1>1 DEF NothingOverlooked, All
  <2>1. CASE 2 * k <= Parsed(d)
    BY <1>1, <2>1 DEF Inv, QueueOK, NothingOverlooked, All
  <2>2. CASE ~(2 * k <= Parsed(d))
    <3>1. d = c
      BY <1>3, <2>2
    <3>2. pos = 2 * k - 1
      BY <1>1, <1>2, <1>3, <2>2, <3>1
    <3> QED
      BY <1>1, <1>3, <3>1, <3>2 DEF Inv, QueueOK, SplitOK
  <2> QED
    BY <2>1, <2>2
<1> QED
  BY <1>4, <1>5, <1>6 DEF QueueOK

--------------------------------------------------------------------------------
(* Every step preserves every part of the invariant *)

\* Types: a step of recv, accept or Request stays within the tables.
LEMMA NextTypeOK == Inv /\ [Next]_vars => TypeOK'
<1> SUFFICES ASSUME Inv, [Next]_vars PROVE TypeOK'
  OBVIOUS
<1> USE TerminalAssumption
<1>1. ASSUME NEW c \in Client, Connect(c) PROVE TypeOK'
  <2>1. backlog' \in Seq(Client)
    BY <1>1, LastInLine DEF Inv, Connect
  <2> QED
    BY <1>1, <2>1 DEF Connect, Inv, TypeOK, clientVars, historyVars
<1>2. ASSUME NEW c \in Client, Send(c) PROVE TypeOK'
  <2>1. /\ sent' \in [Client -> Nat]
        /\ \A d \in Client : read[d] <= sent'[d] /\ sent'[d] <= 2 * Len(text[d])
    <3> DEFINE L(d) == Len(text[d])
    <3>1. \A d \in Client : L(d) \in Nat /\ sent[d] \in Nat /\ read[d] \in Nat
      BY LenProperties DEF Inv, TypeOK
    <3> QED
      BY <1>2, <3>1 DEF Send, Inv, TypeOK
  <2>2. ready' \subseteq Client \cup {"listen"}
    BY <1>2 DEF Send, Edge, Inv, TypeOK
  <2> QED
    BY <1>2, <2>1, <2>2 DEF Send, Inv, TypeOK, clientVars, historyVars
<1>3. ASSUME NEW c \in Client, ClientCloses(c) PROVE TypeOK'
  BY <1>3 DEF ClientCloses, Edge, Inv, TypeOK, historyVars
<1>4. CASE Listen
  BY <1>4 DEF Listen, Inv, TypeOK, Kernel, clientVars, historyVars
<1>5. CASE Register
  BY <1>5 DEF Register, Inv, TypeOK, clientVars, historyVars
<1>6. CASE EpollWait
  BY <1>6 DEF EpollWait, Live, Inv, TypeOK, clientVars, historyVars
<1>7. CASE Accept
  <2>1. Tail(backlog) \in Seq(Client) /\ Head(backlog) \in Client
    BY <1>7, FirstInLine DEF Inv, Accept
  <2>2. table' \in [Fd -> Client \cup Kernel]
    BY <1>7, <2>1 DEF Accept, Inv, TypeOK
  <2>3. ready' \subseteq Client \cup {"listen"} /\ events' \subseteq Fd
    BY <1>7, <2>1 DEF Accept, InAccept, Inv, TypeOK
  <2> QED
    BY <1>7, <2>1, <2>2, <2>3 DEF Accept, InAccept, Inv, TypeOK, clientVars, historyVars
<1>8. CASE AcceptFails
  BY <1>8 DEF AcceptFails, InAccept, Inv, TypeOK, clientVars
<1>9. CASE BeginRecv
  <2>1. \A f \in events \ {FD} : f \in Fd /\ read[table[f]] \in Nat
    BY <1>9 DEF BeginRecv, Inv, TypeOK, TableOK, DescriptorsOK
  <2>2. pc' \in {"recv"} /\ pos' \in Nat /\ reading' \in Fd /\ events' \subseteq Fd
    BY <1>9, <2>1 DEF BeginRecv, Inv, TypeOK
  <2> QED
    BY <1>9, <2>2 DEF BeginRecv, Inv, TypeOK, clientVars, historyVars
<1>10. ASSUME NEW c \in Client, Recv(c) PROVE TypeOK'
  <2>1. /\ read' \in [Client -> Nat]
        /\ \A d \in Client : read'[d] <= sent[d] /\ sent[d] <= 2 * Len(text[d])
    <3>1. \A d \in Client : sent[d] \in Nat /\ read[d] \in Nat
      BY DEF Inv, TypeOK
    <3>2. \A d \in Client : read'[d] \in Nat /\ read'[d] <= sent[d]
      BY <1>10, <3>1 DEF Recv, Inv, TypeOK
    <3>3. \A d \in Client : sent[d] <= 2 * Len(text[d])
      BY DEF Inv, TypeOK
    <3>4. read' \in [Client -> Nat]
      BY <1>10, <3>1, <3>2 DEF Recv, Inv, TypeOK
    <3> QED
      BY <3>2, <3>3, <3>4
  <2> QED
    BY <1>10, <2>1 DEF Recv, ToRecv, Inv, TypeOK, clientVars, historyVars
<1>11. ASSUME NEW c \in Client, Parse(c) PROVE TypeOK'
  <2>1. NextFrom(pos) \in Nat \ {0}
    BY DEF Inv, TypeOK, NextFrom
  <2>2. Append(Instructions, <<c, NextFrom(pos)>>) \in Seq(Id)
    <3>1. <<c, NextFrom(pos)>> \in Id
      BY <2>1 DEF Id
    <3> QED
      BY <3>1, AppendProperties DEF Inv, TypeOK
  <2>3. pos' \in Nat
    BY <1>11, <2>1 DEF Parse
  <2>4. Instructions' \in Seq(Id)
    BY <1>11, <2>2 DEF Parse, Inv, TypeOK
  <2> QED
    BY <1>11, <2>3, <2>4 DEF Parse, Inv, TypeOK, clientVars, historyVars
<1>12. ASSUME NEW c \in Client, ParseBreaks(c) PROVE TypeOK'
  <2>1. pos' \in Nat
    BY <1>12 DEF ParseBreaks, Inv, TypeOK
  <2>2. <<c, NextFrom(pos)>> \in Id
    BY DEF Inv, TypeOK, NextFrom, Id
  <2>3. split' \subseteq Id
    BY <1>12, <2>2 DEF ParseBreaks, Inv, TypeOK
  <2> QED
    BY <1>12, <2>1, <2>3 DEF ParseBreaks, Inv, TypeOK, clientVars
<1>13. ASSUME NEW c \in Client, RecvAgain(c) PROVE TypeOK'
  BY <1>13 DEF RecvAgain, RecvDone, Inv, TypeOK, clientVars
<1>14. ASSUME NEW c \in Client, RecvEnd(c) PROVE TypeOK'
  BY <1>14 DEF RecvEnd, RecvDone, Inv, TypeOK, Kernel, clientVars
<1>15. CASE EndEvents
  BY <1>15 DEF EndEvents, Inv, TypeOK, clientVars, historyVars
<1>16. CASE Drained
  BY <1>16 DEF Drained, Inv, TypeOK, clientVars, historyVars
<1>17. CASE HandleLocal
  <2>1. Instructions' \in Seq(Id) /\ handled' \in Seq(Id)
    BY <1>17, Popped DEF HandleLocal, Handle, Inv
  <2> QED
    BY <1>17, <2>1 DEF HandleLocal, Handle, Inv, TypeOK, clientVars, historyVars
<1>18. CASE HandleFatal
  <2>1. Instructions' \in Seq(Id) /\ handled' \in Seq(Id)
    BY <1>18, Popped DEF HandleFatal, Inv
  <2>2. Ends /\ UNCHANGED <<split, victims, dropped>>
    BY <1>18 DEF HandleFatal
  <2> QED
    BY <2>1, <2>2, EndsType DEF Inv
<1>19. CASE RequestSends
  <2>1. Instructions' \in Seq(Id) /\ handled' \in Seq(Id)
    BY <1>19, Popped DEF RequestSends, Handle, Inv
  <2>2. pc = "drain" /\ StaleClosed \in [Fd -> Client \cup Kernel]
    BY <1>19, StaleFact DEF RequestSends, Handle, Dequeue
  <2>3. table' \in [Fd -> Client \cup Kernel] /\ RemoteFD' \in Fd \cup {-1}
    BY <1>19, <2>2 DEF RequestSends, Handle, Kernel
  <2>4. ready' \subseteq Client \cup {"listen"} /\ victims' \subseteq Client
    BY <1>19 DEF RequestSends, Handle, CloseStale, Inv, TypeOK
  <2> QED
    BY <1>19, <2>1, <2>2, <2>3, <2>4 DEF RequestSends, Handle, CloseStale, Inv, TypeOK,
       clientVars, historyVars
<1>20. CASE RequestFails
  <2>1. Instructions' \in Seq(Id) /\ handled' \in Seq(Id)
    BY <1>20, Popped DEF RequestFails, Handle, Inv
  <2>2. pc = "drain" /\ StaleClosed \in [Fd -> Client \cup Kernel]
    BY <1>20, StaleFact DEF RequestFails, Handle, Dequeue
  <2>3. table' \in [Fd -> Client \cup Kernel] /\ RemoteFD' \in Fd \cup {-1}
    BY <1>20, <2>2 DEF RequestFails, Handle, Kernel
  <2>4. ready' \subseteq Client \cup {"listen"} /\ victims' \subseteq Client
    BY <1>20 DEF RequestFails, Handle, CloseStale, Inv, TypeOK
  <2> QED
    BY <1>20, <2>1, <2>2, <2>3, <2>4 DEF RequestFails, Handle, CloseStale, Inv, TypeOK,
       clientVars, historyVars
<1>21. CASE RequestReturns
  BY <1>21 DEF RequestReturns, Inv, TypeOK, Kernel, clientVars, historyVars
<1>22. CASE StartFails
  <2>1. Instructions' \in Seq(Id) /\ handled' \in Seq(Id)
    BY <1>22 DEF StartFails, Inv, TypeOK, historyVars
  <2>2. Ends /\ UNCHANGED <<split, victims, dropped>>
    BY <1>22 DEF StartFails, historyVars
  <2> QED
    BY <2>1, <2>2, EndsType DEF Inv
<1>23. CASE Signal
  <2>1. Instructions' \in Seq(Id) /\ handled' \in Seq(Id)
    BY <1>23 DEF Signal, Inv, TypeOK, historyVars
  <2>2. Ends /\ UNCHANGED <<split, victims, dropped>>
    BY <1>23 DEF Signal, historyVars
  <2> QED
    BY <2>1, <2>2, EndsType DEF Inv
<1>24. CASE AcceptDrops
  <2>1. Tail(backlog) \in Seq(Client) /\ Head(backlog) \in Client
    BY <1>24, FirstInLine DEF Inv, AcceptDrops
  <2>2. dropped' \subseteq Client /\ events' \subseteq Fd
    BY <1>24, <2>1 DEF AcceptDrops, InAccept, Inv, TypeOK
  <2> QED
    BY <1>24, <2>1, <2>2 DEF AcceptDrops, InAccept, Inv, TypeOK, clientVars, historyVars
<1>25. ASSUME NEW c \in Client, RecvFails(c) PROVE TypeOK'
  BY <1>25 DEF RecvFails, RecvDone, Inv, TypeOK, Kernel, clientVars
<1>26. CASE RequestSendFails
  <2>1. Instructions' \in Seq(Id) /\ handled' \in Seq(Id)
    BY <1>26, Popped DEF RequestSendFails, Handle, Inv
  <2>2. pc = "drain" /\ StaleClosed \in [Fd -> Client \cup Kernel]
    BY <1>26, StaleFact DEF RequestSendFails, Handle, Dequeue
  <2>3. table' \in [Fd -> Client \cup Kernel] /\ RemoteFD' \in Fd \cup {-1}
    BY <1>26, <2>2 DEF RequestSendFails, Handle, Kernel
  <2>4. ready' \subseteq Client \cup {"listen"} /\ victims' \subseteq Client
    BY <1>26 DEF RequestSendFails, Handle, CloseStale, Inv, TypeOK
  <2> QED
    BY <1>26, <2>1, <2>2, <2>3, <2>4 DEF RequestSendFails, Handle, CloseStale, Inv, TypeOK,
       clientVars, historyVars
<1>27. CASE UNCHANGED vars
  BY <1>27 DEF vars, clientVars, historyVars, Inv, TypeOK, Id, Fd, Kernel, PhaseOK,
     TableOK, DescriptorsOK
<1> QED
  BY <1>1, <1>2, <1>3, <1>4, <1>5, <1>6, <1>7, <1>8, <1>9, <1>10, <1>11, <1>12, <1>13,
     <1>14, <1>15, <1>16, <1>17, <1>18, <1>19, <1>20, <1>21, <1>22, <1>23, <1>24, <1>25,
     <1>26, <1>27 DEF Next, Loop, Fault, ClientStep

\* The places of the program.
LEMMA NextPhaseOK == Inv /\ [Next]_vars => PhaseOK'
<1> SUFFICES ASSUME Inv, [Next]_vars PROVE PhaseOK'
  OBVIOUS
<1> USE TerminalAssumption
<1>1. ASSUME NEW c \in Client, Connect(c) PROVE PhaseOK'
  BY <1>1 DEF Connect, Inv, PhaseOK
<1>2. ASSUME NEW c \in Client, Send(c) PROVE PhaseOK'
  BY <1>2 DEF Send, Inv, PhaseOK
<1>3. ASSUME NEW c \in Client, ClientCloses(c) PROVE PhaseOK'
  BY <1>3 DEF ClientCloses, Inv, PhaseOK
<1>4. CASE Listen
  BY <1>4 DEF Listen, Inv, TypeOK, PhaseOK, Fd, Kernel
<1>5. CASE Register
  BY <1>5 DEF Register, Inv, PhaseOK
<1>6. CASE EpollWait
  BY <1>6 DEF EpollWait, Inv, PhaseOK
<1>7. CASE Accept
  BY <1>7 DEF Accept, InAccept, Inv, PhaseOK
<1>8. CASE AcceptFails
  BY <1>8 DEF AcceptFails, InAccept, Inv, PhaseOK
<1>9. CASE BeginRecv
  BY <1>9 DEF BeginRecv, Inv, TypeOK, PhaseOK
<1>10. ASSUME NEW c \in Client, Recv(c) PROVE PhaseOK'
  BY <1>10 DEF Recv, Inv, PhaseOK
<1>11. ASSUME NEW c \in Client, Parse(c) PROVE PhaseOK'
  BY <1>11 DEF Parse, Inv, PhaseOK
<1>12. ASSUME NEW c \in Client, ParseBreaks(c) PROVE PhaseOK'
  BY <1>12 DEF ParseBreaks, Inv, PhaseOK
<1>13. ASSUME NEW c \in Client, RecvAgain(c) PROVE PhaseOK'
  BY <1>13 DEF RecvAgain, ToRecv, RecvDone, Inv, PhaseOK
<1>14. ASSUME NEW c \in Client, RecvEnd(c) PROVE PhaseOK'
  BY <1>14 DEF RecvEnd, ToRecv, RecvDone, Inv, PhaseOK
<1>15. CASE EndEvents
  BY <1>15 DEF EndEvents, Inv, PhaseOK
<1>16. CASE Drained
  BY <1>16 DEF Drained, Inv, PhaseOK
<1>17. CASE HandleLocal
  BY <1>17 DEF HandleLocal, Handle, Inv, PhaseOK
<1>18. CASE HandleFatal
  BY <1>18 DEF HandleFatal, Ends, Inv, PhaseOK
<1>19. CASE RequestSends
  BY <1>19 DEF RequestSends, Handle, Dequeue, CloseStale, Inv, PhaseOK
<1>20. CASE RequestFails
  BY <1>20 DEF RequestFails, Handle, Dequeue, CloseStale, Inv, PhaseOK
<1>21. CASE RequestReturns
  BY <1>21 DEF RequestReturns, Inv, PhaseOK
<1>22. CASE StartFails
  BY <1>22 DEF StartFails, Ends, Inv, PhaseOK
<1>23. CASE Signal
  BY <1>23 DEF Signal, Ends, Inv, PhaseOK
<1>24. CASE AcceptDrops
  BY <1>24 DEF AcceptDrops, InAccept, Inv, PhaseOK
<1>25. ASSUME NEW c \in Client, RecvFails(c) PROVE PhaseOK'
  BY <1>25 DEF RecvFails, ToRecv, RecvDone, Inv, PhaseOK
<1>26. CASE RequestSendFails
  BY <1>26 DEF RequestSendFails, Handle, Dequeue, CloseStale, Inv, PhaseOK
<1>27. CASE UNCHANGED vars
  BY <1>27 DEF vars, clientVars, historyVars, Inv, TypeOK, PhaseOK, TableOK,
     DescriptorsOK, Fd, Kernel
<1> QED
  BY <1>1, <1>2, <1>3, <1>4, <1>5, <1>6, <1>7, <1>8, <1>9, <1>10, <1>11, <1>12, <1>13,
     <1>14, <1>15, <1>16, <1>17, <1>18, <1>19, <1>20, <1>21, <1>22, <1>23, <1>24, <1>25,
     <1>26, <1>27 DEF Next, Loop, Fault, ClientStep

\* The descriptor table: only free numbers are given out, and only a client's
\* or a free one is taken away by the stale close.
LEMMA NextTableOK == Inv /\ [Next]_vars => TableOK'
<1> SUFFICES ASSUME Inv, [Next]_vars PROVE TableOK'
  OBVIOUS
<1> USE TerminalAssumption
<1>1. ASSUME NEW c \in Client, Connect(c) PROVE TableOK'
  BY <1>1 DEF Connect, Inv, TableOK, DescriptorsOK
<1>2. ASSUME NEW c \in Client, Send(c) PROVE TableOK'
  BY <1>2 DEF Send, Inv, TableOK, DescriptorsOK
<1>3. ASSUME NEW c \in Client, ClientCloses(c) PROVE TableOK'
  BY <1>3 DEF ClientCloses, Inv, TableOK, DescriptorsOK
<1>4. CASE Listen
  <2>1. PICK e \in Fd, l \in Fd :
          /\ table[e] = "free" /\ [table EXCEPT ![e] = "epoll"][l] = "free"
          /\ table' = [table EXCEPT ![e] = "epoll", ![l] = "listen"]
          /\ EpollFD' = e /\ FD' = l
    BY <1>4 DEF Listen, Lowest
  <2>2. e # l /\ table[l] = "free"
    BY <2>1 DEF Inv, TypeOK
  <2>3. /\ table[0] = "std" /\ \A f \in Fd : table[f] = "std" => f = 0
        /\ \A f \in Fd : table[f] \in {"std", "free"}
        /\ RemoteFD = -1 /\ events = {}
    BY <1>4 DEF Inv, PhaseOK, TableOK, DescriptorsOK, Listen, Fd
  <2>4. /\ table'[e] = "epoll" /\ table'[l] = "listen"
        /\ \A f \in Fd \ {e, l} : table'[f] = table[f]
    BY <2>1, <2>2 DEF Inv, TypeOK
  <2>5. /\ table'[0] = "std"
        /\ \A f, g \in Fd : table'[f] = table'[g] /\ table'[f] # "free" => f = g
        /\ \A f \in Fd : table'[f] # "udp"
    <3>1. 0 \in Fd \ {e, l}
      BY <2>1, <2>2, <2>3 DEF Fd
    <3>2. \A f \in Fd \ {e, l} : table'[f] = "free" \/ (table'[f] = "std" /\ f = 0)
      BY <2>3, <2>4
    <3> QED
      BY <2>3, <2>4, <3>1, <3>2
  <2>6. pc' = "listening" /\ RemoteFD' = -1 /\ events' = {}
    BY <1>4, <2>3 DEF Listen
  <2>7. DescriptorsOK'
    BY <2>1, <2>4, <2>5, <2>6 DEF DescriptorsOK
  <2> QED
    BY <2>5, <2>6, <2>7 DEF TableOK
<1>5. CASE Register
  BY <1>5 DEF Register, Inv, TableOK, DescriptorsOK
<1>6. CASE EpollWait
  BY <1>6 DEF EpollWait, Live, Inv, TypeOK, PhaseOK, TableOK, DescriptorsOK
<1>7. CASE Accept
  BY <1>7 DEF Accept, InAccept, Inv, TypeOK, TableOK, DescriptorsOK, ConnectionsOK,
     Kernel, Lowest
<1>8. CASE AcceptFails
  BY <1>8 DEF AcceptFails, InAccept, Inv, TableOK, DescriptorsOK
<1>9. CASE BeginRecv
  BY <1>9 DEF BeginRecv, Inv, TableOK, DescriptorsOK
<1>10. ASSUME NEW c \in Client, Recv(c) PROVE TableOK'
  BY <1>10 DEF Recv, Inv, TableOK, DescriptorsOK
<1>11. ASSUME NEW c \in Client, Parse(c) PROVE TableOK'
  BY <1>11 DEF Parse, Inv, TableOK, DescriptorsOK
<1>12. ASSUME NEW c \in Client, ParseBreaks(c) PROVE TableOK'
  BY <1>12 DEF ParseBreaks, Inv, TableOK, DescriptorsOK
<1>13. ASSUME NEW c \in Client, RecvAgain(c) PROVE TableOK'
  BY <1>13 DEF RecvAgain, ToRecv, RecvDone, Inv, TableOK, DescriptorsOK
<1>14. ASSUME NEW c \in Client, RecvEnd(c) PROVE TableOK'
  BY <1>14 DEF RecvEnd, ToRecv, RecvDone, Inv, PhaseOK, TableOK, DescriptorsOK, Kernel
<1>15. CASE EndEvents
  BY <1>15 DEF EndEvents, Inv, TableOK, DescriptorsOK
<1>16. CASE Drained
  BY <1>16 DEF Drained, Inv, TableOK, DescriptorsOK
<1>17. CASE HandleLocal
  BY <1>17 DEF HandleLocal, Handle, Inv, TableOK, DescriptorsOK
<1>18. CASE HandleFatal
  BY <1>18 DEF HandleFatal, Ends, Inv, TableOK, DescriptorsOK
<1>19. CASE RequestSends
  <2>1. pc = "drain" /\ pc' = "request"
    BY <1>19 DEF RequestSends, Handle, Dequeue
  <2>2. PICK f \in Fd : /\ StaleClosed[f] = "free"
                       /\ table' = [StaleClosed EXCEPT ![f] = "udp"] /\ RemoteFD' = f
    BY <1>19 DEF RequestSends, Handle, Lowest
  <2>3. table'[f] = "udp" /\ \A g \in Fd \ {f} : table'[g] = StaleClosed[g]
    BY <2>1, <2>2, StaleFact
  <2>4. UNCHANGED <<EpollFD, FD, events>>
    BY <1>19 DEF RequestSends, Handle, CloseStale
  <2>5. /\ table'[0] = "std" /\ table'[EpollFD'] = "epoll" /\ table'[FD'] = "listen"
        /\ \A g, k \in Fd : table'[g] = table'[k] /\ table'[g] # "free" => g = k
    BY <2>1, <2>2, <2>3, <2>4, StaleTable
  <2>6. DescriptorsOK'
    BY <2>1, <2>4, <2>5, StaleTable DEF DescriptorsOK
  <2>7. RemoteFD' # -1
    BY <2>2 DEF Fd
  <2> QED
    BY <2>1, <2>2, <2>3, <2>6, <2>7 DEF TableOK
<1>20. CASE RequestFails
  <2>1. pc = "drain" /\ pc' = "drain" /\ table' = StaleClosed
    BY <1>20 DEF RequestFails, Handle, Dequeue
  <2>2. UNCHANGED <<EpollFD, FD, events>>
    BY <1>20 DEF RequestFails, Handle, CloseStale
  <2>3. DescriptorsOK'
    BY <2>1, <2>2, StaleTable DEF DescriptorsOK
  <2>4. RemoteFD' # -1 => table'[RemoteFD'] = "free"
    BY <1>20, <2>1 DEF RequestFails, Handle, Lowest
  <2> QED
    BY <2>1, <2>3, <2>4, StaleTable DEF TableOK
<1>21. CASE RequestReturns
  BY <1>21 DEF RequestReturns, Inv, TypeOK, PhaseOK, TableOK, DescriptorsOK
<1>22. CASE StartFails
  BY <1>22 DEF StartFails, Ends, Inv, TableOK, DescriptorsOK
<1>23. CASE Signal
  BY <1>23 DEF Signal, Ends, Inv, TableOK, DescriptorsOK
<1>24. CASE AcceptDrops
  BY <1>24 DEF AcceptDrops, InAccept, Inv, TableOK, DescriptorsOK
<1>25. ASSUME NEW c \in Client, RecvFails(c) PROVE TableOK'
  BY <1>25 DEF RecvFails, ToRecv, RecvDone, Inv, PhaseOK, TableOK, DescriptorsOK, Kernel
<1>26. CASE RequestSendFails
  <2>1. pc = "drain" /\ pc' = "drain" /\ table' = StaleClosed
    BY <1>26 DEF RequestSendFails, Handle, Dequeue
  <2>2. UNCHANGED <<EpollFD, FD, events>>
    BY <1>26 DEF RequestSendFails, Handle, CloseStale
  <2>3. DescriptorsOK'
    BY <2>1, <2>2, StaleTable DEF DescriptorsOK
  <2>4. RemoteFD' # -1 => table'[RemoteFD'] = "free"
    BY <1>26, <2>1 DEF RequestSendFails, Handle, Lowest
  <2> QED
    BY <2>1, <2>3, <2>4, StaleTable DEF TableOK
<1>27. CASE UNCHANGED vars
  BY <1>27 DEF vars, clientVars, historyVars, Inv, TypeOK, PhaseOK, TableOK,
     DescriptorsOK, ConnectionsOK, Fd, Kernel
<1> QED
  BY <1>1, <1>2, <1>3, <1>4, <1>5, <1>6, <1>7, <1>8, <1>9, <1>10, <1>11, <1>12, <1>13,
     <1>14, <1>15, <1>16, <1>17, <1>18, <1>19, <1>20, <1>21, <1>22, <1>23, <1>24, <1>25,
     <1>26, <1>27 DEF Next, Loop, Fault, ClientStep

\* The line for accept.
LEMMA NextConnectionsOK == Inv /\ [Next]_vars => ConnectionsOK'
<1> SUFFICES ASSUME Inv, [Next]_vars PROVE ConnectionsOK'
  OBVIOUS
<1> USE TerminalAssumption
<1>1. ASSUME NEW c \in Client, Connect(c) PROVE ConnectionsOK'
  <2>1. /\ status[c] = "new" /\ backlog' = Append(backlog, c) /\ table' = table
        /\ status' = [status EXCEPT ![c] = "connected"]
    BY <1>1 DEF Connect
  <2>2. \A i \in DOMAIN backlog : backlog[i] \in Client /\ backlog[i] # c
    BY <2>1 DEF Inv, TypeOK, ConnectionsOK
  <2>3. \A f \in Fd : table[f] # c
    BY <2>1 DEF Inv, ConnectionsOK
  <2>4. \A d \in Client : status'[d] = "new" => status[d] = "new" /\ d # c
    BY <2>1 DEF Inv, TypeOK
  <2>5. \A i \in DOMAIN backlog' :
          \/ i \in DOMAIN backlog /\ backlog'[i] = backlog[i]
          \/ i = Len(backlog) + 1 /\ backlog'[i] = c
    BY <2>1, LastInLine DEF Inv
  <2>6. \A i, j \in DOMAIN backlog' : backlog'[i] = backlog'[j] => i = j
    BY <2>2, <2>5 DEF Inv, ConnectionsOK
  <2>7. \A i \in DOMAIN backlog' : /\ status'[backlog'[i]] # "new"
                                  /\ \A f \in Fd : table'[f] # backlog'[i]
    BY <2>1, <2>2, <2>3, <2>4, <2>5 DEF Inv, ConnectionsOK
  <2>8. \A f \in Fd : table'[f] \in Client => status'[table'[f]] # "new"
    BY <2>1, <2>4 DEF Inv, ConnectionsOK
  <2> QED
    BY <2>6, <2>7, <2>8 DEF ConnectionsOK
<1>2. ASSUME NEW c \in Client, Send(c) PROVE ConnectionsOK'
  BY <1>2 DEF Send, Inv, ConnectionsOK
<1>3. ASSUME NEW c \in Client, ClientCloses(c) PROVE ConnectionsOK'
  <2>1. UNCHANGED <<table, backlog>> /\ status' = [status EXCEPT ![c] = "closed"]
    BY <1>3 DEF ClientCloses
  <2>2. \A d \in Client : status'[d] = "new" => status[d] = "new"
    BY <2>1 DEF Inv, TypeOK
  <2>3. \A i \in DOMAIN backlog : backlog[i] \in Client
    BY DEF Inv, TypeOK
  <2> QED
    BY <2>1, <2>2, <2>3 DEF Inv, ConnectionsOK
<1>4. CASE Listen
  <2>1. UNCHANGED <<backlog, status>>
    BY <1>4 DEF Listen, clientVars
  <2>2. \A f \in Fd : table'[f] \in Client => table'[f] = table[f]
    BY <1>4 DEF Listen, Inv, TypeOK, Kernel
  <2>3. \A i \in DOMAIN backlog : backlog[i] \in Client
    BY DEF Inv, TypeOK
  <2> QED
    BY <2>1, <2>2, <2>3 DEF Inv, ConnectionsOK
<1>5. CASE Register
  BY <1>5 DEF Register, Inv, ConnectionsOK, clientVars
<1>6. CASE EpollWait
  BY <1>6 DEF EpollWait, Inv, ConnectionsOK, clientVars
<1>7. CASE Accept
  <2>1. backlog # << >> /\ backlog' = Tail(backlog) /\ status' = status
    BY <1>7 DEF Accept, InAccept, clientVars
  <2>2. \A f \in Fd : table'[f] = table[f] \/ table'[f] = backlog[1]
    BY <1>7, <2>1, FirstInLine DEF Accept, Inv, TypeOK
  <2>3. \A i \in DOMAIN backlog' : /\ i + 1 \in DOMAIN backlog /\ backlog'[i] = backlog[i + 1]
                                  /\ i \in Nat /\ i + 1 # 1
    BY <2>1, FirstInLine DEF Inv
  <2>4. 1 \in DOMAIN backlog
    BY <2>1, FirstInLine DEF Inv
  <2>5. \A i, j \in DOMAIN backlog' : backlog'[i] = backlog'[j] => i = j
    BY <2>3 DEF Inv, ConnectionsOK
  <2>6. \A i \in DOMAIN backlog' : /\ status[backlog'[i]] # "new"
                                  /\ \A f \in Fd : table[f] # backlog'[i]
                                  /\ backlog'[i] # backlog[1]
    BY <2>3, <2>4 DEF Inv, ConnectionsOK
  <2>7. \A i \in DOMAIN backlog' : /\ status'[backlog'[i]] # "new"
                                  /\ \A f \in Fd : table'[f] # backlog'[i]
    BY <2>1, <2>2, <2>6
  <2>8. \A f \in Fd : table'[f] \in Client => status'[table'[f]] # "new"
    BY <2>1, <2>2, <2>4 DEF Inv, ConnectionsOK
  <2> QED
    BY <2>5, <2>7, <2>8 DEF ConnectionsOK
<1>8. CASE AcceptFails
  BY <1>8 DEF AcceptFails, InAccept, Inv, ConnectionsOK, clientVars
<1>9. CASE BeginRecv
  BY <1>9 DEF BeginRecv, Inv, ConnectionsOK, clientVars
<1>10. ASSUME NEW c \in Client, Recv(c) PROVE ConnectionsOK'
  BY <1>10 DEF Recv, Inv, ConnectionsOK, clientVars
<1>11. ASSUME NEW c \in Client, Parse(c) PROVE ConnectionsOK'
  BY <1>11 DEF Parse, Inv, ConnectionsOK, clientVars
<1>12. ASSUME NEW c \in Client, ParseBreaks(c) PROVE ConnectionsOK'
  BY <1>12 DEF ParseBreaks, Inv, ConnectionsOK, clientVars
<1>13. ASSUME NEW c \in Client, RecvAgain(c) PROVE ConnectionsOK'
  BY <1>13 DEF RecvAgain, RecvDone, Inv, ConnectionsOK, clientVars
<1>14. ASSUME NEW c \in Client, RecvEnd(c) PROVE ConnectionsOK'
  <2>1. UNCHANGED <<backlog, status>>
    BY <1>14 DEF RecvEnd, RecvDone, clientVars
  <2>2. \A f \in Fd : table'[f] \in Client => table'[f] = table[f]
    BY <1>14 DEF RecvEnd, Inv, TypeOK, Kernel
  <2>3. \A i \in DOMAIN backlog : backlog[i] \in Client
    BY DEF Inv, TypeOK
  <2> QED
    BY <2>1, <2>2, <2>3 DEF Inv, ConnectionsOK
<1>15. CASE EndEvents
  BY <1>15 DEF EndEvents, Inv, ConnectionsOK, clientVars
<1>16. CASE Drained
  BY <1>16 DEF Drained, Inv, ConnectionsOK, clientVars
<1>17. CASE HandleLocal
  BY <1>17 DEF HandleLocal, Handle, Inv, ConnectionsOK, clientVars
<1>18. CASE HandleFatal
  BY <1>18 DEF HandleFatal, Ends, Inv, ConnectionsOK, Kernel
<1>19. CASE RequestSends
  <2>1. UNCHANGED <<backlog, status>>
    BY <1>19 DEF RequestSends, Handle, CloseStale, clientVars
  <2>2. \A f \in Fd : table'[f] \in Client => table'[f] = table[f]
    <3>1. pc = "drain"
      BY <1>19 DEF RequestSends, Handle, Dequeue
    <3> QED
      BY <1>19, <3>1, StaleFact, StaleTable DEF RequestSends, Handle, Kernel
  <2>3. \A i \in DOMAIN backlog : backlog[i] \in Client
    BY DEF Inv, TypeOK
  <2> QED
    BY <2>1, <2>2, <2>3 DEF Inv, ConnectionsOK
<1>20. CASE RequestFails
  <2>1. UNCHANGED <<backlog, status>>
    BY <1>20 DEF RequestFails, Handle, CloseStale, clientVars
  <2>2. \A f \in Fd : table'[f] \in Client => table'[f] = table[f]
    BY <1>20, StaleTable DEF RequestFails, Handle, Dequeue
  <2>3. \A i \in DOMAIN backlog : backlog[i] \in Client
    BY DEF Inv, TypeOK
  <2> QED
    BY <2>1, <2>2, <2>3 DEF Inv, ConnectionsOK
<1>21. CASE RequestReturns
  BY <1>21 DEF RequestReturns, Inv, TypeOK, ConnectionsOK, Fd, Kernel, clientVars
<1>22. CASE StartFails
  BY <1>22 DEF StartFails, Ends, Inv, ConnectionsOK, Kernel
<1>23. CASE Signal
  BY <1>23 DEF Signal, Ends, Inv, ConnectionsOK, Kernel
<1>24. CASE AcceptDrops
  <2>1. backlog # << >> /\ backlog' = Tail(backlog) /\ status' = status
    BY <1>24 DEF AcceptDrops, InAccept, clientVars
  <2>2. \A f \in Fd : table'[f] = table[f] \/ table'[f] = backlog[1]
    BY <1>24, <2>1, FirstInLine DEF AcceptDrops, Inv, TypeOK
  <2>3. \A i \in DOMAIN backlog' : /\ i + 1 \in DOMAIN backlog /\ backlog'[i] = backlog[i + 1]
                                  /\ i \in Nat /\ i + 1 # 1
    BY <2>1, FirstInLine DEF Inv
  <2>4. 1 \in DOMAIN backlog
    BY <2>1, FirstInLine DEF Inv
  <2>5. \A i, j \in DOMAIN backlog' : backlog'[i] = backlog'[j] => i = j
    BY <2>3 DEF Inv, ConnectionsOK
  <2>6. \A i \in DOMAIN backlog' : /\ status[backlog'[i]] # "new"
                                  /\ \A f \in Fd : table[f] # backlog'[i]
                                  /\ backlog'[i] # backlog[1]
    BY <2>3, <2>4 DEF Inv, ConnectionsOK
  <2>7. \A i \in DOMAIN backlog' : /\ status'[backlog'[i]] # "new"
                                  /\ \A f \in Fd : table'[f] # backlog'[i]
    BY <2>1, <2>2, <2>6
  <2>8. \A f \in Fd : table'[f] \in Client => status'[table'[f]] # "new"
    BY <2>1, <2>2, <2>4 DEF Inv, ConnectionsOK
  <2> QED
    BY <2>5, <2>7, <2>8 DEF ConnectionsOK
<1>25. ASSUME NEW c \in Client, RecvFails(c) PROVE ConnectionsOK'
  <2>1. UNCHANGED <<backlog, status>>
    BY <1>25 DEF RecvFails, RecvDone, clientVars
  <2>2. \A f \in Fd : table'[f] \in Client => table'[f] = table[f]
    BY <1>25 DEF RecvFails, Inv, TypeOK, Kernel
  <2>3. \A i \in DOMAIN backlog : backlog[i] \in Client
    BY DEF Inv, TypeOK
  <2> QED
    BY <2>1, <2>2, <2>3 DEF Inv, ConnectionsOK
<1>26. CASE RequestSendFails
  <2>1. UNCHANGED <<backlog, status>>
    BY <1>26 DEF RequestSendFails, Handle, CloseStale, clientVars
  <2>2. \A f \in Fd : table'[f] \in Client => table'[f] = table[f]
    BY <1>26, StaleTable DEF RequestSendFails, Handle, Dequeue
  <2>3. \A i \in DOMAIN backlog : backlog[i] \in Client
    BY DEF Inv, TypeOK
  <2> QED
    BY <2>1, <2>2, <2>3 DEF Inv, ConnectionsOK
<1>27. CASE UNCHANGED vars
  BY <1>27 DEF vars, clientVars, historyVars, Inv, TypeOK, PhaseOK, TableOK,
     DescriptorsOK, ConnectionsOK, Fd, Kernel
<1> QED
  BY <1>1, <1>2, <1>3, <1>4, <1>5, <1>6, <1>7, <1>8, <1>9, <1>10, <1>11, <1>12, <1>13,
     <1>14, <1>15, <1>16, <1>17, <1>18, <1>19, <1>20, <1>21, <1>22, <1>23, <1>24, <1>25,
     <1>26, <1>27 DEF Next, Loop, Fault, ClientStep

\* Edges: recv reads until EAGAIN, so nothing is left behind that would need a
\* new edge.
LEMMA NextEdgesOK == Inv /\ [Next]_vars => EdgesOK'
<1> SUFFICES ASSUME Inv, [Next]_vars PROVE EdgesOK'
  OBVIOUS
<1> USE TerminalAssumption
<1>1. ASSUME NEW c \in Client, Connect(c) PROVE EdgesOK'
  BY <1>1 DEF Connect, Inv, PhaseOK, EdgesOK, HasEvent
<1>2. ASSUME NEW c \in Client, Send(c) PROVE EdgesOK'
  BY <1>2 DEF Send, Edge, Inv, EdgesOK, HasEvent, Open
<1>3. ASSUME NEW c \in Client, ClientCloses(c) PROVE EdgesOK'
  BY <1>3 DEF ClientCloses, Edge, Inv, EdgesOK, HasEvent, Open
<1>4. CASE Listen
  BY <1>4 DEF Listen, Lowest, Inv, TypeOK, PhaseOK, EdgesOK, Kernel
<1>5. CASE Register
  BY <1>5 DEF Register, Inv, PhaseOK, EdgesOK
<1>6. CASE EpollWait
  BY <1>6 DEF EpollWait, Live, Inv, PhaseOK, TableOK, DescriptorsOK, EdgesOK, HasEvent,
     Kernel, clientVars
<1>7. CASE Accept
  <2>1. backlog # << >> /\ pc = "events" /\ pc' = "events" /\ events' = events \ {FD}
        /\ UNCHANGED <<read, sent, status, reading>>
    BY <1>7 DEF Accept, InAccept, clientVars
  <2>2. PICK f \in Fd : table' = [table EXCEPT ![f] = Head(backlog)]
    BY <1>7 DEF Accept
  <2>3. Head(backlog) \in Client
    BY <2>1, FirstInLine DEF Inv
  <2>4. ready' = IF HasEvent(Head(backlog)) THEN ready \cup {Head(backlog)} ELSE ready
    BY <1>7 DEF Accept
  <2>6. FD \in Fd /\ table[FD] \notin Client
    BY <2>1, TerminalAssumption DEF Inv, PhaseOK, TableOK, DescriptorsOK, Kernel
  <2>7. ASSUME NEW g \in Fd, table'[g] \in Client, HasEvent(table[g])'
        PROVE  table'[g] \in ready' \/ g \in events'
    <3>1. HasEvent(table'[g])
      BY <2>1, <2>7, TerminalAssumption DEF HasEvent, Kernel
    <3>2. CASE g = f
      BY <2>2, <2>4, <3>1, <3>2 DEF Inv, TypeOK
    <3>3. CASE g # f
      BY <2>1, <2>2, <2>4, <2>6, <2>7, <3>1, <3>3 DEF Inv, TypeOK, EdgesOK
    <3> QED
      BY <3>2, <3>3
  <2> QED
    BY <2>7 DEF EdgesOK
<1>8. CASE AcceptFails
  BY <1>8 DEF AcceptFails, InAccept, Inv, TableOK, DescriptorsOK, EdgesOK, HasEvent,
     Kernel, clientVars
<1>9. CASE BeginRecv
  BY <1>9 DEF BeginRecv, Inv, EdgesOK, HasEvent, clientVars
<1>10. ASSUME NEW c \in Client, Recv(c) PROVE EdgesOK'
  BY <1>10 DEF Recv, Inv, EdgesOK, HasEvent, clientVars
<1>11. ASSUME NEW c \in Client, Parse(c) PROVE EdgesOK'
  BY <1>11 DEF Parse, Inv, EdgesOK, HasEvent, clientVars
<1>12. ASSUME NEW c \in Client, ParseBreaks(c) PROVE EdgesOK'
  BY <1>12 DEF ParseBreaks, Inv, EdgesOK, HasEvent, clientVars
<1>13. ASSUME NEW c \in Client, RecvAgain(c) PROVE EdgesOK'
  <2>1. /\ table[reading] = c /\ read[c] = sent[c] /\ status[c] # "closed"
        /\ pc = "recv" /\ pc' = "events"
        /\ UNCHANGED <<table, ready, events, backlog, read, sent, status>>
    BY <1>13 DEF RecvAgain, ToRecv, RecvDone, clientVars
  <2>2. \A d \in Client : HasEvent(d)' = HasEvent(d)
    BY <2>1 DEF HasEvent
  <2>3. ~HasEvent(c)
    BY <2>1, TerminalAssumption DEF HasEvent, Kernel, Inv, TypeOK
  <2> QED
    BY <2>1, <2>2, <2>3 DEF Inv, EdgesOK
<1>14. ASSUME NEW c \in Client, RecvEnd(c) PROVE EdgesOK'
  BY <1>14 DEF RecvEnd, ToRecv, RecvDone, Inv, TypeOK, PhaseOK, TableOK, DescriptorsOK,
     EdgesOK, HasEvent, Kernel, clientVars
<1>15. CASE EndEvents
  BY <1>15 DEF EndEvents, Inv, EdgesOK, HasEvent, clientVars
<1>16. CASE Drained
  BY <1>16 DEF Drained, Inv, EdgesOK, HasEvent, clientVars
<1>17. CASE HandleLocal
  BY <1>17 DEF HandleLocal, Handle, Inv, EdgesOK, HasEvent, clientVars
<1>18. CASE HandleFatal
  BY <1>18 DEF HandleFatal, Ends, Inv, EdgesOK
<1>19. CASE RequestSends
  <2>1. pc = "drain" /\ pc' \in {"drain", "request"}
    BY <1>19 DEF RequestSends, Handle, Dequeue
  <2>2. UNCHANGED <<events, backlog, read, sent, status>> /\ ready' = ready \ Stale
    BY <1>19 DEF RequestSends, Handle, CloseStale, clientVars
  <2>3. \A g \in Fd : table'[g] \in Client => table'[g] = table[g] /\ table[g] \notin Stale
    <3>1. \A g \in Fd : table'[g] \in Client => table'[g] = StaleClosed[g]
      BY <1>19, <2>1, StaleFact, TerminalAssumption DEF RequestSends, Handle, Kernel
    <3> QED
      BY <2>1, <3>1, StaleFact, TerminalAssumption DEF Kernel
  <2>4. \A d \in Client : HasEvent(d)' = HasEvent(d)
    BY <2>2 DEF HasEvent
  <2> QED
    BY <2>1, <2>2, <2>3, <2>4 DEF Inv, EdgesOK
<1>20. CASE RequestFails
  <2>1. pc = "drain" /\ pc' \in {"drain", "request"}
    BY <1>20 DEF RequestFails, Handle, Dequeue
  <2>2. UNCHANGED <<events, backlog, read, sent, status>> /\ ready' = ready \ Stale
    BY <1>20 DEF RequestFails, Handle, CloseStale, clientVars
  <2>3. \A g \in Fd : table'[g] \in Client => table'[g] = table[g] /\ table[g] \notin Stale
    <3>1. \A g \in Fd : table'[g] \in Client => table'[g] = StaleClosed[g]
      BY <1>20, <2>1, StaleFact, TerminalAssumption DEF RequestFails, Handle, Kernel
    <3> QED
      BY <2>1, <3>1, StaleFact, TerminalAssumption DEF Kernel
  <2>4. \A d \in Client : HasEvent(d)' = HasEvent(d)
    BY <2>2 DEF HasEvent
  <2> QED
    BY <2>1, <2>2, <2>3, <2>4 DEF Inv, EdgesOK
<1>21. CASE RequestReturns
  BY <1>21 DEF RequestReturns, Inv, EdgesOK, HasEvent, Kernel, clientVars
<1>22. CASE StartFails
  BY <1>22 DEF StartFails, Ends, Inv, EdgesOK
<1>23. CASE Signal
  BY <1>23 DEF Signal, Ends, Inv, EdgesOK
<1>24. CASE AcceptDrops
  BY <1>24 DEF AcceptDrops, InAccept, Inv, TableOK, DescriptorsOK, EdgesOK, HasEvent,
     Kernel, clientVars
<1>25. ASSUME NEW c \in Client, RecvFails(c) PROVE EdgesOK'
  BY <1>25 DEF RecvFails, ToRecv, RecvDone, Inv, TypeOK, PhaseOK, TableOK,
     DescriptorsOK, EdgesOK, HasEvent, Kernel, clientVars
<1>26. CASE RequestSendFails
  <2>1. pc = "drain" /\ pc' \in {"drain", "request"}
    BY <1>26 DEF RequestSendFails, Handle, Dequeue
  <2>2. UNCHANGED <<events, backlog, read, sent, status>> /\ ready' = ready \ Stale
    BY <1>26 DEF RequestSendFails, Handle, CloseStale, clientVars
  <2>3. \A g \in Fd : table'[g] \in Client => table'[g] = table[g] /\ table[g] \notin Stale
    <3>1. \A g \in Fd : table'[g] \in Client => table'[g] = StaleClosed[g]
      BY <1>26, <2>1, StaleFact, TerminalAssumption DEF RequestSendFails, Handle, Kernel
    <3> QED
      BY <2>1, <3>1, StaleFact, TerminalAssumption DEF Kernel
  <2>4. \A d \in Client : HasEvent(d)' = HasEvent(d)
    BY <2>2 DEF HasEvent
  <2> QED
    BY <2>1, <2>2, <2>3, <2>4 DEF Inv, EdgesOK
<1>27. CASE UNCHANGED vars
  BY <1>27 DEF vars, clientVars, historyVars, Inv, TypeOK, PhaseOK, TableOK,
     DescriptorsOK, ConnectionsOK, EdgesOK, HasEvent, Fd, Kernel
<1> QED
  BY <1>1, <1>2, <1>3, <1>4, <1>5, <1>6, <1>7, <1>8, <1>9, <1>10, <1>11, <1>12, <1>13,
     <1>14, <1>15, <1>16, <1>17, <1>18, <1>19, <1>20, <1>21, <1>22, <1>23, <1>24, <1>25,
     <1>26, <1>27 DEF Next, Loop, Fault, ClientStep

\* The search within what was received.
LEMMA NextPosOK == Inv /\ [Next]_vars => PosOK'
<1> SUFFICES ASSUME Inv, [Next]_vars PROVE PosOK'
  OBVIOUS
<1> USE TerminalAssumption
<1>1. ASSUME NEW c \in Client, Connect(c) PROVE PosOK'
  BY <1>1 DEF Connect, Inv, PosOK
<1>2. ASSUME NEW c \in Client, Send(c) PROVE PosOK'
  BY <1>2 DEF Send, Inv, PosOK
<1>3. ASSUME NEW c \in Client, ClientCloses(c) PROVE PosOK'
  BY <1>3 DEF ClientCloses, Inv, PosOK
<1>4. CASE Listen
  BY <1>4 DEF Listen, Inv, PosOK
<1>5. CASE Register
  BY <1>5 DEF Register, Inv, PosOK
<1>6. CASE EpollWait
  BY <1>6 DEF EpollWait, Inv, PosOK
<1>7. CASE Accept
  BY <1>7 DEF Accept, InAccept, Inv, PosOK
<1>8. CASE AcceptFails
  BY <1>8 DEF AcceptFails, InAccept, Inv, PosOK
<1>9. CASE BeginRecv
  BY <1>9 DEF BeginRecv, Inv, TypeOK, PosOK
<1>10. ASSUME NEW c \in Client, Recv(c) PROVE PosOK'
  BY <1>10 DEF Recv, Inv, TypeOK, PosOK
<1>11. ASSUME NEW c \in Client, Parse(c) PROVE PosOK'
  BY <1>11 DEF Parse, Inv, PosOK
<1>12. ASSUME NEW c \in Client, ParseBreaks(c) PROVE PosOK'
  BY <1>12 DEF ParseBreaks, Inv, TypeOK, PosOK
<1>13. ASSUME NEW c \in Client, RecvAgain(c) PROVE PosOK'
  BY <1>13 DEF RecvAgain, RecvDone, Inv, PosOK
<1>14. ASSUME NEW c \in Client, RecvEnd(c) PROVE PosOK'
  BY <1>14 DEF RecvEnd, RecvDone, Inv, PosOK
<1>15. CASE EndEvents
  BY <1>15 DEF EndEvents, Inv, PosOK
<1>16. CASE Drained
  BY <1>16 DEF Drained, Inv, PosOK
<1>17. CASE HandleLocal
  BY <1>17 DEF HandleLocal, Handle, Inv, PosOK
<1>18. CASE HandleFatal
  BY <1>18 DEF HandleFatal, Ends, Inv, PosOK
<1>19. CASE RequestSends
  BY <1>19 DEF RequestSends, Handle, Inv, PosOK
<1>20. CASE RequestFails
  BY <1>20 DEF RequestFails, Handle, Dequeue, Inv, PosOK
<1>21. CASE RequestReturns
  BY <1>21 DEF RequestReturns, Inv, PosOK
<1>22. CASE StartFails
  BY <1>22 DEF StartFails, Ends, Inv, PosOK
<1>23. CASE Signal
  BY <1>23 DEF Signal, Ends, Inv, PosOK
<1>24. CASE AcceptDrops
  BY <1>24 DEF AcceptDrops, InAccept, Inv, PosOK
<1>25. ASSUME NEW c \in Client, RecvFails(c) PROVE PosOK'
  BY <1>25 DEF RecvFails, RecvDone, Inv, PosOK
<1>26. CASE RequestSendFails
  BY <1>26 DEF RequestSendFails, Handle, Dequeue, Inv, PosOK
<1>27. CASE UNCHANGED vars
  BY <1>27 DEF vars, clientVars, historyVars, Inv, TypeOK, PhaseOK, PosOK, Fd, Kernel
<1> QED
  BY <1>1, <1>2, <1>3, <1>4, <1>5, <1>6, <1>7, <1>8, <1>9, <1>10, <1>11, <1>12, <1>13,
     <1>14, <1>15, <1>16, <1>17, <1>18, <1>19, <1>20, <1>21, <1>22, <1>23, <1>24, <1>25,
     <1>26, <1>27 DEF Next, Loop, Fault, ClientStep

\* The queue: only Parse appends to it and only ParseBreaks skips anything.
LEMMA NextQueueOK == Inv /\ [Next]_vars => QueueOK'
<1> SUFFICES ASSUME Inv, [Next]_vars PROVE QueueOK'
  OBVIOUS
<1> USE TerminalAssumption
<1>1. ASSUME NEW c \in Client, Connect(c) PROVE QueueOK'
  BY <1>1, QueueKeptOK DEF Connect, QueueKept, Inv, TypeOK, Parsed, All, clientVars,
     historyVars
<1>2. ASSUME NEW c \in Client, Send(c) PROVE QueueOK'
  BY <1>2, QueueKeptOK DEF Send, QueueKept, Inv, Parsed, All, historyVars
<1>3. ASSUME NEW c \in Client, ClientCloses(c) PROVE QueueOK'
  BY <1>3, QueueKeptOK DEF ClientCloses, QueueKept, Inv, Parsed, All, historyVars
<1>4. CASE Listen
  BY <1>4, QueueKeptOK DEF Listen, QueueKept, Inv, Parsed, All, clientVars, historyVars
<1>5. CASE Register
  BY <1>5, QueueKeptOK DEF Register, QueueKept, Inv, Parsed, All, clientVars, historyVars
<1>6. CASE EpollWait
  BY <1>6, QueueKeptOK DEF EpollWait, QueueKept, Inv, Parsed, All, clientVars, historyVars
<1>7. CASE Accept
  BY <1>7, QueueKeptOK DEF Accept, InAccept, QueueKept, Inv, Parsed, All, clientVars
<1>8. CASE AcceptFails
  BY <1>8, QueueKeptOK DEF AcceptFails, InAccept, QueueKept, Inv, Parsed, All, clientVars
<1>9. CASE BeginRecv
  BY <1>9, QueueKeptOK DEF BeginRecv, QueueKept, Inv, Parsed, All, clientVars, historyVars
<1>10. ASSUME NEW c \in Client, Recv(c) PROVE QueueOK'
  BY <1>10, QueueKeptOK DEF Recv, ToRecv, QueueKept, Inv, Parsed, All, clientVars,
     historyVars
<1>11. ASSUME NEW c \in Client, Parse(c) PROVE QueueOK'
  BY <1>11, ParseQueue
<1>12. ASSUME NEW c \in Client, ParseBreaks(c) PROVE QueueOK'
  BY <1>12, ParseBreaksQueue
<1>13. ASSUME NEW c \in Client, RecvAgain(c) PROVE QueueOK'
  BY <1>13, QueueKeptOK DEF RecvAgain, ToRecv, RecvDone, QueueKept, Inv, Parsed, All,
     clientVars
<1>14. ASSUME NEW c \in Client, RecvEnd(c) PROVE QueueOK'
  BY <1>14, QueueKeptOK DEF RecvEnd, ToRecv, RecvDone, QueueKept, Inv, Parsed, All,
     clientVars
<1>15. CASE EndEvents
  BY <1>15, QueueKeptOK DEF EndEvents, QueueKept, Inv, Parsed, All, clientVars,
     historyVars
<1>16. CASE Drained
  BY <1>16, QueueKeptOK DEF Drained, QueueKept, Inv, Parsed, All, clientVars, historyVars
<1>17. CASE HandleLocal
  <2>1. All' = All /\ pc = "drain"
    BY <1>17, Popped DEF HandleLocal, Handle, Dequeue, Inv, All
  <2>2. UNCHANGED <<text, split, read>> /\ pc' # "recv"
    BY <1>17, <2>1 DEF HandleLocal, Handle, clientVars
  <2>3. QueueKept
    BY <2>1, <2>2 DEF QueueKept, Parsed
  <2> QED
    BY <2>3, QueueKeptOK
<1>18. CASE HandleFatal
  <2>1. All' = All /\ pc = "drain"
    BY <1>18, Popped DEF HandleFatal, Dequeue, Inv, All
  <2>2. UNCHANGED <<text, split, read>> /\ pc' # "recv"
    BY <1>18, <2>1 DEF HandleFatal, Ends, clientVars
  <2>3. QueueKept
    BY <2>1, <2>2 DEF QueueKept, Parsed
  <2> QED
    BY <2>3, QueueKeptOK
<1>19. CASE RequestSends
  <2>1. All' = All /\ pc = "drain"
    BY <1>19, Popped DEF RequestSends, Handle, Dequeue, Inv, All
  <2>2. UNCHANGED <<text, split, read>> /\ pc' # "recv"
    BY <1>19, <2>1 DEF RequestSends, Handle, CloseStale, clientVars
  <2>3. QueueKept
    BY <2>1, <2>2 DEF QueueKept, Parsed
  <2> QED
    BY <2>3, QueueKeptOK
<1>20. CASE RequestFails
  <2>1. All' = All /\ pc = "drain"
    BY <1>20, Popped DEF RequestFails, Handle, Dequeue, Inv, All
  <2>2. UNCHANGED <<text, split, read>> /\ pc' # "recv"
    BY <1>20, <2>1 DEF RequestFails, Handle, CloseStale, clientVars
  <2>3. QueueKept
    BY <2>1, <2>2 DEF QueueKept, Parsed
  <2> QED
    BY <2>3, QueueKeptOK
<1>21. CASE RequestReturns
  BY <1>21, QueueKeptOK DEF RequestReturns, QueueKept, Inv, Parsed, All, clientVars,
     historyVars
<1>22. CASE StartFails
  BY <1>22, QueueKeptOK DEF StartFails, Ends, QueueKept, Inv, Parsed, All, clientVars,
     historyVars
<1>23. CASE Signal
  BY <1>23, QueueKeptOK DEF Signal, Ends, QueueKept, Inv, Parsed, All, clientVars,
     historyVars
<1>24. CASE AcceptDrops
  BY <1>24, QueueKeptOK DEF AcceptDrops, InAccept, QueueKept, Inv, Parsed, All, clientVars
<1>25. ASSUME NEW c \in Client, RecvFails(c) PROVE QueueOK'
  BY <1>25, QueueKeptOK DEF RecvFails, ToRecv, RecvDone, QueueKept, Inv, Parsed, All,
     clientVars
<1>26. CASE RequestSendFails
  <2>1. All' = All /\ pc = "drain"
    BY <1>26, Popped DEF RequestSendFails, Handle, Dequeue, Inv, All
  <2>2. UNCHANGED <<text, split, read>> /\ pc' # "recv"
    BY <1>26, <2>1 DEF RequestSendFails, Handle, CloseStale, clientVars
  <2>3. QueueKept
    BY <2>1, <2>2 DEF QueueKept, Parsed
  <2> QED
    BY <2>3, QueueKeptOK
<1>27. CASE UNCHANGED vars
  BY <1>27, QueueKeptOK DEF vars, clientVars, historyVars, QueueKept, Inv, TypeOK,
     Parsed, All
<1> QED
  BY <1>1, <1>2, <1>3, <1>4, <1>5, <1>6, <1>7, <1>8, <1>9, <1>10, <1>11, <1>12, <1>13,
     <1>14, <1>15, <1>16, <1>17, <1>18, <1>19, <1>20, <1>21, <1>22, <1>23, <1>24, <1>25,
     <1>26, <1>27 DEF Next, Loop, Fault, ClientStep

--------------------------------------------------------------------------------
(* The theorems *)

\* Before it has done anything, the process has searched nothing.
LEMMA InitInv == Init => Inv
<1> SUFFICES ASSUME Init PROVE Inv
  OBVIOUS
<1> USE TerminalAssumption
<1>1. TypeOK
  <2>1. text \in [Client -> Seq(Kind)]
    BY DEF Init
  <2>2. \A c \in Client : Len(text[c]) \in Nat
    BY <2>1, LenProperties
  <2>3. handled \in Seq(Id) /\ Instructions \in Seq(Id) /\ backlog \in Seq(Client)
    BY EmptySeq DEF Init
  <2> QED
    BY <2>1, <2>2, <2>3 DEF Init, TypeOK, Fd, Kernel, RemoteInit
<1>2. DOMAIN backlog = {}
  BY DEF Init
<1>3. PhaseOK /\ TableOK /\ ConnectionsOK /\ EdgesOK /\ PosOK
  BY <1>2 DEF Init, PhaseOK, TableOK, DescriptorsOK, ConnectionsOK, EdgesOK, PosOK,
              Fd, Kernel, RemoteInit
<1>4. \A c \in Client : Parsed(c) = 0
  BY DEF Init, Parsed
<1>5. All = << >>
  BY ConcatEmptySeq, EmptySeq DEF Init, All
<1>6. OrderOK
  BY <1>5 DEF OrderOK, ClientOrder, All
<1>7. SplitOK /\ NothingOverlooked
  BY <1>1, <1>4, LenProperties DEF SplitOK, NothingOverlooked, TypeOK
<1> QED
  BY <1>1, <1>3, <1>6, <1>7 DEF Inv, QueueOK

\* Inv is inductive.
LEMMA InvInvariant == Spec => []Inv
<1>1. Init => Inv
  BY InitInv
<1>2. Inv /\ [Next]_vars => Inv'
  <2> SUFFICES ASSUME Inv, [Next]_vars PROVE Inv'
    OBVIOUS
  <2>1. TypeOK' /\ PhaseOK' /\ TableOK' /\ ConnectionsOK'
    BY NextTypeOK, NextPhaseOK, NextTableOK, NextConnectionsOK
  <2>2. EdgesOK' /\ PosOK' /\ QueueOK'
    BY NextEdgesOK, NextPosOK, NextQueueOK
  <2> QED
    BY <2>1, <2>2 DEF Inv
<1> QED
  BY <1>1, <1>2, PTL DEF Spec

\* The terminal's variables keep their types.
THEOREM TerminalTypeCorrect == Spec => []TypeOK
<1>1. Inv => TypeOK
  BY DEF Inv
<1> QED
  BY <1>1, InvInvariant, PTL

\* Whatever Request's stale close and accept's reuse of numbers do to clients,
\* the standard streams, the epoll instance and the listening socket are never
\* closed by mistake, and no connection has two descriptors.
THEOREM DescriptorsIntact == Spec => []DescriptorsOK
<1>1. Inv => DescriptorsOK
  BY DEF Inv, TableOK
<1> QED
  BY <1>1, InvInvariant, PTL

\* When the terminal sleeps in epoll_wait, every accepted client that it has
\* not read to the end will wake it: reading until EAGAIN is enough for
\* EPOLLET, for any number of clients and of events per epoll_wait.
THEOREM EdgesAreKept == Spec => []NoLostEdge
<1>1. Inv => NoLostEdge
  <2> SUFFICES ASSUME Inv, pc = "wait", NEW c \in Client, NEW f \in Fd,
                      table[f] = c, HasEvent(c)
               PROVE  c \in ready
    BY DEF NoLostEdge, Open
  <2>1. events = {}
    BY DEF Inv, PhaseOK
  <2> QED
    BY <2>1 DEF Inv, EdgesOK
<1> QED
  BY <1>1, InvInvariant, PTL

\* However what a client sends is cut into buffers, each instruction received
\* is queued, invalid, or split between two of them.
THEOREM NothingIsOverlooked == Spec => []NothingOverlooked
<1>1. Inv => NothingOverlooked
  BY DEF Inv, QueueOK
<1> QED
  BY <1>1, InvInvariant, PTL

\* Each client's instructions are handled in its order, none of them twice.
THEOREM ClientsInOrder == Spec => []ClientOrder
<1>1. Inv => ClientOrder
  BY DEF Inv, QueueOK, OrderOK
<1> QED
  BY <1>1, InvInvariant, PTL

================================================================================
