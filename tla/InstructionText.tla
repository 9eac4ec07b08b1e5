---------------------------- MODULE InstructionText ----------------------------
(*****************************************************************************)
(* Instructions as text: LoggerInstruction::Serialize, the search for        *)
(* brackets in TerminalUserInterface::Start, and Deserialize, between a      *)
(* client and the terminal, which reads the stream in whatever pieces recv   *)
(* returns.  Nothing is escaped (the results of stringReplace in Serialize   *)
(* and in Deserialize are discarded), and a piece is searched on its own, so *)
(* messages with brackets and instructions cut in two must not disturb their *)
(* neighbours.  TerminalUserInterface takes this for granted where it calls  *)
(* an instruction valid or not by itself.                                    *)
(*                                                                           *)
(* A text is a sequence of characters, of which only those that the code     *)
(* looks for are told apart; "num" stands for the four integers of an        *)
(* instruction, "nl" for a newline.                                          *)
(*****************************************************************************)
EXTENDS Sequences, Integers

CONSTANTS
    Char,        \* the characters of messages
    Text,        \* the messages a client may send
    BufferSize,  \* the size of Start's buffer
    MaxSent      \* bound: instructions sent

ASSUME InstructionTextAssumption ==
    /\ {"[", "]", "(", ")", "nl", "num"} \subseteq Char
    /\ Text \subseteq Seq(Char)
    /\ BufferSize \in Nat \ {0}
    /\ MaxSent \in Nat

VARIABLES
    sent,    \* the messages sent, with the place of each in the stream
    stream,  \* what the client has written to its connection
    got,     \* how much of it the terminal has received
    pos,     \* where the search goes on; behind got: recv is next
    split,   \* the messages that a buffer ended inside
    queue    \* Instructions: the data, and where in the stream it was found

vars == <<sent, stream, got, pos, split, queue>>

TypeOK ==
    /\ sent \in Seq([text : Text, first : Nat, last : Nat])
    /\ Len(sent) <= MaxSent
    /\ stream \in Seq(Char)
    /\ got \in 0..Len(stream)
    /\ pos \in 1..(got + 1)
    /\ split \subseteq DOMAIN sent
    /\ queue \in Seq([data : Seq(Char), at : 1..got])

Init ==
    /\ sent = << >>
    /\ stream = << >>
    /\ got = 0
    /\ pos = 1
    /\ split = {}
    /\ queue = << >>

--------------------------------------------------------------------------------
(* LoggerInstruction *)

Serialize(text) == <<"[", "num", "(">> \o text \o <<")", "]">>

\* find(c, from) returns i.
Finds(str, c, from, i) ==
    /\ i \in from..Len(str)
    /\ str[i] = c
    /\ \A j \in from..(i - 1) : str[j] # c

\* Mutant: the data is taken to end at the last closing parenthesis.
Deserializes_LastParenthesis(input, open, close) ==
    \E n \in DOMAIN input :
        /\ input[n] = "num"
        /\ \A i \in 2..(n - 1) : input[i] = "nl"
        /\ Finds(input, "(", n + 1, open)
        /\ close \in (n + 1)..Len(input) /\ input[close] = ")"
        /\ \A i \in (close + 1)..Len(input) : input[i] # ")"
        /\ open < close
        /\ \A i \in n..close : input[i] # "nl"

\* The data of an input that starts with a bracket is what the parentheses at
\* open and close enclose: both are the first after the integers, on the same
\* line.  An input without such places is invalid.
Deserializes(input, open, close) ==
    \E n \in DOMAIN input :
        /\ input[n] = "num"
        /\ \A i \in 2..(n - 1) : input[i] = "nl"
        /\ Finds(input, "(", n + 1, open)
        /\ Finds(input, ")", n + 1, close)
        /\ open < close
        /\ \A i \in n..close : input[i] # "nl"

Data(input, open, close) == SubSeq(input, open + 1, close - 1)

--------------------------------------------------------------------------------
(* The client and the terminal *)

Send(text) ==
    /\ Len(sent) < MaxSent
    /\ stream' = stream \o Serialize(text)
    /\ sent' = Append(sent, [text |-> text,
                             first |-> Len(stream) + 1,
                             last |-> Len(stream')])
    /\ UNCHANGED <<got, pos, split, queue>>

\* Mutant: the buffer is not emptied and searched again from its beginning.
Recv_Appends ==
    /\ pos = got + 1
    /\ got' \in (got + 1)..Len(stream)
    /\ got' - got <= BufferSize
    /\ pos' = 1
    /\ split' = split \cup {k \in DOMAIN sent : got' \in sent[k].first..(sent[k].last - 1)}
    /\ UNCHANGED <<sent, stream, queue>>

Recv ==
    /\ pos = got + 1
    /\ got' \in (got + 1)..Len(stream)
    /\ got' - got <= BufferSize
    /\ split' = split \cup {k \in DOMAIN sent : got' \in sent[k].first..(sent[k].last - 1)}
    /\ UNCHANGED <<sent, stream, pos, queue>>

\* What has been received; the current buffer starts at pos.
Received == SubSeq(stream, 1, got)

\* Mutant: the first closing bracket of the buffer is taken.
Found_AnyClose(start, end) ==
    /\ Finds(Received, "[", pos, start)
    /\ Finds(Received, "]", pos, end)
    /\ start < end

Found(start, end) ==
    /\ Finds(Received, "[", pos, start)
    /\ Finds(Received, "]", start, end)

\* Mutant: an invalid instruction ends the search, as an exception would that
\* is caught outside of the loop.
Parse_Stops(start, end) ==
    /\ Found(start, end)
    /\ LET input == SubSeq(stream, start, end) IN
       \/ /\ \E open, close \in DOMAIN input :
                /\ Deserializes(input, open, close)
                /\ queue' = Append(queue, [data |-> Data(input, open, close), at |-> start])
          /\ pos' = end + 1
       \/ /\ ~\E open, close \in DOMAIN input : Deserializes(input, open, close)
          /\ pos' = got + 1
          /\ UNCHANGED queue
    /\ UNCHANGED <<sent, stream, got, split>>

Parse(start, end) ==
    /\ Found(start, end)
    /\ pos' = end + 1
    /\ LET input == SubSeq(stream, start, end) IN
       \/ \E open, close \in DOMAIN input :
              /\ Deserializes(input, open, close)
              /\ queue' = Append(queue, [data |-> Data(input, open, close), at |-> start])
       \/ /\ ~\E open, close \in DOMAIN input : Deserializes(input, open, close)
          /\ UNCHANGED queue
    /\ UNCHANGED <<sent, stream, got, split>>

\* Mutant: a closing bracket that is missing is taken to follow the buffer.
ParseBreaks_Past ==
    /\ pos <= got
    /\ ~\E start, end \in pos..got : Found(start, end)
    /\ pos' = got + 2
    /\ UNCHANGED <<sent, stream, got, split, queue>>

\* No bracket, or none that closes: the rest of the buffer is dropped.
ParseBreaks ==
    /\ pos <= got
    /\ ~\E start, end \in pos..got : Found(start, end)
    /\ pos' = got + 1
    /\ UNCHANGED <<sent, stream, got, split, queue>>

Next ==
    \/ \E text \in Text : Send(text)
    \/ Recv
    \/ \E start, end \in pos..got : Parse(start, end)
    \/ ParseBreaks

Spec == Init /\ [][Next]_vars

--------------------------------------------------------------------------------
(* Properties *)

\* What of a message gets through Serialize and Deserialize: what precedes its
\* first closing parenthesis.
GetsThrough(text, data) ==
    \E n \in 0..Len(text) :
        /\ data = SubSeq(text, 1, n)
        /\ n = Len(text) \/ text[n + 1] = ")"
        /\ \A i \in 1..n : text[i] \notin {")", "]", "nl"}

\* The messages that arrived in one piece and that the search is through with.
Scanned == {k \in DOMAIN sent : sent[k].last < pos} \ split

Taken(k) ==
    \A data \in {SubSeq(sent[k].text, 1, n) : n \in 0..Len(sent[k].text)} :
        GetsThrough(sent[k].text, data) <=>
            \E q \in DOMAIN queue : queue[q] = [data |-> data, at |-> sent[k].first]

\* A message that arrives in one piece is taken for what it is, whatever other
\* messages contain and wherever the buffers cut them: what gets through of it
\* is queued, and if nothing does, nothing else is queued in its place.
TakenForWhatItIs == \A k \in Scanned : Taken(k)

\* A message that quotes the beginning of an instruction.
Quotes(text) ==
    \E i, j \in DOMAIN text :
        /\ i < j
        /\ text[i] = "[" /\ text[j] = "num"
        /\ \A m \in (i + 1)..(j - 1) : text[m] = "nl"

\* Only messages are taken for instructions, each once and in the order in which
\* they were sent; pieces of messages never are, unless they quote one.
NothingMadeUp ==
    /\ \A q \in DOMAIN queue : \E k \in DOMAIN sent :
          /\ queue[q].at \in sent[k].first..sent[k].last
          /\ queue[q].at = sent[k].first \/ Quotes(sent[k].text)
    /\ \A q, r \in DOMAIN queue : q < r => queue[q].at < queue[r].at

================================================================================
