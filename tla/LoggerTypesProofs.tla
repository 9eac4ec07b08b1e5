--------------------------- MODULE LoggerTypesProofs ---------------------------
(*****************************************************************************)
(* What the conversions of LoggerTypes return, for texts of any length.       *)
(*****************************************************************************)
EXTENDS LoggerTypes, TLAPS, FiniteSetTheorems, SequenceTheorems

\* SerializeSeverity returns a label, garbage included.
LEMMA SerializeSeverityType ==
    ASSUME NEW s \in Int
    PROVE  SerializeSeverity(s) \in Label
<1> DEFINE names == <<"", "DEBUG", "INFO", "WARNING", "ERROR", "CRITICAL">>
<1>1. CASE s \in Severity
  <2>1. \A i \in {1, 2, 3, 4, 5, 6} : names[i] \in Label
    <3>1. /\ names[1] \in Label /\ names[2] \in Label /\ names[3] \in Label
          /\ names[4] \in Label /\ names[5] \in Label /\ names[6] \in Label
      BY DEF Label
    <3> HIDE DEF names
    <3> QED BY <3>1
  <2>2. s + 1 \in {1, 2, 3, 4, 5, 6}
    BY <1>1 DEF Severity
  <2>3. SerializeSeverity(s) = names[s + 1]
    BY <1>1 DEF SerializeSeverity
  <2> HIDE DEF names
  <2> QED
    BY <2>1, <2>2, <2>3
<1>2. CASE s \notin Severity
  BY <1>2 DEF SerializeSeverity, Label
<1> QED
  BY <1>1, <1>2

\* The special characters and the labels may stand in a text.
LEMMA SpecialTokens ==
    /\ "nl" \in Token /\ "esc" \in Token /\ "sp" \in Token /\ "bad" \in Token
    /\ "nul" \in Token
    /\ Label \subseteq Token /\ Host \subseteq Token /\ Pid \subseteq Token
BY DEF Token, Special

\* stringReplace changes tokens and nothing else.
LEMMA stringReplaceType ==
    ASSUME NEW str \in Text, NEW from \in Token, NEW to \in Token
    PROVE  /\ stringReplace(str, from, to) \in Text
           /\ Len(stringReplace(str, from, to)) = Len(str)
<1>1. stringReplace(str, from, to) \in [1..Len(str) -> Token]
  BY DEF stringReplace, Text
<1>2. Len(str) \in Nat
  BY DEF Text
<1> QED
  BY <1>1, <1>2 DEF Text

\* UpTo returns a beginning of the text.
LEMMA UpToType ==
    ASSUME NEW str \in Text, NEW token
    PROVE  UpTo(str, token) \in Text
<1> DEFINE first == {i \in DOMAIN str : \A j \in 1..i : str[j] # token}
<1>1. first \subseteq 1..Len(str) /\ Len(str) \in Nat
  BY DEF Text
<1>2. IsFiniteSet(1..Len(str)) /\ Cardinality(1..Len(str)) = Len(str)
  <2>1. /\ IsFiniteSet(1..Len(str))
        /\ Cardinality(1..Len(str)) = IF 1 > Len(str) THEN 0 ELSE Len(str) - 1 + 1
    <3>1. 1 \in Int /\ Len(str) \in Int
      BY <1>1
    <3> QED BY <3>1, FS_Interval
  <2> QED
    BY <1>1, <2>1
<1>3. Cardinality(first) \in Nat /\ Cardinality(first) <= Len(str)
  BY <1>1, <1>2, FS_Subset, FS_CardinalityType
<1>4. SubSeq(str, 1, Cardinality(first)) \in Seq(Token)
  <2> HIDE DEF first
  <2> QED BY <1>3, SubSeqProperties DEF Text
<1> QED
  BY <1>4 DEF UpTo, Text

\* What is left of a datagram in the buffer is a text.
LEMMA ReceivedType ==
    ASSUME NEW str \in Text, NEW size \in Nat \ {0}, NEW line \in Received(str, size)
    PROVE  line \in Text
<1>1. CASE Len(str) <= size
  BY <1>1, UpToType DEF Received, CString
<1>2. CASE ~(Len(str) <= size)
  <2>1. SubSeq(str, 1, size) \in Seq(Token) /\ SubSeq(str, 1, size - 1) \in Seq(Token)
    BY <1>2 DEF Text
  <2>2. <<"bad">> \in Seq(Token)
    BY SpecialTokens
  <2>3. SubSeq(str, 1, size) \in Text /\ SubSeq(str, 1, size - 1) \o <<"bad">> \in Text
    BY <2>1, <2>2 DEF Text
  <2> QED
    BY <1>2, <2>3, UpToType DEF Received, CString
<1> QED
  BY <1>1, <1>2

\* Deserialize makes a text of what was received.
LEMMA DeserializeDataType ==
    ASSUME NEW line \in Text
    PROVE  DeserializeData(line) \in Text
<1>1. stringReplace(getline(line), "esc", "nl") \in Seq(Token)
  BY UpToType, stringReplaceType, SpecialTokens DEF Text, getline
<1>2. <<"sp">> \in Seq(Token)
  BY SpecialTokens
<1> QED
  BY <1>1, <1>2 DEF DeserializeData, Text

\* A request that carries a text is sent as a datagram that carries a text.
LEMMA SerializeRequestType ==
    ASSUME NEW Id, NEW r \in ServerRequest(Id)
    PROVE  SerializeRequest(r) \in Wire
<1>1. stringReplace(r.Data, "nl", "esc") \in Seq(Token)
  BY stringReplaceType, SpecialTokens DEF ServerRequest, Text
<1>2. <<"nl">> \in Seq(Token)
  BY SpecialTokens
<1>3. stringReplace(r.Data, "nl", "esc") \o <<"nl">> \in Text
  BY <1>1, <1>2 DEF Text
<1> QED
  BY <1>3 DEF SerializeRequest, ServerRequest, Wire

\* The line of an entry is a text.
LEMMA SerializeEntryType ==
    ASSUME NEW Id, NEW e \in LogEntry(Id)
    PROVE  SerializeEntry(e) \in Text
<1>1. e.label \in Token /\ e.Source[1] \in Token /\ e.Source[2] \in Token
  BY SpecialTokens DEF LogEntry
<1>2. <<e.label, e.Source[1], e.Source[2]>> \in Seq(Token)
  BY <1>1
<1>3. e.Message \in Seq(Token) /\ <<"nl">> \in Seq(Token)
  BY SpecialTokens DEF LogEntry, Text
<1> QED
  BY <1>2, <1>3 DEF SerializeEntry, Text

--------------------------------------------------------------------------------
(* Round trips *)

\* What precedes a token at the end, if there is none before, is the rest.
LEMMA UpToFirst ==
    ASSUME NEW str \in Text, NEW n \in 0..Len(str), NEW token,
           \A i \in 1..n : str[i] # token,
           n < Len(str) => str[n + 1] = token
    PROVE  UpTo(str, token) = SubSeq(str, 1, n)
<1> DEFINE first == {i \in DOMAIN str : \A j \in 1..i : str[j] # token}
<1>1. str \in Seq(Token) /\ DOMAIN str = 1..Len(str) /\ Len(str) \in Nat
  BY DEF Text
<1>2. first = 1..n
  BY <1>1
<1>3. Cardinality(1..n) = n
  <2>1. 1 \in Int /\ n \in Int
    BY <1>1
  <2>2. Cardinality(1..n) = IF 1 > n THEN 0 ELSE n - 1 + 1
    BY <2>1, FS_Interval
  <2> QED
    BY <1>1, <2>2
<1> HIDE DEF first
<1> QED
  BY <1>2, <1>3 DEF UpTo, first

LEMMA UpToAbsent ==
    ASSUME NEW str \in Text, NEW token, \A i \in DOMAIN str : str[i] # token
    PROVE  UpTo(str, token) = str
<1>1. str \in Seq(Token) /\ DOMAIN str = 1..Len(str) /\ Len(str) \in Nat
  BY DEF Text
<1>2. UpTo(str, token) = SubSeq(str, 1, Len(str))
  BY <1>1, UpToFirst
<1> QED
  BY <1>1, <1>2

\* getline reads back a line that was written with its newline.
LEMMA getlineOfLine ==
    ASSUME NEW str \in Text, \A i \in DOMAIN str : str[i] # "nl"
    PROVE  getline(str \o <<"nl">>) = str
<1> DEFINE line == str \o <<"nl">>
<1>1. str \in Seq(Token) /\ DOMAIN str = 1..Len(str) /\ Len(str) \in Nat
  BY DEF Text
<1>2. /\ line \in Text
      /\ Len(line) = Len(str) + 1
      /\ line[Len(str) + 1] = "nl"
      /\ \A i \in 1..Len(str) : line[i] = str[i]
  BY <1>1, SpecialTokens DEF Text
<1>3. SubSeq(line, 1, Len(str)) = str
  BY <1>1
<1> HIDE DEF line
<1>4. UpTo(line, "nl") = SubSeq(line, 1, Len(str))
  BY <1>1, <1>2, UpToFirst
<1> QED
  BY <1>3, <1>4 DEF getline, line

\* Deserialize undoes Serialize on data without an escape of its own or a zero.
LEMMA EscapeRoundTrip ==
    ASSUME NEW str \in Text,
           \A i \in DOMAIN str : str[i] # "esc" /\ str[i] # "nul"
    PROVE  LET line == stringReplace(str, "nl", "esc") \o <<"nl">>
           IN  /\ CString(line) = line
               /\ Len(line) = Len(str) + 1
               /\ DeserializeData(line) = <<"sp">> \o str
<1> DEFINE escaped == stringReplace(str, "nl", "esc")
<1>1. str \in Seq(Token) /\ DOMAIN str = 1..Len(str) /\ Len(str) \in Nat
  BY DEF Text
<1>2. /\ escaped \in Text /\ Len(escaped) = Len(str)
      /\ DOMAIN escaped = 1..Len(str)
      /\ \A i \in 1..Len(str) : escaped[i] = IF str[i] = "nl" THEN "esc" ELSE str[i]
  BY <1>1, stringReplaceType, SpecialTokens DEF stringReplace
<1> HIDE DEF escaped
<1>3. stringReplace(escaped, "esc", "nl") = str
  BY <1>1, <1>2 DEF stringReplace
<1>4. getline(escaped \o <<"nl">>) = escaped
  BY <1>1, <1>2, getlineOfLine
<1>5. /\ escaped \o <<"nl">> \in Text
      /\ Len(escaped \o <<"nl">>) = Len(str) + 1
      /\ \A i \in DOMAIN (escaped \o <<"nl">>) : (escaped \o <<"nl">>)[i] # "nul"
  BY <1>1, <1>2, SpecialTokens DEF Text
<1>6. CString(escaped \o <<"nl">>) = escaped \o <<"nl">>
  BY <1>5, UpToAbsent DEF CString
<1> QED
  BY <1>3, <1>4, <1>5, <1>6 DEF DeserializeData, escaped

\* The line of an entry, and the blank Deserialize leaves in front of it.
LEMMA LineOfEntry ==
    ASSUME NEW e, e.label \in Token, e.Source[1] \in Token, e.Source[2] \in Token,
           e.Message \in Text
    PROVE  /\ SerializeEntry(e) \in Text
           /\ Len(e.Message) \in Nat
           /\ Len(SerializeEntry(e)) = Len(e.Message) + 4
           /\ \A i \in DOMAIN SerializeEntry(e) :
                  \/ SerializeEntry(e)[i] \in {e.label, e.Source[1], e.Source[2], "nl"}
                  \/ \E j \in DOMAIN e.Message : SerializeEntry(e)[i] = e.Message[j]
           /\ <<"sp">> \o SerializeEntry(e) =
                  <<"sp", e.label, e.Source[1], e.Source[2]>> \o e.Message \o <<"nl">>
<1> DEFINE a == e.label
           b == e.Source[1]
           c == e.Source[2]
           str == e.Message
           line == SerializeEntry(e)
           head == <<a, b, c>>
<1>0. a \in Token /\ b \in Token /\ c \in Token /\ str \in Text
  OBVIOUS
<1>9. line = head \o str \o <<"nl">>
  BY DEF SerializeEntry
<1> HIDE DEF a, b, c, str, line
<1>1. str \in Seq(Token) /\ DOMAIN str = 1..Len(str) /\ Len(str) \in Nat
  BY <1>0 DEF Text
<1>2. /\ head \in Seq(Token) /\ Len(head) = 3
      /\ \A i \in 1..3 : head[i] \in {a, b, c}
  BY <1>0
<1>3. /\ <<"nl">> \in Seq(Token) /\ Len(<<"nl">>) = 1 /\ <<"nl">>[1] = "nl"
      /\ <<"sp">> \in Seq(Token)
  BY SpecialTokens
<1>4. <<"sp">> \o head = <<"sp", a, b, c>>
  <2>1. <<"sp", a, b, c>> \in Seq(Token) /\ Len(<<"sp", a, b, c>>) = 4
    BY <1>0, SpecialTokens
  <2>2. <<"sp">> \o head \in Seq(Token) /\ Len(<<"sp">> \o head) = 4
    BY <1>2, <1>3, ConcatProperties
  <2>3. \A i \in 1..4 : (<<"sp">> \o head)[i] = <<"sp", a, b, c>>[i]
    BY <1>2, <1>3, ConcatProperties
  <2> QED
    BY <2>1, <2>2, <2>3, SeqEqual
<1> DEFINE both == head \o str
<1>5. /\ both \in Seq(Token) /\ Len(both) = 3 + Len(str)
      /\ \A i \in 1..(3 + Len(str)) :
             both[i] = IF i <= 3 THEN head[i] ELSE str[i - 3]
  <2>1. both = head \o str
    OBVIOUS
  <2> HIDE DEF head, both
  <2>2. /\ both \in Seq(Token) /\ Len(both) = Len(head) + Len(str)
        /\ \A i \in 1..(Len(head) + Len(str)) :
               both[i] = IF i <= Len(head) THEN head[i] ELSE str[i - Len(head)]
    BY <1>1, <1>2, <2>1, ConcatProperties
  <2> QED
    BY <1>2, <2>2
<1>6. /\ line \in Seq(Token) /\ Len(line) = Len(str) + 4
      /\ DOMAIN line = 1..(Len(str) + 4)
      /\ \A i \in 1..(3 + Len(str)) : line[i] = both[i]
      /\ line[Len(str) + 4] = "nl"
  <2>1. line = both \o <<"nl">>
    BY <1>9
  <2> HIDE DEF head, both
  <2>2. \A i \in 1..(3 + Len(str) + 1) :
           line[i] = IF i <= 3 + Len(str) THEN both[i] ELSE <<"nl">>[i - (3 + Len(str))]
    BY <1>1, <1>3, <1>5, <2>1, ConcatProperties
  <2>3. line \in Seq(Token) /\ Len(line) = 3 + Len(str) + 1
    BY <1>1, <1>3, <1>5, <2>1, ConcatProperties
  <2>4. line[3 + Len(str) + 1] = <<"nl">>[3 + Len(str) + 1 - (3 + Len(str))]
    BY <1>1, <2>2
  <2>5. 3 + Len(str) + 1 = Len(str) + 4 /\ 3 + Len(str) + 1 - (3 + Len(str)) = 1
    BY <1>1
  <2>6. line[Len(str) + 4] = "nl"
    BY <1>3, <2>4, <2>5
  <2> QED
    BY <1>1, <2>2, <2>3, <2>5, <2>6
<1>7. <<"sp">> \o line = <<"sp", a, b, c>> \o str \o <<"nl">>
  <2>1. <<"sp">> \o line = (<<"sp">> \o both) \o <<"nl">>
    <3>1. line = both \o <<"nl">>
      BY <1>9
    <3> HIDE DEF both
    <3> QED
      BY <1>3, <1>5, <3>1, ConcatAssociative
  <2>2. <<"sp">> \o both = (<<"sp">> \o head) \o str
    <3> HIDE DEF head
    <3> QED
      BY <1>1, <1>2, <1>3, ConcatAssociative
  <2> QED
    BY <1>4, <2>1, <2>2
<1> HIDE DEF head, both
<1>8. ASSUME NEW i \in DOMAIN line
      PROVE  line[i] \in {a, b, c, "nl"} \/ \E j \in DOMAIN str : line[i] = str[j]
  <2>1. CASE i <= 3
    <3>1. i \in 1..3 /\ i \in 1..(3 + Len(str))
      BY <1>1, <1>6, <2>1
    <3> QED
      BY <1>2, <1>5, <1>6, <2>1, <3>1
  <2>2. CASE ~(i <= 3) /\ i <= 3 + Len(str)
    <3>1. i - 3 \in DOMAIN str /\ line[i] = str[i - 3]
      BY <1>1, <1>5, <1>6, <2>2
    <3> QED
      BY <3>1
  <2>3. CASE ~(i <= 3 + Len(str))
    <3>1. i \in 1..(Len(str) + 4)
      BY <1>6
    <3>2. i = Len(str) + 4
      BY <1>1, <2>3, <3>1
    <3> QED
      BY <1>6, <3>2
  <2> QED
    BY <2>1, <2>2, <2>3
<1> QED
  BY <1>1, <1>6, <1>7, <1>8 DEF a, b, c, str, line, Text

================================================================================
