------------------------- MODULE InstructionTextProofs -------------------------
(*****************************************************************************)
(* InstructionText for messages of any characters and lengths, any number of *)
(* them and any buffer size.  The argument: the stream is the messages one   *)
(* after the other (Layout), so that a search which begins before a message  *)
(* ends before it, too, at the bracket that closes the message in which it   *)
(* has found an opening one.  Hence a message that lies in one buffer is     *)
(* found at its own bracket (FoundAtItsBracket), and what Deserialize makes  *)
(* of the piece up to the first closing bracket is what gets through of the  *)
(* message (DeserializesWhatGetsThrough).                                    *)
(*****************************************************************************)
EXTENDS InstructionText, SequenceTheorems, WellFoundedInduction, TLAPS

--------------------------------------------------------------------------------
(* The inductive invariant *)

\* Where the text of message k lies in the stream, and its frame.
Placed(k) ==
    /\ sent[k].first \in Nat \ {0}
    /\ sent[k].last = sent[k].first + Len(sent[k].text) + 4
    /\ sent[k].last <= Len(stream)
    /\ stream[sent[k].first] = "["
    /\ stream[sent[k].first + 1] = "num"
    /\ stream[sent[k].first + 2] = "("
    /\ \A i \in 1..Len(sent[k].text) : stream[sent[k].first + 2 + i] = sent[k].text[i]
    /\ stream[sent[k].last - 1] = ")"
    /\ stream[sent[k].last] = "]"

\* The stream is the messages, one after the other.
Layout ==
    /\ \A k \in DOMAIN sent : Placed(k)
    /\ \A p \in 1..Len(stream) : \E k \in DOMAIN sent : p \in sent[k].first..sent[k].last
    /\ \A j, k \in DOMAIN sent : j < k => sent[j].last < sent[k].first

\* A message that the last buffer ended inside is known to be split.
SplitKnown ==
    \A k \in DOMAIN sent : got \in sent[k].first..(sent[k].last - 1) => k \in split

\* What is queued was found before pos.
Behind == \A q \in DOMAIN queue : queue[q].at < pos

\* Messages in one piece are dealt with when the search has passed their bracket.
TakenAtOnce ==
    \A k \in DOMAIN sent \ split : sent[k].first < pos => Taken(k)

IInv == TypeOK /\ Layout /\ SplitKnown /\ Behind /\ TakenAtOnce /\ NothingMadeUp

--------------------------------------------------------------------------------
(* Lemmas about texts *)

\* A serialized text is the text in its frame.
LEMMA SerializeShape ==
    ASSUME NEW text \in Seq(Char)
    PROVE  /\ Serialize(text) \in Seq(Char)
           /\ Len(Serialize(text)) = Len(text) + 5
           /\ Serialize(text)[1] = "["
           /\ Serialize(text)[2] = "num"
           /\ Serialize(text)[3] = "("
           /\ \A i \in 1..Len(text) : Serialize(text)[3 + i] = text[i]
           /\ Serialize(text)[Len(text) + 4] = ")"
           /\ Serialize(text)[Len(text) + 5] = "]"
<1> DEFINE a == <<"[", "num", "(">>
           b == <<")", "]">>
           ab == a \o text
<1>1. a \in Seq(Char) /\ b \in Seq(Char) /\ Len(a) = 3 /\ Len(b) = 2
      BY InstructionTextAssumption
<1>2. /\ a[1] = "[" /\ a[2] = "num" /\ a[3] = "("
      /\ b[1] = ")" /\ b[2] = "]"
      OBVIOUS
<1> HIDE DEF a, b
<1>3. /\ ab \in Seq(Char) /\ Len(ab) = Len(text) + 3
      /\ \A i \in 1..(Len(text) + 3) : ab[i] = IF i <= 3 THEN a[i] ELSE text[i - 3]
  <2>1. /\ ab \in Seq(Char) /\ Len(ab) = Len(a) + Len(text)
        /\ \A i \in 1..(Len(a) + Len(text)) :
              ab[i] = IF i <= Len(a) THEN a[i] ELSE text[i - Len(a)]
        BY <1>1, ConcatProperties
  <2> HIDE DEF ab
  <2>2. Len(text) \in Nat
        BY LenProperties
  <2>3. Len(a) = 3 /\ Len(a) + Len(text) = Len(text) + 3
        BY <1>1, <2>2
  <2>4. ASSUME NEW i \in 1..(Len(text) + 3)
        PROVE  ab[i] = IF i <= 3 THEN a[i] ELSE text[i - 3]
        BY <2>1, <2>3, Zenon
  <2> QED BY <2>1, <2>3, <2>4, Zenon
<1> HIDE DEF ab
<1>4. /\ ab \o b \in Seq(Char) /\ Len(ab \o b) = Len(text) + 5
      /\ \A i \in 1..(Len(text) + 5) :
            (ab \o b)[i] = IF i <= Len(text) + 3 THEN ab[i] ELSE b[i - (Len(text) + 3)]
  <2> DEFINE c == ab \o b
  <2>1. /\ c \in Seq(Char) /\ Len(c) = Len(ab) + Len(b)
        /\ \A i \in 1..(Len(ab) + Len(b)) :
              c[i] = IF i <= Len(ab) THEN ab[i] ELSE b[i - Len(ab)]
        BY <1>1, <1>3, ConcatProperties
  <2> HIDE DEF c
  <2>2. Len(text) \in Nat
        BY LenProperties
  <2>3. /\ c \in Seq(Char) /\ Len(c) = Len(text) + 5
        /\ \A i \in 1..(Len(text) + 5) :
              c[i] = IF i <= Len(text) + 3 THEN ab[i] ELSE b[i - (Len(text) + 3)]
        BY <1>1, <1>3, <2>1, <2>2
  <2> QED BY <2>3 DEF c
<1>5. Serialize(text) = ab \o b
      BY DEF Serialize, ab, a, b
<1>6. Len(text) \in Nat
      BY LenProperties
<1> QED BY <1>1, <1>2, <1>3, <1>4, <1>5, <1>6

\* A piece of a sequence of characters.
LEMMA Piece ==
    ASSUME NEW S, NEW seq \in Seq(S), NEW m \in 1..Len(seq), NEW n \in (m - 1)..Len(seq)
    PROVE  /\ SubSeq(seq, m, n) \in Seq(S)
           /\ Len(SubSeq(seq, m, n)) = n - m + 1
           /\ DOMAIN SubSeq(seq, m, n) = 1..(n - m + 1)
           /\ \A i \in 1..(n - m + 1) : SubSeq(seq, m, n)[i] = seq[m + i - 1]
<1>1. Len(seq) \in Nat /\ \A i \in m..n : seq[i] \in S
      BY LenProperties, ElementOfSeq
<1>2. m \in Int /\ n \in Int
      BY <1>1
<1>3. /\ SubSeq(seq, m, n) \in Seq(S)
      /\ Len(SubSeq(seq, m, n)) = IF m <= n THEN n - m + 1 ELSE 0
      /\ \A i \in 1..(n - m + 1) : SubSeq(seq, m, n)[i] = seq[m + i - 1]
      BY <1>1, <1>2, SubSeqProperties
<1> QED BY <1>1, <1>2, <1>3, LenProperties

\* The same for a piece that begins where the data of an instruction does.
LEMMA PieceFrom4 ==
    ASSUME NEW S, NEW seq \in Seq(S), 4 \in 1..Len(seq), NEW n \in (4 - 1)..Len(seq)
    PROVE  /\ SubSeq(seq, 4, n) \in Seq(S)
           /\ Len(SubSeq(seq, 4, n)) = n - 4 + 1
           /\ \A i \in 1..(n - 4 + 1) : SubSeq(seq, 4, n)[i] = seq[4 + i - 1]
BY Piece

\* What precedes the first closing parenthesis of a text, if it is n characters.
Ends(text, n) ==
    /\ n = Len(text) \/ text[n + 1] = ")"
    /\ \A i \in 1..n : text[i] \notin {")", "]", "nl"}

\* Prefixes are told apart by their lengths.
LEMMA PrefixLength ==
    ASSUME NEW text \in Seq(Char), NEW n \in 0..Len(text)
    PROVE  Len(SubSeq(text, 1, n)) = n
<1>1. Len(text) \in Nat
      BY LenProperties
<1>2. CASE n = 0
      BY <1>2, SubSeqEmpty, EmptySeq
<1>3. CASE n # 0
  <2>1. 1 \in 1..Len(text) /\ n \in (1 - 1)..Len(text)
        BY <1>1, <1>3
  <2> QED BY <1>1, <2>1, Piece
<1> QED BY <1>2, <1>3

\* A text has one beginning that ends at a parenthesis.
LEMMA EndsOnce ==
    ASSUME NEW text \in Seq(Char), NEW m \in 0..Len(text), NEW n \in 0..Len(text),
           Ends(text, m), Ends(text, n)
    PROVE  m = n
<1>1. Len(text) \in Nat
      BY LenProperties
<1>2. ~(m < n)
  <2>1. ASSUME m < n PROVE m + 1 \in 1..n /\ m # Len(text)
        BY <1>1, <2>1
  <2> QED BY <2>1 DEF Ends
<1>3. ~(n < m)
  <2>1. ASSUME n < m PROVE n + 1 \in 1..m /\ n # Len(text)
        BY <1>1, <2>1
  <2> QED BY <2>1 DEF Ends
<1> QED BY <1>1, <1>2, <1>3

LEMMA PrefixGetsThrough ==
    ASSUME NEW text \in Seq(Char), NEW n \in 0..Len(text)
    PROVE  GetsThrough(text, SubSeq(text, 1, n)) <=> Ends(text, n)
<1>1. ASSUME GetsThrough(text, SubSeq(text, 1, n)) PROVE Ends(text, n)
  <2>1. PICK m \in 0..Len(text) :
            /\ SubSeq(text, 1, n) = SubSeq(text, 1, m)
            /\ m = Len(text) \/ text[m + 1] = ")"
            /\ \A i \in 1..m : text[i] \notin {")", "]", "nl"}
        BY <1>1 DEF GetsThrough
  <2>2. m = n
        BY <2>1, PrefixLength
  <2> QED BY <2>1, <2>2 DEF Ends
<1>2. ASSUME Ends(text, n) PROVE GetsThrough(text, SubSeq(text, 1, n))
      BY <1>2 DEF Ends, GetsThrough
<1> QED BY <1>1, <1>2

\* A non-empty set of numbers has a least element.
LEMMA LeastNatural ==
    ASSUME NEW T, T \subseteq Nat, T # {}
    PROVE  \E x \in T : \A y \in T : x <= y
<1> DEFINE R == {ss \in Nat \X Nat : ss[1] < ss[2]}
<1>1. IsWellFoundedOn(R, Nat)
      BY NatLessThanWellFounded DEF OpToRel
<1>2. \A x, y \in T : y < x => <<y, x>> \in R
      OBVIOUS
<1> HIDE DEF R
<1>3. PICK x \in T : \A y \in T : ~(<<y, x>> \in R)
      BY <1>1, WFMin
<1>4. \A y \in T : ~(y < x)
      BY <1>2, <1>3
<1> QED BY <1>4

\* Deserialize of the piece of a message up to the first closing bracket: the
\* data it finds, if it finds any, begins behind the message's own parenthesis
\* and is what gets through of the message.
LEMMA DeserializesWhatGetsThrough ==
    ASSUME TypeOK, Layout, NEW k \in DOMAIN sent,
           NEW end \in sent[k].first..sent[k].last, stream[end] = "]",
           \A j \in sent[k].first..(end - 1) : stream[j] # "]",
           NEW input, input = SubSeq(stream, sent[k].first, end)
    PROVE  /\ \A open, close \in DOMAIN input :
                  Deserializes(input, open, close) =>
                      \E n \in 0..Len(sent[k].text) :
                          /\ Ends(sent[k].text, n)
                          /\ Data(input, open, close) = SubSeq(sent[k].text, 1, n)
           /\ \A n \in 0..Len(sent[k].text) :
                  Ends(sent[k].text, n) =>
                      \E open, close \in DOMAIN input : Deserializes(input, open, close)
<1> DEFINE text == sent[k].text
           f == sent[k].first
           L == end - f + 1
<1>1. /\ text \in Seq(Char) /\ Len(text) \in Nat /\ f \in Nat \ {0}
      /\ stream \in Seq(Char) /\ Len(stream) \in Nat
      /\ sent[k].last = f + Len(text) + 4 /\ sent[k].last <= Len(stream)
  <2>1. sent[k] \in [text : Text, first : Nat, last : Nat] /\ stream \in Seq(Char)
        BY ElementOfSeq, LenProperties DEF TypeOK
  <2>2. Placed(k)
        BY DEF Layout
  <2> QED BY <2>1, <2>2, LenProperties, InstructionTextAssumption DEF Placed
<1>2. /\ stream[f] = "[" /\ stream[f + 1] = "num" /\ stream[f + 2] = "("
      /\ \A i \in 1..Len(text) : stream[f + 2 + i] = text[i]
      /\ stream[f + Len(text) + 3] = ")"
      /\ stream[f + Len(text) + 4] = "]"
  <2>1. Placed(k)
        BY DEF Layout
  <2>2. sent[k].last - 1 = f + Len(text) + 3
        BY <1>1
  <2> QED BY <1>1, <2>1, <2>2 DEF Placed
<1>3. end \in Nat /\ f <= end /\ end <= f + Len(text) + 4
      BY <1>1
<1>4. stream[end] = "]" /\ \A j \in f..(end - 1) : stream[j] # "]"
      OBVIOUS
<1>5. /\ input \in Seq(Char) /\ Len(input) = L /\ DOMAIN input = 1..L
      /\ \A i \in 1..L : input[i] = stream[f + i - 1]
  <2>1. f \in 1..Len(stream) /\ end \in (f - 1)..Len(stream)
        BY <1>1, <1>3
  <2> QED BY <1>1, <2>1, Piece
<1> HIDE DEF text, f
\* The piece holds the frame's three characters and the text up to a bracket.
<1>6. /\ L \in Nat /\ 4 <= L /\ L <= Len(text) + 5
      /\ input[1] = "[" /\ input[2] = "num" /\ input[3] = "(" /\ input[L] = "]"
      /\ \A i \in 1..(L - 1) : input[i] # "]"
  <2>1. end # f /\ end # f + 1 /\ end # f + 2
        BY <1>2, <1>4
  <2>2. L \in Nat /\ 4 <= L /\ L <= Len(text) + 5
        BY <1>1, <1>3, <2>1
  <2>3. input[1] = stream[f + 1 - 1] /\ input[2] = stream[f + 2 - 1]
        /\ input[3] = stream[f + 3 - 1] /\ input[L] = stream[f + L - 1]
    <3> HIDE DEF L
    <3>1. 1 \in 1..L /\ 2 \in 1..L /\ 3 \in 1..L /\ L \in 1..L
          BY <2>2
    <3> QED BY <1>5, <3>1
  <2>4. f + 1 - 1 = f /\ f + 2 - 1 = f + 1 /\ f + 3 - 1 = f + 2 /\ f + L - 1 = end
        BY <1>1, <1>3
  <2>5. ASSUME NEW i \in 1..(L - 1) PROVE input[i] # "]"
    <3>1. i \in 1..L /\ f + i - 1 \in f..(end - 1)
          BY <1>1, <1>3, <2>2
    <3> QED BY <1>4, <1>5, <3>1
  <2> QED BY <1>2, <1>4, <2>2, <2>3, <2>4, <2>5
<1>7. \A i \in 1..Len(text) : i + 3 <= L => input[i + 3] = text[i]
  <2> SUFFICES ASSUME NEW i \in 1..Len(text), i + 3 <= L
               PROVE  input[i + 3] = text[i]
      OBVIOUS
  <2>1. i + 3 \in 1..L /\ f + (i + 3) - 1 = f + 2 + i
        BY <1>1, <1>6
  <2> QED BY <1>2, <1>5, <2>1
\* The text is over or goes on with a bracket where the piece ends.
<1>8. L = Len(text) + 5 => input[L - 1] = ")"
  <2> HIDE DEF L
  <2> SUFFICES ASSUME L = Len(text) + 5
               PROVE  input[L - 1] = ")"
      OBVIOUS
  <2>1. L - 1 \in 1..L /\ f + (L - 1) - 1 = f + Len(text) + 3
        BY <1>1, <1>6
  <2>2. input[L - 1] = stream[f + (L - 1) - 1]
        BY <1>5, <2>1
  <2> QED BY <1>2, <2>1, <2>2
<1>9. L # Len(text) + 4
      BY <1>1, <1>2, <1>3, <1>4
<1> HIDE DEF L
\* From Deserialize to the text.
<1>10. ASSUME NEW open \in DOMAIN input, NEW close \in DOMAIN input,
              Deserializes(input, open, close)
       PROVE  \E n \in 0..Len(text) :
                  /\ Ends(text, n)
                  /\ Data(input, open, close) = SubSeq(text, 1, n)
  <2>1. PICK m \in DOMAIN input :
            /\ input[m] = "num"
            /\ \A i \in 2..(m - 1) : input[i] = "nl"
            /\ Finds(input, "(", m + 1, open)
            /\ Finds(input, ")", m + 1, close)
            /\ open < close
            /\ \A i \in m..close : input[i] # "nl"
        BY <1>10 DEF Deserializes
  <2>2. m = 2
    <3>1. m # 1
          BY <1>6, <2>1
    <3>2. m \in Nat /\ m >= 1
          BY <1>5, <1>6
    <3>3. ~(m > 2)
      <4>1. ASSUME m > 2 PROVE 2 \in 2..(m - 1)
            BY <3>2, <4>1
      <4> QED BY <1>6, <2>1, <4>1
    <3> QED BY <3>1, <3>2, <3>3
  <2>3. /\ open \in 3..L /\ \A j \in 3..(open - 1) : input[j] # "("
        /\ close \in 3..L /\ input[close] = ")" /\ \A j \in 3..(close - 1) : input[j] # ")"
        /\ \A i \in 2..close : input[i] # "nl"
    <3>1. Finds(input, "(", 3, open) /\ Finds(input, ")", 3, close)
      <4>1. 2 + 1 = 3
            OBVIOUS
      <4> QED BY <2>1, <2>2, <4>1
    <3> QED BY <1>5, <2>1, <2>2, <3>1 DEF Finds
  <2>4. open = 3
    <3>1. ASSUME open # 3 PROVE 3 \in 3..(open - 1)
          BY <1>6, <2>3, <3>1
    <3> QED BY <1>6, <2>3, <3>1
  <2> DEFINE n == close - 4
  <2>5. close # 3 /\ close # L
        BY <1>6, <2>3
  <2>6. n \in 0..Len(text) /\ n + 4 = close /\ n + 5 <= L
    <3>1. close \in Int /\ close >= 4 /\ close < L /\ L <= Len(text) + 5 /\ L \in Nat
          BY <1>6, <2>3, <2>5
    <3>2. Len(text) \in Nat
          BY <1>1
    <3> QED BY <3>1, <3>2
  <2> HIDE DEF n
  <2>7. ASSUME NEW i \in 1..n PROVE text[i] \notin {")", "]", "nl"}
    <3>0. n \in Nat /\ n <= Len(text) /\ n + 4 = close /\ n + 5 <= L /\ L \in Nat
          BY <1>1, <1>6, <2>6
    <3>1. /\ i \in 1..Len(text) /\ i + 3 <= L /\ i + 3 \in 3..(close - 1)
          /\ i + 3 \in 2..close /\ i + 3 \in 1..(L - 1)
          BY <1>1, <3>0
    <3>2. input[i + 3] = text[i]
          BY <1>7, <3>1
    <3> QED BY <1>6, <2>3, <3>1, <3>2
  <2>8. n = Len(text) \/ text[n + 1] = ")"
    <3>1. ASSUME n # Len(text) PROVE text[n + 1] = ")"
      <4>1. n + 1 \in 1..Len(text) /\ (n + 1) + 3 <= L /\ (n + 1) + 3 = close
            BY <1>1, <1>6, <2>6, <3>1
      <4> QED BY <1>7, <2>3, <4>1
    <3> QED BY <3>1
  <2>9. Data(input, open, close) = SubSeq(text, 1, n)
    <3>1. Data(input, open, close) = SubSeq(input, 4, n + 3)
      <4>1. open + 1 = 4 /\ close - 1 = n + 3
            BY <1>6, <2>3, <2>4, <2>6
      <4> QED BY <4>1 DEF Data
    <3>2. CASE n = 0
      <4>1. SubSeq(input, 4, n + 3) = << >>
            BY <3>2, SubSeqEmpty
      <4>2. SubSeq(text, 1, n) = << >>
            BY <3>2, SubSeqEmpty
      <4> QED BY <3>1, <4>1, <4>2
    <3>3. CASE n # 0
      <4> DEFINE e == n + 3
                 a == SubSeq(input, 4, e)
                 b == SubSeq(text, 1, n)
      <4>1. /\ a \in Seq(Char) /\ Len(a) = e - 4 + 1
            /\ \A i \in 1..(e - 4 + 1) : a[i] = input[4 + i - 1]
        <5>1. 4 \in 1..Len(input) /\ e \in (4 - 1)..Len(input)
          <6>1. Len(input) = L /\ L \in Nat /\ n \in Nat /\ n + 5 <= L
                BY <1>1, <1>5, <1>6, <2>6
          <6> QED BY <6>1
        <5>2. input \in Seq(Char)
              BY <1>5
        <5> HIDE DEF e
        <5> QED BY <5>1, <5>2, PieceFrom4, Zenon
      <4>2. /\ b \in Seq(Char) /\ Len(b) = n - 1 + 1
            /\ \A i \in 1..(n - 1 + 1) : b[i] = text[1 + i - 1]
        <5>1. 1 \in 1..Len(text) /\ n \in (1 - 1)..Len(text)
              BY <1>1, <2>6, <3>3
        <5> QED BY <1>1, <5>1, Piece
      <4> HIDE DEF a, b
      <4>3. e - 4 + 1 = n /\ n - 1 + 1 = n
            BY <1>1, <2>6
      <4>4. ASSUME NEW i \in 1..n PROVE a[i] = b[i]
        <5>0. /\ i \in 1..(e - 4 + 1) /\ i \in 1..(n - 1 + 1) /\ i \in Int
              /\ n \in Nat
              BY <1>1, <2>6, <4>3
        <5>1. /\ a[i] = input[4 + i - 1] /\ b[i] = text[1 + i - 1]
              /\ 4 + i - 1 = i + 3 /\ 1 + i - 1 = i
          <6>1. a[i] = input[4 + i - 1]
                BY <4>1, <5>0
          <6>2. b[i] = text[1 + i - 1]
                BY <4>2, <5>0
          <6> QED BY <5>0, <6>1, <6>2
        <5>2. i \in 1..Len(text) /\ i + 3 <= L
              BY <1>1, <1>6, <2>6
        <5> QED BY <1>7, <5>1, <5>2
      <4>5. a = b
        <5>1. Len(a) = n /\ Len(b) = n
              BY <4>1, <4>2, <4>3
        <5> QED BY <4>1, <4>2, <4>4, <5>1, SeqEqual
      <4> QED BY <3>1, <4>5 DEF a, b
    <3> QED BY <3>2, <3>3
  <2> QED BY <2>6, <2>7, <2>8, <2>9 DEF Ends
\* From the text to Deserialize.
<1>11. ASSUME NEW n \in 0..Len(text), Ends(text, n)
       PROVE  Deserializes(input, 3, n + 4) /\ 3 \in DOMAIN input /\ n + 4 \in DOMAIN input
  <2>1. /\ n = Len(text) \/ text[n + 1] = ")"
        /\ \A i \in 1..n : text[i] \notin {")", "]", "nl"}
        BY <1>11 DEF Ends
  <2>2. n + 5 <= L
    <3>1. ASSUME n + 5 > L PROVE FALSE
      <4>1. CASE L = 4
        <5>1. CASE n = Len(text) /\ n = 0
              BY <1>1, <1>9, <4>1, <5>1
        <5>2. CASE n # Len(text) /\ n = 0
          <6>1. 1 \in 1..Len(text) /\ 1 + 3 <= L /\ n + 1 = 1 /\ 1 + 3 = L
                BY <1>1, <4>1, <5>2
          <6>2. text[1] = ")" /\ input[L] = text[1]
                BY <1>7, <2>1, <5>2, <6>1
          <6> QED BY <1>6, <6>2
        <5>3. CASE n # 0
          <6>1. 1 \in 1..Len(text) /\ 1 + 3 <= L /\ 1 \in 1..n /\ 1 + 3 = L
                BY <1>1, <4>1, <5>3
          <6>2. text[1] # "]" /\ input[L] = text[1]
                BY <1>7, <2>1, <6>1
          <6> QED BY <1>6, <6>2
        <5> QED BY <5>1, <5>2, <5>3
      <4>2. CASE L # 4
        <5> DEFINE i == L - 3
        <5>1. i \in 1..(n + 1) /\ i + 3 = L /\ i # Len(text) + 1
              BY <1>1, <1>6, <1>9, <3>1, <4>2
        <5> HIDE DEF i
        <5>2. i \in 1..Len(text)
              BY <1>1, <1>6, <1>9, <3>1, <5>1
        <5>3. input[i + 3] = text[i]
          <6>1. i + 3 <= L
                BY <1>6, <5>1
          <6> QED BY <1>7, <5>2, <6>1
        <5>4. text[i] # "]"
          <6>1. CASE i = n + 1
                BY <1>1, <2>1, <5>2, <6>1
          <6>2. CASE i # n + 1
            <7>1. i \in 1..n
                  BY <1>1, <5>1, <6>2
            <7> QED BY <2>1, <7>1
          <6> QED BY <6>1, <6>2
        <5> QED BY <1>6, <5>1, <5>3, <5>4
      <4> QED BY <4>1, <4>2
    <3> QED BY <1>1, <1>6, <3>1
  <2>3. input[n + 4] = ")"
    <3>1. CASE n = Len(text)
      <4>1. L = Len(text) + 5 /\ L - 1 = n + 4
            BY <1>1, <1>6, <2>2, <3>1
      <4> QED BY <1>8, <4>1
    <3>2. CASE n # Len(text)
      <4>1. n + 1 \in 1..Len(text) /\ (n + 1) + 3 <= L /\ (n + 1) + 3 = n + 4
            BY <1>1, <1>6, <2>2, <3>2
      <4> QED BY <1>7, <2>1, <3>2, <4>1
    <3> QED BY <3>1, <3>2
  <2>4. ASSUME NEW j \in 4..(n + 3) PROVE input[j] \notin {")", "nl"}
    <3>1. j - 3 \in 1..n /\ j - 3 \in 1..Len(text) /\ (j - 3) + 3 <= L /\ (j - 3) + 3 = j
          BY <1>1, <1>6, <2>2
    <3>2. input[j] = text[j - 3]
          BY <1>7, <3>1
    <3> QED BY <2>1, <3>1, <3>2
  <2>5. n + 4 \in 3..L /\ 3 \in 3..L /\ 3 < n + 4 /\ 2 \in 1..L
        BY <1>1, <1>6, <2>2
  <2>6. Finds(input, "(", 2 + 1, 3)
        BY <1>5, <1>6, <2>5 DEF Finds
  <2>7. ASSUME NEW j \in 3..(n + 3) PROVE input[j] # ")"
    <3>1. j = 3 \/ j \in 4..(n + 3)
          BY <1>1
    <3> QED BY <1>6, <2>4, <3>1
  <2>8. Finds(input, ")", 2 + 1, n + 4)
    <3>1. (n + 4) - 1 = n + 3 /\ 2 + 1 = 3
          BY <1>1
    <3> QED BY <1>5, <2>3, <2>5, <2>7, <3>1 DEF Finds
  <2>9. ASSUME NEW i \in 2..(n + 4) PROVE input[i] # "nl"
    <3>1. i = 2 \/ i = 3 \/ i \in 4..(n + 3) \/ i = n + 4
          BY <1>1
    <3> QED BY <1>6, <2>3, <2>4, <3>1
  <2>10. \A i \in 2..(2 - 1) : input[i] = "nl"
        OBVIOUS
  <2>11. 2 \in DOMAIN input /\ 3 \in DOMAIN input /\ n + 4 \in DOMAIN input
        BY <1>5, <1>6, <2>5
  <2> QED BY <1>6, <2>5, <2>6, <2>8, <2>9, <2>10, <2>11 DEF Deserializes
<1> QED BY <1>10, <1>11 DEF text

--------------------------------------------------------------------------------
(* Lemmas about the search *)

\* Typed and placed: the facts about one message that arithmetic needs.
LEMMA MessageFacts ==
    ASSUME TypeOK, Layout, NEW k \in DOMAIN sent
    PROVE  /\ sent[k].text \in Seq(Char) /\ Len(sent[k].text) \in Nat
           /\ sent[k].first \in Nat \ {0}
           /\ sent[k].last = sent[k].first + Len(sent[k].text) + 4
           /\ sent[k].last <= Len(stream)
           /\ k \in Nat
<1>1. sent[k] \in [text : Text, first : Nat, last : Nat] /\ k \in Nat
  <2> DEFINE R == [text : Text, first : Nat, last : Nat]
  <2>1. sent \in Seq(R)
        BY DEF TypeOK
  <2> HIDE DEF R
  <2>2. k \in 1..Len(sent) /\ Len(sent) \in Nat
        BY <2>1, LenProperties
  <2>3. sent[k] \in R
        BY <2>1, <2>2, ElementOfSeq
  <2> QED BY <2>2, <2>3 DEF R
<1>2. Placed(k)
      BY DEF Layout
<1> QED BY <1>1, <1>2, LenProperties, InstructionTextAssumption DEF Placed

\* What has been received is the beginning of the stream.
LEMMA ReceivedIsStream ==
    ASSUME TypeOK
    PROVE  /\ Len(Received) = got
           /\ \A i \in 1..got : Received[i] = stream[i]
<1>1. stream \in Seq(Char) /\ got \in 0..Len(stream) /\ Len(stream) \in Nat
      BY LenProperties DEF TypeOK
<1>2. CASE got = 0
      BY <1>2, SubSeqEmpty, EmptySeq DEF Received
<1>3. CASE got # 0
  <2>1. 1 \in 1..Len(stream) /\ got \in (1 - 1)..Len(stream)
        BY <1>1, <1>3
  <2>2. /\ Len(Received) = got - 1 + 1
        /\ \A i \in 1..(got - 1 + 1) : Received[i] = stream[1 + i - 1]
        BY <1>1, <2>1, Piece DEF Received
  <2>3. got - 1 + 1 = got /\ \A i \in 1..got : 1 + i - 1 = i
        BY <1>1
  <2> QED BY <2>2, <2>3
<1> QED BY <1>2, <1>3

\* The brackets found are the first ones in the stream.
LEMMA FoundInStream ==
    ASSUME TypeOK, NEW start \in pos..got, NEW end \in pos..got, Found(start, end)
    PROVE  /\ start \in 1..got /\ end \in start..got /\ start < end
           /\ stream[start] = "[" /\ stream[end] = "]"
           /\ \A i \in pos..(start - 1) : stream[i] # "["
           /\ \A i \in start..(end - 1) : stream[i] # "]"
<1>1. /\ Len(Received) = got
      /\ \A i \in 1..got : Received[i] = stream[i]
      BY ReceivedIsStream
<1>2. pos \in Nat \ {0} /\ got \in Nat
      BY LenProperties DEF TypeOK
<1>3. /\ start \in pos..got /\ Received[start] = "["
      /\ \A i \in pos..(start - 1) : Received[i] # "["
      /\ end \in start..got /\ Received[end] = "]"
      /\ \A i \in start..(end - 1) : Received[i] # "]"
      BY <1>1 DEF Found, Finds
<1>4. \A i \in pos..(start - 1) : i \in 1..got
      BY <1>2
<1>5. \A i \in start..(end - 1) : i \in 1..got
      BY <1>2
<1>6. start \in 1..got /\ end \in 1..got
      BY <1>2
<1>7. start # end
      BY <1>3
<1>8. start < end
      BY <1>2, <1>3, <1>7
<1> QED BY <1>1, <1>3, <1>4, <1>5, <1>6, <1>8

\* A search that begins before a message in one piece and ends behind its first
\* bracket has found just that bracket, and ends within the message.
LEMMA FoundAtItsBracket ==
    ASSUME TypeOK, Layout, SplitKnown,
           NEW start \in pos..got, NEW end \in pos..got, Found(start, end),
           NEW k \in DOMAIN sent \ split,
           pos <= sent[k].first, sent[k].first <= end
    PROVE  start = sent[k].first /\ end <= sent[k].last
<1> DEFINE f == sent[k].first
           l == sent[k].last
<1>1. /\ start \in 1..got /\ end \in start..got
      /\ stream[start] = "[" /\ stream[end] = "]"
      /\ \A i \in pos..(start - 1) : stream[i] # "["
      /\ \A i \in start..(end - 1) : stream[i] # "]"
      BY FoundInStream
<1>2. /\ f \in Nat \ {0} /\ l \in Nat /\ f < l /\ k \in Nat
      /\ l <= Len(stream) /\ Len(stream) \in Nat
  <2>1. /\ f \in Nat \ {0} /\ Len(sent[k].text) \in Nat /\ k \in Nat
        /\ l = f + Len(sent[k].text) + 4 /\ l <= Len(stream)
        BY MessageFacts
  <2>2. Len(stream) \in Nat
        BY LenProperties DEF TypeOK
  <2> QED BY <2>1, <2>2
<1>3. stream[f] = "[" /\ stream[l] = "]"
      BY DEF Layout, Placed
<1>4. pos \in Nat /\ got \in 0..Len(stream)
      BY LenProperties DEF TypeOK
<1>5. pos <= f /\ f <= end
      OBVIOUS
<1> HIDE DEF f, l
<1>6. l <= got
  <2>1. ~(got \in f..(l - 1))
        BY DEF SplitKnown, f, l
  <2>2. f <= got
        BY <1>1, <1>2, <1>4, <1>5
  <2> QED BY <1>2, <1>4, <2>1, <2>2
<1>7. start <= f
  <2>1. ASSUME f < start PROVE f \in pos..(start - 1)
        BY <1>1, <1>2, <1>4, <1>5, <2>1
  <2> QED BY <1>1, <1>2, <1>3, <2>1
<1>8. ASSUME start < f PROVE FALSE
  <2>1. start \in 1..Len(stream)
        BY <1>1, <1>2, <1>4
  <2>2. PICK j \in DOMAIN sent : start \in sent[j].first..sent[j].last
        BY <2>1 DEF Layout
  <2>3. /\ sent[j].first \in Nat /\ sent[j].last \in Nat /\ j \in Nat
        /\ stream[sent[j].last] = "]"
    <3>1. /\ sent[j].first \in Nat /\ Len(sent[j].text) \in Nat /\ j \in Nat
          /\ sent[j].last = sent[j].first + Len(sent[j].text) + 4
          BY MessageFacts
    <3>2. stream[sent[j].last] = "]"
          BY DEF Layout, Placed
    <3> QED BY <3>1, <3>2
  <2>4. j # k
        BY <1>8, <2>2, <2>3 DEF f
  <2>5. ~(k < j)
    <3>1. ASSUME k < j PROVE l < sent[j].first
          BY <3>1 DEF Layout, l
    <3> QED BY <1>1, <1>2, <1>8, <2>2, <2>3, <3>1
  <2>6. sent[j].last < f
    <3>1. j < k
          BY <1>2, <2>3, <2>4, <2>5
    <3> QED BY <3>1 DEF Layout, f
  <2>7. sent[j].last \in start..(end - 1)
        BY <1>1, <1>2, <1>5, <2>2, <2>3, <2>6
  <2> QED BY <1>1, <2>3, <2>7
<1>9. start = f
      BY <1>1, <1>2, <1>7, <1>8
<1>10. end <= l
  <2>1. ASSUME l < end PROVE l \in start..(end - 1)
        BY <1>1, <1>2, <1>9, <2>1
  <2> QED BY <1>1, <1>2, <1>3, <2>1
<1> QED BY <1>9, <1>10 DEF f, l

\* What is found inside a message and taken for an instruction was quoted by it.
LEMMA FoundInsideIsQuoted ==
    ASSUME TypeOK, Layout, NEW k \in DOMAIN sent,
           NEW start \in 1..got, start \in sent[k].first..sent[k].last,
           start # sent[k].first, stream[start] = "[",
           NEW end \in start..got, NEW input, input = SubSeq(stream, start, end),
           NEW open \in DOMAIN input, NEW close \in DOMAIN input,
           Deserializes(input, open, close)
    PROVE  Quotes(sent[k].text)
<1> DEFINE text == sent[k].text
           f == sent[k].first
           l == sent[k].last
<1>1. /\ text \in Seq(Char) /\ Len(text) \in Nat /\ f \in Nat \ {0} /\ l \in Nat
      /\ l = f + Len(text) + 4 /\ l <= Len(stream)
      /\ DOMAIN text = 1..Len(text)
  <2>1. /\ text \in Seq(Char) /\ Len(text) \in Nat /\ f \in Nat \ {0}
        /\ l = f + Len(text) + 4 /\ l <= Len(stream)
        BY MessageFacts
  <2>2. DOMAIN text = 1..Len(text)
        BY <2>1, LenProperties
  <2> HIDE DEF text, f, l
  <2>3. l \in Nat
        BY <2>1
  <2> QED BY <2>1, <2>2, <2>3
<1>2. /\ stream[f + 1] = "num" /\ stream[f + 2] = "("
      /\ \A i \in 1..Len(text) : stream[f + 2 + i] = text[i]
      /\ stream[l - 1] = ")" /\ stream[l] = "]"
      BY DEF Layout, Placed
<1>3. stream \in Seq(Char) /\ Len(stream) \in Nat /\ got \in 0..Len(stream)
      BY LenProperties DEF TypeOK
<1>4. start \in Nat /\ f < start /\ start <= l /\ stream[start] = "["
      BY <1>1, <1>3
<1> HIDE DEF text, f, l
<1>5. /\ DOMAIN input = 1..(end - start + 1)
      /\ \A i \in 1..(end - start + 1) : input[i] = stream[start + i - 1]
  <2>1. start \in 1..Len(stream) /\ end \in (start - 1)..Len(stream)
        BY <1>3
  <2> QED BY <1>3, <2>1, Piece
<1>6. PICK m \in DOMAIN input :
          /\ input[m] = "num"
          /\ \A i \in 2..(m - 1) : input[i] = "nl"
      BY DEF Deserializes
<1> DEFINE p == start + m - 1
<1>7. m \in Nat /\ m >= 2 /\ m <= end - start + 1 /\ end \in Nat
  <2>1. m \in 1..(end - start + 1) /\ end \in Nat
        BY <1>3, <1>4, <1>5, <1>6
  <2>2. m # 1
    <3>1. ASSUME m = 1 PROVE input[m] = stream[start]
      <4>1. 1 \in 1..(end - start + 1) /\ start + 1 - 1 = start
            BY <1>4, <2>1, <3>1
      <4> QED BY <1>5, <3>1, <4>1
    <3> QED BY <1>4, <1>6, <3>1
  <2> QED BY <2>1, <2>2
<1>8. stream[p] = "num" /\ p \in Nat /\ p > start
      BY <1>4, <1>5, <1>6, <1>7
<1>9. \A i \in (start + 1)..(p - 1) : stream[i] = "nl"
  <2> SUFFICES ASSUME NEW i \in (start + 1)..(p - 1)
               PROVE  stream[i] = "nl"
      OBVIOUS
  <2> DEFINE j == i - start + 1
  <2>1. /\ j \in 2..(m - 1) /\ j \in 1..(end - start + 1)
        /\ start + j - 1 = i
        BY <1>4, <1>7
  <2> HIDE DEF j
  <2>2. input[j] = "nl" /\ input[j] = stream[start + j - 1]
        BY <1>5, <1>6, <2>1
  <2> QED BY <2>1, <2>2
<1> HIDE DEF p
\* The opening bracket lies in the text, and so do the integers.
<1>10. start - f - 2 \in 1..Len(text)
  <2>1. start # f + 1 /\ start # f + 2 /\ start # l - 1 /\ start # l
    <3>1. /\ stream[start] # stream[f + 1] /\ stream[start] # stream[f + 2]
          /\ stream[start] # stream[l - 1] /\ stream[start] # stream[l]
          BY <1>2, <1>4
    <3> QED BY <3>1
  <2> DEFINE n == Len(text)
  <2>2. f \in Nat /\ n \in Nat /\ l = f + n + 4 /\ start \in Nat /\ f < start /\ start <= l
        BY <1>1, <1>4
  <2> HIDE DEF n
  <2>3. start - f - 2 \in 1..n
        BY <2>1, <2>2
  <2> QED BY <2>3 DEF n
<1>11. p - f - 2 \in 1..Len(text)
  <2>1. p <= l
    <3>1. ASSUME l < p PROVE l \in (start + 1)..(p - 1)
          BY <1>1, <1>4, <1>8, <1>10, <3>1
    <3> QED BY <1>1, <1>2, <1>8, <1>9, <3>1
  <2>2. p # l /\ p # l - 1
        BY <1>2, <1>8
  <2> DEFINE n == Len(text)
  <2>3. /\ f \in Nat /\ n \in Nat /\ l = f + n + 4 /\ start \in Nat /\ p \in Nat
        /\ start < p /\ start - f - 2 >= 1
        BY <1>1, <1>4, <1>8, <1>10
  <2> HIDE DEF n
  <2>4. p - f - 2 \in 1..n
        BY <2>1, <2>2, <2>3
  <2> QED BY <2>4 DEF n
<1>12. \A i \in 1..Len(text) : text[i] = stream[f + 2 + i]
      BY <1>2
<1> DEFINE i == start - f - 2
           j == p - f - 2
<1>13. i \in DOMAIN text /\ j \in DOMAIN text /\ i < j
      BY <1>1, <1>4, <1>8, <1>10, <1>11
<1>14. f + 2 + i = start /\ f + 2 + j = p
      BY <1>1, <1>4, <1>8
<1>15. text[i] = stream[f + 2 + i] /\ text[j] = stream[f + 2 + j]
      BY <1>10, <1>11, <1>12
<1>16. text[i] = "[" /\ text[j] = "num"
      BY <1>4, <1>8, <1>14, <1>15
<1>17. ASSUME NEW h \in (i + 1)..(j - 1) PROVE text[h] = "nl"
  <2>1. h \in 1..Len(text) /\ f + 2 + h \in (start + 1)..(p - 1)
        BY <1>1, <1>4, <1>8, <1>10, <1>11
  <2>2. text[h] = stream[f + 2 + h]
        BY <1>12, <2>1
  <2> QED BY <1>9, <2>1, <2>2
<1> HIDE DEF i, j
<1>18. Quotes(text)
      BY <1>13, <1>16, <1>17 DEF Quotes
<1> QED BY <1>18 DEF text

--------------------------------------------------------------------------------
(* Each action preserves the invariant *)

\* Appending to a queue adds one element, at the end.
LEMMA AppendFacts ==
    ASSUME NEW S, NEW seq \in Seq(S), NEW e \in S
    PROVE  /\ Append(seq, e) \in Seq(S)
           /\ Len(seq) \in Nat /\ DOMAIN seq = 1..Len(seq)
           /\ DOMAIN Append(seq, e) = 1..(Len(seq) + 1)
           /\ \A i \in 1..Len(seq) : Append(seq, e)[i] = seq[i]
           /\ Append(seq, e)[Len(seq) + 1] = e
<1>1. /\ Append(seq, e) \in Seq(S)
      /\ Len(Append(seq, e)) = Len(seq) + 1
      /\ \A i \in 1..Len(seq) : Append(seq, e)[i] = seq[i]
      /\ Append(seq, e)[Len(seq) + 1] = e
      BY AppendProperties
<1> QED BY <1>1, LenProperties

LEMMA InitIInv == Init => IInv
<1> SUFFICES ASSUME Init PROVE IInv
    OBVIOUS
<1>1. /\ sent = << >> /\ stream = << >> /\ got = 0 /\ pos = 1 /\ split = {} /\ queue = << >>
      /\ DOMAIN << >> = {} /\ Len(<< >>) = 0
      BY EmptySeq DEF Init
<1>2. TypeOK
  <2>1. MaxSent \in Nat
        BY InstructionTextAssumption
  <2> QED BY <1>1, <2>1, EmptySeq DEF TypeOK
<1>3. Layout
      BY <1>1 DEF Layout
<1>4. SplitKnown /\ Behind /\ TakenAtOnce /\ NothingMadeUp
      BY <1>1 DEF SplitKnown, Behind, TakenAtOnce, NothingMadeUp
<1> QED BY <1>2, <1>3, <1>4 DEF IInv

LEMMA SendIInv ==
    ASSUME IInv, NEW text \in Text, Send(text)
    PROVE  IInv'
<1> DEFINE K == Len(sent)
           M == Len(stream)
           msg == [text |-> text, first |-> M + 1, last |-> Len(stream')]
           R == [text : Text, first : Nat, last : Nat]
<1> USE DEF IInv
<1>1. /\ sent \in Seq(R) /\ K \in Nat /\ DOMAIN sent = 1..K
      /\ stream \in Seq(Char) /\ M \in Nat
      /\ got \in 0..M /\ pos \in 1..(got + 1) /\ split \subseteq 1..K
      BY LenProperties DEF TypeOK
<1>2. /\ text \in Seq(Char) /\ Len(text) \in Nat
      BY InstructionTextAssumption, LenProperties
<1>3. /\ K < MaxSent /\ stream' = stream \o Serialize(text) /\ sent' = Append(sent, msg)
      /\ UNCHANGED <<got, pos, split, queue>>
      BY DEF Send
<1> HIDE DEF K, M
<1>4. /\ stream' \in Seq(Char) /\ Len(stream') = M + Len(text) + 5
      /\ \A i \in 1..M : stream'[i] = stream[i]
      /\ \A i \in 1..(Len(text) + 5) : stream'[M + i] = Serialize(text)[i]
  <2> DEFINE S == Serialize(text)
  <2>1. S \in Seq(Char) /\ Len(S) = Len(text) + 5
        BY <1>2, SerializeShape
  <2>2. /\ stream \o S \in Seq(Char) /\ Len(stream \o S) = Len(stream) + Len(S)
        /\ \A i \in 1..(Len(stream) + Len(S)) :
              (stream \o S)[i] = IF i <= Len(stream) THEN stream[i] ELSE S[i - Len(stream)]
        BY <1>1, <2>1, ConcatProperties
  <2> HIDE DEF S
  <2>3. /\ stream' \in Seq(Char) /\ Len(stream') = M + Len(text) + 5
        /\ \A i \in 1..(M + Len(text) + 5) :
              stream'[i] = IF i <= M THEN stream[i] ELSE S[i - M]
        BY <1>1, <1>2, <1>3, <2>1, <2>2 DEF M, S
  <2>4. ASSUME NEW i \in 1..M PROVE stream'[i] = stream[i]
        BY <1>1, <1>2, <2>3
  <2>5. ASSUME NEW i \in 1..(Len(text) + 5) PROVE stream'[M + i] = S[i]
    <3>1. M + i \in 1..(M + Len(text) + 5) /\ ~(M + i <= M) /\ (M + i) - M = i
          BY <1>1, <1>2
    <3> QED BY <2>3, <3>1
  <2> QED BY <2>3, <2>4, <2>5 DEF S
<1>5. /\ msg \in R
      /\ sent' \in Seq(R) /\ DOMAIN sent' = 1..(K + 1) /\ Len(sent') = K + 1
      /\ \A k \in 1..K : sent'[k] = sent[k]
      /\ sent'[K + 1] = msg
  <2>1. msg \in R
        BY <1>1, <1>2, <1>4
  <2> HIDE DEF msg, R
  <2>2. /\ Append(sent, msg) \in Seq(R)
        /\ DOMAIN Append(sent, msg) = 1..(Len(sent) + 1)
        /\ \A i \in 1..Len(sent) : Append(sent, msg)[i] = sent[i]
        /\ Append(sent, msg)[Len(sent) + 1] = msg
        /\ Len(Append(sent, msg)) = Len(sent) + 1
        BY <1>1, <2>1, AppendFacts, AppendProperties
  <2> QED BY <1>3, <2>1, <2>2 DEF K
<1>6. /\ msg.text = text /\ msg.first = M + 1 /\ msg.last = M + Len(text) + 5
      BY <1>4
<1> HIDE DEF msg
<1>7. TypeOK'
  <2>1. Len(sent') <= MaxSent
        BY <1>1, <1>3, <1>5, InstructionTextAssumption
  <2>2. /\ got' \in 0..Len(stream') /\ pos' \in 1..(got' + 1)
        /\ split' \subseteq DOMAIN sent'
    <3>1. got \in 0..(M + Len(text) + 5) /\ 1..K \subseteq 1..(K + 1)
          BY <1>1, <1>2
    <3> QED BY <1>1, <1>3, <1>4, <1>5, <3>1
  <2>3. queue' \in Seq([data : Seq(Char), at : 1..got'])
        BY <1>3 DEF TypeOK
  <2> QED BY <1>4, <1>5, <2>1, <2>2, <2>3 DEF TypeOK
<1>8. Layout'
  <2>1. ASSUME NEW k \in 1..K PROVE Placed(k)'
    <3>1. k \in DOMAIN sent /\ sent'[k] = sent[k] /\ Placed(k)
          BY <1>1, <1>5 DEF Layout
    <3> DEFINE f == sent[k].first
               l == sent[k].last
               n == Len(sent[k].text)
    <3>2. f \in Nat \ {0} /\ n \in Nat /\ l = f + n + 4 /\ l <= M
          BY <3>1, MessageFacts DEF M
    <3> HIDE DEF f, l, n
    <3>3. /\ f \in 1..M /\ f + 1 \in 1..M /\ f + 2 \in 1..M /\ l - 1 \in 1..M /\ l \in 1..M
          /\ l <= Len(stream')
      <4>1. f \in Int /\ f >= 1 /\ l = f + n + 4 /\ n >= 0 /\ n \in Int /\ M \in Int /\ l <= M
            BY <1>1, <3>2
      <4>2. Len(stream') >= M /\ Len(stream') \in Int
            BY <1>1, <1>2, <1>4
      <4> QED BY <4>1, <4>2
    <3>4. ASSUME NEW i \in 1..n PROVE stream'[f + 2 + i] = sent[k].text[i]
      <4>1. f + 2 + i \in 1..M
            BY <1>1, <3>2
      <4>2. stream[f + 2 + i] = sent[k].text[i]
            BY <3>1 DEF Placed, f, n
      <4> QED BY <1>4, <4>1, <4>2
    <3>5. /\ stream'[f] = "[" /\ stream'[f + 1] = "num" /\ stream'[f + 2] = "("
          /\ stream'[l - 1] = ")" /\ stream'[l] = "]"
      <4>1. /\ stream[f] = "[" /\ stream[f + 1] = "num" /\ stream[f + 2] = "("
            /\ stream[l - 1] = ")" /\ stream[l] = "]"
            BY <3>1 DEF Placed, f, l
      <4> QED BY <1>4, <3>3, <4>1
    <3> QED BY <3>1, <3>2, <3>3, <3>4, <3>5 DEF Placed, f, l, n
  <2>2. ASSUME NEW k, k = K + 1 PROVE Placed(k)'
    <3>1. /\ 1 \in 1..(Len(text) + 5) /\ 2 \in 1..(Len(text) + 5) /\ 3 \in 1..(Len(text) + 5)
          /\ Len(text) + 4 \in 1..(Len(text) + 5) /\ Len(text) + 5 \in 1..(Len(text) + 5)
          BY <1>2
    <3>2. /\ stream'[M + 1] = "[" /\ stream'[M + 2] = "num" /\ stream'[M + 3] = "("
          /\ stream'[M + (Len(text) + 4)] = ")" /\ stream'[M + (Len(text) + 5)] = "]"
      <4> DEFINE S == Serialize(text)
      <4>1. /\ S[1] = "[" /\ S[2] = "num" /\ S[3] = "("
            /\ S[Len(text) + 4] = ")" /\ S[Len(text) + 5] = "]"
            BY <1>2, SerializeShape
      <4>2. /\ stream'[M + 1] = S[1] /\ stream'[M + 2] = S[2] /\ stream'[M + 3] = S[3]
            /\ stream'[M + (Len(text) + 4)] = S[Len(text) + 4]
            /\ stream'[M + (Len(text) + 5)] = S[Len(text) + 5]
            BY <1>4, <3>1
      <4> QED BY <4>1, <4>2
    <3>3. ASSUME NEW i \in 1..Len(text) PROVE stream'[(M + 1) + 2 + i] = text[i]
      <4>1. 3 + i \in 1..(Len(text) + 5) /\ M + (3 + i) = (M + 1) + 2 + i
            BY <1>1, <1>2
      <4>2. stream'[M + (3 + i)] = Serialize(text)[3 + i]
            BY <1>4, <4>1
      <4> QED BY <1>2, <4>1, <4>2, SerializeShape
    <3>4. /\ (M + 1) + 1 = M + 2 /\ (M + 1) + 2 = M + 3
          /\ (M + Len(text) + 5) - 1 = M + (Len(text) + 4)
          /\ M + Len(text) + 5 = M + (Len(text) + 5)
          /\ M + Len(text) + 5 = (M + 1) + Len(text) + 4
          /\ M + 1 \in Nat \ {0}
          BY <1>1, <1>2
    <3>5. /\ sent'[k].text = text /\ sent'[k].first = M + 1
          /\ sent'[k].last = M + Len(text) + 5
          BY <1>5, <1>6, <2>2
    <3>6. M + Len(text) + 5 <= Len(stream')
          BY <1>1, <1>2, <1>4
    <3> DEFINE f == M + 1
               l == M + Len(text) + 5
    <3>7. /\ stream'[f] = "[" /\ stream'[f + 1] = "num" /\ stream'[f + 2] = "("
          /\ stream'[l - 1] = ")" /\ stream'[l] = "]"
          /\ \A i \in 1..Len(text) : stream'[f + 2 + i] = text[i]
          BY <3>2, <3>3, <3>4
    <3>8. f \in Nat \ {0} /\ l = f + Len(text) + 4 /\ l <= Len(stream')
          BY <3>4, <3>6
    <3>9. sent'[k].text = text /\ sent'[k].first = f /\ sent'[k].last = l
          BY <3>5
    <3> HIDE DEF f, l
    <3> QED BY <3>7, <3>8, <3>9 DEF Placed
  <2>3. ASSUME NEW p \in 1..Len(stream')
        PROVE  \E k \in DOMAIN sent' : p \in sent'[k].first..sent'[k].last
    <3>1. CASE p <= M
      <4>1. PICK k \in DOMAIN sent : p \in sent[k].first..sent[k].last
            BY <1>1, <3>1 DEF Layout, M
      <4>2. k \in DOMAIN sent' /\ sent'[k] = sent[k]
            BY <1>1, <1>5, <4>1
      <4> QED BY <4>1, <4>2
    <3>2. CASE p > M
      <4>1. p \in (M + 1)..(M + Len(text) + 5) /\ K + 1 \in 1..(K + 1)
            BY <1>1, <1>2, <1>4, <3>2
      <4> QED BY <1>5, <1>6, <4>1
    <3> QED BY <1>1, <3>1, <3>2
  <2>4. ASSUME NEW j \in DOMAIN sent', NEW k \in DOMAIN sent', j < k
        PROVE  sent'[j].last < sent'[k].first
    <3>1. j \in 1..K
          BY <1>1, <1>5, <2>4
    <3>2. CASE k \in 1..K
          BY <1>1, <1>5, <2>4, <3>1, <3>2 DEF Layout
    <3>3. CASE k = K + 1
      <4>1. sent[j].last \in Int /\ sent[j].last <= M /\ sent'[j] = sent[j]
        <5> DEFINE f == sent[j].first
                   n == Len(sent[j].text)
                   l == sent[j].last
        <5>1. f \in Nat /\ n \in Nat /\ l = f + n + 4 /\ l <= M
              BY <1>1, <3>1, MessageFacts DEF M
        <5> HIDE DEF f, n, l
        <5>2. l \in Int /\ l <= M
              BY <5>1
        <5> QED BY <1>5, <3>1, <5>2 DEF l
      <4> QED BY <1>1, <1>5, <1>6, <3>3, <4>1
    <3> QED BY <1>1, <1>5, <3>2, <3>3
  <2>5. ASSUME NEW k \in DOMAIN sent' PROVE Placed(k)'
    <3>1. k \in 1..K \/ k = K + 1
          BY <1>1, <1>5
    <3> QED BY <2>1, <2>2, <3>1
  <2> QED BY <2>3, <2>4, <2>5 DEF Layout
<1>9. SplitKnown'
  <2> SUFFICES ASSUME NEW k \in DOMAIN sent', got \in sent'[k].first..(sent'[k].last - 1)
               PROVE  k \in split
      BY <1>3 DEF SplitKnown
  <2>1. CASE k \in 1..K
        BY <1>1, <1>5, <2>1 DEF SplitKnown
  <2>2. CASE k = K + 1
        BY <1>1, <1>5, <1>6, <2>2
  <2> QED BY <1>1, <1>5, <2>1, <2>2
<1>10. Behind'
      BY <1>3 DEF Behind
<1>11. TakenAtOnce'
  <2> SUFFICES ASSUME NEW k \in DOMAIN sent', k \notin split, sent'[k].first < pos
               PROVE  Taken(k)'
      BY <1>3 DEF TakenAtOnce
  <2>1. k \in 1..K
        BY <1>1, <1>5, <1>6
  <2>2. sent'[k] = sent[k] /\ Taken(k)
        BY <1>1, <1>5, <2>1 DEF TakenAtOnce
  <2> QED BY <1>3, <2>2 DEF Taken
<1>12. NothingMadeUp'
  <2>1. ASSUME NEW q \in DOMAIN queue
        PROVE  \E k \in DOMAIN sent' :
                  /\ queue[q].at \in sent'[k].first..sent'[k].last
                  /\ queue[q].at = sent'[k].first \/ Quotes(sent'[k].text)
    <3>1. PICK k \in DOMAIN sent :
                  /\ queue[q].at \in sent[k].first..sent[k].last
                  /\ queue[q].at = sent[k].first \/ Quotes(sent[k].text)
          BY DEF NothingMadeUp
    <3>2. k \in DOMAIN sent' /\ sent'[k] = sent[k]
          BY <1>1, <1>5, <3>1
    <3> QED BY <3>1, <3>2
  <2>2. \A q, r \in DOMAIN queue : q < r => queue[q].at < queue[r].at
        BY DEF NothingMadeUp
  <2> QED BY <1>3, <2>1, <2>2 DEF NothingMadeUp
<1> QED BY <1>7, <1>8, <1>9, <1>10, <1>11, <1>12

LEMMA RecvIInv == IInv /\ Recv => IInv'
<1> SUFFICES ASSUME IInv, Recv PROVE IInv'
    OBVIOUS
<1> USE DEF IInv
<1>1. /\ UNCHANGED <<sent, stream, pos, queue>>
      /\ got' \in (got + 1)..Len(stream)
      /\ split' = split \cup {k \in DOMAIN sent : got' \in sent[k].first..(sent[k].last - 1)}
      BY DEF Recv
<1>2. got \in Nat /\ Len(stream) \in Nat /\ got' \in Nat /\ got < got' /\ pos \in 1..(got + 1)
      BY <1>1, LenProperties DEF TypeOK
<1>3. TypeOK'
  <2>1. queue \in Seq([data : Seq(Char), at : 1..got'])
    <3> DEFINE Q == [data : Seq(Char), at : 1..got]
               R == [data : Seq(Char), at : 1..got']
    <3>1. queue \in Seq(Q)
          BY DEF TypeOK
    <3>2. \A x : x \in Q => x \in R
          BY <1>2
    <3> HIDE DEF Q, R
    <3>3. Seq(Q) \subseteq Seq(R)
          BY <3>2
    <3> QED BY <3>1, <3>3 DEF R
  <2>2. pos' \in 1..(got' + 1) /\ got' \in 0..Len(stream')
    <3>1. pos' = pos /\ stream' = stream
          BY <1>1
    <3>2. pos \in 1..(got' + 1)
      <4> DEFINE g == got'
      <4>1. g \in Nat /\ got \in Nat /\ got < g /\ pos \in 1..(got + 1)
            BY <1>2
      <4> HIDE DEF g
      <4>2. pos \in 1..(g + 1)
            BY <4>1
      <4> QED BY <4>2 DEF g
    <3>3. got' \in 0..Len(stream)
          BY <1>1, <1>2
    <3> QED BY <3>1, <3>2, <3>3
  <2>3. split' \subseteq DOMAIN sent'
        BY <1>1 DEF TypeOK
  <2>4. queue' \in Seq([data : Seq(Char), at : 1..got'])
        BY <1>1, <2>1
  <2>5. /\ sent' \in Seq([text : Text, first : Nat, last : Nat]) /\ Len(sent') <= MaxSent
        /\ stream' \in Seq(Char)
        BY <1>1 DEF TypeOK
  <2> QED BY <2>2, <2>3, <2>4, <2>5 DEF TypeOK
<1>4. Layout'
      BY <1>1 DEF Layout, Placed
<1>5. SplitKnown'
      BY <1>1 DEF SplitKnown
<1>6. Behind'
      BY <1>1 DEF Behind
<1>7. TakenAtOnce'
  <2> SUFFICES ASSUME NEW k \in DOMAIN sent, k \notin split, sent[k].first < pos
               PROVE  Taken(k)'
      BY <1>1 DEF TakenAtOnce
  <2>1. Taken(k)
        BY DEF TakenAtOnce
  <2> QED BY <1>1, <2>1 DEF Taken
<1>8. NothingMadeUp'
      BY <1>1 DEF NothingMadeUp
<1> QED BY <1>3, <1>4, <1>5, <1>6, <1>7, <1>8

\* Wherever a message in one piece is still ahead of the search, the search
\* finds something.
LEMMA SearchFinds ==
    ASSUME TypeOK, Layout, SplitKnown, NEW k \in DOMAIN sent \ split,
           pos <= sent[k].first, sent[k].first <= got
    PROVE  \E start, end \in pos..got : Found(start, end)
<1> DEFINE f == sent[k].first
           l == sent[k].last
<1>1. f \in Nat /\ l \in Nat /\ f < l /\ stream[f] = "[" /\ stream[l] = "]"
  <2>1. f \in Nat /\ Len(sent[k].text) \in Nat /\ l = f + Len(sent[k].text) + 4
        BY MessageFacts
  <2>2. stream[f] = "[" /\ stream[l] = "]"
        BY DEF Layout, Placed
  <2> QED BY <2>1, <2>2
<1>2. pos \in Nat /\ got \in Nat /\ pos <= f /\ f <= got
      BY LenProperties DEF TypeOK
<1>3. l <= got
  <2>1. ~(got \in f..(l - 1))
        BY DEF SplitKnown
  <2> QED BY <1>1, <1>2, <2>1
<1>4. /\ Len(Received) = got
      /\ \A i \in 1..got : Received[i] = stream[i]
      BY ReceivedIsStream
<1> HIDE DEF f, l
<1>5. pos >= 1
      BY LenProperties DEF TypeOK
<1>6. Received[f] = "[" /\ Received[l] = "]"
  <2>1. f \in 1..got /\ l \in 1..got
        BY <1>1, <1>2, <1>3, <1>5
  <2> QED BY <1>1, <1>4, <2>1
<1> DEFINE Open == {i \in pos..got : Received[i] = "["}
<1>7. PICK start \in Open : \A i \in Open : start <= i
  <2>1. f \in Open
        BY <1>1, <1>2, <1>6
  <2>2. Open \subseteq Nat
        BY <1>2
  <2> HIDE DEF Open
  <2> QED BY <2>1, <2>2, LeastNatural
<1>8. start \in pos..got /\ Received[start] = "[" /\ start <= f
      BY <1>1, <1>2, <1>6, <1>7
<1>9. ASSUME NEW i \in pos..(start - 1) PROVE Received[i] # "["
      BY <1>2, <1>7
<1> DEFINE Close == {i \in start..got : Received[i] = "]"}
<1>10. PICK end \in Close : \A i \in Close : end <= i
  <2>1. l \in Close
        BY <1>1, <1>2, <1>3, <1>6, <1>8
  <2>2. Close \subseteq Nat
        BY <1>2, <1>8
  <2> HIDE DEF Close
  <2> QED BY <2>1, <2>2, LeastNatural
<1>11. end \in start..got /\ end \in pos..got /\ Received[end] = "]"
      BY <1>2, <1>8, <1>10
<1>12. ASSUME NEW i \in start..(end - 1) PROVE Received[i] # "]"
      BY <1>2, <1>8, <1>10
<1>13. Found(start, end)
      BY <1>4, <1>8, <1>9, <1>11, <1>12 DEF Found, Finds
<1> QED BY <1>8, <1>11, <1>13

LEMMA ParseBreaksIInv == IInv /\ ParseBreaks => IInv'
<1> SUFFICES ASSUME IInv, ParseBreaks PROVE IInv'
    OBVIOUS
<1> USE DEF IInv
<1>1. /\ UNCHANGED <<sent, stream, got, split, queue>>
      /\ pos' = got + 1 /\ pos <= got
      /\ ~\E start, end \in pos..got : Found(start, end)
      BY DEF ParseBreaks
<1>2. got \in Nat /\ pos \in Nat
      BY LenProperties DEF TypeOK
<1>3. TypeOK'
      BY <1>1, <1>2 DEF TypeOK
<1>4. Layout' /\ SplitKnown' /\ NothingMadeUp'
      BY <1>1 DEF Layout, Placed, SplitKnown, NothingMadeUp
<1>5. Behind'
  <2> SUFFICES ASSUME NEW q \in DOMAIN queue PROVE queue[q].at < got + 1
      BY <1>1 DEF Behind
  <2> DEFINE Q == [data : Seq(Char), at : 1..got]
  <2>1. queue \in Seq(Q)
        BY DEF TypeOK
  <2> HIDE DEF Q
  <2>2. queue[q] \in Q
        BY <2>1, ElementOfSeq, LenProperties
  <2> QED BY <1>2, <2>2 DEF Q
<1>6. TakenAtOnce'
  <2> SUFFICES ASSUME NEW k \in DOMAIN sent, k \notin split, sent[k].first < got + 1
               PROVE  Taken(k)'
      BY <1>1 DEF TakenAtOnce
  <2>1. sent[k].first \in Nat
        BY MessageFacts
  <2>2. sent[k].first < pos
        BY <1>1, <1>2, <2>1, SearchFinds
  <2>3. Taken(k)
        BY <2>2 DEF TakenAtOnce
  <2> QED BY <1>1, <2>3 DEF Taken
<1> QED BY <1>3, <1>4, <1>5, <1>6

LEMMA ParseIInv ==
    ASSUME IInv, NEW start \in pos..got, NEW end \in pos..got, Parse(start, end)
    PROVE  IInv'
<1> USE DEF IInv
<1> DEFINE input == SubSeq(stream, start, end)
           Q == [data : Seq(Char), at : 1..got]
           N == Len(queue)
<1>1. /\ Found(start, end) /\ pos' = end + 1
      /\ UNCHANGED <<sent, stream, got, split>>
      BY DEF Parse
<1>2. /\ start \in 1..got /\ end \in start..got /\ start < end
      /\ stream[start] = "[" /\ stream[end] = "]"
      /\ \A i \in start..(end - 1) : stream[i] # "]"
      BY <1>1, FoundInStream
<1>3. /\ stream \in Seq(Char) /\ Len(stream) \in Nat /\ got \in 0..Len(stream)
      /\ pos \in Nat /\ got \in Nat /\ pos <= start
      /\ queue \in Seq(Q) /\ N \in Nat /\ DOMAIN queue = 1..N
      BY LenProperties DEF TypeOK
<1>4. input \in Seq(Char) /\ DOMAIN input = 1..(end - start + 1)
  <2>1. start \in 1..Len(stream) /\ end \in (start - 1)..Len(stream)
        BY <1>2, <1>3
  <2> QED BY <1>3, <2>1, Piece
\* What the step does to the queue.
<1> DEFINE Valid(open, close) ==
               /\ Deserializes(input, open, close)
               /\ queue' = Append(queue, [data |-> Data(input, open, close), at |-> start])
<1>5. \/ \E open, close \in DOMAIN input : Valid(open, close)
      \/ /\ ~\E open, close \in DOMAIN input : Deserializes(input, open, close)
         /\ queue' = queue
      BY DEF Parse
<1> HIDE DEF input, N
<1>6. ASSUME NEW open \in DOMAIN input, NEW close \in DOMAIN input, Valid(open, close)
      PROVE  /\ queue' \in Seq(Q) /\ DOMAIN queue' = 1..(N + 1)
             /\ \A q \in 1..N : queue'[q] = queue[q]
             /\ queue'[N + 1] = [data |-> Data(input, open, close), at |-> start]
  <2> DEFINE e == [data |-> Data(input, open, close), at |-> start]
  <2>1. Data(input, open, close) \in Seq(Char)
    <3>1. open < close /\ open \in Nat \ {0} /\ close \in Nat /\ close <= Len(input)
      <4>1. open < close
            BY <1>6 DEF Deserializes
      <4>2. DOMAIN input = 1..Len(input) /\ Len(input) \in Nat
            BY <1>4, LenProperties
      <4> QED BY <4>1, <4>2
    <3> DEFINE m == open + 1
               n == close - 1
    <3>2. m \in 1..Len(input) /\ n \in (m - 1)..Len(input)
      <4>1. Len(input) \in Nat
            BY <1>4, LenProperties
      <4> QED BY <3>1, <4>1
    <3> HIDE DEF m, n
    <3>3. SubSeq(input, m, n) \in Seq(Char)
          BY <1>4, <3>2, Piece
    <3> QED BY <3>3 DEF Data, m, n
  <2>2. e \in Q
        BY <1>2, <2>1
  <2>3. queue' = Append(queue, e)
        BY <1>6
  <2> HIDE DEF e, Q
  <2>4. /\ queue' \in Seq(Q) /\ DOMAIN queue' = 1..(N + 1)
        /\ \A q \in 1..N : queue'[q] = queue[q]
        /\ queue'[N + 1] = e
        BY <1>3, <2>2, <2>3, AppendFacts DEF N
  <2> QED BY <2>4 DEF e
<1>7. ASSUME NEW q \in DOMAIN queue
      PROVE  queue[q].at \in Nat /\ queue[q].at < pos
  <2> HIDE DEF Q
  <2>1. queue[q] \in Q
        BY <1>3, ElementOfSeq, LenProperties
  <2>2. queue[q].at \in Nat
        BY <1>3, <2>1 DEF Q
  <2> QED BY <2>2 DEF Behind
<1>8. TypeOK'
  <2>1. queue' \in Seq([data : Seq(Char), at : 1..got'])
        BY <1>1, <1>3, <1>5, <1>6
  <2>2. pos' \in 1..(got' + 1)
        BY <1>1, <1>2, <1>3
  <2> QED BY <1>1, <2>1, <2>2 DEF TypeOK
<1>9. Layout' /\ SplitKnown'
      BY <1>1 DEF Layout, Placed, SplitKnown
\* Every element of the queue is an old one, or the one found at start.
<1>10. ASSUME NEW q \in DOMAIN queue'
       PROVE  \/ q \in DOMAIN queue /\ queue'[q] = queue[q]
              \/ /\ q = N + 1 /\ queue'[q].at = start
                 /\ \E open, close \in DOMAIN input :
                       /\ Deserializes(input, open, close)
                       /\ queue'[q] = [data |-> Data(input, open, close), at |-> start]
  <2>1. CASE queue' = queue
        BY <2>1
  <2>2. CASE \E open, close \in DOMAIN input : Valid(open, close)
    <3>1. PICK open, close \in DOMAIN input : Valid(open, close)
          BY <2>2
    <3>2. q \in 1..N \/ q = N + 1
          BY <1>3, <1>6, <3>1
    <3> QED BY <1>3, <1>6, <3>1, <3>2
  <2> QED BY <1>5, <2>1, <2>2
<1>11. DOMAIN queue \subseteq DOMAIN queue' /\ \A q \in DOMAIN queue : queue'[q] = queue[q]
  <2>1. CASE queue' = queue
        BY <2>1
  <2>2. CASE \E open, close \in DOMAIN input : Valid(open, close)
        BY <1>3, <1>6, <2>2
  <2> QED BY <1>5, <2>1, <2>2
<1>12. Behind'
  <2> SUFFICES ASSUME NEW q \in DOMAIN queue' PROVE queue'[q].at < end + 1
      BY <1>1 DEF Behind
  <2> QED BY <1>2, <1>3, <1>7, <1>10
<1>13. NothingMadeUp'
  <2>1. ASSUME NEW q \in DOMAIN queue'
        PROVE  \E k \in DOMAIN sent :
                  /\ queue'[q].at \in sent[k].first..sent[k].last
                  /\ queue'[q].at = sent[k].first \/ Quotes(sent[k].text)
    <3>1. CASE q \in DOMAIN queue /\ queue'[q] = queue[q]
          BY <3>1 DEF NothingMadeUp
    <3>2. CASE /\ queue'[q].at = start
               /\ \E open, close \in DOMAIN input : Deserializes(input, open, close)
      <4>1. start \in 1..Len(stream)
            BY <1>2, <1>3
      <4>2. PICK k \in DOMAIN sent : start \in sent[k].first..sent[k].last
            BY <4>1 DEF Layout
      <4>3. start # sent[k].first => Quotes(sent[k].text)
            BY <1>2, <3>2, <4>2, FoundInsideIsQuoted DEF input
      <4> QED BY <3>2, <4>2, <4>3
    <3> QED BY <1>10, <3>1, <3>2
  <2>2. ASSUME NEW q \in DOMAIN queue', NEW r \in DOMAIN queue', q < r
        PROVE  queue'[q].at < queue'[r].at
    <3>1. CASE r \in DOMAIN queue /\ queue'[r] = queue[r]
      <4>1. q \in DOMAIN queue
            BY <1>3, <1>10, <2>2, <3>1
      <4> QED BY <1>11, <2>2, <3>1, <4>1 DEF NothingMadeUp
    <3>2. CASE r = N + 1 /\ queue'[r].at = start
      <4>1. q # N + 1
            BY <1>3, <2>2, <3>2
      <4>2. q \in DOMAIN queue /\ queue'[q] = queue[q]
            BY <1>10, <4>1
      <4> QED BY <1>3, <1>7, <3>2, <4>2
    <3> QED BY <1>10, <3>1, <3>2
  <2> QED BY <1>1, <2>1, <2>2 DEF NothingMadeUp
<1>14. TakenAtOnce'
  <2> SUFFICES ASSUME NEW k \in DOMAIN sent, k \notin split, sent[k].first < end + 1
               PROVE  Taken(k)'
      BY <1>1 DEF TakenAtOnce
  <2> DEFINE text == sent[k].text
             f == sent[k].first
  <2>1. text \in Seq(Char) /\ f \in Nat
        BY MessageFacts
  <2> DEFINE Queued(qq, n) ==
                 \E q \in DOMAIN qq : qq[q] = [data |-> SubSeq(text, 1, n), at |-> f]
  <2>2. ASSUME \A n \in 0..Len(text) : Ends(text, n) <=> Queued(queue', n)
        PROVE  Taken(k)'
    <3>1. ASSUME NEW n \in 0..Len(text)
          PROVE  GetsThrough(text, SubSeq(text, 1, n)) <=> Queued(queue', n)
          BY <2>1, <2>2, PrefixGetsThrough
    <3>2. sent' = sent
          BY <1>1
    <3> QED BY <3>1, <3>2 DEF Taken
  \* A message that was dealt with before.
  <2>3. CASE f < pos
    <3>1. \A n \in 0..Len(text) : Ends(text, n) <=> Queued(queue, n)
      <4>1. Taken(k)
            BY <2>3 DEF TakenAtOnce
      <4>2. ASSUME NEW n \in 0..Len(text)
            PROVE  GetsThrough(text, SubSeq(text, 1, n)) <=> Queued(queue, n)
            BY <4>1 DEF Taken
      <4> QED BY <2>1, <4>2, PrefixGetsThrough
    <3>2. ASSUME NEW n \in 0..Len(text) PROVE Queued(queue, n) <=> Queued(queue', n)
      <4>1. ASSUME NEW q \in DOMAIN queue',
                   queue'[q] = [data |-> SubSeq(text, 1, n), at |-> f]
            PROVE  q \in DOMAIN queue /\ queue'[q] = queue[q]
        <5>1. queue'[q].at = f
              BY <4>1
        <5>2. queue'[q].at # start
              BY <1>2, <1>3, <2>1, <2>3, <5>1
        <5> QED BY <1>10, <5>2
      <4> QED BY <1>11, <4>1
    <3> QED BY <2>2, <3>1, <3>2
  \* The message that is found in this step.
  <2>4. CASE pos <= f
    <3>1. start = f /\ end \in f..sent[k].last
      <4>1. start = f /\ end <= sent[k].last
            BY <1>1, <1>2, <2>1, <2>4, FoundAtItsBracket
      <4> QED BY <1>2, <4>1, MessageFacts
    <3>2. /\ \A open, close \in DOMAIN input :
                 Deserializes(input, open, close) =>
                     \E n \in 0..Len(text) :
                         Ends(text, n) /\ Data(input, open, close) = SubSeq(text, 1, n)
          /\ \A n \in 0..Len(text) :
                 Ends(text, n) =>
                     \E open, close \in DOMAIN input : Deserializes(input, open, close)
          BY <1>2, <3>1, DeserializesWhatGetsThrough DEF input
    <3>3. ASSUME NEW n \in 0..Len(text), Ends(text, n) PROVE Queued(queue', n)
      <4>1. PICK open, close \in DOMAIN input : Valid(open, close)
            BY <1>5, <3>2, <3>3
      <4>2. PICK m \in 0..Len(text) :
                Ends(text, m) /\ Data(input, open, close) = SubSeq(text, 1, m)
            BY <3>2, <4>1
      <4>3. m = n
            BY <2>1, <3>3, <4>2, EndsOnce
      <4>4. /\ N + 1 \in DOMAIN queue'
            /\ queue'[N + 1] = [data |-> Data(input, open, close), at |-> start]
            BY <1>3, <1>6, <4>1
      <4> QED BY <3>1, <4>2, <4>3, <4>4
    <3>4. ASSUME NEW n \in 0..Len(text), Queued(queue', n) PROVE Ends(text, n)
      <4>1. PICK q \in DOMAIN queue' :
                queue'[q] = [data |-> SubSeq(text, 1, n), at |-> f]
            BY <3>4
      <4>2. ~(q \in DOMAIN queue /\ queue'[q] = queue[q])
        <5>1. ASSUME q \in DOMAIN queue, queue'[q] = queue[q] PROVE FALSE
          <6>1. queue[q].at = f
                BY <4>1, <5>1
          <6>2. queue[q].at < pos /\ pos \in Nat
                BY <1>3, <1>7, <5>1
          <6> QED BY <2>1, <2>4, <6>1, <6>2
        <5> QED BY <5>1
      <4>3. PICK open, close \in DOMAIN input :
                /\ Deserializes(input, open, close)
                /\ queue'[q] = [data |-> Data(input, open, close), at |-> start]
            BY <1>10, <4>2
      <4>4. Data(input, open, close) = SubSeq(text, 1, n)
            BY <4>1, <4>3
      <4>5. PICK m \in 0..Len(text) :
                Ends(text, m) /\ Data(input, open, close) = SubSeq(text, 1, m)
            BY <3>2, <4>3
      <4>6. m = n
        <5>1. Len(SubSeq(text, 1, m)) = m /\ Len(SubSeq(text, 1, n)) = n
              BY <2>1, PrefixLength
        <5> QED BY <4>4, <4>5, <5>1
      <4> QED BY <4>5, <4>6
    <3> QED BY <2>2, <3>3, <3>4
  <2> QED BY <1>3, <2>1, <2>3, <2>4
<1> QED BY <1>8, <1>9, <1>12, <1>13, <1>14

--------------------------------------------------------------------------------
(* Theorems *)

LEMMA IInvHolds == Spec => []IInv
<1>1. IInv /\ [Next]_vars => IInv'
  <2> SUFFICES ASSUME IInv, [Next]_vars PROVE IInv'
      OBVIOUS
  <2>1. CASE \E text \in Text : Send(text)
        BY <2>1, SendIInv
  <2>2. CASE Recv
        BY <2>2, RecvIInv
  <2>3. CASE \E start, end \in pos..got : Parse(start, end)
        BY <2>3, ParseIInv
  <2>4. CASE ParseBreaks
        BY <2>4, ParseBreaksIInv
  <2>5. CASE UNCHANGED vars
    <3>1. UNCHANGED <<sent, stream, got, pos, split, queue>>
          BY <2>5 DEF vars
    <3>2. TypeOK' /\ Layout' /\ SplitKnown' /\ Behind' /\ NothingMadeUp'
          BY <3>1 DEF IInv, TypeOK, Layout, Placed, SplitKnown, Behind, NothingMadeUp
    <3>3. TakenAtOnce'
          BY <3>1 DEF IInv, TakenAtOnce, Taken
    <3> QED BY <3>2, <3>3 DEF IInv
  <2> QED BY <2>1, <2>2, <2>3, <2>4, <2>5 DEF Next
<1> QED BY InitIInv, <1>1, PTL DEF Spec

\* Stream, search and queue stay well typed: no index leaves the buffer, for any
\* texts and any buffer size.
THEOREM TextTypeCorrect == Spec => []TypeOK
<1>1. IInv => TypeOK
      BY DEF IInv
<1> QED BY IInvHolds, <1>1, PTL

\* A message that arrives in one piece is taken for what it is, for any messages
\* around it and any cuts.
THEOREM WholeMessagesUndisturbed == Spec => []TakenForWhatItIs
<1>1. IInv => TakenForWhatItIs
  <2> SUFFICES ASSUME IInv, NEW k \in Scanned PROVE Taken(k)
      BY DEF TakenForWhatItIs
  <2> USE DEF IInv
  <2>1. k \in DOMAIN sent \ split /\ sent[k].last < pos
        BY DEF Scanned
  <2> DEFINE f == sent[k].first
             l == sent[k].last
             n == Len(sent[k].text)
  <2>2. f \in Nat /\ n \in Nat /\ l = f + n + 4 /\ pos \in Nat
    <3>1. pos \in Nat
          BY LenProperties DEF TypeOK
    <3> QED BY <2>1, <3>1, MessageFacts
  <2> HIDE DEF n
  <2>3. f < pos
        BY <2>1, <2>2
  <2> QED BY <2>1, <2>3 DEF TakenAtOnce
<1> QED BY IInvHolds, <1>1, PTL

\* Pieces of messages are not taken for instructions, and instructions are
\* queued once and in order.
THEOREM PiecesAreNotInstructions == Spec => []NothingMadeUp
<1>1. IInv => NothingMadeUp
      BY DEF IInv
<1> QED BY IInvHolds, <1>1, PTL

================================================================================
