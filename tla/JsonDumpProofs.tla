----------------------------- MODULE JsonDumpProofs -----------------------------
(*****************************************************************************)
(* Theorems about JsonDump, for strings of any bytes and any length and for  *)
(* any buffer of 13 bytes or more.  Known is what makes the buffer suffice;  *)
(* Decoding is what ties the state of decode to the characters of UTF-8.     *)
(*****************************************************************************)
EXTENDS JsonDump, TLAPS

(* What decode knows of a character it has not read to its end: how many of  *)
(* its bytes it may have read, and between which bounds the code point is.   *)
(* The lower bounds keep characters of several bytes away from the escapes,  *)
(* the upper ones keep the code point within 21 bits.                        *)
Known(st, length, point) ==
    \/ st = 0 /\ length = 0
    \/ st = 2 /\ length \in 1..3 /\ point >= 2 /\ point < 32768
    \/ st = 3 /\ length \in 1..2 /\ point \in 1..511
    \/ st = 4 /\ length = 1 /\ point = 0
    \/ st = 5 /\ length = 1 /\ point = 13
    \/ st = 6 /\ length = 1 /\ point = 0
    \/ st = 7 /\ length = 1 /\ point \in 1..3
    \/ st = 8 /\ length = 1 /\ point = 4

LEMMA KnownLength ==
    ASSUME NEW st, NEW length, NEW point, Known(st, length, point)
    PROVE  length \in 0..3
BY SMT DEF Known

--------------------------------------------------------------------------------
(* decode *)

\* The first 256 entries of the table.
LEMMA Types ==
    ASSUME NEW byte \in 0..255
    PROVE  /\ byte \in 0..127 => Type(byte) = 0
           /\ byte \in 128..143 => Type(byte) = 1
           /\ byte \in 144..159 => Type(byte) = 9
           /\ byte \in 160..191 => Type(byte) = 7
           /\ byte \in 194..223 => Type(byte) = 2
           /\ byte = 224 => Type(byte) = 10
           /\ byte \in (225..236) \cup {238, 239} => Type(byte) = 3
           /\ byte = 237 => Type(byte) = 4
           /\ byte = 240 => Type(byte) = 11
           /\ byte \in 241..243 => Type(byte) = 6
           /\ byte = 244 => Type(byte) = 5
           /\ byte \in {192, 193} \cup (245..255) => Type(byte) = 8
<1>1. byte \in 0..127 => Type(byte) = 0  BY SMT DEF Type
<1>2. byte \in 128..143 => Type(byte) = 1  BY SMT DEF Type
<1>3. byte \in 144..159 => Type(byte) = 9  BY SMT DEF Type
<1>4. byte \in 160..191 => Type(byte) = 7  BY SMT DEF Type
<1>5. byte \in 194..223 => Type(byte) = 2  BY SMT DEF Type
<1>6. byte = 224 => Type(byte) = 10  BY SMT DEF Type
<1>7. byte \in (225..236) \cup {238, 239} => Type(byte) = 3  BY SMT DEF Type
<1>8. byte = 237 => Type(byte) = 4  BY SMT DEF Type
<1>9. byte = 240 => Type(byte) = 11  BY SMT DEF Type
<1>10. byte \in 241..243 => Type(byte) = 6  BY SMT DEF Type
<1>11. byte = 244 => Type(byte) = 5  BY SMT DEF Type
<1>12. byte \in {192, 193} \cup (245..255) => Type(byte) = 8  BY SMT DEF Type
<1> QED BY <1>1, <1>2, <1>3, <1>4, <1>5, <1>6, <1>7, <1>8, <1>9, <1>10, <1>11, <1>12

\* The rows of the states a character can be in, but for the first.
LEMMA Rows ==
    ASSUME NEW t \in 0..11
    PROVE  /\ utf8d[3][t + 1] = IF t \in {1, 7, 9} THEN 0 ELSE 1
           /\ utf8d[4][t + 1] = IF t \in {1, 7, 9} THEN 2 ELSE 1
           /\ utf8d[5][t + 1] = IF t = 7 THEN 2 ELSE 1
           /\ utf8d[6][t + 1] = IF t \in {1, 9} THEN 2 ELSE 1
           /\ utf8d[7][t + 1] = IF t \in {7, 9} THEN 3 ELSE 1
           /\ utf8d[8][t + 1] = IF t \in {1, 7, 9} THEN 3 ELSE 1
           /\ utf8d[9][t + 1] = IF t = 1 THEN 3 ELSE 1
<1>3. utf8d[3] = <<1, 0, 1, 1, 1, 1, 1, 0, 1, 0, 1, 1>>  BY DEF utf8d
<1>4. utf8d[4] = <<1, 2, 1, 1, 1, 1, 1, 2, 1, 2, 1, 1>>  BY DEF utf8d
<1>5. utf8d[5] = <<1, 1, 1, 1, 1, 1, 1, 2, 1, 1, 1, 1>>  BY DEF utf8d
<1>6. utf8d[6] = <<1, 2, 1, 1, 1, 1, 1, 1, 1, 2, 1, 1>>  BY DEF utf8d
<1>7. utf8d[7] = <<1, 1, 1, 1, 1, 1, 1, 3, 1, 3, 1, 1>>  BY DEF utf8d
<1>8. utf8d[8] = <<1, 3, 1, 1, 1, 1, 1, 3, 1, 3, 1, 1>>  BY DEF utf8d
<1>9. utf8d[9] = <<1, 3, 1, 1, 1, 1, 1, 1, 1, 1, 1, 1>>  BY DEF utf8d
<1>13. utf8d[3][t + 1] = IF t \in {1, 7, 9} THEN 0 ELSE 1  BY <1>3
<1>14. utf8d[4][t + 1] = IF t \in {1, 7, 9} THEN 2 ELSE 1  BY <1>4
<1>15. utf8d[5][t + 1] = IF t = 7 THEN 2 ELSE 1  BY <1>5
<1>16. utf8d[6][t + 1] = IF t \in {1, 9} THEN 2 ELSE 1  BY <1>6
<1>17. utf8d[7][t + 1] = IF t \in {7, 9} THEN 3 ELSE 1  BY <1>7
<1>18. utf8d[8][t + 1] = IF t \in {1, 7, 9} THEN 3 ELSE 1  BY <1>8
<1>19. utf8d[9][t + 1] = IF t = 1 THEN 3 ELSE 1  BY <1>9
<1> QED BY <1>13, <1>14, <1>15, <1>16, <1>17, <1>18, <1>19

\* What decode makes of a byte: the first of a character, or another one of the
\* character it is in.
Decoded(byte, length, st, point) ==
    /\ st \in 0..8
    /\ point \in Nat /\ point < 2097152
    /\ st = 0 => IF length = 0 THEN byte <= 127 /\ point = byte
                               ELSE byte >= 128 /\ point >= 128
    /\ st \notin {0, 1} => byte >= 128 /\ Known(st, length + 1, point)

\* The first byte of a character.
LEMMA FirstByte ==
    ASSUME NEW byte \in 0..255
    PROVE  Decoded(byte, 0, utf8d[1][Type(byte) + 1], Payload(byte))
<1> DEFINE row == utf8d[1]
           masks == <<256, 128, 64, 32, 16, 8, 4, 2, 1, 1, 1, 1>>
<1>0. /\ row = <<0, 1, 2, 3, 5, 8, 7, 1, 1, 1, 4, 6>>
      /\ Payload(byte) = byte % masks[Type(byte) + 1]
  BY DEF utf8d, Payload
<1> HIDE DEF row
<1>1. CASE byte \in 0..127
  <2>1. Type(byte) = 0  BY <1>1, Types
  <2>2. row[Type(byte) + 1] = 0 /\ Payload(byte) = byte % 256  BY <1>0, <2>1
  <2>3. byte % 256 = byte  BY <1>1
  <2> QED BY <2>2, <2>3, <1>1, SMT DEF Decoded, row
<1>2. CASE byte \in 194..223
  <2>1. Type(byte) = 2  BY <1>2, Types
  <2>2. row[Type(byte) + 1] = 2 /\ Payload(byte) = byte % 64  BY <1>0, <2>1
  <2>3. byte % 64 \in 2..31  BY <1>2
  <2> QED BY <2>2, <2>3, <1>2, SMT DEF Decoded, Known, row
<1>3. CASE byte = 224
  <2>1. Type(byte) = 10  BY <1>3, Types
  <2>2. row[Type(byte) + 1] = 4 /\ Payload(byte) = byte % 1  BY <1>0, <2>1
  <2>3. byte % 1 = 0  BY <1>3
  <2> QED BY <2>2, <2>3, <1>3, SMT DEF Decoded, Known, row
<1>4. CASE byte \in (225..236) \cup {238, 239}
  <2>1. Type(byte) = 3  BY <1>4, Types
  <2>2. row[Type(byte) + 1] = 3 /\ Payload(byte) = byte % 32  BY <1>0, <2>1
  <2>3. byte % 32 \in 1..15  BY <1>4
  <2> QED BY <2>2, <2>3, <1>4, SMT DEF Decoded, Known, row
<1>5. CASE byte = 237
  <2>1. Type(byte) = 4  BY <1>5, Types
  <2>2. row[Type(byte) + 1] = 5 /\ Payload(byte) = byte % 16  BY <1>0, <2>1
  <2>3. byte % 16 = 13  BY <1>5
  <2> QED BY <2>2, <2>3, <1>5, SMT DEF Decoded, Known, row
<1>6. CASE byte = 240
  <2>1. Type(byte) = 11  BY <1>6, Types
  <2>2. row[Type(byte) + 1] = 6 /\ Payload(byte) = byte % 1  BY <1>0, <2>1
  <2>3. byte % 1 = 0  BY <1>6
  <2> QED BY <2>2, <2>3, <1>6, SMT DEF Decoded, Known, row
<1>7. CASE byte \in 241..243
  <2>1. Type(byte) = 6  BY <1>7, Types
  <2>2. row[Type(byte) + 1] = 7 /\ Payload(byte) = byte % 4  BY <1>0, <2>1
  <2>3. byte % 4 \in 1..3  BY <1>7
  <2> QED BY <2>2, <2>3, <1>7, SMT DEF Decoded, Known, row
<1>8. CASE byte = 244
  <2>1. Type(byte) = 5  BY <1>8, Types
  <2>2. row[Type(byte) + 1] = 8 /\ Payload(byte) = byte % 8  BY <1>0, <2>1
  <2>3. byte % 8 = 4  BY <1>8
  <2> QED BY <2>2, <2>3, <1>8, SMT DEF Decoded, Known, row
<1>9. CASE byte \in (128..193) \cup (245..255)
  <2>1. Type(byte) \in {1, 7, 8, 9}  BY <1>9, Types
  <2>2. row[Type(byte) + 1] = 1  BY <1>0, <2>1
  <2>3. Payload(byte) \in 0..255
    <3>1. masks[Type(byte) + 1] \in {128, 2, 1}  BY <2>1
    <3>2. byte % 128 \in 0..255 /\ byte % 2 \in 0..255 /\ byte % 1 \in 0..255  OBVIOUS
    <3> QED BY <3>1, <3>2, <1>0
  <2> QED BY <2>2, <2>3, SMT DEF Decoded, row
<1> QED
  <2>1. \/ byte \in 0..127 \/ byte \in 194..223 \/ byte = 224
        \/ byte \in (225..236) \cup {238, 239} \/ byte = 237 \/ byte = 240
        \/ byte \in 241..243 \/ byte = 244 \/ byte \in (128..193) \cup (245..255)
    BY SMT
  <2> HIDE DEF masks
  <2> QED BY <2>1, <1>1, <1>2, <1>3, <1>4, <1>5, <1>6, <1>7, <1>8, <1>9, ZenonT(60)

\* Which bytes can follow in a character.
LEMMA Tails ==
    ASSUME NEW byte \in 0..255
    PROVE  /\ Type(byte) \in 0..11
           /\ Type(byte) = 1 => byte \in 128..143
           /\ Type(byte) = 9 => byte \in 144..159
           /\ Type(byte) = 7 => byte \in 160..191
<1>1. \/ byte \in 0..127 \/ byte \in 128..143 \/ byte \in 144..159 \/ byte \in 160..191
      \/ byte \in 194..223 \/ byte = 224 \/ byte \in (225..236) \cup {238, 239}
      \/ byte = 237 \/ byte = 240 \/ byte \in 241..243 \/ byte = 244
      \/ byte \in {192, 193} \cup (245..255)
  BY SMT
<1> QED BY <1>1, Types, SMT

\* Any other byte of a character.
LEMMA NextByte ==
    ASSUME NEW byte \in 0..255, NEW st, NEW length, NEW point \in Nat,
           Known(st, length, point), st # 0
    PROVE  Decoded(byte, length, utf8d[st + 1][Type(byte) + 1], point * 64 + (byte % 64))
<1> DEFINE t == Type(byte)
           r == byte % 64
           to == utf8d[st + 1][t + 1]
<1>1. /\ t \in 0..11
      /\ t = 1 => byte \in 128..143
      /\ t = 9 => byte \in 144..159
      /\ t = 7 => byte \in 160..191
  BY Tails
<1>2. /\ r \in 0..63
      /\ t = 1 => r \in 0..15
      /\ t = 9 => r \in 16..31
      /\ t = 7 => r \in 32..63
  <2>1. r \in 0..63  BY SMT
  <2>2. t = 1 => r \in 0..15  BY <1>1, SMT
  <2>3. t = 9 => r \in 16..31  BY <1>1, SMT
  <2>4. t = 7 => r \in 32..63  BY <1>1, SMT
  <2> QED BY <2>1, <2>2, <2>3, <2>4
<1>3. \A u \in 0..11 :
         /\ utf8d[3][u + 1] = IF u \in {1, 7, 9} THEN 0 ELSE 1
         /\ utf8d[4][u + 1] = IF u \in {1, 7, 9} THEN 2 ELSE 1
         /\ utf8d[5][u + 1] = IF u = 7 THEN 2 ELSE 1
         /\ utf8d[6][u + 1] = IF u \in {1, 9} THEN 2 ELSE 1
         /\ utf8d[7][u + 1] = IF u \in {7, 9} THEN 3 ELSE 1
         /\ utf8d[8][u + 1] = IF u \in {1, 7, 9} THEN 3 ELSE 1
         /\ utf8d[9][u + 1] = IF u = 1 THEN 3 ELSE 1
  BY Rows
<1> HIDE DEF t, r
<1>4. st = 2 /\ length \in 1..3 /\ point >= 2 /\ point < 32768
      => Decoded(byte, length, to, point * 64 + r)
  <2> SUFFICES ASSUME st = 2, length \in 1..3, point >= 2 /\ point < 32768
               PROVE  Decoded(byte, length, to, point * 64 + r)
    OBVIOUS
  <2>1. to = IF t \in {1, 7, 9} THEN 0 ELSE 1  BY <1>1, <1>3, SMT
  <2>2. point * 64 + r \in Nat /\ point * 64 + r >= 128 /\ point * 64 + r < 2097152
    BY <1>2, SMT
  <2> HIDE DEF to
  <2> QED BY <2>1, <2>2, <1>1, SMT DEF Decoded
<1>5. st = 3 /\ length \in 1..2 /\ point \in 1..511
      => Decoded(byte, length, to, point * 64 + r)
  <2> SUFFICES ASSUME st = 3, length \in 1..2, point \in 1..511
               PROVE  Decoded(byte, length, to, point * 64 + r)
    OBVIOUS
  <2>1. to = IF t \in {1, 7, 9} THEN 2 ELSE 1  BY <1>1, <1>3, SMT
  <2>2. point * 64 + r \in Nat /\ point * 64 + r >= 2 /\ point * 64 + r < 32768  BY <1>2, SMT
  <2> HIDE DEF to
  <2> QED BY <2>1, <2>2, <1>1, SMT DEF Decoded, Known
<1>6. st = 4 /\ length = 1 /\ point = 0
      => Decoded(byte, length, to, point * 64 + r)
  <2> SUFFICES ASSUME st = 4, length = 1, point = 0
               PROVE  Decoded(byte, length, to, point * 64 + r)
    OBVIOUS
  <2>1. to = IF t = 7 THEN 2 ELSE 1  BY <1>1, <1>3, SMT
  <2> HIDE DEF to
  <2> QED BY <2>1, <1>1, <1>2, SMT DEF Decoded, Known
<1>7. st = 5 /\ length = 1 /\ point = 13
      => Decoded(byte, length, to, point * 64 + r)
  <2> SUFFICES ASSUME st = 5, length = 1, point = 13
               PROVE  Decoded(byte, length, to, point * 64 + r)
    OBVIOUS
  <2>1. to = IF t \in {1, 9} THEN 2 ELSE 1  BY <1>1, <1>3, SMT
  <2> HIDE DEF to
  <2> QED BY <2>1, <1>1, <1>2, SMT DEF Decoded, Known
<1>8. st = 6 /\ length = 1 /\ point = 0
      => Decoded(byte, length, to, point * 64 + r)
  <2> SUFFICES ASSUME st = 6, length = 1, point = 0
               PROVE  Decoded(byte, length, to, point * 64 + r)
    OBVIOUS
  <2>1. to = IF t \in {7, 9} THEN 3 ELSE 1  BY <1>1, <1>3, SMT
  <2> HIDE DEF to
  <2> QED BY <2>1, <1>1, <1>2, SMT DEF Decoded, Known
<1>9. st = 7 /\ length = 1 /\ point \in 1..3
      => Decoded(byte, length, to, point * 64 + r)
  <2> SUFFICES ASSUME st = 7, length = 1, point \in 1..3
               PROVE  Decoded(byte, length, to, point * 64 + r)
    OBVIOUS
  <2>1. to = IF t \in {1, 7, 9} THEN 3 ELSE 1  BY <1>1, <1>3, SMT
  <2> HIDE DEF to
  <2> QED BY <2>1, <1>1, <1>2, SMT DEF Decoded, Known
<1>10. st = 8 /\ length = 1 /\ point = 4
       => Decoded(byte, length, to, point * 64 + r)
  <2> SUFFICES ASSUME st = 8, length = 1, point = 4
               PROVE  Decoded(byte, length, to, point * 64 + r)
    OBVIOUS
  <2>1. to = IF t = 1 THEN 3 ELSE 1  BY <1>1, <1>3, SMT
  <2> HIDE DEF to
  <2> QED BY <2>1, <1>1, <1>2, SMT DEF Decoded, Known
<1> QED
  <2> HIDE DEF to
  <2>1. Decoded(byte, length, to, point * 64 + r)
    BY <1>4, <1>5, <1>6, <1>7, <1>8, <1>9, <1>10 DEF Known
  <2> QED BY <2>1 DEF to, t, r

\* What decode leaves behind, wherever in a character it is.
LEMMA Decodes ==
    ASSUME NEW byte \in 0..255, NEW length, codepoint \in Nat,
           Known(state, length, codepoint), decode(byte)
    PROVE  Decoded(byte, length, state', codepoint')
<1>1. CASE state = 0
  <2>1. length = 0  BY <1>1, SMT DEF Known
  <2>2. state' = utf8d[1][Type(byte) + 1] /\ codepoint' = Payload(byte)
    BY <1>1, SMT DEF decode, Codepoint, UTF8_ACCEPT
  <2>3. Decoded(byte, 0, utf8d[1][Type(byte) + 1], Payload(byte))  BY FirstByte
  <2> QED BY <2>1, <2>2, <2>3, Zenon
<1>2. CASE state # 0
  <2>1. /\ state' = utf8d[state + 1][Type(byte) + 1]
        /\ codepoint' = codepoint * 64 + (byte % 64)
    BY <1>2, SMT DEF decode, Codepoint, UTF8_ACCEPT
  <2>2. Decoded(byte, length, utf8d[state + 1][Type(byte) + 1],
                codepoint * 64 + (byte % 64))
    BY <1>2, NextByte
  <2> QED BY <2>1, <2>2, Zenon
<1> QED BY <1>1, <1>2


--------------------------------------------------------------------------------
(* The inductive invariant *)

\* While the string is read: what decode knows, and the room in string_buffer.
\* The bytes of an incomplete character use up to 3 of the 13 that every flush
\* and every character that needs none leave free.
Reading ==
    result = "running" =>
        /\ Known(state, Len(pending), codepoint)
        /\ bytes + 13 <= BufferSize + Len(pending)

IInv == TypeOK /\ WithinBuffer /\ NothingLostOrTwice /\ StaysOneString /\ Reading

LEMMA Initial == Init => IInv
  BY JsonDumpAssumption
  DEF Init, IInv, TypeOK, WithinBuffer, NothingLostOrTwice, StaysOneString, Reading,
      Known, UTF8_ACCEPT

\* NothingLostOrTwice and StaysOneString, of any sequences.
Stands(w, r) == Len(w) = Len(r) /\ \A i \in DOMAIN r : w[i].code = r[i]
Escapes(w) == \A i \in DOMAIN w : w[i].escape = "none" => w[i].code \notin Special

\* What a unit added to what is written does to both.
LEMMA OneMore ==
    ASSUME NEW v \in Seq(Unit), NEW r \in Seq(0..255), NEW u \in Unit,
           NEW byte \in 0..255, u.code = byte, Stands(v, r), Escapes(v),
           u.escape = "none" => byte \notin Special
    PROVE  Stands(Append(v, u), Append(r, byte)) /\ Escapes(Append(v, u))
<1> DEFINE w == Append(v, u)
<1>1. v \in Seq(Unit)  OBVIOUS
<1>2. w = Append(v, u)  OBVIOUS
<1> HIDE DEF w
<1>3. w \in Seq(Unit) /\ Len(w) = Len(v) + 1  BY <1>1, <1>2
<1>4. Len(v) = Len(r)  BY DEF Stands
<1>5. \A i \in 1..Len(v) : w[i] = v[i]  BY <1>1, <1>2
<1>6. w[Len(v) + 1] = u  BY <1>1, <1>2
<1>7. Append(r, byte) \in Seq(0..255) /\ Len(Append(r, byte)) = Len(r) + 1  OBVIOUS
<1>8. \A i \in 1..Len(r) : Append(r, byte)[i] = r[i]  OBVIOUS
<1>9. Append(r, byte)[Len(r) + 1] = byte  OBVIOUS
<1>10. \A i \in 1..Len(r) : v[i].code = r[i]
  <2>1. DOMAIN r = 1..Len(r)  OBVIOUS
  <2> QED BY <2>1 DEF Stands
<1>11. \A i \in 1..Len(v) : v[i].escape = "none" => v[i].code \notin Special
  <2>1. DOMAIN v = 1..Len(v)  BY <1>1
  <2> QED BY <2>1 DEF Escapes
<1>12. \A i \in DOMAIN Append(r, byte) : w[i].code = Append(r, byte)[i]
  <2> TAKE i \in DOMAIN Append(r, byte)
  <2>1. i \in 1..(Len(r) + 1)  BY <1>7
  <2>2. CASE i \in 1..Len(r)  BY <2>2, <1>4, <1>5, <1>8, <1>10
  <2>3. CASE i = Len(r) + 1  BY <2>3, <1>4, <1>6, <1>9
  <2> QED BY <2>1, <2>2, <2>3
<1>13. \A i \in DOMAIN w : w[i].escape = "none" => w[i].code \notin Special
  <2> TAKE i \in DOMAIN w
  <2>1. i \in 1..(Len(v) + 1)  BY <1>3
  <2>2. CASE i \in 1..Len(v)  BY <2>2, <1>5, <1>11
  <2>3. CASE i = Len(v) + 1  BY <2>3, <1>6
  <2> QED BY <2>1, <2>2, <2>3
<1>14. Stands(w, Append(r, byte)) /\ Escapes(w)
  BY <1>3, <1>4, <1>7, <1>12, <1>13 DEF Stands, Escapes
<1> QED BY <1>14 DEF w

\* The unit that a complete character adds: it stands for the last byte, and
\* what is special is escaped.  A character of several bytes is never taken for
\* a control character, since its code point is 128 or more.
LEMMA UnitOfCharacter ==
    ASSUME NEW byte \in 0..255, NEW length, NEW point,
           Decoded(byte, length, 0, point), NEW u,
           u = [escape |-> EscapeOf(point),
                code |-> IF EscapeOf(point) = "none" THEN byte ELSE point]
    PROVE  u \in Unit /\ u.code = byte /\ (u.escape = "none" => byte \notin Special)
<1>1. /\ point \in Nat
      /\ \/ byte <= 127 /\ point = byte
         \/ byte >= 128 /\ point >= 128
  BY SMT DEF Decoded
<1>2. EscapeOf(point) \in {"none", "short", "u"}  BY SMT DEF EscapeOf
<1>3. EscapeOf(point) # "none" => point = byte  BY <1>1, SMT DEF EscapeOf
<1>4. u.code = byte  BY <1>3
<1>5. u \in Unit  BY <1>2, <1>3 DEF Unit
<1>6. u.escape = "none" => byte \notin Special  BY <1>1, SMT DEF EscapeOf, Special
<1> QED BY <1>4, <1>5, <1>6

LEMMA AcceptStep ==
    ASSUME IInv, NEW byte \in 0..255, result = "running", Len(read) < MaxLength,
           Accept(byte)
    PROVE  IInv'
<1> DEFINE escape == EscapeOf(codepoint')
           u == [escape |-> escape, code |-> IF escape = "none" THEN byte ELSE codepoint']
           used == bytes + Width(escape)
<1>1. /\ codepoint \in Nat /\ bytes \in Nat /\ top \in Nat /\ Len(pending) \in Nat
      /\ Known(state, Len(pending), codepoint)
      /\ bytes + 13 <= BufferSize + Len(pending)
      /\ BufferSize \in Nat /\ BufferSize >= 13
      /\ top <= BufferSize
  BY JsonDumpAssumption, SMT DEF IInv, TypeOK, Reading, WithinBuffer
<1>2. /\ decode(byte) /\ state' = 0 /\ pending' = << >> /\ result' = result
      /\ read' = Append(read, byte)
      /\ Writes(escape, byte)
      /\ \/ /\ MustFlush(used)
            /\ out' = out \o Append(buffer, u) /\ buffer' = << >> /\ bytes' = 0
         \/ /\ ~MustFlush(used)
            /\ buffer' = Append(buffer, u) /\ bytes' = used /\ out' = out
  BY SMTT(30) DEF Accept, decode, UTF8_ACCEPT
<1>3. Decoded(byte, Len(pending), 0, codepoint')
  <2>1. Decoded(byte, Len(pending), state', codepoint')  BY <1>1, <1>2, Decodes
  <2> QED BY <2>1, <1>2
<1>4. u \in Unit /\ u.code = byte /\ (u.escape = "none" => byte \notin Special)
  <2>1. u = [escape |-> EscapeOf(codepoint'),
             code |-> IF EscapeOf(codepoint') = "none" THEN byte ELSE codepoint']
    OBVIOUS
  <2> HIDE DEF u, escape
  <2>2. \A point, x :
           Decoded(byte, Len(pending), 0, point)
             /\ x = [escape |-> EscapeOf(point),
                     code |-> IF EscapeOf(point) = "none" THEN byte ELSE point] =>
               x \in Unit /\ x.code = byte /\ (x.escape = "none" => byte \notin Special)
    BY UnitOfCharacter
  <2> QED BY <2>1, <2>2, <1>3, Zenon
<1>5. Len(pending) <= 3  BY <1>1, KnownLength
<1>6. /\ escape \in {"none", "short", "u"}
      /\ Width(escape) \in 1..6
      /\ bytes + Width(escape) + (IF escape = "u" THEN 1 ELSE 0) <= BufferSize
  <2>1. escape \in {"none", "short", "u"}  BY SMT DEF EscapeOf
  <2>2. Width(escape) \in 1..6  BY <2>1, SMT DEF Width
  <2> HIDE DEF escape
  <2> QED BY <2>1, <2>2, <1>1, <1>5, SMTT(30)
<1> HIDE DEF u, escape
<1>7. top' \in Nat /\ top' <= BufferSize
  BY <1>1, <1>2, <1>6, SMT DEF Writes
<1>8. used \in Nat /\ used <= BufferSize  BY <1>1, <1>6, SMTT(30)
<1>9. bytes' \in 0..BufferSize /\ bytes' + 13 <= BufferSize
  BY <1>1, <1>2, <1>8, SMT DEF MustFlush
<1>10. buffer \in Seq(Unit) /\ out \in Seq(Unit) /\ read \in Seq(0..255)
  BY SMT DEF IInv, TypeOK
<1>11. /\ (out \o buffer)' = out \o Append(buffer, u)
       /\ out' \in Seq(Unit) /\ buffer' \in Seq(Unit)
  <2>1. Append(buffer, u) \in Seq(Unit)  BY <1>4, <1>10
  <2>2. out \o Append(buffer, u) \in Seq(Unit)  BY <2>1, <1>10
  <2>3. CASE out' = out \o Append(buffer, u) /\ buffer' = << >>
    BY <2>2, <2>3
  <2>4. CASE buffer' = Append(buffer, u) /\ out' = out
    BY <2>1, <2>4, <1>10
  <2> QED BY <2>3, <2>4, <1>2
<1>12. Stands((out \o buffer)', read') /\ Escapes((out \o buffer)')
  <2>1. Stands(out \o buffer, read) /\ Escapes(out \o buffer)
    BY DEF IInv, NothingLostOrTwice, StaysOneString, Stands, Escapes
  <2>2. Stands(out \o Append(buffer, u), Append(read, byte))
        /\ Escapes(out \o Append(buffer, u))
    <3> DEFINE v == out \o buffer
    <3>1. v \in Seq(Unit) /\ out \o Append(buffer, u) = Append(v, u)  BY <1>4, <1>10
    <3>2. Stands(v, read) /\ Escapes(v)  BY <2>1
    <3> HIDE DEF v
    <3>3. Stands(Append(v, u), Append(read, byte)) /\ Escapes(Append(v, u))
      BY <3>1, <3>2, <1>4, <1>10, OneMore
    <3> QED BY <3>1, <3>3
  <2>3. (out \o buffer)' = out \o Append(buffer, u) /\ read' = Append(read, byte)
    BY <1>2, <1>11
  <2> QED BY <2>2, <2>3
<1>13. TypeOK'
  <2>2. read' \in Seq(0..255) /\ Len(read') <= MaxLength
    BY <1>2, <1>10, JsonDumpAssumption
  <2>3. codepoint' \in Nat /\ codepoint' < 2097152  BY <1>3, SMT DEF Decoded
  <2> QED BY <2>2, <2>3, <1>2, <1>7, <1>9, <1>11, SMT DEF IInv, TypeOK
<1>14. Reading'
  <2>1. Len(pending') = 0  BY <1>2
  <2>2. Known(state', Len(pending'), codepoint')  BY <2>1, <1>2 DEF Known
  <2>3. bytes' + 13 <= BufferSize + Len(pending')
    <3>1. BufferSize + 0 = BufferSize  BY <1>1
    <3> QED BY <3>1, <2>1, <1>9, Zenon
  <2> QED BY <2>2, <2>3 DEF Reading
<1> QED BY <1>7, <1>12, <1>13, <1>14
        DEF IInv, WithinBuffer, NothingLostOrTwice, StaysOneString, Stands, Escapes

LEMMA IncompleteStep ==
    ASSUME IInv, NEW byte \in 0..255, result = "running", Len(read) < MaxLength,
           Incomplete(byte)
    PROVE  IInv'
<1> DEFINE u == [escape |-> "none", code |-> byte]
<1>1. /\ codepoint \in Nat /\ bytes \in Nat /\ top \in Nat /\ Len(pending) \in Nat
      /\ Known(state, Len(pending), codepoint)
      /\ bytes + 13 <= BufferSize + Len(pending)
      /\ BufferSize \in Nat /\ BufferSize >= 13
      /\ top <= BufferSize
  BY JsonDumpAssumption, SMT DEF IInv, TypeOK, Reading, WithinBuffer
<1>2. /\ decode(byte) /\ state' \notin {0, 1} /\ pending' = Append(pending, byte)
      /\ read' = Append(read, byte) /\ result' = result
      /\ Writes("none", byte)
      /\ buffer' = Append(buffer, u) /\ bytes' = bytes + 1 /\ out' = out
  BY SMT DEF Incomplete, decode, UTF8_ACCEPT, UTF8_REJECT
<1>3. Decoded(byte, Len(pending), state', codepoint')  BY <1>1, <1>2, Decodes
<1>4. byte >= 128 /\ Known(state', Len(pending) + 1, codepoint')
  BY <1>2, <1>3, SMT DEF Decoded
<1>5. u \in Unit /\ u.code = byte /\ (u.escape = "none" => byte \notin Special)
  BY <1>4, SMT DEF Unit, Special
<1>6. Len(pending) <= 2  BY <1>1, <1>2, <1>4, SMT DEF Known
<1>7. top' \in Nat /\ top' <= BufferSize  BY <1>1, <1>2, <1>6, SMT DEF Writes, Width
<1>8. pending \in Seq(0..255) /\ Len(pending') = Len(pending) + 1
  BY <1>2, SMT DEF IInv, TypeOK
<1> HIDE DEF u
<1>10. buffer \in Seq(Unit) /\ out \in Seq(Unit) /\ read \in Seq(0..255)
  BY SMT DEF IInv, TypeOK
<1>12. Stands((out \o buffer)', read') /\ Escapes((out \o buffer)')
  <2>1. Stands(out \o buffer, read) /\ Escapes(out \o buffer)
    BY DEF IInv, NothingLostOrTwice, StaysOneString, Stands, Escapes
  <2>2. Stands(out \o Append(buffer, u), Append(read, byte))
        /\ Escapes(out \o Append(buffer, u))
    <3> DEFINE v == out \o buffer
    <3>1. v \in Seq(Unit) /\ out \o Append(buffer, u) = Append(v, u)  BY <1>5, <1>10
    <3>2. Stands(v, read) /\ Escapes(v)  BY <2>1
    <3> HIDE DEF v
    <3>3. Stands(Append(v, u), Append(read, byte)) /\ Escapes(Append(v, u))
      BY <3>1, <3>2, <1>5, <1>10, OneMore
    <3> QED BY <3>1, <3>3
  <2>3. (out \o buffer)' = out \o Append(buffer, u) /\ read' = Append(read, byte)
    BY <1>2
  <2> QED BY <2>2, <2>3
<1>13. TypeOK'
  <2>1. out' \in Seq(Unit) /\ buffer' \in Seq(Unit)  BY <1>2, <1>5, <1>10
  <2>2. read' \in Seq(0..255) /\ Len(read') <= MaxLength
    BY <1>2, <1>10, JsonDumpAssumption
  <2>3. codepoint' \in Nat /\ codepoint' < 2097152 /\ state' \in 0..8
    BY <1>3, SMT DEF Decoded
  <2>4. pending' \in Seq(0..255) /\ Len(pending') <= 4  BY <1>2, <1>6, <1>8
  <2>5. bytes' \in 0..BufferSize  BY <1>1, <1>2, <1>6, SMT
  <2> QED BY <2>1, <2>2, <2>3, <2>4, <2>5, <1>2, <1>7, SMT DEF IInv, TypeOK
<1>14. Reading'
  BY <1>1, <1>2, <1>4, <1>8, SMT DEF Reading
<1> QED BY <1>7, <1>12, <1>13, <1>14
        DEF IInv, WithinBuffer, NothingLostOrTwice, StaysOneString, Stands, Escapes

LEMMA RejectStep ==
    ASSUME IInv, NEW byte \in 0..255, result = "running", Len(read) < MaxLength,
           Reject(byte)
    PROVE  IInv'
<1>1. codepoint \in Nat /\ Len(pending) \in Nat /\ Known(state, Len(pending), codepoint)
  BY SMT DEF IInv, TypeOK, Reading
<1>2. decode(byte) /\ read' = Append(read, byte)  BY DEF Reject, decode
<1>3. Decoded(byte, Len(pending), state', codepoint')  BY <1>1, <1>2, Decodes
<1>4. codepoint' \in Nat /\ codepoint' < 2097152 /\ state' \in 0..8
  BY <1>3, SMT DEF Decoded
<1>5. read' \in Seq(0..255) /\ Len(read') <= MaxLength
  BY <1>2, JsonDumpAssumption, SMT DEF IInv, TypeOK
<1>6. Len(pending) <= 3  BY <1>1, KnownLength
<1>7. pending' \in Seq(0..255) /\ Len(pending') <= 4
  BY <1>6, SMT DEF Reject, IInv, TypeOK
<1>8. UNCHANGED <<buffer, bytes, top, out>> /\ result' = "invalid"  BY DEF Reject
<1>9. TypeOK'  BY <1>4, <1>5, <1>7, <1>8, SMT DEF IInv, TypeOK
<1>10. (WithinBuffer /\ StaysOneString)'
  BY <1>8 DEF IInv, WithinBuffer, StaysOneString
<1>11. (NothingLostOrTwice /\ Reading)'  BY <1>8 DEF NothingLostOrTwice, Reading
<1> QED BY <1>9, <1>10, <1>11 DEF IInv

LEMMA FinishStep == IInv /\ Finish => IInv'
<1> SUFFICES ASSUME IInv, Finish PROVE IInv'
  OBVIOUS
<1>1. buffer \in Seq(Unit) /\ out \in Seq(Unit)  BY SMT DEF IInv, TypeOK
<1>2. /\ result = "running" /\ result' \in {"dumped", "incomplete"}
      /\ UNCHANGED <<state, codepoint, bytes, top, read, pending>>
      /\ \/ out' = out \o buffer /\ buffer' = << >>
         \/ UNCHANGED <<out, buffer>>
  BY DEF Finish
<1>3. (out \o buffer)' = out \o buffer /\ out' \in Seq(Unit) /\ buffer' \in Seq(Unit)
  <2>1. out \o buffer \in Seq(Unit)  BY <1>1
  <2>2. CASE out' = out \o buffer /\ buffer' = << >>  BY <2>1, <2>2
  <2>3. CASE UNCHANGED <<out, buffer>>  BY <2>3, <1>1
  <2> QED BY <2>2, <2>3, <1>2
<1>4. TypeOK'  BY <1>2, <1>3, SMT DEF IInv, TypeOK
<1>5. WithinBuffer' /\ Reading'  BY <1>2 DEF IInv, WithinBuffer, Reading
<1>6. NothingLostOrTwice' /\ StaysOneString'
  BY <1>2, <1>3 DEF IInv, NothingLostOrTwice, StaysOneString
<1> QED BY <1>4, <1>5, <1>6 DEF IInv

LEMMA Inductive == IInv /\ [Next]_vars => IInv'
<1> SUFFICES ASSUME IInv, [Next]_vars PROVE IInv'
  OBVIOUS
<1>1. CASE UNCHANGED vars
  <2>1. TypeOK' /\ WithinBuffer'  BY <1>1, SMT DEF vars, IInv, TypeOK, WithinBuffer
  <2>2. NothingLostOrTwice' /\ StaysOneString' /\ Reading'
    BY <1>1 DEF vars, IInv, NothingLostOrTwice, StaysOneString, Reading
  <2> QED BY <2>1, <2>2 DEF IInv
<1>2. ASSUME NEW byte \in Byte, Step(byte) PROVE IInv'
  <2>1. byte \in 0..255 /\ result = "running" /\ Len(read) < MaxLength
    BY <1>2, JsonDumpAssumption DEF Step
  <2>2. Accept(byte) \/ Incomplete(byte) \/ Reject(byte)  BY <1>2 DEF Step
  <2> QED BY <2>1, <2>2, AcceptStep, IncompleteStep, RejectStep
<1>3. CASE Finish  BY <1>3, FinishStep
<1> QED BY <1>1, <1>2, <1>3 DEF Next

LEMMA Invariance == Spec => []IInv
  BY Initial, Inductive, PTL DEF Spec

--------------------------------------------------------------------------------
(* The theorems *)

\* decode's index stays in its table and the code point within 21 bits, and
\* string_buffer is never fuller than it is long.
THEOREM DumpTypeCorrect == Spec => []TypeOK
<1>1. IInv => TypeOK  BY DEF IInv
<1> QED BY <1>1, Invariance, PTL

\* No string, however long, makes dump_escaped write past the end of
\* string_buffer, although only complete characters are checked for room.
THEOREM BufferSuffices == Spec => []WithinBuffer
<1>1. IInv => WithinBuffer  BY DEF IInv
<1> QED BY <1>1, Invariance, PTL

\* What is written stands for the bytes read, wherever the buffer is flushed.
THEOREM DumpIsComplete == Spec => []NothingLostOrTwice
<1>1. IInv => NothingLostOrTwice  BY DEF IInv
<1> QED BY <1>1, Invariance, PTL

\* No special character is written as it is; in particular none is made up from
\* a character of several bytes.
THEOREM DumpIsOneString == Spec => []StaysOneString
<1>1. IInv => StaysOneString  BY DEF IInv
<1> QED BY <1>1, Invariance, PTL

\* The state decode is in after the first n bytes of a kind of character.
After(char, n) ==
    CASE n = 0 -> UTF8_ACCEPT
      [] n = 1 /\ 224 \in char[1] -> 4
      [] n = 1 /\ 237 \in char[1] -> 5
      [] n = 1 /\ 240 \in char[1] -> 6
      [] n = 1 /\ 241 \in char[1] -> 7
      [] n = 1 /\ 244 \in char[1] -> 8
      [] OTHER -> Len(char) - n + 1

\* The state that a byte leads to.
Turn(st, byte) == utf8d[st + 1][Type(byte) + 1]

\* The first row of the table, by the ranges of the standard.
LEMMA FirstState ==
    ASSUME NEW byte \in 0..255
    PROVE  /\ byte \in 0..127 => Turn(0, byte) = 0
           /\ byte \in 194..223 => Turn(0, byte) = 2
           /\ byte = 224 => Turn(0, byte) = 4
           /\ byte \in (225..236) \cup {238, 239} => Turn(0, byte) = 3
           /\ byte = 237 => Turn(0, byte) = 5
           /\ byte = 240 => Turn(0, byte) = 6
           /\ byte \in 241..243 => Turn(0, byte) = 7
           /\ byte = 244 => Turn(0, byte) = 8
           /\ byte \in (128..193) \cup (245..255) => Turn(0, byte) = 1
<1> DEFINE row == utf8d[1]
<1>0. row = <<0, 1, 2, 3, 5, 8, 7, 1, 1, 1, 4, 6>>
  BY DEF utf8d
<1> HIDE DEF row
<1>1. byte \in 0..127 => row[Type(byte) + 1] = 0
  BY <1>0, Types
<1>2. byte \in 194..223 => row[Type(byte) + 1] = 2
  BY <1>0, Types
<1>3. byte = 224 => row[Type(byte) + 1] = 4
  BY <1>0, Types
<1>4. byte \in (225..236) \cup {238, 239} => row[Type(byte) + 1] = 3
  BY <1>0, Types
<1>5. byte = 237 => row[Type(byte) + 1] = 5
  BY <1>0, Types
<1>6. byte = 240 => row[Type(byte) + 1] = 6
  BY <1>0, Types
<1>7. byte \in 241..243 => row[Type(byte) + 1] = 7
  BY <1>0, Types
<1>8. byte = 244 => row[Type(byte) + 1] = 8
  BY <1>0, Types
<1>9. byte \in (128..193) \cup (245..255) => row[Type(byte) + 1] = 1
  <2> SUFFICES ASSUME byte \in (128..193) \cup (245..255)
               PROVE  row[Type(byte) + 1] = 1
    OBVIOUS
  <2>1. Type(byte) \in {1, 7, 8, 9}
    BY Types
  <2> QED BY <1>0, <2>1
<1> QED BY <1>1, <1>2, <1>3, <1>4, <1>5, <1>6, <1>7, <1>8, <1>9 DEF row, Turn

\* The other rows, by the ranges that a continuation byte may be limited to.
LEMMA NextState ==
    ASSUME NEW byte \in 0..255
    PROVE  /\ Turn(2, byte) = IF byte \in 128..191 THEN 0 ELSE 1
           /\ Turn(3, byte) = IF byte \in 128..191 THEN 2 ELSE 1
           /\ Turn(4, byte) = IF byte \in 160..191 THEN 2 ELSE 1
           /\ Turn(5, byte) = IF byte \in 128..159 THEN 2 ELSE 1
           /\ Turn(6, byte) = IF byte \in 144..191 THEN 3 ELSE 1
           /\ Turn(7, byte) = IF byte \in 128..191 THEN 3 ELSE 1
           /\ Turn(8, byte) = IF byte \in 128..143 THEN 3 ELSE 1
<1> DEFINE t == Type(byte)
<1>1. /\ t \in 0..11
      /\ t \in {1, 7, 9} <=> byte \in 128..191
      /\ t = 7 <=> byte \in 160..191
      /\ t \in {1, 9} <=> byte \in 128..159
      /\ t \in {7, 9} <=> byte \in 144..191
      /\ t = 1 <=> byte \in 128..143
  <2>1. /\ t \in 0..11
        /\ t = 1 => byte \in 128..143
        /\ t = 9 => byte \in 144..159
        /\ t = 7 => byte \in 160..191
    BY Tails
  <2>2. /\ byte \in 128..143 => t = 1
        /\ byte \in 144..159 => t = 9
        /\ byte \in 160..191 => t = 7
    BY Types
  <2> HIDE DEF t
  <2> QED BY <2>1, <2>2, SMT
<1> HIDE DEF t
<1>2. /\ utf8d[3][t + 1] = IF t \in {1, 7, 9} THEN 0 ELSE 1
      /\ utf8d[4][t + 1] = IF t \in {1, 7, 9} THEN 2 ELSE 1
      /\ utf8d[5][t + 1] = IF t = 7 THEN 2 ELSE 1
      /\ utf8d[6][t + 1] = IF t \in {1, 9} THEN 2 ELSE 1
      /\ utf8d[7][t + 1] = IF t \in {7, 9} THEN 3 ELSE 1
      /\ utf8d[8][t + 1] = IF t \in {1, 7, 9} THEN 3 ELSE 1
      /\ utf8d[9][t + 1] = IF t = 1 THEN 3 ELSE 1
  BY <1>1, Rows
<1>3. utf8d[3][t + 1] = IF byte \in 128..191 THEN 0 ELSE 1
  BY <1>1, <1>2
<1>4. utf8d[4][t + 1] = IF byte \in 128..191 THEN 2 ELSE 1
  BY <1>1, <1>2
<1>5. utf8d[5][t + 1] = IF byte \in 160..191 THEN 2 ELSE 1
  BY <1>1, <1>2
<1>6. utf8d[6][t + 1] = IF byte \in 128..159 THEN 2 ELSE 1
  BY <1>1, <1>2
<1>7. utf8d[7][t + 1] = IF byte \in 144..191 THEN 3 ELSE 1
  BY <1>1, <1>2
<1>8. utf8d[8][t + 1] = IF byte \in 128..191 THEN 3 ELSE 1
  BY <1>1, <1>2
<1>9. utf8d[9][t + 1] = IF byte \in 128..143 THEN 3 ELSE 1
  BY <1>1, <1>2
<1> QED BY <1>3, <1>4, <1>5, <1>6, <1>7, <1>8, <1>9 DEF t, Turn

\* The kinds of characters, and the states on the way through each.
\* The rows of the standard's table, with the states their characters pass.
Ascii(char) ==
    /\ char = <<0..127>> /\ Len(char) = 1

LeadC2(char) ==
    /\ char = <<194..223, 128..191>> /\ Len(char) = 2
    /\ After(char, 1) = 2

LeadE0(char) ==
    /\ char = <<{224}, 160..191, 128..191>> /\ Len(char) = 3
    /\ After(char, 1) = 4 /\ After(char, 2) = 2

LeadE1(char) ==
    /\ char = <<(225..236) \cup {238, 239}, 128..191, 128..191>> /\ Len(char) = 3
    /\ After(char, 1) = 3 /\ After(char, 2) = 2

LeadED(char) ==
    /\ char = <<{237}, 128..159, 128..191>> /\ Len(char) = 3
    /\ After(char, 1) = 5 /\ After(char, 2) = 2

LeadF0(char) ==
    /\ char = <<{240}, 144..191, 128..191, 128..191>> /\ Len(char) = 4
    /\ After(char, 1) = 6 /\ After(char, 2) = 3 /\ After(char, 3) = 2

LeadF1(char) ==
    /\ char = <<241..243, 128..191, 128..191, 128..191>> /\ Len(char) = 4
    /\ After(char, 1) = 7 /\ After(char, 2) = 3 /\ After(char, 3) = 2

LeadF4(char) ==
    /\ char = <<{244}, 128..143, 128..191, 128..191>> /\ Len(char) = 4
    /\ After(char, 1) = 8 /\ After(char, 2) = 3 /\ After(char, 3) = 2

\* There are no other characters.
LEMMA Kinds ==
    ASSUME NEW char \in Character
    PROVE  \/ Ascii(char) \/ LeadC2(char) \/ LeadE0(char) \/ LeadE1(char)
           \/ LeadED(char) \/ LeadF0(char) \/ LeadF1(char) \/ LeadF4(char)
<1> DEFINE c1 == <<0..127>>
           c2 == <<194..223, 128..191>>
           c3 == <<{224}, 160..191, 128..191>>
           c4 == <<(225..236) \cup {238, 239}, 128..191, 128..191>>
           c5 == <<{237}, 128..159, 128..191>>
           c6 == <<{240}, 144..191, 128..191, 128..191>>
           c7 == <<241..243, 128..191, 128..191, 128..191>>
           c8 == <<{244}, 128..143, 128..191, 128..191>>
<1>1. char = c1 => Ascii(char)
  BY DEF Ascii
<1>2. char = c2 => LeadC2(char)
  <2> SUFFICES ASSUME char = c2 PROVE LeadC2(char)
    OBVIOUS
  <2>1. After(char, 1) = 2
    BY SMT DEF After
  <2> QED BY <2>1 DEF LeadC2
<1>3. char = c3 => LeadE0(char)
  <2> SUFFICES ASSUME char = c3 PROVE LeadE0(char)
    OBVIOUS
  <2>1. After(char, 1) = 4 /\ After(char, 2) = 2
    BY SMT DEF After
  <2> QED BY <2>1 DEF LeadE0
<1>4. char = c4 => LeadE1(char)
  <2> SUFFICES ASSUME char = c4 PROVE LeadE1(char)
    OBVIOUS
  <2>1. After(char, 1) = 3 /\ After(char, 2) = 2
    BY SMT DEF After
  <2> QED BY <2>1 DEF LeadE1
<1>5. char = c5 => LeadED(char)
  <2> SUFFICES ASSUME char = c5 PROVE LeadED(char)
    OBVIOUS
  <2>1. After(char, 1) = 5 /\ After(char, 2) = 2
    BY SMT DEF After
  <2> QED BY <2>1 DEF LeadED
<1>6. char = c6 => LeadF0(char)
  <2> SUFFICES ASSUME char = c6 PROVE LeadF0(char)
    OBVIOUS
  <2>1. After(char, 1) = 6 /\ After(char, 2) = 3 /\ After(char, 3) = 2
    BY SMT DEF After
  <2> QED BY <2>1 DEF LeadF0
<1>7. char = c7 => LeadF1(char)
  <2> SUFFICES ASSUME char = c7 PROVE LeadF1(char)
    OBVIOUS
  <2>1. After(char, 1) = 7 /\ After(char, 2) = 3 /\ After(char, 3) = 2
    BY SMT DEF After
  <2> QED BY <2>1 DEF LeadF1
<1>8. char = c8 => LeadF4(char)
  <2> SUFFICES ASSUME char = c8 PROVE LeadF4(char)
    OBVIOUS
  <2>1. After(char, 1) = 8 /\ After(char, 2) = 3 /\ After(char, 3) = 2
    BY SMT DEF After
  <2> QED BY <2>1 DEF LeadF4
<1>9. char \in {c1, c2, c3, c4, c5, c6, c7, c8}
  BY Zenon DEF Character
<1> HIDE DEF c1, c2, c3, c4, c5, c6, c7, c8
<1> QED BY <1>1, <1>2, <1>3, <1>4, <1>5, <1>6, <1>7, <1>8, <1>9, Zenon

\* The first bytes of a kind of characters lead into its states.
LEMMA Leads ==
    ASSUME NEW byte \in 0..255, NEW char \in Character, byte \in char[1]
    PROVE  Turn(0, byte) = IF Len(char) = 1 THEN 0 ELSE After(char, 1)
<1>1. CASE Ascii(char)
  BY <1>1, FirstState DEF Ascii
<1>2. CASE LeadC2(char)
  BY <1>2, FirstState DEF LeadC2
<1>3. CASE LeadE0(char)
  BY <1>3, FirstState DEF LeadE0
<1>4. CASE LeadE1(char)
  BY <1>4, FirstState DEF LeadE1
<1>5. CASE LeadED(char)
  BY <1>5, FirstState DEF LeadED
<1>6. CASE LeadF0(char)
  BY <1>6, FirstState DEF LeadF0
<1>7. CASE LeadF1(char)
  BY <1>7, FirstState DEF LeadF1
<1>8. CASE LeadF4(char)
  BY <1>8, FirstState DEF LeadF4
<1>9. \/ Ascii(char) \/ LeadC2(char) \/ LeadE0(char) \/ LeadE1(char)
      \/ LeadED(char) \/ LeadF0(char) \/ LeadF1(char) \/ LeadF4(char)
  BY Kinds
<1> QED BY <1>1, <1>2, <1>3, <1>4, <1>5, <1>6, <1>7, <1>8, <1>9, Zenon

\* They differ from kind to kind.
LEMMA FirstBytesDiffer ==
    ASSUME NEW byte \in 0..255, NEW char \in Character, NEW other \in Character,
           byte \in char[1], byte \in other[1]
    PROVE  char = other
<1> DEFINE lead(c) == IF Len(c) = 1 THEN 0 ELSE After(c, 1)
<1>1. lead(char) = lead(other)
  <2>1. Turn(0, byte) = lead(char)
    BY Leads
  <2>2. Turn(0, byte) = lead(other)
    BY Leads
  <2> QED BY <2>1, <2>2
<1>2. \A c \in {char, other} :
         /\ Ascii(c) => lead(c) = 0
         /\ LeadC2(c) => lead(c) = 2
         /\ LeadE0(c) => lead(c) = 4
         /\ LeadE1(c) => lead(c) = 3
         /\ LeadED(c) => lead(c) = 5
         /\ LeadF0(c) => lead(c) = 6
         /\ LeadF1(c) => lead(c) = 7
         /\ LeadF4(c) => lead(c) = 8
  BY SMT DEF Ascii, LeadC2, LeadE0, LeadE1, LeadED, LeadF0, LeadF1, LeadF4
<1> HIDE DEF lead
<1>3. /\ Ascii(char) /\ Ascii(other) => char = other
      /\ LeadC2(char) /\ LeadC2(other) => char = other
      /\ LeadE0(char) /\ LeadE0(other) => char = other
      /\ LeadE1(char) /\ LeadE1(other) => char = other
      /\ LeadED(char) /\ LeadED(other) => char = other
      /\ LeadF0(char) /\ LeadF0(other) => char = other
      /\ LeadF1(char) /\ LeadF1(other) => char = other
      /\ LeadF4(char) /\ LeadF4(other) => char = other
  <2>1. Ascii(char) /\ Ascii(other) => char = other
    BY Zenon DEF Ascii
  <2>2. LeadC2(char) /\ LeadC2(other) => char = other
    BY Zenon DEF LeadC2
  <2>3. LeadE0(char) /\ LeadE0(other) => char = other
    BY Zenon DEF LeadE0
  <2>4. LeadE1(char) /\ LeadE1(other) => char = other
    BY Zenon DEF LeadE1
  <2>5. LeadED(char) /\ LeadED(other) => char = other
    BY Zenon DEF LeadED
  <2>6. LeadF0(char) /\ LeadF0(other) => char = other
    BY Zenon DEF LeadF0
  <2>7. LeadF1(char) /\ LeadF1(other) => char = other
    BY Zenon DEF LeadF1
  <2>8. LeadF4(char) /\ LeadF4(other) => char = other
    BY Zenon DEF LeadF4
  <2> QED BY <2>1, <2>2, <2>3, <2>4, <2>5, <2>6, <2>7, <2>8, Zenon
<1>4. \A c \in {char, other} :
         \/ Ascii(c) \/ LeadC2(c) \/ LeadE0(c) \/ LeadE1(c)
           \/ LeadED(c) \/ LeadF0(c) \/ LeadF1(c) \/ LeadF4(c)
  BY Kinds
<1> QED BY <1>1, <1>2, <1>3, <1>4, SMT

\* A byte that is not rejected begins a character.
LEMMA LeadsSomewhere ==
    ASSUME NEW byte \in 0..255, Turn(0, byte) # 1
    PROVE  \E char \in Character : byte \in char[1]
<1>0. \/ byte \in 0..127 \/ byte \in 194..223 \/ byte = 224
      \/ byte \in (225..236) \cup {238, 239} \/ byte = 237 \/ byte = 240
      \/ byte \in 241..243 \/ byte = 244
  BY FirstState
<1> DEFINE tail == 128..191
<1> HIDE DEF tail
<1> QED BY <1>0, SMT DEF Character, tail

\* Within a character the state tells which bytes may follow.
LEMMA Follows ==
    ASSUME NEW byte \in 0..255, NEW char \in Character, NEW n \in 1..(Len(char) - 1)
    PROVE  Turn(After(char, n), byte) =
               IF byte \in char[n + 1]
               THEN IF n + 1 = Len(char) THEN 0 ELSE After(char, n + 1)
               ELSE 1
<1>1. CASE Ascii(char)
  BY <1>1 DEF Ascii
<1>2. CASE LeadC2(char)
  <2>1. n = 1
    BY <1>2 DEF LeadC2
  <2> QED BY <1>2, <2>1, NextState DEF LeadC2
<1>3. CASE LeadE0(char)
  <2>1. n = 1 \/ n = 2
    BY <1>3 DEF LeadE0
  <2> QED BY <1>3, <2>1, NextState DEF LeadE0
<1>4. CASE LeadE1(char)
  <2>1. n = 1 \/ n = 2
    BY <1>4 DEF LeadE1
  <2> QED BY <1>4, <2>1, NextState DEF LeadE1
<1>5. CASE LeadED(char)
  <2>1. n = 1 \/ n = 2
    BY <1>5 DEF LeadED
  <2> QED BY <1>5, <2>1, NextState DEF LeadED
<1>6. CASE LeadF0(char)
  <2>1. n = 1 \/ n = 2 \/ n = 3
    BY <1>6 DEF LeadF0
  <2> QED BY <1>6, <2>1, NextState DEF LeadF0
<1>7. CASE LeadF1(char)
  <2>1. n = 1 \/ n = 2 \/ n = 3
    BY <1>7 DEF LeadF1
  <2> QED BY <1>7, <2>1, NextState DEF LeadF1
<1>8. CASE LeadF4(char)
  <2>1. n = 1 \/ n = 2 \/ n = 3
    BY <1>8 DEF LeadF4
  <2> QED BY <1>8, <2>1, NextState DEF LeadF4
<1>9. \/ Ascii(char) \/ LeadC2(char) \/ LeadE0(char) \/ LeadE1(char)
      \/ LeadED(char) \/ LeadF0(char) \/ LeadF1(char) \/ LeadF4(char)
  BY Kinds
<1> QED BY <1>1, <1>2, <1>3, <1>4, <1>5, <1>6, <1>7, <1>8, <1>9, Zenon

\* Lengths and states: decode accepts at the end of a character, not before.
LEMMA CharacterSeq ==
    ASSUME NEW char \in Character
    PROVE  /\ DOMAIN char = 1..Len(char) /\ Len(char) \in 1..4
           /\ After(char, 0) = 0
           /\ \A n \in 1..(Len(char) - 1) : After(char, n) \in 2..8
<1>1. DOMAIN char = 1..Len(char) /\ Len(char) \in 1..4
  BY Kinds DEF Ascii, LeadC2, LeadE0, LeadE1, LeadED, LeadF0, LeadF1, LeadF4
<1>2. After(char, 0) = 0
  BY DEF After, UTF8_ACCEPT
<1>3. ASSUME NEW n \in 1..(Len(char) - 1)
      PROVE  After(char, n) \in 2..8
  <2>1. CASE Ascii(char)
    BY <2>1 DEF Ascii
  <2>2. CASE LeadC2(char)
    <3>1. n = 1
      BY <2>2 DEF LeadC2
    <3> QED BY <2>2, <3>1 DEF LeadC2
  <2>3. CASE LeadE0(char)
    <3>1. n = 1 \/ n = 2
      BY <2>3 DEF LeadE0
    <3> QED BY <2>3, <3>1 DEF LeadE0
  <2>4. CASE LeadE1(char)
    <3>1. n = 1 \/ n = 2
      BY <2>4 DEF LeadE1
    <3> QED BY <2>4, <3>1 DEF LeadE1
  <2>5. CASE LeadED(char)
    <3>1. n = 1 \/ n = 2
      BY <2>5 DEF LeadED
    <3> QED BY <2>5, <3>1 DEF LeadED
  <2>6. CASE LeadF0(char)
    <3>1. n = 1 \/ n = 2 \/ n = 3
      BY <2>6 DEF LeadF0
    <3> QED BY <2>6, <3>1 DEF LeadF0
  <2>7. CASE LeadF1(char)
    <3>1. n = 1 \/ n = 2 \/ n = 3
      BY <2>7 DEF LeadF1
    <3> QED BY <2>7, <3>1 DEF LeadF1
  <2>8. CASE LeadF4(char)
    <3>1. n = 1 \/ n = 2 \/ n = 3
      BY <2>8 DEF LeadF4
    <3> QED BY <2>8, <3>1 DEF LeadF4
  <2> QED BY <2>1, <2>2, <2>3, <2>4, <2>5, <2>6, <2>7, <2>8, Kinds
<1> QED BY <1>1, <1>2, <1>3

--------------------------------------------------------------------------------
(* The character that is being read *)

\* The bytes may begin, or be, a character of this kind.
Fits(seq, char) == \A i \in DOMAIN seq : i \in DOMAIN char /\ seq[i] \in char[i]

\* The state stands for what of a character was read.
Inside(st, seq) ==
    \E char \in Character :
        /\ Len(seq) < Len(char)
        /\ Fits(seq, char)
        /\ st = After(char, Len(seq))

\* One more byte fits if it fits in its own place.
LEMMA FitsAppend ==
    ASSUME NEW seq \in Seq(0..255), NEW byte \in 0..255, NEW char \in Character
    PROVE  Fits(Append(seq, byte), char) <=>
               /\ Fits(seq, char)
               /\ Len(seq) + 1 \in 1..Len(char)
               /\ byte \in char[Len(seq) + 1]
<1>1. DOMAIN char = 1..Len(char)
  BY CharacterSeq
<1>2. /\ DOMAIN seq = 1..Len(seq) /\ DOMAIN Append(seq, byte) = 1..(Len(seq) + 1)
      /\ \A i \in 1..Len(seq) : Append(seq, byte)[i] = seq[i]
      /\ Append(seq, byte)[Len(seq) + 1] = byte
      /\ Len(seq) \in Nat
  OBVIOUS
<1> QED BY <1>1, <1>2 DEF Fits

\* What one more byte makes of it.
Reads(st, seq, byte) ==
    /\ st \notin {0, 1} => Inside(st, Append(seq, byte))
    /\ st = 0 => \E char \in Character :
                     Len(char) = Len(seq) + 1 /\ Fits(Append(seq, byte), char)
    /\ st = 1 => ~\E char \in Character : Fits(Append(seq, byte), char)

\* The first byte of a character, and a later one.
LEMMA ReadsFirst ==
    ASSUME NEW seq \in Seq(0..255), NEW byte \in 0..255, seq = << >>
    PROVE  Reads(Turn(0, byte), seq, byte)
<1> DEFINE to == Turn(0, byte)
<1>1. \A char \in Character : Fits(Append(seq, byte), char) <=> byte \in char[1]
  <2> TAKE char \in Character
  <2>1. Len(seq) = 0 /\ Fits(seq, char)
    BY DEF Fits
  <2>2. Len(char) \in 1..4
    BY CharacterSeq
  <2>3. Len(seq) + 1 = 1 /\ 1 \in 1..Len(char)
    BY <2>1, <2>2
  <2>4. Fits(Append(seq, byte), char) <=>
            /\ Fits(seq, char)
            /\ Len(seq) + 1 \in 1..Len(char)
            /\ byte \in char[Len(seq) + 1]
    BY FitsAppend
  <2> QED BY <2>1, <2>3, <2>4, Zenon
<1>2. \A char \in Character :
         byte \in char[1] => to = IF Len(char) = 1 THEN 0 ELSE After(char, 1)
  BY Leads
<1>3. \A char \in Character :
         Len(char) \in 1..4 /\ (Len(char) # 1 => After(char, 1) \in 2..8)
  <2> TAKE char \in Character
  <2>1. Len(char) \in 1..4
    BY CharacterSeq
  <2>2. CASE Len(char) = 1
    BY <2>2
  <2>3. CASE Len(char) # 1
    <3>1. 1 \in 1..(Len(char) - 1)
      BY <2>1, <2>3
    <3>2. After(char, 1) \in 2..8
      BY <3>1, CharacterSeq
    <3> QED BY <2>1, <3>2
  <2> QED BY <2>2, <2>3
<1>4. to # 1 => \E char \in Character : byte \in char[1]
  BY LeadsSomewhere
<1>5. Len(Append(seq, byte)) = 1 /\ Len(seq) = 0
  OBVIOUS
<1> HIDE DEF to
<1>6. to \notin {0, 1} => Inside(to, Append(seq, byte))
  <2> SUFFICES ASSUME to \notin {0, 1} PROVE Inside(to, Append(seq, byte))
    OBVIOUS
  <2>1. PICK char \in Character : byte \in char[1]
    BY <1>4
  <2>2. Len(char) # 1 /\ to = After(char, 1)
    BY <1>2, <2>1
  <2>3. 1 < Len(char)
    <3>1. Len(char) \in 1..4
      BY <1>3
    <3> QED BY <2>2, <3>1
  <2> QED BY <1>1, <1>5, <2>1, <2>2, <2>3 DEF Inside
<1>7. to = 0 => \E char \in Character :
                    Len(char) = Len(seq) + 1 /\ Fits(Append(seq, byte), char)
  BY <1>1, <1>2, <1>3, <1>4, <1>5
<1>8. to = 1 => ~\E char \in Character : Fits(Append(seq, byte), char)
  BY <1>1, <1>2, <1>3
<1> QED BY <1>6, <1>7, <1>8 DEF Reads, to

LEMMA ReadsNext ==
    ASSUME NEW seq \in Seq(0..255), NEW byte \in 0..255, seq # << >>,
           NEW char \in Character, Len(seq) < Len(char), Fits(seq, char)
    PROVE  Reads(Turn(After(char, Len(seq)), byte), seq, byte)
<1> DEFINE n == Len(seq)
           to == Turn(After(char, n), byte)
<1>1. n \in 1..(Len(char) - 1) /\ Len(char) \in 1..4 /\ n + 1 \in 1..Len(char)
  BY CharacterSeq
<1>2. to = IF byte \in char[n + 1]
           THEN IF n + 1 = Len(char) THEN 0 ELSE After(char, n + 1)
           ELSE 1
  <2> HIDE DEF n
  <2> QED BY <1>1, Follows
<1>3. n + 1 # Len(char) => After(char, n + 1) \in 2..8
  <2> HIDE DEF n
  <2> QED BY <1>1, CharacterSeq
<1>4. Fits(Append(seq, byte), char) <=> byte \in char[n + 1]
  BY <1>1, FitsAppend
<1>5. ASSUME NEW other \in Character, Fits(Append(seq, byte), other)
      PROVE  Fits(Append(seq, byte), char)
  <2>1. Fits(seq, other)
    BY <1>5, FitsAppend
  <2>2. seq[1] \in char[1] /\ seq[1] \in other[1] /\ seq[1] \in 0..255
    <3>1. 1 \in DOMAIN seq /\ seq[1] \in 0..255
      BY <1>1
    <3>2. seq[1] \in char[1]
      BY <3>1 DEF Fits
    <3>3. seq[1] \in other[1]
      BY <3>1, <2>1 DEF Fits
    <3> QED BY <3>1, <3>2, <3>3
  <2>3. char = other
    BY <2>2, FirstBytesDiffer
  <2> QED BY <1>5, <2>3
<1>6. Len(Append(seq, byte)) = n + 1
  OBVIOUS
<1> HIDE DEF to, n
<1>7. to \notin {0, 1} => Inside(to, Append(seq, byte))
  <2> SUFFICES ASSUME to \notin {0, 1} PROVE Inside(to, Append(seq, byte))
    OBVIOUS
  <2>1. byte \in char[n + 1] /\ n + 1 # Len(char) /\ to = After(char, n + 1)
    BY <1>2
  <2>2. n + 1 < Len(char)
    BY <1>1, <2>1
  <2> QED BY <1>4, <1>6, <2>1, <2>2 DEF Inside
<1>8. to = 0 => Len(char) = n + 1 /\ Fits(Append(seq, byte), char)
  BY <1>2, <1>3, <1>4
<1>9. to = 1 => ~\E other \in Character : Fits(Append(seq, byte), other)
  BY <1>2, <1>3, <1>4, <1>5
<1> QED BY <1>7, <1>8, <1>9 DEF Reads, to, n

LEMMA ReadsByte ==
    ASSUME NEW st, NEW seq \in Seq(0..255), NEW byte \in 0..255, Inside(st, seq)
    PROVE  Reads(Turn(st, byte), seq, byte)
<1>1. PICK char \in Character : /\ Len(seq) < Len(char)
                                /\ Fits(seq, char)
                                /\ st = After(char, Len(seq))
  BY DEF Inside
<1>2. CASE seq = << >>
  <2>1. st = 0
    BY <1>1, <1>2, CharacterSeq
  <2>2. Reads(Turn(0, byte), seq, byte)
    BY <1>2, ReadsFirst
  <2> QED BY <2>1, <2>2, Zenon
<1>3. CASE seq # << >>
  <2>1. Reads(Turn(After(char, Len(seq)), byte), seq, byte)
    BY <1>1, <1>3, ReadsNext
  <2> QED BY <1>1, <2>1, Zenon
<1> QED BY <1>2, <1>3

\* Between two characters nothing is pending.
LEMMA AcceptsNothing ==
    ASSUME NEW seq \in Seq(0..255), NEW st, Inside(st, seq)
    PROVE  st = 0 <=> seq = << >>
<1>1. PICK char \in Character : Len(seq) < Len(char) /\ st = After(char, Len(seq))
  BY DEF Inside
<1>2. Len(seq) = 0 \/ Len(seq) \in 1..(Len(char) - 1)
  BY <1>1, CharacterSeq
<1>3. Len(seq) = 0 <=> seq = << >>
  OBVIOUS
<1> QED BY <1>1, <1>2, <1>3, CharacterSeq

LEMMA InsideNothing == Inside(0, << >>)
<1> DEFINE char == <<0..127>>
<1>1. char \in Character
  BY DEF Character
<1>2. Len(char) = 1 /\ Len(<< >>) = 0
  OBVIOUS
<1>3. Fits(<< >>, char)
  BY DEF Fits
<1> HIDE DEF char
<1>4. After(char, 0) = 0
  BY <1>1, CharacterSeq
<1>5. After(char, Len(<< >>)) = 0 /\ Len(<< >>) < Len(char)
  BY <1>2, <1>4
<1> QED BY <1>1, <1>3, <1>5 DEF Inside

--------------------------------------------------------------------------------
(* ThrowsUnlessUTF8, made inductive *)

Decoding ==
    /\ result = "running" => Inside(state, pending)
    /\ result = "dumped" => pending = << >>
    /\ result = "incomplete" => pending # << >>
    /\ result = "invalid" => ~\E char \in Character : Fits(pending, char)

LEMMA BytesType == TypeOK => pending \in Seq(0..255) /\ read \in Seq(0..255)
BY SMT DEF TypeOK

\* What decode makes of a byte that is read.
LEMMA DecodeReads ==
    ASSUME TypeOK, Decoding, result = "running", NEW byte \in 0..255, decode(byte)
    PROVE  Reads(state', pending, byte)
BY BytesType, ReadsByte DEF decode, Turn, Decoding

LEMMA StepDecoding ==
    ASSUME TypeOK, Decoding, NEW byte \in Byte, Step(byte)
    PROVE  Decoding'
<1>1. byte \in 0..255 /\ result = "running"
  BY JsonDumpAssumption DEF Step
<1>2. CASE Accept(byte)
  <2>1. state' = 0 /\ pending' = << >> /\ result' = "running"
    BY <1>1, <1>2 DEF Accept, UTF8_ACCEPT
  <2> QED BY <2>1, InsideNothing DEF Decoding
<1>3. CASE Incomplete(byte)
  <2>1. /\ state' \notin {0, 1} /\ pending' = Append(pending, byte) /\ result' = "running"
        /\ decode(byte)
    BY <1>1, <1>3 DEF Incomplete, UTF8_ACCEPT, UTF8_REJECT
  <2>2. Reads(state', pending, byte)
    BY <1>1, <2>1, DecodeReads
  <2> QED BY <2>1, <2>2 DEF Decoding, Reads
<1>4. CASE Reject(byte)
  <2>1. /\ state' = 1 /\ pending' = Append(pending, byte) /\ result' = "invalid"
        /\ decode(byte)
    BY <1>1, <1>4 DEF Reject, UTF8_REJECT
  <2>2. Reads(state', pending, byte)
    BY <1>1, <2>1, DecodeReads
  <2> QED BY <2>1, <2>2 DEF Decoding, Reads
<1> QED BY <1>2, <1>3, <1>4 DEF Step

LEMMA FinishDecoding ==
    ASSUME TypeOK, Decoding, Finish
    PROVE  Decoding'
<1>1. /\ result = "running" /\ pending' = pending
      /\ result' = IF state = 0 THEN "dumped" ELSE "incomplete"
  BY DEF Finish, UTF8_ACCEPT
<1>2. state = 0 <=> pending = << >>
  BY <1>1, BytesType, AcceptsNothing DEF Decoding
<1> QED BY <1>1, <1>2 DEF Decoding

LEMMA NextDecoding == TypeOK /\ Decoding /\ [Next]_vars => Decoding'
<1> SUFFICES ASSUME TypeOK, Decoding, [Next]_vars PROVE Decoding'
  OBVIOUS
<1>1. CASE UNCHANGED vars
  BY <1>1 DEF vars, Decoding
<1> QED BY <1>1, StepDecoding, FinishDecoding DEF Next

\* Before the first byte.
LEMMA InitDecoding == Init => Decoding
BY InsideNothing DEF Init, Decoding, UTF8_ACCEPT

\* dump throws for exactly what is not UTF-8, whatever the bytes.
THEOREM ThrowsForBadUTF8 == Spec => []ThrowsUnlessUTF8
<1>1. TypeOK /\ Decoding => ThrowsUnlessUTF8
  <2> SUFFICES ASSUME TypeOK, Decoding PROVE ThrowsUnlessUTF8
    OBVIOUS
  <2>1. ASSUME result = "running"
        PROVE  BeginsCharacter(pending) /\ (state = UTF8_ACCEPT <=> pending = << >>)
    <3>1. Inside(state, pending)
      BY <2>1 DEF Decoding
    <3>2. state = 0 <=> pending = << >>
      BY <3>1, BytesType, AcceptsNothing
    <3>3. BeginsCharacter(pending)
      BY <3>1 DEF Inside, Fits, BeginsCharacter
    <3> QED BY <3>2, <3>3 DEF UTF8_ACCEPT
  <2> QED BY <2>1 DEF Decoding, Fits, ThrowsUnlessUTF8
<1> QED BY <1>1, InitDecoding, NextDecoding, DumpTypeCorrect, PTL DEF Spec

\* A character is taken for complete when, and only when, it is.
THEOREM CharactersComplete == Spec => CompletesCharacters
<1> DEFINE Completes ==
        pending' = << >> /\ pending # << >> =>
          \E char \in Character :
              /\ Len(char) = Len(pending) + 1
              /\ \A i \in DOMAIN char : Append(pending, read'[Len(read')])[i] \in char[i]
<1>1. TypeOK /\ Decoding /\ [Next]_vars => [Completes]_vars
  <2> SUFFICES ASSUME TypeOK, Decoding, Next, pending' = << >>, pending # << >>
               PROVE  \E char \in Character :
                          /\ Len(char) = Len(pending) + 1
                          /\ \A i \in DOMAIN char :
                                Append(pending, read'[Len(read')])[i] \in char[i]
    BY DEF vars
  <2>1. PICK byte \in Byte : Step(byte)
    BY DEF Next, Finish
  <2>2. byte \in 0..255 /\ result = "running"
    BY <2>1, JsonDumpAssumption DEF Step
  <2>3. Append(pending, byte) # << >>
    BY BytesType
  <2>4. Accept(byte)
    BY <2>1, <2>3 DEF Step, Incomplete, Reject
  <2>5. decode(byte) /\ state' = 0 /\ read' = Append(read, byte)
    BY <2>4 DEF Accept, decode, UTF8_ACCEPT
  <2>6. read'[Len(read')] = byte
    BY <2>5, BytesType
  <2>7. Reads(state', pending, byte)
    BY <2>2, <2>5, DecodeReads
  <2>8. PICK char \in Character :
            Len(char) = Len(pending) + 1 /\ Fits(Append(pending, byte), char)
    BY <2>5, <2>7 DEF Reads
  <2>9. DOMAIN char = 1..Len(char) /\ DOMAIN Append(pending, byte) = 1..(Len(pending) + 1)
    BY CharacterSeq, BytesType
  <2>10. \A i \in DOMAIN char : Append(pending, byte)[i] \in char[i]
    BY <2>8, <2>9 DEF Fits
  <2> QED BY <2>6, <2>8, <2>10
<1> QED BY <1>1, InitDecoding, NextDecoding, DumpTypeCorrect, PTL DEF Spec, CompletesCharacters

================================================================================
