-------------------------------- MODULE JsonDump --------------------------------
(*****************************************************************************)
(* nlohmann::json's serializer as JSONFileInterface::LogLine uses it on the  *)
(* strings of an entry: dump_escaped with the strict error handler and       *)
(* without ensure_ascii, and the UTF-8 decoder decode.  It decides which     *)
(* texts LoggerTypes calls Undumpable: the server's buffer cuts messages at  *)
(* any byte, and a logger waits for an answer that an exception prevents.    *)
(*                                                                           *)
(* The bytes of the string are read one per step.  What is written is a      *)
(* sequence of units: a byte as it is, or an escape sequence.  What only the *)
(* other error handlers use (undumped_chars, bytes_after_last_accept) is     *)
(* left out.                                                                 *)
(*****************************************************************************)
EXTENDS Integers, Sequences

CONSTANTS
    Byte,        \* the bytes that occur
    BufferSize,  \* string_buffer.size()
    MaxLength    \* bound: the length of the string

\* A unit takes at most 7 bytes, with the zero that snprintf adds, and a
\* character at most 4 as it is; the code asks for 13 to be left.
ASSUME JsonDumpAssumption ==
    /\ Byte \subseteq 0..255
    /\ BufferSize \in Nat /\ BufferSize >= 13
    /\ MaxLength \in Nat

VARIABLES
    state,      \* of the decoder
    codepoint,
    buffer,     \* the units in string_buffer
    bytes,      \* how many bytes they take
    top,        \* history: the last place of string_buffer ever written
    out,        \* the units written to the output
    read,       \* history: the bytes read
    pending,    \* history: those of the character that is being read
    result      \* "running", "dumped", or which exception was thrown

vars == <<state, codepoint, buffer, bytes, top, out, read, pending, result>>

UTF8_ACCEPT == 0
UTF8_REJECT == 1

Unit == [escape : {"none", "short", "u"}, code : 0..255]

TypeOK ==
    /\ state \in 0..8
    /\ codepoint \in Nat /\ codepoint < 2097152  \* 21 bits
    /\ buffer \in Seq(Unit)
    /\ bytes \in 0..BufferSize
    /\ top \in Nat
    /\ out \in Seq(Unit)
    /\ read \in Seq(0..255) /\ Len(read) <= MaxLength
    /\ pending \in Seq(0..255) /\ Len(pending) <= 4
    /\ result \in {"running", "dumped", "invalid", "incomplete"}

Init ==
    /\ state = UTF8_ACCEPT
    /\ codepoint = 0
    /\ buffer = << >> /\ bytes = 0 /\ top = 0
    /\ out = << >>
    /\ read = << >> /\ pending = << >>
    /\ result = "running"

--------------------------------------------------------------------------------
(* decode: its table maps a byte to one of twelve types, and a state and a   *)
(* type to a state.                                                          *)

\* Mutant: ED is a byte like E1, and surrogates pass.
Type_Surrogates(byte) ==
    CASE byte \in 0..127   -> 0
      [] byte \in 128..143 -> 1
      [] byte \in 144..159 -> 9
      [] byte \in 160..191 -> 7
      [] byte \in 194..223 -> 2
      [] byte = 224        -> 10
      [] byte \in 225..239 -> 3
      [] byte = 240        -> 11
      [] byte \in 241..243 -> 6
      [] byte = 244        -> 5
      [] byte \in {192, 193} \cup (245..255) -> 8

Type(byte) ==
    CASE byte \in 0..127   -> 0   \* 00..7F
      [] byte \in 128..143 -> 1   \* 80..8F
      [] byte \in 144..159 -> 9   \* 90..9F
      [] byte \in 160..191 -> 7   \* A0..BF
      [] byte \in 194..223 -> 2   \* C2..DF
      [] byte = 224        -> 10  \* E0
      [] byte \in (225..236) \cup {238, 239} -> 3
      [] byte = 237        -> 4   \* ED
      [] byte = 240        -> 11  \* F0
      [] byte \in 241..243 -> 6   \* F1..F3
      [] byte = 244        -> 5   \* F4
      [] byte \in {192, 193} \cup (245..255) -> 8

\* The rows s0 to s8, for the types 0 to 11.
utf8d ==
    << <<0, 1, 2, 3, 5, 8, 7, 1, 1, 1, 4, 6>>,
       <<1, 1, 1, 1, 1, 1, 1, 1, 1, 1, 1, 1>>,
       <<1, 0, 1, 1, 1, 1, 1, 0, 1, 0, 1, 1>>,
       <<1, 2, 1, 1, 1, 1, 1, 2, 1, 2, 1, 1>>,
       <<1, 1, 1, 1, 1, 1, 1, 2, 1, 1, 1, 1>>,
       <<1, 2, 1, 1, 1, 1, 1, 1, 1, 2, 1, 1>>,
       <<1, 1, 1, 1, 1, 1, 1, 3, 1, 3, 1, 1>>,
       <<1, 3, 1, 1, 1, 1, 1, 3, 1, 3, 1, 1>>,
       <<1, 3, 1, 1, 1, 1, 1, 1, 1, 1, 1, 1>> >>

\* (0xFFu >> type) & byte: the byte modulo 256 shifted by its type.  The code
\* point is a uint32_t; TypeOK says that it stays far below.
Payload(byte) ==
    byte % <<256, 128, 64, 32, 16, 8, 4, 2, 1, 1, 1, 1>>[Type(byte) + 1]

\* Mutant: a new character does not start afresh.
Codepoint_NotReset(byte) == codepoint * 64 + (byte % 64)

Codepoint(byte) ==
    IF state = UTF8_ACCEPT THEN Payload(byte)
                           ELSE codepoint * 64 + (byte % 64)

decode(byte) ==
    /\ codepoint' = Codepoint(byte)
    /\ state' = utf8d[state + 1][Type(byte) + 1]
    /\ read' = Append(read, byte)

--------------------------------------------------------------------------------
(* dump_escaped *)

\* Mutant: a backslash is left alone.
EscapeOf_NoBackslash(code) ==
    IF code \in {8, 9, 10, 12, 13, 34} THEN "short"
    ELSE IF code <= 31 THEN "u" ELSE "none"

\* How a code point is written: \b, \t, \n, \f, \r, \", \\, as \u and four
\* digits, or as it is.
EscapeOf(code) ==
    IF code \in {8, 9, 10, 12, 13, 34, 92} THEN "short"
    ELSE IF code <= 31 THEN "u" ELSE "none"

Width(escape) == CASE escape = "none" -> 1 [] escape = "short" -> 2 [] escape = "u" -> 6

\* Units are appended; snprintf also writes a zero.
Writes(escape, code) ==
    LET end == bytes + Width(escape) + (IF escape = "u" THEN 1 ELSE 0)
    IN  top' = IF end > top THEN end ELSE top

\* Mutant: the buffer is written out when it is full.
MustFlush_Full(used) == used >= BufferSize

MustFlush(used) == BufferSize - used < 13

Accept(byte) ==
    /\ decode(byte)
    /\ state' = UTF8_ACCEPT
    /\ LET escape == EscapeOf(codepoint')
           written == Append(buffer, [escape |-> escape,
                                      code |-> IF escape = "none" THEN byte ELSE codepoint'])
           used == bytes + Width(escape)
       IN  /\ Writes(escape, byte)
           /\ IF MustFlush(used)
              THEN out' = out \o written /\ buffer' = << >> /\ bytes' = 0
              ELSE buffer' = written /\ bytes' = used /\ UNCHANGED out
    /\ pending' = << >>
    /\ UNCHANGED result

\* Mutant: the bytes of a character but its last are left out, as with
\* ensure_ascii.
Incomplete_NoCopy(byte) ==
    /\ decode(byte)
    /\ state' \notin {UTF8_ACCEPT, UTF8_REJECT}
    /\ pending' = Append(pending, byte)
    /\ UNCHANGED <<buffer, bytes, top, out, result>>

\* A character is not complete yet; its bytes are copied as they come.
Incomplete(byte) ==
    /\ decode(byte)
    /\ state' \notin {UTF8_ACCEPT, UTF8_REJECT}
    /\ buffer' = Append(buffer, [escape |-> "none", code |-> byte])
    /\ bytes' = bytes + 1
    /\ Writes("none", byte)
    /\ pending' = Append(pending, byte)
    /\ UNCHANGED <<out, result>>

\* type_error 316: invalid UTF-8 byte.
Reject(byte) ==
    /\ decode(byte)
    /\ state' = UTF8_REJECT
    /\ pending' = Append(pending, byte)
    /\ result' = "invalid"
    /\ UNCHANGED <<buffer, bytes, top, out>>

Step(byte) ==
    /\ result = "running"
    /\ Len(read) < MaxLength
    /\ Accept(byte) \/ Incomplete(byte) \/ Reject(byte)

\* The end of the string; type_error 316 if it comes inside a character.
Finish ==
    /\ result = "running"
    /\ result' = IF state = UTF8_ACCEPT THEN "dumped" ELSE "incomplete"
    /\ IF state = UTF8_ACCEPT
       THEN out' = out \o buffer /\ buffer' = << >>
       ELSE UNCHANGED <<out, buffer>>
    /\ UNCHANGED <<state, codepoint, bytes, top, read, pending>>

Next == (\E byte \in Byte : Step(byte)) \/ Finish

Spec == Init /\ [][Next]_vars

--------------------------------------------------------------------------------
(* Properties *)

\* string_buffer is never written past its end, although the bytes of an
\* incomplete character and snprintf are not checked for room.
WithinBuffer == top <= BufferSize

\* What is written stands for exactly the bytes read, whenever the buffer was
\* written out in between.
NothingLostOrTwice ==
    result \in {"running", "dumped"} =>
        LET written == out \o buffer
        IN  /\ Len(written) = Len(read)
            /\ \A i \in DOMAIN read : written[i].code = read[i]

\* Well-formed UTF-8 by the Unicode Standard, Table 3-7.
Character ==
    LET tail == 128..191 IN
    { <<0..127>>, <<194..223, tail>>,
      <<{224}, 160..191, tail>>, <<(225..236) \cup {238, 239}, tail, tail>>,
      <<{237}, 128..159, tail>>,
      <<{240}, 144..191, tail, tail>>, <<241..243, tail, tail, tail>>,
      <<{244}, 128..143, tail, tail>> }

BeginsCharacter(seq) ==
    \E char \in Character : /\ Len(seq) < Len(char)
                            /\ \A i \in DOMAIN seq : seq[i] \in char[i]

\* dump throws for what is not UTF-8, at the first byte that cannot be part of
\* it, and for nothing else: also for a string that was cut inside a character.
ThrowsUnlessUTF8 ==
    /\ result = "running" => BeginsCharacter(pending) /\ (state = UTF8_ACCEPT <=> pending = << >>)
    /\ result = "dumped" => pending = << >>
    /\ result = "incomplete" => pending # << >>
    /\ result = "invalid" =>
          ~\E char \in Character :
              \A i \in DOMAIN pending : i \in DOMAIN char /\ pending[i] \in char[i]

\* And it takes a character for complete when it is.
CompletesCharacters ==
    [][pending' = << >> /\ pending # << >> =>
          \E char \in Character :
              /\ Len(char) = Len(pending) + 1
              /\ \A i \in DOMAIN char : Append(pending, read'[Len(read')])[i] \in char[i]]_vars

\* No control character, quotation mark or backslash of the message gets into
\* the file other than escaped, so that an entry ends where LogLine ends it.
Special == (0..31) \cup {34, 92}

StaysOneString ==
    LET written == out \o buffer
    IN  \A i \in DOMAIN written :
            written[i].escape = "none" => written[i].code \notin Special

================================================================================
