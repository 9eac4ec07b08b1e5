------------------------------ MODULE LoggerTypes ------------------------------
(*****************************************************************************)
(* The enumerations of the logger, the casts by which one component turns    *)
(* the enumeration of another into its own, and the texts that the           *)
(* components store and exchange.                                            *)
(*                                                                           *)
(* Enumerations keep the integer values the C++ enum classes have, because   *)
(* the code converts between them with static_cast and +1 / -1.  A text is a *)
(* sequence of tokens: a token is a word of a message, a process id, a host  *)
(* name, a severity label, or one of the characters the conversions treat    *)
(* specially.  Time stamps, brackets and other fixed layout are left out.    *)
(*****************************************************************************)
EXTENDS Integers, Sequences, FiniteSets, SequencesExt

CONSTANTS
    Word,  \* what messages are made of, besides the special characters
    Pid,   \* process ids, of clients and of the logger's own processes
    Host   \* canonical host names

(* logger_classes::FileFormat, TransportMode and Severity *)
JSON       == 0
Custom     == 1
FileFormat == {JSON, Custom}

NONE   == 0
Local  == 1
Remote == 2

Severity == 0..5

(* terminal::InstructionType (LogDebug = 0 .. ReflectLog = 5), FormatType
   (Unspecified = 0, JSON = 1, CTF = 2) and TransMode (Unspecified = 0,
   Local = 1, Remote = 2).  An instruction may carry any integer; ReflectLog
   stands for every type past LogCritical, the Unspecified values for every
   format and mode the code does not know. *)
ReflectLog      == 5
InstructionType == 0..ReflectLog
FormatType      == 0..2
TransMode       == {NONE, Local, Remote}

(*****************************************************************************)
(* The casts.  HandleInstruction turns an instruction's enumerations into    *)
(* the logger's, the server turns a request's back into an instruction's.    *)
(* TransMode and TransportMode have the same values.                         *)
(*****************************************************************************)
SeverityOf(type)    == type + 1
FileFormatOf(ftype) == ftype - 1

\* Mutant: the server forgets that Severity has an UNSPEC value in front.
TypeOf_NoOffset(severity) == severity
TypeOf(severity)          == severity - 1

\* Mutant: the server takes a FileFormat for a FormatType.
FormatTypeOf_NoOffset(format) == format
FormatTypeOf(format)          == format + 1

(*****************************************************************************)
(* LogEntry::SerializeSeverity.  Outside the enumeration (severity 6, which  *)
(* is what a ReflectLog instruction becomes) the C++ function runs off its   *)
(* end without a return: "garbage" stands for the string the caller then     *)
(* sees, if the process survives (see LogLineCrashes in MainLogger).         *)
(*****************************************************************************)
Label == {"", "DEBUG", "INFO", "WARNING", "ERROR", "CRITICAL", "garbage"}

SerializeSeverity(s) ==
    IF s \in Severity
    THEN <<"", "DEBUG", "INFO", "WARNING", "ERROR", "CRITICAL">>[s + 1]
    ELSE "garbage"

(*****************************************************************************)
(* Texts.  "nl" is a newline, "esc" the two characters backslash and n, "sp" *)
(* a blank, "bad" a byte that is not valid UTF-8, "nul" a zero byte.         *)
(*****************************************************************************)
Special == {"nl", "esc", "sp", "bad", "nul"}
Token   == Word \cup Pid \cup Host \cup Label \cup Special
Text    == Seq(Token)

\* Process ids are numbers and host names have no control characters.
ASSUME TokenAssumption == (Pid \cup Host) \cap Special = {}

stringReplace(str, from, to) ==
    [i \in DOMAIN str |-> IF str[i] = from THEN to ELSE str[i]]

\* What precedes the first occurrence of a token.
UpTo(str, token) ==
    LET before == {i \in DOMAIN str : \A j \in 1..i : str[j] # token}
    IN  SubSeq(str, 1, Cardinality(before))

getline(str) == UpTo(str, "nl")

\* A std::string made of a char array ends where the array has a zero.
CString(str) == UpTo(str, "nul")

\* nlohmann::json::dump throws on a string that is not valid UTF-8.
Undumpable(str) == \E i \in DOMAIN str : str[i] = "bad"

(*****************************************************************************)
(* The records.  An instruction carries a field the code does not have: id,  *)
(* a history field that names the instruction wherever its contents go.      *)
(*****************************************************************************)
LoggerInstruction(Id) ==
    [id: Id, Type: InstructionType, FType: FormatType, TMode: TransMode,
     PID: Pid, Data: Text]

LogEntry(Id) ==
    [id: Id, label: Label, Source: Host \X Pid, Message: Text]

\* LogEntry::Serialize: one line, with its newline.
SerializeEntry(e) ==
    <<e.label, e.Source[1], e.Source[2]>> \o e.Message \o <<"nl">>

\* The severities HandleInstruction makes, one of them out of range.
SentSeverity == {SeverityOf(type) : type \in InstructionType}

ServerRequest(Id) ==
    [id: Id, Format: FileFormat, Severity: SentSeverity, Origin: Pid, Data: Text]

\* Mutant: newlines inside the data are sent as they are.
SerializeRequest_NoEscape(r) ==
    [Format |-> r.Format, Severity |-> r.Severity, Origin |-> r.Origin,
     line |-> r.Data \o <<"nl">>]

\* ServerRequest::Serialize: newlines are escaped, so that the data is a line.
SerializeRequest(r) ==
    [Format |-> r.Format, Severity |-> r.Severity, Origin |-> r.Origin,
     line |-> stringReplace(r.Data, "nl", "esc") \o <<"nl">>]

\* What a datagram of SerializeRequest's making contains.
Wire == [Format: FileFormat, Severity: SentSeverity, Origin: Pid, line: Text]

\* What the server sees of a datagram's text when its buffer has the given size:
\* all of it if it fits, else its beginning, whose last token may be the first
\* bytes of a character that has several; and of that what precedes a zero.
Received(str, size) ==
    IF Len(str) <= size
    THEN {CString(str)}
    ELSE {CString(SubSeq(str, 1, size)),
          CString(SubSeq(str, 1, size - 1) \o <<"bad">>)}

\* ServerRequest::Deserialize: the blank that separates the data from the
\* origin stays in front of the data, and every "\n" becomes a newline,
\* whether Serialize wrote it or the message contained it.
DeserializeData(line) == <<"sp">> \o stringReplace(getline(line), "esc", "nl")

================================================================================
