------------------------------ MODULE EntryStore ------------------------------
(*****************************************************************************)
(* What the logger promises about entries, whoever writes them and however   *)
(* they get there: an entry is stored in one file, once, or it is given up;  *)
(* entries leave a file only when the whole file is truncated; an entry that *)
(* was given up or truncated away does not come back; and nobody is answered *)
(* before the fate of his entry is decided.                                  *)
(*                                                                           *)
(* An entry is what one call of HandleInstruction is to log: an instruction  *)
(* that its logger handles itself, or a request that reaches the server.  A  *)
(* request that the network duplicates is therefore two entries, with two    *)
(* fates; that they say the same the store does not know, as the server does *)
(* not.  RemoteLogging's FileOrder says when it can happen.                  *)
(*****************************************************************************)
EXTENDS Sequences, Naturals

CONSTANTS
    File,  \* the files of all hosts
    Id     \* names of entries

VARIABLES
    lines,    \* the entries in each file, in the order they were written
    gone,     \* entries given up or truncated away
    answered  \* entries whose sender was answered

vars == <<lines, gone, answered>>

IdsOf(seq) == {seq[i] : i \in DOMAIN seq}

Stored(id) == \E f \in File : id \in IdsOf(lines[f])

Decided(id) == Stored(id) \/ id \in gone

Init ==
    /\ lines = [f \in File |-> << >>]
    /\ gone = {}
    /\ answered = {}

Store(id) ==
    /\ ~Decided(id)
    /\ \E f \in File : lines' = [lines EXCEPT ![f] = Append(@, id)]
    /\ UNCHANGED <<gone, answered>>

GiveUp(id) ==
    /\ ~Decided(id)
    /\ gone' = gone \cup {id}
    /\ UNCHANGED <<lines, answered>>

Truncate(f) ==
    /\ gone' = gone \cup IdsOf(lines[f])
    /\ lines' = [lines EXCEPT ![f] = << >>]
    /\ UNCHANGED answered

Answer(id) ==
    /\ answered' = answered \cup {id}
    /\ Decided(id)
    /\ UNCHANGED <<lines, gone>>

Next ==
    \/ \E id \in Id : Store(id) \/ GiveUp(id) \/ Answer(id)
    \/ \E f \in File : Truncate(f)

Spec == Init /\ [][Next]_vars

--------------------------------------------------------------------------------
(* Properties *)

TypeOK == lines \in [File -> Seq(Id)]

\* An entry has one place, in one file.
StoredOnce ==
    \A f, g \in File : \A i \in DOMAIN lines[f], j \in DOMAIN lines[g] :
        lines[f][i] = lines[g][j] => f = g /\ i = j

\* What was given up or truncated away is in no file.
GoneForGood == \A id \in gone : ~Stored(id)

\* Nobody is answered before the fate of his entry is decided.
AnswersFollow == \A id \in answered : Decided(id)

Promises == StoredOnce /\ GoneForGood /\ AnswersFollow

\* A fate once decided stays decided, and what is gone stays gone.
FatesStand ==
    [][gone \subseteq gone' /\ \A id \in Id : Decided(id) => Decided(id)']_vars

================================================================================
