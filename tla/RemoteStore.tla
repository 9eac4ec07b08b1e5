------------------------------ MODULE RemoteStore ------------------------------
(*****************************************************************************)
(* RemoteLogging as an implementation of EntryStore.  The hosts' files are    *)
(* its files; an entry is given up where LogLine refuses it, and truncated    *)
(* away by FileInterface's constructor; its sender is answered when Request   *)
(* returns a response.  Queues, datagrams, buffers and processes are hidden.  *)
(* A copy that the network makes of a request is an entry of its own, since   *)
(* the server cannot tell it from a new request.                              *)
(*****************************************************************************)
EXTENDS RemoteLogging

File == Host \X FileName

\* The entries in a file, by their names.
Names(entries) == [i \in DOMAIN entries |-> entries[i].id]

Lines == [f \in File |-> Names(disk[f[1]][f[2]])]

Store == INSTANCE EntryStore WITH
            lines <- Lines,
            gone <- wiped \cup refused,
            answered <- acked

\* Remote logging over UDP is a store of entries: whatever is lost, reordered,
\* duplicated, interrupted or killed, what reaches HandleInstruction once is not
\* stored twice and does not come back, no entry disappears alone, and a response
\* means that HandleInstruction has decided about the copy that it answers.
StoresEntries == Store!Spec

================================================================================
