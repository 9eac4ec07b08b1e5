---------------------------- MODULE MCRemoteLogging ----------------------------
(* Values for RemoteLogging: loggers l and k, the server s.  l runs on the   *)
(* server's host, as in main.cpp; k, when a run has it, on a host of its own. *)
EXTENDS RemoteStore

CONSTANTS w, u, l, k, s, h, g

MCHostOf == [p \in Process |-> IF p = k THEN g ELSE h]

MCId == RequestId

\* Instructions per logger: with two loggers, the local one has a single one.
MCSubmitThree == [p \in Logger |-> 3]
MCSubmitTwo   == [p \in Logger |-> IF p = k THEN 2 ELSE 1]

MCInstruction(type, ftype, tmode, data) ==
    [id |-> CHOOSE id \in Id : TRUE, Type |-> type, FType |-> ftype, TMode |-> tmode,
     PID |-> u, Data |-> data]

\* Every path of LogLine; texts with a newline, with an escape and a zero, and
\* too long.
MCInputAll ==
    {MCInstruction(1, f, Local, <<w>>) : f \in {0, 2}}
        \cup {MCInstruction(1, f, NONE, <<w, "nl", w>>) : f \in {1, 2}}
        \cup {MCInstruction(ReflectLog, 2, Remote, <<"esc", "nul">>),
              MCInstruction(4, 1, Remote, <<w, w, w, w>>),
              MCInstruction(1, 1, Local, <<"bad">>)}

\* Plain messages for the .ctf file, both modes.
MCInputPlain ==
    {MCInstruction(1, 2, m, <<w>>) : m \in {Local, Remote}}

\* Messages for the server's .json file, one of them longer than the buffer.
MCInputJson == {MCInstruction(1, 1, Remote, <<w>>),
                MCInstruction(1, 1, Remote, <<w, w, w, w>>)}

================================================================================
