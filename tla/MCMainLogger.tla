------------------------------ MODULE MCMainLogger ------------------------------
(* MainLogger with two processes that share the files of one host; only a    *)
(* was given a connection.                                                   *)
EXTENDS MainLogger

CONSTANTS w, a, b, h

MCHostOf == [p \in {a, b} |-> h]

MCInstruction(type, ftype, tmode, data) ==
    [id |-> 1, Type |-> type, FType |-> ftype, TMode |-> tmode, PID |-> a,
     Data |-> data]

\* Every way through HandleInstruction, and two different lines for the .json
\* file; the .ctf file, which LogLine writes by the same action, stays empty.
MCInput ==
    {MCInstruction(1, 1, Local, <<w>>),
     MCInstruction(ReflectLog, 1, Local, <<w>>),
     MCInstruction(1, 2, NONE, <<w>>),
     MCInstruction(1, 2, Remote, <<w>>),
     MCInstruction(1, 0, Local, <<w>>)}
================================================================================
