------------------------------- MODULE MCTerminal -------------------------------
(* Values for TerminalUserInterface: clients c1, c2 and, where the limits    *)
(* are to be reached, c3.                                                    *)
EXTENDS TerminalUserInterface, TLC

CONSTANTS c1, c2, c3

\* Every kind of instruction, alone and with others before or behind it.
MCTextsAll == {<<"remote", "local">>, <<"invalid", "remote">>, <<"fatal">>}

\* One instruction that calls Request, from every client.
MCTextsRemote == {<<"remote">>}

MCSymmetry == Permutations(Client)
================================================================================
