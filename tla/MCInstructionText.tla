--------------------------- MODULE MCInstructionText ---------------------------
(* Values for the constants of InstructionText.                              *)
EXTENDS InstructionText

MCChar == {"[", "]", "(", ")", "nl", "num", "x"}

\* Plain, empty, every character that the code looks for, and a message that
\* quotes an instruction.
MCText ==
    { << >>, <<"x">>, <<"x", ")", "x">>, <<"(", "x">>, <<"[", "x">>, <<"]", "x">>,
      <<"x", "nl">>, <<"x", ")", "]", "[">>, <<"[", "num", "(", "x">>, <<"]", "[", "nl", "num">> }
================================================================================
