------------------------------- MODULE MCJsonDump -------------------------------
(* Bytes at both ends of every range that decode or the escapes tell apart.  *)
EXTENDS JsonDump

MCByte == { 0, 8, 34, 92, 127, 128, 143, 144, 159, 160, 191, 192, 193, 194, 223, 224,
            225, 236, 237, 238, 239, 240, 241, 243, 244, 245, 255 }
================================================================================
