---------------------------- MODULE MC_CborSession ----------------------------
(***************************************************************************)
(* Model-checking instance of CborSession: every input of at most MaxLen  *)
(* bytes from Bytes is loaded (with no failure or a failing frame push),  *)
(* and the item it gives is copied at most MaxCalls times, allocations of *)
(* the copies failing or not, and released in any order.                  *)
(***************************************************************************)
EXTENDS CborSession, SequencesExt

MaxLen == 4

Bytes ==
    {  0,     \* 0x00 uint 0
      64,     \* 0x40 empty byte string
      95,     \* 0x5f indefinite byte string
     129,     \* 0x81 array of 1
     159,     \* 0x9f indefinite array
     191,     \* 0xbf indefinite map
     193,     \* 0xc1 tag 1
     249,     \* 0xf9 half-precision float
     255 }    \* 0xff break

MCInputs == BoundedSeq(Bytes, MaxLen)

MCAllocFaults == {"none", "frame"}

MCStale == {0}
=============================================================================
