---------------------------- MODULE MC_CborLoad ----------------------------
(***************************************************************************)
(* Model-checking instance of CborLoad: every input of at most MaxLen     *)
(* bytes drawn from Bytes, one initial byte per path of the decoder and   *)
(* the builder: a leaf, each kind of string and container header,         *)
(* definite and indefinite, the empty array, a reserved AI, a half float  *)
(* (a 2-byte argument, cut off or complete) and the break.  Four bytes nest *)
(* three frames, or a container and a chunk, pair or child and its break. *)
(***************************************************************************)
EXTENDS CborLoad, SequencesExt

MaxLen == 4

Bytes ==
    {  0,     \* 0x00 uint 0
      28,     \* 0x1c reserved AI
      65,     \* 0x41 byte string of length 1
      95,     \* 0x5f indefinite byte string
      97,     \* 0x61 text string of length 1
     128,     \* 0x80 empty array
     129,     \* 0x81 array of 1
     159,     \* 0x9f indefinite array
     161,     \* 0xa1 map of 1 pair
     191,     \* 0xbf indefinite map
     193,     \* 0xc1 tag 1
     249,     \* 0xf9 half float, a 2-byte argument
     255 }    \* 0xff break

MCInputs == BoundedSeq(Bytes, MaxLen)

MCAllocFaults == {"none", "item", "frame", "grow"}

\* A zeroed struct cbor_load_result, and one holding a position past
\* every input.
MCStale == {0, 9}
=============================================================================
