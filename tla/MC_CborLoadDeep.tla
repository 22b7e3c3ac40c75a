-------------------------- MODULE MC_CborLoadDeep --------------------------
(***************************************************************************)
(* A larger instance of CborLoad: inputs of up to five bytes over the     *)
(* headers that open frames (indefinite byte string, arrays of 1,         *)
(* indefinite array and map, tag), a leaf, a string with its payload byte *)
(* and the break.  Five bytes nest four frames, close a map's value       *)
(* container and then the map (bf 00 81 00 ff), or put a chunk after a    *)
(* nested cascade; every allocation failure kind is tried.                *)
(***************************************************************************)
EXTENDS CborLoad, SequencesExt

\* The longest input.
MaxLen == 5

Bytes ==
    {  0,     \* 0x00 uint 0
      65,     \* 0x41 byte string of length 1
      95,     \* 0x5f indefinite byte string
     129,     \* 0x81 array of 1
     159,     \* 0x9f indefinite array
     191,     \* 0xbf indefinite map
     193,     \* 0xc1 tag 1
     255 }    \* 0xff break

MCInputs == BoundedSeq(Bytes, MaxLen)

MCAllocFaults == {"none", "item", "frame", "grow"}

MCStale == {0}
=============================================================================
