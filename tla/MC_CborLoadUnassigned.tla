----------------------- MODULE MC_CborLoadUnassigned -----------------------
(***************************************************************************)
(* Inputs of at most MaxLen bytes over simple values: an unassigned one   *)
(* in the initial byte (0xe0, simple value 0), one from a 1-byte argument *)
(* (0xf8 followed by 0xff), false and break.  The spec's table decodes    *)
(* the unassigned ones to plain simple values; cbor_load's callback table *)
(* has no callback for them.                                               *)
(***************************************************************************)
EXTENDS CborLoad, SequencesExt

MaxLen == 2

Bytes ==
    { 224,    \* 0xe0 simple value 0
      244,    \* 0xf4 false
      248,    \* 0xf8 simple value with a 1-byte argument
      255 }   \* 0xff break, and simple value 255 after 0xf8

MCInputs == BoundedSeq(Bytes, MaxLen)

MCAllocFaults == {"none"}

MCStale == {0}
=============================================================================
