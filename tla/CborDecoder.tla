---------------------------- MODULE CborDecoder ----------------------------
(***************************************************************************)
(* The streaming decoder cbor_stream_decode and the byte loaders (spec     *)
(* sections 4.1 and 4.2; their source, streaming.c and loaders.c, is not   *)
(* part of the files under src/).  DecodeOne reads one data item header    *)
(* from the bytes of src after offset p and says which callback it fires.  *)
(* The event abstracts the callback: its major type, whether the header    *)
(* was the indefinite marker (AI = 31), the argument, and a width in      *)
(* bytes: for an integer the callback's uint8/16/32/64 (1 also for AI <   *)
(* 24), for major type 7 the float's 2, 4 or 8 and 0 for a simple value,   *)
(* which fires the ctrl callbacks.  A break is the event of major type 7   *)
(* with the indefinite marker.                                             *)
(***************************************************************************)
EXTENDS Integers, Sequences

\* Big-endian value of the n bytes of s that follow offset i (loaders.c).
RECURSIVE BigEndian(_, _, _)
BigEndian(s, i, n) ==
    IF n = 0 THEN 0 ELSE BigEndian(s, i, n - 1) * 256 + s[i + n]

NeedData  == [status |-> "nedata"]
Malformed == [status |-> "error"]

\* One call of cbor_stream_decode on the bytes of src after offset p
\* (Len(src) > p).  The order of the checks is the decoder's: reserved
\* AI, then AI 31 where the major type forbids it, then truncation of
\* the argument, then the simple-value range, then the string payload.
DecodeOne(src, p) ==
    LET avail == Len(src) - p
        ib    == src[p + 1]
        mt    == ib \div 32
        ai    == ib % 32
        extra == IF ai \in 24..27 THEN 2 ^ (ai - 24) ELSE 0
        hdr   == 1 + extra
        arg   == IF ai < 24 THEN ai ELSE BigEndian(src, p + 1, extra)
        isStr == mt \in {2, 3} /\ ai # 31
    IN  IF ai \in 28..30 \/ (ai = 31 /\ mt \in {0, 1, 6}) THEN Malformed
        ELSE IF avail < hdr THEN NeedData
        ELSE IF mt = 7 /\ ai = 24 /\ arg < 32 THEN Malformed
        ELSE IF isStr /\ avail < hdr + arg THEN NeedData
        ELSE [status |-> "finished",
              read   |-> hdr + (IF isStr THEN arg ELSE 0),
              ev     |-> [mt    |-> mt,
                          indef |-> ai = 31,
                          arg   |-> IF ai = 31 THEN 0 ELSE arg,
                          width |-> CASE mt \in {0, 1}          -> IF ai < 24 THEN 1 ELSE extra
                                      [] mt = 7 /\ ai \in 25..27 -> extra
                                      [] OTHER                   -> 0]]

IsBreak(ev) == ev.mt = 7 /\ ev.indef
=============================================================================
