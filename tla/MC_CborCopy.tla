---------------------------- MODULE MC_CborCopy ----------------------------
(***************************************************************************)
(* Model-checking instance of CborCopy: source items of every major type, *)
(* definite and indefinite, nested two deep, and an array holding one     *)
(* item twice (reference count 2).  The source is at address 1.           *)
(***************************************************************************)
EXTENDS CborCopy

\* an integer of width 1 (uint8), a simple value or a definite string
Leaf(mt, v) == NewRecord(mt, FALSE, v, IF mt \in {0, 1} THEN 1 ELSE 0)
Holding(rec, kids) == [rec EXCEPT !.kids = kids]

UintSrc   == 1 :> Leaf(0, 7)
NegintSrc == 1 :> Leaf(1, 7)
\* 39 01 f4: a negative integer of width 2
WideNegintSrc == 1 :> NewRecord(1, FALSE, 500, 2)
\* f9 3c 00 (half-precision 1.0)
FloatSrc  == 1 :> NewRecord(7, FALSE, 15360, 2)
\* f9 00 14: a half-precision float whose bits are those of false
CtrlBitsFloatSrc == 1 :> NewRecord(7, FALSE, 20, 2)
\* 5f 41 xx 42 xx xx ff
ChunkedBytesSrc ==
    (1 :> Holding(NewRecord(2, TRUE, 0, 0), <<2, 3>>))
    @@ (2 :> Leaf(2, 1)) @@ (3 :> Leaf(2, 2))
\* 7f ff
EmptyTextSrc == 1 :> NewRecord(3, TRUE, 0, 0)
\* an array of 2 whose two entries are the same item
SharedArraySrc ==
    (1 :> Holding(NewRecord(4, FALSE, 0, 2), <<2, 2>>))
    @@ (2 :> [Leaf(7, 20) EXCEPT !.rc = 2])
\* bf 61 xx c1 00 ff
IndefMapSrc ==
    (1 :> Holding(NewRecord(5, TRUE, 0, 0), <<2, 3>>))
    @@ (2 :> Leaf(3, 1))
    @@ (3 :> Holding(NewRecord(6, FALSE, 1, 0), <<4>>))
    @@ (4 :> Leaf(0, 0))
\* c1 9f 7f 61 xx ff ff
TaggedIndefSrc ==
    (1 :> Holding(NewRecord(6, FALSE, 1, 0), <<2>>))
    @@ (2 :> Holding(NewRecord(4, TRUE, 0, 0), <<3>>))
    @@ (3 :> Holding(NewRecord(3, TRUE, 0, 0), <<4>>))
    @@ (4 :> Leaf(3, 1))
\* a1 20 5f 41 xx ff
DefMapSrc ==
    (1 :> Holding(NewRecord(5, FALSE, 0, 1), <<2, 3>>))
    @@ (2 :> Leaf(1, 0))
    @@ (3 :> Holding(NewRecord(2, TRUE, 0, 0), <<4>>))
    @@ (4 :> Leaf(2, 1))

\* 9f 00 5f 41 xx ff 80 ff
IndefArraySrc ==
    (1 :> Holding(NewRecord(4, TRUE, 0, 0), <<2, 3, 5>>))
    @@ (2 :> Leaf(0, 0))
    @@ (3 :> Holding(NewRecord(2, TRUE, 0, 0), <<4>>))
    @@ (4 :> Leaf(2, 1))
    @@ (5 :> NewRecord(4, FALSE, 0, 0))
\* 82 a1 f4 00 c1 c1 01
NestedDefSrc ==
    (1 :> Holding(NewRecord(4, FALSE, 0, 2), <<2, 5>>))
    @@ (2 :> Holding(NewRecord(5, FALSE, 0, 1), <<3, 4>>))
    @@ (3 :> Leaf(7, 20))
    @@ (4 :> Leaf(0, 0))
    @@ (5 :> Holding(NewRecord(6, FALSE, 1, 0), <<6>>))
    @@ (6 :> Holding(NewRecord(6, FALSE, 1, 0), <<7>>))
    @@ (7 :> Leaf(0, 1))
\* 7f 61 xx 62 xx xx 60 ff
ChunkedTextSrc ==
    (1 :> Holding(NewRecord(3, TRUE, 0, 0), <<2, 3, 4>>))
    @@ (2 :> Leaf(3, 1)) @@ (3 :> Leaf(3, 2)) @@ (4 :> Leaf(3, 0))

MCSources == {UintSrc, NegintSrc, WideNegintSrc, FloatSrc, CtrlBitsFloatSrc, ChunkedBytesSrc, EmptyTextSrc,
              SharedArraySrc, IndefMapSrc, TaggedIndefSrc, DefMapSrc,
              IndefArraySrc, NestedDefSrc, ChunkedTextSrc}

\* The sources of the two NULL-dereference runs.
NegintSources  == {NegintSrc}
EmptyTextSources == {EmptyTextSrc}
ChunkedSources == {ChunkedBytesSrc}
=============================================================================
