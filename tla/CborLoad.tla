------------------------------ MODULE CborLoad ------------------------------
(***************************************************************************)
(* cbor_load (cbor.c): the driver loop that calls the decoder on the rest *)
(* of the input with the builder callbacks until the stack of unfinished  *)
(* containers is empty, and on an error frees what the stack holds.       *)
(* One step is one iteration of the loop (a decode and the callback it    *)
(* fires) or one iteration of the clean-up loop.                           *)
(***************************************************************************)
EXTENDS CborBuilder, CborGrammar, CborTypes

CONSTANTS
    Inputs,       \* the byte sequences cbor_load is called on
    AllocFaults,  \* the allocations that may return NULL in one callback
    Stale         \* what result->read and error.position may hold before
                  \* the call (the caller's struct is not initialised)

VARIABLES
    source,           \* the input bytes
    pc,               \* "call", "loop", "error" (clean-up) or "done"
    read,             \* result->read
    heap,             \* the live items
    stack,            \* context.stack: frames [item, sub], top last
    root,             \* context.root
    creation_failed,  \* context.creation_failed
    syntax_error,     \* context.syntax_error
    err,              \* result->error.code
    errpos,           \* result->error.position
    ret               \* the returned item, NULL on error

vars == <<source, pc, read, heap, stack, root, creation_failed,
          syntax_error, err, errpos, ret>>

ctx == [heap |-> heap, stack |-> stack, root |-> root,
        cf |-> creation_failed, se |-> syntax_error]

Init ==
    /\ source \in Inputs
    /\ pc = "call"
    /\ read \in Stale
    /\ heap = [a \in {} |-> NewRecord(0, FALSE, 0, 0)]
    /\ stack = << >>
    /\ root = NULL
    /\ creation_failed = FALSE
    /\ syntax_error = FALSE
    /\ err = "NONE"
    /\ errpos \in Stale
    /\ ret = NULL

\* Empty input: CBOR_ERR_NODATA, nothing else of *result is written.
LoadNoData ==
    /\ pc = "call"
    /\ Len(source) = 0
    /\ pc' = "done"
    /\ err' = "NODATA"
    /\ UNCHANGED <<source, read, heap, stack, root, creation_failed,
                   syntax_error, errpos, ret>>

\* The stack and context are set up and *result is reset to
\* {.read = 0, .error = {.code = CBOR_ERR_NONE}} (position 0).
LoadBegin ==
    /\ pc = "call"
    /\ Len(source) > 0
    /\ pc' = "loop"
    /\ read' = 0
    /\ err' = "NONE"
    /\ errpos' = 0
    /\ UNCHANGED <<source, heap, stack, root, creation_failed, syntax_error,
                   ret>>

\* goto error: the position is the bytes read so far.
Raise(code, pos) ==
    /\ pc' = "error"
    /\ err' = code
    /\ errpos' = pos
    /\ UNCHANGED ret

\* cbor_stream_decode called with cbor_load's callback table: an item
\* the table has no callback for is reported as CBOR_DECODER_ERROR.
Decode(src, p) ==
    LET r == DecodeOne(src, p)
    IN  IF r.status = "finished" /\ ~HasCallback(r.ev) THEN Malformed ELSE r

\* The decoder finished a header and fired a callback; the loop goes on
\* while the stack is not empty.
DecodeFinished(fail) ==
    /\ pc = "loop"
    /\ Len(source) > read
    /\ LET r == Decode(source, read)
           c == Callback(ctx, r.ev, fail)
           n == read + r.read
       IN  /\ r.status = "finished"
           /\ read' = n
           /\ heap' = c.heap
           /\ stack' = c.stack
           /\ root' = c.root
           /\ creation_failed' = c.cf
           /\ syntax_error' = c.se
           /\ CASE c.cf -> Raise("MEMERROR", n)
                [] c.se -> Raise("SYNTAXERROR", n)
                [] c.stack # << >> -> UNCHANGED <<pc, err, errpos, ret>>
                [] OTHER -> /\ pc' = "done"
                            /\ ret' = c.root
                            /\ UNCHANGED <<err, errpos>>
    /\ UNCHANGED source

\* CBOR_DECODER_NEDATA: the header or payload is cut off.
DecodeNeedData ==
    /\ pc = "loop"
    /\ Len(source) > read
    /\ Decode(source, read).status = "nedata"
    /\ Raise("NOTENOUGHDATA", read)
    /\ UNCHANGED <<source, read, heap, stack, root, creation_failed, syntax_error>>

\* CBOR_DECODER_ERROR: a reserved or malformed header.
DecodeMalformed ==
    /\ pc = "loop"
    /\ Len(source) > read
    /\ Decode(source, read).status = "error"
    /\ Raise("MALFORMATED", read)
    /\ UNCHANGED <<source, read, heap, stack, root, creation_failed, syntax_error>>

\* Mutant: the overflow check is off by one and never fires at the end.
OutOfDataPastEnd ==
    /\ pc = "loop"
    /\ Len(source) < read
    /\ Raise("NOTENOUGHDATA", read)
    /\ UNCHANGED <<source, read, heap, stack, root, creation_failed, syntax_error>>

\* The input ends while containers are still open.
OutOfData ==
    /\ pc = "loop"
    /\ ~(Len(source) > read)
    /\ Raise("NOTENOUGHDATA", read)
    /\ UNCHANGED <<source, read, heap, stack, root, creation_failed, syntax_error>>

\* Mutant: the clean-up loop decrefs the top item but never pops it.
FreeStackTopNoPop ==
    /\ pc = "error"
    /\ stack # << >>
    /\ heap' = Decref(heap, stack[Len(stack)].item)
    /\ UNCHANGED <<source, pc, read, stack, root, creation_failed,
                   syntax_error, err, errpos, ret>>

\* One iteration of the clean-up loop: decref the top item, pop the frame.
FreeStackTop ==
    /\ pc = "error"
    /\ stack # << >>
    /\ heap' = Decref(heap, stack[Len(stack)].item)
    /\ stack' = SubSeq(stack, 1, Len(stack) - 1)
    /\ UNCHANGED <<source, pc, read, root, creation_failed, syntax_error,
                   err, errpos, ret>>

\* Mutant: the clean-up runs once (an if instead of a while) and returns.
ReturnNullEarly ==
    /\ pc = "error"
    /\ pc' = "done"
    /\ ret' = NULL
    /\ UNCHANGED <<source, read, heap, stack, root, creation_failed,
                   syntax_error, err, errpos>>

\* The stack is empty: return NULL.
ReturnNull ==
    /\ pc = "error"
    /\ stack = << >>
    /\ pc' = "done"
    /\ ret' = NULL
    /\ UNCHANGED <<source, read, heap, stack, root, creation_failed,
                   syntax_error, err, errpos>>

Next ==
    \/ LoadNoData
    \/ LoadBegin
    \/ \E fail \in AllocFaults : DecodeFinished(fail)
    \/ DecodeNeedData
    \/ DecodeMalformed
    \/ OutOfData
    \/ FreeStackTop
    \/ ReturnNull

\* cbor_load runs to completion on the caller's thread (spec section 5):
\* while it has a step to take, it takes one.
Spec == Init /\ [][Next]_vars /\ WF_vars(Next)

-----------------------------------------------------------------------------
(* Properties *)

Codes == {"NONE", "NODATA", "NOTENOUGHDATA", "MALFORMATED", "MEMERROR",
          "SYNTAXERROR"}

TypeOK ==
    /\ pc \in {"call", "loop", "error", "done"}
    /\ read \in 0..Len(source) \cup Stale
    /\ stack \in Seq([item : DOMAIN heap, sub : Nat])
    /\ root \in DOMAIN heap \cup {NULL}
    /\ creation_failed \in BOOLEAN /\ syntax_error \in BOOLEAN
    /\ err \in Codes
    /\ errpos \in 0..Len(source) \cup Stale
    /\ ret \in DOMAIN heap \cup {NULL}

\* The owners of an item: the containers holding it, the stack frames
\* holding it and the context's root.
Owners(i) ==
    HeapRefs(heap, i)
    + Cardinality({k \in DOMAIN stack : stack[k].item = i})
    + (IF root = i THEN 1 ELSE 0)

\* Every reference the builder and cbor_load hold points to a live item,
\* and every live item's reference count is exactly its number of owners:
\* no callback, cascade of completed frames or clean-up step drops or
\* keeps a reference it should not (which would be a leak, a double free
\* or a use after free).
RefcountsExact ==
    /\ \A i \in DOMAIN heap :
         /\ cbor_refcount(heap, i) = Owners(i)
         /\ \A k \in DOMAIN heap[i].kids : heap[i].kids[k] \in DOMAIN heap

\* When cbor_load returns, the live items are exactly those of the
\* returned tree: after an error (the clean-up walks the stack) nothing
\* at all is left allocated.
NoLeakOnReturn ==
    pc = "done" =>
        DOMAIN heap = Reachable(heap, IF ret = NULL THEN {} ELSE {ret})

\* The outcome of the call as the caller sees it.  cbor_load writes no
\* position for empty input; ErrorPositionInInput is about that case.
Outcome ==
    CASE err = "NONE"   -> Ok(Tree(heap, ret), read)
      [] err = "NODATA" -> Err(err, 0)
      [] OTHER          -> Err(err, errpos)

\* The stack machine implements the recursive grammar: cbor_load returns
\* the reference outcome, or a memory error.
Abstract == INSTANCE CborLoadAbstract
                WITH input <- source,
                     outcome <- IF pc = "done" THEN Outcome ELSE Pending

LoadImplementsGrammar == Abstract!Spec
\* Spec sections 6 and 8 (scenario 9, "ff" alone gives SyntaxError at
\* position 0): a syntax error is reported at the offset of the header
\* that caused it, which lies before the bytes cbor_load has consumed.
\* The code sets the position at the label error to result->read, which
\* already counts that header.
SyntaxErrorAtHeader ==
    (pc = "done" /\ err = "SYNTAXERROR") => errpos < read

\* Every loop iteration consumes a header or pops a frame, so cbor_load
\* returns on every input: the decode loop stops at the end of the input
\* (the check of source_size against result->read) and the clean-up loop
\* empties the stack.
LoadTerminates == <>(pc = "done")

\* Spec section 6: every error comes with its position, an offset into
\* the input.  For empty input cbor_load returns CBOR_ERR_NODATA without
\* writing error.position (or read), which keep what the caller's struct
\* held.
ErrorPositionInInput ==
    (pc = "done" /\ err # "NONE") => errpos \in 0..Len(source)
=============================================================================
