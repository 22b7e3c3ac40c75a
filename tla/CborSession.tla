----------------------------- MODULE CborSession -----------------------------
(***************************************************************************)
(* A program using the library: cbor_load of an input, then, when it      *)
(* returns an item, the caller owns it and copies (cbor_copy,             *)
(* cbor_copy_definite) and releases (cbor_decref) the items it holds in   *)
(* any order.  The two components share the item heap; each step is a    *)
(* step of one of them and leaves the other's variables alone.  The      *)
(* caller may also print a held item with cbor_describe at any time.      *)
(***************************************************************************)
CONSTANTS Inputs, AllocFaults, Stale, CanFail, MaxCalls, ZeroNull, Debug

VARIABLES
    source, pc, read, heap, stack, root, creation_failed, syntax_error,
    err, errpos, ret,            \* cbor_load (CborLoad)
    held, last, crashed, calls,  \* the caller's copies (CborCopy)
    owned,                       \* the caller has taken the loaded item
    printed                      \* the lines of the last cbor_describe

L == INSTANCE CborLoad
C == INSTANCE CborCopy WITH Sources <- {}
D == INSTANCE CborDescribe
LOCAL INSTANCE SequencesExt

loadVars == <<source, pc, read, stack, root, creation_failed, syntax_error,
              err, errpos, ret>>
copyVars == <<held, last, crashed, calls>>
vars == <<loadVars, heap, copyVars, owned, printed>>

Init ==
    /\ L!Init
    /\ held = {}
    /\ last = C!None
    /\ crashed = "none"
    /\ calls = 0
    /\ owned = FALSE
    /\ printed = << >>

\* A step of cbor_load.
Load == L!Next /\ UNCHANGED <<copyVars, owned, printed>>

\* cbor_load has returned an item: the caller now owns its reference.
Take ==
    /\ pc = "done" /\ ret # L!NULL /\ ~owned
    /\ held' = {ret}
    /\ owned' = TRUE
    /\ UNCHANGED <<loadVars, heap, last, crashed, calls, printed>>

\* The caller copies or releases one of its items.
Use == owned /\ C!Next /\ UNCHANGED <<loadVars, owned, printed>>

\* The caller prints item i with cbor_describe.
Describe(i) ==
    /\ owned /\ crashed = "none"
    /\ heap' = D!cbor_describe(heap, i).h
    /\ printed' = D!cbor_describe(heap, i).lines
    /\ UNCHANGED <<loadVars, copyVars, owned>>

Next == Load \/ Take \/ Use \/ \E i \in held : Describe(i)

Spec == Init /\ [][Next]_vars

-----------------------------------------------------------------------------
(* Properties *)

\* Spec section 8 (a counting allocator reports zero net allocations after
\* the root's decref): whatever cbor_load returned and however the caller
\* copied, once it has dropped every reference it held nothing of the
\* load, of its error clean-up or of any copy is still allocated.
NothingLeftAfterRelease ==
    (/\ pc = "done" /\ crashed = "none" /\ held = {}
     /\ (owned \/ ret = L!NULL))
        => DOMAIN heap = {}

\* Copies of loaded items are faithful: equal to their source, or to its
\* definite form, floats and integers keeping their width.
LoadedCopiesFaithful == C!CopyFaithful

\* The items reachable from i in pre-order: i, then each child's in order.
RECURSIVE PreorderFrom(_, _)
PreorderFrom(h, i) ==
    <<i>> \o FlattenSeq([k \in DOMAIN h[i].kids |-> PreorderFrom(h, h[i].kids[k])])

\* The width in bytes an item's encoding gives its argument: integers
\* and floats; none for the other items and for simple values.
EncodedWidth(it) == IF it.mt \in {0, 1, 7} THEN it.size ELSE 0

\* cbor_describe prints one marquee line for every item of the graph,
\* shared ones once per occurrence, in pre-order (chunks, entries, keys
\* before their values, a tag's item), and the "Width: %dB" it prints,
\* computed through _pow from the width enum, is the item's width in
\* bytes.
DescribeShowsEveryItem ==
    \A i \in held :
        LET marquees == SelectSeq(D!cbor_describe(heap, i).lines,
                                  LAMBDA l : l.kind \notin {"Data", "Map entry"})
            order    == PreorderFrom(heap, i)
        IN  /\ Len(marquees) = Len(order)
            /\ \A k \in DOMAIN order :
                  /\ marquees[k].at = order[k]
                  /\ marquees[k].width = EncodedWidth(heap[order[k]])

\* cbor_describe only reads the item: the reference cbor_tag_item takes
\* on a tag's child is given back with cbor_move, so no step of the
\* printer changes a reference count or frees anything.
DescribeLeavesHeap ==
    [][\A i \in held : Describe(i) => heap' = heap]_vars
=============================================================================
