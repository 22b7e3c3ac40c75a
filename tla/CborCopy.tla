------------------------------ MODULE CborCopy ------------------------------
(***************************************************************************)
(* cbor_copy and cbor_copy_definite (cbor.c): deep copies of an item,     *)
(* preserving its indefinite-length structure or collapsing it.  A copy   *)
(* is one call, and one step: the recursive operators below give the set  *)
(* of its possible outcomes, one for each allocation that may return NULL *)
(* (when CanFail), each an outcome [h, res, crash]: the heap afterwards,  *)
(* the returned item (NULL on failure) and whether the call dereferenced  *)
(* a NULL pointer.                                                         *)
(***************************************************************************)
EXTENDS CborTypes, SequencesExt

CONSTANTS
    Sources,   \* heaps holding a source item at address 1 (and its children)
    CanFail,   \* may the allocator return NULL?
    MaxCalls,  \* bound on the number of copies
    ZeroNull,  \* does _cbor_malloc(0) return NULL (as C allows)?
    Debug      \* a DEBUG build, where CBOR_ASSERT checks its condition

VARIABLES
    heap,      \* the live items
    held,      \* the items the caller owns a reference to
    last,      \* the last call: [op, from, to], None after a release
    crashed,   \* "none", or how a call stopped the process: "null"
               \* (a NULL dereference) or "assert" (a failed CBOR_ASSERT)
    calls      \* copies made so far

vars == <<heap, held, last, crashed, calls>>

Out(h, r) == [h |-> h, res |-> r, crash |-> "none"]
Crash(h)  == [h |-> h, res |-> NULL, crash |-> "null"]
Abort(h)  == [h |-> h, res |-> NULL, crash |-> "assert"]

\* Go on from every outcome in S that did not crash.
Then(S, F(_)) == UNION {IF o.crash # "none" THEN {o} ELSE F(o) : o \in S}

\* CBOR_ASSERT(e): aborts on a false e in a DEBUG build, is empty otherwise.
CBOR_ASSERT(e) == ~Debug \/ e

\* A constructor: the new item, or NULL when an allocation fails (the
\* constructor frees what it had already allocated).
Build(h, rec) ==
    {Out(Allocate(h, rec), FreeAddr(h))} \cup (IF CanFail THEN {Out(h, NULL)} ELSE {})

\* Outcomes of a realloc that grows a container, and of a malloc of n
\* bytes: success or NULL.
Grows == IF CanFail THEN BOOLEAN ELSE {TRUE}
Mallocs(n) == IF n = 0 /\ ZeroNull THEN {FALSE} ELSE Grows

\* cbor_array_push / cbor_map_add: a definite container only takes what
\* was preallocated, an indefinite one grows.
Fits(h, r) ==
    IF h[r].indef THEN Grows
    ELSE {Len(h[r].kids) < (IF h[r].mt = 5 THEN 2 * h[r].size ELSE h[r].size)}

\* cbor_build_tag: a new tag that takes a reference to its child c.
BuildTag(h, v, c) ==
    Then(Build(h, NewRecord(6, FALSE, v, 0)),
         LAMBDA t : IF t.res = NULL THEN {t} ELSE {Out(AddKid(t.h, t.res, c), t.res)})

RECURSIVE Copy(_, _), CopyChunks(_, _, _, _), CopyEntries(_, _, _, _),
          CopyPairs(_, _, _, _)

\* _cbor_copy_int: cbor_build_uint8/16/32/64 by cbor_int_get_width, then
\* cbor_mark_negint is applied to the result unchecked.
CopyInt(h, i, negative) ==
    Then(Build(h, NewRecord(0, FALSE, h[i].val, h[i].size)),
         LAMBDA o : CASE ~negative    -> {o}
                      [] o.res = NULL -> {Crash(o.h)}
                      [] OTHER -> {Out([o.h EXCEPT ![o.res].mt = 1], o.res)})

\* Mutant: every major-7 item is copied with cbor_build_ctrl.
CopyFloatCtrlAsCtrl(h, i) == Build(h, NewRecord(7, FALSE, h[i].val, 0))

\* _cbor_copy_float_ctrl: by cbor_float_get_width, cbor_build_ctrl of the
\* simple value or cbor_build_float2/4/8 of the value.
CopyFloatCtrl(h, i) ==
    IF cbor_float_ctrl_is_ctrl(h[i])
    THEN Build(h, NewRecord(7, FALSE, cbor_ctrl_value(h[i]), 0))
    ELSE Build(h, NewRecord(7, FALSE, h[i].val, h[i].size))

\* Mutant: a failed chunk copy frees the partial copy and returns it.
CopyChunksReturnsFreed(h, i, r, k) ==
  IF k > Len(h[i].kids) THEN {Out(h, r)}
  ELSE Then(Copy(h, h[i].kids[k]),
         LAMBDA o :
           IF o.res = NULL THEN {Out(Decref(o.h, r), r)}
           ELSE UNION {IF ok THEN CopyChunks(Decref(AddKid(o.h, r, o.res), o.res),
                                             i, r, k + 1)
                       ELSE {Out(Decref(Decref(o.h, o.res), r), NULL)}
                       : ok \in Grows})

\* The chunk loop of an indefinite string: chunks k.. of i into r.
CopyChunks(h, i, r, k) ==
  IF k > Len(h[i].kids) THEN {Out(h, r)}
  ELSE Then(Copy(h, h[i].kids[k]),
         LAMBDA o :
           IF o.res = NULL THEN {Out(Decref(o.h, r), NULL)}
           ELSE UNION {IF ok THEN CopyChunks(Decref(AddKid(o.h, r, o.res), o.res),
                                             i, r, k + 1)
                       ELSE {Out(Decref(Decref(o.h, o.res), r), NULL)}
                       : ok \in Grows})

\* Mutant: the entry taken with cbor_array_get is not cbor_move'd.
CopyEntriesNoMove(h, i, r, k) ==
  IF k > Len(h[i].kids) THEN {Out(h, r)}
  ELSE LET e == h[i].kids[k]
       IN  Then(Copy(Incref(h, e), e),
             LAMBDA o :
               IF o.res = NULL THEN {Out(Decref(o.h, r), NULL)}
               ELSE UNION {IF ok THEN CopyEntries(Decref(AddKid(o.h, r, o.res), o.res),
                                                  i, r, k + 1)
                           ELSE {Out(Decref(Decref(o.h, o.res), r), NULL)}
                           : ok \in Fits(o.h, r)})

\* The entry loop of an array: cbor_array_get increfs, cbor_move decrefs.
CopyEntries(h, i, r, k) ==
  IF k > Len(h[i].kids) THEN {Out(h, r)}
  ELSE LET e == h[i].kids[k]
       IN  Then(Copy(Move(Incref(h, e), e), e),
             LAMBDA o :
               IF o.res = NULL THEN {Out(Decref(o.h, r), NULL)}
               ELSE UNION {IF ok THEN CopyEntries(Decref(AddKid(o.h, r, o.res), o.res),
                                                  i, r, k + 1)
                           ELSE {Out(Decref(Decref(o.h, o.res), r), NULL)}
                           : ok \in Fits(o.h, r)})

\* The pair loop of a map: pairs k.. of i into r.
CopyPairs(h, i, r, k) ==
  IF 2 * k > Len(h[i].kids) THEN {Out(h, r)}
  ELSE Then(Copy(h, h[i].kids[2 * k - 1]),
         LAMBDA ko :
           IF ko.res = NULL THEN {Out(Decref(ko.h, r), NULL)}
           ELSE Then(Copy(ko.h, h[i].kids[2 * k]),
             LAMBDA vo :
               IF vo.res = NULL THEN {Out(Decref(Decref(vo.h, r), ko.res), NULL)}
               ELSE UNION
                 {IF ok
                  THEN CopyPairs(Decref(Decref(AddKid(AddKid(vo.h, r, ko.res),
                                                      r, vo.res), ko.res), vo.res),
                                 i, r, k + 1)
                  ELSE {Out(Decref(Decref(Decref(vo.h, r), ko.res), vo.res), NULL)}
                  : ok \in Fits(vo.h, r)}))

\* Arrays and maps: a container of the same kind and declared size.
CopyArray(h, i) ==
    Then(Build(h, NewRecord(4, h[i].indef, 0, h[i].size)),
         LAMBDA o : IF o.res = NULL THEN {o} ELSE CopyEntries(o.h, i, o.res, 1))

CopyMap(h, i) ==
    Then(Build(h, NewRecord(5, h[i].indef, 0, h[i].size)),
         LAMBDA o : IF o.res = NULL THEN {o} ELSE CopyPairs(o.h, i, o.res, 1))

\* Mutant: the new tag takes the source's child instead of a copy.
CopyTagShallow(h, i) == BuildTag(h, h[i].val, h[i].kids[1])

\* A tag: the child is copied (taken with incref and cbor_move), then a
\* new tag takes the copy and the local reference is dropped.
CopyTag(h, i) ==
  LET c == h[i].kids[1]
  IN  Then(Copy(Move(Incref(h, c), c), c),
        LAMBDA o :
          IF o.res = NULL THEN {o}
          ELSE Then(BuildTag(o.h, h[i].val, o.res),
                    LAMBDA t : {Out(Decref(t.h, o.res), t.res)}))

\* cbor_copy.
Copy(h, i) ==
  LET it == h[i]
  IN  CASE cbor_isa_uint(it)   -> CopyInt(h, i, FALSE)
        [] cbor_isa_negint(it) -> CopyInt(h, i, TRUE)
        [] (cbor_isa_bytestring(it) \/ cbor_isa_string(it)) /\ ~it.indef ->
              Build(h, NewRecord(it.mt, FALSE, it.val, 0))
        [] cbor_isa_bytestring(it) \/ cbor_isa_string(it) ->
              Then(Build(h, NewRecord(it.mt, TRUE, 0, 0)),
                   LAMBDA o : IF o.res = NULL THEN {o} ELSE CopyChunks(o.h, i, o.res, 1))
        [] cbor_isa_array(it)  -> CopyArray(h, i)
        [] cbor_isa_map(it)    -> CopyMap(h, i)
        [] cbor_isa_tag(it)    -> CopyTag(h, i)
        [] cbor_isa_float_ctrl(it) -> CopyFloatCtrl(h, i)

RECURSIVE CopyDefinite(_, _), CopyDefiniteEntries(_, _, _, _),
          CopyDefinitePairs(_, _, _, _)

\* Mutant: the length loop assigns instead of adding (total = last chunk).
CopyDefiniteStringLastChunk(h, i) ==
  LET total == FoldLeft(LAMBDA acc, k : h[k].val, 0, h[i].kids)
  IN  UNION {IF ~ok THEN {Out(h, NULL)}
             ELSE Then(Build(h, NewRecord(h[i].mt, FALSE, 0, 0)),
                    LAMBDA o : IF o.res = NULL THEN {Crash(o.h)}
                               ELSE {Out([o.h EXCEPT ![o.res].val = total], o.res)})
             : ok \in Mallocs(total)}

\* cbor_copy_definite of an indefinite string: the chunk lengths are
\* summed, one buffer is malloc'd, then a new definite string is created
\* and given the buffer without a check of the new item for NULL.
CopyDefiniteString(h, i) ==
  LET total == FoldLeft(LAMBDA acc, k : acc + h[k].val, 0, h[i].kids)
  IN  UNION {IF ~ok THEN {Out(h, NULL)}
             ELSE Then(Build(h, NewRecord(h[i].mt, FALSE, 0, 0)),
                    LAMBDA o : IF o.res = NULL THEN {Crash(o.h)}
                               ELSE {Out([o.h EXCEPT ![o.res].val = total], o.res)})
             : ok \in Mallocs(total)}

\* Entries k.. of i into the definite array r; the push is asserted to
\* succeed, and with assertions compiled out a failed push drops the copy.
CopyDefiniteEntries(h, i, r, k) ==
  IF k > Len(h[i].kids) THEN {Out(h, r)}
  ELSE Then(CopyDefinite(h, h[i].kids[k]),
         LAMBDA o :
           IF o.res = NULL THEN {Out(Decref(o.h, r), NULL)}
           ELSE LET pushed == TRUE \in Fits(o.h, r)
                    h2 == IF pushed THEN AddKid(o.h, r, o.res) ELSE o.h
                IN  IF ~CBOR_ASSERT(pushed) THEN {Abort(h2)}
                    ELSE CopyDefiniteEntries(Decref(h2, o.res), i, r, k + 1))

\* Pairs k.. of i into the definite map r (cbor_map_add asserted).
CopyDefinitePairs(h, i, r, k) ==
  IF 2 * k > Len(h[i].kids) THEN {Out(h, r)}
  ELSE Then(CopyDefinite(h, h[i].kids[2 * k - 1]),
         LAMBDA ko :
           IF ko.res = NULL THEN {Out(Decref(ko.h, r), NULL)}
           ELSE Then(CopyDefinite(ko.h, h[i].kids[2 * k]),
             LAMBDA vo :
               IF vo.res = NULL THEN {Out(Decref(Decref(vo.h, r), ko.res), NULL)}
               ELSE LET pushed == TRUE \in Fits(vo.h, r)
                        h2 == IF pushed
                              THEN AddKid(AddKid(vo.h, r, ko.res), r, vo.res)
                              ELSE vo.h
                    IN  IF ~CBOR_ASSERT(pushed) THEN {Abort(h2)}
                        ELSE CopyDefinitePairs(Decref(Decref(h2, ko.res), vo.res),
                                               i, r, k + 1)))

\* Mutant: the new array has the source's allocated size, which is 0 for
\* an indefinite array, instead of its current one.
CopyDefiniteArrayDeclaredSize(h, i) ==
    Then(Build(h, NewRecord(4, FALSE, 0, h[i].size)),
         LAMBDA o : IF o.res = NULL THEN {o}
                    ELSE CopyDefiniteEntries(o.h, i, o.res, 1))

\* Arrays and maps become definite, of the size the source has now.
CopyDefiniteArray(h, i) ==
    Then(Build(h, NewRecord(4, FALSE, 0, Len(h[i].kids))),
         LAMBDA o : IF o.res = NULL THEN {o}
                    ELSE CopyDefiniteEntries(o.h, i, o.res, 1))

CopyDefiniteMap(h, i) ==
    Then(Build(h, NewRecord(5, FALSE, 0, Len(h[i].kids) \div 2)),
         LAMBDA o : IF o.res = NULL THEN {o}
                    ELSE CopyDefinitePairs(o.h, i, o.res, 1))

CopyDefiniteTag(h, i) ==
  LET c == h[i].kids[1]
  IN  Then(CopyDefinite(Move(Incref(h, c), c), c),
        LAMBDA o :
          IF o.res = NULL THEN {o}
          ELSE Then(BuildTag(o.h, h[i].val, o.res),
                    LAMBDA t : {Out(Decref(t.h, o.res), t.res)}))

\* cbor_copy_definite.
CopyDefinite(h, i) ==
  LET it == h[i]
  IN  CASE (cbor_isa_bytestring(it) \/ cbor_isa_string(it)) /\ it.indef ->
              CopyDefiniteString(h, i)
        [] cbor_isa_array(it) -> CopyDefiniteArray(h, i)
        [] cbor_isa_map(it)   -> CopyDefiniteMap(h, i)
        [] cbor_isa_tag(it)   -> CopyDefiniteTag(h, i)
        [] OTHER              -> Copy(h, i)

-----------------------------------------------------------------------------
(* The caller: it owns a reference to each item of held, copies one of   *)
(* them (at most MaxCalls times) or drops one with cbor_decref.          *)

None == [op |-> "none"]

Init ==
    /\ heap \in Sources
    /\ held = {1}
    /\ last = None
    /\ crashed = "none"
    /\ calls = 0

\* cbor_copy or cbor_copy_definite of the held item i.
Call(name, i, Outcomes(_, _)) ==
    /\ crashed = "none"
    /\ calls < MaxCalls
    /\ \E o \in Outcomes(heap, i) :
          /\ heap' = o.h
          /\ crashed' = o.crash
          /\ held' = IF o.res = NULL THEN held ELSE held \cup {o.res}
          /\ last' = [op |-> name, from |-> i, to |-> o.res]
    /\ calls' = calls + 1

CallCopy(i) == Call("copy", i, Copy)
CallCopyDefinite(i) == Call("copy_definite", i, CopyDefinite)

\* The caller drops its reference to i.
Release(i) ==
    /\ crashed = "none"
    /\ heap' = Decref(heap, i)
    /\ held' = held \ {i}
    /\ last' = None
    /\ UNCHANGED <<crashed, calls>>

Next ==
    \E i \in held : CallCopy(i) \/ CallCopyDefinite(i) \/ Release(i)

Spec == Init /\ [][Next]_vars

-----------------------------------------------------------------------------
(* Properties *)

TypeOK ==
    /\ held \subseteq DOMAIN heap
    /\ last \in {None} \cup [op : {"copy", "copy_definite"},
                              from : DOMAIN heap, to : DOMAIN heap \cup {NULL}]
    /\ crashed \in {"none", "null", "assert"}
    /\ calls \in 0..MaxCalls
    /\ \A a \in DOMAIN heap :
          /\ heap[a].rc \in Nat \ {0}
          /\ heap[a].kids \in Seq(DOMAIN heap)

\* The value of an indefinite item once its strings are joined and its
\* containers made definite (spec section 4.5, copy_definite).
RECURSIVE DefiniteForm(_)
DefiniteForm(t) ==
    IF t.mt \in {2, 3} /\ t.indef
    THEN [t EXCEPT !.indef = FALSE, !.kids = << >>,
                   !.val = FoldLeft(LAMBDA acc, k : acc + k.val, 0, t.kids)]
    ELSE [t EXCEPT !.indef = FALSE,
                   !.kids = [k \in DOMAIN t.kids |-> DefiniteForm(t.kids[k])]]

\* Unless a call crashed, every live item's reference count is its number
\* of owners: the containers holding it and the caller.  So no failure
\* part-way through a copy leaks the partial copy, the incref/cbor_move
\* pairs on the source cancel out, and once the caller has dropped all
\* its references nothing is left allocated.
RefcountsExact ==
    crashed = "none" =>
        \A a \in DOMAIN heap :
            cbor_refcount(heap, a) = HeapRefs(heap, a) + (IF a \in held THEN 1 ELSE 0)

\* A copy that is returned denotes the source's value: cbor_copy with
\* its definite/indefinite structure (chunks, sizes, tags, negative ints),
\* cbor_copy_definite with strings joined and everything definite.
CopyFaithful ==
    (last # None /\ last.to # NULL) =>
        Tree(heap, last.to) = IF last.op = "copy" THEN Tree(heap, last.from)
                              ELSE DefiniteForm(Tree(heap, last.from))

\* The copy is deep: it shares no item with the source, so releasing or
\* changing one never touches the other.
CopyIsDeep ==
    (last # None /\ last.to # NULL) =>
        Reachable(heap, {last.to}) \cap Reachable(heap, {last.from}) = {}

\* Spec sections 4.5 and 7: a copy reports an allocation failure by
\* returning NULL and never crashes; no call dereferences a NULL pointer.
NoNullDereference == crashed # "null"

\* Spec sections 4.5 and 8: copy_definite(I) of every item is a definite
\* item equal to I by value; a copy reports NULL only when the allocator
\* is out of memory.  With an allocator that has memory, no call returns
\* NULL.  cbor_copy_definite of an indefinite string whose chunks hold no
\* bytes calls _cbor_malloc(0) and returns NULL when that gives NULL.
CopyFailsOnlyWithoutMemory ==
    (~CanFail /\ last # None) => last.to # NULL

\* cbor_copy_definite preallocates each definite array and map with the
\* source's current number of entries and pushes every copied entry into
\* it under CBOR_ASSERT ("Cannot fail since we have a definite array
\* preallocated"): in a DEBUG build no copy ever aborts on that assert.
AssertionsHold == crashed # "assert"
=============================================================================
