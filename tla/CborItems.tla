----------------------------- MODULE CborItems -----------------------------
(***************************************************************************)
(* The item model and its reference counting (spec section 3 and 4.5,     *)
(* cbor_incref / cbor_decref / cbor_move declared in common.h).  The heap  *)
(* is a function from the addresses of live items to their records; an   *)
(* address leaves the domain when the item is freed.  An item keeps its   *)
(* major type, the definite/indefinite flag, its argument (integer value, *)
(* tag value, string length or float bits; the payload bytes themselves   *)
(* are abstracted away), the declared size of a definite array or map    *)
(* (for an integer its width in bytes, for major type 7 the float width  *)
(* in bytes, 0 for a simple value),                                       *)
(* the reference count and the sequence of child addresses.  The children *)
(* of a map are its keys and values in encoded order, so a map in the     *)
(* middle of a pair has an odd number of children.                        *)
(***************************************************************************)
EXTENDS Integers, Sequences, FiniteSets, TLC

NULL == 0     \* no item; live items have addresses 1, 2, ...

\* A fresh item with reference count 1 and no children.
NewRecord(mt, indef, val, size) ==
    [mt |-> mt, indef |-> indef, val |-> val, size |-> size,
     rc |-> 1, kids |-> << >>]

\* The address the allocator hands out next: the lowest free one.
FreeAddr(h) == CHOOSE a \in 1..(Cardinality(DOMAIN h) + 1) : a \notin DOMAIN h

Allocate(h, rec) == h @@ (FreeAddr(h) :> rec)

\* cbor_incref: one more owner.
Incref(h, i) == [h EXCEPT ![i].rc = @ + 1]

\* cbor_move: one reference less, the item is not freed at zero.
Move(h, i) == [h EXCEPT ![i].rc = @ - 1]

\* cbor_refcount: the item's own count, not the references it holds.
cbor_refcount(h, i) == h[i].rc

\* Mutant: the item is freed without decref'ing its children.
DecrefNoChildren(h, i) ==
    IF h[i].rc > 1 THEN [h EXCEPT ![i].rc = @ - 1]
    ELSE [a \in DOMAIN h \ {i} |-> h[a]]

\* cbor_decref: one owner less; at zero the children are decref'd, each
\* once, and the item is freed.
RECURSIVE Decref(_, _), DecrefAll(_, _)
Decref(h, i) ==
    IF h[i].rc > 1 THEN [h EXCEPT ![i].rc = @ - 1]
    ELSE LET h2 == DecrefAll(h, h[i].kids)
         IN  [a \in DOMAIN h2 \ {i} |-> h2[a]]
DecrefAll(h, ks) ==
    IF ks = << >> THEN h ELSE DecrefAll(Decref(h, Head(ks)), Tail(ks))

\* Mutant: the container does not take its reference to the child.
AddKidNoIncref(h, p, c) == [h EXCEPT ![p].kids = Append(@, c)]

\* Attach child c to container p: the container takes a reference.
AddKid(h, p, c) ==
    [Incref(h, c) EXCEPT ![p].kids = Append(@, c)]

\* The value an item denotes, with its children unfolded.
RECURSIVE Tree(_, _)
Tree(h, i) ==
    [mt |-> h[i].mt, indef |-> h[i].indef, val |-> h[i].val,
     w |-> IF h[i].mt \in {0, 1, 7} THEN h[i].size ELSE 0,
     kids |-> [k \in DOMAIN h[i].kids |-> Tree(h, h[i].kids[k])]]

\* The addresses reachable from the set of roots rs.
RECURSIVE Reachable(_, _)
Reachable(h, rs) ==
    LET next == rs \cup UNION {{h[i].kids[k] : k \in DOMAIN h[i].kids}
                                : i \in rs \cap DOMAIN h}
    IN  IF next = rs THEN rs ELSE Reachable(h, next)

\* The number of references to item i held by items of the heap.
HeapRefs(h, i) ==
    Cardinality(UNION {{<<p, k>> : k \in {j \in DOMAIN h[p].kids :
                                            h[p].kids[j] = i}}
                       : p \in DOMAIN h})
=============================================================================
