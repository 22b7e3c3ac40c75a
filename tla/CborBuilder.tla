---------------------------- MODULE CborBuilder ----------------------------
(***************************************************************************)
(* The tree builder: the callbacks cbor_load hands to the decoder (spec    *)
(* section 4.3; builder_callbacks.c and stack.c are not among the files    *)
(* under src/).  Every callback maps the decoder context                   *)
(*     c = [heap, stack, root, cf, se]                                     *)
(* to its successor: the item heap, the stack of frames [item, sub] of     *)
(* unfinished containers (top = last), the root, and the sticky flags      *)
(* creation_failed (cf) and syntax_error (se).  For a definite array the  *)
(* frame counts the children still expected, for a definite map the half  *)
(* pairs still expected, for an indefinite map the parity of the pair     *)
(* (1 = a key waits for its value), for a tag the one child.              *)
(*                                                                         *)
(* fail names the allocation of the callback that returns NULL: "item"    *)
(* (the new item or its buffer), "frame" (the stack frame), "grow" (the   *)
(* realloc of an indefinite container taking a child) or "none".          *)
(***************************************************************************)
EXTENDS CborItems, CborDecoder

TopFrame(c) == c.stack[Len(c.stack)]
TopItem(c)  == c.heap[TopFrame(c).item]
PopFrame(c) == [c EXCEPT !.stack = SubSeq(@, 1, Len(@) - 1)]
Failed(c)   == [c EXCEPT !.cf = TRUE]

\* _cbor_builder_append: item it, owned by the builder, goes to the top
\* frame; a frame that thereby completes is popped and its container is
\* appended in turn, down the stack.
RECURSIVE BuilderAppend(_, _, _)
BuilderAppend(c, it, fail) ==
  IF c.stack = << >> THEN [c EXCEPT !.root = it]
  ELSE
  LET f == TopFrame(c)
      p == c.heap[f.item]
      \* the container increfs the child, the builder drops its reference
      adopted == [c EXCEPT !.heap = Decref(AddKid(@, f.item, it), it)]
      rejected == [c EXCEPT !.heap = Decref(@, it)]
      WithSub(c1, n) == [c1 EXCEPT !.stack[Len(c1.stack)].sub = n]
      \* a definite frame counts down and completes at zero
      CountDown(c1) ==
        IF f.sub = 1 THEN BuilderAppend(PopFrame(c1), f.item, fail)
        ELSE WithSub(c1, f.sub - 1)
      isKey == f.sub % 2 = 0
  IN CASE p.mt = 4 /\ ~p.indef -> CountDown(adopted)
       [] p.mt = 4 -> IF fail = "grow" THEN Failed(rejected) ELSE adopted
       [] p.mt = 5 /\ ~p.indef -> CountDown(adopted)
       [] p.mt = 5 -> IF fail = "grow" /\ isKey THEN Failed(rejected)
                      ELSE WithSub(adopted, 1 - f.sub)
       [] p.mt = 6 -> BuilderAppend(PopFrame(adopted), f.item, fail)
       [] OTHER    -> [rejected EXCEPT !.se = TRUE]

\* The container or tag item rec is created and pushed with counter sub.
Push(c, rec, sub, fail) ==
  LET i == FreeAddr(c.heap)
      c1 == [c EXCEPT !.heap = Allocate(@, rec)]
  IN  CASE fail = "item"  -> Failed(c)
        [] fail = "frame" -> Failed([c1 EXCEPT !.heap = Decref(@, i)])
        [] OTHER -> [c1 EXCEPT !.stack = Append(@, [item |-> i, sub |-> sub])]

\* uint8..64, negint8..64, float2/4/8, boolean, null, undefined callbacks.
LeafCallback(c, ev, fail) ==
  IF fail = "item" THEN Failed(c)
  ELSE BuilderAppend([c EXCEPT !.heap = Allocate(@, NewRecord(ev.mt, FALSE, ev.arg, ev.width))],
              FreeAddr(c.heap), fail)

\* byte_string / string: a definite chunk extends an indefinite string of
\* its own type on top of the stack, anything else is an ordinary item.
StringCallback(c, ev, fail) ==
  LET i == FreeAddr(c.heap)
      c1 == [c EXCEPT !.heap = Allocate(@, NewRecord(ev.mt, FALSE, ev.arg, 0))]
      chunk == c.stack # << >> /\ TopItem(c).mt = ev.mt /\ TopItem(c).indef
  IN  CASE fail = "item" -> Failed(c)
        [] chunk /\ fail = "grow" -> Failed([c1 EXCEPT !.heap = Decref(@, i)])
        [] chunk -> [c1 EXCEPT !.heap = Decref(AddKid(@, TopFrame(c).item, i), i)]
        [] OTHER -> BuilderAppend(c1, i, fail)

\* byte_string_start / string_start: no indefinite string inside another.
StringStartCallback(c, ev, fail) ==
  IF c.stack # << >> /\ TopItem(c).mt \in {2, 3} THEN [c EXCEPT !.se = TRUE]
  ELSE Push(c, NewRecord(ev.mt, TRUE, 0, 0), 0, fail)

\* array_start, indef_array_start, map_start, indef_map_start, tag.
\* An empty definite container is complete at once and is appended.
ContainerStartCallback(c, ev, fail) ==
  LET n == IF ev.mt = 5 THEN 2 * ev.arg ELSE ev.arg
      rec == NewRecord(ev.mt, ev.indef,
                       IF ev.mt = 6 THEN ev.arg ELSE 0,
                       IF ev.indef \/ ev.mt = 6 THEN 0 ELSE ev.arg)
  IN  CASE ev.mt = 6 -> Push(c, rec, 1, fail)
        [] ev.indef  -> Push(c, rec, 0, fail)
        [] n > 0     -> Push(c, rec, n, fail)
        [] fail = "item" -> Failed(c)
        [] OTHER -> BuilderAppend([c EXCEPT !.heap = Allocate(@, rec)],
                           FreeAddr(c.heap), fail)

\* Mutant: a break also closes an indefinite map between key and value.
BreakCallbackMidPair(c, fail) ==
  IF c.stack = << >> THEN [c EXCEPT !.se = TRUE]
  ELSE IF TopItem(c).indef
       THEN BuilderAppend(PopFrame(c), TopFrame(c).item, fail)
       ELSE [c EXCEPT !.se = TRUE]

\* indef_break: only an indefinite frame ends, and a map only between pairs.
BreakCallback(c, fail) ==
  IF c.stack = << >> THEN [c EXCEPT !.se = TRUE]
  ELSE IF TopItem(c).indef /\ (TopItem(c).mt # 5 \/ TopFrame(c).sub = 0)
       THEN BuilderAppend(PopFrame(c), TopFrame(c).item, fail)
       ELSE [c EXCEPT !.se = TRUE]

\* The callback table of cbor_load: which builder callback an event fires.
\* The callback table of cbor_load has a member for every event but a
\* simple value other than false, true, null and undefined: there is no
\* callback through which an unassigned simple value could be reported.
HasCallback(ev) ==
    ~(ev.mt = 7 /\ ~ev.indef /\ ev.width = 0 /\ ev.arg \notin 20..23)

Callback(c, ev, fail) ==
  CASE IsBreak(ev)                 -> BreakCallback(c, fail)
    [] ev.mt \in {2, 3} /\ ev.indef -> StringStartCallback(c, ev, fail)
    [] ev.mt \in {2, 3}            -> StringCallback(c, ev, fail)
    [] ev.mt \in {4, 5, 6}         -> ContainerStartCallback(c, ev, fail)
    [] OTHER                       -> LeafCallback(c, ev, fail)
=============================================================================
