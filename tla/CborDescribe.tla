---------------------------- MODULE CborDescribe ----------------------------
(***************************************************************************)
(* The pretty printer cbor_describe (_cbor_nested_describe): a recursive  *)
(* walk of an item that prints one marquee line per item, the payload     *)
(* line of a definite string and a label line per map entry, each child   *)
(* indented 4 columns deeper (map keys and values 8).  A printed line is   *)
(* a record: the item it is about, its indent, what it says (the type,    *)
(* definite or indefinite, or the ctrl meaning), the width it prints in   *)
(* bytes (0 where it prints none) and the number it prints (value,        *)
(* length, chunk count, size, entry index, tag value or ctrl value).      *)
(* The wording, float values and payload bytes are left out.  The walk    *)
(* touches reference counts once: a tag's child is fetched with           *)
(* cbor_tag_item, which increfs it, and handed over through cbor_move.    *)
(***************************************************************************)
EXTENDS CborTypes

Line(i, ind, kind, def, width, n) ==
    [at |-> i, ind |-> ind, kind |-> kind, def |-> def, width |-> width, n |-> n]

\* The loop of _pow: while (--ex > 0) res *= b.
RECURSIVE PowLoop(_, _, _)
PowLoop(res, b, ex) == IF ex - 1 > 0 THEN PowLoop(res * b, b, ex - 1) ELSE res

\* Mutant: the loop tests before decrementing, while (ex-- > 0).
PowPostDecrement(b, ex) == IF ex = 0 THEN 1 ELSE PowLoop(b, b, ex + 1)

\* _pow: b to the power ex; res starts at b, so ex = 0 is a special case.
Pow(b, ex) == IF ex = 0 THEN 1 ELSE PowLoop(b, b, ex)

\* cbor_int_get_width: the enum cbor_int_width, CBOR_INT_8 .. CBOR_INT_64,
\* of an integer that takes 1, 2, 4 or 8 bytes.
cbor_int_get_width(it) ==
    CASE it.size = 1 -> 0 [] it.size = 2 -> 1 [] it.size = 4 -> 2 [] OTHER -> 3

\* cbor_float_get_width: CBOR_FLOAT_0 .. CBOR_FLOAT_64 for 0, 2, 4, 8 bytes.
cbor_float_get_width(it) ==
    CASE it.size = 0 -> 0 [] it.size = 2 -> 1 [] it.size = 4 -> 2 [] OTHER -> 3

Definiteness(it) == IF it.indef THEN "Indefinite" ELSE "Definite"

\* The line of a ctrl value: bool, then undefined, then null, else the
\* bare simple value.
CtrlLine(i, it, ind) ==
    IF cbor_is_bool(it)
    THEN Line(i, ind, "Bool", "", 0, IF cbor_ctrl_value(it) = CtrlTrue THEN 1 ELSE 0)
    ELSE IF cbor_is_undef(it) THEN Line(i, ind, "Undefined", "", 0, 0)
    ELSE IF cbor_is_null(it) THEN Line(i, ind, "Null", "", 0, 0)
    ELSE Line(i, ind, "Simple value", "", 0, cbor_ctrl_value(it))

Printed(h, ls) == [h |-> h, lines |-> ls]

Prefixed(l, r) == Printed(r.h, <<l>> \o r.lines)

RECURSIVE NestedDescribe(_, _, _), DescribeEach(_, _, _), DescribeEntries(_, _, _, _)

\* The chunk loop of a string and the entry loop of an array: each child
\* at the given indent, in order.
DescribeEach(h, ks, ind) ==
    IF ks = << >> THEN Printed(h, << >>)
    ELSE LET a == NestedDescribe(h, Head(ks), ind)
             b == DescribeEach(a.h, Tail(ks), ind)
         IN  Printed(b.h, a.lines \o b.lines)

\* The pair loop of a map: the label of entry n, then the key, then the
\* value, both 8 columns deeper than the map.
DescribeEntries(h, ks, n, ind) ==
    IF ks = << >> THEN Printed(h, << >>)
    ELSE LET key  == NestedDescribe(h, ks[1], ind + 8)
             val  == NestedDescribe(key.h, ks[2], ind + 8)
             rest == DescribeEntries(val.h, Tail(Tail(ks)), n + 1, ind)
         IN  Printed(rest.h, <<Line(NULL, ind + 4, "Map entry", "", 0, n)>>
                             \o key.lines \o val.lines \o rest.lines)

\* Mutant: the tagged item is fetched with cbor_tag_item and not moved.
DescribeTagNoMove(h, i, ind) ==
    LET c == h[i].kids[1]
    IN  NestedDescribe(Incref(h, c), c, ind)

\* The tag branch: _cbor_nested_describe(cbor_move(cbor_tag_item(item))).
DescribeTag(h, i, ind) ==
    LET c == h[i].kids[1]
    IN  NestedDescribe(Move(Incref(h, c), c), c, ind)

\* _cbor_nested_describe: the lines printed for item i at indent ind and
\* the heap it leaves.
NestedDescribe(h, i, ind) ==
    LET it == h[i]
        Marquee(def, width, n) == Line(i, ind, cbor_typeof(it), def, width, n)
    IN
    CASE cbor_is_int(it) ->
           Printed(h, <<Marquee("", Pow(2, cbor_int_get_width(it)), it.val)>>)
      [] (cbor_isa_bytestring(it) \/ cbor_isa_string(it)) /\ it.indef ->
           Prefixed(Marquee("Indefinite", 0, Len(it.kids)),
                    DescribeEach(h, it.kids, ind + 4))
      [] cbor_isa_bytestring(it) \/ cbor_isa_string(it) ->
           Printed(h, <<Marquee("Definite", 0, it.val),
                        Line(i, ind + 4, "Data", "", 0, it.val)>>)
      [] cbor_isa_array(it) ->
           Prefixed(Marquee(Definiteness(it), 0, Len(it.kids)),
                    DescribeEach(h, it.kids, ind + 4))
      [] cbor_isa_map(it) ->
           Prefixed(Marquee(Definiteness(it), 0, Len(it.kids) \div 2),
                    DescribeEntries(h, it.kids, 0, ind))
      [] cbor_isa_tag(it) ->
           Prefixed(Marquee("", 0, it.val), DescribeTag(h, i, ind + 4))
      [] cbor_float_ctrl_is_ctrl(it) ->
           Printed(h, <<CtrlLine(i, it, ind)>>)
      [] OTHER ->
           Printed(h, <<Marquee("", Pow(2, cbor_float_get_width(it)), 0)>>)

\* cbor_describe: the walk from indent 0.
cbor_describe(h, i) == NestedDescribe(h, i, 0)
=============================================================================
