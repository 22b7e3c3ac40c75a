---------------------------- MODULE CborGrammar ----------------------------
(***************************************************************************)
(* Reference definition of what cbor_load returns: a recursive-descent    *)
(* reading of RFC 8949 data items together with the builder's nesting     *)
(* rules of spec section 4.3, written without a stack.  RefLoad(s) is the *)
(* outcome of loading the bytes s: the error code and position, or the    *)
(* tree of the first data item and the number of bytes it takes.  Errors  *)
(* are reported in byte order: the first header that cannot be decoded,   *)
(* or the end of the first item that cannot be placed where it is.        *)
(***************************************************************************)
EXTENDS CborDecoder

NoTree == [mt |-> -1]

Err(code, pos) == [code |-> code, pos |-> pos, tree |-> NoTree]
Ok(t, pos)     == [code |-> "NONE", pos |-> pos, tree |-> t]
Pending        == [code |-> "PENDING"]    \* the call has not returned yet

\* The node a header opens (containers: no value, children to come).
Node(e) == [mt |-> e.mt, indef |-> e.indef,
            val |-> IF e.mt \in {4, 5} THEN 0 ELSE e.arg, w |-> e.width,
            kids |-> << >>]

WithKid(t, k) == [t EXCEPT !.kids = Append(@, k)]

\* Is the header at offset p a complete break (0xff)?
BreakAt(s, p) ==
    p < Len(s) /\ DecodeOne(s, p).status = "finished"
               /\ IsBreak(DecodeOne(s, p).ev)

RECURSIVE RefItem(_, _), RefN(_, _, _, _), RefIndef(_, _, _), RefChunks(_, _, _)

\* One data item starting at offset p.
RefItem(s, p) ==
  IF p >= Len(s) THEN Err("NOTENOUGHDATA", p)
  ELSE
  LET r == DecodeOne(s, p)
  IN  IF r.status = "nedata" THEN Err("NOTENOUGHDATA", p)
      ELSE IF r.status = "error" THEN Err("MALFORMATED", p)
      ELSE
      LET e == r.ev
          q == p + r.read
      IN  CASE IsBreak(e)                  -> Err("SYNTAXERROR", q)
            [] e.mt \in {2, 3} /\ e.indef   -> RefChunks(s, q, Node(e))
            [] e.mt \in {4, 5} /\ e.indef   -> RefIndef(s, q, Node(e))
            [] e.mt = 4                     -> RefN(s, q, e.arg, Node(e))
            [] e.mt = 5                     -> RefN(s, q, 2 * e.arg, Node(e))
            [] e.mt = 6                     -> RefN(s, q, 1, Node(e))
            [] OTHER                        -> Ok(Node(e), q)

\* n more items (a definite array, map or tag) into node t.
RefN(s, p, n, t) ==
  IF n = 0 THEN Ok(t, p)
  ELSE LET c == RefItem(s, p)
       IN  IF c.code # "NONE" THEN c ELSE RefN(s, c.pos, n - 1, WithKid(t, c.tree))

\* Items up to a break (an indefinite array or map) into node t; a map
\* may only end between pairs.
RefIndef(s, p, t) ==
  IF BreakAt(s, p)
  THEN IF t.mt = 5 /\ Len(t.kids) % 2 = 1 THEN Err("SYNTAXERROR", p + 1)
       ELSE Ok(t, p + 1)
  ELSE LET c == RefItem(s, p)
       IN  IF c.code # "NONE" THEN c ELSE RefIndef(s, c.pos, WithKid(t, c.tree))

\* Definite strings of t's own type up to a break (an indefinite string).
\* Another indefinite string is refused at its header, any other item at
\* its end.
RefChunks(s, p, t) ==
  IF BreakAt(s, p) THEN Ok(t, p + 1)
  ELSE
  LET r == DecodeOne(s, p)
      isHeader == p < Len(s) /\ r.status = "finished"
  IN  IF isHeader /\ r.ev.mt \in {2, 3} /\ r.ev.indef
      THEN Err("SYNTAXERROR", p + r.read)
      ELSE LET c == RefItem(s, p)
           IN  CASE c.code # "NONE" -> c
                 [] c.tree.mt = t.mt /\ ~c.tree.indef ->
                        RefChunks(s, c.pos, WithKid(t, c.tree))
                 [] OTHER -> Err("SYNTAXERROR", c.pos)

RefLoad(s) == IF Len(s) = 0 THEN Err("NODATA", 0) ELSE RefItem(s, 0)
=============================================================================
