# TLA+ models of libcbor: loading, deep copy and printing

This directory holds TLA+ modules and TLC configurations for three parts of libcbor:

- `cbor_load` turns a byte buffer into a tree of reference-counted items.
- `cbor_copy` and `cbor_copy_definite` produce deep copies of such trees.
- `cbor_describe` prints such a tree.

The checks cover memory ownership: every item is freed exactly once, and no reference is leaked. They also check functional correctness against an independent recursive definition. Both kinds of check are made under allocation failure at every allocation site.

## Inventory of the system

| Part | Source | What it does | State it changes |
|---|---|---|---|
| Load driver `cbor_load` | `src/unnamed/part_000` 52-155 | It holds the callback table and loops over `cbor_stream_decode`. It maps decoder statuses and builder flags to `CBOR_ERR_*`. On error it frees the stack. | `result` (read, error), the context, the stack |
| Streaming decoder `cbor_stream_decode` and the byte loaders | not under `src/` (spec 4.1-4.2) | Decodes one header and its argument, plus the payload of a definite string. | none; it returns read/status |
| Builder callbacks and stack | not under `src/` (spec 4.3) | Creates items, pushes and pops frames, and appends to the parent. Sets `creation_failed` or `syntax_error`. | context, stack, heap |
| Item model: `cbor_incref`, `cbor_decref`, `cbor_move` | `src/src/cbor/common.h` 287-347 | Keeps the reference count. Recursive release. | refcounts, heap |
| Allocator `_cbor_malloc`, `cbor_set_allocs` | `common.h` 110-157 | Pluggable malloc, realloc and free. | global function pointers |
| Deep copy `cbor_copy`, `_cbor_copy_int`, `_cbor_copy_float_ctrl` | `part_000` 157-330 | Recursive copy that keeps definiteness. | heap |
| `cbor_copy_definite` | `part_000` 332-458 | Recursive copy that makes everything definite and joins string chunks. | heap |
| Pretty printer `cbor_describe` | `part_000` 460-596 | Writes an indented description to a `FILE*`. Takes and gives back a reference to a tag's item. | output, refcount of tagged items (transiently) |
| Type predicates | `common.h` 165-279 | Pure queries. | none |
| Build scripts | `part_000` 1-37, `bld/src/cmake_install.cmake` | Build and install. | none |

The parts interact as follows. `cbor_load` calls the decoder once per item header. The decoder calls one builder callback with the decoded event. The callbacks allocate items through `_cbor_malloc`, link them with `cbor_*_push`/`add`, which increments refcounts, and release them with `cbor_decref`. The copy functions use the same constructors, accessors and refcounts.

## Modules

The modules are listed in the order in which they build on each other.

- `CborItems` is the heap. It is a function from addresses to records `[mt, indef, val, size, rc, kids]`, with map kids stored flattened as key, value, key, value.
  - It provides `Allocate` (lowest free address), `Incref`, and `Decref`. `Decref` is recursive, like `cbor_decref` freeing children, and `DecrefAll` is its list form.
  - It also provides `AddKid` (a link that takes a reference), `Tree` (the value a heap item denotes), `Reachable` and `HeapRefs`.
- `CborTypes` (extends `CborItems`) holds `cbor_typeof` and every `cbor_isa_*` and `cbor_is_*` predicate of `common.h` as an operator on an item record. A major-7 item is a float when its width (the record's `size`) is 2, 4 or 8, and a ctrl value when it is 0. `cbor_ctrl_value` of a float is 0, so a float whose bits are 20..23 is no boolean, null or undefined.
- `CborDecoder` holds `DecodeOne(src, p)`, a model of one call of `cbor_stream_decode` on real bytes.
  - It covers the major type and additional info split, and big-endian arguments of 1/2/4/8 bytes.
  - The event carries a width: for an integer 1, 2, 4 or 8 bytes (the uint8..uint64 callback; AI below 24 gives 1), for major type 7 the float width (AI 25/26/27 give 2/4/8) and 0 for a simple value. Items keep it in `size`, and `Tree` compares it.
  - It covers reserved AI 28-30 and AI 31 on major types 0/1/6 (malformed), and the simple value with AI 24 below 32 (malformed).
  - It covers a header or string payload that runs past the end (NEDATA), and indefinite and break events.
  - It is modelled from the spec, because the decoder source is not in this repository.
- `CborBuilder` (extends `CborItems` and `CborDecoder`) models the builder callbacks and stack, working on a context record `[heap, stack, root, cf, se]`.
  - `Callback` is the callback table of `cbor_load`. `HasCallback` says which events the table has a member for. There is none for a simple value other than false, true, null and undefined.
  - Each callback takes a `fail` argument saying which of its allocations fails: `"item"`, `"frame"`, `"grow"` or `"none"`.
- `CborGrammar` is the reference definition. It is a recursive-descent parser, `RefLoad`, that gives the tree, or the error code and position, that a correct `cbor_load` returns. It is written independently of the stack machine.
- `CborLoadAbstract` is the abstract specification of `cbor_load`. It has one step from "pending" to the outcome `RefLoad(input)`, or to a memory error.
- `CborLoad` (extends `CborBuilder`, `CborGrammar` and `CborTypes`) models `cbor_load` itself.
  - The `pc` values are init, loop, cleanup and done.
  - Its actions are one per branch of the driver:
    - `LoadNoData` (empty input)
    - `LoadBegin` (context and stack set-up)
    - Each decode goes through `Decode`: `DecodeOne` with the callback table. An event the table has no callback for is reported as `CBOR_DECODER_ERROR`.
    - `DecodeFinished` (a decoded item: the callback and then the checks of `creation_failed`, `syntax_error` and an empty stack)
    - `DecodeNeedData` and `DecodeMalformed`
    - `OutOfData` (the loop ends with an open stack)
    - `FreeStackTop` (one iteration of the clean-up loop)
    - `ReturnNull`
  - The caller's `struct cbor_load_result` starts with stale `read` and `error.position` (constant `Stale`), since callers usually declare it uninitialised; `LoadBegin` resets both.
  - `LoadImplementsGrammar` is `CborLoadAbstract!Spec` under the refinement mapping: `outcome` is the result when `pc = "done"`, and pending before that.
- `CborCopy` (extends `CborTypes`) models `cbor_copy` and `cbor_copy_definite`.
  - Both dispatch on `cbor_typeof` through the `cbor_isa_*` predicates, and `_cbor_copy_float_ctrl` on `cbor_float_ctrl_is_ctrl`, as the code's `switch` statements do.
  - These are recursive operators. Each returns the set of all outcomes `[h, res, crash]`, because every constructor may return NULL (`_CBOR_NOTNULL`).
  - `Then` sequences two steps that may fail, so that every early return with its `cbor_decref(&res)` is explicit.
  - A caller holds a set of items and may `CallCopy`, `CallCopyDefinite` or `Release` any held item. This lets copies of copies, and releases in any order, be explored.
  - `_cbor_copy_int` keeps the integer width. `CBOR_ASSERT` aborts a DEBUG build (constant `Debug`) when a push into a preallocated definite container fails; outcomes record the abort as a crash of kind `"assert"`, apart from NULL dereferences (`"null"`).
- `CborSession` composes the two components, in the manner of a program: `L == INSTANCE CborLoad` and `C == INSTANCE CborCopy` share the heap. `Load` is a step of `cbor_load`. `Take` hands the returned item to the caller. `Use` is a copy or release by the caller. Each step leaves the other component's variables unchanged.
- `CborDescribe` (extends `CborTypes`) models `_cbor_nested_describe` and `cbor_describe` as recursive operators. They return the printed lines and the heap left behind.
  - A line is a record `[at, ind, kind, def, width, n]`: the item it is about, its indent, the type or ctrl meaning, definite or indefinite, the width printed in bytes, and the number printed. Wording, payload bytes and float values are left out.
  - `Pow` is `_pow`, including its `ex == 0` special case and pre-decrement loop. `cbor_int_get_width` and `cbor_float_get_width` give the enums that `_pow(2, ...)` turns back into bytes.
  - `DescribeTag` is the tag branch: `cbor_move(cbor_tag_item(item))` is an `Incref` followed by a `Move`.
- `CborSession` also has `Describe(i)`: the caller prints a held item. The step's heap is the one the printer leaves, and `printed` records the lines.
- `MC_CborLoad`, `MC_CborLoadDeep`, `MC_CborLoadUnassigned`, `MC_CborCopy` and `MC_CborSession` instantiate the constants.

## Runs

| Run | cfg | Expect | Shows |
|---|---|---|---|
| load | `MC_CborLoad.cfg` | pass | For every input of length 0-4 over 13 header bytes, with a zeroed or stale result struct, and with each single allocation failure kind, four things hold. `cbor_load` always returns (`LoadTerminates`). `cbor_load` returns exactly `RefLoad`, or a memory error. Every refcount equals the number of references to the item. At return, the heap holds exactly the returned tree. |
| load_deep | `MC_CborLoadDeep.cfg` | pass | The properties of `load` on every input of up to 5 bytes from `00 41 5f 81 9f bf c1 ff`, under every allocation failure kind. This reaches four nested frames, a map whose value container closes before the map (`bf 00 81 00 ff`), and failure at depth 4 (513k states, about 1 minute). |
| load_unassigned_simple | `MC_CborLoadUnassigned.cfg` | violation | Input `e0` (simple value 0) or `f8 ff` (simple value 255) is a data item under the spec's table (section 4.2). `cbor_load`'s callback table (`part_000:55-86`) has no callback for such a value, so `cbor_load` returns `CBOR_ERR_MALFORMATED` at position 0 instead. |
| load_nodata_position | `MC_CborLoad_NoDataPos.cfg` | violation | Empty input returns `CBOR_ERR_NODATA` with `error.position` left at the caller's stale value (9 in the trace). Spec section 6 says every error carries a position in the input. |
| load_syntax_position | `MC_CborLoad_SyntaxPos.cfg` | violation | Input `ff` gives SyntaxError at position 1. The spec's scenario says position 0. |
| copy | `MC_CborCopy.cfg` | pass | Both copies of 14 source shapes are copied up to twice and released in any order, with allocations failing, in a DEBUG build. This run does not check the NULL dereferences on failed allocations; the two `*_null` violation runs report them. In every outcome without such a crash, each copy either fails and leaves nothing behind, or is equal to (respectively the definite form of) its source, widths included, and shares no item with it. Refcounts stay exact. No asserted push into a preallocated container fails. |
| session | `MC_CborSession.cfg` | pass | Every input of up to 4 bytes from `00 40 5f 81 9f bf c1 f9 ff` is loaded, with a frame push failing or not. The returned item is copied up to twice, with copy allocations failing or not, printed with `cbor_describe`, and released in any order. Copies of loaded items are faithful. The printer shows every item in pre-order with its width in bytes, and changes no reference count. Once the caller has dropped every reference, the heap is empty. |
| copy_definite_zero_malloc | `MC_CborCopy_ZeroMalloc.cfg` | violation | With an allocator that has memory but returns NULL for `malloc(0)`, as C allows, `cbor_copy_definite` of `7f ff` returns NULL (`part_000:347-348`). |
| copy_negint_null | `MC_CborCopy_NegintNull.cfg` | violation | `_cbor_copy_int` marks a NULL item as negative (`part_000:174`). |
| copy_definite_chunks_null | `MC_CborCopy_ChunkedNull.cfg` | violation | `cbor_copy_definite` uses an unchecked `cbor_new_definite_bytestring` result (`part_000:360-361`). |

The properties are these:
- `RefcountsExact`: every live item's `rc` equals its parent links plus the holder's reference.
- `NoLeakOnReturn`: when `cbor_load` returns, the live heap equals the items reachable from the result.
- `LoadImplementsGrammar` is the refinement property, and covers values, error codes and positions.
- `CopyFaithful`: `Tree(copy) = Tree(src)`, or the definite form of it.
- `CopyIsDeep`: the copy and the source share no item.
- `AssertionsHold`: the `CBOR_ASSERT` after each push of `cbor_copy_definite` never fails.
- `NothingLeftAfterRelease`: end to end over load, copies and releases, nothing stays allocated once the caller holds nothing (spec section 8, the counting allocator).
- `LoadedCopiesFaithful`: `CopyFaithful` for items that `cbor_load` built.
- `DescribeShowsEveryItem`: the marquee lines of `cbor_describe` are the items of the graph in pre-order (a shared item once per occurrence). Each printed width equals the item's width in bytes.
- `DescribeLeavesHeap` (action property): a `cbor_describe` step changes no reference count and frees nothing.
- `LoadTerminates`: `<>(pc = "done")`; every input makes `cbor_load` return.
- `CopyFailsOnlyWithoutMemory` (violation run): with an allocator that has memory, no copy returns NULL.
- `ErrorPositionInInput` (violation run): an error's position is an offset into the input.

Each property has a mutant that breaks it: a missing `incref` on push, a clean-up that does not pop, a break accepted mid-pair, a missing `cbor_move`, a shallow tag copy, and so on. These are listed in `PROJECT.json`.

## Bounds

These are the bounds and why they are enough:
- **Load.** Inputs are every sequence of up to 4 bytes from `{00, 1c, 41, 5f, 61, 80, 81, 9f, a1, bf, c1, f9, ff}`. This covers:
  - a small uint, a reserved AI and a string with its payload
  - indefinite byte and text strings, with chunks of both types
  - empty and one-element definite arrays and maps, and indefinite arrays and maps
  - a tag, a half float (its 2-byte argument complete or cut off) and break
  - truncation inside each of them

  Four bytes are enough for nesting of depth 3, for a break mid-pair (`bf 00 ff`), and for a tag closing a container (`81 c1 00`). The allocation fault is chosen afresh at every step from `none/item/frame/grow`. The callback of that step fails at that allocation. Together with the choice of input this reaches failure at every depth.
- **Deep load.** The larger instance keeps the eight bytes that open or close frames, plus a leaf and a string with payload, and allows 5 bytes. One more byte than `load` gives one more nesting level, so any cascade the stack machine performs at depth 3 is also seen under a parent frame. Stale result structs are left to `load`.
- **Unassigned simple values.** The bytes `e0 f4 f8 ff`, up to 2 of them. This is enough to show the divergence at the first byte. The passing load runs leave out `f8` and `e0`..`f3`, which would show the same divergence. Single and double floats (`fa`, `fb`) are left out everywhere: their 4- and 8-byte arguments exceed TLC's 32-bit integers, and the width path they take is the same as `f9`'s.
- **Session.** Nine header bytes, inputs of up to 4 bytes, loads with no failure or a failing frame push, then two copies with failing allocations. This gives loaded items with chunks, nested indefinite containers, tags over containers and floats, copied, printed and released in every order (470k states in about 20 s). Loaded integers have width 1 and loaded floats width 2. These are the two `_pow` paths (`ex == 0`, and the loop taking no step), and an off-by-one in either changes the printed width.
- **Copy.** The source shapes are uint, negint, a negint of width 2, a half float, a half float whose bits are 20, chunked byte string, empty text, shared array (rc 2), indefinite map, tag over indefinite array, definite map, indefinite array, nested definite, and chunked text. `MaxCalls = 2` permits a copy of a copy. `Debug = TRUE` checks the asserts. Each allocation may fail (`CanFail = TRUE`). `ZeroNull` says whether `_cbor_malloc(0)` returns NULL; it is FALSE in the passing run, where every NULL is already a possible failure, and TRUE with `CanFail = FALSE` in the zero-malloc run.

## Fairness

`cbor_load` runs to completion on the caller's thread (spec section 5): nothing else can take its turn, so while it has a step to take it takes one. `CborLoad!Spec` states this as `WF_vars(Next)`, which `LoadTerminates` needs. The copy functions are one step each and have no liveness property. Deadlock checking is off: the terminal state "returned" is legitimate.

## Not modelled, and further work

- Of `cbor_describe`, only the text of the output (wording, hex payload, float values, indent widths) is abstracted.
- The build scripts are not modelled.
- `cbor_set_allocs` stores three function pointers and checks nothing. Replacing the allocator while items are live is undefined by the documented contract (spec section 5), so a model would only restate the contract.
- `cbor_intermediate_decref` is `cbor_decref` without resetting the caller's handle, which the model has no separate notion of.
- Recursion depth of `cbor_copy`/`cbor_copy_definite`/`_cbor_nested_describe` (stack overflow on deep nesting) is outside a model without a call stack.
- Integers of more than 31 bits are out of TLC's range, so 4- and 8-byte arguments are not enumerated.
- Float and half-float payload conversion and the bytes of strings are abstracted.

Further work:
1. The decoder's half-float loader. Its source is not in this repository, and its result is a real number, which TLC cannot represent. A model would have to encode the result as a sign/exponent/mantissa triple and rest on the spec alone.
2. Model constructors and `cbor_array_push`/`cbor_map_add` capacity explicitly, as a `CborContainers` module refined by `CborItems`' `AddKid`.
