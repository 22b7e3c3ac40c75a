------------------------------ MODULE CborTypes ------------------------------
(***************************************************************************)
(* Type manipulation (common.h): cbor_typeof and the predicates on an      *)
(* item record of CborItems.  The cbor_isa_* predicates ask for a major   *)
(* type; the cbor_is_* predicates ask what a major-7 item means, which    *)
(* depends on whether it is a float (a width of 2, 4 or 8 bytes) or a     *)
(* simple value (width 0, the value in its ctrl field).                   *)
(***************************************************************************)
EXTENDS CborItems

\* enum cbor_type, in the order of the major types 0..7.
CborTypeNames == <<"UINT", "NEGINT", "BYTESTRING", "STRING", "ARRAY", "MAP",
                   "TAG", "FLOAT_CTRL">>

cbor_typeof(it) == CborTypeNames[it.mt + 1]

cbor_isa_uint(it)       == cbor_typeof(it) = "UINT"
cbor_isa_negint(it)     == cbor_typeof(it) = "NEGINT"
cbor_isa_bytestring(it) == cbor_typeof(it) = "BYTESTRING"
cbor_isa_string(it)     == cbor_typeof(it) = "STRING"
cbor_isa_array(it)      == cbor_typeof(it) = "ARRAY"
cbor_isa_map(it)        == cbor_typeof(it) = "MAP"
cbor_isa_tag(it)        == cbor_typeof(it) = "TAG"
cbor_isa_float_ctrl(it) == cbor_typeof(it) = "FLOAT_CTRL"

\* cbor_float_ctrl_is_ctrl (floats_ctrls.h): width CBOR_FLOAT_0.
cbor_float_ctrl_is_ctrl(it) == it.size = 0

\* cbor_ctrl_value (floats_ctrls.h): the ctrl field, which the float
\* constructors leave at 0.
cbor_ctrl_value(it) == IF cbor_float_ctrl_is_ctrl(it) THEN it.val ELSE 0

\* CBOR_CTRL_FALSE, CBOR_CTRL_TRUE, CBOR_CTRL_NULL, CBOR_CTRL_UNDEF.
CtrlFalse == 20
CtrlTrue  == 21
CtrlNull  == 22
CtrlUndef == 23

cbor_is_int(it)   == cbor_isa_uint(it) \/ cbor_isa_negint(it)
cbor_is_float(it) == cbor_isa_float_ctrl(it) /\ ~cbor_float_ctrl_is_ctrl(it)
cbor_is_bool(it)  ==
    cbor_isa_float_ctrl(it) /\ cbor_ctrl_value(it) \in {CtrlFalse, CtrlTrue}
cbor_is_null(it)  == cbor_isa_float_ctrl(it) /\ cbor_ctrl_value(it) = CtrlNull
cbor_is_undef(it) == cbor_isa_float_ctrl(it) /\ cbor_ctrl_value(it) = CtrlUndef
=============================================================================
