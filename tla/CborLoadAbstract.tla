-------------------------- MODULE CborLoadAbstract --------------------------
(***************************************************************************)
(* What cbor_load promises, in one step: the outcome of loading the input  *)
(* is the one the grammar gives it, or a memory error at some position.   *)
(***************************************************************************)
EXTENDS CborGrammar

CONSTANT Inputs         \* the byte sequences cbor_load may be called on

VARIABLES input, outcome


MemErrors(s) == {Err("MEMERROR", n) : n \in 0..Len(s)}

Init == input \in Inputs /\ outcome = Pending

Return ==
    /\ outcome = Pending
    /\ outcome' \in {RefLoad(input)} \cup MemErrors(input)
    /\ UNCHANGED input

Spec == Init /\ [][Return]_<<input, outcome>>
=============================================================================
