------------------------------ MODULE PinGroup ------------------------------
(***************************************************************************)
(* The bit gathering of src/src/pin.c.  A 16 bit value is the set of the    *)
(* positions of its one bits.                                              *)
(***************************************************************************)
EXTENDS Integers, FiniteSets

\* idx in the loops of group_densify and group_sparsify when they reach bit i.
Rank(mask, i) == Cardinality({j \in mask : j < i})

\* group_densify
Densify(mask, sparse) == {Rank(mask, i) : i \in mask \cap sparse}

\* The bits outside of the mask are not dropped.
Sparsify_Unmasked(mask, dense) == dense

\* group_sparsify
Sparsify(mask, dense) == {i \in mask : Rank(mask, i) \in dense}

Xor(a, b) == (a \ b) \cup (b \ a)

=============================================================================
