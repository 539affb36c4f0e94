---------------------------- MODULE MCBaseScheme ----------------------------
(***************************************************************************)
(* Instances of BaseScheme: root and an ordinary user on a scheme of mode  *)
(* 0644 that root owns, as gtrand creates it.                              *)
(***************************************************************************)
EXTENDS BaseScheme, TLC

Root == [uid |-> 0, gid |-> 0]
Other == [uid |-> 1, gid |-> 1]
RootAndOther == {Root, Other}
Mode644 == [owner |-> {"read", "write"}, group |-> {"read"}, other |-> {"read"}]

\* Forged counts that no counter reaches within the bound.
NinetyNine == [k \in Kinds |-> 99]

\* The slots are interchangeable.
SlotSymmetry == Permutations(Slots)
=============================================================================
