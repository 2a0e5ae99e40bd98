----------------------------- MODULE MCCardStore -----------------------------
(* Instances of CardStore for TLC. *)
EXTENDS CardStoreProps, TLC

(* Members differ in nothing but their name *)
MemberSymmetry == Permutations(Members)
=============================================================================
