------------------------------ MODULE MCMembers ------------------------------
(* Instances of Members for TLC. *)
EXTENDS Members, TLC

(* Rows of users differ in nothing but their id *)
MemberSymmetry == Permutations(Members)

(* Bound: at most one member at a time has the matroos-jeugd flag, at most *)
(* one is deactivated, and none has the flag while a local account has the *)
(* placeholder's name; none of the tables depends on how many do.          *)
FewFlags ==
    /\ Cardinality(matroos) <= 1 /\ Cardinality(disabled \cap People) <= 1
    /\ Life!Is("reserved") # {} => matroos = {}
=============================================================================
