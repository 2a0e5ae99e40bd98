----------------------------- MODULE MCAccounts -----------------------------
(* Instances of Accounts for TLC. *)
EXTENDS Accounts, TLC

(* Slots for calls differ in nothing but their name *)
CallSymmetry == Permutations(Calls)

(* Bound: an account that an admin gave the placeholder's name has no      *)
(* rights and no password to change; its member may have changed it.       *)
PlainReserved == \A u \in DOMAIN users : IsSystem(u) => ~users[u].admin /\ ~users[u].must
=============================================================================
