--------------------------- MODULE MCRevolutImport ---------------------------
(* One booking entered by hand that two bank lines resemble, and one that    *)
(* none does; two credits of one amount, and sales of either kind.           *)
EXTENDS RevolutImportProps, TLC

CONSTANTS m1, m2, x1, x2, c1, c2, s1, s2

MCWorth == (m1 :> 1) @@ (m2 :> 2) @@ (x1 :> 1) @@ (x2 :> 1)
MCPaid == (c1 :> 15) @@ (c2 :> 15)
MCPrice == (s1 :> 15) @@ (s2 :> 15)
MCKind == (s1 :> "tosti") @@ (s2 :> "avondeten")
MCStatements == {{x1, x2}, {c1, x1, c2}}

(* The bank's side and the shop's side meet in an import only: each is       *)
(* explored in full, with little of the other.                               *)
ShopQuiet == entered \cup booked = {} /\ receipts = [r \in Receipts |-> NotUploaded]
BankQuiet == /\ panel = [a \in Admins |-> {}]
             /\ \A s \in Sales : sales[s].status = "pending"
             /\ \A c \in Credits : credits[c] = Absent
Apart == ShopQuiet \/ BankQuiet

Sym == Permutations(Imports) \cup Permutations(Admins)
===============================================================================
