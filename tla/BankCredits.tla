---------------------------- MODULE BankCredits ----------------------------
(* Money received on the bank account and the card sales it pays for.       *)
(* A credit comes in with a statement (RevolutImport), counts as revenue of *)
(* its own while it is open, and stops doing so when a beheerder links it to*)
(* the sale it pays for, or marks it as handled without a sale.             *)
EXTENDS Naturals, FiniteSets

CONSTANTS
    Credits,    \* external ids of the bank lines that bring money in
    Sales,      \* card_requests
    Admins,     \* people with the screen Financien open
    Paid,       \* Paid[c], the amount of bank line c
    Price,      \* Price[s], sale_price_eur of sale s
    Kind,       \* Kind[s], the kind of card sold
    NoSale

Purposes == {"lunchkraam", "avondeten"}
CardKinds == {"tosti", "avondeten"}
Methods == {"tikkie", "contant"}

ASSUME BankAssumption ==
    /\ NoSale \notin Sales
    /\ Paid \in [Credits -> Nat]
    /\ Price \in [Sales -> Nat]
    /\ Kind \in [Sales -> CardKinds]

VARIABLES
    credits,    \* bank_credit_imports, one row for each external id
    sales,      \* status and payment_method of each card request
    panel       \* panel[a], the candidates the screen of a last fetched

bankVars == <<credits, sales, panel>>

(* The row of a bank line. "relabelled" is a history variable: an import has *)
(* changed the purpose of the line while it was linked.                      *)
CreditRow == [status: {"absent", "open", "matched_sale", "waived"},
              purpose: Purposes,
              sale: Sales \cup {NoSale},
              relabelled: BOOLEAN]

Absent == [status |-> "absent", purpose |-> "lunchkraam",
           sale |-> NoSale, relabelled |-> FALSE]

SaleRow == [status: {"pending", "fulfilled", "cancelled"}, method: Methods]

Panels == [credit: Credits, offered: SUBSET Sales]

BankInit ==
    /\ credits = [c \in Credits |-> Absent]
    /\ sales = [s \in Sales |-> [status |-> "pending", method |-> "tikkie"]]
    /\ panel = [a \in Admins |-> {}]

-----------------------------------------------------------------------------
PurposeMatchesCardKind(purpose, kind) ==
    <<purpose, kind>> \in {<<"lunchkraam", "tosti">>, <<"avondeten", "avondeten">>}

Fits(c, s) == /\ PurposeMatchesCardKind(credits[c].purpose, Kind[s])
              /\ Paid[c] = Price[s]

AlreadyMatched(s) == \E d \in Credits : credits[d].sale = s

(* What the two lists of candidates hold: the sales the line can be linked to. *)
Candidates(c) ==
    {s \in Sales : /\ sales[s].status = "fulfilled"
                   /\ sales[s].method = "tikkie"
                   /\ Fits(c, s)
                   /\ ~AlreadyMatched(s)}

OpenPanel(a, c) ==
    /\ credits[c].status = "open"
    /\ panel' = [panel EXCEPT ![a] = {[credit |-> c, offered |-> Candidates(c)]}]
    /\ UNCHANGED <<credits, sales>>

(* Mutant: the candidates on the screen are trusted. *)
LinkBankCreditToCardRequest_Trusting(a) ==
    \E p \in panel[a] : \E s \in p.offered :
        /\ credits[p.credit].status = "open"
        /\ credits' = [credits EXCEPT ![p.credit] =
                         [@ EXCEPT !.status = "matched_sale", !.sale = s]]
        /\ panel' = [panel EXCEPT ![a] = {}]
        /\ UNCHANGED sales

(* One of the candidates on the screen is chosen, perhaps long after they were *)
(* fetched: everything but the payment method is looked at again.              *)
LinkBankCreditToCardRequest(a) ==
    \E p \in panel[a] : \E s \in p.offered :
        /\ credits[p.credit].status = "open"
        /\ sales[s].status = "fulfilled"
        /\ Fits(p.credit, s)
        /\ ~AlreadyMatched(s)
        /\ credits' = [credits EXCEPT ![p.credit] =
                         [@ EXCEPT !.status = "matched_sale", !.sale = s]]
        /\ panel' = [panel EXCEPT ![a] = {}]
        /\ UNCHANGED sales

UnlinkBankCreditMatch(c) ==
    /\ credits[c].status \in {"matched_sale", "waived"}
    /\ credits' = [credits EXCEPT ![c] =
                     [@ EXCEPT !.status = "open", !.sale = NoSale, !.relabelled = FALSE]]
    /\ UNCHANGED <<sales, panel>>

WaiveBankCreditFromOpenRevenue(c) ==
    /\ credits[c].status = "open"
    /\ credits' = [credits EXCEPT ![c].status = "waived"]
    /\ UNCHANGED <<sales, panel>>

(* A line seen before keeps its link and its status; the rest is overwritten. *)
UpsertImportedBankCredit(c, purpose) ==
    credits' = [credits EXCEPT ![c] =
        IF @.status = "absent"
        THEN [Absent EXCEPT !.status = "open", !.purpose = purpose]
        ELSE [@ EXCEPT
                !.purpose = purpose,
                !.relabelled = \/ credits[c].relabelled
                               \/ credits[c].sale # NoSale /\ credits[c].purpose # purpose]]

-----------------------------------------------------------------------------
(* What happens to a card request meanwhile (CardStore has all of it).       *)
FulfillCardRequest(s, method) ==
    /\ sales[s].status = "pending"
    /\ sales' = [sales EXCEPT ![s] = [status |-> "fulfilled", method |-> method]]
    /\ UNCHANGED <<credits, panel>>

CancelCardRequest(s) ==
    /\ sales[s].status = "pending"
    /\ sales' = [sales EXCEPT ![s].status = "cancelled"]
    /\ UNCHANGED <<credits, panel>>

BankNext ==
    \/ \E a \in Admins, c \in Credits : OpenPanel(a, c)
    \/ \E a \in Admins : LinkBankCreditToCardRequest(a)
    \/ \E c \in Credits : UnlinkBankCreditMatch(c)
    \/ \E c \in Credits : WaiveBankCreditFromOpenRevenue(c)
    \/ \E s \in Sales, method \in Methods : FulfillCardRequest(s, method)
    \/ \E s \in Sales : CancelCardRequest(s)
=============================================================================
