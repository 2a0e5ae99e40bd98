---------------------------- MODULE RevolutImport ----------------------------
(* The import of bank statements into the shop's books. An import goes over  *)
(* the lines of a statement twice, first for the money that went out and then*)
(* for the money that came in, one line at a time and without a transaction: *)
(* other people change the same rows between two of its steps, it may stop   *)
(* halfway, and the same line may come again with the next statement.        *)
EXTENDS ShopExpenses, BankCredits

CONSTANTS
    Imports,      \* the imports that may run at the same time
    Statements,   \* the statements there are, as sets of bank lines
    NoLine, Undecided, Book

Lines == BankRows \cup Credits

ASSUME ImportAssumption ==
    /\ BankRows \cap Credits = {}
    /\ Statements \subseteq SUBSET Lines
    /\ NoLine \notin Lines
    /\ Undecided # Book
    /\ {Undecided, Book} \cap Manuals = {}

VARIABLE
    job     \* what an import has still to do, its line in hand and the plan for it

vars == <<shopVars, bankVars, job>>

Job == [todo: SUBSET Lines, line: BankRows \cup {NoLine},
        plan: Manuals \cup {Undecided, Book}]

Idle == [todo |-> {}, line |-> NoLine, plan |-> Undecided]

Init ==
    /\ ShopInit
    /\ BankInit
    /\ job = [i \in Imports |-> Idle]

-----------------------------------------------------------------------------
Busy(i) == job[i] # Idle
Begin(i, todo) == job' = [job EXCEPT ![i] = [Idle EXCEPT !.todo = todo]]
Stop(i) == job' = [job EXCEPT ![i] = Idle]

(* The lines of a statement that the filters and the choices in the preview  *)
(* leave; the statement has them in any order.                               *)
StartImport(i) ==
    /\ ~Busy(i)
    /\ \E statement \in Statements : \E todo \in SUBSET statement : Begin(i, todo)
    /\ UNCHANGED <<shopVars, bankVars>>

(* A line that is in the books already is brought up to date; one that looks *)
(* like a booking entered by hand goes to the queue; any other is booked.    *)
Plans(x) ==
    IF x \in booked \/ FindMatchingManualExpenses(x) = {}
    THEN {Book}
    ELSE FindMatchingManualExpenses(x)

ClassifyDebitRow(i, x) ==
    /\ x \in job[i].todo
    /\ job[i].line = NoLine
    /\ \E plan \in Plans(x) :
         job' = [job EXCEPT ![i] = [todo |-> @.todo \ {x}, line |-> x, plan |-> plan]]
    /\ UNCHANGED <<shopVars, bankVars>>

UpsertImportedShopExpense(i) ==
    /\ job[i].plan = Book
    /\ Free(job[i].line)
    /\ booked' = booked \cup {job[i].line}
    /\ Begin(i, job[i].todo)
    /\ UNCHANGED <<entered, reviews, receipts, files, merge, bankVars>>

(* A line in the queue stays as it is; otherwise the booking it resembles    *)
(* has to be there still.                                                    *)
InsertPendingImportReview(i) ==
    LET x == job[i].line IN
    /\ job[i].plan \in Manuals
    /\ Free(x)
    /\ \/ Staged(x) /\ UNCHANGED reviews
       \/ /\ ~Staged(x)
          /\ job[i].plan \in booked
          /\ reviews' = [reviews EXCEPT ![x] = job[i].plan]
    /\ Begin(i, job[i].todo)
    /\ UNCHANGED <<booked, entered, receipts, files, merge, bankVars>>

ImportCreditRow(i, c) ==
    /\ c \in job[i].todo
    /\ job[i].line = NoLine
    /\ job[i].todo \cap BankRows = {}
    /\ \E purpose \in Purposes : UpsertImportedBankCredit(c, purpose)
    /\ Begin(i, job[i].todo \ {c})
    /\ UNCHANGED <<shopVars, sales, panel>>

(* A write fails, as the one does that stages a line for a booking that has  *)
(* been removed since: the lines done stay done, the others are left undone. *)
ImportFails(i) ==
    /\ Busy(i)
    /\ Stop(i)
    /\ UNCHANGED <<shopVars, bankVars>>

Crash ==
    /\ Interrupted
    /\ job' = [i \in Imports |-> Idle]
    /\ UNCHANGED bankVars

Next ==
    \/ ShopNext /\ UNCHANGED <<bankVars, job>>
    \/ BankNext /\ UNCHANGED <<shopVars, job>>
    \/ \E i \in Imports : StartImport(i)
    \/ \E i \in Imports, x \in BankRows : ClassifyDebitRow(i, x)
    \/ \E i \in Imports : UpsertImportedShopExpense(i)
    \/ \E i \in Imports : InsertPendingImportReview(i)
    \/ \E i \in Imports, c \in Credits : ImportCreditRow(i, c)
    \/ \E i \in Imports : ImportFails(i)
    \/ Crash

Spec == Init /\ [][Next]_vars
=============================================================================
