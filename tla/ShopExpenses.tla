---------------------------- MODULE ShopExpenses ----------------------------
(* The shop's spending: bookings entered by hand, bookings that come from a *)
(* bank statement (RevolutImport), the queue of bank lines that look like a *)
(* booking entered by hand, and the photos of receipts: a row in the        *)
(* database and a file beside it, which no transaction covers together.     *)
EXTENDS Naturals, FiniteSets

CONSTANTS
    Manuals,      \* ids of the bookings entered by hand
    BankRows,     \* external ids of the bank lines that take money out
    Receipts,     \* the photos
    Worth,        \* Worth[e], the amount and the date of a booking or bank line
    MaxReceipts,  \* maxReceiptsPerShopExpense
    NoExpense,    \* an id no row has
    NoMerge

Expenses == Manuals \cup BankRows

ASSUME ShopAssumption ==
    /\ Manuals \cap BankRows = {}
    /\ NoExpense \notin Expenses
    /\ MaxReceipts \in Nat \ {0}

VARIABLES
    booked,     \* shop_expenses: the bookings there are
    entered,    \* the bookings ever entered by hand: an id is used once
    reviews,    \* pending_import_reviews: the manual booking a bank line resembles
    receipts,   \* the stage of each photo, and the booking it is for
    files,      \* the files in RECEIPTS_DIR
    merge       \* the transaction of MergePendingImportReview under way

shopVars == <<booked, entered, reviews, receipts, files, merge>>

(* A photo: not uploaded; its upload counted, then written as a file, then   *)
(* stored as a row; its row removed and its file not yet; over and done with.*)
Stages == {"none", "checked", "written", "stored", "removed", "gone"}
Underway == {"checked", "written", "removed"}

Photo == [stage: Stages, of: Expenses \cup {NoExpense}]

NotUploaded == [stage |-> "none", of |-> NoExpense]
Over == [stage |-> "gone", of |-> NoExpense]

ShopInit ==
    /\ booked = {}
    /\ entered = {}
    /\ reviews = [x \in BankRows |-> NoExpense]
    /\ receipts = [r \in Receipts |-> NotUploaded]
    /\ files = {}
    /\ merge = NoMerge

-----------------------------------------------------------------------------
Staged(x) == reviews[x] # NoExpense
Merging == merge # NoMerge
StoredAt(e) == {r \in Receipts : receipts[r] = [stage |-> "stored", of |-> e]}

(* Mutant: the amount and the date are not compared. *)
FindMatchingManualExpenses_Any(x) == {m \in Manuals \cap booked : Worth[x] = Worth[x]}

FindMatchingManualExpenses(x) == {m \in Manuals \cap booked : Worth[m] = Worth[x]}

(* Mutant: the row of the queue is read without FOR UPDATE. *)
Free_Unlocked(x) == Merging => x \in BankRows

(* Rows locked by a merge wait for its end. *)
Free(x) == Merging => merge.row # x
Untouched(e) == Merging => e \notin {merge.row, reviews[merge.row]}

(* What ON DELETE CASCADE does to a photo when the bookings "kept" remain:  *)
(* the row of a stored one goes, its file stays; an upload that has not      *)
(* stored its row finds no booking to attach it to.                          *)
Cascaded(photo, kept) ==
    IF photo.of \in kept \cup {NoExpense} THEN photo
    ELSE IF photo.stage = "stored" THEN Over
    ELSE [photo EXCEPT !.of = NoExpense]

ReviewsOf(kept) ==
    [x \in BankRows |-> IF reviews[x] \in kept THEN reviews[x] ELSE NoExpense]

InsertShopExpense(m) ==
    /\ m \notin entered
    /\ entered' = entered \cup {m}
    /\ booked' = booked \cup {m}
    /\ UNCHANGED <<reviews, receipts, files, merge>>

DeleteShopExpense(e) ==
    /\ e \in booked
    /\ Untouched(e)
    /\ booked' = booked \ {e}
    /\ reviews' = ReviewsOf(booked \ {e})
    /\ receipts' = [r \in Receipts |-> Cascaded(receipts[r], booked \ {e})]
    /\ UNCHANGED <<entered, files, merge>>

-----------------------------------------------------------------------------
(* The queue. A merge is one transaction: the photos it moves are those      *)
(* stored when its UPDATE runs, the manual booking goes when it commits.     *)
MergeMovesReceipts(x) ==
    /\ Staged(x)
    /\ ~Merging
    /\ merge' = [row |-> x, moved |-> StoredAt(reviews[x])]
    /\ UNCHANGED <<booked, entered, reviews, receipts, files>>

(* Mutant: the photos stay behind with the booking that goes. *)
MergedReceipts_LeftBehind(kept) == [r \in Receipts |-> Cascaded(receipts[r], kept)]

MergedReceipts(kept) ==
    [r \in Receipts |-> IF r \in merge.moved
                        THEN [stage |-> "stored", of |-> merge.row]
                        ELSE Cascaded(receipts[r], kept)]

(* Mutant: the bank line is not put in the books. *)
MergeCommits_NoUpsert ==
    /\ Merging
    /\ LET kept == booked \ {reviews[merge.row]} IN
       /\ booked' = kept
       /\ reviews' = [ReviewsOf(kept) EXCEPT ![merge.row] = NoExpense]
       /\ receipts' = [r \in Receipts |-> Cascaded(receipts[r], kept)]
    /\ merge' = NoMerge
    /\ UNCHANGED <<entered, files>>

MergeCommits ==
    /\ Merging
    /\ LET kept == (booked \cup {merge.row}) \ {reviews[merge.row]} IN
       /\ booked' = kept
       /\ reviews' = [ReviewsOf(kept) EXCEPT ![merge.row] = NoExpense]
       /\ receipts' = MergedReceipts(kept)
    /\ merge' = NoMerge
    /\ UNCHANGED <<entered, files>>

MergeFails ==
    /\ Merging
    /\ merge' = NoMerge
    /\ UNCHANGED <<booked, entered, reviews, receipts, files>>

DeletePendingImportReview(x) ==
    /\ Staged(x)
    /\ Free(x)
    /\ reviews' = [reviews EXCEPT ![x] = NoExpense]
    /\ UNCHANGED <<booked, entered, receipts, files, merge>>

-----------------------------------------------------------------------------
(* Photos: the upload counts, writes the file, stores the row; removing one  *)
(* removes the row, then the file.                                           *)
UploadChecks(r, e) ==
    /\ receipts[r].stage = "none"
    /\ e \in booked
    /\ Cardinality(StoredAt(e)) < MaxReceipts
    /\ receipts' = [receipts EXCEPT ![r] = [stage |-> "checked", of |-> e]]
    /\ UNCHANGED <<booked, entered, reviews, files, merge>>

UploadWritesFile(r) ==
    /\ receipts[r].stage = "checked"
    /\ files' = files \cup {r}
    /\ receipts' = [receipts EXCEPT ![r].stage = "written"]
    /\ UNCHANGED <<booked, entered, reviews, merge>>

InsertShopExpenseReceipt(r) ==
    /\ receipts[r].stage = "written"
    /\ receipts[r].of \in booked
    /\ receipts' = [receipts EXCEPT ![r].stage = "stored"]
    /\ UNCHANGED <<booked, entered, reviews, files, merge>>

(* A file that could not be written whole stays; one without its row goes.   *)
UploadFails(r) ==
    /\ \/ receipts[r].stage = "checked" /\ files' \in {files, files \cup {r}}
       \/ receipts[r].stage = "written" /\ files' = files \ {r}
    /\ receipts' = [receipts EXCEPT ![r] = Over]
    /\ UNCHANGED <<booked, entered, reviews, merge>>

(* Mutant: the file is removed first. *)
DeleteShopExpenseReceiptByID_FileFirst(r) ==
    /\ receipts[r].stage = "stored"
    /\ Merging => r \notin merge.moved
    /\ IF r \in files
       THEN files' = files \ {r} /\ UNCHANGED receipts
       ELSE receipts' = [receipts EXCEPT ![r] = Over] /\ UNCHANGED files
    /\ UNCHANGED <<booked, entered, reviews, merge>>

DeleteShopExpenseReceiptByID(r) ==
    /\ receipts[r].stage = "stored"
    /\ Merging => r \notin merge.moved
    /\ receipts' = [receipts EXCEPT ![r].stage = "removed"]
    /\ UNCHANGED <<booked, entered, reviews, files, merge>>

RemoveFile(r) ==
    /\ receipts[r].stage = "removed"
    /\ files' = files \ {r}
    /\ receipts' = [receipts EXCEPT ![r] = Over]
    /\ UNCHANGED <<booked, entered, reviews, merge>>

(* The server stops: what was under way is lost, rows and files stay.        *)
Interrupted ==
    /\ receipts' = [r \in Receipts |->
                      IF receipts[r].stage \in Underway THEN Over ELSE receipts[r]]
    /\ merge' = NoMerge
    /\ UNCHANGED <<booked, entered, reviews, files>>

ShopNext ==
    \/ \E m \in Manuals : InsertShopExpense(m)
    \/ \E e \in Expenses : DeleteShopExpense(e)
    \/ \E x \in BankRows : MergeMovesReceipts(x)
    \/ MergeCommits
    \/ MergeFails
    \/ \E x \in BankRows : DeletePendingImportReview(x)
    \/ \E r \in Receipts, e \in Expenses : UploadChecks(r, e)
    \/ \E r \in Receipts : UploadWritesFile(r)
    \/ \E r \in Receipts : InsertShopExpenseReceipt(r)
    \/ \E r \in Receipts : UploadFails(r)
    \/ \E r \in Receipts : DeleteShopExpenseReceiptByID(r)
    \/ \E r \in Receipts : RemoveFile(r)
=============================================================================
