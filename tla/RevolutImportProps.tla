-------------------------- MODULE RevolutImportProps --------------------------
(* What the books promise while statements are imported, bookings are        *)
(* entered, merged and removed, photos come and go, and the server stops.    *)
EXTENDS RevolutImport

(* The type invariant: every variable holds what its table can hold, and a   *)
(* merge is about a line that is in the queue (its row is locked).           *)
TypeOK ==
    /\ booked \in SUBSET Expenses
    /\ entered \in SUBSET Manuals
    /\ booked \cap Manuals \subseteq entered
    /\ reviews \in [BankRows -> (booked \cap Manuals) \cup {NoExpense}]
    /\ receipts \in [Receipts -> Photo]
    /\ files \in SUBSET Receipts
    /\ merge \in {NoMerge} \cup [row: {x \in BankRows : Staged(x)}, moved: SUBSET Receipts]
    /\ credits \in [Credits -> CreditRow]
    /\ sales \in [Sales -> SaleRow]
    /\ panel \in [Admins -> SUBSET Panels]
    /\ job \in [Imports -> Job]

(* A photo the list of a booking shows can be opened: its booking is there   *)
(* and so is its file, whatever the moment at which an upload, a removal or  *)
(* a merge was cut off (the file is written before the row, and removed      *)
(* after it), and the photos a merge is moving are not removed under it.     *)
PhotosCanBeShown ==
    /\ \A r \in Receipts : receipts[r].stage = "stored" =>
         r \in files /\ receipts[r].of \in booked
    /\ Merging => merge.moved \subseteq StoredAt(reviews[merge.row])

(* A linked bank line pays for one sale only, one that was accorded, was paid*)
(* by Tikkie and cost what came in, and that is of the kind the line is for  *)
(* unless a later import gave the line another purpose: the choice was made  *)
(* on a screen that may be long out of date. A line that is not linked names *)
(* no sale. This is what keeps a payment from counting twice in the revenue. *)
LinkedFits ==
    \A c \in Credits :
      IF credits[c].status = "matched_sale"
      THEN /\ credits[c].sale \in Sales
           /\ sales[credits[c].sale] = [status |-> "fulfilled", method |-> "tikkie"]
           /\ Paid[c] = Price[credits[c].sale]
           /\ ~credits[c].relabelled =>
                PurposeMatchesCardKind(credits[c].purpose, Kind[credits[c].sale])
           /\ \A d \in Credits \ {c} : credits[d].sale # credits[c].sale
      ELSE credits[c].sale = NoSale

(* A photo that is stored stays stored until it is removed itself or its     *)
(* booking is: a merge takes the photos of the booking entered by hand along *)
(* to the booking that replaces it. The exception is a photo stored in the   *)
(* moment between the two statements of the merge: it goes with the booking. *)
PhotosSurviveMerge == [][
    \A r \in Receipts :
      receipts[r].stage = "stored" /\ receipts'[r].stage # "stored" =>
        \/ receipts'[r].stage = "removed"
        \/ /\ receipts[r].of \notin booked'
           /\ \/ booked' = booked \ {receipts[r].of}
              \/ Merging /\ r \notin merge.moved
    ]_vars

(* No bank line that is in the books or in the queue gets lost: it leaves    *)
(* the books only when that booking is removed, and the queue only by being  *)
(* skipped (nothing else changes then), or because the booking it resembles  *)
(* is gone: removed, or replaced by a bank line that is in the books now.    *)
(* That may be another line: of two lines that resemble one booking, merging *)
(* the first drops the other from the queue.                                 *)
LinesAreKept == [][
    \A x \in BankRows :
      /\ x \in booked /\ x \notin booked' => UNCHANGED merge /\ booked' = booked \ {x}
      /\ Staged(x) /\ ~Staged(x)' =>
           \/ /\ UNCHANGED <<booked, receipts>>
              /\ \A y \in BankRows \ {x} : reviews'[y] = reviews[y]
           \/ UNCHANGED merge /\ booked' = booked \ {reviews[x]}
           \/ \E y \in booked' \cap BankRows : reviews[y] = reviews[x] /\ ~Merging'
    ]_vars

(* A merge leaves the books in balance: one booking makes place for another  *)
(* of the same amount and date, found by an import some time ago, or for one *)
(* that another import has booked meanwhile; nothing else comes or goes.     *)
MergeIsNeutral == [][
    Merging /\ ~Merging' /\ booked' # booked =>
      \E m \in booked, x \in booked' :
         Worth[m] = Worth[x] /\ booked' = (booked \ {m}) \cup {x}
    ]_vars
=============================================================================
