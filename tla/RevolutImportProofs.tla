------------------------ MODULE RevolutImportProofs ------------------------
(* The promises of RevolutImportProps hold for any number of bookings, bank  *)
(* lines, photos, credits, sales and imports. The inductive invariant has a  *)
(* part for the shop's books, one for the credits and one for the imports:   *)
(* an import is the only step that reads one part and writes another.        *)
EXTENDS RevolutImportProps, TLAPS

USE DEF Expenses

(* The photos as they are stored: row, file and booking go together.         *)
PhotoOK(r) ==
    /\ receipts[r].stage \in {"written", "stored"} => r \in files
    /\ receipts[r].stage = "stored" => receipts[r].of \in booked

MergeOK == Merging => \A r \in merge.moved : /\ receipts[r].stage = "stored"
                                             /\ receipts[r].of = reviews[merge.row]

ShopType ==
    /\ booked \in SUBSET Expenses
    /\ entered \in SUBSET Manuals
    /\ booked \cap Manuals \subseteq entered
    /\ reviews \in [BankRows -> (booked \cap Manuals) \cup {NoExpense}]
    /\ receipts \in [Receipts -> Photo]
    /\ files \in SUBSET Receipts
    /\ merge \in {NoMerge} \cup [row: {x \in BankRows : Staged(x)}, moved: SUBSET Receipts]

Resembling == \A x \in BankRows : Staged(x) => Worth[reviews[x]] = Worth[x]

ShopInv ==
    /\ ShopType
    /\ \A r \in Receipts : PhotoOK(r)
    /\ MergeOK
    /\ Resembling

-----------------------------------------------------------------------------
(* A photo is stored at a booking when its row says so.                      *)
LEMMA StoredAtRow ==
    ASSUME receipts \in [Receipts -> Photo], NEW e, NEW r \in Receipts
    PROVE  r \in StoredAt(e) <=> receipts[r].stage = "stored" /\ receipts[r].of = e
<1>1. receipts[r] \in Photo
  OBVIOUS
<1>2. receipts[r] = [stage |-> receipts[r].stage, of |-> receipts[r].of]
  BY <1>1 DEF Photo
<1>. QED
  BY <1>2 DEF StoredAt

(* Deleting bookings does nothing to a photo but take a stored one, or the   *)
(* booking of one whose upload is under way.                                 *)
LEMMA CascadedPhoto ==
    ASSUME NEW photo \in Photo, NEW kept
    PROVE  /\ Cascaded(photo, kept) \in Photo
           /\ Cascaded(photo, kept).stage \in {photo.stage, "gone"}
           /\ Cascaded(photo, kept).stage = "stored" =>
                /\ Cascaded(photo, kept) = photo
                /\ photo.of \in kept \cup {NoExpense}
           /\ photo.of \in kept => Cascaded(photo, kept) = photo
           /\ photo.stage = "stored" /\ Cascaded(photo, kept).stage # "stored" =>
                photo.of \notin kept
<1>1. CASE photo.of \in kept \cup {NoExpense}
  <2>1. Cascaded(photo, kept) = photo
    BY <1>1 DEF Cascaded
  <2>. QED
    BY <1>1, <2>1
<1>2. CASE photo.of \notin kept \cup {NoExpense} /\ photo.stage = "stored"
  <2>1. Cascaded(photo, kept) = [stage |-> "gone", of |-> NoExpense]
    BY <1>2 DEF Cascaded, Over
  <2>. QED
    BY <1>2, <2>1 DEF Photo, Stages
<1>3. CASE photo.of \notin kept \cup {NoExpense} /\ photo.stage # "stored"
  <2>1. Cascaded(photo, kept) = [photo EXCEPT !.of = NoExpense]
    BY <1>3 DEF Cascaded
  <2>2. [photo EXCEPT !.of = NoExpense] \in Photo
    BY DEF Photo
  <2>3. [photo EXCEPT !.of = NoExpense].stage = photo.stage
    BY DEF Photo
  <2>. QED
    BY <1>3, <2>1, <2>2, <2>3
<1>. QED
  BY <1>1, <1>2, <1>3

(* The queue as its rows are typed.                                          *)
LEMMA Queue ==
    ASSUME ShopType, NEW x \in BankRows
    PROVE  /\ Staged(x) => reviews[x] \in booked \cap Manuals
           /\ ~Staged(x) => reviews[x] = NoExpense
BY DEF ShopType, Staged

(* The row a merge holds is in the queue, its booking entered by hand.       *)
LEMMA MergeRow ==
    ASSUME ShopType, Merging
    PROVE  /\ merge.row \in BankRows
           /\ Staged(merge.row)
           /\ reviews[merge.row] \in booked \cap Manuals
           /\ reviews[merge.row] # merge.row
           /\ merge.moved \in SUBSET Receipts
<1>1. merge \in [row: {x \in BankRows : Staged(x)}, moved: SUBSET Receipts]
  BY DEF ShopType, Merging
<1>2. merge.row \in BankRows /\ Staged(merge.row) /\ merge.moved \in SUBSET Receipts
  BY <1>1
<1>3. reviews[merge.row] \in booked \cap Manuals
  BY <1>2, Queue
<1>. QED
  BY <1>2, <1>3, ShopAssumption

-----------------------------------------------------------------------------
(* Every step of the shop keeps its part of the invariant.                   *)

LEMMA ShopInitInv == ShopInit => ShopInv
<1>. SUFFICES ASSUME ShopInit PROVE ShopInv
  OBVIOUS
<1>1. NotUploaded \in Photo /\ NotUploaded.stage = "none"
  BY DEF NotUploaded, Photo, Stages
<1>2. \A x \in BankRows : reviews[x] = NoExpense
  BY DEF ShopInit
<1>3. \A r \in Receipts : receipts[r] = NotUploaded
  BY DEF ShopInit
<1>4. ShopType
  BY <1>1 DEF ShopInit, ShopType
<1>5. \A r \in Receipts : PhotoOK(r)
  BY <1>1, <1>3 DEF PhotoOK
<1>6. MergeOK /\ Resembling
  BY <1>2 DEF ShopInit, MergeOK, Merging, Resembling, Staged
<1>. QED
  BY <1>4, <1>5, <1>6 DEF ShopInv

(* What changes of one photo may be: its row is stored with a file and a     *)
(* booking there, and a merge is not moving it.                              *)
LEMMA PhotoStep ==
    ASSUME ShopInv, NEW r \in Receipts, NEW photo \in Photo,
           receipts' = [receipts EXCEPT ![r] = photo],
           UNCHANGED <<booked, entered, reviews, merge>>,
           files' \in SUBSET Receipts, files \ {r} \subseteq files',
           photo.stage \in {"written", "stored"} => r \in files',
           photo.stage = "stored" => photo.of \in booked,
           Merging => r \notin merge.moved
    PROVE  ShopInv'
<1>. USE DEF ShopInv
<1>1. receipts' \in [Receipts -> Photo] /\ receipts'[r] = photo
  BY DEF ShopType
<1>2. \A q \in Receipts \ {r} : receipts'[q] = receipts[q]
  BY DEF ShopType
<1>3. ShopType'
  BY <1>1 DEF ShopType, Staged
<1>4. ASSUME NEW q \in Receipts PROVE PhotoOK(q)'
  <2>1. CASE q = r
    BY <1>1, <2>1 DEF PhotoOK
  <2>2. CASE q # r
    BY <1>2, <2>2 DEF PhotoOK
  <2>. QED
    BY <2>1, <2>2
<1>5. MergeOK'
  <2>. SUFFICES ASSUME Merging, NEW q \in merge.moved
                PROVE  receipts'[q].stage = "stored" /\ receipts'[q].of = reviews[merge.row]
    BY DEF MergeOK, Merging
  <2>1. q \in Receipts \ {r}
    BY MergeRow
  <2>. QED
    BY <2>1, <1>2 DEF MergeOK
<1>6. Resembling'
  BY DEF Resembling, Staged
<1>. QED
  BY <1>3, <1>4, <1>5, <1>6

(* A photo that a merge moves is stored.                                     *)
LEMMA NotMoved ==
    ASSUME ShopInv, NEW r \in Receipts, receipts[r].stage # "stored"
    PROVE  Merging => r \notin merge.moved
BY DEF ShopInv, MergeOK

LEMMA UploadChecksInv ==
    ASSUME ShopInv, NEW r \in Receipts, NEW e \in Expenses, UploadChecks(r, e)
    PROVE  ShopInv'
<1>. DEFINE photo == [stage |-> "checked", of |-> e]
<1>1. photo \in Photo /\ photo.stage = "checked"
  BY DEF Photo, Stages
<1>2. receipts' = [receipts EXCEPT ![r] = photo]
  BY DEF UploadChecks
<1>3. files' \in SUBSET Receipts /\ files' = files /\ UNCHANGED <<booked, entered, reviews, merge>>
  BY DEF UploadChecks, ShopInv, ShopType
<1>4. Merging => r \notin merge.moved
  BY NotMoved DEF UploadChecks
<1>. HIDE DEF photo
<1>. QED
  BY <1>1, <1>2, <1>3, <1>4, PhotoStep

(* A photo whose stage alone changes.                                        *)
LEMMA StageChanged ==
    ASSUME receipts \in [Receipts -> Photo], NEW r \in Receipts, NEW s \in Stages,
           receipts' = [receipts EXCEPT ![r].stage = s]
    PROVE  \E photo \in Photo : /\ photo.stage = s
                                /\ photo.of = receipts[r].of
                                /\ receipts' = [receipts EXCEPT ![r] = photo]
<1>. DEFINE photo == [receipts[r] EXCEPT !.stage = s]
<1>1. photo \in Photo /\ photo.stage = s /\ photo.of = receipts[r].of
  BY DEF Photo
<1>2. receipts' = [receipts EXCEPT ![r] = photo]
  OBVIOUS
<1>. HIDE DEF photo
<1>. QED
  BY <1>1, <1>2

LEMMA UploadWritesFileInv ==
    ASSUME ShopInv, NEW r \in Receipts, UploadWritesFile(r)
    PROVE  ShopInv'
<1>1. /\ receipts' = [receipts EXCEPT ![r].stage = "written"]
      /\ receipts[r].stage = "checked"
      /\ files' = files \cup {r}
      /\ UNCHANGED <<booked, entered, reviews, merge>>
  BY DEF UploadWritesFile
<1>2. receipts \in [Receipts -> Photo] /\ files \in SUBSET Receipts /\ "written" \in Stages
  BY DEF ShopInv, ShopType, Stages
<1>3. PICK photo \in Photo : /\ photo.stage = "written"
                             /\ receipts' = [receipts EXCEPT ![r] = photo]
  BY <1>1, <1>2, StageChanged
<1>4. Merging => r \notin merge.moved
  BY <1>1, NotMoved
<1>. QED
  BY <1>1, <1>2, <1>3, <1>4, PhotoStep

LEMMA InsertShopExpenseReceiptInv ==
    ASSUME ShopInv, NEW r \in Receipts, InsertShopExpenseReceipt(r)
    PROVE  ShopInv'
<1>1. /\ receipts' = [receipts EXCEPT ![r].stage = "stored"]
      /\ receipts[r].stage = "written" /\ receipts[r].of \in booked
      /\ UNCHANGED <<booked, entered, reviews, files, merge>>
  BY DEF InsertShopExpenseReceipt
<1>2. receipts \in [Receipts -> Photo] /\ files \in SUBSET Receipts /\ "stored" \in Stages
  BY DEF ShopInv, ShopType, Stages
<1>3. PICK photo \in Photo : /\ photo.stage = "stored" /\ photo.of = receipts[r].of
                             /\ receipts' = [receipts EXCEPT ![r] = photo]
  BY <1>1, <1>2, StageChanged
<1>4. Merging => r \notin merge.moved
  BY <1>1, NotMoved
<1>5. r \in files
  BY <1>1 DEF ShopInv, PhotoOK
<1>. QED
  BY <1>1, <1>2, <1>3, <1>4, <1>5, PhotoStep

LEMMA DeleteShopExpenseReceiptByIDInv ==
    ASSUME ShopInv, NEW r \in Receipts, DeleteShopExpenseReceiptByID(r)
    PROVE  ShopInv'
<1>1. /\ receipts' = [receipts EXCEPT ![r].stage = "removed"]
      /\ Merging => r \notin merge.moved
      /\ UNCHANGED <<booked, entered, reviews, files, merge>>
  BY DEF DeleteShopExpenseReceiptByID
<1>2. receipts \in [Receipts -> Photo] /\ files \in SUBSET Receipts /\ "removed" \in Stages
  BY DEF ShopInv, ShopType, Stages
<1>3. PICK photo \in Photo : /\ photo.stage = "removed"
                             /\ receipts' = [receipts EXCEPT ![r] = photo]
  BY <1>1, <1>2, StageChanged
<1>. QED
  BY <1>1, <1>2, <1>3, PhotoStep

LEMMA OverPhoto == Over \in Photo /\ Over.stage = "gone"
BY DEF Over, Photo, Stages

LEMMA UploadFailsInv ==
    ASSUME ShopInv, NEW r \in Receipts, UploadFails(r)
    PROVE  ShopInv'
<1>1. /\ receipts' = [receipts EXCEPT ![r] = Over]
      /\ receipts[r].stage # "stored"
      /\ UNCHANGED <<booked, entered, reviews, merge>>
  BY DEF UploadFails
<1>2. files' \in SUBSET Receipts /\ files \ {r} \subseteq files'
  BY DEF UploadFails, ShopInv, ShopType
<1>3. Merging => r \notin merge.moved
  BY <1>1, NotMoved
<1>. QED
  BY <1>1, <1>2, <1>3, OverPhoto, PhotoStep

LEMMA RemoveFileInv ==
    ASSUME ShopInv, NEW r \in Receipts, RemoveFile(r)
    PROVE  ShopInv'
<1>1. /\ receipts' = [receipts EXCEPT ![r] = Over]
      /\ receipts[r].stage # "stored"
      /\ UNCHANGED <<booked, entered, reviews, merge>>
  BY DEF RemoveFile
<1>2. files' \in SUBSET Receipts /\ files \ {r} \subseteq files'
  BY DEF RemoveFile, ShopInv, ShopType
<1>3. Merging => r \notin merge.moved
  BY <1>1, NotMoved
<1>. QED
  BY <1>1, <1>2, <1>3, OverPhoto, PhotoStep

LEMMA InsertShopExpenseInv ==
    ASSUME ShopInv, NEW m \in Manuals, InsertShopExpense(m)
    PROVE  ShopInv'
<1>1. /\ booked' = booked \cup {m} /\ entered' = entered \cup {m}
      /\ UNCHANGED <<reviews, receipts, files, merge>>
  BY DEF InsertShopExpense
<1>2. ShopType'
  BY <1>1 DEF ShopInv, ShopType, Staged
<1>3. ASSUME NEW r \in Receipts PROVE PhotoOK(r)'
  BY <1>1 DEF ShopInv, PhotoOK
<1>4. MergeOK' /\ Resembling'
  BY <1>1 DEF ShopInv, MergeOK, Merging, Resembling, Staged
<1>. QED
  BY <1>2, <1>3, <1>4 DEF ShopInv

(* The queue after bookings have gone: lines that resembled one of them go.  *)
LEMMA QueueKept ==
    ASSUME ShopType, NEW kept, NEW x \in BankRows
    PROVE  /\ reviews[x] \in kept => ReviewsOf(kept)[x] = reviews[x]
           /\ ReviewsOf(kept)[x] # NoExpense =>
                ReviewsOf(kept)[x] = reviews[x] /\ reviews[x] \in kept
           /\ ReviewsOf(kept)[x] \in (kept \cap (booked \cap Manuals)) \cup {NoExpense}
           /\ DOMAIN ReviewsOf(kept) = BankRows
BY DEF ShopType, ReviewsOf

LEMMA DeleteShopExpenseInv ==
    ASSUME ShopInv, NEW e \in Expenses, DeleteShopExpense(e)
    PROVE  ShopInv'
<1>. DEFINE kept == booked \ {e}
<1>1. /\ booked' = kept /\ reviews' = ReviewsOf(kept)
      /\ receipts' = [r \in Receipts |-> Cascaded(receipts[r], kept)]
      /\ UNCHANGED <<entered, files, merge>>
      /\ Untouched(e)
  BY DEF DeleteShopExpense
<1>2. ShopType
  BY DEF ShopInv
<1>3. kept \subseteq booked
  OBVIOUS
<1>4. Merging => e # merge.row /\ e # reviews[merge.row]
  BY <1>1 DEF Untouched
<1>5. Merging => reviews[merge.row] \in kept
  BY <1>2, <1>4, MergeRow
<1>. HIDE DEF kept
<1>6. \A r \in Receipts : receipts[r] \in Photo /\ receipts'[r] = Cascaded(receipts[r], kept)
  BY <1>1, <1>2 DEF ShopType
<1>7. receipts' \in [Receipts -> Photo]
  <2>1. \A r \in Receipts : Cascaded(receipts[r], kept) \in Photo
    BY <1>6, CascadedPhoto
  <2>. QED
    BY <1>1, <2>1
<1>8. reviews' \in [BankRows -> (booked' \cap Manuals) \cup {NoExpense}]
  <2>1. \A x \in BankRows : ReviewsOf(kept)[x] \in (kept \cap Manuals) \cup {NoExpense}
    BY <1>2, QueueKept
  <2>2. ReviewsOf(kept) = [x \in BankRows |-> ReviewsOf(kept)[x]]
    BY DEF ReviewsOf
  <2>. QED
    BY <1>1, <2>1, <2>2
<1>9. merge' \in {NoMerge} \cup [row: {x \in BankRows : Staged(x)'}, moved: SUBSET Receipts]
  <2>1. CASE ~Merging
    BY <1>1, <2>1 DEF Merging
  <2>2. CASE Merging
    <3>1. merge \in [row: {x \in BankRows : Staged(x)}, moved: SUBSET Receipts]
      BY <1>2, <2>2 DEF ShopType, Merging
    <3>2. merge.row \in BankRows /\ reviews[merge.row] \in kept /\ Staged(merge.row)
      BY <1>2, <1>5, <2>2, MergeRow
    <3>3. reviews'[merge.row] = reviews[merge.row]
      BY <1>1, <1>2, <3>2, QueueKept
    <3>4. merge.row \in {x \in BankRows : Staged(x)'}
      BY <3>2, <3>3 DEF Staged
    <3>. QED
      BY <1>1, <3>1, <3>4
  <2>. QED
    BY <2>1, <2>2
<1>10. ShopType'
  BY <1>1, <1>2, <1>3, <1>7, <1>8, <1>9 DEF ShopType
<1>11. ASSUME NEW r \in Receipts PROVE PhotoOK(r)'
  <2>1. /\ receipts'[r].stage \in {receipts[r].stage, "gone"}
        /\ receipts'[r].stage = "stored" =>
             receipts'[r] = receipts[r] /\ receipts[r].of \in kept \cup {NoExpense}
    BY <1>6, CascadedPhoto
  <2>2. PhotoOK(r) /\ NoExpense \notin booked
    BY <1>2, ShopAssumption DEF ShopInv, ShopType
  <2>. QED
    BY <1>1, <2>1, <2>2 DEF PhotoOK
<1>12. MergeOK'
  <2>. SUFFICES ASSUME Merging, NEW q \in merge.moved
                PROVE  receipts'[q].stage = "stored" /\ receipts'[q].of = reviews'[merge.row]
    BY <1>1 DEF MergeOK, Merging
  <2>1. q \in Receipts /\ receipts[q].stage = "stored" /\ receipts[q].of = reviews[merge.row]
    BY <1>2, MergeRow DEF ShopInv, MergeOK
  <2>2. receipts'[q] = receipts[q]
    BY <1>5, <1>6, <2>1, CascadedPhoto
  <2>3. reviews'[merge.row] = reviews[merge.row]
    BY <1>1, <1>2, <1>5, MergeRow, QueueKept
  <2>. QED
    BY <2>1, <2>2, <2>3
<1>13. Resembling'
  BY <1>1, <1>2, QueueKept DEF ShopInv, Resembling, Staged
<1>. QED
  BY <1>10, <1>11, <1>12, <1>13 DEF ShopInv

LEMMA MergeMovesReceiptsInv ==
    ASSUME ShopInv, NEW x \in BankRows, MergeMovesReceipts(x)
    PROVE  ShopInv'
<1>1. /\ merge' = [row |-> x, moved |-> StoredAt(reviews[x])]
      /\ Staged(x)
      /\ UNCHANGED <<booked, entered, reviews, receipts, files>>
  BY DEF MergeMovesReceipts
<1>2. ShopType
  BY DEF ShopInv
<1>3. StoredAt(reviews[x]) \subseteq Receipts
  BY DEF StoredAt
<1>4. merge' \in [row: {y \in BankRows : Staged(y)}, moved: SUBSET Receipts]
  BY <1>1, <1>3
<1>5. ShopType'
  BY <1>1, <1>2, <1>4 DEF ShopType, Staged
<1>6. ASSUME NEW r \in Receipts PROVE PhotoOK(r)'
  BY <1>1 DEF ShopInv, PhotoOK
<1>7. MergeOK'
  <2>. SUFFICES ASSUME NEW q \in StoredAt(reviews[x])
                PROVE  receipts[q].stage = "stored" /\ receipts[q].of = reviews[x]
    BY <1>1 DEF MergeOK
  <2>. QED
    BY <1>2, <1>3, StoredAtRow DEF ShopType
<1>8. Resembling'
  BY <1>1 DEF ShopInv, Resembling, Staged
<1>. QED
  BY <1>5, <1>6, <1>7, <1>8 DEF ShopInv

LEMMA MergeCommitsInv ==
    ASSUME ShopInv, MergeCommits
    PROVE  ShopInv'
<1>. DEFINE kept == (booked \cup {merge.row}) \ {reviews[merge.row]}
<1>1. /\ Merging
      /\ booked' = kept
      /\ reviews' = [ReviewsOf(kept) EXCEPT ![merge.row] = NoExpense]
      /\ receipts' = MergedReceipts(kept)
      /\ merge' = NoMerge
      /\ UNCHANGED <<entered, files>>
  BY DEF MergeCommits
<1>2. ShopType
  BY DEF ShopInv
<1>3. /\ kept \subseteq booked \cup {merge.row}
      /\ merge.row \in kept /\ merge.row \in BankRows
      /\ kept \cap Manuals \subseteq booked
  BY <1>1, <1>2, MergeRow, ShopAssumption
<1>. HIDE DEF kept
<1>4. \A r \in Receipts : receipts[r] \in Photo
  BY <1>2 DEF ShopType
<1>5. \A r \in Receipts : receipts'[r] = IF r \in merge.moved
                                         THEN [stage |-> "stored", of |-> merge.row]
                                         ELSE Cascaded(receipts[r], kept)
  BY <1>1 DEF MergedReceipts
<1>6. receipts' \in [Receipts -> Photo]
  <2>1. [stage |-> "stored", of |-> merge.row] \in Photo
    BY <1>3 DEF Photo, Stages
  <2>2. \A r \in Receipts : Cascaded(receipts[r], kept) \in Photo
    BY <1>4, CascadedPhoto
  <2>3. \A r \in Receipts : receipts'[r] \in Photo
    BY <1>5, <2>1, <2>2
  <2>4. receipts' = [r \in Receipts |-> receipts'[r]]
    BY <1>1 DEF MergedReceipts
  <2>. QED
    BY <2>3, <2>4
<1>7. \A x \in BankRows : /\ reviews'[x] \in (kept \cap Manuals) \cup {NoExpense}
                          /\ reviews'[x] # NoExpense => reviews'[x] = reviews[x]
  <2>. SUFFICES ASSUME NEW x \in BankRows
                PROVE  /\ reviews'[x] \in (kept \cap Manuals) \cup {NoExpense}
                       /\ reviews'[x] # NoExpense => reviews'[x] = reviews[x]
    OBVIOUS
  <2>1. CASE x = merge.row
    BY <1>1, <1>2, <2>1, QueueKept
  <2>2. CASE x # merge.row
    <3>1. reviews'[x] = ReviewsOf(kept)[x]
      BY <1>1, <1>2, <2>2, QueueKept
    <3>. QED
      BY <1>2, <3>1, QueueKept
  <2>. QED
    BY <2>1, <2>2
<1>8. reviews' \in [BankRows -> (booked' \cap Manuals) \cup {NoExpense}]
  <2>1. reviews' = [x \in BankRows |-> reviews'[x]]
    BY <1>1 DEF ReviewsOf
  <2>. QED
    BY <1>1, <1>7, <2>1
<1>9. ShopType'
  BY <1>1, <1>2, <1>3, <1>6, <1>8 DEF ShopType
<1>10. ASSUME NEW r \in Receipts PROVE PhotoOK(r)'
  <2>1. PhotoOK(r) /\ NoExpense \notin booked
    BY <1>2, ShopAssumption DEF ShopInv, ShopType
  <2>2. CASE r \in merge.moved
    <3>1. receipts[r].stage = "stored"
      BY <1>1, <2>2 DEF ShopInv, MergeOK
    <3>2. receipts'[r].of = merge.row
      BY <1>5, <2>2
    <3>. QED
      BY <1>1, <1>3, <2>1, <3>1, <3>2 DEF PhotoOK
  <2>3. CASE r \notin merge.moved
    <3>1. /\ receipts'[r].stage \in {receipts[r].stage, "gone"}
          /\ receipts'[r].stage = "stored" =>
               receipts'[r] = receipts[r] /\ receipts[r].of \in kept \cup {NoExpense}
      BY <1>4, <1>5, <2>3, CascadedPhoto
    <3>. QED
      BY <1>1, <2>1, <3>1 DEF PhotoOK
  <2>. QED
    BY <2>2, <2>3
<1>11. MergeOK'
  BY <1>1 DEF MergeOK, Merging
<1>12. Resembling'
  BY <1>7 DEF ShopInv, Resembling, Staged
<1>. QED
  BY <1>9, <1>10, <1>11, <1>12 DEF ShopInv

LEMMA MergeFailsInv ==
    ASSUME ShopInv, MergeFails
    PROVE  ShopInv'
<1>1. merge' = NoMerge /\ UNCHANGED <<booked, entered, reviews, receipts, files>>
  BY DEF MergeFails
<1>2. ShopType'
  BY <1>1 DEF ShopInv, ShopType
<1>3. ASSUME NEW r \in Receipts PROVE PhotoOK(r)'
  BY <1>1 DEF ShopInv, PhotoOK
<1>4. MergeOK' /\ Resembling'
  BY <1>1 DEF ShopInv, MergeOK, Merging, Resembling, Staged
<1>. QED
  BY <1>2, <1>3, <1>4 DEF ShopInv

(* One line of the queue changes, which no merge has locked.                 *)
LEMMA QueueStep ==
    ASSUME ShopInv, NEW x \in BankRows, NEW m \in (booked \cap Manuals) \cup {NoExpense},
           m # NoExpense => Worth[m] = Worth[x],
           reviews' = [reviews EXCEPT ![x] = m],
           UNCHANGED <<booked, entered, receipts, files, merge>>,
           Free(x)
    PROVE  ShopInv'
<1>1. ShopType
  BY DEF ShopInv
<1>2. reviews'[x] = m /\ \A y \in BankRows \ {x} : reviews'[y] = reviews[y]
  BY <1>1 DEF ShopType
<1>3. Merging => reviews'[merge.row] = reviews[merge.row] /\ merge.row \in BankRows
  BY <1>1, <1>2, MergeRow DEF Free
<1>4. merge' \in {NoMerge} \cup [row: {y \in BankRows : Staged(y)'}, moved: SUBSET Receipts]
  <2>1. CASE ~Merging
    BY <2>1 DEF Merging
  <2>2. CASE Merging
    <3>1. merge \in [row: {y \in BankRows : Staged(y)}, moved: SUBSET Receipts]
      BY <1>1, <2>2 DEF ShopType, Merging
    <3>2. merge.row \in {y \in BankRows : Staged(y)'}
      BY <1>1, <1>3, <2>2, MergeRow DEF Staged
    <3>. QED
      BY <3>1, <3>2
  <2>. QED
    BY <2>1, <2>2
<1>5. ShopType'
  BY <1>1, <1>4 DEF ShopType
<1>6. ASSUME NEW r \in Receipts PROVE PhotoOK(r)'
  BY DEF ShopInv, PhotoOK
<1>7. MergeOK'
  BY <1>3 DEF ShopInv, MergeOK, Merging
<1>8. Resembling'
  BY <1>2 DEF ShopInv, Resembling, Staged
<1>. QED
  BY <1>5, <1>6, <1>7, <1>8 DEF ShopInv

LEMMA DeletePendingImportReviewInv ==
    ASSUME ShopInv, NEW x \in BankRows, DeletePendingImportReview(x)
    PROVE  ShopInv'
BY QueueStep DEF DeletePendingImportReview

(* A bank line is put in the books.                                          *)
LEMMA BookedInv ==
    ASSUME ShopInv, NEW x \in BankRows, booked' = booked \cup {x},
           UNCHANGED <<entered, reviews, receipts, files, merge>>
    PROVE  ShopInv'
<1>1. booked' \cap Manuals = booked \cap Manuals
  BY ShopAssumption
<1>2. ShopType'
  BY <1>1 DEF ShopInv, ShopType, Staged
<1>3. ASSUME NEW r \in Receipts PROVE PhotoOK(r)'
  BY DEF ShopInv, PhotoOK
<1>4. MergeOK' /\ Resembling'
  BY DEF ShopInv, MergeOK, Merging, Resembling, Staged
<1>. QED
  BY <1>2, <1>3, <1>4 DEF ShopInv

LEMMA InterruptedInv ==
    ASSUME ShopInv, Interrupted
    PROVE  ShopInv'
<1>1. /\ receipts' = [r \in Receipts |->
                        IF receipts[r].stage \in Underway THEN Over ELSE receipts[r]]
      /\ merge' = NoMerge
      /\ UNCHANGED <<booked, entered, reviews, files>>
  BY DEF Interrupted
<1>2. receipts' \in [Receipts -> Photo]
  BY <1>1, OverPhoto DEF ShopInv, ShopType
<1>3. ShopType'
  BY <1>1, <1>2 DEF ShopInv, ShopType
<1>4. ASSUME NEW r \in Receipts PROVE PhotoOK(r)'
  <2>1. receipts'[r] = Over \/ receipts'[r] = receipts[r]
    BY <1>1
  <2>. QED
    BY <1>1, <2>1, OverPhoto DEF ShopInv, PhotoOK
<1>5. MergeOK' /\ Resembling'
  BY <1>1 DEF ShopInv, MergeOK, Merging, Resembling, Staged
<1>. QED
  BY <1>3, <1>4, <1>5 DEF ShopInv

LEMMA ShopNextInv ==
    ASSUME ShopInv, ShopNext
    PROVE  ShopInv'
BY InsertShopExpenseInv, DeleteShopExpenseInv, MergeMovesReceiptsInv, MergeCommitsInv,
   MergeFailsInv, DeletePendingImportReviewInv, UploadChecksInv, UploadWritesFileInv,
   InsertShopExpenseReceiptInv, UploadFailsInv, DeleteShopExpenseReceiptByIDInv,
   RemoveFileInv DEF ShopNext

-----------------------------------------------------------------------------
(* The bank's side. What a screen offers was accorded and paid by Tikkie     *)
(* when it was fetched, and that is for good.                                *)
BankType ==
    /\ credits \in [Credits -> CreditRow]
    /\ sales \in [Sales -> SaleRow]
    /\ panel \in [Admins -> SUBSET Panels]

Tikkied(s) == sales[s].status = "fulfilled" /\ sales[s].method = "tikkie"

OffersPaid == \A a \in Admins : \A p \in panel[a] : \A s \in p.offered : Tikkied(s)

(* What the row of line c may be, the other rows being what they are.        *)
RowFits(c, row) ==
    IF row.status = "matched_sale"
    THEN /\ row.sale \in Sales
         /\ Tikkied(row.sale)
         /\ Paid[c] = Price[row.sale]
         /\ ~row.relabelled => PurposeMatchesCardKind(row.purpose, Kind[row.sale])
         /\ \A d \in Credits \ {c} : credits[d].sale # row.sale
    ELSE row.sale = NoSale

BankInv ==
    /\ BankType
    /\ OffersPaid
    /\ \A c \in Credits : RowFits(c, credits[c])

LEMMA TikkiedRow ==
    ASSUME BankType, NEW s \in Sales
    PROVE  Tikkied(s) <=> sales[s] = [status |-> "fulfilled", method |-> "tikkie"]
<1>1. sales[s] \in SaleRow
  BY DEF BankType
<1>2. sales[s] = [status |-> sales[s].status, method |-> sales[s].method]
  BY <1>1 DEF SaleRow
<1>. QED
  BY <1>2 DEF Tikkied

LEMMA FitsAll ==
    ASSUME BankInv
    PROVE  LinkedFits
<1>. SUFFICES ASSUME NEW c \in Credits
              PROVE  IF credits[c].status = "matched_sale"
                     THEN /\ credits[c].sale \in Sales
                          /\ sales[credits[c].sale] = [status |-> "fulfilled", method |-> "tikkie"]
                          /\ Paid[c] = Price[credits[c].sale]
                          /\ ~credits[c].relabelled =>
                               PurposeMatchesCardKind(credits[c].purpose, Kind[credits[c].sale])
                          /\ \A d \in Credits \ {c} : credits[d].sale # credits[c].sale
                     ELSE credits[c].sale = NoSale
  BY DEF LinkedFits
<1>1. RowFits(c, credits[c]) /\ BankType
  BY DEF BankInv
<1>. QED
  BY <1>1, TikkiedRow DEF RowFits

LEMMA AbsentRow == /\ Absent \in CreditRow
                   /\ Absent.status = "absent" /\ Absent.sale = NoSale
BY DEF Absent, CreditRow, Purposes

LEMMA BankInitInv == BankInit => BankInv
<1>. SUFFICES ASSUME BankInit PROVE BankInv
  OBVIOUS
<1>1. [status |-> "pending", method |-> "tikkie"] \in SaleRow
  BY DEF SaleRow, Methods
<1>2. BankType
  BY <1>1, AbsentRow DEF BankInit, BankType
<1>3. OffersPaid
  BY DEF BankInit, OffersPaid
<1>4. ASSUME NEW c \in Credits PROVE RowFits(c, credits[c])
  <2>1. credits[c] = Absent
    BY DEF BankInit
  <2>. QED
    BY <2>1, AbsentRow DEF RowFits
<1>. QED
  BY <1>2, <1>3, <1>4 DEF BankInv

(* One row changes into one that fits, and no screen offers more.            *)
LEMMA CreditStep ==
    ASSUME BankInv, NEW c \in Credits, NEW row \in CreditRow, RowFits(c, row),
           credits' = [credits EXCEPT ![c] = row], sales' = sales,
           panel' \in [Admins -> SUBSET Panels],
           \A a \in Admins : panel'[a] \subseteq panel[a]
    PROVE  BankInv'
<1>1. BankType /\ \A d \in Credits : RowFits(d, credits[d])
  BY DEF BankInv
<1>2. credits'[c] = row /\ \A d \in Credits \ {c} : credits'[d] = credits[d]
  BY <1>1 DEF BankType
<1>3. BankType'
  BY <1>1 DEF BankType
<1>4. OffersPaid'
  BY DEF BankInv, OffersPaid, Tikkied
<1>5. ASSUME NEW d \in Credits PROVE RowFits(d, credits[d])'
  <2>1. CASE d = c
    BY <1>2, <2>1 DEF RowFits, Tikkied
  <2>2. CASE d # c
    <3>1. credits'[d] = credits[d] /\ RowFits(d, credits[d])
      BY <1>1, <1>2, <2>2
    <3>2. credits[d].status = "matched_sale" => credits'[c].sale # credits[d].sale
      BY <1>2, <2>2, <3>1, BankAssumption DEF RowFits
    <3>. QED
      BY <1>2, <2>2, <3>1, <3>2 DEF RowFits, Tikkied
  <2>. QED
    BY <2>1, <2>2
<1>. QED
  BY <1>3, <1>4, <1>5 DEF BankInv

LEMMA OpenPanelInv ==
    ASSUME BankInv, NEW a \in Admins, NEW c \in Credits, OpenPanel(a, c)
    PROVE  BankInv'
<1>. DEFINE p == [credit |-> c, offered |-> Candidates(c)]
<1>1. /\ panel' = [panel EXCEPT ![a] = {p}]
      /\ UNCHANGED <<credits, sales>>
  BY DEF OpenPanel
<1>2. p \in Panels /\ p.offered = Candidates(c)
  BY DEF Panels, Candidates
<1>3. \A s \in p.offered : Tikkied(s)
  BY <1>2 DEF Candidates, Tikkied
<1>. HIDE DEF p
<1>4. BankType'
  BY <1>1, <1>2 DEF BankInv, BankType
<1>5. OffersPaid'
  BY <1>1, <1>3 DEF BankInv, BankType, OffersPaid, Tikkied
<1>6. ASSUME NEW d \in Credits PROVE RowFits(d, credits[d])'
  BY <1>1 DEF BankInv, RowFits, Tikkied
<1>. QED
  BY <1>4, <1>5, <1>6 DEF BankInv

LEMMA LinkBankCreditToCardRequestInv ==
    ASSUME BankInv, NEW a \in Admins, LinkBankCreditToCardRequest(a)
    PROVE  BankInv'
<1>. DEFINE Linked(p, s) ==
        /\ credits[p.credit].status = "open"
        /\ Fits(p.credit, s)
        /\ ~AlreadyMatched(s)
        /\ credits' = [credits EXCEPT ![p.credit] =
                         [credits[p.credit] EXCEPT !.status = "matched_sale", !.sale = s]]
        /\ panel' = [panel EXCEPT ![a] = {}]
        /\ sales' = sales
<1>0. PICK p \in panel[a] : \E s \in p.offered : Linked(p, s)
  BY DEF LinkBankCreditToCardRequest
<1>1. PICK s \in p.offered : Linked(p, s)
  BY <1>0
<1>2. p \in Panels
  BY DEF BankInv, BankType
<1>3. p.credit \in Credits /\ s \in Sales
  BY <1>1, <1>2 DEF Panels
<1>4. credits[p.credit] \in CreditRow
  BY <1>3 DEF BankInv, BankType
<1>. DEFINE row == [credits[p.credit] EXCEPT !.status = "matched_sale", !.sale = s]
<1>5. /\ row \in CreditRow
      /\ row.status = "matched_sale" /\ row.sale = s
      /\ row.purpose = credits[p.credit].purpose
  BY <1>3, <1>4 DEF CreditRow
<1>6. credits' = [credits EXCEPT ![p.credit] = row]
  BY <1>1
<1>. HIDE DEF row
<1>7. Tikkied(s)
  BY <1>1 DEF BankInv, OffersPaid
<1>8. RowFits(p.credit, row)
  BY <1>1, <1>3, <1>5, <1>7 DEF RowFits, Fits, AlreadyMatched
<1>9. /\ panel' \in [Admins -> SUBSET Panels]
      /\ \A b \in Admins : panel'[b] \subseteq panel[b]
  BY <1>1 DEF BankInv, BankType
<1>. QED
  BY <1>1, <1>3, <1>5, <1>6, <1>8, <1>9, CreditStep

LEMMA UnlinkBankCreditMatchInv ==
    ASSUME BankInv, NEW c \in Credits, UnlinkBankCreditMatch(c)
    PROVE  BankInv'
<1>. DEFINE row == [credits[c] EXCEPT !.status = "open", !.sale = NoSale, !.relabelled = FALSE]
<1>1. /\ credits' = [credits EXCEPT ![c] = row]
      /\ UNCHANGED <<sales, panel>>
  BY DEF UnlinkBankCreditMatch
<1>2. credits[c] \in CreditRow /\ panel \in [Admins -> SUBSET Panels]
  BY DEF BankInv, BankType
<1>3. row \in CreditRow /\ row.status = "open" /\ row.sale = NoSale
  BY <1>2 DEF CreditRow
<1>. HIDE DEF row
<1>4. RowFits(c, row)
  BY <1>3 DEF RowFits
<1>. QED
  BY <1>1, <1>2, <1>3, <1>4, CreditStep

LEMMA WaiveBankCreditFromOpenRevenueInv ==
    ASSUME BankInv, NEW c \in Credits, WaiveBankCreditFromOpenRevenue(c)
    PROVE  BankInv'
<1>. DEFINE row == [credits[c] EXCEPT !.status = "waived"]
<1>1. /\ credits' = [credits EXCEPT ![c] = row]
      /\ credits[c].status = "open"
      /\ UNCHANGED <<sales, panel>>
  BY DEF WaiveBankCreditFromOpenRevenue
<1>2. /\ credits[c] \in CreditRow /\ panel \in [Admins -> SUBSET Panels]
      /\ RowFits(c, credits[c])
  BY DEF BankInv, BankType
<1>3. row \in CreditRow /\ row.status = "waived" /\ row.sale = credits[c].sale
  BY <1>2 DEF CreditRow
<1>. HIDE DEF row
<1>4. RowFits(c, row)
  BY <1>1, <1>2, <1>3 DEF RowFits
<1>. QED
  BY <1>1, <1>2, <1>3, <1>4, CreditStep

LEMMA UpsertImportedBankCreditInv ==
    ASSUME BankInv, NEW c \in Credits, NEW purpose \in Purposes,
           UpsertImportedBankCredit(c, purpose), UNCHANGED <<sales, panel>>
    PROVE  BankInv'
<1>. DEFINE new == [Absent EXCEPT !.status = "open", !.purpose = purpose]
            old == [credits[c] EXCEPT
                      !.purpose = purpose,
                      !.relabelled = \/ credits[c].relabelled
                                     \/ credits[c].sale # NoSale /\ credits[c].purpose # purpose]
<1>1. /\ credits[c] \in CreditRow /\ panel \in [Admins -> SUBSET Panels]
      /\ RowFits(c, credits[c])
  BY DEF BankInv, BankType
<1>2. credits' = [credits EXCEPT ![c] = IF credits[c].status = "absent" THEN new ELSE old]
  BY DEF UpsertImportedBankCredit
<1>3. new \in CreditRow /\ new.status = "open" /\ new.sale = NoSale
  BY AbsentRow DEF CreditRow
<1>4. old \in CreditRow
  BY <1>1 DEF CreditRow
<1>5. /\ old.status = credits[c].status /\ old.sale = credits[c].sale
      /\ old.purpose = purpose
  BY <1>1 DEF CreditRow
<1>6. ~old.relabelled => \/ credits[c].sale = NoSale
                         \/ credits[c].purpose = purpose /\ ~credits[c].relabelled
  BY <1>1 DEF CreditRow
<1>. HIDE DEF new, old
<1>7. RowFits(c, new)
  BY <1>3 DEF RowFits
<1>8. RowFits(c, old)
  BY <1>1, <1>5, <1>6, BankAssumption DEF RowFits
<1>9. CASE credits[c].status = "absent"
  BY <1>1, <1>2, <1>3, <1>7, <1>9, CreditStep
<1>10. CASE credits[c].status # "absent"
  BY <1>1, <1>2, <1>4, <1>8, <1>10, CreditStep
<1>. QED
  BY <1>9, <1>10

(* A sale that is still open is closed; nothing else was said about it.      *)
LEMMA SaleStep ==
    ASSUME BankInv, NEW s \in Sales, NEW row \in SaleRow, sales[s].status = "pending",
           sales' = [sales EXCEPT ![s] = row], UNCHANGED <<credits, panel>>
    PROVE  BankInv'
<1>1. BankType'
  BY DEF BankInv, BankType
<1>2. \A t \in Sales : Tikkied(t) => Tikkied(t)'
  BY DEF BankInv, BankType, Tikkied
<1>3. OffersPaid'
  <2>1. ASSUME NEW a \in Admins, NEW p \in panel[a], NEW t \in p.offered
        PROVE  Tikkied(t)'
    <3>1. p \in Panels
      BY DEF BankInv, BankType
    <3>2. t \in Sales
      BY <3>1 DEF Panels
    <3>. QED
      BY <1>2, <3>2 DEF BankInv, OffersPaid
  <2>. QED
    BY <2>1 DEF OffersPaid
<1>4. ASSUME NEW c \in Credits PROVE RowFits(c, credits[c])'
  BY <1>2 DEF BankInv, RowFits
<1>. QED
  BY <1>1, <1>3, <1>4 DEF BankInv

LEMMA FulfillCardRequestInv ==
    ASSUME BankInv, NEW s \in Sales, NEW method \in Methods, FulfillCardRequest(s, method)
    PROVE  BankInv'
<1>1. [status |-> "fulfilled", method |-> method] \in SaleRow
  BY DEF SaleRow
<1>. QED
  BY <1>1, SaleStep DEF FulfillCardRequest

LEMMA CancelCardRequestInv ==
    ASSUME BankInv, NEW s \in Sales, CancelCardRequest(s)
    PROVE  BankInv'
<1>. DEFINE row == [sales[s] EXCEPT !.status = "cancelled"]
<1>1. row \in SaleRow
  BY DEF BankInv, BankType, SaleRow
<1>2. /\ sales' = [sales EXCEPT ![s] = row] /\ sales[s].status = "pending"
      /\ UNCHANGED <<credits, panel>>
  BY DEF CancelCardRequest
<1>. HIDE DEF row
<1>. QED
  BY <1>1, <1>2, SaleStep

LEMMA BankNextInv ==
    ASSUME BankInv, BankNext
    PROVE  BankInv'
BY OpenPanelInv, LinkBankCreditToCardRequestInv, UnlinkBankCreditMatchInv,
   WaiveBankCreditFromOpenRevenueInv, FulfillCardRequestInv, CancelCardRequestInv DEF BankNext

-----------------------------------------------------------------------------
(* An import has a line in hand for as long as it has a plan for it, and the *)
(* booking it plans to show beside the line is of the same worth.            *)
PlanFits(row) ==
    /\ row.plan # Undecided => row.line \in BankRows
    /\ row.plan \in Manuals => Worth[row.plan] = Worth[row.line]

JobInv ==
    /\ job \in [Imports -> Job]
    /\ \A i \in Imports : PlanFits(job[i])

IInv == ShopInv /\ BankInv /\ JobInv

LEMMA Type == IInv => TypeOK
BY DEF IInv, ShopInv, ShopType, BankInv, BankType, JobInv, TypeOK

LEMMA IdleRow ==
    ASSUME NEW todo \in SUBSET Lines
    PROVE  /\ [Idle EXCEPT !.todo = todo] \in Job /\ PlanFits([Idle EXCEPT !.todo = todo])
           /\ Idle \in Job /\ PlanFits(Idle)
<1>1. /\ [Idle EXCEPT !.todo = todo] \in Job
      /\ [Idle EXCEPT !.todo = todo].plan = Undecided
  BY DEF Idle, Job, Lines
<1>2. Idle \in Job /\ Idle.plan = Undecided
  BY DEF Idle, Job, Lines
<1>. QED
  BY <1>1, <1>2, ImportAssumption DEF PlanFits

LEMMA JobStep ==
    ASSUME JobInv, NEW i \in Imports, NEW row \in Job, PlanFits(row),
           job' = [job EXCEPT ![i] = row]
    PROVE  JobInv'
<1>1. job' \in [Imports -> Job]
  BY DEF JobInv
<1>2. \A k \in Imports : job'[k] = row \/ job'[k] = job[k]
  BY DEF JobInv
<1>3. \A k \in Imports : PlanFits(job[k])'
  BY <1>2 DEF JobInv, PlanFits
<1>. QED
  BY <1>1, <1>3 DEF JobInv

LEMMA BeginInv ==
    ASSUME JobInv, NEW i \in Imports, NEW todo \in SUBSET Lines, Begin(i, todo)
    PROVE  JobInv'
<1>. DEFINE row == [Idle EXCEPT !.todo = todo]
<1>1. row \in Job /\ PlanFits(row)
  BY IdleRow
<1>2. job' = [job EXCEPT ![i] = row]
  BY DEF Begin
<1>. HIDE DEF row
<1>. QED
  BY <1>1, <1>2, JobStep

LEMMA StillToDo ==
    ASSUME JobInv, NEW i \in Imports
    PROVE  /\ job[i].todo \in SUBSET Lines
           /\ job[i].plan # Undecided => job[i].line \in BankRows
           /\ job[i].plan \in Manuals => Worth[job[i].plan] = Worth[job[i].line]
<1>1. job[i] \in Job /\ PlanFits(job[i])
  BY DEF JobInv
<1>. QED
  BY <1>1 DEF Job, PlanFits

(* Steps that leave a part alone keep it.                                    *)
LEMMA ShopSame == ShopInv /\ UNCHANGED shopVars => ShopInv'
<1>. SUFFICES ASSUME ShopInv, UNCHANGED shopVars PROVE ShopInv'
  OBVIOUS
<1>1. UNCHANGED <<booked, entered, reviews, receipts, files, merge>>
  BY DEF shopVars
<1>2. ShopType'
  BY <1>1 DEF ShopInv, ShopType, Staged
<1>3. ASSUME NEW r \in Receipts PROVE PhotoOK(r)'
  BY <1>1 DEF ShopInv, PhotoOK
<1>4. MergeOK' /\ Resembling'
  BY <1>1 DEF ShopInv, MergeOK, Merging, Resembling, Staged
<1>. QED
  BY <1>2, <1>3, <1>4 DEF ShopInv

LEMMA BankSame == BankInv /\ UNCHANGED bankVars => BankInv'
<1>. SUFFICES ASSUME BankInv, UNCHANGED bankVars PROVE BankInv'
  OBVIOUS
<1>1. UNCHANGED <<credits, sales, panel>>
  BY DEF bankVars
<1>2. BankType'
  BY <1>1 DEF BankInv, BankType
<1>3. OffersPaid'
  BY <1>1 DEF BankInv, OffersPaid, Tikkied
<1>4. ASSUME NEW c \in Credits PROVE RowFits(c, credits[c])'
  BY <1>1 DEF BankInv, RowFits, Tikkied
<1>. QED
  BY <1>2, <1>3, <1>4 DEF BankInv

LEMMA JobSame == JobInv /\ UNCHANGED job => JobInv'
BY DEF JobInv, PlanFits

-----------------------------------------------------------------------------
(* The steps of an import.                                                   *)
LEMMA StartImportInv ==
    ASSUME IInv, NEW i \in Imports, StartImport(i)
    PROVE  IInv'
<1>1. PICK statement \in Statements : \E todo \in SUBSET statement : Begin(i, todo)
  BY DEF StartImport
<1>2. PICK todo \in SUBSET statement : Begin(i, todo)
  BY <1>1
<1>3. todo \in SUBSET Lines
  BY ImportAssumption
<1>. QED
  BY <1>2, <1>3, BeginInv, ShopSame, BankSame DEF StartImport, IInv

LEMMA ClassifyDebitRowInv ==
    ASSUME IInv, NEW i \in Imports, NEW x \in BankRows, ClassifyDebitRow(i, x)
    PROVE  IInv'
<1>1. PICK plan \in Plans(x) :
        job' = [job EXCEPT ![i] = [todo |-> job[i].todo \ {x}, line |-> x, plan |-> plan]]
  BY DEF ClassifyDebitRow
<1>. DEFINE row == [todo |-> job[i].todo \ {x}, line |-> x, plan |-> plan]
<1>2. \/ plan = Book
      \/ plan \in Manuals /\ Worth[plan] = Worth[x]
  BY DEF Plans, FindMatchingManualExpenses
<1>3. row \in Job
  BY <1>2, StillToDo DEF Job, IInv
<1>4. PlanFits(row)
  BY <1>2, ImportAssumption DEF PlanFits
<1>5. job' = [job EXCEPT ![i] = row]
  BY <1>1
<1>. HIDE DEF row
<1>6. JobInv'
  BY <1>3, <1>4, <1>5, JobStep DEF IInv
<1>. QED
  BY <1>6, ShopSame, BankSame DEF ClassifyDebitRow, IInv

LEMMA UpsertImportedShopExpenseInv ==
    ASSUME IInv, NEW i \in Imports, UpsertImportedShopExpense(i)
    PROVE  IInv'
<1>1. /\ job[i].line \in BankRows
      /\ job[i].todo \in SUBSET Lines
  BY StillToDo, ImportAssumption DEF UpsertImportedShopExpense, IInv
<1>2. ShopInv'
  BY <1>1, BookedInv DEF UpsertImportedShopExpense, IInv
<1>3. JobInv'
  BY <1>1, BeginInv DEF UpsertImportedShopExpense, IInv
<1>. QED
  BY <1>2, <1>3, BankSame DEF UpsertImportedShopExpense, IInv

LEMMA InsertPendingImportReviewInv ==
    ASSUME IInv, NEW i \in Imports, InsertPendingImportReview(i)
    PROVE  IInv'
<1>. DEFINE x == job[i].line
            m == job[i].plan
<1>1. /\ m \in Manuals /\ Free(x) /\ Begin(i, job[i].todo)
      /\ UNCHANGED <<booked, entered, receipts, files, merge, bankVars>>
      /\ \/ UNCHANGED reviews
         \/ m \in booked /\ reviews' = [reviews EXCEPT ![x] = m]
  BY DEF InsertPendingImportReview
<1>2. x \in BankRows /\ Worth[m] = Worth[x] /\ job[i].todo \in SUBSET Lines
  BY <1>1, StillToDo, ImportAssumption DEF IInv
<1>. HIDE DEF x, m
<1>3. ShopInv'
  <2>1. CASE UNCHANGED reviews
    BY <1>1, <2>1, ShopSame DEF shopVars, IInv
  <2>2. CASE m \in booked /\ reviews' = [reviews EXCEPT ![x] = m]
    BY <1>1, <1>2, <2>2, QueueStep DEF IInv
  <2>. QED
    BY <1>1, <2>1, <2>2
<1>4. JobInv'
  BY <1>1, <1>2, BeginInv DEF IInv
<1>. QED
  BY <1>1, <1>3, <1>4, BankSame DEF IInv

LEMMA ImportCreditRowInv ==
    ASSUME IInv, NEW i \in Imports, NEW c \in Credits, ImportCreditRow(i, c)
    PROVE  IInv'
<1>1. PICK purpose \in Purposes : UpsertImportedBankCredit(c, purpose)
  BY DEF ImportCreditRow
<1>2. BankInv'
  BY <1>1, UpsertImportedBankCreditInv DEF ImportCreditRow, IInv
<1>3. job[i].todo \ {c} \in SUBSET Lines
  BY StillToDo DEF IInv
<1>4. JobInv'
  BY <1>3, BeginInv DEF ImportCreditRow, IInv
<1>. QED
  BY <1>2, <1>4, ShopSame DEF ImportCreditRow, IInv

LEMMA ImportFailsInv ==
    ASSUME IInv, NEW i \in Imports, ImportFails(i)
    PROVE  IInv'
<1>1. Idle \in Job /\ PlanFits(Idle)
  BY IdleRow
<1>2. JobInv'
  BY <1>1, JobStep DEF ImportFails, Stop, IInv
<1>. QED
  BY <1>2, ShopSame, BankSame DEF ImportFails, IInv

LEMMA CrashInv ==
    ASSUME IInv, Crash
    PROVE  IInv'
<1>1. Idle \in Job /\ PlanFits(Idle)
  BY IdleRow
<1>2. JobInv'
  BY <1>1 DEF Crash, JobInv, PlanFits
<1>. QED
  BY <1>2, InterruptedInv, BankSame DEF Crash, IInv

LEMMA Inductive == /\ Init => IInv
                   /\ IInv /\ [Next]_vars => IInv'
<1>1. Init => IInv
  <2>. SUFFICES ASSUME Init PROVE IInv
    OBVIOUS
  <2>1. Idle \in Job /\ PlanFits(Idle)
    BY IdleRow
  <2>2. JobInv
    BY <2>1 DEF Init, JobInv
  <2>. QED
    BY <2>2, ShopInitInv, BankInitInv DEF Init, IInv
<1>2. ASSUME IInv, [Next]_vars PROVE IInv'
  <2>1. CASE ShopNext /\ UNCHANGED <<bankVars, job>>
    BY <1>2, <2>1, ShopNextInv, BankSame, JobSame DEF IInv
  <2>2. CASE BankNext /\ UNCHANGED <<shopVars, job>>
    BY <1>2, <2>2, BankNextInv, ShopSame, JobSame DEF IInv
  <2>3. ASSUME NEW i \in Imports, StartImport(i) PROVE IInv'
    BY <1>2, <2>3, StartImportInv
  <2>4. ASSUME NEW i \in Imports, NEW x \in BankRows, ClassifyDebitRow(i, x) PROVE IInv'
    BY <1>2, <2>4, ClassifyDebitRowInv
  <2>5. ASSUME NEW i \in Imports, UpsertImportedShopExpense(i) PROVE IInv'
    BY <1>2, <2>5, UpsertImportedShopExpenseInv
  <2>6. ASSUME NEW i \in Imports, InsertPendingImportReview(i) PROVE IInv'
    BY <1>2, <2>6, InsertPendingImportReviewInv
  <2>7. ASSUME NEW i \in Imports, NEW c \in Credits, ImportCreditRow(i, c) PROVE IInv'
    BY <1>2, <2>7, ImportCreditRowInv
  <2>8. ASSUME NEW i \in Imports, ImportFails(i) PROVE IInv'
    BY <1>2, <2>8, ImportFailsInv
  <2>9. CASE Crash
    BY <1>2, <2>9, CrashInv
  <2>10. CASE UNCHANGED vars
    BY <1>2, <2>10, ShopSame, BankSame, JobSame DEF vars, IInv
  <2>. QED
    BY <1>2, <2>1, <2>2, <2>3, <2>4, <2>5, <2>6, <2>7, <2>8, <2>9, <2>10 DEF Next
<1>. QED
  BY <1>1, <1>2

LEMMA Invariant == Spec => []IInv
BY Inductive, PTL DEF Spec

-----------------------------------------------------------------------------
(* Every table holds what it can hold, and a merge is about a line that is   *)
(* still in the queue, for every number of bookings, lines and imports.      *)
THEOREM TypeCorrect == Spec => []TypeOK
BY Invariant, Type, PTL

(* A stored photo always has its file and its booking, whatever was cut off. *)
THEOREM PhotosShown == Spec => []PhotosCanBeShown
<1>1. IInv => PhotosCanBeShown
  <2>. SUFFICES ASSUME IInv PROVE PhotosCanBeShown
    OBVIOUS
  <2>1. ShopInv /\ ShopType
    BY DEF IInv, ShopInv
  <2>2. ASSUME NEW r \in Receipts, receipts[r].stage = "stored"
        PROVE  r \in files /\ receipts[r].of \in booked
    BY <2>1, <2>2 DEF ShopInv, PhotoOK
  <2>3. ASSUME Merging, NEW r \in merge.moved PROVE r \in StoredAt(reviews[merge.row])
    <3>1. r \in Receipts
      BY <2>1, <2>3, MergeRow
    <3>2. receipts[r].stage = "stored" /\ receipts[r].of = reviews[merge.row]
      BY <2>1, <2>3 DEF ShopInv, MergeOK
    <3>. QED
      BY <2>1, <3>1, <3>2, StoredAtRow DEF ShopType
  <2>. QED
    BY <2>2, <2>3 DEF PhotosCanBeShown
<1>. QED
  BY <1>1, Invariant, PTL

(* No sale is paid for by two bank lines, and a linked line fits its sale.   *)
THEOREM PaidOnce == Spec => []LinkedFits
BY Invariant, FitsAll, PTL DEF IInv

-----------------------------------------------------------------------------
(* What the other steps leave in the books: no booking and no line of the    *)
(* queue goes, a stored photo goes only when it is removed itself, and a     *)
(* merge that ends has changed nothing.                                      *)
Harmless ==
    /\ booked \subseteq booked'
    /\ \A x \in BankRows : Staged(x) => reviews'[x] = reviews[x]
    /\ \A r \in Receipts : receipts[r].stage = "stored" =>
         receipts'[r].stage \in {"stored", "removed"}
    /\ Merging /\ ~Merging' => booked' = booked

LEMMA HarmlessIfSame ==
    ASSUME booked \subseteq booked', reviews' = reviews, receipts' = receipts,
           merge' = merge \/ booked' = booked
    PROVE  Harmless
BY DEF Harmless, Merging

LEMMA HarmlessShopStep ==
    ASSUME IInv, ShopNext
    PROVE  \/ \E e \in Expenses : DeleteShopExpense(e)
           \/ MergeCommits
           \/ \E x \in BankRows : DeletePendingImportReview(x)
           \/ Harmless
<1>. DEFINE Goal == \/ \E e \in Expenses : DeleteShopExpense(e)
                    \/ MergeCommits
                    \/ \E x \in BankRows : DeletePendingImportReview(x)
                    \/ Harmless
<1>0. receipts \in [Receipts -> Photo]
  BY DEF IInv, ShopInv, ShopType
<1>1. ASSUME NEW m \in Manuals, InsertShopExpense(m) PROVE Goal
  BY <1>1, HarmlessIfSame DEF InsertShopExpense
<1>2. ASSUME NEW x \in BankRows, MergeMovesReceipts(x) PROVE Goal
  BY <1>2, HarmlessIfSame DEF MergeMovesReceipts
<1>3. CASE MergeFails
  BY <1>3, HarmlessIfSame DEF MergeFails
<1>4. ASSUME NEW r \in Receipts, NEW e \in Expenses, UploadChecks(r, e) PROVE Goal
  BY <1>0, <1>4 DEF UploadChecks, Harmless, Merging
<1>5. ASSUME NEW r \in Receipts, receipts[r].stage # "stored",
             NEW photo, receipts' = [receipts EXCEPT ![r] = photo],
             UNCHANGED <<booked, reviews, merge>>
      PROVE  Harmless
  BY <1>0, <1>5 DEF Harmless, Merging
<1>6. ASSUME NEW r \in Receipts, UploadWritesFile(r) PROVE Goal
  <2>0. receipts' = [receipts EXCEPT ![r].stage = "written"] /\ "written" \in Stages
    BY <1>6 DEF UploadWritesFile, Stages
  <2>1. PICK photo \in Photo : receipts' = [receipts EXCEPT ![r] = photo]
    BY <1>0, <2>0, StageChanged
  <2>. QED
    BY <1>5, <1>6, <2>1 DEF UploadWritesFile
<1>7. ASSUME NEW r \in Receipts, InsertShopExpenseReceipt(r) PROVE Goal
  <2>0. receipts' = [receipts EXCEPT ![r].stage = "stored"] /\ "stored" \in Stages
    BY <1>7 DEF InsertShopExpenseReceipt, Stages
  <2>1. PICK photo \in Photo : receipts' = [receipts EXCEPT ![r] = photo]
    BY <1>0, <2>0, StageChanged
  <2>. QED
    BY <1>5, <1>7, <2>1 DEF InsertShopExpenseReceipt
<1>8. ASSUME NEW r \in Receipts, UploadFails(r) PROVE Goal
  BY <1>5, <1>8 DEF UploadFails
<1>9. ASSUME NEW r \in Receipts, DeleteShopExpenseReceiptByID(r) PROVE Goal
  <2>1. PICK photo \in Photo : /\ photo.stage = "removed"
                               /\ receipts' = [receipts EXCEPT ![r] = photo]
    BY <1>0, <1>9, StageChanged DEF DeleteShopExpenseReceiptByID, Stages
  <2>2. UNCHANGED <<booked, reviews, merge>>
    BY <1>9 DEF DeleteShopExpenseReceiptByID
  <2>. QED
    BY <1>0, <2>1, <2>2 DEF Harmless, Merging
<1>10. ASSUME NEW r \in Receipts, RemoveFile(r) PROVE Goal
  BY <1>5, <1>10 DEF RemoveFile
<1>. QED
  BY <1>1, <1>2, <1>3, <1>4, <1>6, <1>7, <1>8, <1>9, <1>10 DEF ShopNext

LEMMA HarmlessStep ==
    ASSUME IInv, [Next]_vars
    PROVE  \/ \E e \in Expenses : DeleteShopExpense(e)
           \/ MergeCommits
           \/ \E x \in BankRows : DeletePendingImportReview(x)
           \/ Harmless
<1>1. CASE ShopNext
  BY <1>1, HarmlessShopStep
<1>2. CASE UNCHANGED shopVars
  BY <1>2, HarmlessIfSame DEF shopVars
<1>3. ASSUME NEW i \in Imports, UpsertImportedShopExpense(i) PROVE Harmless
  BY <1>3, HarmlessIfSame DEF UpsertImportedShopExpense
<1>4. ASSUME NEW i \in Imports, InsertPendingImportReview(i) PROVE Harmless
  <2>1. UNCHANGED <<booked, receipts, merge>>
    BY <1>4 DEF InsertPendingImportReview
  <2>2. \A x \in BankRows : Staged(x) => reviews'[x] = reviews[x]
    BY <1>4 DEF InsertPendingImportReview, IInv, ShopInv, ShopType, Staged
  <2>. QED
    BY <2>1, <2>2 DEF Harmless, Merging
<1>5. CASE Crash
  <2>1. /\ UNCHANGED <<booked, reviews>>
        /\ \A r \in Receipts : receipts[r].stage = "stored" => receipts'[r] = receipts[r]
    BY <1>5 DEF Crash, Interrupted, Underway
  <2>. QED
    BY <2>1 DEF Harmless
<1>6. \/ ShopNext \/ UNCHANGED shopVars \/ Crash
      \/ \E i \in Imports : UpsertImportedShopExpense(i) \/ InsertPendingImportReview(i)
  BY DEF Next, vars, StartImport, ClassifyDebitRow, ImportCreditRow, ImportFails
<1>. QED
  BY <1>1, <1>2, <1>3, <1>4, <1>5, <1>6

(* What a removal does: one booking goes, and what hangs on it.              *)
LEMMA DeletionEffect ==
    ASSUME IInv, NEW e \in Expenses, DeleteShopExpense(e)
    PROVE  /\ booked' = booked \ {e} /\ UNCHANGED merge
           /\ \A x \in BankRows : reviews'[x] = NoExpense => reviews[x] \in {e, NoExpense}
           /\ \A r \in Receipts : receipts[r].stage = "stored" /\ receipts'[r].stage # "stored" =>
                receipts[r].of = e
<1>. DEFINE kept == booked \ {e}
<1>1. /\ booked' = kept /\ UNCHANGED merge /\ reviews' = ReviewsOf(kept)
      /\ receipts' = [r \in Receipts |-> Cascaded(receipts[r], kept)]
  BY DEF DeleteShopExpense
<1>2. /\ ShopType
      /\ \A r \in Receipts : receipts[r] \in Photo /\ PhotoOK(r)
  BY DEF IInv, ShopInv, ShopType
<1>3. \A x \in BankRows : reviews'[x] = NoExpense => reviews[x] \notin kept \/ reviews[x] = NoExpense
  BY <1>1, <1>2, QueueKept
<1>4. \A x \in BankRows : reviews[x] \in booked \cup {NoExpense}
  BY <1>2 DEF ShopType
<1>5. ASSUME NEW r \in Receipts, receipts[r].stage = "stored", receipts'[r].stage # "stored"
      PROVE  receipts[r].of \notin kept
  <2>1. receipts'[r] = Cascaded(receipts[r], kept) /\ receipts[r] \in Photo
    BY <1>1, <1>2
  <2>. QED
    BY <1>5, <2>1, CascadedPhoto
<1>. QED
  BY <1>1, <1>2, <1>3, <1>4, <1>5 DEF PhotoOK

(* What a merge does: the line takes the place of the booking it resembles.  *)
LEMMA MergeEffect ==
    ASSUME IInv, MergeCommits
    PROVE  /\ Merging /\ ~Merging'
           /\ merge.row \in BankRows \cap booked'
           /\ reviews[merge.row] \in booked \cap Manuals
           /\ Worth[reviews[merge.row]] = Worth[merge.row]
           /\ booked' = (booked \ {reviews[merge.row]}) \cup {merge.row}
           /\ \A x \in BankRows : reviews'[x] = NoExpense =>
                reviews[x] \in {reviews[merge.row], NoExpense}
           /\ \A r \in Receipts : receipts[r].stage = "stored" /\ receipts'[r].stage # "stored" =>
                r \notin merge.moved /\ receipts[r].of \notin booked'
<1>. DEFINE kept == (booked \cup {merge.row}) \ {reviews[merge.row]}
<1>1. /\ Merging /\ booked' = kept /\ merge' = NoMerge
      /\ reviews' = [ReviewsOf(kept) EXCEPT ![merge.row] = NoExpense]
      /\ receipts' = MergedReceipts(kept)
  BY DEF MergeCommits
<1>2. ShopType /\ Resembling /\ \A r \in Receipts : receipts[r] \in Photo
  BY DEF IInv, ShopInv, ShopType
<1>3. /\ merge.row \in BankRows /\ Staged(merge.row)
      /\ reviews[merge.row] \in booked \cap Manuals
      /\ reviews[merge.row] # merge.row
  BY <1>1, <1>2, MergeRow
<1>4. ASSUME NEW x \in BankRows, reviews'[x] = NoExpense
      PROVE  reviews[x] \in {reviews[merge.row], NoExpense}
  <2>1. CASE x = merge.row
    BY <2>1
  <2>2. CASE x # merge.row
    <3>1. reviews'[x] = ReviewsOf(kept)[x]
      BY <1>1, <1>2, <2>2, QueueKept
    <3>2. reviews[x] \notin kept \/ reviews[x] = NoExpense
      BY <1>2, <1>4, <3>1, QueueKept
    <3>3. reviews[x] \in booked \cup {NoExpense}
      BY <1>2 DEF ShopType
    <3>. QED
      BY <3>2, <3>3
  <2>. QED
    BY <2>1, <2>2
<1>5. ASSUME NEW r \in Receipts, receipts[r].stage = "stored", receipts'[r].stage # "stored"
      PROVE  r \notin merge.moved /\ receipts[r].of \notin kept
  <2>1. receipts'[r] = IF r \in merge.moved THEN [stage |-> "stored", of |-> merge.row]
                                            ELSE Cascaded(receipts[r], kept)
    BY <1>1 DEF MergedReceipts
  <2>2. r \notin merge.moved
    BY <1>5, <2>1
  <2>3. receipts'[r] = Cascaded(receipts[r], kept) /\ receipts[r] \in Photo
    BY <1>2, <2>1, <2>2
  <2>. QED
    BY <1>5, <2>2, <2>3, CascadedPhoto
<1>6. Worth[reviews[merge.row]] = Worth[merge.row]
  BY <1>2, <1>3 DEF Resembling
<1>7. booked' = (booked \ {reviews[merge.row]}) \cup {merge.row}
  BY <1>1, <1>3
<1>8. merge.row \in BankRows \cap booked'
  BY <1>1, <1>3
<1>9. Merging /\ ~Merging'
  BY <1>1 DEF Merging
<1>10. \A r \in Receipts : receipts[r].stage = "stored" /\ receipts'[r].stage # "stored" =>
         r \notin merge.moved /\ receipts[r].of \notin booked'
  BY <1>1, <1>5
<1>. HIDE DEF kept
<1>. QED
  BY <1>3, <1>4, <1>6, <1>7, <1>8, <1>9, <1>10

(* Merging a line of the queue takes every photo of the booking it replaces  *)
(* along, but for one stored between the two statements of the merge.        *)
THEOREM PhotosFollow == Spec => PhotosSurviveMerge
<1>1. ASSUME IInv, [Next]_vars, NEW r \in Receipts,
             receipts[r].stage = "stored", receipts'[r].stage # "stored"
      PROVE  \/ receipts'[r].stage = "removed"
             \/ /\ receipts[r].of \notin booked'
                /\ \/ booked' = booked \ {receipts[r].of}
                   \/ Merging /\ r \notin merge.moved
  <2>1. ASSUME NEW e \in Expenses, DeleteShopExpense(e)
        PROVE  receipts[r].of = e /\ booked' = booked \ {e}
    BY <1>1, <2>1, DeletionEffect
  <2>2. CASE MergeCommits
    BY <1>1, <2>2, MergeEffect
  <2>3. ASSUME NEW x \in BankRows, DeletePendingImportReview(x) PROVE FALSE
    BY <1>1, <2>3 DEF DeletePendingImportReview
  <2>4. CASE Harmless
    BY <1>1, <2>4 DEF Harmless
  <2>. QED
    BY <1>1, <2>1, <2>2, <2>3, <2>4, HarmlessStep
<1>. DEFINE Step ==
       \A r \in Receipts :
         receipts[r].stage = "stored" /\ receipts'[r].stage # "stored" =>
           \/ receipts'[r].stage = "removed"
           \/ /\ receipts[r].of \notin booked'
              /\ \/ booked' = booked \ {receipts[r].of}
                 \/ Merging /\ r \notin merge.moved
<1>2. IInv /\ [Next]_vars => [Step]_vars
  BY <1>1
<1>. HIDE DEF Step
<1>3. Spec => [][Step]_vars
  BY <1>2, Invariant, PTL DEF Spec
<1>. QED
  BY <1>3 DEF PhotosSurviveMerge, Step

(* No bank line gets lost: it leaves the books with a removal of its booking *)
(* and the queue when it is skipped or what it resembles is gone.            *)
THEOREM LinesKept == Spec => LinesAreKept
<1>1. ASSUME IInv, [Next]_vars, NEW x \in BankRows, x \in booked, x \notin booked'
      PROVE  UNCHANGED merge /\ booked' = booked \ {x}
  <2>1. ASSUME NEW e \in Expenses, DeleteShopExpense(e)
        PROVE  UNCHANGED merge /\ booked' = booked \ {x}
    BY <1>1, <2>1, DeletionEffect
  <2>2. CASE MergeCommits
    BY <1>1, <2>2, MergeEffect, ShopAssumption
  <2>3. ASSUME NEW y \in BankRows, DeletePendingImportReview(y) PROVE FALSE
    BY <1>1, <2>3 DEF DeletePendingImportReview
  <2>4. CASE Harmless
    BY <1>1, <2>4 DEF Harmless
  <2>. QED
    BY <1>1, <2>1, <2>2, <2>3, <2>4, HarmlessStep
<1>2. ASSUME IInv, [Next]_vars, NEW x \in BankRows, Staged(x), ~Staged(x)'
      PROVE  \/ /\ UNCHANGED <<booked, receipts>>
                /\ \A y \in BankRows \ {x} : reviews'[y] = reviews[y]
             \/ UNCHANGED merge /\ booked' = booked \ {reviews[x]}
             \/ \E y \in booked' \cap BankRows : reviews[y] = reviews[x] /\ ~Merging'
  <2>0. reviews[x] # NoExpense /\ reviews'[x] = NoExpense
    BY <1>2 DEF Staged
  <2>1. ASSUME NEW e \in Expenses, DeleteShopExpense(e)
        PROVE  UNCHANGED merge /\ booked' = booked \ {reviews[x]}
    BY <1>2, <2>0, <2>1, DeletionEffect
  <2>2. CASE MergeCommits
    <3>1. reviews[merge.row] = reviews[x]
      BY <1>2, <2>0, <2>2, MergeEffect
    <3>. QED
      BY <1>2, <2>2, <3>1, MergeEffect
  <2>3. ASSUME NEW y \in BankRows, DeletePendingImportReview(y)
        PROVE  /\ UNCHANGED <<booked, receipts>>
               /\ \A z \in BankRows \ {x} : reviews'[z] = reviews[z]
    BY <1>2, <2>0, <2>3 DEF DeletePendingImportReview, IInv, ShopInv, ShopType
  <2>4. CASE Harmless
    BY <1>2, <2>0, <2>4 DEF Harmless
  <2>. QED
    BY <1>2, <2>1, <2>2, <2>3, <2>4, HarmlessStep
<1>. DEFINE Step ==
       \A x \in BankRows :
         /\ x \in booked /\ x \notin booked' => UNCHANGED merge /\ booked' = booked \ {x}
         /\ Staged(x) /\ ~Staged(x)' =>
              \/ /\ UNCHANGED <<booked, receipts>>
                 /\ \A y \in BankRows \ {x} : reviews'[y] = reviews[y]
              \/ UNCHANGED merge /\ booked' = booked \ {reviews[x]}
              \/ \E y \in booked' \cap BankRows : reviews[y] = reviews[x] /\ ~Merging'
<1>3. IInv /\ [Next]_vars => [Step]_vars
  BY <1>1, <1>2
<1>. HIDE DEF Step
<1>4. Spec => [][Step]_vars
  BY <1>3, Invariant, PTL DEF Spec
<1>. QED
  BY <1>4 DEF LinesAreKept, Step

(* A merge changes nothing but which booking stands for the money spent.     *)
THEOREM MergesNeutral == Spec => MergeIsNeutral
<1>1. ASSUME IInv, [Next]_vars, Merging, ~Merging', booked' # booked
      PROVE  \E m \in booked, x \in booked' :
               Worth[m] = Worth[x] /\ booked' = (booked \ {m}) \cup {x}
  <2>1. ASSUME NEW e \in Expenses, DeleteShopExpense(e) PROVE FALSE
    BY <1>1, <2>1, DeletionEffect DEF Merging
  <2>2. CASE MergeCommits
    BY <1>1, <2>2, MergeEffect
  <2>3. ASSUME NEW x \in BankRows, DeletePendingImportReview(x) PROVE FALSE
    BY <1>1, <2>3 DEF DeletePendingImportReview
  <2>4. CASE Harmless
    BY <1>1, <2>4 DEF Harmless
  <2>. QED
    BY <1>1, <2>1, <2>2, <2>3, <2>4, HarmlessStep
<1>. QED
  BY <1>1, Invariant, PTL DEF Spec, MergeIsNeutral
=============================================================================
