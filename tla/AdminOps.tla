------------------------------ MODULE AdminOps ------------------------------
(* The handlers of the pages for administrators and stall staff.            *)
EXTENDS MemberOps

(* AdminSettingsPage: the answer enters the cache *)
onSubmitSettings ==
    [Guarded("onSubmitSettings", "saving") EXCEPT
        !.patch = "answer", !.column = "settings", !.puts = "form", !.profile = "after",
        !.changes = {"settings", "buyInfo", Me}]

AdminSettingsPage == On("settings", {[onSubmitSettings EXCEPT !.from = "settings"]})

-----------------------------------------------------------------------------
(* AdminLocalUsersPage. The own row can change in two ways only             *)

AccountHints == {"user_profile_updated"}

invalidateUsers == {"users"}
afterUndoOfUser == {"userCards"} \cup invalidateUsers

onCreate ==
    [Guarded("onCreate", "creating") EXCEPT
        !.refetches = invalidateUsers, !.changes = {"users", "members"}]

(* The row is changed before the request and not fetched after it *)
toggleMatroosJeugd ==
    [Guarded("toggleMatroosJeugd", "busyId") EXCEPT
        !.own = TRUE, !.patch = "guess", !.column = "jeugd", !.puts = "another",
        !.success = "silent", !.changes = {"users", "members", Me}, !.hints = AccountHints]

toggleRole ==
    [toggleMatroosJeugd EXCEPT !.name = "toggleRole", !.column = "roles", !.changes = {"users"}]

revokeAdmin == [toggleRole EXCEPT !.name = "revokeAdmin", !.asks = TRUE]

activate ==
    [Guarded("activate", "busyId") EXCEPT
        !.own = TRUE, !.refetches = invalidateUsers \cup {"members"}, !.success = "silent",
        !.changes = {"users", "members"}, !.hints = AccountHints]

deactivate == [activate EXCEPT !.name = "deactivate", !.asks = TRUE]

saveGoogleEmail ==
    [Guarded("saveGoogleEmail", "googleBusy") EXCEPT
        !.refetches = invalidateUsers, !.changes = {"users"}]

(* The cards come under the account merged into, whose panel may be open,   *)
(* and with them the jeugd flag                                             *)
mergeIntoGoogle ==
    [Guarded("mergeIntoGoogle", "googleBusy") EXCEPT
        !.asks = TRUE, !.column = "jeugd", !.refetches = invalidateUsers \cup {"members"},
        !.changes = {"users", "members", "userCards", "operatorCards", "requests", "tostiOrders"},
        !.hints = AccountHints \cup {"payment_requests"}]

onDeleteUser ==
    [Guarded("onDelete", "busyId") EXCEPT
        !.own = TRUE, !.asks = TRUE, !.refetches = invalidateUsers,
        !.changes = {"users", "members", "operatorCards", "requests", "tostiOrders"},
        !.hints = {"payment_requests"}]

(* The password goes with the roles that the row displays *)
saveEdit ==
    [Guarded("saveEdit", "savingId") EXCEPT
        !.column = "roles", !.puts = "shown", !.refetches = invalidateUsers, !.changes = {"users"}, !.hints = AccountHints]

UserRows ==
    {[o EXCEPT !.from = "users"] :
        o \in {toggleMatroosJeugd, toggleRole, revokeAdmin, activate, deactivate, onDeleteUser}}

UserDialogs == {[o EXCEPT !.from = "users"] : o \in {saveEdit, saveGoogleEmail, mergeIntoGoogle}}

UserCardsRow == CardHistoryPanel(afterUndoOfUser, "no")

AdminLocalUsersPage == On("users", {onCreate} \cup UserRows \cup UserDialogs \cup UserCardsRow)

-----------------------------------------------------------------------------
(* AdminFinancePage: nothing is awaited after the request, and the outcome   *)
(* is told before the lists are asked for again                             *)

FinanceQueries == {"salesYears", "salesStats", "bankLists", "suggestions", "financeCorrections",
                   "revolutBalance"}

invalidateCorrections == {"financeCorrections", "financeControl"}
refreshYearFinance == {"bankLists", "salesStats", "financeControl", "financeCorrections"}

Unawaited(name, slot, lists) ==
    [Guarded(name, slot) EXCEPT
        !.refetches = lists, !.loose = lists, !.success = "void first", !.failure = "void"]

onSubmitCorrection ==
    [Unawaited("onSubmitCorrection", "submitting", invalidateCorrections) EXCEPT
        !.checks = TRUE, !.changes = invalidateCorrections \cup {"salesYears"}]

onDeleteCorrection ==
    [Unawaited("onDeleteCorrection", "deletingId", invalidateCorrections) EXCEPT
        !.asks = TRUE, !.changes = invalidateCorrections \cup {"salesYears"}]

(* Which sales are still open to be linked changes for every bank line *)
onMatch ==
    [Unawaited("onMatch", "matchingId", refreshYearFinance) EXCEPT
        !.asks = TRUE,
        !.changes = {"bankLists", "salesStats", "financeControl", "suggestions"}]

onUnmatch == [onMatch EXCEPT !.name = "onUnmatch", !.slot = "unmatchingBankId",
                             !.blockedBy = {"unmatchingBankId"}]

onWaive ==
    [Unawaited("onWaive", "waivingBankId", refreshYearFinance) EXCEPT
        !.asks = TRUE, !.changes = {"bankLists", "salesStats", "financeControl"}]

FinanceCorrectionsSection ==
    {onSubmitCorrection, [onDeleteCorrection EXCEPT !.from = "financeCorrections"]}

(* The panel with candidates is hidden while it is fetched; its manual choice *)
(* checks what is chosen                                                    *)
SuggestionPanel == {[onMatch EXCEPT !.from = "suggestions", !.hides = TRUE],
                    [onMatch EXCEPT !.name = "onMatchManually", !.from = "suggestions",
                                    !.checks = TRUE]}

OpenBankRows == {[onWaive EXCEPT !.from = "bankLists"]}

LinkedBankRows == {[onUnmatch EXCEPT !.from = "bankLists"]}

(* AdminRevolutImportSection *)
Importing == {"revolutPreviewLoading", "revolutSubmitting"}

runRevolutPreview ==
    [Guarded("runRevolutPreview", "revolutPreviewLoading") EXCEPT
        !.checks = TRUE, !.success = "silent", !.blockedBy = Importing]

ImportedLists == {"shopList", "bankLists", "salesStats", "financeControl"}

(* The outcome is told first: the lists are fetched when it is closed *)
runRevolutImport ==
    [Guarded("runRevolutImport", "revolutSubmitting") EXCEPT
        !.checks = TRUE, !.blockedBy = Importing,
        !.loose = {"revolutBalance", "pendingReviews"},
        !.refetches = ImportedLists \cup {"revolutBalance", "pendingReviews"},
        !.success = "await first",
        !.changes = ImportedLists \cup {"revolutBalance", "pendingReviews", "salesYears"}]

AdminRevolutImportSection == {runRevolutPreview, runRevolutImport}

AdminFinancePage ==
    On("finance", FinanceCorrectionsSection \cup SuggestionPanel \cup OpenBankRows
                  \cup LinkedBankRows \cup AdminRevolutImportSection)

-----------------------------------------------------------------------------
(* AdminShopExpensesPage *)

ShopQueries == {"salesYears", "shopList", "pendingReviews"}

invalidateShopList == {"shopList"}
ExpenseLists == {"shopList", "salesStats", "financeControl", "salesYears"}

onSubmitCash ==
    [Guarded("onSubmitCash", "submitting") EXCEPT
        !.checks = TRUE, !.refetches = invalidateShopList, !.success = "void",
        !.changes = ExpenseLists]

(* An expense needs a photo, sent after the booking has been made *)
onSubmitExpense == [onSubmitCash EXCEPT !.name = "onSubmitExpense", !.attaches = TRUE]

onPurposeChange ==
    [Guarded("onPurposeChange", "patchingPurposeId") EXCEPT
        !.own = TRUE, !.patch = "both", !.column = "purpose", !.puts = "another",
        !.success = "silent", !.changes = {"shopList", "salesStats"}]

(* A review of a possible duplicate goes with the booking it is about *)
onDeleteExpense ==
    [Handler EXCEPT
        !.name = "onDeleteExpense", !.asks = TRUE, !.refetches = invalidateShopList,
        !.success = "silent", !.changes = ExpenseLists \cup {"pendingReviews"}]

onUploadReceipt ==
    [Guarded("onUploadReceipt", "uploadingReceiptId") EXCEPT
        !.own = TRUE, !.patch = "answer", !.changes = {"shopList"}]

onDeleteReceipt ==
    [Handler EXCEPT
        !.name = "onDeleteReceipt", !.asks = TRUE, !.patch = "answer", !.success = "silent",
        !.changes = {"shopList"}]

onMergeReview ==
    [Guarded("onMergeReview", "reviewActioning") EXCEPT
        !.own = TRUE, !.refetches = {"pendingReviews"} \cup invalidateShopList,
        !.success = "silent", !.changes = {"pendingReviews"} \cup ExpenseLists]

onDismissReview ==
    [onMergeReview EXCEPT !.name = "onDismissReview", !.refetches = {"pendingReviews"},
                          !.changes = {"pendingReviews"}]

(* The table is hidden while its list is fetched *)
AdminShopExpensesTable ==
    {[o EXCEPT !.from = "shopList", !.hides = TRUE] :
        o \in {onPurposeChange, onUploadReceipt, onDeleteReceipt, onDeleteExpense}}

AdminShopExpensesPendingReviews ==
    {[o EXCEPT !.from = "pendingReviews"] : o \in {onMergeReview, onDismissReview}}

AdminShopExpensesForm == {onSubmitCash, onSubmitExpense}

AdminShopExpensesPage ==
    On("shop", AdminShopExpensesForm \cup AdminShopExpensesTable
               \cup AdminShopExpensesPendingReviews)

-----------------------------------------------------------------------------
(* All pages together *)

AdminQueries == {"salesYears", "salesStats", "dashboard", "revolutBalance"}
FinanceControlQueries == {"salesYears", "financeControl"}

AllScreens == {"login", "password", "dashboard", "cards", "buy", "order", "kraam",
               "users", "settings", "finance", "control", "shop", "admin"}

AllOps ==
    MemberPages \cup AdminSettingsPage \cup AdminLocalUsersPage \cup AdminFinancePage
        \cup AdminShopExpensesPage
        \cup UNION {On(p, {onLogout}) : p \in AllScreens \ {"login"}}

ShownOn(p) ==
    MemberShows(p)
        \cup (IF p = "login" THEN {} ELSE ShellQueries)
        \cup (CASE p = "users" -> {"users", "userCards", "cardTransactions"}
                [] p = "settings" -> {"settings"}
                [] p = "finance" -> FinanceQueries
                [] p = "control" -> FinanceControlQueries
                [] p = "shop" -> ShopQueries
                [] p = "admin" -> AdminQueries
                [] OTHER -> {})

(* Of the balance on the finance page and the reviews nothing is said *)
AlarmsOn(p) ==
    MemberAlarms(p)
        \cup (CASE p = "users" -> {"users"}
                [] p = "settings" -> {"settings"}
                [] p = "finance" -> FinanceQueries \ {"revolutBalance"}
                [] p = "control" -> FinanceControlQueries
                [] p = "shop" -> ShopQueries \ {"pendingReviews"}
                [] p = "admin" -> AdminQueries
                [] OTHER -> {})

ReloadsOn(p) == MemberReloads(p) \cup (IF p = "users" THEN {"cardTransactions"} ELSE {})

HearsOn(p, reason) ==
    MemberHears(p, reason) \cup (IF p = "login" THEN {} ELSE onShellRealtime(reason))
=============================================================================
