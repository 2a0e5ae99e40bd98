------------------------------ MODULE KraamOps ------------------------------
(* The handlers of the kraam page and of the history panel of a card, which *)
(* the pages of cards and accounts show too.                                *)
EXTENDS Handlers

(* The lists that hold balances or cards. The person at the stall may own a *)
(* card: the bite marks of the logo are drawn from myCards                  *)
Balances == {"operatorCards", "avondeten", "cardTransactions", "userCards", "myCards", "buyInfo"}
CardLists == {"operatorCards", "avondeten", "userCards", "myCards", "dashboard"}
OrderLists == {"tostiOrders", "myTostiOrders", "tostiQueue"}
SaleLists == {"salesStats", "financeControl", "suggestions"}
TostiHints == {"tosti_queue", "tosti_public_queue", "my_tosti_orders"}

KraamQueries ==
    {"operatorCards", "members", "tostiOrders", "soldToday", "requests", "avondeten"}
KraamAlarms == {"operatorCards", "tostiOrders", "requests", "avondeten", "members"}

invalidateKraamAll == KraamQueries
invalidateCardsAndBalances == {"operatorCards", "avondeten", "cardTransactions"}
invalidateAfterPaymentChange == {"requests", "tostiOrders", "operatorCards", "avondeten"}

(* The buttons that fetch again: everything in the header, and a list each *)
KraamReloads == KraamQueries \ {"members"}

onKraamRealtime(reason) ==
    CASE reason = "open" -> invalidateKraamAll
      [] reason = "tosti_queue" ->
            {"tostiOrders", "soldToday", "operatorCards", "avondeten", "cardTransactions"}
      [] reason = "payment_requests" -> {"requests"}
      [] OTHER -> {}

onSubmitAvondeten ==
    [Guarded("onSubmitAvondeten", "avondetenSubmitting") EXCEPT
        !.checks = TRUE, !.asks = TRUE,
        !.refetches = invalidateCardsAndBalances, !.profile = "with",
        !.changes = Balances, !.hints = {"tosti_queue"}]

onRegisterPhysicalSale ==
    [Guarded("onRegisterPhysicalSale", "saleSubmitting") EXCEPT
        !.checks = TRUE, !.asks = TRUE,
        !.refetches = invalidateKraamAll, !.profile = "after",
        !.changes = CardLists \cup SaleLists, !.hints = {"payment_requests"}]

onPaymentFulfill ==
    [Guarded("onPaymentFulfill", "paymentBusyId") EXCEPT
        !.asks = TRUE,
        !.refetches = invalidateAfterPaymentChange, !.profile = "with",
        !.changes = {"requests", "tostiOrders", "buyInfo", Me} \cup CardLists \cup SaleLists,
        !.hints = {"payment_requests"}]

onVerifyPaymentForOrder ==
    [onPaymentFulfill EXCEPT
        !.name = "onVerifyPaymentForOrder", !.slot = "busyOrder", !.blockedBy = {"busyOrder"},
        !.success = "silent"]

(* The card goes with its request and its open orders *)
onPaymentReject ==
    [onPaymentFulfill EXCEPT
        !.name = "onPaymentReject",
        !.changes = {"requests", "buyInfo", Me} \cup CardLists \cup OrderLists]

onUseKnipje ==
    [Guarded("onUseKnipje", "busyId") EXCEPT
        !.asks = TRUE,
        !.refetches = invalidateCardsAndBalances, !.profile = "with",
        !.changes = Balances]

(* It throws again after its alert; what is typed in stays open *)
onSetEstimate ==
    [Guarded("onSetEstimate", "estimateSaving") EXCEPT
        !.refetches = invalidateCardsAndBalances, !.profile = "with", !.success = "silent",
        !.changes = Balances, !.hints = {"tosti_queue"}]

(* Only the holder of a physical card is told something *)
onDeliverOrder ==
    [Guarded("onDeliverOrder", "busyOrder") EXCEPT
        !.asks = TRUE,
        !.refetches = invalidateKraamAll, !.profile = "after", !.success = "silent",
        !.changes = Balances \cup OrderLists \cup {"soldToday", "salesStats"},
        !.hints = TostiHints]

onDeliverPhysicalOrder == [onDeliverOrder EXCEPT !.success = "await"]

onCancelOrder ==
    [Guarded("onCancelOrder", "busyOrder") EXCEPT
        !.asks = TRUE, !.refetches = {"tostiOrders"}, !.success = "silent",
        !.changes = OrderLists, !.hints = TostiHints]

(* onChanged and its profile request are those of the page that shows it *)
onUndo(onChanged, profile) ==
    [Guarded("onUndo", "historyBusyId") EXCEPT
        !.asks = TRUE,
        !.refetches = {"cardTransactions"} \cup onChanged, !.profile = profile,
        !.changes = Balances, !.hints = {"tosti_queue"}]

-----------------------------------------------------------------------------
(* The buttons: which list carries them and which flags disable them *)

CardHistoryPanel(onChanged, profile) ==
    {[onUndo(onChanged, profile) EXCEPT !.from = "cardTransactions"]}

KraamTostiQueueSection ==
    {[o EXCEPT !.from = "tostiOrders"] :
        o \in {onVerifyPaymentForOrder, onDeliverOrder, onDeliverPhysicalOrder, onCancelOrder}}

KraamCardSearchSection ==
    {[o EXCEPT !.from = "operatorCards"] : o \in {onUseKnipje, onSetEstimate}}
        \cup CardHistoryPanel(invalidateCardsAndBalances, "with")

(* The form stays when its list is fetched again; the selection does not *)
KraamAvondetenSection == {[onSubmitAvondeten EXCEPT !.from = "avondeten"]}

KraamPhysicalSaleSection == {[onRegisterPhysicalSale EXCEPT !.from = "members"]}

PaymentRequestsPanel(fulfill, reject) == {[o EXCEPT !.from = "requests"] : o \in {fulfill, reject}}

KraamPaymentQueueSection == PaymentRequestsPanel(onPaymentFulfill, onPaymentReject)

(* A tab and a panel are closed while what was started in them goes on; the *)
(* other flags belong to the page                                           *)
KraamFoldable == {"estimateSaving", "historyBusyId"}

KraamPage ==
    On("kraam", KraamTostiQueueSection \cup KraamCardSearchSection \cup KraamAvondetenSection
                \cup KraamPhysicalSaleSection \cup KraamPaymentQueueSection)
=============================================================================
