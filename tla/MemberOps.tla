------------------------------ MODULE MemberOps ------------------------------
(* The handlers of the pages of every member, and of the shell around all   *)
(* pages.                                                                   *)
EXTENDS KraamOps

(* LoginPage tells a failure on the page itself; on success it leaves *)
onLocalSubmit ==
    [Guarded("onLocalSubmit", "localBusy") EXCEPT
        !.profile = "after", !.success = "silent", !.failure = "page", !.changes = {Me}]

LoginPage == On("login", {onLocalSubmit})

(* No flag: the menu item can be pressed again. A failure leaves the page too *)
onLogout ==
    [Handler EXCEPT
        !.name = "onLogout", !.profile = "after",
        !.success = "silent", !.failure = "page", !.changes = {Me}]

ShellQueries == {"myCards", Me}

onShellRealtime(reason) ==
    CASE reason = "my_tosti_orders" -> {"myCards"}
      [] reason = "user_profile_updated" -> {"myCards", Me}
      [] OTHER -> {}

onChangePassword ==
    [Guarded("onChangePassword", "saving") EXCEPT
        !.checks = TRUE, !.profile = "after", !.changes = {Me, "users"}]

AccountPasswordPage == On("password", {onChangePassword})

-----------------------------------------------------------------------------
(* BuyPage. A request that is already open is shown: the lists are fetched   *)
(* again then too                                                           *)

RequestLists == {"requests", "buyInfo", Me} \cup CardLists

afterRequest == {"myCards", "buyInfo"}

onRequest ==
    [Guarded("onRequest", "submitting") EXCEPT
        !.refetches = afterRequest, !.rescues = afterRequest, !.profile = "after",
        !.changes = RequestLists, !.hints = {"payment_requests"}]

onCancelOne ==
    [Guarded("onCancelOne", "cancellingId") EXCEPT
        !.asks = TRUE, !.refetches = afterRequest, !.profile = "after",
        !.changes = RequestLists \cup OrderLists, !.hints = {"payment_requests"}]

onCancelAll == [onCancelOne EXCEPT !.name = "onCancelAll", !.slot = "cancellingAll"]

(* The buttons that cancel disable each other, and not the one that requests *)
BuyPage ==
    LET cancelling == {"cancellingId", "cancellingAll"}
    IN  On("buy", {[o EXCEPT !.from = "buyInfo", !.blockedBy = cancelling] :
                        o \in {onCancelOne, onCancelAll}}
                  \cup {[onRequest EXCEPT !.from = "buyInfo"]})

-----------------------------------------------------------------------------
(* OrderTostiPage *)

OrderQueries == {"myCards", "myTostiOrders", "tostiQueue"}
OrderAlarms == {"myCards", "myTostiOrders"}

invalidateTostiMember == OrderQueries

onMineRealtime(reason) ==
    IF reason \in {"open", "my_tosti_orders", "tosti_public_queue"}
    THEN invalidateTostiMember \cup {Me} ELSE {}

onSubmitOrder ==
    [Guarded("onSubmitOrder", "submitting") EXCEPT
        !.checks = TRUE, !.refetches = invalidateTostiMember, !.profile = "after",
        !.changes = OrderLists, !.hints = TostiHints]

(* No flag: while it is under way the button can be pressed again *)
onCancelPending ==
    [Handler EXCEPT
        !.name = "onCancelPending", !.asks = TRUE,
        !.refetches = invalidateTostiMember, !.profile = "after",
        !.changes = OrderLists, !.hints = TostiHints]

OrderTostiOrderForm == {[onSubmitOrder EXCEPT !.from = "myCards"]}

OrderTostiQueueSection == {[onCancelPending EXCEPT !.from = "tostiQueue"]}

OrderTostiPage == On("order", OrderTostiOrderForm \cup OrderTostiQueueSection)

-----------------------------------------------------------------------------
CardsQueries == {"myCards", "myTostiOrders", "cardTransactions"}

CardsPage == On("cards", CardHistoryPanel({"myCards"}, "after"))

DashboardQueries == {"myCards", "buyInfo", "tostiQueue"}

-----------------------------------------------------------------------------
MemberShows(p) ==
    CASE p = "login" -> {Me}
      [] p = "dashboard" -> DashboardQueries
      [] p = "cards" -> CardsQueries
      [] p = "buy" -> {"buyInfo"}
      [] p = "order" -> OrderQueries
      [] p = "kraam" -> KraamQueries \cup {"cardTransactions"}
      [] OTHER -> {}

MemberAlarms(p) ==
    CASE p = "cards" -> {"myCards"}
      [] p = "buy" -> {"buyInfo"}
      [] p = "order" -> OrderAlarms
      [] p = "kraam" -> KraamAlarms
      [] OTHER -> {}

MemberReloads(p) ==
    CASE p = "cards" -> {"myCards", "cardTransactions"}
      [] p = "buy" -> {"buyInfo"}
      [] p = "kraam" -> KraamReloads \cup {"cardTransactions"}
      [] OTHER -> {}

MemberHears(p, reason) ==
    CASE p = "order" -> onMineRealtime(reason)
      [] p = "kraam" -> onKraamRealtime(reason)
      [] OTHER -> {}

MemberPages ==
    LoginPage \cup AccountPasswordPage \cup BuyPage \cup OrderTostiPage \cup CardsPage \cup KraamPage
=============================================================================
