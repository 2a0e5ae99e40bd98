-------------------------------- MODULE MCPages --------------------------------
(* The handlers of this program in the engine of Pages. A behaviour looks   *)
(* at one handler and one list, or at two handlers of a page and one list.  *)
EXTENDS PagesProps, AdminOps, TLC

AllLists ==
    UNION {ShownOn(p) : p \in AllScreens}
        \cup UNION {o.changes \cup o.refetches \cup o.rescues : o \in AllOps}

AllSlots == {o.slot : o \in AllOps} \ {None}
AllKinds == UNION {o.hints : o \in AllOps}

(* What one page makes of one list *)
Place(p, l) == [shows |-> l \in ShownOn(p), alarms |-> l \in AlarmsOn(p),
                reloads |-> l \in ReloadsOn(p), open |-> l \in HearsOn(p, "open")]

(* What Pages can tell of an operation when it looks at one list: operations *)
(* that are alike in this behave alike, and one of them is enough           *)
Likeness(o, l) ==
    [o EXCEPT
        !.name = l \in {g[2] : g \in {h \in Gaps : h[1] = o.name}},
        !.page = Place(o.page, l),
        !.slot = IF o.slot = None THEN "no" ELSE IF o.slot \in Foldable THEN "part" ELSE "page",
        !.blockedBy = o.slot \in o.blockedBy,
        !.from = (o.from = l), !.hides = @ /\ o.from = l,
        !.patch = IF l \in o.changes THEN @ ELSE "no",
        !.column = IF o.from = l /\ @ # None THEN "written" ELSE None,
        !.puts = IF o.from = l /\ o.column # None THEN @ ELSE "any",
        !.refetches = l \in @, !.loose = l \in @, !.rescues = l \in @, !.changes = l \in @,
        !.hints = \E k \in o.hints : l \in HearsOn(o.page, k)]

Concerned(o) == o.changes \cup o.refetches \cup o.rescues \cup ({o.from} \ {None})

OneHandler ==
    LET pairs == UNION {{<<o, l>> : l \in Concerned(o)} : o \in AllOps}
        alike == {Likeness(x[1], x[2]) : x \in pairs}
        chosen == {CHOOSE x \in pairs : Likeness(x[1], x[2]) = a : a \in alike}
    IN  {[ops |-> {x[1]}, pages |-> {x[1].page}, list |-> x[2],
          runs |-> {CHOOSE f \in Runs : TRUE}] : x \in chosen}

Named(names, p) == {o \in AllOps : o.name \in names /\ o.page = p}

(* One handler, and another page to go to and come back from *)
Away(name, p, q, l) ==
    [ops |-> Named({name}, p), pages |-> {p, q}, list |-> l, runs |-> {CHOOSE f \in Runs : TRUE}]

Travels ==
    {Away("onSubmitSettings", "settings", "buy", "buyInfo"),
     Away("onUndo", "kraam", "cards", "cardTransactions"),
     Away("onRequest", "buy", "dashboard", "buyInfo"),
     Away("onPurposeChange", "shop", "finance", "shopList"),
     Away("onLocalSubmit", "login", "dashboard", Me),
     Away("onDeliverOrder", "kraam", "order", "myTostiOrders"),
     Away("onWaive", "finance", "control", "financeControl"),
     Away("onDeliverOrder", "kraam", "cards", "cardTransactions"),
     Away("onSubmitExpense", "shop", "finance", "salesStats")}

(* Two runs at once *)
Both(names, p, l) == [ops |-> Named(names, p), pages |-> {p}, list |-> l, runs |-> Runs]

Crossings ==
    {Both({"onUseKnipje", "onPaymentFulfill"}, "kraam", "operatorCards"),
     Both({"onCancelPending"}, "order", "tostiQueue"),
     Both({"toggleMatroosJeugd"}, "users", Me),
     Both({"saveGoogleEmail", "mergeIntoGoogle"}, "users", "members"),
     Both({"runRevolutImport", "onMatch"}, "finance", "bankLists"),
     Both({"onRequest", "onCancelOne"}, "buy", Me)}

(* Two runs at once, which write one column of the rows on display *)
Columns ==
    {Both({"toggleRole"}, "users", "users"),
     Both({"onPurposeChange"}, "shop", "shopList")}

(* Two runs at once, and another page to go to and come back from *)
BothAway(names, p, q, l) ==
    [ops |-> Named(names, p), pages |-> {p, q}, list |-> l, runs |-> Runs]

Partings ==
    {BothAway({"saveEdit", "toggleRole"}, "users", "dashboard", "users"),
     BothAway({"toggleMatroosJeugd", "activate"}, "users", "kraam", "members"),
     BothAway({"onPurposeChange", "onDeleteExpense"}, "shop", "finance", "shopList"),
     BothAway({"onUploadReceipt", "onSubmitExpense"}, "shop", "control", "shopList"),
     BothAway({"onRequest", "onCancelOne"}, "buy", "dashboard", "buyInfo")}

AllScenes == OneHandler \cup Travels \cup Crossings \cup Columns \cup Partings

(* Found by this model; README, "Pages" *)
KnownGaps ==
    ({"onUseKnipje", "onUndo", "onSubmitAvondeten", "onSetEstimate", "onPaymentFulfill",
      "onVerifyPaymentForOrder", "onPaymentReject", "onRegisterPhysicalSale"} \X {"myCards"})
    \cup ({"onMatch", "onMatchManually", "onUnmatch"} \X {"suggestions"})
    \cup ({"runRevolutImport", "onSubmitCorrection", "onDeleteCorrection", "onSubmitCash",
           "onSubmitExpense", "onDeleteExpense", "onMergeReview"} \X {"salesYears"})
    \cup {<<"onDeleteExpense", "pendingReviews">>, <<"mergeIntoGoogle", "userCards">>}

(* With a cause GuessesEnd and ShownCurrent say no more, and the other        *)
(* properties have scenes of two handlers enough                            *)
Undisturbed == cause = None \/ scene \notin Columns \cup Partings

Sym == Permutations(Rows) \cup Permutations(Runs)
=============================================================================
