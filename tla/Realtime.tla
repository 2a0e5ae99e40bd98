------------------------------ MODULE Realtime ------------------------------
(***************************************************************************)
(* Realtime hints: handlers commit a change and then tell the hub of       *)
(* internal/realtime; the hub fans hints out to WebSocket clients; a page  *)
(* that receives a hint fetches the lists it shows again over HTTP.  Every *)
(* send on the way is non-blocking: a hint that does not fit is dropped.   *)
(*                                                                         *)
(* A list is abstracted to whether a page shows it as it is in the         *)
(* database.  stale is the truth; owed is a history variable: the lists    *)
(* that a hint was to announce to a page that was connected at the time of *)
(* the change.                                                             *)
(*                                                                         *)
(* A connection and its page are one here: hints in flight on the socket   *)
(* count as in the client's send buffer, and a broken connection is gone   *)
(* at both ends at once.  The server drops its half later, when its read   *)
(* deadline passes, but until then that half has only a buffer of its own. *)
(***************************************************************************)
EXTENDS Naturals, Sequences

CONSTANTS
    Users,          \* members
    Staff,          \* open kraam pages (KraamPage)
    Orderers,       \* members with the order page open (OrderTostiPage)
    Visitors,       \* members whose application shell is connected (AppShell)
    Handlers,       \* HTTP handlers that run at the same time
    Ops,            \* the operations that occur: their kinds, see Changes, with
                    \* the members they are for
    SendBuf,        \* clientSendBuf: 8 in the code
    BroadcastCap,   \* capacity of the broadcast channels: 64 in the code
    NotifyCap,      \* capacity of the notify channels: 256 in the code
    NetworkFails    \* whether connections break

ASSUME UsersAssumption == Orderers \subseteq Users /\ Visitors \subseteq Users
OpKinds == {"order", "request", "withdraw", "sale", "booking", "knipje", "profile", "delete"}

ASSUME OpsAssumption == Ops \subseteq OpKinds \X Users
ASSUME CapAssumption ==
    /\ SendBuf \in Nat \ {0}
    /\ BroadcastCap \in Nat \ {0} /\ NotifyCap \in Nat \ {0}

VARIABLES
    todo,           \* per handler: the hints it still sends after its commit
    chan,           \* per kind of hint: the hub's channel
    buf,            \* per page: Client.send
    up,             \* pages whose WebSocket is upgraded
    opened,         \* pages that handled onopen
    registered,     \* pages that the hub's run loop registered
    dirty,          \* per page: queries invalidated and being fetched
    recent,         \* pages that refreshed their profile within 1500 ms
    stale,          \* per page: lists it shows that changed since it fetched them
    owed            \* per page: those of them a hint was to announce to it

vars == <<todo, chan, buf, up, opened, registered, dirty, recent, stale, owed>>

-----------------------------------------------------------------------------
(* Pages, lists and hints *)

Kraam == [kind : {"kraam"}, who : Staff]
OrderPages == [kind : {"order"}, who : Orderers]
Shells == [kind : {"shell"}, who : Visitors]
Pages == Kraam \cup OrderPages \cup Shells

Lists == {"orders", "requests", "cards", "me"}

Shows(p) ==
    CASE p.kind = "kraam" -> {"orders", "requests", "cards"}
      [] p.kind = "order" -> {"orders", "cards", "me"}
      [] p.kind = "shell" -> {"cards", "me"}

Broadcasts == {"tosti_queue", "payment_requests", "tosti_public_queue"}
Notifications == {"my_tosti_orders", "user_profile_updated"}
HintKinds == Broadcasts \cup Notifications

All == "all"    \* the addressee of a broadcast

Hint == [kind : HintKinds, who : Users \cup {All}]

Cap(k) == IF k \in Broadcasts THEN BroadcastCap ELSE NotifyCap

(* The clients a hint goes to: all kraam clients, all member clients, or   *)
(* the clients of one member.                                              *)
Hears(p, k, u) ==
    IF p.kind = "kraam"
    THEN k \in {"tosti_queue", "payment_requests"}
    ELSE \/ k = "tosti_public_queue"
         \/ k \in {"my_tosti_orders", "user_profile_updated"} /\ p.who = u

(* What the server means a client to fetch again *)
Meaning(k) ==
    CASE k = "tosti_queue" -> {"orders", "cards"}
      [] k = "payment_requests" -> {"requests"}
      [] k = "tosti_public_queue" -> {"orders"}
      [] k = "my_tosti_orders" -> {"orders", "cards"}
      [] k = "user_profile_updated" -> {"me"}

(* What a page fetches again on a hint; it ignores kinds it does not       *)
(* filter for.                                                             *)
Reaction_OrdersOnly(p, k) ==
    CASE p.kind = "kraam" /\ k = "payment_requests" -> {"requests"}
      [] k \in {"tosti_queue", "my_tosti_orders", "tosti_public_queue"} -> {"orders"} \cap Shows(p)
      [] OTHER -> {}

Reaction(p, k) ==
    CASE p.kind = "kraam" /\ k = "tosti_queue" -> {"orders", "cards"}
      [] p.kind = "kraam" /\ k = "payment_requests" -> {"requests"}
      [] p.kind = "order" /\ k \in {"my_tosti_orders", "tosti_public_queue"} ->
            {"orders", "cards", "me"}
      [] p.kind = "shell" /\ k = "my_tosti_orders" -> {"cards"}
      [] p.kind = "shell" /\ k = "user_profile_updated" -> {"cards", "me"}
      [] OTHER -> {}

(* ... and when the connection opens: the shell does nothing then *)
OnOpenLists_None(p) == {}

OnOpenLists(p) == IF p.kind = "shell" THEN {} ELSE Shows(p)

(* The lists an operation changes *)
Changes(op) ==
    CASE op = "order" -> {"orders", "cards"}              \* create, cancel, deliver
      [] op = "request" -> {"requests", "cards"}          \* create, fulfil
      [] op = "withdraw" -> {"requests", "cards", "orders"} \* reject, cancel: with the card go its orders
      [] op = "sale" -> {"cards"}                         \* at the kraam
      [] op = "booking" -> {"cards"}                      \* meals, estimate, undo
      [] op = "knipje" -> {"cards"}
      [] op = "profile" -> {"me"}                         \* roles, activation, jeugd flag, password
      [] op = "delete" -> {"requests", "cards", "orders", "me"} \* or merge: for either member

(* The hints its handler sends, in order *)
HintsOf(op, u) ==
    CASE op = "order" -> <<[kind |-> "tosti_queue", who |-> All],
                           [kind |-> "tosti_public_queue", who |-> All],
                           [kind |-> "my_tosti_orders", who |-> u]>>
      [] op \in {"request", "withdraw", "sale"} -> <<[kind |-> "payment_requests", who |-> All]>>
      [] op = "booking" -> <<[kind |-> "tosti_queue", who |-> All]>>
      [] op = "knipje" -> << >>
      [] op = "profile" -> <<[kind |-> "user_profile_updated", who |-> u]>>
      [] op = "delete" -> <<[kind |-> "user_profile_updated", who |-> u],
                            [kind |-> "payment_requests", who |-> All]>>

(* The lists on page p that an operation for member u changes: a member    *)
(* sees the queue of everyone's orders, and of the rest her own.           *)
Affected(p, op, u) ==
    {l \in Changes(op) \cap Shows(p) : p.kind = "kraam" \/ l = "orders" \/ p.who = u}

Announced(p, op, u) ==
    {l \in Affected(p, op, u) :
        \E i \in DOMAIN HintsOf(op, u) :
            /\ Hears(p, HintsOf(op, u)[i].kind, u)
            /\ l \in Meaning(HintsOf(op, u)[i].kind)}

-----------------------------------------------------------------------------
(* Handlers *)

(* A handler's store call commits *)
Commit(h, op, u) ==
    /\ todo[h] = << >>
    /\ todo' = [todo EXCEPT ![h] = HintsOf(op, u)]
    /\ stale' = [p \in Pages |-> stale[p] \cup Affected(p, op, u)]
    /\ owed' = [p \in Pages |->
                  IF p \in registered \cap opened THEN owed[p] \cup Announced(p, op, u) ELSE owed[p]]
    /\ UNCHANGED <<chan, buf, up, opened, registered, dirty, recent>>

(* BroadcastKraam and its likes: a full channel drops the hint *)
Offer_WhenIdle(s, x, cap) == IF s = << >> THEN Append(s, x) ELSE s

Offer_Overfull(s, x, cap) == IF Len(s) <= cap THEN Append(s, x) ELSE s

Offer(s, x, cap) == IF Len(s) < cap THEN Append(s, x) ELSE s

SendHint(h) ==
    /\ todo[h] # << >>
    /\ LET x == Head(todo[h])
       IN  chan' = [chan EXCEPT ![x.kind] = Offer(@, x.who, Cap(x.kind))]
    /\ todo' = [todo EXCEPT ![h] = Tail(@)]
    /\ UNCHANGED <<buf, up, opened, registered, dirty, recent, stale, owed>>

(* One turn of Hub.run that serves channel k *)
Run_Evict(k) ==
    /\ chan[k] # << >>
    /\ LET full == {p \in registered : Hears(p, k, Head(chan[k])) /\ Len(buf[p]) = SendBuf}
       IN  /\ registered' = registered \ full
           /\ buf' = [p \in Pages |->
                       IF p \in registered \ full /\ Hears(p, k, Head(chan[k]))
                       THEN Append(buf[p], k) ELSE buf[p]]
    /\ chan' = [chan EXCEPT ![k] = Tail(@)]
    /\ UNCHANGED <<todo, up, opened, dirty, recent, stale, owed>>

Run(k) ==
    /\ chan[k] # << >>
    /\ buf' = [p \in Pages |->
                 IF p \in registered /\ Hears(p, k, Head(chan[k]))
                 THEN Offer(buf[p], k, SendBuf) ELSE buf[p]]
    /\ chan' = [chan EXCEPT ![k] = Tail(@)]
    /\ UNCHANGED <<todo, up, opened, registered, dirty, recent, stale, owed>>

-----------------------------------------------------------------------------
(* Connections and pages *)

(* The upgrade is answered before the handler registers the client *)
Upgrade(p) ==
    /\ p \notin up
    /\ up' = up \cup {p}
    /\ UNCHANGED <<todo, chan, buf, opened, registered, dirty, recent, stale, owed>>

Register(p) ==
    /\ p \in up \ registered
    /\ registered' = registered \cup {p}
    /\ UNCHANGED <<todo, chan, buf, up, opened, dirty, recent, stale, owed>>

OnOpen(p) ==
    /\ p \in up \ opened
    /\ opened' = opened \cup {p}
    /\ dirty' = [dirty EXCEPT ![p] = @ \cup OnOpenLists(p)]
    /\ UNCHANGED <<todo, chan, buf, up, registered, recent, stale, owed>>

(* Unregistering closes the client's buffer; nothing is owed any more *)
Break(p) ==
    /\ NetworkFails
    /\ p \in up
    /\ up' = up \ {p} /\ opened' = opened \ {p} /\ registered' = registered \ {p}
    /\ buf' = [buf EXCEPT ![p] = << >>]
    /\ owed' = [owed EXCEPT ![p] = {}]
    /\ UNCHANGED <<todo, chan, dirty, recent, stale>>

(* The shell ignores a profile hint that comes within 1500 ms of the last  *)
(* one it acted on.                                                        *)
Throttled(p, k) == p.kind = "shell" /\ k = "user_profile_updated" /\ p \in recent

OnMessage(p) ==
    /\ p \in opened \cap registered
    /\ buf[p] # << >>
    /\ LET k == Head(buf[p])
       IN  IF Throttled(p, k)
           THEN UNCHANGED <<dirty, recent>>
           ELSE /\ dirty' = [dirty EXCEPT ![p] = @ \cup Reaction(p, k)]
                /\ recent' = IF p.kind = "shell" /\ k = "user_profile_updated"
                             THEN recent \cup {p} ELSE recent
    /\ buf' = [buf EXCEPT ![p] = Tail(@)]
    /\ UNCHANGED <<todo, chan, up, opened, registered, stale, owed>>

(* 1500 ms have passed *)
Elapse(p) ==
    /\ p \in recent
    /\ recent' = recent \ {p}
    /\ UNCHANGED <<todo, chan, buf, up, opened, registered, dirty, stale, owed>>

(* An invalidated query reads the database; a fetch that was under way     *)
(* when it was invalidated is cancelled (TanStack Query).                  *)
Fetch(p, l) ==
    /\ l \in dirty[p]
    /\ dirty' = [dirty EXCEPT ![p] = @ \ {l}]
    /\ stale' = [stale EXCEPT ![p] = @ \ {l}]
    /\ owed' = [owed EXCEPT ![p] = @ \ {l}]
    /\ UNCHANGED <<todo, chan, buf, up, opened, registered, recent>>

-----------------------------------------------------------------------------
Init ==
    /\ todo = [h \in Handlers |-> << >>]
    /\ chan = [k \in HintKinds |-> << >>]
    /\ buf = [p \in Pages |-> << >>]
    /\ up = Pages /\ opened = Pages /\ registered = Pages
    /\ dirty = [p \in Pages |-> {}]
    /\ recent = {}
    /\ stale = [p \in Pages |-> {}]
    /\ owed = [p \in Pages |-> {}]

Connect(p) == Upgrade(p) \/ Register(p) \/ OnOpen(p)

Next ==
    \/ \E h \in Handlers, o \in Ops : Commit(h, o[1], o[2])
    \/ \E h \in Handlers : SendHint(h)
    \/ \E k \in HintKinds : Run(k)
    \/ \E p \in Pages : Connect(p)
    \/ \E p \in Pages : Break(p)
    \/ \E p \in Pages : OnMessage(p)
    \/ \E p \in Pages : Elapse(p)
    \/ \E p \in Pages, l \in Lists : Fetch(p, l)

Spec == Init /\ [][Next]_vars

(* Goroutines run, select serves every channel that stays ready, pages     *)
(* reconnect after their backoff, handle their events and get answers; but *)
(* nobody has to change anything, and connections need not break.          *)
Fairness ==
    /\ \A h \in Handlers : WF_vars(SendHint(h))
    /\ \A k \in HintKinds : WF_vars(Run(k))
    /\ \A p \in Pages : /\ WF_vars(Upgrade(p)) /\ WF_vars(Register(p)) /\ WF_vars(OnOpen(p))
                        /\ WF_vars(OnMessage(p)) /\ WF_vars(Elapse(p))
                        /\ \A l \in Shows(p) : WF_vars(Fetch(p, l))

FairSpec == Spec /\ Fairness
=============================================================================
