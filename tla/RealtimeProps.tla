--------------------------- MODULE RealtimeProps ---------------------------
(***************************************************************************)
(* What the realtime hints of Realtime promise.                            *)
(***************************************************************************)
EXTENDS Realtime

(* Buffers respect their capacity, and nothing is registered, opened or    *)
(* owed on a page without a connection.                                    *)
TypeOK ==
    /\ todo \in [Handlers -> Seq(Hint)]
    /\ chan \in [HintKinds -> Seq(Users \cup {All})]
    /\ \A k \in HintKinds : Len(chan[k]) <= Cap(k)
    /\ buf \in [Pages -> Seq(HintKinds)]
    /\ \A p \in Pages : Len(buf[p]) <= SendBuf
    /\ up \subseteq Pages /\ opened \subseteq up /\ registered \subseteq up
    /\ recent \subseteq Pages
    /\ dirty \in [Pages -> SUBSET Lists]
    /\ stale \in [Pages -> SUBSET Lists]
    /\ owed \in [Pages -> SUBSET Lists]

(* Something that will make p fetch l is still to come: a fetch under way, *)
(* a hint in the page's buffer, in a channel of the hub, or not sent yet.  *)
OnTheWay(p, l) ==
    \/ l \in dirty[p]
    \/ \E i \in DOMAIN buf[p] : l \in Reaction(p, buf[p][i])
    \/ \E k \in HintKinds : \E i \in DOMAIN chan[k] :
          Hears(p, k, chan[k][i]) /\ l \in Reaction(p, k)
    \/ \E h \in Handlers : \E i \in DOMAIN todo[h] :
          Hears(p, todo[h][i].kind, todo[h][i].who) /\ l \in Reaction(p, todo[h][i].kind)

(* The hint that every operation on an order sends to p *)
OrderHint(p) == IF p.kind = "kraam" THEN "tosti_queue" ELSE "tosti_public_queue"

(* All hints that p ever hears make it fetch the same lists: an order page *)
(* while its member's account does not change, a kraam page while nobody   *)
(* buys a card.  Shells get hints of different effects.                    *)
OneEffect(p) ==
    /\ p \notin Shells
    /\ \A o \in Ops : \A i \in DOMAIN HintsOf(o[1], o[2]) :
          LET x == HintsOf(o[1], o[2])[i]
          IN  Hears(p, x.kind, x.who) => Reaction(p, x.kind) = Reaction(p, OrderHint(p))

(* Dropping hints loses nothing to a page whose hints have one effect,     *)
(* whatever else goes through the hub and to other pages: what was         *)
(* announced to it while it was connected and is not fetched yet is always *)
(* still on the way (hub.go, the default branches).                        *)
OwedOnTheWay ==
    \A p \in Pages : OneEffect(p) => \A l \in owed[p] : OnTheWay(p, l)

(* A step that drops a hint meant for p: a handler's at a full channel of  *)
(* notifications, the hub's at p's full buffer, or the shell's profile     *)
(* hint that comes too soon after the last.                                *)
Drops(p) ==
    \/ \E h \in Handlers :
          /\ todo[h] # << >> /\ todo'[h] = Tail(todo[h])
          /\ LET x == Head(todo[h])
             IN  /\ x.kind \in Notifications /\ Hears(p, x.kind, x.who)
                 /\ Len(chan[x.kind]) = Cap(x.kind)
    \/ \E k \in HintKinds :
          /\ chan[k] # << >> /\ chan'[k] = Tail(chan[k])
          /\ Hears(p, k, Head(chan[k])) /\ Len(buf[p]) = SendBuf
    \/ /\ buf[p] # << >> /\ buf'[p] = Tail(buf[p])
       /\ Head(buf[p]) = "user_profile_updated" /\ p \in recent

(* With hints of different effect mixed, an announcement is lost only at   *)
(* the page's own full buffer, at a full channel of notifications (which   *)
(* may hold other members' hints only; a broadcast dropped at its channel  *)
(* is repeated by the ones before it), in the throttle, or with the        *)
(* connection: every other step that takes the last announcement of a list *)
(* off its way has fetched the list.                                       *)
LostOnlyWhenFull ==
    [][\A p \in registered \cap registered' : \A l \in Shows(p) :
          OnTheWay(p, l) /\ ~OnTheWay(p, l)' => l \notin stale'[p] \/ Drops(p)]_vars

(* A connected page eventually fetches every list a hint announced to it,  *)
(* also when changes never stop and connections break and return.          *)
Refetched == \A p \in Pages : \A l \in Shows(p) : l \in owed[p] ~> l \notin owed[p]

(* A page that reconnects catches up: unless the connection breaks again,  *)
(* every list it shows is fetched after the reconnect (the "open" hint of  *)
(* useTostiRealtime), also those that changed while it was away.           *)
CatchesUp ==
    \A p \in Kraam \cup OrderPages : \A l \in Shows(p) :
        p \in up \ opened ~> p \notin up \/ l \notin stale[p]

-----------------------------------------------------------------------------
(* Everything came to rest: nothing is under way to a connected page *)
AtRest(p) ==
    /\ p \in registered \cap opened
    /\ dirty[p] = {} /\ buf[p] = << >>
    /\ \A k \in HintKinds : chan[k] = << >>
    /\ \A h \in Handlers : todo[h] = << >>

(* README.md: lijsten verversen zonder polling.  At rest a kraam page      *)
(* shows the current order queue.                                          *)
KraamQueueCurrent == \A p \in Kraam : AtRest(p) => "orders" \notin stale[p]
=============================================================================
