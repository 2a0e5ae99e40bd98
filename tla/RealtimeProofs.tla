--------------------------- MODULE RealtimeProofs ---------------------------
(***************************************************************************)
(* Theorems about Realtime: its type invariant for every set of operations,*)
(* that a page whose hints have one effect loses nothing to a full channel *)
(* or buffer whatever the other pages get, and where the others lose a     *)
(* hint.                                                                   *)
(***************************************************************************)
EXTENDS RealtimeProps, TLAPS

-----------------------------------------------------------------------------
(* Lemmas about sequences and hints *)

(* A non-blocking send keeps the type and the capacity, and what it finds  *)
(* or leaves is not empty.                                                 *)
LEMMA OfferType ==
    ASSUME NEW S, NEW s \in Seq(S), NEW x \in S, NEW cap \in Nat \ {0}, Len(s) <= cap
    PROVE  /\ Offer(s, x, cap) \in Seq(S)
           /\ Len(Offer(s, x, cap)) <= cap
           /\ Offer(s, x, cap) # << >>
<1>1. CASE Len(s) < cap
  <2>1. Offer(s, x, cap) = Append(s, x) BY <1>1 DEF Offer
  <2>2. Append(s, x) \in Seq(S) /\ Len(Append(s, x)) = Len(s) + 1 OBVIOUS
  <2> QED BY <1>1, <2>1, <2>2
<1>2. CASE ~(Len(s) < cap)
  <2>1. Offer(s, x, cap) = s BY <1>2 DEF Offer
  <2>2. Len(s) \in Nat /\ Len(<< >>) = 0 OBVIOUS
  <2> QED BY <1>2, <2>1, <2>2
<1> QED BY <1>1, <1>2

(* What Tail drops is the head; everything else stays *)
LEMMA TailType ==
    ASSUME NEW S, NEW s \in Seq(S), s # << >>
    PROVE  /\ Tail(s) \in Seq(S)
           /\ Head(s) \in S
           /\ Len(Tail(s)) = Len(s) - 1
           /\ \A i \in DOMAIN s : s[i] = Head(s) \/ \E j \in DOMAIN Tail(s) : Tail(s)[j] = s[i]
           /\ \A j \in DOMAIN Tail(s) : \E i \in DOMAIN s : s[i] = Tail(s)[j]
<1>1. Tail(s) \in Seq(S) /\ Head(s) \in S /\ Len(Tail(s)) = Len(s) - 1 OBVIOUS
<1>2. \A j \in DOMAIN Tail(s) : j + 1 \in DOMAIN s /\ s[j + 1] = Tail(s)[j] OBVIOUS
<1>3. ASSUME NEW i \in DOMAIN s, i # 1
      PROVE  i - 1 \in DOMAIN Tail(s) /\ Tail(s)[i - 1] = s[i]
  BY <1>3
<1>4. Head(s) = s[1] OBVIOUS
<1> QED BY <1>1, <1>2, <1>3, <1>4

LEMMA CapType == \A k \in HintKinds : Cap(k) \in Nat \ {0}
BY CapAssumption DEF Cap

LEMMA OpsPairs == \A o \in Ops : o[1] \in OpKinds /\ o[2] \in Users /\ o = <<o[1], o[2]>>
BY OpsAssumption

LEMMA HintsType == \A op \in OpKinds, u \in Users : HintsOf(op, u) \in Seq(Hint)
<1> SUFFICES ASSUME NEW op \in OpKinds, NEW u \in Users PROVE HintsOf(op, u) \in Seq(Hint)
  OBVIOUS
<1>1. /\ [kind |-> "tosti_queue", who |-> All] \in Hint
      /\ [kind |-> "tosti_public_queue", who |-> All] \in Hint
      /\ [kind |-> "payment_requests", who |-> All] \in Hint
  BY DEF Hint, HintKinds, Broadcasts
<1>2. /\ [kind |-> "my_tosti_orders", who |-> u] \in Hint
      /\ [kind |-> "user_profile_updated", who |-> u] \in Hint
  BY DEF Hint, HintKinds, Notifications
<1>3. CASE op = "order"
  <2>1. HintsOf(op, u) = <<[kind |-> "tosti_queue", who |-> All],
                           [kind |-> "tosti_public_queue", who |-> All],
                           [kind |-> "my_tosti_orders", who |-> u]>>
    BY <1>3 DEF HintsOf
  <2> QED BY <1>1, <1>2, <2>1
<1>4. CASE op \in {"request", "withdraw", "sale"}
  <2>1. HintsOf(op, u) = <<[kind |-> "payment_requests", who |-> All]>> BY <1>4 DEF HintsOf
  <2> QED BY <1>1, <1>2, <2>1
<1>5. CASE op = "booking"
  <2>1. HintsOf(op, u) = <<[kind |-> "tosti_queue", who |-> All]>> BY <1>5 DEF HintsOf
  <2> QED BY <1>1, <1>2, <2>1
<1>6. CASE op = "knipje"
  <2>1. HintsOf(op, u) = << >> BY <1>6 DEF HintsOf
  <2> QED BY <2>1
<1>7. CASE op = "profile"
  <2>1. HintsOf(op, u) = <<[kind |-> "user_profile_updated", who |-> u]>> BY <1>7 DEF HintsOf
  <2> QED BY <1>1, <1>2, <2>1
<1>8. CASE op = "delete"
  <2>1. HintsOf(op, u) = <<[kind |-> "user_profile_updated", who |-> u],
                           [kind |-> "payment_requests", who |-> All]>>
    BY <1>8 DEF HintsOf
  <2> QED BY <1>1, <1>2, <2>1
<1> QED BY <1>3, <1>4, <1>5, <1>6, <1>7, <1>8 DEF OpKinds

LEMMA ListsType ==
    /\ \A p \in Pages : Shows(p) \in SUBSET Lists
    /\ \A p \in Pages, k \in HintKinds : Reaction(p, k) \in SUBSET Lists
    /\ \A p \in Pages : \A op, u :
          Affected(p, op, u) \in SUBSET Lists /\ Announced(p, op, u) \in SUBSET Lists
<1>1. \A p \in Pages : Shows(p) \in SUBSET Lists
  BY DEF Pages, Kraam, OrderPages, Shells, Shows, Lists
<1>2. \A p \in Pages, k \in HintKinds : Reaction(p, k) \in SUBSET Lists
  BY DEF Reaction, Lists
<1>3. \A p \in Pages : \A op, u :
          Affected(p, op, u) \subseteq Shows(p) /\ Announced(p, op, u) \subseteq Shows(p)
  BY DEF Affected, Announced
<1> QED BY <1>1, <1>2, <1>3

-----------------------------------------------------------------------------
(* The type invariant *)

LEMMA TypeInit == Init => TypeOK
<1> SUFFICES ASSUME Init PROVE TypeOK OBVIOUS
<1>1. \A S : << >> \in Seq(S) /\ Len(<< >>) = 0 OBVIOUS
<1>2. \A k \in HintKinds : 0 <= Cap(k) BY CapType
<1>3. 0 <= SendBuf BY CapAssumption
<1> QED BY <1>1, <1>2, <1>3 DEF Init, TypeOK

LEMMA TypeCommit ==
    ASSUME TypeOK, NEW h \in Handlers, NEW op \in OpKinds, NEW u \in Users, <<op, u>> \in Ops, Commit(h, op, u)
    PROVE  TypeOK'
<1>1. todo' \in [Handlers -> Seq(Hint)] BY HintsType DEF TypeOK, Commit
<1>2. stale' \in [Pages -> SUBSET Lists] /\ owed' \in [Pages -> SUBSET Lists]
  BY ListsType DEF TypeOK, Commit
<1> QED BY <1>1, <1>2 DEF TypeOK, Commit

LEMMA TypeSendHint ==
    ASSUME TypeOK, NEW h \in Handlers, SendHint(h)
    PROVE  TypeOK'
<1> DEFINE x == Head(todo[h])
<1>1. todo[h] \in Seq(Hint) /\ todo[h] # << >> BY DEF TypeOK, SendHint
<1>2. x \in Hint /\ Tail(todo[h]) \in Seq(Hint) BY <1>1, TailType
<1>3. x.kind \in HintKinds /\ x.who \in Users \cup {All} BY <1>2 DEF Hint
<1> HIDE DEF x
<1>4. /\ Offer(chan[x.kind], x.who, Cap(x.kind)) \in Seq(Users \cup {All})
      /\ Len(Offer(chan[x.kind], x.who, Cap(x.kind))) <= Cap(x.kind)
  BY <1>3, OfferType, CapType DEF TypeOK
<1>5. chan' = [chan EXCEPT ![x.kind] = Offer(chan[x.kind], x.who, Cap(x.kind))]
  BY DEF SendHint, x
<1>6. chan' \in [HintKinds -> Seq(Users \cup {All})] /\ \A k \in HintKinds : Len(chan'[k]) <= Cap(k)
  BY <1>3, <1>4, <1>5 DEF TypeOK
<1>7. todo' \in [Handlers -> Seq(Hint)] BY <1>2 DEF TypeOK, SendHint
<1> QED BY <1>6, <1>7 DEF TypeOK, SendHint

LEMMA TypeRun ==
    ASSUME TypeOK, NEW k \in HintKinds, Run(k)
    PROVE  TypeOK'
<1>1. chan[k] \in Seq(Users \cup {All}) /\ chan[k] # << >> BY DEF TypeOK, Run
<1>2. Tail(chan[k]) \in Seq(Users \cup {All}) /\ Len(Tail(chan[k])) = Len(chan[k]) - 1
  BY <1>1, TailType
<1>3. Len(chan[k]) \in Nat /\ Cap(k) \in Nat BY <1>1, CapType
<1>4. chan' \in [HintKinds -> Seq(Users \cup {All})] /\ \A j \in HintKinds : Len(chan'[j]) <= Cap(j)
  BY <1>2, <1>3 DEF TypeOK, Run
<1>5. ASSUME NEW p \in Pages
      PROVE  buf'[p] \in Seq(HintKinds) /\ Len(buf'[p]) <= SendBuf
  <2>1. buf[p] \in Seq(HintKinds) /\ Len(buf[p]) <= SendBuf BY DEF TypeOK
  <2>2. Offer(buf[p], k, SendBuf) \in Seq(HintKinds) /\ Len(Offer(buf[p], k, SendBuf)) <= SendBuf
    BY <2>1, OfferType, CapAssumption
  <2> QED BY <2>1, <2>2 DEF Run
<1>6. buf' \in [Pages -> Seq(HintKinds)]
  <2>1. buf' = [p \in Pages |-> buf'[p]] BY DEF Run
  <2> QED BY <1>5, <2>1
<1> QED BY <1>4, <1>5, <1>6 DEF TypeOK, Run

LEMMA TypeConnect ==
    ASSUME TypeOK, NEW p \in Pages, Connect(p)
    PROVE  TypeOK'
<1>1. CASE Upgrade(p) BY <1>1 DEF TypeOK, Upgrade
<1>2. CASE Register(p) BY <1>2 DEF TypeOK, Register
<1>3. CASE OnOpen(p)
  <2>1. OnOpenLists(p) \in SUBSET Lists BY ListsType DEF OnOpenLists
  <2>2. dirty' \in [Pages -> SUBSET Lists] BY <1>3, <2>1 DEF TypeOK, OnOpen
  <2> QED BY <1>3, <2>2 DEF TypeOK, OnOpen
<1> QED BY <1>1, <1>2, <1>3 DEF Connect

LEMMA TypeBreak ==
    ASSUME TypeOK, NEW p \in Pages, Break(p)
    PROVE  TypeOK'
<1>1. \A S : << >> \in Seq(S) /\ Len(<< >>) = 0 OBVIOUS
<1>2. buf' \in [Pages -> Seq(HintKinds)] BY <1>1 DEF TypeOK, Break
<1>3. \A q \in Pages : Len(buf'[q]) <= SendBuf BY <1>1, CapAssumption DEF TypeOK, Break
<1> QED BY <1>2, <1>3 DEF TypeOK, Break

LEMMA TypeOnMessage ==
    ASSUME TypeOK, NEW p \in Pages, OnMessage(p)
    PROVE  TypeOK'
<1>1. buf[p] \in Seq(HintKinds) /\ buf[p] # << >> BY DEF TypeOK, OnMessage
<1>2. /\ Head(buf[p]) \in HintKinds /\ Tail(buf[p]) \in Seq(HintKinds)
      /\ Len(Tail(buf[p])) = Len(buf[p]) - 1
  BY <1>1, TailType
<1>3. Len(buf[p]) \in Nat /\ SendBuf \in Nat /\ Len(buf[p]) <= SendBuf
  BY <1>1, CapAssumption DEF TypeOK
<1>4. buf' \in [Pages -> Seq(HintKinds)] /\ \A q \in Pages : Len(buf'[q]) <= SendBuf
  BY <1>2, <1>3 DEF TypeOK, OnMessage
<1>5. Reaction(p, Head(buf[p])) \in SUBSET Lists BY <1>2, ListsType
<1>6. dirty' \in [Pages -> SUBSET Lists] /\ recent' \subseteq Pages
  BY <1>5 DEF TypeOK, OnMessage
<1> QED BY <1>4, <1>6 DEF TypeOK, OnMessage

LEMMA TypeNext == TypeOK /\ [Next]_vars => TypeOK'
<1> SUFFICES ASSUME TypeOK, [Next]_vars PROVE TypeOK' OBVIOUS
<1>1. ASSUME NEW h \in Handlers, NEW o \in Ops, Commit(h, o[1], o[2]) PROVE TypeOK'
  BY <1>1, TypeCommit, OpsPairs
<1>2. ASSUME NEW h \in Handlers, SendHint(h) PROVE TypeOK' BY <1>2, TypeSendHint
<1>3. ASSUME NEW k \in HintKinds, Run(k) PROVE TypeOK' BY <1>3, TypeRun
<1>4. ASSUME NEW p \in Pages, Connect(p) PROVE TypeOK' BY <1>4, TypeConnect
<1>5. ASSUME NEW p \in Pages, Break(p) PROVE TypeOK' BY <1>5, TypeBreak
<1>6. ASSUME NEW p \in Pages, OnMessage(p) PROVE TypeOK' BY <1>6, TypeOnMessage
<1>7. ASSUME NEW p \in Pages, Elapse(p) PROVE TypeOK' BY <1>7 DEF TypeOK, Elapse
<1>8. ASSUME NEW p \in Pages, NEW l \in Lists, Fetch(p, l) PROVE TypeOK'
  BY <1>8 DEF TypeOK, Fetch
<1>9. CASE UNCHANGED vars BY <1>9 DEF TypeOK, vars
<1> QED BY <1>1, <1>2, <1>3, <1>4, <1>5, <1>6, <1>7, <1>8, <1>9 DEF Next

(* Every channel and buffer stays within its capacity and every list of    *)
(* the model within its type, for every set of operations, of pages and of *)
(* handlers.                                                               *)
THEOREM TypeCorrect == Spec => []TypeOK
<1>1. Init => TypeOK BY TypeInit
<1>2. TypeOK /\ [Next]_vars => TypeOK' BY TypeNext
<1> QED BY <1>1, <1>2, PTL DEF Spec

-----------------------------------------------------------------------------
(* A page whose hints have one effect.  The inductive invariant says more  *)
(* than OwedOnTheWay: what is owed to such a page is on the way by its     *)
(* broadcast, since a notification can be dropped while its channel is     *)
(* full of other members' hints.                                           *)

Expected(p) == Reaction(p, OrderHint(p))

Alike(p) ==
    /\ \A h \in Handlers : \A i \in DOMAIN todo[h] :
          Hears(p, todo[h][i].kind, todo[h][i].who) => Reaction(p, todo[h][i].kind) = Expected(p)
    /\ \A k \in HintKinds : \A i \in DOMAIN chan[k] :
          Hears(p, k, chan[k][i]) => Reaction(p, k) = Expected(p)
    /\ \A i \in DOMAIN buf[p] : Reaction(p, buf[p][i]) = Expected(p)

ToSend(p) == \E h \in Handlers : \E i \in DOMAIN todo[h] : todo[h][i].kind = OrderHint(p)

Coming(p, l) ==
    l \in dirty[p] \/ buf[p] # << >> \/ chan[OrderHint(p)] # << >> \/ ToSend(p)

OwedComing(p) == \A l \in owed[p] : p \in registered /\ l \in Expected(p) /\ Coming(p, l)

OwedInv == TypeOK /\ \A p \in Pages : OneEffect(p) => Alike(p) /\ OwedComing(p)

-----------------------------------------------------------------------------
(* Facts about pages and hints of one effect *)

LEMMA EffectPages ==
    ASSUME NEW p \in Pages, OneEffect(p)
    PROVE  /\ p.kind \in {"kraam", "order"} /\ p.kind # "shell"
           /\ OrderHint(p) \in HintKinds
           /\ \A u : Hears(p, OrderHint(p), u)
<1>1. p.kind \in {"kraam", "order"}
  BY DEF OneEffect, Pages, Kraam, OrderPages, Shells
<1>2. OrderHint(p) \in HintKinds
  BY DEF OrderHint, HintKinds, Broadcasts
<1>3. \A u : Hears(p, OrderHint(p), u)
  BY <1>1 DEF Hears, OrderHint
<1>. QED
  BY <1>1, <1>2, <1>3

(* What an operation announces to such a page it announces by a broadcast  *)
LEMMA EffectHints ==
    ASSUME NEW op \in OpKinds, NEW u \in Users, <<op, u>> \in Ops,
           NEW p \in Pages, OneEffect(p)
    PROVE  /\ \A i \in DOMAIN HintsOf(op, u) :
                 Hears(p, HintsOf(op, u)[i].kind, HintsOf(op, u)[i].who)
                    => Reaction(p, HintsOf(op, u)[i].kind) = Expected(p)
           /\ \A l \in Announced(p, op, u) :
                 /\ l \in Expected(p)
                 /\ \E i \in DOMAIN HintsOf(op, u) : HintsOf(op, u)[i].kind = OrderHint(p)
<1>1. \A i \in DOMAIN HintsOf(op, u) :
         Hears(p, HintsOf(op, u)[i].kind, HintsOf(op, u)[i].who)
            => Reaction(p, HintsOf(op, u)[i].kind) = Expected(p)
  <2>. DEFINE o == <<op, u>>
  <2>1. o \in Ops /\ o[1] = op /\ o[2] = u
    OBVIOUS
  <2>. HIDE DEF o
  <2>2. \A i \in DOMAIN HintsOf(o[1], o[2]) :
           Hears(p, HintsOf(o[1], o[2])[i].kind, HintsOf(o[1], o[2])[i].who)
              => Reaction(p, HintsOf(o[1], o[2])[i].kind) = Expected(p)
    BY <2>1 DEF OneEffect, Expected
  <2>. QED
    BY <2>1, <2>2
<1>2. CASE op = "order"
  <2>1. HintsOf(op, u) = <<[kind |-> "tosti_queue", who |-> All],
                           [kind |-> "tosti_public_queue", who |-> All],
                           [kind |-> "my_tosti_orders", who |-> u]>>
    BY <1>2 DEF HintsOf
  <2>2. /\ DOMAIN HintsOf(op, u) = 1..3
        /\ HintsOf(op, u)[1].kind = "tosti_queue"
        /\ HintsOf(op, u)[2].kind = "tosti_public_queue"
    BY <2>1
  <2>3. \E i \in DOMAIN HintsOf(op, u) : HintsOf(op, u)[i].kind = OrderHint(p)
    BY <2>2 DEF OrderHint
  <2>4. ASSUME NEW l \in Announced(p, op, u) PROVE l \in Expected(p)
    <3>1. l \in {"orders", "cards"}
      BY <1>2 DEF Announced, Affected, Changes
    <3>. QED
      BY <3>1, EffectPages DEF Expected, OrderHint, Reaction
  <2>. QED
    BY <1>1, <2>3, <2>4
<1>3. CASE op = "booking"
  <2>1. HintsOf(op, u) = <<[kind |-> "tosti_queue", who |-> All]>>
    BY <1>3 DEF HintsOf
  <2>2. DOMAIN HintsOf(op, u) = {1} /\ HintsOf(op, u)[1].kind = "tosti_queue"
    BY <2>1
  <2>3. ASSUME NEW l \in Announced(p, op, u)
        PROVE  p.kind = "kraam" /\ l \in {"orders", "cards"}
    BY <1>3, <2>2, EffectPages DEF Announced, Affected, Changes, Hears
  <2>. QED
    BY <1>1, <2>2, <2>3 DEF Expected, OrderHint, Reaction
<1>4. CASE op = "knipje"
  <2>1. HintsOf(op, u) = << >>
    BY <1>4 DEF HintsOf
  <2>2. DOMAIN HintsOf(op, u) = {}
    BY <2>1
  <2>. QED
    BY <1>1, <2>2 DEF Announced
<1>5. CASE op \in {"request", "withdraw", "sale"}
  <2>1. HintsOf(op, u) = <<[kind |-> "payment_requests", who |-> All]>>
    BY <1>5 DEF HintsOf
  <2>2. /\ DOMAIN HintsOf(op, u) = {1}
        /\ HintsOf(op, u)[1].kind = "payment_requests" /\ HintsOf(op, u)[1].who = All
    BY <2>1
  <2>3. p.kind = "order"
    <3>1. p.kind = "kraam" => Reaction(p, "payment_requests") = Expected(p)
      BY <1>1, <2>2 DEF Hears
    <3>2. p.kind = "kraam" =>
             Reaction(p, "payment_requests") = {"requests"} /\ Expected(p) = {"orders", "cards"}
      BY DEF Reaction, Expected, OrderHint
    <3>. QED
      BY <3>1, <3>2, EffectPages
  <2>4. Announced(p, op, u) = {}
    BY <2>2, <2>3 DEF Announced, Hears
  <2>. QED
    BY <1>1, <2>4
<1>6. CASE op = "profile"
  <2>1. HintsOf(op, u) = <<[kind |-> "user_profile_updated", who |-> u]>>
    BY <1>6 DEF HintsOf
  <2>2. /\ DOMAIN HintsOf(op, u) = {1}
        /\ HintsOf(op, u)[1].kind = "user_profile_updated" /\ HintsOf(op, u)[1].who = u
    BY <2>1
  <2>3. ~Hears(p, "user_profile_updated", u)
    <3>1. Hears(p, "user_profile_updated", u) => Reaction(p, "user_profile_updated") = Expected(p)
      BY <1>1, <2>2
    <3>2. p.kind = "order" => "orders" \in Expected(p) /\ Reaction(p, "user_profile_updated") = {}
      BY DEF Reaction, Expected, OrderHint
    <3>3. p.kind = "kraam" => ~Hears(p, "user_profile_updated", u)
      BY DEF Hears
    <3>. QED
      BY <3>1, <3>2, <3>3, EffectPages
  <2>4. Announced(p, op, u) = {}
    BY <2>2, <2>3 DEF Announced
  <2>. QED
    BY <1>1, <2>4
<1>7. CASE op = "delete"
  <2>1. HintsOf(op, u) = <<[kind |-> "user_profile_updated", who |-> u],
                           [kind |-> "payment_requests", who |-> All]>>
    BY <1>7 DEF HintsOf
  <2>2. /\ DOMAIN HintsOf(op, u) = 1..2
        /\ HintsOf(op, u)[1].kind = "user_profile_updated" /\ HintsOf(op, u)[1].who = u
        /\ HintsOf(op, u)[2].kind = "payment_requests" /\ HintsOf(op, u)[2].who = All
    BY <2>1
  <2>3. p.kind = "order"
    <3>1. p.kind = "kraam" => Reaction(p, "payment_requests") = Expected(p)
      BY <1>1, <2>2 DEF Hears
    <3>2. p.kind = "kraam" =>
             Reaction(p, "payment_requests") = {"requests"} /\ Expected(p) = {"orders", "cards"}
      BY DEF Reaction, Expected, OrderHint
    <3>. QED
      BY <3>1, <3>2, EffectPages
  <2>4. ~Hears(p, "user_profile_updated", u)
    <3>1. Hears(p, "user_profile_updated", u) => Reaction(p, "user_profile_updated") = Expected(p)
      BY <1>1, <2>2
    <3>2. "orders" \in Expected(p) /\ Reaction(p, "user_profile_updated") = {}
      BY <2>3 DEF Reaction, Expected, OrderHint
    <3>. QED
      BY <3>1, <3>2
  <2>5. Announced(p, op, u) = {}
    BY <2>2, <2>3, <2>4 DEF Announced, Hears
  <2>. QED
    BY <1>1, <2>5
<1>. QED
  BY <1>2, <1>3, <1>4, <1>5, <1>6, <1>7 DEF OpKinds

-----------------------------------------------------------------------------
(* The invariant implies the property *)

LEMMA ComingOnTheWay ==
    ASSUME OwedInv
    PROVE  OwedOnTheWay
<1>. SUFFICES ASSUME NEW p \in Pages, OneEffect(p), NEW l \in owed[p] PROVE OnTheWay(p, l)
  BY DEF OwedOnTheWay
<1>0. Alike(p) /\ OwedComing(p)
  BY DEF OwedInv
<1>1. l \in Expected(p) /\ Coming(p, l)
  BY <1>0 DEF OwedComing
<1>2. CASE l \in dirty[p]
  BY <1>2 DEF OnTheWay
<1>3. CASE buf[p] # << >>
  <2>1. buf[p] \in Seq(HintKinds)
    BY DEF OwedInv, TypeOK
  <2>2. 1 \in DOMAIN buf[p]
    BY <1>3, <2>1
  <2>3. l \in Reaction(p, buf[p][1])
    BY <1>0, <1>1, <2>2 DEF Alike
  <2>. QED
    BY <2>2, <2>3 DEF OnTheWay
<1>4. CASE chan[OrderHint(p)] # << >>
  <2>1. OrderHint(p) \in HintKinds
    BY EffectPages
  <2>2. chan[OrderHint(p)] \in Seq(Users \cup {All})
    BY <2>1 DEF OwedInv, TypeOK
  <2>3. 1 \in DOMAIN chan[OrderHint(p)]
    BY <1>4, <2>2
  <2>4. Hears(p, OrderHint(p), chan[OrderHint(p)][1])
    BY EffectPages
  <2>. QED
    BY <1>1, <2>1, <2>3, <2>4 DEF OnTheWay, Expected
<1>5. CASE ToSend(p)
  <2>1. PICK h \in Handlers : \E i \in DOMAIN todo[h] : todo[h][i].kind = OrderHint(p)
    BY <1>5 DEF ToSend
  <2>2. PICK i \in DOMAIN todo[h] : todo[h][i].kind = OrderHint(p)
    BY <2>1
  <2>3. Hears(p, todo[h][i].kind, todo[h][i].who)
    BY <2>2, EffectPages
  <2>4. l \in Reaction(p, todo[h][i].kind)
    BY <1>1, <2>2 DEF Expected
  <2>. QED
    BY <2>2, <2>3, <2>4 DEF OnTheWay
<1>. QED
  BY <1>1, <1>2, <1>3, <1>4, <1>5 DEF Coming

-----------------------------------------------------------------------------
(* One lemma per action that the invariant has to survive, for one page p  *)

LEMMA OwedCommit ==
    ASSUME TypeOK, NEW h \in Handlers,
           NEW op \in OpKinds, NEW u \in Users, <<op, u>> \in Ops, Commit(h, op, u),
           NEW p \in Pages, OneEffect(p), Alike(p), OwedComing(p)
    PROVE  Alike(p)' /\ OwedComing(p)'
<1>1. \A g \in Handlers : todo'[g] = IF g = h THEN HintsOf(op, u) ELSE todo[g]
  BY DEF TypeOK, Commit
<1>2. UNCHANGED <<chan, buf, registered, dirty>>
  BY DEF Commit
<1>3. Alike(p)'
  <2>1. ASSUME NEW g \in Handlers, NEW i \in DOMAIN todo'[g],
               Hears(p, todo'[g][i].kind, todo'[g][i].who)
        PROVE  Reaction(p, todo'[g][i].kind) = Expected(p)
    <3>1. CASE g = h
      <4>1. todo'[g] = HintsOf(op, u)
        BY <1>1, <3>1
      <4>. QED
        BY <2>1, <4>1, EffectHints
    <3>2. CASE g # h
      <4>1. todo'[g] = todo[g]
        BY <1>1, <3>2
      <4>. QED
        BY <2>1, <4>1 DEF Alike
    <3>. QED
      BY <3>1, <3>2
  <2>. QED
    BY <1>2, <2>1 DEF Alike
<1>4. ToSend(p) => ToSend(p)'
  <2>. SUFFICES ASSUME ToSend(p) PROVE ToSend(p)'
    OBVIOUS
  <2>1. PICK g \in Handlers : \E i \in DOMAIN todo[g] : todo[g][i].kind = OrderHint(p)
    BY DEF ToSend
  <2>2. PICK i \in DOMAIN todo[g] : todo[g][i].kind = OrderHint(p)
    BY <2>1
  <2>3. g # h
    BY <2>2 DEF Commit
  <2>4. todo'[g] = todo[g]
    BY <1>1, <2>3
  <2>. QED
    BY <2>2, <2>4 DEF ToSend
<1>5. ASSUME NEW l \in owed'[p]
      PROVE  p \in registered' /\ l \in Expected(p) /\ Coming(p, l)'
  <2>1. CASE l \in owed[p]
    BY <1>2, <1>4, <2>1 DEF OwedComing, Coming
  <2>2. CASE l \notin owed[p]
    <3>1. p \in registered /\ l \in Announced(p, op, u)
      BY <1>5, <2>2 DEF Commit
    <3>2. PICK i \in DOMAIN HintsOf(op, u) : HintsOf(op, u)[i].kind = OrderHint(p)
      BY <3>1, EffectHints
    <3>3. ToSend(p)'
      BY <1>1, <3>2 DEF ToSend
    <3>. QED
      BY <1>2, <3>1, <3>3, EffectHints DEF Coming
  <2>. QED
    BY <2>1, <2>2
<1>. QED
  BY <1>3, <1>5 DEF OwedComing

(* A channel after a non-blocking send: what was in it stays, and the hint *)
(* is in it too unless it was full.                                        *)
LEMMA SentChannel ==
    ASSUME TypeOK, NEW h \in Handlers, SendHint(h),
           NEW x, x = Head(todo[h])
    PROVE  /\ todo[h] \in Seq(Hint) /\ todo[h] # << >> /\ todo'[h] = Tail(todo[h])
           /\ x \in Hint /\ x.kind \in HintKinds
           /\ \A g \in Handlers : g # h => todo'[g] = todo[g]
           /\ \A k \in HintKinds : k # x.kind => chan'[k] = chan[k]
           /\ \A i \in DOMAIN chan[x.kind] :
                 i \in DOMAIN chan'[x.kind] /\ chan'[x.kind][i] = chan[x.kind][i]
           /\ \A i \in DOMAIN chan'[x.kind] :
                 \/ chan'[x.kind][i] = x.who
                 \/ i \in DOMAIN chan[x.kind] /\ chan'[x.kind][i] = chan[x.kind][i]
           /\ chan'[x.kind] # << >> /\ 1 \in DOMAIN chan'[x.kind]
           /\ \/ Len(chan[x.kind]) = Cap(x.kind)
              \/ \E i \in DOMAIN chan'[x.kind] : chan'[x.kind][i] = x.who
           /\ UNCHANGED <<buf, registered, dirty, owed>>
<1>1. todo[h] \in Seq(Hint) /\ todo[h] # << >>
  BY DEF TypeOK, SendHint
<1>2. x \in Hint /\ x.kind \in HintKinds /\ x.who \in Users \cup {All}
  <2>1. x \in Hint
    BY <1>1, TailType
  <2>. QED
    BY <2>1 DEF Hint
<1>3. /\ chan' = [chan EXCEPT ![x.kind] = Offer(chan[x.kind], x.who, Cap(x.kind))]
      /\ todo' = [todo EXCEPT ![h] = Tail(todo[h])]
      /\ UNCHANGED <<buf, registered, dirty, owed>>
  BY DEF SendHint
<1>4. /\ todo'[h] = Tail(todo[h])
      /\ \A g \in Handlers : g # h => todo'[g] = todo[g]
  BY <1>3 DEF TypeOK
<1>. DEFINE s == chan[x.kind]
            Sent(a) ==
               /\ \A i \in DOMAIN a : i \in DOMAIN chan'[x.kind] /\ chan'[x.kind][i] = a[i]
               /\ \A i \in DOMAIN chan'[x.kind] :
                     \/ chan'[x.kind][i] = x.who
                     \/ i \in DOMAIN a /\ chan'[x.kind][i] = a[i]
               /\ chan'[x.kind] # << >> /\ 1 \in DOMAIN chan'[x.kind]
               /\ Len(a) = Cap(x.kind) \/ \E i \in DOMAIN chan'[x.kind] : chan'[x.kind][i] = x.who
<1>5. /\ chan'[x.kind] = Offer(s, x.who, Cap(x.kind))
      /\ \A k \in HintKinds : k # x.kind => chan'[k] = chan[k]
  BY <1>2, <1>3 DEF TypeOK
<1>6. /\ s \in Seq(Users \cup {All}) /\ Len(s) <= Cap(x.kind) /\ Len(s) \in Nat
      /\ Cap(x.kind) \in Nat \ {0}
  BY <1>2, CapType DEF TypeOK
<1>. HIDE DEF s
<1>7. ASSUME Len(s) = Cap(x.kind) PROVE Sent(s)
  <2>1. Offer(s, x.who, Cap(x.kind)) = s
    BY <1>6, <1>7 DEF Offer
  <2>2. s # << >> /\ 1 \in DOMAIN s
    BY <1>6, <1>7
  <2>3. chan'[x.kind] = s
    BY <1>5, <2>1
  <2>. QED
    BY <1>7, <2>2, <2>3
<1>8. ASSUME Len(s) < Cap(x.kind) PROVE Sent(s)
  <2>. DEFINE t == Append(s, x.who)
  <2>1. Offer(s, x.who, Cap(x.kind)) = t
    BY <1>8 DEF Offer
  <2>2. /\ t # << >> /\ 1 \in DOMAIN t
        /\ \A i \in DOMAIN s : i \in DOMAIN t /\ t[i] = s[i]
    BY <1>2, <1>6
  <2>3. \A i \in DOMAIN t : t[i] = x.who \/ (i \in DOMAIN s /\ t[i] = s[i])
    BY <1>2, <1>6
  <2>4. Len(s) + 1 \in DOMAIN t /\ t[Len(s) + 1] = x.who
    BY <1>2, <1>6
  <2>5. chan'[x.kind] = t
    BY <1>5, <2>1
  <2>. HIDE DEF t
  <2>. QED
    BY <2>2, <2>3, <2>4, <2>5
<1>9. Sent(s)
  BY <1>6, <1>7, <1>8
<1>. QED
  BY <1>1, <1>2, <1>3, <1>4, <1>5, <1>9 DEF s

LEMMA OwedSendHint ==
    ASSUME TypeOK, NEW h \in Handlers, SendHint(h),
           NEW p \in Pages, OneEffect(p), Alike(p), OwedComing(p)
    PROVE  Alike(p)' /\ OwedComing(p)'
<1>. DEFINE x == Head(todo[h])
<1>1. /\ todo[h] \in Seq(Hint) /\ todo[h] # << >> /\ todo'[h] = Tail(todo[h])
      /\ x.kind \in HintKinds
      /\ \A g \in Handlers : g # h => todo'[g] = todo[g]
      /\ \A k \in HintKinds : k # x.kind => chan'[k] = chan[k]
      /\ \A i \in DOMAIN chan'[x.kind] :
            \/ chan'[x.kind][i] = x.who
            \/ i \in DOMAIN chan[x.kind] /\ chan'[x.kind][i] = chan[x.kind][i]
      /\ chan'[x.kind] # << >>
      /\ UNCHANGED <<buf, registered, dirty, owed>>
  BY SentChannel
<1>2. /\ \A i \in DOMAIN todo[h] :
            todo[h][i] = x \/ \E j \in DOMAIN Tail(todo[h]) : Tail(todo[h])[j] = todo[h][i]
      /\ \A j \in DOMAIN Tail(todo[h]) : \E i \in DOMAIN todo[h] : todo[h][i] = Tail(todo[h])[j]
      /\ 1 \in DOMAIN todo[h] /\ x = todo[h][1]
  BY <1>1, TailType
<1>3. Hears(p, x.kind, x.who) => Reaction(p, x.kind) = Expected(p)
  BY <1>2 DEF Alike
<1>. HIDE DEF x
<1>4. Alike(p)'
  <2>1. ASSUME NEW g \in Handlers, NEW j \in DOMAIN todo'[g],
               Hears(p, todo'[g][j].kind, todo'[g][j].who)
        PROVE  Reaction(p, todo'[g][j].kind) = Expected(p)
    <3>1. CASE g = h
      <4>0. todo'[g] = Tail(todo[h]) /\ j \in DOMAIN Tail(todo[h])
        BY <1>1, <2>1, <3>1
      <4>1. PICK i \in DOMAIN todo[h] : todo[h][i] = todo'[g][j]
        BY <1>2, <4>0
      <4>. QED
        BY <2>1, <4>1 DEF Alike
    <3>2. CASE g # h
      <4>1. todo'[g] = todo[g]
        BY <1>1, <3>2
      <4>. QED
        BY <2>1, <4>1 DEF Alike
    <3>. QED
      BY <3>1, <3>2
  <2>2. ASSUME NEW k \in HintKinds, NEW i \in DOMAIN chan'[k], Hears(p, k, chan'[k][i])
        PROVE  Reaction(p, k) = Expected(p)
    <3>1. CASE k # x.kind
      <4>1. chan'[k] = chan[k]
        BY <1>1, <3>1
      <4>. QED
        BY <2>2, <4>1 DEF Alike
    <3>2. CASE k = x.kind /\ chan'[k][i] = x.who
      BY <1>3, <2>2, <3>2
    <3>3. CASE k = x.kind /\ i \in DOMAIN chan[k] /\ chan'[k][i] = chan[k][i]
      BY <2>2, <3>3 DEF Alike
    <3>. QED
      BY <1>1, <2>2, <3>1, <3>2, <3>3
  <2>. QED
    BY <1>1, <2>1, <2>2 DEF Alike
<1>5. OrderHint(p) \in HintKinds
  BY EffectPages
<1>6. ToSend(p) => ToSend(p)' \/ chan'[OrderHint(p)] # << >>
  <2>. SUFFICES ASSUME ToSend(p) PROVE ToSend(p)' \/ chan'[OrderHint(p)] # << >>
    OBVIOUS
  <2>1. PICK g \in Handlers : \E i \in DOMAIN todo[g] : todo[g][i].kind = OrderHint(p)
    BY DEF ToSend
  <2>2. PICK i \in DOMAIN todo[g] : todo[g][i].kind = OrderHint(p)
    BY <2>1
  <2>3. CASE g # h
    <3>1. todo'[g] = todo[g]
      BY <1>1, <2>3
    <3>. QED
      BY <2>2, <3>1 DEF ToSend
  <2>4. CASE g = h /\ todo[g][i] = x
    BY <1>1, <2>2, <2>4
  <2>5. CASE g = h /\ todo[g][i] # x
    <3>1. PICK j \in DOMAIN Tail(todo[h]) : Tail(todo[h])[j] = todo[g][i]
      BY <1>2, <2>5
    <3>2. todo'[h] = Tail(todo[h])
      BY <1>1
    <3>. QED
      BY <2>2, <3>1, <3>2 DEF ToSend
  <2>. QED
    BY <2>3, <2>4, <2>5
<1>7. chan[OrderHint(p)] # << >> => chan'[OrderHint(p)] # << >>
  BY <1>1, <1>5
<1>8. OwedComing(p)'
  BY <1>1, <1>6, <1>7 DEF OwedComing, Coming
<1>. QED
  BY <1>4, <1>8

LEMMA OwedRun ==
    ASSUME TypeOK, NEW k \in HintKinds, Run(k),
           NEW p \in Pages, OneEffect(p), Alike(p), OwedComing(p)
    PROVE  Alike(p)' /\ OwedComing(p)'
<1>1. /\ chan[k] \in Seq(Users \cup {All}) /\ chan[k] # << >>
      /\ chan' = [chan EXCEPT ![k] = Tail(chan[k])]
      /\ UNCHANGED <<todo, registered, dirty, owed>>
  BY DEF TypeOK, Run
<1>2. chan'[k] = Tail(chan[k]) /\ \A j \in HintKinds : j # k => chan'[j] = chan[j]
  BY <1>1 DEF TypeOK
<1>3. /\ Head(chan[k]) = chan[k][1] /\ 1 \in DOMAIN chan[k]
      /\ \A j \in DOMAIN Tail(chan[k]) : \E i \in DOMAIN chan[k] : chan[k][i] = Tail(chan[k])[j]
  BY <1>1, TailType
<1>4. buf'[p] = IF p \in registered /\ Hears(p, k, Head(chan[k]))
                THEN Offer(buf[p], k, SendBuf) ELSE buf[p]
  BY DEF Run
<1>5. /\ p \in registered /\ Hears(p, k, Head(chan[k])) => buf'[p] # << >>
      /\ buf[p] # << >> => buf'[p] # << >>
  <2>1. buf[p] \in Seq(HintKinds) /\ Len(buf[p]) <= SendBuf
    BY DEF TypeOK
  <2>2. Offer(buf[p], k, SendBuf) # << >>
    BY <2>1, OfferType, CapAssumption
  <2>. QED
    BY <1>4, <2>2
<1>6. Alike(p)'
  <2>1. ASSUME NEW i \in DOMAIN buf'[p] PROVE Reaction(p, buf'[p][i]) = Expected(p)
    <3>1. CASE buf'[p] = buf[p]
      BY <2>1, <3>1 DEF Alike
    <3>2. CASE Hears(p, k, Head(chan[k])) /\ buf'[p] = Append(buf[p], k)
      <4>1. Reaction(p, k) = Expected(p)
        BY <1>3, <3>2 DEF Alike
      <4>2. buf[p] \in Seq(HintKinds)
        BY DEF TypeOK
      <4>3. buf'[p][i] = k \/ (i \in DOMAIN buf[p] /\ buf'[p][i] = buf[p][i])
        BY <2>1, <3>2, <4>2
      <4>. QED
        BY <4>1, <4>3 DEF Alike
    <3>. QED
      BY <1>4, <3>1, <3>2 DEF Offer
  <2>2. ASSUME NEW j \in HintKinds, NEW i \in DOMAIN chan'[j], Hears(p, j, chan'[j][i])
        PROVE  Reaction(p, j) = Expected(p)
    <3>1. PICK n \in DOMAIN chan[j] : chan[j][n] = chan'[j][i]
      BY <1>2, <1>3, <2>2
    <3>. QED
      BY <2>2, <3>1 DEF Alike
  <2>. QED
    BY <1>1, <2>1, <2>2 DEF Alike
<1>7. ASSUME NEW l \in owed[p] PROVE Coming(p, l)'
  <2>1. p \in registered /\ Coming(p, l)
    BY <1>7 DEF OwedComing
  <2>2. CASE OrderHint(p) = k
    <3>1. Hears(p, k, Head(chan[k]))
      BY <2>2, EffectPages
    <3>. QED
      BY <1>5, <2>1, <3>1 DEF Coming
  <2>3. CASE OrderHint(p) # k
    <3>1. chan'[OrderHint(p)] = chan[OrderHint(p)]
      BY <1>2, <2>3, EffectPages
    <3>. QED
      BY <1>1, <1>5, <2>1, <3>1 DEF Coming, ToSend
  <2>. QED
    BY <2>2, <2>3
<1>. QED
  BY <1>1, <1>6, <1>7 DEF OwedComing

(* A step of another page, or one that only adds to what is fetched *)
LEMMA OwedUndisturbed ==
    ASSUME NEW p \in Pages, Alike(p), OwedComing(p),
           UNCHANGED <<todo, chan>>, buf'[p] = buf[p], owed'[p] = owed[p],
           dirty[p] \subseteq dirty'[p], p \in registered => p \in registered'
    PROVE  Alike(p)' /\ OwedComing(p)'
<1>1. Alike(p)'
  BY DEF Alike
<1>2. OwedComing(p)'
  BY DEF OwedComing, Coming, ToSend
<1>. QED
  BY <1>1, <1>2

LEMMA OwedPage ==
    ASSUME TypeOK, NEW q \in Pages,
           Connect(q) \/ Break(q) \/ OnMessage(q) \/ Elapse(q),
           NEW p \in Pages, OneEffect(p), Alike(p), OwedComing(p)
    PROVE  Alike(p)' /\ OwedComing(p)'
<1>0. buf \in [Pages -> Seq(HintKinds)] /\ owed \in [Pages -> SUBSET Lists]
      /\ dirty \in [Pages -> SUBSET Lists]
  BY DEF TypeOK
<1>1. UNCHANGED <<todo, chan>>
  BY DEF Connect, Upgrade, Register, OnOpen, Break, OnMessage, Elapse
<1>2. CASE Connect(q) \/ Elapse(q)
  <2>1. /\ buf'[p] = buf[p] /\ owed'[p] = owed[p] /\ dirty[p] \subseteq dirty'[p]
        /\ p \in registered => p \in registered'
    BY <1>0, <1>2 DEF Connect, Upgrade, Register, OnOpen, Elapse
  <2>. QED
    BY <1>1, <2>1, OwedUndisturbed
<1>3. CASE Break(q)
  <2>1. CASE q # p
    <3>1. /\ buf'[p] = buf[p] /\ owed'[p] = owed[p] /\ dirty[p] \subseteq dirty'[p]
          /\ p \in registered => p \in registered'
      BY <1>0, <1>3, <2>1 DEF Break
    <3>. QED
      BY <1>1, <3>1, OwedUndisturbed
  <2>2. CASE q = p
    <3>1. buf'[p] = << >> /\ owed'[p] = {}
      BY <1>0, <1>3, <2>2 DEF Break
    <3>2. DOMAIN buf'[p] = {}
      BY <3>1
    <3>3. Alike(p)'
      BY <1>1, <3>2 DEF Alike
    <3>. QED
      BY <3>1, <3>3 DEF OwedComing
  <2>. QED
    BY <2>1, <2>2
<1>4. CASE OnMessage(q)
  <2>1. UNCHANGED <<registered, owed>>
    BY <1>4 DEF OnMessage
  <2>2. CASE q # p
    <3>1. buf'[p] = buf[p] /\ dirty'[p] = dirty[p]
      BY <1>0, <1>4, <2>2 DEF OnMessage
    <3>. QED
      BY <1>1, <2>1, <3>1, OwedUndisturbed
  <2>3. CASE q = p
    <3>1. buf[p] \in Seq(HintKinds) /\ buf[p] # << >> /\ buf'[p] = Tail(buf[p])
      BY <1>0, <1>4, <2>3 DEF OnMessage
    <3>2. /\ Head(buf[p]) = buf[p][1] /\ 1 \in DOMAIN buf[p]
          /\ \A j \in DOMAIN Tail(buf[p]) : \E i \in DOMAIN buf[p] : buf[p][i] = Tail(buf[p])[j]
      BY <3>1, TailType
    <3>3. Alike(p)'
      <4>1. ASSUME NEW j \in DOMAIN buf'[p] PROVE Reaction(p, buf'[p][j]) = Expected(p)
        <5>1. PICK i \in DOMAIN buf[p] : buf[p][i] = buf'[p][j]
          BY <3>1, <3>2, <4>1
        <5>. QED
          BY <5>1 DEF Alike
      <4>. QED
        BY <1>1, <4>1 DEF Alike
    <3>4. dirty'[p] = dirty[p] \cup Expected(p)
      <4>1. Reaction(p, Head(buf[p])) = Expected(p)
        BY <3>2 DEF Alike
      <4>2. dirty' = [dirty EXCEPT ![p] = dirty[p] \cup Reaction(p, Head(buf[p]))]
        BY <1>4, <2>3, EffectPages DEF OnMessage, Throttled
      <4>. QED
        BY <1>0, <4>1, <4>2
    <3>. QED
      BY <2>1, <3>3, <3>4 DEF OwedComing, Coming
  <2>. QED
    BY <2>2, <2>3
<1>. QED
  BY <1>2, <1>3, <1>4

LEMMA OwedFetch ==
    ASSUME TypeOK, NEW q \in Pages, NEW l \in Lists, Fetch(q, l),
           NEW p \in Pages, OneEffect(p), Alike(p), OwedComing(p)
    PROVE  Alike(p)' /\ OwedComing(p)'
<1>1. owed \in [Pages -> SUBSET Lists] /\ dirty \in [Pages -> SUBSET Lists]
  BY DEF TypeOK
<1>2. UNCHANGED <<todo, chan, buf, registered>>
  BY DEF Fetch
<1>3. Alike(p)'
  BY <1>2 DEF Alike
<1>4. ASSUME NEW m \in owed'[p]
      PROVE  m \in owed[p] /\ (m \in dirty[p] => m \in dirty'[p])
  BY <1>1, <1>4 DEF Fetch
<1>5. OwedComing(p)'
  BY <1>2, <1>4 DEF OwedComing, Coming, ToSend
<1>. QED
  BY <1>3, <1>5

LEMMA OwedInit == Init => OwedInv
<1>. SUFFICES ASSUME Init PROVE OwedInv
  OBVIOUS
<1>1. DOMAIN << >> = {}
  OBVIOUS
<1>2. \A p \in Pages : Alike(p)
  BY <1>1 DEF Init, Alike
<1>3. \A p \in Pages : OwedComing(p)
  BY DEF Init, OwedComing
<1>. QED
  BY <1>2, <1>3, TypeInit DEF OwedInv

LEMMA OwedNext == OwedInv /\ [Next]_vars => OwedInv'
<1>. SUFFICES ASSUME OwedInv, [Next]_vars PROVE OwedInv'
  OBVIOUS
<1>1. TypeOK /\ TypeOK'
  BY TypeNext DEF OwedInv
<1>2. ASSUME NEW p \in Pages, OneEffect(p) PROVE Alike(p)' /\ OwedComing(p)'
  <2>0. Alike(p) /\ OwedComing(p)
    BY <1>2 DEF OwedInv
  <2>. DEFINE Kept == Alike(p)' /\ OwedComing(p)'
  <2>1. ASSUME NEW h \in Handlers, NEW o \in Ops, Commit(h, o[1], o[2]) PROVE Kept
    BY <1>1, <1>2, <2>0, <2>1, OwedCommit, OpsPairs
  <2>2. ASSUME NEW h \in Handlers, SendHint(h) PROVE Kept
    BY <1>1, <1>2, <2>0, <2>2, OwedSendHint
  <2>3. ASSUME NEW k \in HintKinds, Run(k) PROVE Kept
    BY <1>1, <1>2, <2>0, <2>3, OwedRun
  <2>4. ASSUME NEW q \in Pages, Connect(q) \/ Break(q) \/ OnMessage(q) \/ Elapse(q) PROVE Kept
    BY <1>1, <1>2, <2>0, <2>4, OwedPage
  <2>5. ASSUME NEW q \in Pages, NEW l \in Lists, Fetch(q, l) PROVE Kept
    BY <1>1, <1>2, <2>0, <2>5, OwedFetch
  <2>6. ASSUME UNCHANGED vars PROVE Kept
    <3>1. UNCHANGED <<todo, chan, buf, registered, dirty, owed>>
      BY <2>6 DEF vars
    <3>. QED
      BY <2>0, <3>1, OwedUndisturbed
  <2>. QED
    BY <2>1, <2>2, <2>3, <2>4, <2>5, <2>6 DEF Next
<1>3. \A p \in Pages : OneEffect(p)' <=> OneEffect(p)
  BY DEF OneEffect
<1>. QED
  BY <1>1, <1>2, <1>3 DEF OwedInv

(* While all hints that a page hears have one effect, dropping them at     *)
(* full channels and buffers loses nothing to it, whatever the hub carries *)
(* to other pages: what was announced to it while it was connected is on   *)
(* its way until the page has fetched it.                                  *)
THEOREM NothingLost == Spec => []OwedOnTheWay
<1>1. Init => OwedInv
  BY OwedInit
<1>2. OwedInv /\ [Next]_vars => OwedInv'
  BY OwedNext
<1>3. OwedInv => OwedOnTheWay
  BY ComingOnTheWay
<1>. QED
  BY <1>1, <1>2, <1>3, PTL DEF Spec

-----------------------------------------------------------------------------
(* Hints of different effects: a step that takes the last announcement of a *)
(* list off its way to a page fetched the list, or drops a hint.            *)

LEMMA KeptSendHint ==
    ASSUME TypeOK, NEW h \in Handlers, SendHint(h), NEW p \in Pages, NEW l, OnTheWay(p, l)
    PROVE  OnTheWay(p, l)' \/ Drops(p)
<1>. DEFINE x == Head(todo[h])
<1>1. /\ todo[h] \in Seq(Hint) /\ todo[h] # << >> /\ todo'[h] = Tail(todo[h])
      /\ x \in Hint /\ x.kind \in HintKinds
      /\ \A g \in Handlers : g # h => todo'[g] = todo[g]
      /\ \A k \in HintKinds : k # x.kind => chan'[k] = chan[k]
      /\ \A i \in DOMAIN chan[x.kind] :
            i \in DOMAIN chan'[x.kind] /\ chan'[x.kind][i] = chan[x.kind][i]
      /\ 1 \in DOMAIN chan'[x.kind]
      /\ \/ Len(chan[x.kind]) = Cap(x.kind)
         \/ \E i \in DOMAIN chan'[x.kind] : chan'[x.kind][i] = x.who
      /\ UNCHANGED <<buf, dirty>>
  <2>1. /\ todo[h] \in Seq(Hint) /\ todo[h] # << >> /\ todo'[h] = Tail(todo[h])
        /\ x \in Hint /\ x.kind \in HintKinds
        /\ \A g \in Handlers : g # h => todo'[g] = todo[g]
        /\ \A k \in HintKinds : k # x.kind => chan'[k] = chan[k]
    BY SentChannel
  <2>2. /\ \A i \in DOMAIN chan[x.kind] :
              i \in DOMAIN chan'[x.kind] /\ chan'[x.kind][i] = chan[x.kind][i]
        /\ 1 \in DOMAIN chan'[x.kind]
    BY SentChannel
  <2>3. \/ Len(chan[x.kind]) = Cap(x.kind)
        \/ \E i \in DOMAIN chan'[x.kind] : chan'[x.kind][i] = x.who
    BY SentChannel
  <2>4. UNCHANGED <<buf, dirty>>
    BY SentChannel
  <2>. HIDE DEF x
  <2>. QED
    BY <2>1, <2>2, <2>3, <2>4
<1>2. \A i \in DOMAIN todo[h] :
         todo[h][i] = x \/ \E j \in DOMAIN Tail(todo[h]) : Tail(todo[h])[j] = todo[h][i]
  BY <1>1, TailType
<1>3. x.kind \in Notifications /\ Hears(p, x.kind, x.who) /\ Len(chan[x.kind]) = Cap(x.kind)
         => Drops(p)
  BY <1>1 DEF Drops
<1>. HIDE DEF x
<1>4. \A k \in HintKinds : \A i \in DOMAIN chan[k] : i \in DOMAIN chan'[k] /\ chan'[k][i] = chan[k][i]
  BY <1>1
<1>5. ASSUME Hears(p, x.kind, x.who), ~Drops(p)
      PROVE  \E i \in DOMAIN chan'[x.kind] : Hears(p, x.kind, chan'[x.kind][i])
  <2>1. CASE \E i \in DOMAIN chan'[x.kind] : chan'[x.kind][i] = x.who
    BY <1>5, <2>1
  <2>2. CASE Len(chan[x.kind]) = Cap(x.kind)
    <3>1. x.kind \in Broadcasts
      BY <1>1, <1>3, <1>5, <2>2 DEF HintKinds
    <3>2. Hears(p, x.kind, chan'[x.kind][1])
      BY <1>5, <3>1 DEF Hears, Broadcasts
    <3>. QED
      BY <1>1, <3>2
  <2>. QED
    BY <1>1, <2>1, <2>2
<1>6. CASE l \in dirty[p] \/ \E i \in DOMAIN buf[p] : l \in Reaction(p, buf[p][i])
  BY <1>1, <1>6 DEF OnTheWay
<1>7. CASE \E k \in HintKinds : \E i \in DOMAIN chan[k] :
              Hears(p, k, chan[k][i]) /\ l \in Reaction(p, k)
  <2>1. \E k \in HintKinds : \E i \in DOMAIN chan'[k] :
              Hears(p, k, chan'[k][i]) /\ l \in Reaction(p, k)
    BY <1>4, <1>7
  <2>. QED
    BY <2>1 DEF OnTheWay
<1>8. CASE \E g \in Handlers : \E i \in DOMAIN todo[g] :
              Hears(p, todo[g][i].kind, todo[g][i].who) /\ l \in Reaction(p, todo[g][i].kind)
  <2>1. PICK g \in Handlers : \E i \in DOMAIN todo[g] :
              Hears(p, todo[g][i].kind, todo[g][i].who) /\ l \in Reaction(p, todo[g][i].kind)
    BY <1>8
  <2>2. PICK i \in DOMAIN todo[g] :
              Hears(p, todo[g][i].kind, todo[g][i].who) /\ l \in Reaction(p, todo[g][i].kind)
    BY <2>1
  <2>3. CASE g = h /\ todo[g][i] = x
    <3>1. Hears(p, x.kind, x.who) /\ l \in Reaction(p, x.kind)
      BY <2>2, <2>3
    <3>2. ~Drops(p) => \E j \in DOMAIN chan'[x.kind] : Hears(p, x.kind, chan'[x.kind][j])
      BY <1>5, <3>1
    <3>. QED
      BY <1>1, <3>1, <3>2 DEF OnTheWay
  <2>4. CASE g = h /\ todo[g][i] # x
    <3>1. PICK j \in DOMAIN Tail(todo[h]) : Tail(todo[h])[j] = todo[g][i]
      BY <1>2, <2>4
    <3>2. todo'[h] = Tail(todo[h])
      BY <1>1
    <3>. QED
      BY <2>2, <3>1, <3>2 DEF OnTheWay
  <2>5. CASE g # h
    <3>1. todo'[g] = todo[g]
      BY <1>1, <2>5
    <3>. QED
      BY <2>2, <3>1 DEF OnTheWay
  <2>. QED
    BY <2>3, <2>4, <2>5
<1>. QED
  BY <1>6, <1>7, <1>8 DEF OnTheWay

LEMMA KeptRun ==
    ASSUME TypeOK, NEW k \in HintKinds, Run(k),
           NEW p \in Pages, p \in registered, NEW l, OnTheWay(p, l)
    PROVE  OnTheWay(p, l)' \/ Drops(p)
<1>1. /\ chan[k] \in Seq(Users \cup {All}) /\ chan[k] # << >>
      /\ chan' = [chan EXCEPT ![k] = Tail(chan[k])]
      /\ UNCHANGED <<todo, dirty>>
  BY DEF TypeOK, Run
<1>2. chan'[k] = Tail(chan[k]) /\ \A j \in HintKinds : j # k => chan'[j] = chan[j]
  BY <1>1 DEF TypeOK
<1>3. /\ buf[p] \in Seq(HintKinds) /\ Len(buf[p]) <= SendBuf
      /\ buf'[p] = IF Hears(p, k, Head(chan[k])) THEN Offer(buf[p], k, SendBuf) ELSE buf[p]
  BY DEF TypeOK, Run
<1>4. CASE Hears(p, k, Head(chan[k])) /\ Len(buf[p]) = SendBuf
  BY <1>1, <1>2, <1>4 DEF Drops
<1>5. CASE Hears(p, k, Head(chan[k])) => Len(buf[p]) < SendBuf
  <2>. DEFINE s == Append(buf[p], k)
  <2>1. /\ \A i \in DOMAIN buf[p] : i \in DOMAIN s /\ s[i] = buf[p][i]
        /\ \E i \in DOMAIN s : s[i] = k
    <3>1. Len(buf[p]) + 1 \in DOMAIN s /\ s[Len(buf[p]) + 1] = k
      BY <1>3
    <3>2. \A i \in DOMAIN buf[p] : i \in DOMAIN s /\ s[i] = buf[p][i]
      BY <1>3
    <3>. QED
      BY <3>1, <3>2
  <2>2. Hears(p, k, Head(chan[k])) => buf'[p] = s
    BY <1>3, <1>5 DEF Offer
  <2>. HIDE DEF s
  <2>3. \A i \in DOMAIN buf[p] : i \in DOMAIN buf'[p] /\ buf'[p][i] = buf[p][i]
    BY <1>3, <2>1, <2>2
  <2>4. CASE l \in dirty[p]
    BY <1>1, <2>4 DEF OnTheWay
  <2>5. CASE \E i \in DOMAIN buf[p] : l \in Reaction(p, buf[p][i])
    <3>1. \E i \in DOMAIN buf'[p] : l \in Reaction(p, buf'[p][i])
      BY <2>3, <2>5
    <3>. QED
      BY <3>1 DEF OnTheWay
  <2>6. CASE \E j \in HintKinds : \E i \in DOMAIN chan[j] :
                Hears(p, j, chan[j][i]) /\ l \in Reaction(p, j)
    <3>1. PICK j \in HintKinds : \E i \in DOMAIN chan[j] :
                Hears(p, j, chan[j][i]) /\ l \in Reaction(p, j)
      BY <2>6
    <3>2. PICK i \in DOMAIN chan[j] : Hears(p, j, chan[j][i]) /\ l \in Reaction(p, j)
      BY <3>1
    <3>3. CASE j # k
      <4>1. chan'[j] = chan[j]
        BY <1>2, <3>3
      <4>. QED
        BY <3>2, <4>1 DEF OnTheWay
    <3>4. CASE j = k /\ chan[k][i] = Head(chan[k])
      <4>1. buf'[p] = s
        BY <2>2, <3>2, <3>4
      <4>2. \E n \in DOMAIN buf'[p] : l \in Reaction(p, buf'[p][n])
        BY <2>1, <3>2, <3>4, <4>1
      <4>. QED
        BY <4>2 DEF OnTheWay
    <3>5. CASE j = k /\ chan[k][i] # Head(chan[k])
      <4>1. PICK n \in DOMAIN Tail(chan[k]) : Tail(chan[k])[n] = chan[k][i]
        BY <1>1, <3>2, <3>5, TailType
      <4>2. n \in DOMAIN chan'[k] /\ Hears(p, k, chan'[k][n]) /\ l \in Reaction(p, k)
        BY <1>2, <3>2, <3>5, <4>1
      <4>. QED
        BY <4>2 DEF OnTheWay
    <3>. QED
      BY <3>3, <3>4, <3>5
  <2>7. CASE \E g \in Handlers : \E i \in DOMAIN todo[g] :
                Hears(p, todo[g][i].kind, todo[g][i].who) /\ l \in Reaction(p, todo[g][i].kind)
    BY <1>1, <2>7 DEF OnTheWay
  <2>. QED
    BY <2>4, <2>5, <2>6, <2>7 DEF OnTheWay
<1>. QED
  BY <1>3, <1>4, <1>5, CapAssumption

LEMMA KeptOnMessage ==
    ASSUME TypeOK, NEW q \in Pages, OnMessage(q), NEW p \in Pages, NEW l, OnTheWay(p, l)
    PROVE  OnTheWay(p, l)' \/ Drops(p)
<1>1. /\ buf[q] \in Seq(HintKinds) /\ buf[q] # << >>
      /\ buf' = [buf EXCEPT ![q] = Tail(buf[q])]
      /\ UNCHANGED <<todo, chan>>
  BY DEF TypeOK, OnMessage
<1>2. buf'[q] = Tail(buf[q]) /\ (p # q => buf'[p] = buf[p])
  BY <1>1 DEF TypeOK
<1>3. CASE Throttled(q, Head(buf[q])) /\ p = q
  BY <1>1, <1>2, <1>3 DEF Drops, Throttled
<1>4. CASE Throttled(q, Head(buf[q])) /\ p # q
  <2>1. buf'[p] = buf[p] /\ dirty'[p] = dirty[p]
    BY <1>2, <1>4 DEF OnMessage
  <2>. QED
    BY <1>1, <2>1 DEF OnTheWay
<1>5. CASE ~Throttled(q, Head(buf[q]))
  <2>1. dirty' = [dirty EXCEPT ![q] = dirty[q] \cup Reaction(q, Head(buf[q]))]
    BY <1>5 DEF OnMessage
  <2>2. /\ dirty[p] \subseteq dirty'[p]
        /\ p = q => Reaction(p, Head(buf[p])) \subseteq dirty'[p]
    BY <2>1 DEF TypeOK
  <2>3. CASE \E i \in DOMAIN buf[p] : l \in Reaction(p, buf[p][i])
    <3>1. PICK i \in DOMAIN buf[p] : l \in Reaction(p, buf[p][i])
      BY <2>3
    <3>2. CASE p # q
      <4>1. buf'[p] = buf[p]
        BY <1>2, <3>2
      <4>. QED
        BY <3>1, <4>1 DEF OnTheWay
    <3>3. CASE p = q /\ buf[p][i] = Head(buf[p])
      BY <2>2, <3>1, <3>3 DEF OnTheWay
    <3>4. CASE p = q /\ buf[p][i] # Head(buf[p])
      <4>1. PICK n \in DOMAIN Tail(buf[p]) : Tail(buf[p])[n] = buf[p][i]
        BY <1>1, <3>1, <3>4, TailType
      <4>2. n \in DOMAIN buf'[p] /\ l \in Reaction(p, buf'[p][n])
        BY <1>2, <3>1, <3>4, <4>1
      <4>. QED
        BY <4>2 DEF OnTheWay
    <3>. QED
      BY <3>2, <3>3, <3>4
  <2>. QED
    BY <1>1, <2>2, <2>3 DEF OnTheWay
<1>. QED
  BY <1>3, <1>4, <1>5

(* With hints of different effect mixed an announcement is lost only at    *)
(* the page's own full buffer, at a full channel of notifications (the     *)
(* default branches of hub.go), in the throttle of AppShell or with the    *)
(* connection; never at a full channel of broadcasts.                      *)
THEOREM LostWithADrop == Spec => LostOnlyWhenFull
<1>. DEFINE Step == \A p \in registered \cap registered' : \A l \in Shows(p) :
                OnTheWay(p, l) /\ ~OnTheWay(p, l)' => l \notin stale'[p] \/ Drops(p)
<1>1. ASSUME TypeOK, [Next]_vars PROVE [Step]_vars
  <2>. SUFFICES ASSUME Next, NEW p \in registered \cap registered', NEW l \in Shows(p),
                       OnTheWay(p, l), ~OnTheWay(p, l)', ~Drops(p)
                PROVE  l \notin stale'[p]
    BY <1>1
  <2>0. p \in Pages
    BY <1>1 DEF TypeOK
  <2>1. ASSUME NEW h \in Handlers, NEW o \in Ops, Commit(h, o[1], o[2]) PROVE FALSE
    <3>1. UNCHANGED <<chan, buf, dirty>> /\ \A g \in Handlers : todo[g] # << >> => todo'[g] = todo[g]
      BY <1>1, <2>1 DEF Commit, TypeOK
    <3>2. DOMAIN << >> = {}
      OBVIOUS
    <3>3. OnTheWay(p, l)'
      BY <3>1, <3>2 DEF OnTheWay
    <3>. QED
      BY <3>3
  <2>2. ASSUME NEW h \in Handlers, SendHint(h) PROVE FALSE
    BY <1>1, <2>0, <2>2, KeptSendHint
  <2>3. ASSUME NEW k \in HintKinds, Run(k) PROVE FALSE
    BY <1>1, <2>0, <2>3, KeptRun
  <2>4. ASSUME NEW q \in Pages, Connect(q) PROVE FALSE
    <3>1. UNCHANGED <<todo, chan, buf>> /\ dirty[p] \subseteq dirty'[p]
      BY <1>1, <2>0, <2>4 DEF Connect, Upgrade, Register, OnOpen, TypeOK
    <3>2. OnTheWay(p, l)'
      BY <3>1 DEF OnTheWay
    <3>. QED
      BY <3>2
  <2>5. ASSUME NEW q \in Pages, Break(q) PROVE FALSE
    <3>1. p # q
      BY <2>5 DEF Break
    <3>2. UNCHANGED <<todo, chan, dirty>> /\ buf'[p] = buf[p]
      BY <1>1, <2>0, <2>5, <3>1 DEF Break, TypeOK
    <3>3. OnTheWay(p, l)'
      BY <3>2 DEF OnTheWay
    <3>. QED
      BY <3>3
  <2>6. ASSUME NEW q \in Pages, OnMessage(q) PROVE FALSE
    BY <1>1, <2>0, <2>6, KeptOnMessage
  <2>7. ASSUME NEW q \in Pages, Elapse(q) PROVE FALSE
    <3>1. UNCHANGED <<todo, chan, buf, dirty>>
      BY <2>7 DEF Elapse
    <3>2. OnTheWay(p, l)'
      BY <3>1 DEF OnTheWay
    <3>. QED
      BY <3>2
  <2>8. ASSUME NEW q \in Pages, NEW m \in Lists, Fetch(q, m) PROVE l \notin stale'[p]
    <3>1. CASE q = p /\ m = l
      BY <1>1, <2>0, <2>8, <3>1 DEF Fetch, TypeOK
    <3>2. CASE q # p \/ m # l
      <4>1. UNCHANGED <<todo, chan, buf>> /\ (l \in dirty[p] => l \in dirty'[p])
        BY <1>1, <2>0, <2>8, <3>2 DEF Fetch, TypeOK
      <4>2. OnTheWay(p, l)'
        BY <4>1 DEF OnTheWay
      <4>. QED
        BY <4>2
    <3>. QED
      BY <3>1, <3>2
  <2>. QED
    BY <2>1, <2>2, <2>3, <2>4, <2>5, <2>6, <2>7, <2>8 DEF Next
<1>. QED
  BY <1>1, TypeCorrect, PTL DEF Spec, LostOnlyWhenFull
=============================================================================
