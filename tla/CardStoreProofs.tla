--------------------------- MODULE CardStoreProofs ---------------------------
(***************************************************************************)
(* Proofs about CardStore, for every number of members, days and knipjes   *)
(* per card and every value of the bounds.                                 *)
(***************************************************************************)
EXTENDS CardStoreProps, SequenceTheorems, TLAPS

-----------------------------------------------------------------------------
(* Sequences and tables *)

(* A function on 1..n with values in S is a sequence over S of length n *)
LEMMA FunctionIsSeq ==
    ASSUME NEW S, NEW n \in Nat, NEW f \in [1..n -> S]
    PROVE  f \in Seq(S) /\ Len(f) = n /\ DOMAIN f = 1..n
<1>1. f \in Seq(S)
  BY SeqDef
<1>2. DOMAIN f = 1..n
  OBVIOUS
<1>3. Len(f) \in Nat /\ DOMAIN f = 1..Len(f)
  BY <1>1, LenProperties
<1>4. Len(f) = n
  BY <1>2, <1>3
<1>. QED BY <1>1, <1>2, <1>4

(* The new line and the ones before it, in a log that got one more line *)
LEMMA AppendedLine ==
    ASSUME NEW S, NEW s \in Seq(S), NEW e \in S
    PROVE  /\ Append(s, e) \in Seq(S)
           /\ Len(Append(s, e)) = Len(s) + 1
           /\ Len(s) \in Nat
           /\ DOMAIN s = 1..Len(s)
           /\ DOMAIN Append(s, e) = 1..(Len(s) + 1)
           /\ \A i \in 1..Len(s) : Append(s, e)[i] = s[i]
           /\ Append(s, e)[Len(s) + 1] = e
OBVIOUS

LEMMA LineFields ==
    ASSUME NEW l \in Line
    PROVE  /\ l.reason \in Reasons
           /\ l.delta \in -Knipjes..Knipjes /\ l.balance \in 0..Knipjes
           /\ l.order \in Nat /\ l.meal \in Days \cup {Null}
           /\ l.reverses \in Nat /\ l.reversedBy \in Nat
BY DEF Line

(* The log of a card after an undo has the old lines but for their links,  *)
(* with a line that pays the undone delta back at the end.                 *)
LEMMA UndoneLogShape ==
    ASSUME NEW lines \in Seq(Line), NEW i \in DOMAIN lines,
           NEW meal \in Days \cup {Null}, NEW balance \in 0..Knipjes
    PROVE  LET new == UndoneLog(lines, i, meal, balance)
           IN  /\ new \in Seq(Line)
               /\ Len(new) = Len(lines) + 1
               /\ \A j \in 1..Len(lines) :
                     /\ new[j].balance = lines[j].balance
                     /\ new[j].delta = lines[j].delta
                     /\ j # i /\ lines[j].meal = Null => new[j] = lines[j]
               /\ new[Len(lines) + 1].balance = balance
               /\ new[Len(lines) + 1].delta = -lines[i].delta
<1>. DEFINE Old(j) == [lines[j] EXCEPT
                         !.meal = IF meal # Null /\ @ = meal THEN Null ELSE @,
                         !.reversedBy = IF j = i THEN Len(lines) + 1 ELSE @]
            old == [j \in DOMAIN lines |-> Old(j)]
            undo == [Booking("undo", -lines[i].delta, balance) EXCEPT !.reverses = i]
<1>1. Len(lines) \in Nat /\ DOMAIN lines = 1..Len(lines)
  BY LenProperties
<1>2. \A j \in DOMAIN lines : lines[j] \in Line
  BY <1>1, ElementOfSeq
<1>3. \A j \in DOMAIN lines :
         /\ Old(j) \in Line
         /\ Old(j).balance = lines[j].balance /\ Old(j).delta = lines[j].delta
         /\ j # i /\ lines[j].meal = Null => Old(j) = lines[j]
  <2>. SUFFICES ASSUME NEW j \in DOMAIN lines
                PROVE  /\ Old(j) \in Line
                       /\ Old(j).balance = lines[j].balance /\ Old(j).delta = lines[j].delta
                       /\ j # i /\ lines[j].meal = Null => Old(j) = lines[j]
    OBVIOUS
  <2>. DEFINE m == IF meal # Null /\ lines[j].meal = meal THEN Null ELSE lines[j].meal
              r == IF j = i THEN Len(lines) + 1 ELSE lines[j].reversedBy
  <2>1. lines[j] \in Line
    BY <1>2
  <2>2. m \in Days \cup {Null}
    BY <2>1, LineFields
  <2>3. r \in Nat
    BY <1>1, <2>1, LineFields
  <2>4. Old(j) = [lines[j] EXCEPT !.meal = m, !.reversedBy = r]
    OBVIOUS
  <2>5. j # i /\ lines[j].meal = Null => lines[j].meal = m /\ lines[j].reversedBy = r
    OBVIOUS
  <2>. DEFINE linked == [lines[j] EXCEPT !.meal = m, !.reversedBy = r]
  <2>. HIDE DEF m, r, Old
  <2>6. /\ linked \in Line /\ linked.balance = lines[j].balance /\ linked.delta = lines[j].delta
        /\ lines[j].meal = m /\ lines[j].reversedBy = r => linked = lines[j]
    BY <2>1, <2>2, <2>3 DEF Line
  <2>. HIDE DEF linked
  <2>7. Old(j) = linked
    BY <2>4 DEF linked
  <2>. QED BY <2>5, <2>6, <2>7
<1>4. old \in [1..Len(lines) -> Line]
  BY <1>1, <1>3
<1>5. old \in Seq(Line) /\ Len(old) = Len(lines) /\ DOMAIN old = 1..Len(lines)
  BY <1>1, <1>4, FunctionIsSeq
<1>6. undo \in Line /\ undo.balance = balance /\ undo.delta = -lines[i].delta
  <2>1. lines[i].delta \in -Knipjes..Knipjes /\ i \in Nat
    BY <1>1, <1>2 DEF Line
  <2>2. -lines[i].delta \in -Knipjes..Knipjes
    BY <2>1, KnipjesAssumption
  <2>. QED BY <2>1, <2>2 DEF Line, Booking, Reasons, Null
<1>7. UndoneLog(lines, i, meal, balance) = Append(old, undo)
  BY DEF UndoneLog
<1>8. \A j \in 1..Len(lines) : old[j] = Old(j)
  BY <1>1
<1>. HIDE DEF Old, old, undo
<1>9. /\ Append(old, undo) \in Seq(Line)
      /\ Len(Append(old, undo)) = Len(lines) + 1
      /\ \A j \in 1..Len(lines) : Append(old, undo)[j] = old[j]
      /\ Append(old, undo)[Len(lines) + 1] = undo
  BY <1>5, <1>6, AppendedLine
<1>10. \A j \in 1..Len(lines) :
          /\ Append(old, undo)[j].balance = lines[j].balance
          /\ Append(old, undo)[j].delta = lines[j].delta
          /\ j # i /\ lines[j].meal = Null => Append(old, undo)[j] = lines[j]
  BY <1>1, <1>3, <1>8, <1>9
<1>. QED BY <1>6, <1>7, <1>9, <1>10

LEMMA WithShape ==
    ASSUME NEW S, NEW D, NEW t \in [D -> S], NEW i, NEW row \in S
    PROVE  /\ DOMAIN With(t, i, row) = D \cup {i}
           /\ With(t, i, row) \in [D \cup {i} -> S]
           /\ With(t, i, row)[i] = row
           /\ \A j \in D : j # i => With(t, i, row)[j] = t[j]
BY DEF With

LEMMA RestrictShape ==
    ASSUME NEW S, NEW D, NEW t \in [D -> S], NEW E, E \subseteq D
    PROVE  /\ DOMAIN Restrict(t, E) = E
           /\ Restrict(t, E) \in [E -> S]
           /\ \A j \in E : Restrict(t, E)[j] = t[j]
BY DEF Restrict

-----------------------------------------------------------------------------
(* Types of the lines and rows that the actions write *)

LEMMA BookingType ==
    ASSUME NEW reason \in Reasons, NEW delta \in -Knipjes..Knipjes, NEW balance \in 0..Knipjes
    PROVE  /\ Booking(reason, delta, balance) \in Line
           /\ Booking(reason, delta, balance).balance = balance
           /\ Booking(reason, delta, balance).delta = delta
           /\ \A o \in Nat :
                 /\ [Booking(reason, delta, balance) EXCEPT !.order = o] \in Line
                 /\ [Booking(reason, delta, balance) EXCEPT !.order = o].balance = balance
                 /\ [Booking(reason, delta, balance) EXCEPT !.order = o].delta = delta
           /\ \A d \in Days :
                 /\ [Booking(reason, delta, balance) EXCEPT !.meal = d] \in Line
                 /\ [Booking(reason, delta, balance) EXCEPT !.meal = d].balance = balance
                 /\ [Booking(reason, delta, balance) EXCEPT !.meal = d].delta = delta
BY DEF Booking, Line, Null

LEMMA IssuedType == Issued \in Line /\ Issued.balance = Knipjes /\ <<Issued>> \in Seq(Line)
<1>1. /\ Knipjes \in -Knipjes..Knipjes
      /\ Knipjes \in 0..Knipjes
      /\ "issued" \in Reasons
  BY KnipjesAssumption DEF Reasons
<1>. QED BY <1>1, BookingType DEF Issued

LEMMA RowTypes ==
    ASSUME TypeOK, NEW c \in DOMAIN cards
    PROVE  /\ DOMAIN log = DOMAIN cards
           /\ c \in Nat \ {0}
           /\ cards[c] \in Card
           /\ cards[c].knip \in 0..Knipjes
           /\ log[c] \in Seq(Line)
           /\ Len(log[c]) \in Nat
           /\ DOMAIN log[c] = 1..Len(log[c])
           /\ \A i \in DOMAIN log[c] : log[c][i] \in Line
<1>1. log[c] \in Seq(Line) /\ DOMAIN log = DOMAIN cards
  BY DEF TypeOK
<1>2. cards[c] \in Card /\ c \in 1..lastCard /\ lastCard \in Nat
  BY BoundsAssumption DEF TypeOK
<1>3. cards[c].knip \in 0..Knipjes
  BY <1>2 DEF Card
<1>. QED BY <1>1, <1>2, <1>3, LenProperties, ElementOfSeq

(* Booking a line on a card changes that card's balance and log only *)
LEMMA BookShape ==
    ASSUME TypeOK, NEW c \in DOMAIN cards, NEW line \in Line, Book(c, line)
    PROVE  /\ DOMAIN cards' = DOMAIN cards
           /\ cards' \in [DOMAIN cards -> Card]
           /\ cards'[c] = [cards[c] EXCEPT !.knip = line.balance]
           /\ cards'[c].knip = line.balance
           /\ \A d \in DOMAIN cards : d # c => cards'[d] = cards[d] /\ log'[d] = log[d]
           /\ log' \in [DOMAIN cards -> Seq(Line)]
           /\ log'[c] = Append(log[c], line)
<1>1. /\ cards \in [DOMAIN cards -> Card]
      /\ log \in [DOMAIN cards -> Seq(Line)]
  BY DEF TypeOK
<1>2. cards[c] \in Card /\ log[c] \in Seq(Line)
  BY <1>1
<1>3. line.balance \in 0..Knipjes
  BY LineFields
<1>4. /\ [cards[c] EXCEPT !.knip = line.balance] \in Card
      /\ [cards[c] EXCEPT !.knip = line.balance].knip = line.balance
  BY <1>2, <1>3 DEF Card
<1>5. Append(log[c], line) \in Seq(Line)
  BY <1>2, AppendedLine
<1>6. /\ cards' = [cards EXCEPT ![c] = [cards[c] EXCEPT !.knip = line.balance]]
      /\ log' = [log EXCEPT ![c] = Append(log[c], line)]
  BY DEF Book
<1>. QED BY <1>1, <1>4, <1>5, <1>6

-----------------------------------------------------------------------------
(* Every action preserves the types *)

LEMMA IssueCardType ==
    ASSUME TypeOK, NEW u \in Members, NEW k \in Kinds, NEW source \in Sources,
           NEW status \in {"pending", "fulfilled"}, IssueCard(u, k, source, status)
    PROVE  TypeOK'
<1>. DEFINE c == lastCard + 1
            row == [owner |-> u, kind |-> k, source |-> source, knip |-> Knipjes]
            req == [user |-> u, kind |-> k, card |-> c, status |-> status]
<1>1. /\ cards' = With(cards, c, row)
      /\ log' = With(log, c, <<Issued>>)
      /\ requests' = Append(requests, req)
      /\ lastCard' = c
      /\ lastCard < MaxCards
      /\ UNCHANGED <<matroos, orders, lastOrder, meals>>
  BY DEF IssueCard
<1>2. lastCard \in 0..MaxCards /\ MaxCards \in Nat /\ DOMAIN cards \subseteq 1..lastCard
  BY BoundsAssumption DEF TypeOK
<1>3. lastCard' \in 0..MaxCards /\ c \in Nat
  BY <1>1, <1>2
<1>4. row \in Card
  BY KnipjesAssumption DEF Card
<1>5. req \in Request
  BY <1>3 DEF Request
<1>. HIDE DEF row, req
<1>6. /\ DOMAIN cards' = DOMAIN cards \cup {c}
      /\ cards' \in [DOMAIN cards \cup {c} -> Card]
  <2>1. cards \in [DOMAIN cards -> Card]
    BY DEF TypeOK
  <2>2. /\ DOMAIN With(cards, c, row) = DOMAIN cards \cup {c}
        /\ With(cards, c, row) \in [DOMAIN cards \cup {c} -> Card]
    BY <1>4, <2>1 DEF With
  <2>. QED BY <1>1, <2>2
<1>7. log' \in [DOMAIN cards \cup {c} -> Seq(Line)]
  BY <1>1, IssuedType, WithShape DEF TypeOK
<1>8. DOMAIN cards' \subseteq 1..lastCard'
  BY <1>1, <1>2, <1>6
<1>9. requests' \in Seq(Request)
  BY <1>1, <1>5, AppendedLine DEF TypeOK
<1>10. meals' \subseteq (DOMAIN cards') \X Days
  BY <1>1, <1>6 DEF TypeOK
<1>. QED BY <1>1, <1>3, <1>6, <1>7, <1>8, <1>9, <1>10 DEF TypeOK

LEMMA FulfillType ==
    ASSUME TypeOK, NEW r \in DOMAIN requests, FulfillCardRequest(r)
    PROVE  TypeOK'
<1>1. requests \in Seq(Request)
  BY DEF TypeOK
<1>2. r \in 1..Len(requests) /\ requests[r] \in Request
  BY <1>1, LenProperties, ElementOfSeq
<1>3. [requests[r] EXCEPT !.status = "fulfilled"] \in Request
  BY <1>2 DEF Request
<1>4. requests' \in Seq(Request)
  BY <1>1, <1>2, <1>3, ExceptSeq DEF FulfillCardRequest
<1>. QED BY <1>4 DEF TypeOK, FulfillCardRequest

LEMMA WithdrawType ==
    ASSUME TypeOK, NEW r \in DOMAIN requests, WithdrawRequest(r)
    PROVE  TypeOK'
<1>. DEFINE c == requests[r].card
            Row(i) == [requests[i] EXCEPT
                         !.status = IF i = r THEN "cancelled" ELSE @,
                         !.card = IF @ = c THEN Null ELSE @]
<1>1. /\ requests' = [i \in DOMAIN requests |-> Row(i)]
      /\ cards' = Restrict(cards, DOMAIN cards \ {c})
      /\ log' = Restrict(log, DOMAIN log \ {c})
      /\ orders' = Restrict(orders, {o \in DOMAIN orders : orders[o].card # c})
      /\ meals' = {m \in meals : m[1] # c}
      /\ UNCHANGED <<matroos, lastCard, lastOrder>>
  BY DEF WithdrawRequest
<1>2. /\ requests \in Seq(Request)
      /\ Len(requests) \in Nat /\ DOMAIN requests = 1..Len(requests)
  BY LenProperties DEF TypeOK
<1>3. \A i \in DOMAIN requests : Row(i) \in Request
  <2>. SUFFICES ASSUME NEW i \in DOMAIN requests PROVE Row(i) \in Request
    OBVIOUS
  <2>. DEFINE st == IF i = r THEN "cancelled" ELSE requests[i].status
              cd == IF requests[i].card = c THEN Null ELSE requests[i].card
  <2>1. requests[i] \in Request
    BY <1>2, ElementOfSeq
  <2>2. st \in {"pending", "fulfilled", "cancelled"} /\ cd \in Nat
    BY <2>1 DEF Request, Null
  <2>3. Row(i) = [requests[i] EXCEPT !.status = st, !.card = cd]
    OBVIOUS
  <2>. HIDE DEF st, cd, Row
  <2>4. [requests[i] EXCEPT !.status = st, !.card = cd] \in Request
    BY <2>1, <2>2 DEF Request
  <2>. QED BY <2>3, <2>4
<1>. HIDE DEF Row, c
<1>4. requests' \in Seq(Request)
  BY <1>1, <1>2, <1>3, FunctionIsSeq
<1>5. /\ DOMAIN cards' = DOMAIN cards \ {c}
      /\ cards' \in [DOMAIN cards \ {c} -> Card]
  <2>1. cards \in [DOMAIN cards -> Card] /\ DOMAIN cards \ {c} \subseteq DOMAIN cards
    BY DEF TypeOK
  <2>2. LET E == DOMAIN cards \ {c}
        IN  DOMAIN Restrict(cards, E) = E /\ Restrict(cards, E) \in [E -> Card]
    BY <2>1, RestrictShape
  <2>. QED BY <1>1, <2>2
<1>6. log' \in [DOMAIN cards \ {c} -> Seq(Line)]
  <2>1. log \in [DOMAIN cards -> Seq(Line)] /\ DOMAIN log = DOMAIN cards
    BY DEF TypeOK
  <2>. QED BY <1>1, <2>1, RestrictShape
<1>7. /\ DOMAIN orders' \subseteq DOMAIN orders
      /\ orders' \in [DOMAIN orders' -> Order]
  <2>. DEFINE E == {o \in DOMAIN orders : orders[o].card # c}
  <2>1. orders \in [DOMAIN orders -> Order] /\ E \subseteq DOMAIN orders
    BY DEF TypeOK
  <2>2. orders' = Restrict(orders, E)
    BY <1>1
  <2>. HIDE DEF E
  <2>. QED BY <2>1, <2>2, RestrictShape
<1>8. meals' \subseteq (DOMAIN cards') \X Days
  BY <1>1, <1>5 DEF TypeOK
<1>9. DOMAIN cards' \subseteq 1..lastCard' /\ DOMAIN orders' \subseteq 1..lastOrder'
  BY <1>1, <1>5, <1>7 DEF TypeOK
<1>. QED BY <1>1, <1>4, <1>5, <1>6, <1>7, <1>8, <1>9 DEF TypeOK

LEMMA UseKnipjeLine ==
    ASSUME TypeOK, NEW c \in DOMAIN cards, UseKnipje(c)
    PROVE  /\ Booking("manual_knipje", -1, cards[c].knip - 1) \in Line
           /\ Booking("manual_knipje", -1, cards[c].knip - 1).balance = cards[c].knip - 1
           /\ Booking("manual_knipje", -1, cards[c].knip - 1).delta = -1
<1>1. cards[c].knip \in 0..Knipjes /\ cards[c].knip > 0
  BY RowTypes DEF UseKnipje
<1>2. -1 \in -Knipjes..Knipjes /\ cards[c].knip - 1 \in 0..Knipjes
  BY <1>1, KnipjesAssumption
<1>. QED BY <1>2, BookingType DEF Reasons

LEMMA EstimateLine ==
    ASSUME TypeOK, NEW c \in DOMAIN cards, NEW value \in 0..Knipjes
    PROVE  LET line == Booking("estimate_adjust", value - cards[c].knip, value)
           IN  line \in Line /\ line.balance = value /\ line.delta = value - cards[c].knip
<1>1. cards[c].knip \in 0..Knipjes
  BY RowTypes
<1>2. value - cards[c].knip \in -Knipjes..Knipjes
  BY <1>1, KnipjesAssumption
<1>. QED BY <1>2, BookingType DEF Reasons

LEMMA BookType ==
    ASSUME TypeOK, NEW c \in DOMAIN cards, NEW line \in Line, Book(c, line),
           UNCHANGED <<matroos, lastCard, requests, lastOrder, meals>>,
           DOMAIN orders' = DOMAIN orders, orders' \in [DOMAIN orders -> Order]
    PROVE  TypeOK'
BY BookShape DEF TypeOK

LEMMA UseKnipjeType ==
    ASSUME TypeOK, NEW c \in DOMAIN cards, UseKnipje(c)
    PROVE  TypeOK'
<1>1. orders' = orders /\ orders \in [DOMAIN orders -> Order]
  BY DEF UseKnipje, TypeOK
<1>. QED BY <1>1, UseKnipjeLine, BookType DEF UseKnipje

LEMMA EstimateType ==
    ASSUME TypeOK, NEW c \in DOMAIN cards, NEW value \in 0..Knipjes,
           SetPhysicalCardEstimate(c, value)
    PROVE  TypeOK'
<1>1. orders' = orders /\ orders \in [DOMAIN orders -> Order]
  BY DEF SetPhysicalCardEstimate, TypeOK
<1>. QED BY <1>1, EstimateLine, BookType DEF SetPhysicalCardEstimate

(* What a meal registration does to one of its cards *)
LEMMA MealShape ==
    ASSUME TypeOK, NEW day \in Days, NEW S \in SUBSET DOMAIN cards,
           RegisterAvondetenMealsForDate(day, S), NEW c \in S
    PROVE  LET line == [Booking("avondeten_meal", -1, cards[c].knip - 1) EXCEPT !.meal = day]
           IN  /\ line \in Line /\ line.delta = -1 /\ line.balance = cards[c].knip - 1
               /\ cards'[c] = [cards[c] EXCEPT !.knip = @ - 1]
               /\ cards'[c] \in Card
               /\ cards'[c].knip = cards[c].knip - 1
               /\ log'[c] = Append(log[c], line)
               /\ log'[c] \in Seq(Line)
<1>. DEFINE line == [Booking("avondeten_meal", -1, cards[c].knip - 1) EXCEPT !.meal = day]
<1>1. c \in DOMAIN cards
  OBVIOUS
<1>2. /\ cards[c] \in Card /\ cards[c].knip \in 0..Knipjes
      /\ log[c] \in Seq(Line) /\ DOMAIN log = DOMAIN cards
  BY <1>1, RowTypes
<1>3. cards[c].knip > 0
  BY DEF RegisterAvondetenMealsForDate, CanEat
<1>4. -1 \in -Knipjes..Knipjes /\ cards[c].knip - 1 \in 0..Knipjes
  BY <1>2, <1>3, KnipjesAssumption
<1>5. line \in Line /\ line.delta = -1 /\ line.balance = cards[c].knip - 1
  BY <1>4, BookingType DEF Reasons
<1>6. cards'[c] = [cards[c] EXCEPT !.knip = @ - 1] /\ log'[c] = Append(log[c], line)
  BY <1>1, <1>2 DEF RegisterAvondetenMealsForDate
<1>7. cards'[c] \in Card /\ cards'[c].knip = cards[c].knip - 1
  BY <1>2, <1>4, <1>6 DEF Card
<1>8. log'[c] \in Seq(Line)
  <2>. HIDE DEF line
  <2>. QED BY <1>2, <1>5, <1>6, AppendedLine
<1>. QED BY <1>5, <1>6, <1>7, <1>8

LEMMA MealType ==
    ASSUME TypeOK, NEW day \in Days, NEW S \in SUBSET DOMAIN cards,
           RegisterAvondetenMealsForDate(day, S)
    PROVE  TypeOK'
<1>1. /\ DOMAIN cards' = DOMAIN cards
      /\ DOMAIN log' = DOMAIN cards
      /\ \A c \in DOMAIN cards : c \notin S => cards'[c] = cards[c] /\ log'[c] = log[c]
  BY DEF RegisterAvondetenMealsForDate, TypeOK
<1>2. \A c \in DOMAIN cards : cards'[c] \in Card /\ log'[c] \in Seq(Line)
  <2>. SUFFICES ASSUME NEW c \in DOMAIN cards PROVE cards'[c] \in Card /\ log'[c] \in Seq(Line)
    OBVIOUS
  <2>1. CASE c \in S
    BY <2>1, MealShape
  <2>2. CASE c \notin S
    BY <1>1, <2>2, RowTypes
  <2>. QED BY <2>1, <2>2
<1>3. cards' \in [DOMAIN cards -> Card] /\ log' \in [DOMAIN cards -> Seq(Line)]
  <2>1. /\ cards' = [c \in DOMAIN cards' |-> cards'[c]]
        /\ log' = [c \in DOMAIN log' |-> log'[c]]
    BY DEF RegisterAvondetenMealsForDate
  <2>. QED BY <1>1, <1>2, <2>1
<1>4. meals' \subseteq (DOMAIN cards) \X Days
  BY DEF RegisterAvondetenMealsForDate, TypeOK
<1>. QED BY <1>1, <1>3, <1>4 DEF RegisterAvondetenMealsForDate, TypeOK

(* What an undo does to its card *)
LEMMA UndoShape ==
    ASSUME TypeOK, NEW c \in DOMAIN cards, NEW i \in DOMAIN log[c], UndoCardTransaction(c, i)
    PROVE  LET balance == cards[c].knip - log[c][i].delta
           IN  /\ balance \in 0..Knipjes
               /\ log[c][i].meal \in Days \cup {Null}
               /\ DOMAIN cards' = DOMAIN cards
               /\ cards' \in [DOMAIN cards -> Card]
               /\ cards'[c] = [cards[c] EXCEPT !.knip = balance]
               /\ cards'[c].knip = balance
               /\ \A d \in DOMAIN cards : d # c => cards'[d] = cards[d] /\ log'[d] = log[d]
               /\ log' \in [DOMAIN cards -> Seq(Line)]
               /\ log'[c] = UndoneLog(log[c], i, log[c][i].meal, balance)
<1>. DEFINE balance == cards[c].knip - log[c][i].delta
            new == UndoneLog(log[c], i, log[c][i].meal, balance)
<1>1. /\ cards \in [DOMAIN cards -> Card]
      /\ log \in [DOMAIN cards -> Seq(Line)]
  BY DEF TypeOK
<1>2. cards[c] \in Card /\ log[c] \in Seq(Line) /\ log[c][i] \in Line
  BY RowTypes
<1>3. balance \in 0..Knipjes /\ log[c][i].meal \in Days \cup {Null}
  BY <1>2, LineFields DEF UndoCardTransaction, UndoInRange, UndoBalance
<1>4. /\ [cards[c] EXCEPT !.knip = balance] \in Card
      /\ [cards[c] EXCEPT !.knip = balance].knip = balance
  BY <1>2, <1>3 DEF Card
<1>5. new \in Seq(Line)
  BY <1>2, <1>3, UndoneLogShape
<1>6. /\ cards' = [cards EXCEPT ![c] = [cards[c] EXCEPT !.knip = balance]]
      /\ log' = [log EXCEPT ![c] = new]
  BY DEF UndoCardTransaction, UndoBalance
<1>. HIDE DEF balance, new
<1>7. /\ DOMAIN cards' = DOMAIN cards
      /\ cards' \in [DOMAIN cards -> Card]
      /\ cards'[c] = [cards[c] EXCEPT !.knip = balance]
      /\ \A d \in DOMAIN cards : d # c => cards'[d] = cards[d] /\ log'[d] = log[d]
      /\ log' \in [DOMAIN cards -> Seq(Line)]
      /\ log'[c] = new
  BY <1>1, <1>4, <1>5, <1>6
<1>. QED BY <1>3, <1>4, <1>7 DEF balance, new

LEMMA UndoType ==
    ASSUME TypeOK, NEW c \in DOMAIN cards, NEW i \in DOMAIN log[c], UndoCardTransaction(c, i)
    PROVE  TypeOK'
<1>1. /\ UNCHANGED <<matroos, lastCard, requests, orders, lastOrder>>
      /\ meals' \subseteq meals
  BY DEF UndoCardTransaction
<1>. QED BY <1>1, UndoShape DEF TypeOK

LEMMA CreateTostiOrderType ==
    ASSUME TypeOK, NEW u \in Members, NEW c \in DOMAIN cards \cup {Null},
           NEW q \in 1..Knipjes, CreateTostiOrder(u, c, q)
    PROVE  TypeOK'
<1>. DEFINE row == [user |-> u, card |-> c, qty |-> q, status |-> "pending"]
            o == lastOrder + 1
<1>1. /\ orders' = With(orders, o, row) /\ lastOrder' = o /\ lastOrder < MaxOrders
      /\ UNCHANGED <<matroos, cards, lastCard, log, requests, meals>>
  BY DEF CreateTostiOrder, InsertTostiOrder
<1>2. c \in Nat
  BY RowTypes DEF Null
<1>3. row \in Order
  BY <1>2 DEF Order
<1>4. orders \in [DOMAIN orders -> Order] /\ DOMAIN orders \subseteq 1..lastOrder
  BY DEF TypeOK
<1>. HIDE DEF row
<1>5. DOMAIN orders' = DOMAIN orders \cup {o} /\ orders' \in [DOMAIN orders \cup {o} -> Order]
  BY <1>1, <1>3, <1>4 DEF With
<1>6. lastOrder \in 0..MaxOrders /\ MaxOrders \in Nat
  BY BoundsAssumption DEF TypeOK
<1>7. lastOrder' \in 0..MaxOrders /\ DOMAIN orders' \subseteq 1..lastOrder'
  BY <1>1, <1>4, <1>5, <1>6
<1>. QED BY <1>1, <1>5, <1>7 DEF TypeOK

LEMMA OrderStatusType ==
    ASSUME TypeOK, NEW o \in DOMAIN orders, NEW c \in Nat,
           NEW status \in {"pending", "delivered", "cancelled"}
    PROVE  /\ [orders[o] EXCEPT !.status = status] \in Order
           /\ [orders EXCEPT ![o].status = status] \in [DOMAIN orders -> Order]
           /\ [orders EXCEPT ![o].status = status, ![o].card = c] \in [DOMAIN orders -> Order]
<1>1. orders \in [DOMAIN orders -> Order] /\ orders[o] \in Order
  BY DEF TypeOK
<1>2. /\ [orders[o] EXCEPT !.status = status] \in Order
      /\ [orders[o] EXCEPT !.status = status, !.card = c] \in Order
  BY <1>1 DEF Order
<1>3. [orders EXCEPT ![o] = [orders[o] EXCEPT !.status = status]] \in [DOMAIN orders -> Order]
  BY <1>1, <1>2
<1>4. [orders EXCEPT ![o] = [orders[o] EXCEPT !.status = status, !.card = c]]
        \in [DOMAIN orders -> Order]
  BY <1>1, <1>2
<1>5. [orders EXCEPT ![o].status = status, ![o].card = c]
        = [orders EXCEPT ![o] = [orders[o] EXCEPT !.status = status, !.card = c]]
  BY <1>1
<1>. QED BY <1>2, <1>3, <1>4, <1>5

LEMMA CancelTostiOrderType ==
    ASSUME TypeOK, NEW o \in DOMAIN orders, CancelTostiOrder(o)
    PROVE  TypeOK'
<1>1. /\ orders' = [orders EXCEPT ![o].status = "cancelled"]
      /\ UNCHANGED <<matroos, cards, lastCard, log, requests, lastOrder, meals>>
  BY DEF CancelTostiOrder
<1>2. orders' \in [DOMAIN orders -> Order] /\ DOMAIN orders' = DOMAIN orders
  BY <1>1, OrderStatusType DEF Null
<1>. QED BY <1>1, <1>2 DEF TypeOK

LEMMA MarkDeliveredType ==
    ASSUME TypeOK, NEW o \in DOMAIN orders, NEW c \in Nat, MarkDelivered(o, c)
    PROVE  DOMAIN orders' = DOMAIN orders /\ orders' \in [DOMAIN orders -> Order]
<1>1. orders' = [orders EXCEPT ![o].status = "delivered", ![o].card = c]
  BY DEF MarkDelivered
<1>. QED BY <1>1, OrderStatusType

(* The line that a delivery books *)
LEMMA DeliveryLine ==
    ASSUME TypeOK, NEW o \in DOMAIN orders, NEW c \in DOMAIN cards, DeliverFromCard(o, c)
    PROVE  LET balance == BalanceAfterDelivery(c, orders[o].qty)
               line == [Booking("tosti_delivered", balance - cards[c].knip, balance)
                          EXCEPT !.order = o]
           IN  /\ Book(c, line)
               /\ line \in Line
               /\ line.balance = balance
               /\ line.delta = balance - cards[c].knip
<1>. DEFINE balance == BalanceAfterDelivery(c, orders[o].qty)
            delta == balance - cards[c].knip
            line == [Booking("tosti_delivered", delta, balance) EXCEPT !.order = o]
<1>1. /\ cards[c] \in Card /\ cards[c].knip \in 0..Knipjes
      /\ cards[c].source = "physical" \/ cards[c].source = "online"
  BY RowTypes DEF Card, Sources
<1>2. orders[o] \in Order /\ orders[o].qty \in 1..Knipjes /\ o \in Nat
  BY BoundsAssumption DEF TypeOK, Order
<1>3. cards[c].source = "online" => orders[o].qty <= cards[c].knip
  BY DEF DeliverFromCard, MayDeduct
<1>4. balance \in 0..Knipjes /\ delta \in -Knipjes..Knipjes
  BY <1>1, <1>2, <1>3, KnipjesAssumption DEF BalanceAfterDelivery
<1>5. Book(c, line)
  BY DEF DeliverFromCard
<1>. HIDE DEF balance, delta
<1>6. line \in Line /\ line.balance = balance /\ line.delta = delta
  BY <1>2, <1>4, BookingType DEF Reasons
<1>. QED BY <1>5, <1>6 DEF balance, delta

LEMMA DeliverFromCardType ==
    ASSUME TypeOK, NEW o \in DOMAIN orders, NEW c \in DOMAIN cards, DeliverFromCard(o, c)
    PROVE  TypeOK'
<1>1. /\ MarkDelivered(o, c) /\ c \in Nat
      /\ UNCHANGED <<matroos, lastCard, requests, lastOrder, meals>>
  BY RowTypes DEF DeliverFromCard
<1>2. DOMAIN orders' = DOMAIN orders /\ orders' \in [DOMAIN orders -> Order]
  BY <1>1, MarkDeliveredType
<1>3. PICK line \in Line : Book(c, line)
  BY DeliveryLine
<1>. QED BY <1>1, <1>2, <1>3, BookType

(* A delivery is from a card or changes the order alone *)
LEMMA DeliveryCases ==
    ASSUME NEW o \in DOMAIN orders, DeliverTostiOrder(o)
    PROVE  \/ \E c \in DOMAIN cards : DeliverFromCard(o, c)
           \/ /\ MarkDelivered(o, Null)
              /\ UNCHANGED <<matroos, cards, lastCard, log, requests, lastOrder, meals>>
BY DEF DeliverTostiOrder

LEMMA DeliverTostiOrderType ==
    ASSUME TypeOK, NEW o \in DOMAIN orders, DeliverTostiOrder(o)
    PROVE  TypeOK'
<1>1. CASE \E c \in DOMAIN cards : DeliverFromCard(o, c)
  BY <1>1, DeliverFromCardType
<1>2. CASE /\ MarkDelivered(o, Null)
           /\ UNCHANGED <<matroos, cards, lastCard, log, requests, lastOrder, meals>>
  <2>1. Null \in Nat
    BY DEF Null
  <2>2. DOMAIN orders' = DOMAIN orders /\ orders' \in [DOMAIN orders -> Order]
    BY <1>2, <2>1, MarkDeliveredType
  <2>. QED BY <1>2, <2>2 DEF TypeOK
<1>. QED BY <1>1, <1>2, DeliveryCases

LEMMA InitType == Init => TypeOK
<1>. SUFFICES ASSUME Init PROVE TypeOK
  OBVIOUS
<1>1. << >> \in Seq(Request)
  BY EmptySeq
<1>2. DOMAIN << >> = {} /\ << >> \in [{} -> Card] /\ << >> \in [{} -> Seq(Line)]
      /\ << >> \in [{} -> Order]
  OBVIOUS
<1>. QED BY <1>1, <1>2, BoundsAssumption DEF Init, TypeOK

LEMMA TypeStep == TypeOK /\ [Next]_vars => TypeOK'
<1>. SUFFICES ASSUME TypeOK, [Next]_vars PROVE TypeOK'
  OBVIOUS
<1>1. CASE \E u \in Members, k \in Kinds : CreateCardRequest(u, k)
  BY <1>1, IssueCardType DEF CreateCardRequest, Sources
<1>2. CASE \E u \in Members, k \in Kinds : CreatePhysicalCardSale(u, k)
  BY <1>2, IssueCardType DEF CreatePhysicalCardSale, Sources
<1>3. CASE \E r \in DOMAIN requests : FulfillCardRequest(r)
  BY <1>3, FulfillType
<1>4. CASE \E r \in DOMAIN requests : AdminRejectCardRequest(r)
  BY <1>4, WithdrawType DEF AdminRejectCardRequest
<1>5. CASE \E r \in DOMAIN requests, u \in Members : CancelCardRequestForUser(r, u)
  BY <1>5, WithdrawType DEF CancelCardRequestForUser
<1>6. CASE \E c \in DOMAIN cards : UseKnipje(c)
  BY <1>6, UseKnipjeType
<1>7. CASE \E c \in DOMAIN cards, value \in 0..Knipjes : SetPhysicalCardEstimate(c, value)
  BY <1>7, EstimateType
<1>8. CASE \E day \in Days, S \in SUBSET DOMAIN cards : RegisterAvondetenMealsForDate(day, S)
  BY <1>8, MealType
<1>9. CASE \E c \in DOMAIN cards : \E i \in DOMAIN log[c] : UndoCardTransaction(c, i)
  BY <1>9, UndoType
<1>10. CASE \E u \in Members, c \in DOMAIN cards \cup {Null}, q \in 1..Knipjes :
               CreateTostiOrder(u, c, q)
  BY <1>10, CreateTostiOrderType
<1>11. CASE \E o \in DOMAIN orders : CancelTostiOrder(o)
  BY <1>11, CancelTostiOrderType
<1>12. CASE \E o \in DOMAIN orders : DeliverTostiOrder(o)
  BY <1>12, DeliverTostiOrderType
<1>13. CASE \E u \in Members, value \in BOOLEAN : AdminSetMatroosJeugd(u, value)
  BY <1>13 DEF AdminSetMatroosJeugd, TypeOK
<1>14. CASE UNCHANGED vars
  BY <1>14 DEF vars, TypeOK
<1>. QED BY <1>1, <1>2, <1>3, <1>4, <1>5, <1>6, <1>7, <1>8, <1>9, <1>10, <1>11, <1>12,
            <1>13, <1>14 DEF Next, NextOnRows, NextOfMembers

(* The tables hold rows of their types in every reachable state: no        *)
(* balance below 0 or above a full card, whichever of the thirteen         *)
(* operations of internal/store run and in whatever order.                 *)
THEOREM TypeCorrect == Spec => []TypeOK
<1>1. Init => TypeOK
  BY InitType
<1>2. TypeOK /\ [Next]_vars => TypeOK'
  BY TypeStep
<1>. QED BY <1>1, <1>2, PTL DEF Spec

-----------------------------------------------------------------------------
(* The logboek explains every balance *)

(* A chain stays one when a line that starts from the last balance is      *)
(* added and the older lines keep their balance and delta.                 *)
LEMMA ChainExtended ==
    ASSUME NEW lines \in Seq(Line), NEW new \in Seq(Line), NEW knip \in 0..Knipjes,
           Chained(lines, knip),
           Len(new) = Len(lines) + 1,
           new[1] = lines[1],
           \A i \in 1..Len(lines) :
              new[i].balance = lines[i].balance /\ new[i].delta = lines[i].delta,
           new[Len(lines) + 1].balance = knip + new[Len(lines) + 1].delta
    PROVE  Chained(new, new[Len(lines) + 1].balance)
<1>. DEFINE n == Len(lines)
<1>1. n \in Nat /\ n # 0 /\ lines # << >>
  BY LenProperties, EmptySeq DEF Chained
<1>2. lines[1] = Issued /\ lines[n].balance = knip
  BY DEF Chained
<1>3. \A i \in 2..n : lines[i].balance = lines[i-1].balance + lines[i].delta
  BY DEF Chained
<1>4. \A i \in 2..(n + 1) : new[i].balance = new[i-1].balance + new[i].delta
  <2>. SUFFICES ASSUME NEW i \in 2..(n + 1)
                PROVE  new[i].balance = new[i-1].balance + new[i].delta
    OBVIOUS
  <2>1. CASE i \in 2..n
    <3>1. i \in 1..n /\ i - 1 \in 1..n
      BY <1>1, <2>1
    <3>2. /\ new[i].balance = lines[i].balance /\ new[i].delta = lines[i].delta
          /\ new[i-1].balance = lines[i-1].balance
      BY <3>1
    <3>. QED BY <1>3, <2>1, <3>2
  <2>2. CASE i = n + 1
    <3>1. i - 1 = n /\ n \in 1..n
      BY <1>1, <2>2
    <3>2. new[i-1].balance = knip
      BY <1>2, <3>1
    <3>. QED BY <2>2, <3>2
  <2>. QED BY <1>1, <2>1, <2>2
<1>5. new # << >> /\ new[1] = Issued
  BY <1>1, <1>2
<1>. QED BY <1>4, <1>5 DEF Chained

(* Booking a line keeps the chain if the line starts from the balance *)
LEMMA BookChain ==
    ASSUME TypeOK, LedgerChain, NEW c \in DOMAIN cards, NEW line \in Line, Book(c, line),
           line.balance = cards[c].knip + line.delta
    PROVE  LedgerChain'
<1>. DEFINE new == Append(log[c], line)
<1>1. log[c] \in Seq(Line) /\ Len(log[c]) \in Nat /\ cards[c].knip \in 0..Knipjes
  BY RowTypes
<1>2. Chained(log[c], cards[c].knip)
  BY DEF LedgerChain
<1>3. Len(log[c]) # 0
  BY <1>1, <1>2, EmptySeq DEF Chained
<1>4. /\ new \in Seq(Line) /\ Len(new) = Len(log[c]) + 1
      /\ \A i \in 1..Len(log[c]) : new[i] = log[c][i]
      /\ new[Len(log[c]) + 1] = line
  BY <1>1, AppendedLine
<1>5. new[1] = log[c][1]
  BY <1>1, <1>3, <1>4
<1>. HIDE DEF new
<1>6. Chained(new, line.balance)
  BY <1>1, <1>2, <1>4, <1>5, ChainExtended
<1>7. /\ DOMAIN cards' = DOMAIN cards
      /\ cards'[c].knip = line.balance
      /\ log'[c] = new
      /\ \A d \in DOMAIN cards : d # c => cards'[d] = cards[d] /\ log'[d] = log[d]
  BY BookShape DEF new
<1>. QED BY <1>6, <1>7 DEF LedgerChain

LEMMA IssueCardChain ==
    ASSUME TypeOK, LedgerChain, NEW u \in Members, NEW k \in Kinds, NEW source \in Sources,
           NEW status \in {"pending", "fulfilled"}, IssueCard(u, k, source, status)
    PROVE  LedgerChain'
<1>. DEFINE c == lastCard + 1
            row == [owner |-> u, kind |-> k, source |-> source, knip |-> Knipjes]
<1>1. cards' = With(cards, c, row) /\ log' = With(log, c, <<Issued>>)
  BY DEF IssueCard
<1>2. DOMAIN log = DOMAIN cards
  BY DEF TypeOK
<1>3. /\ DOMAIN cards' = DOMAIN cards \cup {c}
      /\ cards'[c].knip = Knipjes /\ log'[c] = <<Issued>>
      /\ \A d \in DOMAIN cards : d # c => cards'[d] = cards[d] /\ log'[d] = log[d]
  BY <1>1, <1>2 DEF With
<1>4. Chained(<<Issued>>, Knipjes)
  <2>. HIDE DEF Issued
  <2>. QED BY IssuedType DEF Chained
<1>. QED BY <1>3, <1>4 DEF LedgerChain

LEMMA WithdrawChain ==
    ASSUME TypeOK, LedgerChain, NEW r \in DOMAIN requests, WithdrawRequest(r)
    PROVE  LedgerChain'
<1>. DEFINE c == requests[r].card
<1>1. /\ cards' = Restrict(cards, DOMAIN cards \ {c})
      /\ log' = Restrict(log, DOMAIN cards \ {c})
  BY DEF WithdrawRequest, TypeOK
<1>2. /\ DOMAIN cards' = DOMAIN cards \ {c}
      /\ \A d \in DOMAIN cards' : cards'[d] = cards[d] /\ log'[d] = log[d]
  BY <1>1 DEF Restrict
<1>. QED BY <1>2 DEF LedgerChain

LEMMA MealChain ==
    ASSUME TypeOK, LedgerChain, NEW day \in Days, NEW S \in SUBSET DOMAIN cards,
           RegisterAvondetenMealsForDate(day, S)
    PROVE  LedgerChain'
<1>1. /\ DOMAIN cards' = DOMAIN cards
      /\ \A d \in DOMAIN cards : d \notin S => cards'[d] = cards[d] /\ log'[d] = log[d]
  BY DEF RegisterAvondetenMealsForDate, TypeOK
<1>2. \A c \in S : Chained(log'[c], cards'[c].knip)
  <2>. SUFFICES ASSUME NEW c \in S PROVE Chained(log'[c], cards'[c].knip)
    OBVIOUS
  <2>. DEFINE new == log'[c]
              line == [Booking("avondeten_meal", -1, cards[c].knip - 1) EXCEPT !.meal = day]
  <2>1. /\ line \in Line /\ line.delta = -1 /\ line.balance = cards[c].knip - 1
        /\ cards'[c].knip = cards[c].knip - 1
        /\ new = Append(log[c], line)
    BY MealShape
  <2>. HIDE DEF line
  <2>2. log[c] \in Seq(Line) /\ Len(log[c]) \in Nat /\ cards[c].knip \in 0..Knipjes
    BY RowTypes
  <2>3. Chained(log[c], cards[c].knip)
    BY DEF LedgerChain
  <2>4. Len(log[c]) # 0
    BY <2>2, <2>3, EmptySeq DEF Chained
  <2>5. /\ new \in Seq(Line) /\ Len(new) = Len(log[c]) + 1
        /\ \A i \in 1..Len(log[c]) : new[i] = log[c][i]
        /\ new[Len(log[c]) + 1] = line
    BY <2>1, <2>2, AppendedLine
  <2>6. new[1] = log[c][1]
    BY <2>2, <2>4, <2>5
  <2>. HIDE DEF new
  <2>7. line.balance = cards[c].knip + line.delta
    BY <2>1, <2>2
  <2>8. Chained(new, line.balance)
    BY <2>2, <2>3, <2>5, <2>6, <2>7, ChainExtended
  <2>. QED BY <2>1, <2>8 DEF new
<1>. QED BY <1>1, <1>2 DEF LedgerChain

LEMMA UndoChain ==
    ASSUME TypeOK, LedgerChain,
           NEW c \in DOMAIN cards, NEW i \in DOMAIN log[c], UndoCardTransaction(c, i)
    PROVE  LedgerChain'
<1>. DEFINE lines == log[c]
            n == Len(lines)
            meal == lines[i].meal
            balance == cards[c].knip - lines[i].delta
            new == UndoneLog(lines, i, meal, balance)
<1>1. /\ lines \in Seq(Line) /\ n \in Nat /\ DOMAIN lines = 1..n
      /\ cards[c].knip \in 0..Knipjes
      /\ \A j \in 1..n : lines[j] \in Line
  BY RowTypes
<1>2. Chained(lines, cards[c].knip)
  BY DEF LedgerChain
<1>3. balance \in 0..Knipjes /\ meal \in Days \cup {Null}
  BY UndoShape
<1>4. n # 0 /\ lines[1] = Issued
  BY <1>1, <1>2, EmptySeq DEF Chained
<1>5. i # 1
  BY <1>4 DEF UndoCardTransaction, Undoable, Issued, Booking
<1>6. new \in Seq(Line) /\ Len(new) = n + 1
  <2>. HIDE DEF lines, balance, meal
  <2>1. lines \in Seq(Line) /\ i \in DOMAIN lines
    BY <1>1 DEF lines
  <2>. QED BY <1>3, <2>1, UndoneLogShape
<1>7. new[1] = lines[1]
  <2>1. lines[1].meal = Null /\ 1 \in 1..n
    BY <1>1, <1>4 DEF Issued, Booking
  <2>. QED BY <1>1, <1>3, <1>5, <2>1, UndoneLogShape
<1>8. \A j \in 1..n : new[j].balance = lines[j].balance /\ new[j].delta = lines[j].delta
  BY <1>1, <1>3, UndoneLogShape
<1>9. new[n + 1].balance = balance /\ new[n + 1].delta = -lines[i].delta
  BY <1>1, <1>3, UndoneLogShape
<1>10. lines[i].delta \in Int
  BY <1>1, KnipjesAssumption, LineFields
<1>11. new[n + 1].balance = cards[c].knip + new[n + 1].delta
  BY <1>1, <1>9, <1>10
<1>. HIDE DEF new, balance, meal
<1>12. Chained(new, balance)
  BY <1>1, <1>2, <1>6, <1>7, <1>8, <1>9, <1>11, ChainExtended
<1>13. /\ DOMAIN cards' = DOMAIN cards
       /\ cards'[c].knip = balance /\ log'[c] = new
       /\ \A d \in DOMAIN cards : d # c => cards'[d] = cards[d] /\ log'[d] = log[d]
  BY UndoShape DEF new, balance, meal
<1>. QED BY <1>12, <1>13 DEF LedgerChain

LEMMA LedgerStep == TypeOK /\ LedgerChain /\ [Next]_vars => LedgerChain'
<1>. SUFFICES ASSUME TypeOK, LedgerChain, [Next]_vars PROVE LedgerChain'
  OBVIOUS
<1>1. CASE \E u \in Members, k \in Kinds : CreateCardRequest(u, k)
  BY <1>1, IssueCardChain DEF CreateCardRequest, Sources
<1>2. CASE \E u \in Members, k \in Kinds : CreatePhysicalCardSale(u, k)
  BY <1>2, IssueCardChain DEF CreatePhysicalCardSale, Sources
<1>3. CASE \E r \in DOMAIN requests : FulfillCardRequest(r)
  BY <1>3 DEF FulfillCardRequest, LedgerChain
<1>4. CASE \E r \in DOMAIN requests : AdminRejectCardRequest(r)
  BY <1>4, WithdrawChain DEF AdminRejectCardRequest
<1>5. CASE \E r \in DOMAIN requests, u \in Members : CancelCardRequestForUser(r, u)
  BY <1>5, WithdrawChain DEF CancelCardRequestForUser
<1>6. CASE \E c \in DOMAIN cards : UseKnipje(c)
  <2>1. PICK c \in DOMAIN cards : UseKnipje(c)
    BY <1>6
  <2>2. cards[c].knip - 1 = cards[c].knip + -1
    BY RowTypes
  <2>. QED BY <2>1, <2>2, UseKnipjeLine, BookChain DEF UseKnipje
<1>7. CASE \E c \in DOMAIN cards, value \in 0..Knipjes : SetPhysicalCardEstimate(c, value)
  <2>1. PICK c \in DOMAIN cards, value \in 0..Knipjes : SetPhysicalCardEstimate(c, value)
    BY <1>7
  <2>2. value = cards[c].knip + (value - cards[c].knip)
    BY RowTypes
  <2>. QED BY <2>1, <2>2, EstimateLine, BookChain DEF SetPhysicalCardEstimate
<1>8. CASE \E day \in Days, S \in SUBSET DOMAIN cards : RegisterAvondetenMealsForDate(day, S)
  BY <1>8, MealChain
<1>9. CASE \E c \in DOMAIN cards : \E i \in DOMAIN log[c] : UndoCardTransaction(c, i)
  BY <1>9, UndoChain
<1>10. CASE \E u \in Members, c \in DOMAIN cards \cup {Null}, q \in 1..Knipjes :
               CreateTostiOrder(u, c, q)
  BY <1>10 DEF CreateTostiOrder, InsertTostiOrder, LedgerChain
<1>11. CASE \E o \in DOMAIN orders : CancelTostiOrder(o)
  BY <1>11 DEF CancelTostiOrder, LedgerChain
<1>12. CASE \E o \in DOMAIN orders : DeliverTostiOrder(o)
  <2>1. PICK o \in DOMAIN orders : DeliverTostiOrder(o)
    BY <1>12
  <2>2. CASE \E c \in DOMAIN cards : DeliverFromCard(o, c)
    <3>1. PICK c \in DOMAIN cards : DeliverFromCard(o, c)
      BY <2>2
    <3>2. PICK line \in Line : /\ Book(c, line)
                               /\ line.delta = line.balance - cards[c].knip
      BY <3>1, DeliveryLine
    <3>3. line.balance = cards[c].knip + line.delta
      BY <3>2, RowTypes, LineFields
    <3>. QED BY <3>2, <3>3, BookChain
  <2>3. CASE UNCHANGED <<matroos, cards, lastCard, log, requests, lastOrder, meals>>
    BY <2>3 DEF LedgerChain
  <2>. QED BY <2>1, <2>2, <2>3, DeliveryCases
<1>13. CASE \E u \in Members, value \in BOOLEAN : AdminSetMatroosJeugd(u, value)
  BY <1>13 DEF AdminSetMatroosJeugd, LedgerChain
<1>14. CASE UNCHANGED vars
  BY <1>14 DEF vars, LedgerChain
<1>. QED BY <1>1, <1>2, <1>3, <1>4, <1>5, <1>6, <1>7, <1>8, <1>9, <1>10, <1>11, <1>12,
            <1>13, <1>14 DEF Next, NextOnRows, NextOfMembers

(* The balance on a card is always the one its logboek ends with, and each *)
(* balance in the logboek is the one before it plus the delta of the line  *)
(* that explains it, from the issue of the full card on.                   *)
THEOREM LedgerCorrect == Spec => []LedgerChain
<1>1. Init => TypeOK /\ LedgerChain
  BY InitType DEF Init, LedgerChain
<1>2. TypeOK /\ LedgerChain /\ [Next]_vars => TypeOK' /\ LedgerChain'
  BY TypeStep, LedgerStep
<1>. QED BY <1>1, <1>2, PTL DEF Spec
=============================================================================
