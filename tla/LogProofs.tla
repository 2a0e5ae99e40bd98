----------------------------- MODULE LogProofs -----------------------------
(***************************************************************************)
(* For every number of members, days and knipjes per card: the undo links  *)
(* of the knipje-logboek pair up, meals and the lines that paid for them   *)
(* correspond, and the logboek is append-only.                             *)
(*                                                                         *)
(* The three are about the logs of single cards, and a log changes in      *)
(* three ways only: it starts, gets a line, or a line of it is undone.     *)
(***************************************************************************)
EXTENDS CardStoreProofs, FiniteSetTheorems

(* UndoLinks of one log; no link leads out of it *)
Linked(lines) ==
    /\ UndoPaired(lines)
    /\ \A i \in DOMAIN lines :
          /\ lines[i].reason = "undo" => lines[i].reverses \in DOMAIN lines
          /\ lines[i].reverses \in DOMAIN lines \cup {Null}
          /\ lines[i].reversedBy \in DOMAIN lines \cup {Null}

(* MealsMatchLog of one log, of a card with meals on the days of D *)
MealsPaid(lines, D) ==
    /\ \A d \in D : \E i \in DOMAIN lines : lines[i].meal = d
    /\ \A i \in DOMAIN lines :
          /\ lines[i].meal # Null => lines[i].meal \in D /\ lines[i].reason = "avondeten_meal"
          /\ lines[i].reason = "avondeten_meal" =>
                (lines[i].meal = Null <=> lines[i].reversedBy # Null)
    /\ \A i, j \in DOMAIN lines :
          lines[i].meal # Null /\ lines[j].meal = lines[i].meal => i = j

(* LogAppendOnly of one log *)
Older(lines, new) ==
    /\ Len(new) \in {Len(lines), Len(lines) + 1}
    /\ \A i \in DOMAIN lines :
          /\ new[i] = [lines[i] EXCEPT !.meal = new[i].meal, !.reversedBy = new[i].reversedBy]
          /\ lines[i].reversedBy # Null => new[i] = lines[i]

(* A line is its columns *)
LEMMA LineExtensional ==
    ASSUME NEW k \in Line, NEW l \in Line,
           k.reason = l.reason, k.delta = l.delta, k.balance = l.balance,
           k.order = l.order, k.reverses = l.reverses,
           k.meal = l.meal, k.reversedBy = l.reversedBy
    PROVE  k = l
  BY DEF Line

(* A line whose other columns stay differs in its links only *)
LEMMA Relinked ==
    ASSUME NEW k \in Line, NEW l \in Line,
           k.reason = l.reason, k.delta = l.delta, k.balance = l.balance,
           k.order = l.order, k.reverses = l.reverses
    PROVE  k = [l EXCEPT !.meal = k.meal, !.reversedBy = k.reversedBy]
<1>. DEFINE m == [l EXCEPT !.meal = k.meal, !.reversedBy = k.reversedBy]
<1>1. m \in Line /\ m.meal = k.meal /\ m.reversedBy = k.reversedBy
  BY LineFields DEF Line
<1>2. /\ m.reason = l.reason /\ m.delta = l.delta /\ m.balance = l.balance
      /\ m.order = l.order /\ m.reverses = l.reverses
  BY DEF Line
<1>. HIDE DEF m
<1>3. m = k
  BY <1>1, <1>2, LineExtensional
<1>. QED
  BY <1>3 DEF m

-----------------------------------------------------------------------------
(* A log starts *)

LEMMA IssuedLog == Linked(<<Issued>>) /\ MealsPaid(<<Issued>>, {})
<1>1. DOMAIN <<Issued>> = {1} /\ <<Issued>>[1] = Issued
  OBVIOUS
<1>2. /\ Issued.reason = "issued" /\ Issued.meal = Null
      /\ Issued.reverses = Null /\ Issued.reversedBy = Null
  BY DEF Issued, Booking
<1>. HIDE DEF Issued
<1>. QED
  BY <1>1, <1>2 DEF Linked, UndoPaired, MealsPaid, Null

-----------------------------------------------------------------------------
(* ... gets a line *)

(* The facts of AppendedLine, of lines with n of them *)
LEMMA LinkedAppend ==
    ASSUME NEW lines \in Seq(Line), Linked(lines), NEW line \in Line,
           line.reverses = Null, line.reversedBy = Null, line.reason # "undo"
    PROVE  Linked(Append(lines, line))
<1>. DEFINE n == Len(lines)
            new == Append(lines, line)
<1>1. /\ n \in Nat /\ DOMAIN lines = 1..n /\ DOMAIN new = 1..(n + 1)
      /\ \A i \in 1..n : new[i] = lines[i]
      /\ new[n + 1] = line
  BY AppendedLine
<1>. HIDE DEF new, n
<1>2. \A i \in DOMAIN new : i \in 1..n \/ i = n + 1
  BY <1>1
<1>3. \A i \in 1..n : /\ i # n + 1 /\ i # Null /\ i \in DOMAIN new
                      /\ lines[i].reverses # n + 1 /\ lines[i].reversedBy # n + 1
  BY <1>1 DEF Linked, Null
<1>4. UndoPaired(new)
  <2>. SUFFICES ASSUME NEW i \in DOMAIN new, NEW j \in DOMAIN new
                PROVE  /\ new[j].reverses = i <=> new[i].reversedBy = j
                       /\ new[j].reverses = i =>
                             /\ i < j
                             /\ new[j].reason = "undo"
                             /\ new[i].reason \notin {"issued", "undo"}
                             /\ new[j].delta = -new[i].delta
    BY DEF UndoPaired
  <2>1. CASE i \in 1..n /\ j \in 1..n
    BY <1>1, <2>1 DEF Linked, UndoPaired
  <2>2. CASE i = n + 1 \/ j = n + 1
    <3>1. i # Null /\ j # Null
      BY <1>1, <1>2, <1>3 DEF Null
    <3>2. new[j].reverses # i
      BY <1>1, <1>2, <1>3, <2>2, <3>1
    <3>3. new[i].reversedBy # j
      BY <1>1, <1>2, <1>3, <2>2, <3>1
    <3>. QED
      BY <3>2, <3>3
  <2>. QED
    BY <1>2, <2>1, <2>2
<1>5. \A i \in DOMAIN new :
          /\ new[i].reason = "undo" => new[i].reverses \in DOMAIN new
          /\ new[i].reverses \in DOMAIN new \cup {Null}
          /\ new[i].reversedBy \in DOMAIN new \cup {Null}
  BY <1>1, <1>2, <1>3 DEF Linked
<1>. QED
  BY <1>4, <1>5 DEF Linked, new

LEMMA OlderAppend ==
    ASSUME NEW lines \in Seq(Line), NEW line \in Line
    PROVE  Older(lines, Append(lines, line))
<1>1. /\ Len(Append(lines, line)) = Len(lines) + 1
      /\ \A i \in DOMAIN lines : Append(lines, line)[i] = lines[i]
  BY AppendedLine
<1>2. \A i \in DOMAIN lines :
        lines[i] = [lines[i] EXCEPT !.meal = lines[i].meal, !.reversedBy = lines[i].reversedBy]
  BY LenProperties, ElementOfSeq, Relinked
<1>. QED
  BY <1>1, <1>2 DEF Older

LEMMA OlderSame ==
    ASSUME NEW lines \in Seq(Line)
    PROVE  Older(lines, lines)
<1>1. \A i \in DOMAIN lines :
        lines[i] = [lines[i] EXCEPT !.meal = lines[i].meal, !.reversedBy = lines[i].reversedBy]
  BY LenProperties, ElementOfSeq, Relinked
<1>. QED
  BY <1>1 DEF Older

(* ... which is not of a meal *)
LEMMA PaidAppend ==
    ASSUME NEW lines \in Seq(Line), NEW D, MealsPaid(lines, D), NEW line \in Line,
           line.meal = Null, line.reason # "avondeten_meal"
    PROVE  MealsPaid(Append(lines, line), D)
<1>. DEFINE n == Len(lines)
            new == Append(lines, line)
<1>1. /\ n \in Nat /\ DOMAIN lines = 1..n /\ DOMAIN new = 1..(n + 1)
      /\ \A i \in 1..n : new[i] = lines[i]
      /\ new[n + 1] = line
  BY AppendedLine
<1>. HIDE DEF new, n
<1>2. \A i \in DOMAIN new : i \in 1..n \/ i = n + 1
  BY <1>1
<1>3. \A d \in D : \E i \in DOMAIN new : new[i].meal = d
  <2>1. \A i \in 1..n : i \in DOMAIN new
    BY <1>1
  <2>. QED
    BY <1>1, <2>1 DEF MealsPaid
<1>4. \A i \in DOMAIN new :
          /\ new[i].meal # Null => new[i].meal \in D /\ new[i].reason = "avondeten_meal"
          /\ new[i].reason = "avondeten_meal" =>
                (new[i].meal = Null <=> new[i].reversedBy # Null)
  BY <1>1, <1>2 DEF MealsPaid
<1>5. \A i, j \in DOMAIN new :
          new[i].meal # Null /\ new[j].meal = new[i].meal => i = j
  BY <1>1, <1>2 DEF MealsPaid
<1>. QED
  BY <1>3, <1>4, <1>5 DEF MealsPaid, new

(* ... which pays for a meal on a day without one *)
LEMMA PaidMeal ==
    ASSUME NEW lines \in Seq(Line), NEW D, MealsPaid(lines, D), NEW line \in Line,
           NEW day \in Days, day \notin D,
           line.meal = day, line.reason = "avondeten_meal", line.reversedBy = Null
    PROVE  MealsPaid(Append(lines, line), D \cup {day})
<1>. DEFINE n == Len(lines)
            new == Append(lines, line)
<1>1. /\ n \in Nat /\ DOMAIN lines = 1..n /\ DOMAIN new = 1..(n + 1)
      /\ \A i \in 1..n : new[i] = lines[i]
      /\ new[n + 1] = line
  BY AppendedLine
<1>. HIDE DEF new, n
<1>2. \A i \in DOMAIN new : i \in 1..n \/ i = n + 1
  BY <1>1
<1>3. day # Null
  BY DaysAssumption DEF Null
<1>4. \A i \in 1..n : lines[i].meal # day
  BY <1>1, <1>3 DEF MealsPaid
<1>5. \A d \in D \cup {day} : \E i \in DOMAIN new : new[i].meal = d
  <2>1. (\A i \in 1..n : i \in DOMAIN new) /\ n + 1 \in DOMAIN new
    BY <1>1
  <2>. QED
    BY <1>1, <2>1 DEF MealsPaid
<1>6. \A i \in DOMAIN new :
          /\ new[i].meal # Null => new[i].meal \in D \cup {day} /\ new[i].reason = "avondeten_meal"
          /\ new[i].reason = "avondeten_meal" =>
                (new[i].meal = Null <=> new[i].reversedBy # Null)
  BY <1>1, <1>2, <1>3 DEF MealsPaid
<1>7. \A i, j \in DOMAIN new :
          new[i].meal # Null /\ new[j].meal = new[i].meal => i = j
  BY <1>1, <1>2, <1>4 DEF MealsPaid
<1>. QED
  BY <1>5, <1>6, <1>7 DEF MealsPaid, new

-----------------------------------------------------------------------------
(* ... or a line of it is undone *)

(* Every column of the log after an undo *)
Undone(lines, i, meal, new) ==
    LET n == Len(lines)
    IN  /\ n \in Nat /\ DOMAIN lines = 1..n
        /\ Len(new) = n + 1 /\ DOMAIN new = 1..(n + 1)
        /\ \A j \in 1..n :
              /\ new[j] \in Line
              /\ new[j].reason = lines[j].reason /\ new[j].delta = lines[j].delta
              /\ new[j].balance = lines[j].balance /\ new[j].order = lines[j].order
              /\ new[j].reverses = lines[j].reverses
              /\ meal # Null /\ lines[j].meal = meal => new[j].meal = Null
              /\ meal = Null \/ lines[j].meal # meal => new[j].meal = lines[j].meal
              /\ j = i => new[j].reversedBy = n + 1
              /\ j # i => new[j].reversedBy = lines[j].reversedBy
        /\ new[n + 1].reason = "undo" /\ new[n + 1].delta = -lines[i].delta
        /\ new[n + 1].order = Null /\ new[n + 1].meal = Null
        /\ new[n + 1].reverses = i /\ new[n + 1].reversedBy = Null

LEMMA UndoneColumns ==
    ASSUME NEW lines \in Seq(Line), NEW i \in DOMAIN lines,
           NEW meal \in Days \cup {Null}, NEW balance \in 0..Knipjes
    PROVE  Undone(lines, i, meal, UndoneLog(lines, i, meal, balance))
<1>. DEFINE n == Len(lines)
            Old(j) == [lines[j] EXCEPT
                         !.meal = IF meal # Null /\ @ = meal THEN Null ELSE @,
                         !.reversedBy = IF j = i THEN n + 1 ELSE @]
            old == [j \in DOMAIN lines |-> Old(j)]
            undo == [Booking("undo", -lines[i].delta, balance) EXCEPT !.reverses = i]
            new == UndoneLog(lines, i, meal, balance)
<1>1. n \in Nat /\ DOMAIN lines = 1..n /\ \A j \in 1..n : lines[j] \in Line
  BY LenProperties, ElementOfSeq
<1>2. new \in Seq(Line) /\ Len(new) = n + 1
  BY UndoneLogShape
<1>3. DOMAIN new = 1..(n + 1) /\ \A j \in 1..n : new[j] \in Line
  BY <1>1, <1>2, LenProperties, ElementOfSeq
<1>4. DOMAIN old = 1..n /\ \A j \in 1..n : old[j] = Old(j)
  BY <1>1
<1>5. old \in Seq({old[j] : j \in 1..n}) /\ Len(old) = n
  <2>. DEFINE S == {old[j] : j \in 1..n}
  <2>1. old \in [1..n -> S]
    BY <1>4
  <2>. HIDE DEF old, S, n
  <2>2. old \in Seq(S) /\ Len(old) = n
    BY <1>1, <2>1, FunctionIsSeq
  <2>. QED
    BY <2>2 DEF S
<1>6. new = Append(old, undo)
  BY DEF UndoneLog
<1>7. (\A j \in 1..n : new[j] = Old(j)) /\ new[n + 1] = undo
  <2>. HIDE DEF new, old, undo, Old
  <2>. QED
    BY <1>1, <1>4, <1>5, <1>6
<1>8. /\ undo.reason = "undo" /\ undo.delta = -lines[i].delta
      /\ undo.order = Null /\ undo.meal = Null
      /\ undo.reverses = i /\ undo.reversedBy = Null
  BY DEF Booking
<1>9. ASSUME NEW j \in 1..n
      PROVE  /\ Old(j).reason = lines[j].reason /\ Old(j).delta = lines[j].delta
             /\ Old(j).balance = lines[j].balance /\ Old(j).order = lines[j].order
             /\ Old(j).reverses = lines[j].reverses
             /\ meal # Null /\ lines[j].meal = meal => Old(j).meal = Null
             /\ meal = Null \/ lines[j].meal # meal => Old(j).meal = lines[j].meal
             /\ j = i => Old(j).reversedBy = n + 1
             /\ j # i => Old(j).reversedBy = lines[j].reversedBy
  <2>1. lines[j] \in Line
    BY <1>1
  <2>. QED
    BY <2>1 DEF Line
<1>. HIDE DEF new, undo, Old
<1>10. Undone(lines, i, meal, new)
  BY <1>1, <1>2, <1>3, <1>7, <1>8, <1>9 DEF Undone
<1>. QED
  BY <1>10 DEF new

LEMMA LinkedUndone ==
    ASSUME NEW lines \in Seq(Line), Linked(lines), NEW i \in DOMAIN lines, Undoable(lines[i]),
           NEW meal \in Days \cup {Null}, NEW balance \in 0..Knipjes
    PROVE  Linked(UndoneLog(lines, i, meal, balance))
<1>. DEFINE n == Len(lines)
            new == UndoneLog(lines, i, meal, balance)
<1>0. Undone(lines, i, meal, new)
  BY UndoneColumns
<1>. HIDE DEF new
<1>1. /\ n \in Nat /\ DOMAIN lines = 1..n /\ DOMAIN new = 1..(n + 1)
      /\ \A j \in 1..n :
            /\ new[j].reason = lines[j].reason /\ new[j].delta = lines[j].delta
            /\ new[j].reverses = lines[j].reverses
            /\ j = i => new[j].reversedBy = n + 1
            /\ j # i => new[j].reversedBy = lines[j].reversedBy
      /\ new[n + 1].reason = "undo" /\ new[n + 1].delta = -lines[i].delta
      /\ new[n + 1].reverses = i /\ new[n + 1].reversedBy = Null
  BY <1>0 DEF Undone
<1>. HIDE DEF n
<1>2. /\ lines[i].reason \notin {"issued", "undo"} /\ lines[i].reversedBy = Null
      /\ i \in 1..n
  BY <1>1 DEF Undoable
<1>3. \A j \in DOMAIN new : j \in 1..n \/ j = n + 1
  BY <1>1
<1>4. n + 1 # Null /\ \A j \in 1..n : /\ j # n + 1 /\ j < n + 1 /\ j # Null /\ j \in DOMAIN new
                                     /\ lines[j].reverses # n + 1 /\ lines[j].reversedBy # n + 1
  BY <1>1 DEF Linked, Null
<1>5. \A j \in 1..n : lines[j].reverses # i
  BY <1>1, <1>2, <1>4 DEF Linked, UndoPaired
<1>6. UndoPaired(new)
  <2>. SUFFICES ASSUME NEW k \in DOMAIN new, NEW j \in DOMAIN new
                PROVE  /\ new[j].reverses = k <=> new[k].reversedBy = j
                       /\ new[j].reverses = k =>
                             /\ k < j
                             /\ new[j].reason = "undo"
                             /\ new[k].reason \notin {"issued", "undo"}
                             /\ new[j].delta = -new[k].delta
    BY DEF UndoPaired
  <2>1. CASE k \in 1..n /\ j \in 1..n /\ k # i
    BY <1>1, <2>1 DEF Linked, UndoPaired
  <2>2. CASE k = i /\ j \in 1..n
    <3>1. new[j].reverses # k /\ new[k].reversedBy # j
      BY <1>1, <1>2, <1>4, <1>5, <2>2
    <3>. QED
      BY <3>1
  <2>3. CASE k = i /\ j = n + 1
    BY <1>1, <1>2, <1>4, <2>3
  <2>4. CASE k \in 1..n /\ k # i /\ j = n + 1
    <3>1. new[j].reverses # k /\ new[k].reversedBy # j
      BY <1>1, <1>4, <2>4
    <3>. QED
      BY <3>1
  <2>5. CASE k = n + 1
    <3>1. new[k].reversedBy = Null /\ j # Null
      BY <1>1, <1>3, <1>4, <2>5
    <3>2. new[j].reverses # k
      BY <1>1, <1>2, <1>3, <1>4, <2>5
    <3>. QED
      BY <3>1, <3>2
  <2>. QED
    BY <1>3, <2>1, <2>2, <2>3, <2>4, <2>5
<1>7. ASSUME NEW j \in DOMAIN new
      PROVE  /\ new[j].reason = "undo" => new[j].reverses \in DOMAIN new
             /\ new[j].reverses \in DOMAIN new \cup {Null}
             /\ new[j].reversedBy \in DOMAIN new \cup {Null}
  <2>1. CASE j \in 1..n
    <3>1. /\ lines[j].reason = "undo" => lines[j].reverses \in 1..n
          /\ lines[j].reverses \in (1..n) \cup {Null}
          /\ lines[j].reversedBy \in (1..n) \cup {Null}
      BY <1>1, <2>1 DEF Linked
    <3>2. n + 1 \in DOMAIN new
      BY <1>1
    <3>. QED
      BY <1>1, <1>4, <2>1, <3>1, <3>2
  <2>2. CASE j = n + 1
    BY <1>1, <1>2, <1>4, <2>2
  <2>. QED
    BY <1>3, <2>1, <2>2
<1>. QED
  BY <1>6, <1>7 DEF Linked, new

(* The meal that the undone line paid for is deleted *)
LEMMA PaidUndone ==
    ASSUME NEW lines \in Seq(Line), NEW D, MealsPaid(lines, D), NEW i \in DOMAIN lines,
           Undoable(lines[i]), NEW balance \in 0..Knipjes, D \subseteq Days,
           NEW meal \in Days \cup {Null}, meal = lines[i].meal
    PROVE  MealsPaid(UndoneLog(lines, i, meal, balance), D \ {meal})
<1>. DEFINE n == Len(lines)
            new == UndoneLog(lines, i, meal, balance)
<1>0. Undone(lines, i, meal, new)
  BY UndoneColumns
<1>. HIDE DEF new
<1>2. /\ n \in Nat /\ DOMAIN lines = 1..n /\ DOMAIN new = 1..(n + 1)
      /\ \A j \in 1..n :
            /\ new[j].reason = lines[j].reason
            /\ meal # Null /\ lines[j].meal = meal => new[j].meal = Null
            /\ meal = Null \/ lines[j].meal # meal => new[j].meal = lines[j].meal
            /\ j = i => new[j].reversedBy = n + 1
            /\ j # i => new[j].reversedBy = lines[j].reversedBy
      /\ new[n + 1].reason = "undo" /\ new[n + 1].meal = Null
  BY <1>0 DEF Undone
<1>. HIDE DEF n
<1>3. \A j \in DOMAIN new : j \in 1..n \/ j = n + 1
  BY <1>2
<1>4. i \in 1..n /\ lines[i].reversedBy = Null /\ lines[i].meal = meal /\ n + 1 # Null
  BY <1>2 DEF Undoable, Null
<1>5. \A j \in 1..n : meal # Null /\ lines[j].meal = meal => j = i
  BY <1>2, <1>4 DEF MealsPaid
<1>6. Null \notin D
  BY DaysAssumption DEF Null
<1>7. \A d \in D \ {meal} : \E j \in DOMAIN new : new[j].meal = d
  <2>. SUFFICES ASSUME NEW d \in D, d # meal PROVE \E j \in DOMAIN new : new[j].meal = d
    OBVIOUS
  <2>1. PICK j \in 1..n : lines[j].meal = d
    BY <1>2 DEF MealsPaid
  <2>2. j \in DOMAIN new /\ new[j].meal = d
    BY <1>2, <2>1
  <2>. QED
    BY <2>2
<1>8. ASSUME NEW j \in DOMAIN new
      PROVE  /\ new[j].meal # Null => new[j].meal \in D \ {meal} /\ new[j].reason = "avondeten_meal"
             /\ new[j].reason = "avondeten_meal" =>
                   (new[j].meal = Null <=> new[j].reversedBy # Null)
  <2>1. CASE j = n + 1
    BY <1>2, <2>1
  <2>2. CASE j \in 1..n /\ j # i
    <3>1. meal = Null \/ lines[j].meal # meal
      BY <1>5, <2>2
    <3>2. new[j].meal = lines[j].meal /\ new[j].reversedBy = lines[j].reversedBy
      BY <1>2, <2>2, <3>1
    <3>3. /\ lines[j].meal # Null => lines[j].meal \in D /\ lines[j].reason = "avondeten_meal"
          /\ lines[j].reason = "avondeten_meal" =>
                (lines[j].meal = Null <=> lines[j].reversedBy # Null)
      BY <1>2, <2>2 DEF MealsPaid
    <3>. QED
      BY <1>2, <2>2, <3>1, <3>2, <3>3
  <2>3. CASE j = i
    <3>1. new[j].meal = Null /\ new[j].reversedBy # Null
      BY <1>2, <1>4, <2>3
    <3>. QED
      BY <3>1
  <2>. QED
    BY <1>3, <2>1, <2>2, <2>3
<1>9. ASSUME NEW j \in DOMAIN new, NEW k \in DOMAIN new,
             new[j].meal # Null, new[k].meal = new[j].meal
      PROVE  j = k
  <2>1. j \in 1..n /\ k \in 1..n
    BY <1>2, <1>3, <1>9
  <2>2. lines[j].meal # Null /\ lines[k].meal = lines[j].meal
    BY <1>2, <1>9, <2>1
  <2>. QED
    BY <1>2, <2>1, <2>2 DEF MealsPaid
<1>10. MealsPaid(new, D \ {meal})
  BY <1>7, <1>8, <1>9 DEF MealsPaid
<1>. QED
  BY <1>10 DEF new

(* A line that was undone before has no meal any more *)
LEMMA OlderUndone ==
    ASSUME NEW lines \in Seq(Line), NEW D, MealsPaid(lines, D), NEW i \in DOMAIN lines,
           Undoable(lines[i]), NEW balance \in 0..Knipjes,
           NEW meal \in Days \cup {Null}, meal = lines[i].meal
    PROVE  Older(lines, UndoneLog(lines, i, meal, balance))
<1>. DEFINE n == Len(lines)
            new == UndoneLog(lines, i, meal, balance)
<1>2. /\ n \in Nat /\ DOMAIN lines = 1..n /\ \A j \in 1..n : lines[j] \in Line
  BY LenProperties, ElementOfSeq
<1>3. lines[i].reversedBy = Null /\ lines[i].meal = meal
  BY DEF Undoable
<1>0. Undone(lines, i, meal, new)
  BY UndoneColumns
<1>. HIDE DEF new
<1>4. /\ Len(new) = n + 1
      /\ \A j \in 1..n :
            /\ new[j] \in Line
            /\ new[j].reason = lines[j].reason /\ new[j].delta = lines[j].delta
            /\ new[j].balance = lines[j].balance /\ new[j].order = lines[j].order
            /\ new[j].reverses = lines[j].reverses
            /\ meal # Null /\ lines[j].meal = meal => new[j].meal = Null
            /\ meal = Null \/ lines[j].meal # meal => new[j].meal = lines[j].meal
            /\ j = i => new[j].reversedBy = n + 1
            /\ j # i => new[j].reversedBy = lines[j].reversedBy
  BY <1>0 DEF Undone
<1>. HIDE DEF n
<1>5. ASSUME NEW j \in 1..n
      PROVE  new[j] = [lines[j] EXCEPT !.meal = new[j].meal, !.reversedBy = new[j].reversedBy]
  <2>. PICK k \in Line : k = new[j]
    BY <1>4
  <2>. PICK l \in Line : l = lines[j]
    BY <1>2
  <2>1. /\ k.reason = l.reason /\ k.delta = l.delta /\ k.balance = l.balance
        /\ k.order = l.order /\ k.reverses = l.reverses
    BY <1>4
  <2>2. k = [l EXCEPT !.meal = k.meal, !.reversedBy = k.reversedBy]
    BY <2>1, Relinked
  <2>. QED
    BY <2>2
<1>6. ASSUME NEW j \in 1..n, lines[j].reversedBy # Null
      PROVE  new[j] = lines[j]
  <2>1. j # i
    BY <1>3, <1>6
  <2>2. meal = Null \/ lines[j].meal # meal
    BY <1>2, <1>3, <2>1 DEF MealsPaid
  <2>3. new[j].meal = lines[j].meal /\ new[j].reversedBy = lines[j].reversedBy
    BY <1>4, <2>1, <2>2
  <2>. QED
    BY <1>2, <1>4, <2>3, LineExtensional
<1>7. Older(lines, new)
  BY <1>2, <1>4, <1>5, <1>6 DEF Older, n
<1>. QED
  BY <1>7 DEF new
-----------------------------------------------------------------------------
(* What a step does to the logs *)

MealDays(c) == {d \in Days : <<c, d>> \in meals}

LogsOK == \A c \in DOMAIN cards : Linked(log[c]) /\ MealsPaid(log[c], MealDays(c))

LogsOlder == \A c \in DOMAIN cards \cap DOMAIN cards' : Older(log[c], log'[c])

LogGood == LogsOK' /\ LogsOlder

LEMMA SameLogs ==
    ASSUME TypeOK, LogsOK, DOMAIN cards' = DOMAIN cards, log' = log, meals' = meals
    PROVE  LogGood
<1>1. \A c : MealDays(c)' = MealDays(c)
  BY DEF MealDays
<1>2. LogsOK'
  BY <1>1 DEF LogsOK
<1>3. LogsOlder
  BY RowTypes, OlderSame DEF LogsOlder
<1>. QED
  BY <1>2, <1>3 DEF LogGood

(* A line that is neither of a meal nor of an undo is booked on a card *)
LEMMA BookedLog ==
    ASSUME TypeOK, LogsOK, NEW c \in DOMAIN cards, NEW line \in Line, Book(c, line),
           meals' = meals, line.meal = Null, line.reverses = Null, line.reversedBy = Null,
           line.reason \notin {"undo", "avondeten_meal"}
    PROVE  LogGood
<1>1. /\ DOMAIN cards' = DOMAIN cards
      /\ log'[c] = Append(log[c], line)
      /\ \A d \in DOMAIN cards : d # c => log'[d] = log[d]
  BY BookShape
<1>2. \A d : MealDays(d)' = MealDays(d)
  BY DEF MealDays
<1>3. \A d \in DOMAIN cards : log[d] \in Seq(Line)
  BY RowTypes
<1>4. Linked(log[c]) /\ MealsPaid(log[c], MealDays(c))
  BY DEF LogsOK
<1>5. /\ Linked(Append(log[c], line)) /\ MealsPaid(Append(log[c], line), MealDays(c))
      /\ Older(log[c], Append(log[c], line))
  BY <1>3, <1>4, LinkedAppend, PaidAppend, OlderAppend
<1>6. LogsOK'
  <2>. SUFFICES ASSUME NEW d \in DOMAIN cards
                PROVE  Linked(log'[d]) /\ MealsPaid(log'[d], MealDays(d)')
    BY <1>1 DEF LogsOK
  <2>1. CASE d = c
    BY <1>1, <1>2, <1>5, <2>1
  <2>2. CASE d # c
    BY <1>1, <1>2, <2>2 DEF LogsOK
  <2>. QED
    BY <2>1, <2>2
<1>7. LogsOlder
  <2>. SUFFICES ASSUME NEW d \in DOMAIN cards PROVE Older(log[d], log'[d])
    BY DEF LogsOlder
  <2>1. CASE d = c
    BY <1>1, <1>5, <2>1
  <2>2. CASE d # c
    BY <1>1, <1>3, <2>2, OlderSame
  <2>. QED
    BY <2>1, <2>2
<1>. QED
  BY <1>6, <1>7 DEF LogGood

LEMMA BookingColumns ==
    ASSUME NEW reason, NEW delta, NEW balance, NEW x
    PROVE  /\ Booking(reason, delta, balance).reason = reason
           /\ Booking(reason, delta, balance).order = Null
           /\ Booking(reason, delta, balance).meal = Null
           /\ Booking(reason, delta, balance).reverses = Null
           /\ Booking(reason, delta, balance).reversedBy = Null
           /\ [Booking(reason, delta, balance) EXCEPT !.order = x].reason = reason
           /\ [Booking(reason, delta, balance) EXCEPT !.order = x].order = x
           /\ [Booking(reason, delta, balance) EXCEPT !.order = x].meal = Null
           /\ [Booking(reason, delta, balance) EXCEPT !.order = x].reverses = Null
           /\ [Booking(reason, delta, balance) EXCEPT !.order = x].reversedBy = Null
           /\ [Booking(reason, delta, balance) EXCEPT !.meal = x].reason = reason
           /\ [Booking(reason, delta, balance) EXCEPT !.meal = x].order = Null
           /\ [Booking(reason, delta, balance) EXCEPT !.meal = x].meal = x
           /\ [Booking(reason, delta, balance) EXCEPT !.meal = x].reverses = Null
           /\ [Booking(reason, delta, balance) EXCEPT !.meal = x].reversedBy = Null
  BY DEF Booking

LEMMA UseKnipjeLog ==
    ASSUME TypeOK, LogsOK, NEW c \in DOMAIN cards, UseKnipje(c)
    PROVE  LogGood
<1>. DEFINE line == Booking("manual_knipje", -1, cards[c].knip - 1)
<1>1. line \in Line /\ Book(c, line) /\ meals' = meals
  BY UseKnipjeLine DEF UseKnipje
<1>2. /\ line.reason = "manual_knipje" /\ line.meal = Null
      /\ line.reverses = Null /\ line.reversedBy = Null
  BY BookingColumns
<1>. HIDE DEF line
<1>. QED
  BY <1>1, <1>2, BookedLog

LEMMA EstimateLog ==
    ASSUME TypeOK, LogsOK, NEW c \in DOMAIN cards, NEW value \in 0..Knipjes,
           SetPhysicalCardEstimate(c, value)
    PROVE  LogGood
<1>. DEFINE line == Booking("estimate_adjust", value - cards[c].knip, value)
<1>1. line \in Line /\ Book(c, line) /\ meals' = meals
  BY EstimateLine DEF SetPhysicalCardEstimate
<1>2. /\ line.reason = "estimate_adjust" /\ line.meal = Null
      /\ line.reverses = Null /\ line.reversedBy = Null
  BY BookingColumns
<1>. HIDE DEF line
<1>. QED
  BY <1>1, <1>2, BookedLog

LEMMA DeliverLog ==
    ASSUME TypeOK, LogsOK, NEW o \in DOMAIN orders, DeliverTostiOrder(o)
    PROVE  LogGood
<1>1. ASSUME NEW c \in DOMAIN cards, DeliverFromCard(o, c) PROVE LogGood
  <2>. DEFINE balance == BalanceAfterDelivery(c, orders[o].qty)
              line == [Booking("tosti_delivered", balance - cards[c].knip, balance)
                         EXCEPT !.order = o]
  <2>1. line \in Line /\ Book(c, line) /\ meals' = meals
    BY <1>1, DeliveryLine DEF DeliverFromCard
  <2>2. /\ line.reason = "tosti_delivered" /\ line.meal = Null
        /\ line.reverses = Null /\ line.reversedBy = Null
    BY BookingColumns
  <2>. HIDE DEF line
  <2>. QED
    BY <2>1, <2>2, BookedLog
<1>2. CASE UNCHANGED <<matroos, cards, lastCard, log, requests, lastOrder, meals>>
  BY <1>2, SameLogs
<1>. QED
  BY <1>1, <1>2, DeliveryCases

LEMMA MealLog ==
    ASSUME TypeOK, LogsOK, NEW day \in Days, NEW S \in SUBSET DOMAIN cards,
           RegisterAvondetenMealsForDate(day, S)
    PROVE  LogGood
<1>1. /\ DOMAIN cards' = DOMAIN cards
      /\ \A d \in DOMAIN cards : d \notin S => log'[d] = log[d]
      /\ \A c \in S : <<c, day>> \notin meals
      /\ meals' = meals \cup {<<c, day>> : c \in S}
  BY DEF RegisterAvondetenMealsForDate, CanEat, TypeOK
<1>2. \A d : d \notin S => MealDays(d)' = MealDays(d)
  BY <1>1 DEF MealDays
<1>3. \A c \in S : MealDays(c)' = MealDays(c) \cup {day} /\ day \notin MealDays(c)
  BY <1>1 DEF MealDays
<1>4. \A d \in DOMAIN cards : log[d] \in Seq(Line) /\ Linked(log[d]) /\ MealsPaid(log[d], MealDays(d))
  BY RowTypes DEF LogsOK
<1>5. ASSUME NEW c \in S
      PROVE  /\ Linked(log'[c]) /\ MealsPaid(log'[c], MealDays(c) \cup {day})
             /\ Older(log[c], log'[c])
  <2>. DEFINE line == [Booking("avondeten_meal", -1, cards[c].knip - 1) EXCEPT !.meal = day]
  <2>1. line \in Line /\ log'[c] = Append(log[c], line)
    BY MealShape
  <2>2. /\ line.reason = "avondeten_meal" /\ line.meal = day
        /\ line.reverses = Null /\ line.reversedBy = Null
    BY BookingColumns
  <2>. HIDE DEF line
  <2>. QED
    BY <1>3, <1>4, <2>1, <2>2, LinkedAppend, PaidMeal, OlderAppend
<1>6. LogsOK'
  <2>. SUFFICES ASSUME NEW d \in DOMAIN cards
                PROVE  Linked(log'[d]) /\ MealsPaid(log'[d], MealDays(d)')
    BY <1>1 DEF LogsOK
  <2>. QED
    BY <1>1, <1>2, <1>3, <1>4, <1>5
<1>7. LogsOlder
  <2>. SUFFICES ASSUME NEW d \in DOMAIN cards PROVE Older(log[d], log'[d])
    BY DEF LogsOlder
  <2>. QED
    BY <1>1, <1>4, <1>5, OlderSame
<1>. QED
  BY <1>6, <1>7 DEF LogGood

LEMMA UndoLog ==
    ASSUME TypeOK, LogsOK, NEW c \in DOMAIN cards, NEW i \in DOMAIN log[c],
           UndoCardTransaction(c, i)
    PROVE  LogGood
<1>. PICK meal \in Days \cup {Null} : meal = log[c][i].meal
  BY UndoShape
<1>. PICK balance \in 0..Knipjes : balance = cards[c].knip - log[c][i].delta
  BY UndoShape
<1>1. /\ DOMAIN cards' = DOMAIN cards
      /\ log'[c] = UndoneLog(log[c], i, meal, balance)
      /\ \A d \in DOMAIN cards : d # c => log'[d] = log[d]
      /\ meals' = meals \ {<<c, meal>>}
      /\ Undoable(log[c][i])
  BY UndoShape DEF UndoCardTransaction
<1>2. \A d : d # c => MealDays(d)' = MealDays(d)
  BY <1>1 DEF MealDays
<1>3. MealDays(c)' = MealDays(c) \ {meal} /\ MealDays(c) \subseteq Days
  BY <1>1 DEF MealDays
<1>4. \A d \in DOMAIN cards : log[d] \in Seq(Line) /\ Linked(log[d]) /\ MealsPaid(log[d], MealDays(d))
  BY RowTypes DEF LogsOK
<1>5. Linked(log'[c])
  BY <1>1, <1>4, LinkedUndone
<1>6. MealsPaid(log'[c], MealDays(c)')
  <2>. PICK D : D = MealDays(c)
    OBVIOUS
  <2>1. MealsPaid(UndoneLog(log[c], i, meal, balance), D \ {meal})
    BY <1>1, <1>3, <1>4, PaidUndone
  <2>. QED
    BY <1>1, <1>3, <2>1
<1>7. Older(log[c], log'[c])
  BY <1>1, <1>4, OlderUndone
<1>8. LogsOK'
  <2>. SUFFICES ASSUME NEW d \in DOMAIN cards
                PROVE  Linked(log'[d]) /\ MealsPaid(log'[d], MealDays(d)')
    BY <1>1 DEF LogsOK
  <2>. QED
    BY <1>1, <1>2, <1>4, <1>5, <1>6
<1>9. LogsOlder
  <2>. SUFFICES ASSUME NEW d \in DOMAIN cards PROVE Older(log[d], log'[d])
    BY DEF LogsOlder
  <2>. QED
    BY <1>1, <1>4, <1>7, OlderSame
<1>. QED
  BY <1>8, <1>9 DEF LogGood

LEMMA IssueCardLog ==
    ASSUME TypeOK, LogsOK, NEW u \in Members, NEW k \in Kinds, NEW source \in Sources,
           NEW status, IssueCard(u, k, source, status)
    PROVE  LogGood
<1>. PICK c \in Nat : c = lastCard + 1
  BY BoundsAssumption DEF TypeOK
<1>1. /\ c \notin DOMAIN cards /\ DOMAIN cards' = DOMAIN cards \cup {c}
      /\ \A d \in DOMAIN cards : log'[d] = log[d]
      /\ log'[c] = <<Issued>> /\ meals' = meals
  <2>1. DOMAIN cards \subseteq 1..lastCard /\ DOMAIN log = DOMAIN cards /\ lastCard \in Nat
    BY BoundsAssumption DEF TypeOK
  <2>2. c \notin DOMAIN cards
    BY <2>1
  <2>. HIDE DEF Issued
  <2>. QED
    BY <2>1, <2>2 DEF IssueCard, With
<1>2. \A d : MealDays(d)' = MealDays(d)
  BY <1>1 DEF MealDays
<1>3. MealDays(c) = {}
  BY <1>1 DEF MealDays, TypeOK
<1>4. LogsOK'
  BY <1>1, <1>2, <1>3, IssuedLog DEF LogsOK
<1>5. LogsOlder
  BY <1>1, RowTypes, OlderSame DEF LogsOlder
<1>. QED
  BY <1>4, <1>5 DEF LogGood

LEMMA WithdrawLog ==
    ASSUME TypeOK, LogsOK, NEW r \in DOMAIN requests, WithdrawRequest(r)
    PROVE  LogGood
<1>. PICK c : c = requests[r].card
  OBVIOUS
<1>1. /\ DOMAIN cards' = DOMAIN cards \ {c}
      /\ \A d \in DOMAIN cards' : d \in DOMAIN cards /\ d # c /\ log'[d] = log[d]
      /\ meals' = {m \in meals : m[1] # c}
  BY DEF WithdrawRequest, Restrict, TypeOK
<1>2. \A d : d # c => MealDays(d)' = MealDays(d)
  BY <1>1 DEF MealDays
<1>3. LogsOK'
  BY <1>1, <1>2 DEF LogsOK
<1>4. LogsOlder
  BY <1>1, RowTypes, OlderSame DEF LogsOlder
<1>. QED
  BY <1>3, <1>4 DEF LogGood

LEMMA LogStep ==
    ASSUME TypeOK, LogsOK, [Next]_vars
    PROVE  LogGood
<1>1. CASE \E u \in Members, k \in Kinds : CreateCardRequest(u, k) \/ CreatePhysicalCardSale(u, k)
  BY <1>1, IssueCardLog DEF CreateCardRequest, CreatePhysicalCardSale, Sources
<1>2. CASE \E r \in DOMAIN requests : FulfillCardRequest(r)
  BY <1>2, SameLogs DEF FulfillCardRequest
<1>3. CASE \E r \in DOMAIN requests : AdminRejectCardRequest(r)
  BY <1>3, WithdrawLog DEF AdminRejectCardRequest
<1>4. CASE \E r \in DOMAIN requests, u \in Members : CancelCardRequestForUser(r, u)
  BY <1>4, WithdrawLog DEF CancelCardRequestForUser
<1>5. CASE \E u \in Members, c \in DOMAIN cards \cup {Null}, q \in 1..Knipjes :
              CreateTostiOrder(u, c, q)
  BY <1>5, SameLogs DEF CreateTostiOrder, InsertTostiOrder
<1>6. CASE \E o \in DOMAIN orders : CancelTostiOrder(o)
  BY <1>6, SameLogs DEF CancelTostiOrder
<1>7. CASE \E u \in Members, value \in BOOLEAN : AdminSetMatroosJeugd(u, value)
  BY <1>7, SameLogs DEF AdminSetMatroosJeugd
<1>8. CASE UNCHANGED vars
  BY <1>8, SameLogs DEF vars
<1>. QED
  BY <1>1, <1>2, <1>3, <1>4, <1>5, <1>6, <1>7, <1>8, UseKnipjeLog, EstimateLog, MealLog,
     UndoLog, DeliverLog
  DEF Next, NextOnRows, NextOfMembers

LEMMA LogsInvariant == Spec => [](TypeOK /\ LogsOK)
<1>1. Init => TypeOK /\ LogsOK
  BY InitType DEF Init, LogsOK
<1>2. TypeOK /\ LogsOK /\ [Next]_vars => (TypeOK /\ LogsOK)'
  BY TypeStep, LogStep DEF LogGood
<1>. QED
  BY <1>1, <1>2, PTL DEF Spec

-----------------------------------------------------------------------------
(* What LogsOK says of the undo links *)
LEMMA LogsLinked ==
    ASSUME TypeOK, LogsOK
    PROVE  UndoLinks
<1>. SUFFICES ASSUME NEW c \in DOMAIN cards
              PROVE  /\ UndoPaired(log[c])
                     /\ \A i \in DOMAIN log[c] :
                           /\ log[c][i].reason = "undo" => log[c][i].reverses \in DOMAIN log[c]
                           /\ log[c][i].reversedBy # Null => log[c][i].reversedBy \in DOMAIN log[c]
  BY DEF UndoLinks
<1>. QED
  BY DEF LogsOK, Linked

(* An undone line and the line that reverses it point at each other, the     *)
(* second pays back the first, and neither an undo nor the issue is ever     *)
(* undone (UndoCardTransaction).                                             *)
THEOREM LinksPair == Spec => []UndoLinks
  BY LogsLinked, LogsInvariant, PTL

(* What it says of the meals *)
LEMMA LogsMatchMeals ==
    ASSUME TypeOK, LogsOK
    PROVE  MealsMatchLog
<1>1. ASSUME NEW m \in meals PROVE \E i \in DOMAIN log[m[1]] : log[m[1]][i].meal = m[2]
  <2>1. m[1] \in DOMAIN cards /\ m = <<m[1], m[2]>> /\ m[2] \in Days
    BY DEF TypeOK
  <2>2. m[2] \in MealDays(m[1])
    BY <2>1 DEF MealDays
  <2>3. MealsPaid(log[m[1]], MealDays(m[1]))
    BY <2>1 DEF LogsOK
  <2>. QED
    BY <2>2, <2>3 DEF MealsPaid
<1>2. ASSUME NEW c \in DOMAIN cards, NEW i \in DOMAIN log[c]
      PROVE  /\ log[c][i].meal # Null => /\ <<c, log[c][i].meal>> \in meals
                                         /\ log[c][i].reason = "avondeten_meal"
             /\ log[c][i].reason = "avondeten_meal" =>
                   (log[c][i].meal = Null <=> log[c][i].reversedBy # Null)
             /\ \A j \in DOMAIN log[c] :
                   log[c][i].meal # Null /\ log[c][j].meal = log[c][i].meal => i = j
  <2>1. MealsPaid(log[c], MealDays(c))
    BY DEF LogsOK
  <2>. QED
    BY <2>1 DEF MealsPaid, MealDays
<1>. QED
  BY <1>1, <1>2 DEF MealsMatchLog

(* A registered meal is paid for by one line of the logboek and a line by    *)
(* which a meal was paid has its meal or was undone, whatever the order of   *)
(* registrations, undos and registrations anew (avondeten_meals.go).         *)
THEOREM MealsPaidOnce == Spec => []MealsMatchLog
  BY LogsMatchMeals, LogsInvariant, PTL

(* The knipje-logboek of a card only grows, by one line at a time, and of    *)
(* an older line only the links change, of an undone one nothing.            *)
THEOREM LogsGrow == Spec => LogAppendOnly
<1>. DEFINE Step == \A c \in DOMAIN cards \cap DOMAIN cards' :
          /\ Len(log'[c]) \in {Len(log[c]), Len(log[c]) + 1}
          /\ \A i \in DOMAIN log[c] :
                /\ log'[c][i] = [log[c][i] EXCEPT !.meal = log'[c][i].meal,
                                                  !.reversedBy = log'[c][i].reversedBy]
                /\ log[c][i].reversedBy # Null => log'[c][i] = log[c][i]
<1>1. TypeOK /\ LogsOK /\ [Next]_vars => [Step]_vars
  BY LogStep DEF LogGood, LogsOlder, Older
<1>. HIDE DEF Step
<1>2. Spec => [][Step]_vars
  BY <1>1, LogsInvariant, PTL DEF Spec
<1>. QED
  BY <1>2 DEF LogAppendOnly, Step

-----------------------------------------------------------------------------
(* Sums over finite sets *)

(* Among sets of elements of a finite set one is the smallest: with it      *)
(* sets are reasoned about by induction, the failing ones being T          *)
LEMMA SmallestSet ==
    ASSUME NEW S, IsFiniteSet(S), NEW T, T \subseteq SUBSET S, T # {}
    PROVE  \E x \in T : \A y \in T : ~(y \subseteq x /\ y # x)
<1>. DEFINE R == StrictSubsetOrdering(S)
            F == FiniteSubsetsOf(S)
<1>1. IsWellFoundedOn(R, F)
  BY FS_StrictSubsetOrderingWellFounded
<1>2. T \subseteq F
  BY FS_Subset DEF FiniteSubsetsOf
<1>. HIDE DEF R, F
<1>3. \E x \in T : \A y \in T : ~(<<y, x>> \in R)
  BY <1>1, <1>2, WFMin
<1>. QED
  BY <1>2, <1>3 DEF R, F, StrictSubsetOrdering, FiniteSubsetsOf

(* g has for every part of S the sum of d over it, as MapThenSumSet adds it *)
Pick(s) == CHOOSE x \in s : TRUE

Sums(g, d, S) ==
    g = [s \in SUBSET S |-> IF s = {} THEN 0 ELSE d[Pick(s)] + g[s \ {Pick(s)}]]

LEMMA Picked == \A s : s # {} => Pick(s) \in s
  BY DEF Pick

LEMMA SumsAgree ==
    ASSUME NEW S, IsFiniteSet(S), NEW U, S \subseteq U, NEW d, NEW e,
           \A x \in S : d[x] = e[x],
           NEW g, Sums(g, d, S), NEW h, Sums(h, e, U)
    PROVE  \A s \in SUBSET S : g[s] = h[s]
<1>. DEFINE T == {s \in SUBSET S : g[s] # h[s]}
<1>. SUFFICES ASSUME T # {} PROVE FALSE
  OBVIOUS
<1>0. T \subseteq SUBSET S
  OBVIOUS
<1>. HIDE DEF T
<1>1. PICK s \in T : \A y \in T : ~(y \subseteq s /\ y # s)
  BY <1>0, SmallestSet
<1>. USE DEF T
<1>2. s \in SUBSET S /\ s \in SUBSET U
  BY <1>1
<1>3. /\ g[s] = IF s = {} THEN 0 ELSE d[Pick(s)] + g[s \ {Pick(s)}]
      /\ h[s] = IF s = {} THEN 0 ELSE e[Pick(s)] + h[s \ {Pick(s)}]
  BY <1>2 DEF Sums
<1>4. s # {} /\ Pick(s) \in s /\ Pick(s) \in S
  BY <1>1, <1>2, <1>3, Picked
<1>5. g[s \ {Pick(s)}] = h[s \ {Pick(s)}]
  BY <1>1, <1>2, <1>4
<1>. QED
  BY <1>1, <1>3, <1>4, <1>5

LEMMA SumsExist ==
    ASSUME NEW S, IsFiniteSet(S), NEW d
    PROVE  \E g : Sums(g, d, S)
<1>. DEFINE T == {s \in SUBSET S : ~\E g : Sums(g, d, s)}
<1>. SUFFICES ASSUME T # {} PROVE FALSE
  OBVIOUS
<1>0. T \subseteq SUBSET S
  OBVIOUS
<1>. HIDE DEF T
<1>1. PICK s \in T : \A y \in T : ~(y \subseteq s /\ y # s)
  BY <1>0, SmallestSet
<1>. USE DEF T
<1>2. s \in SUBSET S /\ \A t \in SUBSET s : t # s => \E g : Sums(g, d, t)
  BY <1>1
<1>. DEFINE Part(t) == CHOOSE g : Sums(g, d, t)
            At(t) == IF t = {} THEN 0 ELSE d[Pick(t)] + Part(t \ {Pick(t)})[t \ {Pick(t)}]
            g == [t \in SUBSET s |-> At(t)]
<1>3. \A t \in SUBSET s : t # s => Sums(Part(t), d, t)
  BY <1>2
<1>4. ASSUME NEW t \in SUBSET s, t # s PROVE Part(t)[t] = At(t)
  <2>1. Sums(Part(t), d, t)
    BY <1>3, <1>4
  <2>. PICK f : f = Part(t)
    OBVIOUS
  <2>. HIDE DEF Part
  <2>2. f[t] = IF t = {} THEN 0 ELSE d[Pick(t)] + f[t \ {Pick(t)}]
    BY <2>1 DEF Sums
  <2>3. CASE t # {}
    <3>. PICK u : u = t \ {Pick(t)}
      OBVIOUS
    <3>1. u \in SUBSET t /\ u # s /\ u \in SUBSET s
      BY <1>4, <2>3
    <3>2. IsFiniteSet(u)
      BY <1>2, <3>1, FS_Subset
    <3>3. Sums(Part(u), d, u)
      BY <1>3, <3>1
    <3>4. Part(u)[u] = f[u]
      BY <2>1, <3>1, <3>2, <3>3, SumsAgree
    <3>. QED
      BY <2>2, <2>3, <3>4
  <2>. QED
    BY <2>2, <2>3
<1>5. \A t \in SUBSET s : t # {} => t \ {Pick(t)} \in SUBSET s /\ t \ {Pick(t)} # s
  BY Picked
<1>6. Sums(g, d, s)
  <2>1. \A t \in SUBSET s : t # {} => g[t \ {Pick(t)}] = Part(t \ {Pick(t)})[t \ {Pick(t)}]
    <3>. HIDE DEF Part
    <3>. SUFFICES ASSUME NEW t \in SUBSET s, t # {}
                  PROVE  g[t \ {Pick(t)}] = Part(t \ {Pick(t)})[t \ {Pick(t)}]
      OBVIOUS
    <3>. PICK u : u = t \ {Pick(t)}
      OBVIOUS
    <3>1. u \in SUBSET s /\ u # s
      BY <1>5
    <3>2. g[u] = At(u)
      BY <3>1
    <3>. QED
      BY <1>4, <3>1, <3>2
  <2>2. \A t \in SUBSET s : g[t] = IF t = {} THEN 0 ELSE d[Pick(t)] + g[t \ {Pick(t)}]
    <3>. HIDE DEF Part
    <3>. QED
      BY <2>1
  <2>. HIDE DEF At
  <2>3. g = [t \in SUBSET s |-> g[t]]
    OBVIOUS
  <2>. HIDE DEF g
  <2>. QED
    BY <2>2, <2>3 DEF Sums
<1>. QED
  BY <1>1, <1>6

(* The whole numbers d, summed over S *)
Total(d, S) == (CHOOSE g : Sums(g, d, S))[S]

LEMMA Totals ==
    ASSUME NEW S, IsFiniteSet(S), NEW d
    PROVE  \E g : /\ Sums(g, d, S)
                  /\ \A s \in SUBSET S : g[s] = Total(d, s)
<1>1. \A s \in SUBSET S : IsFiniteSet(s)
  BY FS_Subset
<1>2. \A s \in SUBSET S : \E g : Sums(g, d, s)
  BY <1>1, SumsExist
<1>. DEFINE Part(s) == CHOOSE g : Sums(g, d, s)
<1>3. \A s \in SUBSET S : Sums(Part(s), d, s)
  BY <1>2
<1>4. \A s \in SUBSET S : Total(d, s) = Part(s)[s]
  BY DEF Total
<1>. HIDE DEF Part
<1>5. \A s \in SUBSET S : Part(s)[s] = Part(S)[s]
  BY <1>1, <1>3, SumsAgree
<1>. QED
  BY <1>3, <1>4, <1>5

LEMMA TotalStep ==
    ASSUME NEW S, IsFiniteSet(S), NEW d
    PROVE  /\ Total(d, {}) = 0
           /\ S # {} => Total(d, S) = d[Pick(S)] + Total(d, S \ {Pick(S)})
<1>1. PICK g : /\ Sums(g, d, S)
               /\ \A s \in SUBSET S : g[s] = Total(d, s)
  BY Totals
<1>2. \A s \in SUBSET S : g[s] = IF s = {} THEN 0 ELSE d[Pick(s)] + g[s \ {Pick(s)}]
  BY <1>1 DEF Sums
<1>. QED
  BY <1>1, <1>2

LEMMA TotalInt ==
    ASSUME NEW S, IsFiniteSet(S), NEW d, \A x \in S : d[x] \in Int
    PROVE  Total(d, S) \in Int
<1>. DEFINE T == {s \in SUBSET S : Total(d, s) \notin Int}
<1>. SUFFICES ASSUME T # {} PROVE FALSE
  OBVIOUS
<1>0. T \subseteq SUBSET S
  OBVIOUS
<1>. HIDE DEF T
<1>1. PICK s \in T : \A y \in T : ~(y \subseteq s /\ y # s)
  BY <1>0, SmallestSet
<1>. USE DEF T
<1>2. IsFiniteSet(s) /\ s \in SUBSET S /\ Total(d, s) \notin Int
  BY <1>1, FS_Subset
<1>3. Total(d, s) = IF s = {} THEN 0 ELSE d[Pick(s)] + Total(d, s \ {Pick(s)})
  BY <1>2, TotalStep
<1>4. s # {} /\ Pick(s) \in s
  BY <1>2, <1>3, Picked
<1>5. Total(d, s \ {Pick(s)}) \in Int /\ d[Pick(s)] \in Int
  BY <1>1, <1>2, <1>4
<1>. QED
  BY <1>2, <1>3, <1>4, <1>5

(* It does not matter in which order the numbers are added *)
LEMMA TotalWithout ==
    ASSUME NEW S, IsFiniteSet(S), NEW d, \A x \in S : d[x] \in Int
    PROVE  \A x \in S : Total(d, S) = d[x] + Total(d, S \ {x})
<1>. DEFINE T == {s \in SUBSET S : \E x \in s : Total(d, s) # d[x] + Total(d, s \ {x})}
<1>. SUFFICES ASSUME T # {} PROVE FALSE
  OBVIOUS
<1>0. T \subseteq SUBSET S
  OBVIOUS
<1>. HIDE DEF T
<1>1. PICK s \in T : \A y \in T : ~(y \subseteq s /\ y # s)
  BY <1>0, SmallestSet
<1>. USE DEF T
<1>. PICK x \in s : Total(d, s) # d[x] + Total(d, s \ {x})
  BY <1>1
<1>. PICK p : p = Pick(s)
  OBVIOUS
<1>2. /\ \A r \in SUBSET S : IsFiniteSet(r)
      /\ s \in SUBSET S /\ p \in s
  BY <1>1, FS_Subset, Picked
<1>3. Total(d, s) = d[p] + Total(d, s \ {p})
  BY <1>2, TotalStep
<1>4. p # x
  BY <1>3
<1>5. \A r \in SUBSET s : \A y \in r : r # s => Total(d, r) = d[y] + Total(d, r \ {y})
  BY <1>1, <1>2
<1>. PICK r : r = (s \ {p}) \ {x} /\ r = (s \ {x}) \ {p}
  OBVIOUS
<1>6. Total(d, s \ {p}) = d[x] + Total(d, r)
  BY <1>2, <1>4, <1>5
<1>7. Total(d, s \ {x}) = d[p] + Total(d, r)
  BY <1>2, <1>4, <1>5
<1>8. d[p] \in Int /\ d[x] \in Int /\ Total(d, r) \in Int
  <2>1. r \in SUBSET S
    BY <1>2
  <2>. QED
    BY <1>2, <2>1, TotalInt
<1>9. Total(d, s) = d[x] + Total(d, s \ {x})
  BY <1>3, <1>6, <1>7, <1>8
<1>. QED
  BY <1>9

(* One number more *)
LEMMA TotalWith ==
    ASSUME NEW S, IsFiniteSet(S), NEW x, x \notin S, NEW d,
           \A y \in S \cup {x} : d[y] \in Int
    PROVE  Total(d, S \cup {x}) = d[x] + Total(d, S)
<1>1. IsFiniteSet(S \cup {x}) /\ (S \cup {x}) \ {x} = S
  BY FS_AddElement
<1>. QED
  BY <1>1, TotalWithout

LEMMA TotalAgrees ==
    ASSUME NEW S, IsFiniteSet(S), NEW d, NEW e, \A x \in S : d[x] = e[x]
    PROVE  Total(d, S) = Total(e, S)
<1>1. PICK g : Sums(g, d, S) /\ g[S] = Total(d, S)
  BY Totals
<1>2. PICK h : Sums(h, e, S) /\ h[S] = Total(e, S)
  BY Totals
<1>. QED
  BY <1>1, <1>2, SumsAgree

LEMMA TotalNotPositive ==
    ASSUME NEW S, IsFiniteSet(S), NEW d, \A x \in S : d[x] \in Int /\ d[x] <= 0
    PROVE  Total(d, S) <= 0
<1>. DEFINE T == {s \in SUBSET S : ~(Total(d, s) <= 0)}
<1>. SUFFICES ASSUME T # {} PROVE FALSE
  OBVIOUS
<1>0. T \subseteq SUBSET S
  OBVIOUS
<1>. HIDE DEF T
<1>1. PICK s \in T : \A y \in T : ~(y \subseteq s /\ y # s)
  BY <1>0, SmallestSet
<1>. USE DEF T
<1>2. IsFiniteSet(s) /\ s \in SUBSET S /\ ~(Total(d, s) <= 0)
  BY <1>1, FS_Subset
<1>3. s # {} => Total(d, s) = d[Pick(s)] + Total(d, s \ {Pick(s)})
  BY <1>2, TotalStep
<1>4. s # {} /\ Pick(s) \in s
  <2>1. Total(d, {}) = 0
    BY <1>2, TotalStep
  <2>. QED
    BY <1>2, <2>1, Picked
<1>5. Total(d, s \ {Pick(s)}) <= 0
  BY <1>1, <1>2, <1>4
<1>6. Total(d, s \ {Pick(s)}) \in Int /\ d[Pick(s)] \in Int /\ d[Pick(s)] <= 0
  BY <1>2, <1>4, FS_Subset, TotalInt
<1>. QED
  BY <1>2, <1>3, <1>4, <1>5, <1>6

(* What MapThenSumSet expands to for the deltas of the lines f           *)
FoldedDeltas(f, S) ==
    CHOOSE g : g = [s \in SUBSET S |-> IF s = {} THEN 0
                                       ELSE f[Pick(s)].delta + g[s \ {Pick(s)}]]

(* It is such a total *)
LEMMA SumIsTotal ==
    ASSUME NEW f, NEW S, IsFiniteSet(S)
    PROVE  FoldedDeltas(f, S)[S] = Total([i \in S |-> f[i].delta], S)
<1>. DEFINE d == [i \in S |-> f[i].delta]
            Same(h) == h = [s \in SUBSET S |-> IF s = {} THEN 0
                              ELSE f[Pick(s)].delta + h[s \ {Pick(s)}]]
<1>1. PICK g : Sums(g, d, S) /\ g[S] = Total(d, S)
  BY Totals
<1>2. \A s \in SUBSET S : s # {} => d[Pick(s)] = f[Pick(s)].delta
  BY Picked
<1>3. \A h : Sums(h, d, S) <=> Same(h)
  <2>. HIDE DEF d
  <2>. QED
    BY <1>2 DEF Sums
<1>4. FoldedDeltas(f, S) = CHOOSE h : Same(h)
  BY DEF FoldedDeltas
<1>. HIDE DEF d, Same
<1>5. Same(FoldedDeltas(f, S))
  BY <1>1, <1>3, <1>4
<1>6. FoldedDeltas(f, S)[S] = g[S]
  BY <1>1, <1>3, <1>5, SumsAgree
<1>. QED
  BY <1>1, <1>6 DEF d

-----------------------------------------------------------------------------
(* Online cards: the balance is what stands *)

Deltas(lines) == [i \in Standing(lines) |-> lines[i].delta]

(* OnlineBalance of one log: the issue stands, and everything else that     *)
(* stands is a deduction                                                    *)
Balanced(lines, knip) ==
    /\ 1 \in Standing(lines) /\ lines[1].reason = "issued" /\ lines[1].delta = Knipjes
    /\ \A i \in Standing(lines) : i # 1 => lines[i].delta <= 0
    /\ knip = Total(Deltas(lines), Standing(lines))

LEMMA StandingLines ==
    ASSUME NEW lines \in Seq(Line)
    PROVE  /\ IsFiniteSet(Standing(lines)) /\ Standing(lines) \subseteq DOMAIN lines
           /\ \A i \in Standing(lines) : lines[i].delta \in Int
           /\ \A i \in Standing(lines) : Deltas(lines)[i] = lines[i].delta
<1>1. Len(lines) \in Nat /\ DOMAIN lines = 1..Len(lines) /\ \A i \in DOMAIN lines : lines[i] \in Line
  BY LenProperties, ElementOfSeq
<1>2. Standing(lines) \subseteq 1..Len(lines) /\ IsFiniteSet(1..Len(lines))
  BY <1>1, FS_Interval DEF Standing
<1>3. \A i \in DOMAIN lines : lines[i].delta \in Int
  BY <1>1, LineFields, KnipjesAssumption
<1>. QED
  BY <1>1, <1>2, <1>3, FS_Subset DEF Deltas

LEMMA IssuedBalanced == Balanced(<<Issued>>, Knipjes)
<1>1. Issued \in Line /\ Issued.reason = "issued" /\ Issued.delta = Knipjes /\ Issued.reversedBy = Null
  BY IssuedType DEF Issued, Booking
<1>. HIDE DEF Issued
<1>2. Standing(<<Issued>>) = {1}
  BY <1>1 DEF Standing
<1>. PICK d : d = Deltas(<<Issued>>)
  OBVIOUS
<1>3. d[1] = Knipjes
  BY <1>1, <1>2 DEF Deltas
<1>. PICK E : E = {}
  OBVIOUS
<1>4. /\ IsFiniteSet(E) /\ 1 \notin E /\ E \cup {1} = {1}
      /\ \A y \in E \cup {1} : d[y] \in Int
  BY <1>3, KnipjesAssumption, FS_EmptySet
<1>5. Total(d, E \cup {1}) = d[1] + Total(d, E)
  BY <1>4, TotalWith
<1>6. Total(d, E) = 0
  BY <1>4, TotalStep
<1>7. Total(d, {1}) = Knipjes
  BY <1>3, <1>4, <1>5, <1>6, KnipjesAssumption
<1>. QED
  BY <1>1, <1>2, <1>7 DEF Balanced

LEMMA BookedBalanced ==
    ASSUME NEW lines \in Seq(Line), NEW knip, Balanced(lines, knip), NEW line \in Line,
           line.reason # "undo", line.reversedBy = Null, line.delta <= 0
    PROVE  Balanced(Append(lines, line), knip + line.delta)
<1>. DEFINE n == Len(lines)
            new == Append(lines, line)
<1>1. /\ n \in Nat /\ DOMAIN lines = 1..n /\ DOMAIN new = 1..(n + 1)
      /\ \A i \in 1..n : new[i] = lines[i]
      /\ new[n + 1] = line /\ new \in Seq(Line)
  BY AppendedLine
<1>. HIDE DEF new, n
<1>. PICK S : S = Standing(lines)
  OBVIOUS
<1>2. /\ IsFiniteSet(S) /\ S \subseteq 1..n
      /\ \A i \in S : Deltas(lines)[i] = lines[i].delta
  BY <1>1, StandingLines
<1>3. Standing(new) = S \cup {n + 1} /\ n + 1 \notin S
  BY <1>1, <1>2 DEF Standing
<1>. PICK d : d = Deltas(new)
  OBVIOUS
<1>4. /\ \A i \in S : d[i] = Deltas(lines)[i]
      /\ d[n + 1] = line.delta
      /\ \A i \in S \cup {n + 1} : d[i] \in Int
  BY <1>1, <1>2, <1>3, StandingLines DEF Deltas
<1>5. Total(d, S \cup {n + 1}) = d[n + 1] + Total(d, S)
  BY <1>2, <1>3, <1>4, TotalWith
<1>6. Total(d, S) = knip /\ Total(d, S) \in Int
  BY <1>2, <1>4, TotalAgrees, TotalInt DEF Balanced
<1>7. knip + line.delta = Total(d, S \cup {n + 1})
  BY <1>4, <1>5, <1>6
<1>8. \A i \in S \cup {n + 1} : i # 1 => new[i].delta <= 0
  BY <1>1, <1>2 DEF Balanced
<1>9. 1 \in S /\ new[1].reason = "issued" /\ new[1].delta = Knipjes
  BY <1>1, <1>2 DEF Balanced
<1>. QED
  BY <1>3, <1>7, <1>8, <1>9 DEF Balanced, new

LEMMA UndoneBalanced ==
    ASSUME NEW lines \in Seq(Line), NEW knip, Balanced(lines, knip), NEW i \in DOMAIN lines,
           Undoable(lines[i]), NEW meal \in Days \cup {Null}, NEW balance \in 0..Knipjes
    PROVE  Balanced(UndoneLog(lines, i, meal, balance), knip - lines[i].delta)
<1>. DEFINE n == Len(lines)
            new == UndoneLog(lines, i, meal, balance)
<1>1. Undone(lines, i, meal, new)
  BY UndoneColumns
<1>2. new \in Seq(Line)
  BY UndoneLogShape
<1>. HIDE DEF new
<1>3. /\ n \in Nat /\ DOMAIN lines = 1..n /\ DOMAIN new = 1..(n + 1)
      /\ \A j \in 1..n : /\ new[j].reason = lines[j].reason
                         /\ new[j].delta = lines[j].delta
                         /\ j # i => new[j].reversedBy = lines[j].reversedBy
      /\ new[i].reversedBy = n + 1
      /\ new[n + 1].reason = "undo"
  BY <1>1 DEF Undone
<1>. HIDE DEF n
<1>. PICK S : S = Standing(lines)
  OBVIOUS
<1>4. /\ IsFiniteSet(S) /\ S \subseteq 1..n
      /\ \A j \in S : lines[j].delta \in Int /\ Deltas(lines)[j] = lines[j].delta
  BY <1>3, StandingLines
<1>5. i \in S /\ i # 1 /\ Standing(new) = S \ {i}
  BY <1>3 DEF Standing, Undoable, Balanced, Null
<1>. PICK d : d = Deltas(lines)
  OBVIOUS
<1>6. Total(d, S) = d[i] + Total(d, S \ {i})
  BY <1>4, <1>5, TotalWithout
<1>7. IsFiniteSet(S \ {i}) /\ Total(d, S \ {i}) \in Int
  BY <1>4, FS_Subset, TotalInt
<1>8. \A j \in S \ {i} : Deltas(new)[j] = d[j]
  BY <1>3, <1>4, <1>5 DEF Deltas
<1>9. Total(Deltas(new), S \ {i}) = Total(d, S \ {i})
  BY <1>7, <1>8, TotalAgrees
<1>10. knip - lines[i].delta = Total(Deltas(new), Standing(new))
  BY <1>4, <1>5, <1>6, <1>7, <1>9 DEF Balanced
<1>11. /\ 1 \in S \ {i} /\ new[1].reason = "issued" /\ new[1].delta = Knipjes
       /\ \A j \in S \ {i} : j # 1 => new[j].delta <= 0
  BY <1>3, <1>4, <1>5 DEF Balanced
<1>12. Balanced(new, knip - lines[i].delta)
  BY <1>5, <1>10, <1>11 DEF Balanced
<1>. QED
  BY <1>12 DEF new

(* What is left of an issue after deductions has room for each of them     *)
LEMMA BalancedRoom ==
    ASSUME NEW lines \in Seq(Line), NEW knip \in Nat, Balanced(lines, knip),
           NEW i \in DOMAIN lines, Undoable(lines[i])
    PROVE  knip - lines[i].delta \in 0..Knipjes
<1>. PICK S : S = Standing(lines)
  OBVIOUS
<1>. PICK d : d = Deltas(lines)
  OBVIOUS
<1>1. /\ IsFiniteSet(S)
      /\ \A j \in S : d[j] = lines[j].delta /\ d[j] \in Int
      /\ i \in S /\ i # 1 /\ 1 \in S /\ d[1] = Knipjes
      /\ \A j \in S : j # 1 => d[j] <= 0
      /\ knip = Total(d, S)
  BY StandingLines DEF Standing, Undoable, Balanced
<1>. PICK U : U = S \ {1}
  OBVIOUS
<1>. PICK T : T = U \ {i}
  OBVIOUS
<1>2. /\ IsFiniteSet(U) /\ IsFiniteSet(T)
      /\ i \in U /\ \A j \in U : d[j] \in Int
  BY <1>1, FS_Subset
<1>3. Total(d, S) = d[1] + Total(d, U)
  BY <1>1, TotalWithout
<1>4. Total(d, U) = d[i] + Total(d, T)
  BY <1>2, TotalWithout
<1>5. Total(d, T) <= 0 /\ Total(d, T) \in Int
  BY <1>1, <1>2, TotalNotPositive, TotalInt
<1>6. knip - d[i] = Knipjes + Total(d, T)
  BY <1>1, <1>3, <1>4, <1>5, KnipjesAssumption
<1>7. d[i] \in Int /\ d[i] <= 0 /\ d[i] = lines[i].delta
  BY <1>1
<1>. QED
  BY <1>5, <1>6, <1>7, KnipjesAssumption

OnlineOK ==
    \A c \in DOMAIN cards : cards[c].source = "online" => Balanced(log[c], cards[c].knip)

(* A deduction is booked *)
LEMMA BookOnline ==
    ASSUME TypeOK, OnlineOK, NEW c \in DOMAIN cards, NEW line \in Line, Book(c, line),
           line.reason # "undo", line.reversedBy = Null,
           cards[c].source = "online" =>
              line.delta <= 0 /\ line.balance = cards[c].knip + line.delta
    PROVE  OnlineOK'
<1>1. /\ DOMAIN cards' = DOMAIN cards
      /\ cards'[c] = [cards[c] EXCEPT !.knip = line.balance]
      /\ cards'[c].knip = line.balance
      /\ \A d \in DOMAIN cards : d # c => cards'[d] = cards[d] /\ log'[d] = log[d]
      /\ log'[c] = Append(log[c], line)
      /\ cards[c] \in Card /\ log[c] \in Seq(Line)
  BY BookShape, RowTypes
<1>2. cards'[c].source = cards[c].source
  BY <1>1 DEF Card
<1>3. cards[c].source = "online" => Balanced(Append(log[c], line), cards[c].knip + line.delta)
  BY <1>1, BookedBalanced DEF OnlineOK
<1>4. cards'[c].source = "online" => Balanced(log'[c], cards'[c].knip)
  BY <1>1, <1>2, <1>3
<1>. QED
  BY <1>1, <1>4 DEF OnlineOK

LEMMA UseKnipjeOnline ==
    ASSUME TypeOK, OnlineOK, NEW c \in DOMAIN cards, UseKnipje(c)
    PROVE  OnlineOK'
<1>. DEFINE line == Booking("manual_knipje", -1, cards[c].knip - 1)
<1>1. /\ line \in Line /\ Book(c, line) /\ line.delta = -1 /\ line.balance = cards[c].knip - 1
      /\ line.reason # "undo" /\ line.reversedBy = Null
  BY UseKnipjeLine, BookingColumns DEF UseKnipje
<1>2. cards[c].knip - 1 = cards[c].knip + -1
  BY RowTypes
<1>. HIDE DEF line
<1>. QED
  BY <1>1, <1>2, BookOnline

LEMMA EstimateOnline ==
    ASSUME TypeOK, OnlineOK, NEW c \in DOMAIN cards, NEW value \in 0..Knipjes,
           SetPhysicalCardEstimate(c, value)
    PROVE  OnlineOK'
<1>. DEFINE line == Booking("estimate_adjust", value - cards[c].knip, value)
<1>1. /\ line \in Line /\ Book(c, line) /\ cards[c].source # "online"
      /\ line.reason # "undo" /\ line.reversedBy = Null
  BY EstimateLine, BookingColumns DEF SetPhysicalCardEstimate
<1>. HIDE DEF line
<1>. QED
  BY <1>1, BookOnline

LEMMA DeliverOnline ==
    ASSUME TypeOK, OnlineOK, NEW o \in DOMAIN orders, DeliverTostiOrder(o)
    PROVE  OnlineOK'
<1>1. ASSUME NEW c \in DOMAIN cards, DeliverFromCard(o, c) PROVE OnlineOK'
  <2>. DEFINE balance == BalanceAfterDelivery(c, orders[o].qty)
              line == [Booking("tosti_delivered", balance - cards[c].knip, balance)
                         EXCEPT !.order = o]
  <2>1. /\ line \in Line /\ Book(c, line) /\ line.delta = balance - cards[c].knip
        /\ line.balance = balance
        /\ line.reason # "undo" /\ line.reversedBy = Null
    BY <1>1, DeliveryLine, BookingColumns
  <2>. HIDE DEF line
  <2>2. cards[c].knip \in Int /\ orders[o].qty \in Nat
    BY RowTypes, KnipjesAssumption DEF TypeOK, Order
  <2>3. cards[c].source = "online" => balance = cards[c].knip - orders[o].qty
    BY DEF BalanceAfterDelivery
  <2>4. cards[c].source = "online" =>
           line.delta <= 0 /\ line.balance = cards[c].knip + line.delta
    BY <2>1, <2>2, <2>3
  <2>. QED
    BY <2>1, <2>4, BookOnline
<1>2. CASE UNCHANGED <<matroos, cards, lastCard, log, requests, lastOrder, meals>>
  BY <1>2 DEF OnlineOK
<1>. QED
  BY <1>1, <1>2, DeliveryCases

LEMMA MealOnline ==
    ASSUME TypeOK, OnlineOK, NEW day \in Days, NEW S \in SUBSET DOMAIN cards,
           RegisterAvondetenMealsForDate(day, S)
    PROVE  OnlineOK'
<1>1. /\ DOMAIN cards' = DOMAIN cards
      /\ \A d \in DOMAIN cards : d \notin S => cards'[d] = cards[d] /\ log'[d] = log[d]
  BY DEF RegisterAvondetenMealsForDate, TypeOK
<1>2. ASSUME NEW c \in S, cards'[c].source = "online"
      PROVE  Balanced(log'[c], cards'[c].knip)
  <2>. DEFINE line == [Booking("avondeten_meal", -1, cards[c].knip - 1) EXCEPT !.meal = day]
  <2>1. /\ line \in Line /\ line.delta = -1
        /\ cards'[c] = [cards[c] EXCEPT !.knip = @ - 1]
        /\ cards'[c].knip = cards[c].knip - 1
        /\ log'[c] = Append(log[c], line)
        /\ line.reason # "undo" /\ line.reversedBy = Null
    BY MealShape, BookingColumns
  <2>. HIDE DEF line
  <2>2. cards[c].source = "online" /\ log[c] \in Seq(Line) /\ cards[c].knip \in Int
    BY <1>2, <2>1, RowTypes, KnipjesAssumption DEF Card
  <2>3. Balanced(Append(log[c], line), cards[c].knip + line.delta)
    BY <2>1, <2>2, BookedBalanced DEF OnlineOK
  <2>4. cards[c].knip + line.delta = cards'[c].knip
    BY <2>1, <2>2
  <2>. QED
    BY <2>1, <2>3, <2>4
<1>. QED
  BY <1>1, <1>2 DEF OnlineOK

LEMMA UndoOnline ==
    ASSUME TypeOK, OnlineOK, NEW c \in DOMAIN cards, NEW i \in DOMAIN log[c],
           UndoCardTransaction(c, i)
    PROVE  OnlineOK'
<1>. PICK meal \in Days \cup {Null} : meal = log[c][i].meal
  BY UndoShape
<1>. PICK balance \in 0..Knipjes : balance = cards[c].knip - log[c][i].delta
  BY UndoShape
<1>1. /\ DOMAIN cards' = DOMAIN cards
      /\ cards'[c] = [cards[c] EXCEPT !.knip = balance]
      /\ cards'[c].knip = balance
      /\ log'[c] = UndoneLog(log[c], i, meal, balance)
      /\ \A d \in DOMAIN cards : d # c => cards'[d] = cards[d] /\ log'[d] = log[d]
      /\ Undoable(log[c][i])
      /\ cards[c] \in Card /\ log[c] \in Seq(Line)
  BY UndoShape, RowTypes DEF UndoCardTransaction
<1>2. cards'[c].source = cards[c].source
  BY <1>1 DEF Card
<1>3. cards[c].source = "online" =>
         Balanced(UndoneLog(log[c], i, meal, balance), cards[c].knip - log[c][i].delta)
  BY <1>1, UndoneBalanced DEF OnlineOK
<1>4. cards'[c].source = "online" => Balanced(log'[c], cards'[c].knip)
  BY <1>1, <1>2, <1>3
<1>. QED
  BY <1>1, <1>4 DEF OnlineOK

LEMMA IssueOnline ==
    ASSUME TypeOK, OnlineOK, NEW u \in Members, NEW k \in Kinds, NEW source \in Sources,
           NEW status, IssueCard(u, k, source, status)
    PROVE  OnlineOK'
<1>. PICK c \in Nat : c = lastCard + 1
  BY BoundsAssumption DEF TypeOK
<1>1. /\ c \notin DOMAIN cards /\ DOMAIN cards' = DOMAIN cards \cup {c}
      /\ \A d \in DOMAIN cards : cards'[d] = cards[d] /\ log'[d] = log[d]
      /\ cards'[c].knip = Knipjes /\ log'[c] = <<Issued>>
  <2>1. lastCard \in Nat /\ DOMAIN cards \subseteq 1..lastCard /\ DOMAIN log = DOMAIN cards
    BY BoundsAssumption DEF TypeOK
  <2>2. c \notin DOMAIN cards
    BY <2>1
  <2>. HIDE DEF Issued
  <2>. QED
    BY <2>1, <2>2 DEF IssueCard, With
<1>. QED
  BY <1>1, IssuedBalanced DEF OnlineOK

LEMMA WithdrawOnline ==
    ASSUME TypeOK, OnlineOK, NEW r \in DOMAIN requests, WithdrawRequest(r)
    PROVE  OnlineOK'
<1>1. /\ DOMAIN cards' \subseteq DOMAIN cards
      /\ \A d \in DOMAIN cards' : cards'[d] = cards[d] /\ log'[d] = log[d]
  BY DEF WithdrawRequest, Restrict, TypeOK
<1>. QED
  BY <1>1 DEF OnlineOK

LEMMA OnlineStep ==
    ASSUME TypeOK, OnlineOK, [Next]_vars
    PROVE  OnlineOK'
<1>1. CASE \E u \in Members, k \in Kinds : CreateCardRequest(u, k) \/ CreatePhysicalCardSale(u, k)
  BY <1>1, IssueOnline DEF CreateCardRequest, CreatePhysicalCardSale, Sources
<1>2. CASE \E r \in DOMAIN requests :
              AdminRejectCardRequest(r) \/ \E u \in Members : CancelCardRequestForUser(r, u)
  BY <1>2, WithdrawOnline DEF AdminRejectCardRequest, CancelCardRequestForUser
<1>3. CASE \/ \E r \in DOMAIN requests : FulfillCardRequest(r)
           \/ \E u \in Members, c \in DOMAIN cards \cup {Null}, q \in 1..Knipjes :
                 CreateTostiOrder(u, c, q)
           \/ \E o \in DOMAIN orders : CancelTostiOrder(o)
           \/ \E u \in Members, value \in BOOLEAN : AdminSetMatroosJeugd(u, value)
           \/ UNCHANGED vars
  <2>1. UNCHANGED <<cards, log>>
    BY <1>3 DEF FulfillCardRequest, CreateTostiOrder, InsertTostiOrder, CancelTostiOrder,
                AdminSetMatroosJeugd, vars
  <2>. QED
    BY <2>1 DEF OnlineOK
<1>. QED
  BY <1>1, <1>2, <1>3, UseKnipjeOnline, EstimateOnline, MealOnline, UndoOnline, DeliverOnline
  DEF Next, NextOnRows, NextOfMembers

LEMMA OnlineInvariant == Spec => [](TypeOK /\ OnlineOK)
<1>1. Init => TypeOK /\ OnlineOK
  BY InitType DEF Init, OnlineOK
<1>2. TypeOK /\ OnlineOK /\ [Next]_vars => (TypeOK /\ OnlineOK)'
  BY TypeStep, OnlineStep
<1>. QED
  BY <1>1, <1>2, PTL DEF Spec

(* What OnlineOK says of the balances *)
LEMMA LogsBalance ==
    ASSUME TypeOK, OnlineOK
    PROVE  OnlineBalance
<1>. SUFFICES ASSUME NEW c \in DOMAIN cards, cards[c].source = "online"
              PROVE  /\ cards[c].knip = MapThenSumSet(LAMBDA i : log[c][i].delta, Standing(log[c]))
                     /\ \A i \in DOMAIN log[c] : Undoable(log[c][i]) => UndoInRange(c, i)
  BY DEF OnlineBalance
<1>. PICK lines \in Seq(Line) : lines = log[c]
  BY RowTypes
<1>1. Balanced(lines, cards[c].knip) /\ cards[c].knip \in Nat
  BY RowTypes, KnipjesAssumption DEF OnlineOK
<1>2. cards[c].knip = MapThenSumSet(LAMBDA i : lines[i].delta, Standing(lines))
  <2>. PICK S : S = Standing(lines)
    OBVIOUS
  <2>1. IsFiniteSet(S)
    BY StandingLines
  <2>2. MapThenSumSet(LAMBDA i : lines[i].delta, S) = FoldedDeltas(lines, S)[S]
    BY DEF MapThenSumSet, MapThenFoldSet, FoldedDeltas, Pick
  <2>3. [i \in S |-> lines[i].delta] = Deltas(lines)
    BY DEF Deltas
  <2>4. cards[c].knip = Total([i \in S |-> lines[i].delta], S)
    BY <1>1, <2>3 DEF Balanced
  <2>5. FoldedDeltas(lines, S)[S] = Total([i \in S |-> lines[i].delta], S)
    BY <2>1, SumIsTotal
  <2>. QED
    BY <2>2, <2>4, <2>5
<1>3. ASSUME NEW i \in DOMAIN lines, Undoable(lines[i]) PROVE UndoInRange(c, i)
  BY <1>1, <1>3, BalancedRoom DEF UndoInRange, UndoBalance
<1>. QED
  BY <1>2, <1>3

(* An online card holds what was issued less every deduction that was not    *)
(* undone, whatever the order of deductions and undos, so that no undo of a  *)
(* deduction is ever refused there as out of range (UndoCardTransaction).    *)
THEOREM BalanceIsWhatStands == Spec => []OnlineBalance
  BY LogsBalance, OnlineInvariant, PTL
=============================================================================
