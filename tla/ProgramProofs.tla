----------------------------- MODULE ProgramProofs -----------------------------
(***************************************************************************)
(* The small programs: the queue of two lists is a first-in first-out      *)
(* list, for any elements and however long it gets; the dates are those of *)
(* the Gregorian calendar, from any year on; and Mini Redis executes the   *)
(* commands of its clients in order and once each, for any clients,        *)
(* requests and reads and any codec that loses no request, as the decoder  *)
(* of the program does not, however long and deep the requests are.        *)
(***************************************************************************)
EXTENDS FunctionalQueue, Calendar, MiniRedis, RespCodec, SequenceTheorems,
        WellFoundedInduction, TLAPS

-------------------------------------------------------------------------------
(* The queue.                                                              *)

Lists == [front : Seq(Elements), back : Seq(Elements)]

(* What norm keeps up, and what peek and dequeue rest on: an empty front    *)
(* list is that of an empty queue.                                          *)
FrontFirst == queue.front = <<>> => queue.back = <<>>

QueueInv == queue \in Lists /\ FrontFirst

-------------------------------------------------------------------------------
LEMMA ReverseOf ==
    ASSUME NEW s \in Seq(Elements)
    PROVE  /\ Reverse(s) \in Seq(Elements)
           /\ Len(Reverse(s)) = Len(s)
           /\ \A i \in 1 .. Len(s) : Reverse(s)[i] = s[Len(s) - i + 1]
           /\ s = <<>> => Reverse(s) = <<>>
           /\ Reverse(s) = <<>> => s = <<>>
<1>1. Len(s) \in Nat /\ \A i \in 1 .. Len(s) : Len(s) - i + 1 \in 1 .. Len(s) OBVIOUS
<1>2. \A i \in 1 .. Len(s) : s[Len(s) - i + 1] \in Elements BY <1>1, ElementOfSeq
<1>3. Reverse(s) \in Seq(Elements) /\ Len(Reverse(s)) = Len(s)
  BY <1>1, <1>2, IsASeq DEF Reverse
<1>4. \A i \in 1 .. Len(s) : Reverse(s)[i] = s[Len(s) - i + 1] BY <1>1 DEF Reverse
<1>5. s = <<>> <=> Len(s) = 0 BY EmptySeq
<1>6. Reverse(s) = <<>> <=> Len(Reverse(s)) = 0 BY <1>3, EmptySeq
<1> QED BY <1>3, <1>4, <1>5, <1>6

(* An element put before a list is behind the reversed list.               *)
LEMMA ReversePush ==
    ASSUME NEW s \in Seq(Elements), NEW x \in Elements
    PROVE  Reverse(<<x>> \o s) = Append(Reverse(s), x)
<1> DEFINE t == <<x>> \o s
           r == Append(Reverse(s), x)
<1>1. /\ t \in Seq(Elements) /\ Len(t) = Len(s) + 1 /\ t[1] = x /\ Len(s) \in Nat
      /\ \A i \in 1 .. Len(s) : t[i + 1] = s[i]
  OBVIOUS
<1> HIDE DEF t
<1>2. /\ Reverse(t) \in Seq(Elements) /\ Len(Reverse(t)) = Len(s) + 1
      /\ \A i \in 1 .. (Len(s) + 1) : Reverse(t)[i] = t[Len(s) + 1 - i + 1]
  BY <1>1, ReverseOf
<1>3. /\ r \in Seq(Elements) /\ Len(r) = Len(s) + 1 /\ r[Len(s) + 1] = x
      /\ \A i \in 1 .. Len(s) : r[i] = s[Len(s) - i + 1]
  <2>1. Reverse(s) \in Seq(Elements) /\ Len(Reverse(s)) = Len(s) BY ReverseOf
  <2>2. r \in Seq(Elements) /\ Len(r) = Len(s) + 1 /\ r[Len(s) + 1] = x BY <2>1, <1>1
  <2>3. \A i \in 1 .. Len(s) : r[i] = Reverse(s)[i] BY <2>1, <1>1
  <2> QED BY <2>2, <2>3, ReverseOf
<1> HIDE DEF r
<1>4. ASSUME NEW i \in 1 .. (Len(s) + 1) PROVE Reverse(t)[i] = r[i]
  <2>1. CASE i = Len(s) + 1 BY <1>1, <1>2, <1>3, <2>1
  <2>2. CASE i # Len(s) + 1
    <3>1. i \in 1 .. Len(s) /\ Len(s) - i + 1 \in 1 .. Len(s) BY <1>1, <2>2
    <3>2. Len(s) + 1 - i + 1 = (Len(s) - i + 1) + 1 BY <1>1
    <3>3. Reverse(t)[i] = t[(Len(s) - i + 1) + 1] BY <1>2, <3>1, <3>2
    <3> QED BY <1>1, <1>3, <3>1, <3>3
  <2> QED BY <2>1, <2>2
<1>5. Reverse(t) = r BY <1>2, <1>3, <1>4, SeqEqual
<1> QED BY <1>5 DEF t, r

LEMMA ExceptOf ==
    ASSUME NEW q \in Lists, NEW l \in Seq(Elements)
    PROVE  /\ [q EXCEPT !.front = l] = [front |-> l, back |-> q.back]
           /\ [q EXCEPT !.back = l] = [front |-> q.front, back |-> l]
<1>1. PICK f \in Seq(Elements), b \in Seq(Elements) : q = [front |-> f, back |-> b]
  BY DEF Lists
<1> QED BY <1>1

Contents(q) == q.front \o Reverse(q.back)

(* norm changes the lists and not what they hold.                           *)
LEMMA NormKeeps ==
    ASSUME NEW q \in Lists
    PROVE  /\ norm(q) \in Lists
           /\ norm(q).front = <<>> => norm(q).back = <<>>
           /\ Contents(norm(q)) = Contents(q)
<1>1. /\ q.front \in Seq(Elements) /\ q.back \in Seq(Elements)
      /\ Reverse(q.back) \in Seq(Elements) /\ <<>> \in Seq(Elements)
  BY ReverseOf DEF Lists
<1>2. CASE q.front = <<>>
  <2>1. norm(q) = [front |-> Reverse(q.back), back |-> <<>>] BY <1>2 DEF norm
  <2>2. Reverse(<<>>) = <<>> BY <1>1, ReverseOf
  <2>3. Contents(norm(q)) = Reverse(q.back) \o <<>>
    <3>1. norm(q).front = Reverse(q.back) /\ norm(q).back = <<>> BY <2>1
    <3> QED BY <2>2, <3>1 DEF Contents
  <2>4. Contents(q) = <<>> \o Reverse(q.back) BY <1>2 DEF Contents
  <2>5. Contents(norm(q)) = Contents(q) BY <1>1, <2>3, <2>4, ConcatEmptySeq
  <2> QED BY <1>1, <2>1, <2>5 DEF Lists
<1>3. CASE q.front # <<>>
  BY <1>3 DEF norm
<1> QED BY <1>2, <1>3

LEMMA QueueInvInit == QueueInit => QueueInv
  BY EmptySeq DEF QueueInit, QueueInv, Lists, FrontFirst

LEMMA InitIsInit == QueueInit => List!Init
<1> SUFFICES ASSUME QueueInit PROVE List!Init OBVIOUS
<1>1. <<>> \in Seq(Elements) BY EmptySeq
<1>2. Reverse(<<>>) = <<>> BY <1>1, ReverseOf
<1>3. Held = <<>> BY <1>1, <1>2, ConcatEmptySeq DEF QueueInit, Held
<1> QED BY <1>3 DEF QueueInit, List!Init

LEMMA ConcatAppend ==
    ASSUME NEW a \in Seq(Elements), NEW b \in Seq(Elements), NEW x \in Elements
    PROVE  a \o Append(b, x) = Append(a \o b, x)
<1>1. <<x>> \in Seq(Elements) /\ a \o b \in Seq(Elements) BY ConcatProperties
<1>2. Append(b, x) = b \o <<x>> /\ Append(a \o b, x) = (a \o b) \o <<x>>
  BY <1>1, AppendIsConcat
<1>3. (a \o b) \o <<x>> = a \o (b \o <<x>>) BY <1>1, ConcatAssociative
<1> QED BY <1>2, <1>3

(* Each operation keeps the invariant and is that of the list.              *)
LEMMA StepIsStep ==
    QueueInv /\ [QueueNext]_queuevars => QueueInv' /\ [List!Next]_<<Held, answer>>
<1> SUFFICES ASSUME QueueInv, [QueueNext]_queuevars
             PROVE  QueueInv' /\ [List!Next]_<<Held, answer>>
  OBVIOUS
<1>0. /\ queue = [front |-> queue.front, back |-> queue.back]
      /\ queue.front \in Seq(Elements) /\ queue.back \in Seq(Elements)
      /\ Reverse(queue.back) \in Seq(Elements) /\ Held \in Seq(Elements)
      /\ Held = Contents(queue) /\ Held' = Contents(queue')
  <2>1. queue \in Lists BY DEF QueueInv
  <2>2. queue.front \in Seq(Elements) /\ queue.back \in Seq(Elements) BY <2>1 DEF Lists
  <2>3. Reverse(queue.back) \in Seq(Elements) BY <2>2, ReverseOf
  <2>4. Held \in Seq(Elements) BY <2>2, <2>3, ConcatProperties DEF Held
  <2> QED BY <2>1, <2>2, <2>3, <2>4 DEF Held, Contents, Lists
<1>1. ASSUME NEW x \in Elements, enqueue(x) PROVE QueueInv' /\ List!Enqueue(x)
  <2> DEFINE q == [queue EXCEPT !.back = <<x>> \o @]
  <2>1. <<x>> \o queue.back \in Seq(Elements) BY <1>0
  <2>2. q = [front |-> queue.front, back |-> <<x>> \o queue.back]
    BY <2>1, ExceptOf DEF QueueInv
  <2>3. q \in Lists BY <1>0, <2>2, <2>1 DEF Lists
  <2>4. Contents(q) = queue.front \o Append(Reverse(queue.back), x)
    BY <1>0, <2>2, ReversePush DEF Contents
  <2>5. Contents(q) = Append(Held, x)
    <3>1. queue.front \o Append(Reverse(queue.back), x) = Append(queue.front \o Reverse(queue.back), x)
      BY <1>0, ConcatAppend
    <3> QED BY <2>4, <3>1 DEF Held
  <2>6. queue' = norm(q) /\ answer' = <<>> BY <1>1 DEF enqueue
  <2> HIDE DEF q
  <2>7. QueueInv' BY <2>3, <2>6, NormKeeps DEF QueueInv, FrontFirst
  <2>8. Held' = Append(Held, x) BY <1>0, <2>3, <2>5, <2>6, NormKeeps
  <2> QED BY <2>6, <2>7, <2>8 DEF List!Enqueue
<1>2. queue.front = <<>> => Held = <<>>
  <2>1. ASSUME queue.front = <<>> PROVE Reverse(queue.back) = <<>>
    BY <1>0, <2>1, ReverseOf DEF QueueInv, FrontFirst
  <2> QED BY <2>1, <1>0, ConcatEmptySeq DEF Contents
<1>3. queue.front # <<>> =>
        /\ Held # <<>> /\ Head(Held) = Head(queue.front)
        /\ Tail(queue.front) \in Seq(Elements)
        /\ Tail(Held) = Tail(queue.front) \o Reverse(queue.back)
  <2> SUFFICES ASSUME queue.front # <<>>
               PROVE  /\ Held # <<>> /\ Head(Held) = Head(queue.front)
                      /\ Tail(queue.front) \in Seq(Elements)
                      /\ Tail(Held) = Tail(queue.front) \o Reverse(queue.back)
    OBVIOUS
  <2> DEFINE f == queue.front
             r == Reverse(queue.back)
  <2>1. f \in Seq(Elements) /\ r \in Seq(Elements) /\ f # <<>> /\ Held = f \o r
    BY <1>0 DEF Contents
  <2> HIDE DEF f, r
  <2>2. /\ Len(f) \in Nat /\ Len(f) >= 1 /\ Len(r) \in Nat /\ Tail(f) \in Seq(Elements)
        /\ Len(Held) = Len(f) + Len(r) /\ Len(Tail(f)) = Len(f) - 1
        /\ Head(f) = f[1] /\ Head(Held) = Held[1]
    BY <1>0, <2>1
  <2>3. Held # <<>> /\ Head(Held) = Head(f) BY <1>0, <2>1, <2>2
  <2>4. Tail(Held) \in Seq(Elements) /\ Len(Tail(Held)) = Len(Held) - 1
    BY <1>0, <2>3
  <2>5. Tail(f) \o r \in Seq(Elements) /\ Len(Tail(f) \o r) = Len(Held) - 1 BY <2>1, <2>2
  <2>6. ASSUME NEW i \in 1 .. Len(Tail(Held)) PROVE Tail(Held)[i] = (Tail(f) \o r)[i]
    <3>1. Tail(Held)[i] = Held[i + 1] BY <1>0, <2>2, <2>3, <2>4
    <3>2. CASE i <= Len(f) - 1 BY <2>1, <2>2, <2>4, <3>1, <3>2
    <3>3. CASE ~(i <= Len(f) - 1) BY <2>1, <2>2, <2>4, <3>1, <3>3
    <3> QED BY <3>2, <3>3
  <2>7. Tail(Held) = Tail(f) \o r BY <2>4, <2>5, <2>6, SeqEqual
  <2> QED BY <2>2, <2>3, <2>7 DEF f, r
<1>4. ASSUME peek PROVE QueueInv' /\ List!Peek
  <2>1. UNCHANGED queue BY <1>4 DEF peek
  <2>2. QueueInv' BY <2>1 DEF QueueInv, FrontFirst
  <2>3. Held' = Held BY <2>1 DEF Held
  <2>4. CASE queue.front = <<>> BY <1>2, <1>4, <2>2, <2>3, <2>4 DEF peek, List!Peek, List!First
  <2>5. CASE queue.front # <<>> BY <1>3, <1>4, <2>2, <2>3, <2>5 DEF peek, List!Peek, List!First
  <2> QED BY <2>4, <2>5
<1>5. ASSUME dequeue PROVE QueueInv' /\ List!Dequeue
  <2>1. CASE queue.front = <<>>
    <3>1. UNCHANGED queue /\ answer' = <<>> BY <1>5, <2>1 DEF dequeue
    <3>2. QueueInv' BY <3>1 DEF QueueInv, FrontFirst
    <3>3. Held' = Held BY <3>1 DEF Held
    <3> QED BY <1>2, <2>1, <3>1, <3>2, <3>3 DEF List!Dequeue, List!First
  <2>2. CASE queue.front # <<>>
    <3> DEFINE q == [queue EXCEPT !.front = Tail(@)]
    <3>1. q = [front |-> Tail(queue.front), back |-> queue.back]
      BY <1>3, <2>2, ExceptOf DEF QueueInv
    <3>2. q \in Lists BY <1>0, <1>3, <2>2, <3>1 DEF Lists
    <3>3. Contents(q) = Tail(Held) BY <1>3, <2>2, <3>1 DEF Contents
    <3>4. queue' = norm(q) /\ answer' = <<Head(queue.front)>> BY <1>5, <2>2 DEF dequeue
    <3> HIDE DEF q
    <3>5. QueueInv' BY <3>2, <3>4, NormKeeps DEF QueueInv, FrontFirst
    <3>6. Held' = Tail(Held) BY <1>0, <3>2, <3>3, <3>4, NormKeeps
    <3> QED BY <1>3, <2>2, <3>4, <3>5, <3>6 DEF List!Dequeue, List!First
  <2> QED BY <2>1, <2>2
<1>6. ASSUME UNCHANGED queuevars PROVE QueueInv' /\ UNCHANGED <<Held, answer>>
  BY <1>6 DEF queuevars, QueueInv, FrontFirst, Held
<1> QED BY <1>1, <1>4, <1>5, <1>6 DEF QueueNext, List!Next

(* The pair of lists of module_exercise.ml implements the first-in          *)
(* first-out list: nothing is lost, repeated or overtaken.                  *)
THEOREM QueueIsFifo == QueueSpec => ImplementsFifo
<1>1. QueueInit => QueueInv BY QueueInvInit
<1>2. QueueInit => List!Init BY InitIsInit
<1>3. QueueInv /\ [QueueNext]_queuevars => QueueInv' /\ [List!Next]_<<Held, answer>>
  BY StepIsStep
<1> QED BY <1>1, <1>2, <1>3, PTL DEF QueueSpec, ImplementsFifo, List!Spec

-------------------------------------------------------------------------------
(* The dates.                                                              *)

(* How far the day of a date is from the first of January.                  *)
February(year) == IF is_leap_year(year) THEN 29 ELSE 28

DaysBefore(month, year) ==
    CASE month = 1 -> 0
      [] month = 2 -> 31
      [] month = 3 -> 31 + February(year)
      [] month = 4 -> 62 + February(year)
      [] month = 5 -> 92 + February(year)
      [] month = 6 -> 123 + February(year)
      [] month = 7 -> 153 + February(year)
      [] month = 8 -> 184 + February(year)
      [] month = 9 -> 215 + February(year)
      [] month = 10 -> 245 + February(year)
      [] month = 11 -> 276 + February(year)
      [] month = 12 -> 306 + February(year)

DayOfYear(d) == DaysBefore(d.month, d.year) + d.day

Dates == [month : 1 .. 12, day : Int, year : Nat \ {0}]

(* The day count is that of the date, and the date a day of some month.     *)
DaysCounted ==
    first # 0 =>
        /\ first \in Nat \ {0}
        /\ today \in Dates /\ is_valid_date(today)
        /\ today.year >= first
        /\ elapsed = NewYear(today.year) - NewYear(first) + DayOfYear(today) - 1

CalendarInv == elapsed \in Int /\ (first = 0 => elapsed = 0) /\ DaysCounted

(* A multiple is passed in just the years that are one.                     *)
LEMMA Multiples ==
    ASSUME NEW y \in Nat \ {0}
    PROVE  /\ y \div 4 - (y - 1) \div 4 = IF y % 4 = 0 THEN 1 ELSE 0
           /\ y \div 100 - (y - 1) \div 100 = IF y % 100 = 0 THEN 1 ELSE 0
           /\ y \div 400 - (y - 1) \div 400 = IF y % 400 = 0 THEN 1 ELSE 0
           /\ y % 100 = 0 => y % 4 = 0
           /\ y % 400 = 0 => y % 100 = 0
<1>1. y \div 4 - (y - 1) \div 4 = IF y % 4 = 0 THEN 1 ELSE 0 OBVIOUS
<1>2. y \div 100 - (y - 1) \div 100 = IF y % 100 = 0 THEN 1 ELSE 0 OBVIOUS
<1>3. y \div 400 - (y - 1) \div 400 = IF y % 400 = 0 THEN 1 ELSE 0 OBVIOUS
<1>4. y % 100 = 0 => y % 4 = 0 OBVIOUS
<1>5. y % 400 = 0 => y % 100 = 0 OBVIOUS
<1> QED BY <1>1, <1>2, <1>3, <1>4, <1>5

(* A year has as many days as the Gregorian rule for years gives it.        *)
LEMMA YearLength ==
    ASSUME NEW y \in Nat \ {0}
    PROVE  /\ NewYear(y + 1) - NewYear(y) = DaysBefore(12, y) + 31
           /\ NewYear(y) \in Int /\ NewYear(y + 1) \in Int
<1> DEFINE a == y \div 4
           b == y \div 100
           c == y \div 400
           p == (y - 1) \div 4
           q == (y - 1) \div 100
           r == (y - 1) \div 400
<1>1. a \in Int /\ b \in Int /\ c \in Int /\ p \in Int /\ q \in Int /\ r \in Int OBVIOUS
<1>2. NewYear(y) = 365 * (y - 1) + p - q + r BY DEF NewYear
<1>3. NewYear(y + 1) = 365 * y + a - b + c
  <2>1. (y + 1) - 1 = y OBVIOUS
  <2> QED BY <2>1 DEF NewYear
<1>4. (a - p) - (b - q) + (c - r) = IF is_leap_year(y) THEN 1 ELSE 0
  BY Multiples DEF is_leap_year
<1>5. DaysBefore(12, y) + 31 = 365 + (IF is_leap_year(y) THEN 1 ELSE 0)
  BY DEF DaysBefore, February
<1> HIDE DEF a, b, c, p, q, r
<1>6. 365 * y = 365 * (y - 1) + 365 OBVIOUS
<1>7. NewYear(y + 1) - NewYear(y) = 365 + ((a - p) - (b - q) + (c - r))
  BY <1>1, <1>2, <1>3, <1>6
<1>8. NewYear(y) \in Int /\ NewYear(y + 1) \in Int BY <1>1, <1>2, <1>3
<1> QED BY <1>4, <1>5, <1>7, <1>8

(* The months follow each other without a gap.                              *)
LEMMA MonthEnds ==
    ASSUME NEW m \in 1 .. 12, NEW y \in Nat \ {0}
    PROVE  /\ DaysBefore(m, y) \in Nat /\ days_in_month(m, y) \in 28 .. 31
           /\ m # 12 => DaysBefore(m + 1, y) = DaysBefore(m, y) + days_in_month(m, y)
           /\ m = 12 => days_in_month(m, y) = 31
<1>1. m \in {1, 2, 3, 4, 5, 6, 7, 8, 9, 10, 11, 12} OBVIOUS
<1>2. February(y) \in {28, 29} BY DEF February
<1>3. days_in_month(m, y) \in 28 .. 31 /\ (m = 12 => days_in_month(m, y) = 31)
  BY <1>1 DEF days_in_month
<1>4. DaysBefore(m, y) \in Nat BY <1>1, <1>2 DEF DaysBefore
<1>5. m # 12 => DaysBefore(m + 1, y) = DaysBefore(m, y) + days_in_month(m, y)
  <2>1. CASE m = 1 BY <2>1 DEF DaysBefore, days_in_month
  <2>2. CASE m = 2 BY <1>2, <2>2 DEF DaysBefore, days_in_month, February
  <2>3. CASE m = 3 BY <1>2, <2>3 DEF DaysBefore, days_in_month
  <2>4. CASE m = 4 BY <1>2, <2>4 DEF DaysBefore, days_in_month
  <2>5. CASE m = 5 BY <1>2, <2>5 DEF DaysBefore, days_in_month
  <2>6. CASE m = 6 BY <1>2, <2>6 DEF DaysBefore, days_in_month
  <2>7. CASE m = 7 BY <1>2, <2>7 DEF DaysBefore, days_in_month
  <2>8. CASE m = 8 BY <1>2, <2>8 DEF DaysBefore, days_in_month
  <2>9. CASE m = 9 BY <1>2, <2>9 DEF DaysBefore, days_in_month
  <2>10. CASE m = 10 BY <1>2, <2>10 DEF DaysBefore, days_in_month
  <2>11. CASE m = 11 BY <1>2, <2>11 DEF DaysBefore, days_in_month
  <2> QED BY <1>1, <2>1, <2>2, <2>3, <2>4, <2>5, <2>6, <2>7, <2>8, <2>9, <2>10, <2>11
<1> QED BY <1>3, <1>4, <1>5

(* The next day is one day further, and comes later.                        *)
LEMMA DayByDay ==
    ASSUME NEW d \in Dates, is_valid_date(d)
    PROVE  /\ NextDay(d) \in Dates /\ is_valid_date(NextDay(d))
           /\ NextDay(d).year >= d.year
           /\ NewYear(NextDay(d).year) + DayOfYear(NextDay(d)) = NewYear(d.year) + DayOfYear(d) + 1
           /\ is_before(d, NextDay(d)) /\ ~is_before(NextDay(d), d)
<1>1. PICK m \in 1 .. 12, n \in Int, y \in Nat \ {0} : d = [month |-> m, day |-> n, year |-> y]
  BY DEF Dates
<1> DEFINE last == days_in_month(m, y)
<1>2. n >= 1 /\ n <= last BY <1>1 DEF is_valid_date
<1>3. /\ last \in 28 .. 31 /\ DaysBefore(m, y) \in Nat
      /\ m # 12 => DaysBefore(m + 1, y) = DaysBefore(m, y) + last
      /\ m = 12 => last = 31
  BY MonthEnds
<1>4. NewYear(y) \in Int /\ NewYear(y + 1) \in Int
      /\ NewYear(y + 1) - NewYear(y) = DaysBefore(12, y) + 31
  BY YearLength
<1> HIDE DEF last
<1>5. NewYear(d.year) + DayOfYear(d) = NewYear(y) + DaysBefore(m, y) + n
  <2>1. d.year = y /\ DayOfYear(d) = DaysBefore(m, y) + n BY <1>1 DEF DayOfYear
  <2> QED BY <1>3, <1>4, <2>1
<1>6. CASE n < last
  <2> DEFINE e == [month |-> m, day |-> n + 1, year |-> y]
  <2>1. is_valid_date(e) BY <1>2, <1>3, <1>6 DEF is_valid_date, last
  <2>2. NextDay(d) = e
    <3>1. [d EXCEPT !.day = @ + 1] = e BY <1>1
    <3> QED BY <2>1, <3>1 DEF NextDay
  <2>3. e \in Dates BY DEF Dates
  <2>4. NewYear(e.year) + DayOfYear(e) = NewYear(y) + DaysBefore(m, y) + n + 1
    BY <1>3, <1>4 DEF DayOfYear
  <2>5. is_before(d, e) /\ ~is_before(e, d) BY <1>1 DEF is_before
  <2>6. e.year >= d.year BY <1>1
  <2> QED BY <1>5, <2>1, <2>2, <2>3, <2>4, <2>5, <2>6
<1>7. CASE n = last /\ m # 12
  <2> DEFINE t == [month |-> m, day |-> n + 1, year |-> y]
             e == [month |-> m + 1, day |-> 1, year |-> y]
  <2>1. ~is_valid_date(t) BY <1>3, <1>7 DEF is_valid_date, last
  <2>2. m + 1 \in 1 .. 12 BY <1>7
  <2>3. is_valid_date(e)
    <3>1. days_in_month(m + 1, y) \in 28 .. 31 BY <2>2, MonthEnds
    <3> QED BY <2>2, <3>1 DEF is_valid_date
  <2>4. NextDay(d) = e
    <3>1. [d EXCEPT !.day = @ + 1] = t BY <1>1
    <3>2. Date(d.month + 1, 1, d.year) = e BY <1>1 DEF Date
    <3> QED BY <2>1, <2>3, <3>1, <3>2 DEF NextDay
  <2>5. e \in Dates BY <2>2 DEF Dates
  <2>6. NewYear(e.year) + DayOfYear(e) = NewYear(y) + DaysBefore(m, y) + n + 1
    BY <1>3, <1>4, <1>7 DEF DayOfYear
  <2>7. is_before(d, e) /\ ~is_before(e, d) BY <1>1 DEF is_before
  <2>8. e.year >= d.year BY <1>1
  <2> QED BY <1>5, <2>3, <2>4, <2>5, <2>6, <2>7, <2>8
<1>8. CASE n = last /\ m = 12
  <2> DEFINE t == [month |-> m, day |-> n + 1, year |-> y]
             x == [month |-> m + 1, day |-> 1, year |-> y]
             e == [month |-> 1, day |-> 1, year |-> y + 1]
  <2>1. ~is_valid_date(t) BY <1>3, <1>8 DEF is_valid_date, last
  <2>2. ~is_valid_date(x) BY <1>8 DEF is_valid_date
  <2>3. NextDay(d) = e
    <3>1. [d EXCEPT !.day = @ + 1] = t BY <1>1
    <3>2. Date(d.month + 1, 1, d.year) = x /\ Date(1, 1, d.year + 1) = e BY <1>1 DEF Date
    <3> QED BY <2>1, <2>2, <3>1, <3>2 DEF NextDay
  <2>4. e \in Dates /\ is_valid_date(e) BY DEF Dates, is_valid_date, days_in_month
  <2>5. DayOfYear(e) = 1 BY DEF DayOfYear, DaysBefore
  <2>6. NewYear(e.year) + DayOfYear(e) = NewYear(y) + DaysBefore(m, y) + n + 1
    BY <1>3, <1>4, <1>8, <2>5
  <2>7. is_before(d, e) /\ ~is_before(e, d) BY <1>1 DEF is_before
  <2>8. e.year >= d.year BY <1>1
  <2> QED BY <1>5, <2>3, <2>4, <2>6, <2>7, <2>8
<1> QED BY <1>2, <1>3, <1>6, <1>7, <1>8

LEMMA CalendarInvInit == CalendarInit => CalendarInv
  BY DEF CalendarInit, CalendarInv, DaysCounted

(* The walk keeps the count, and takes each day after the one before it.    *)
LEMMA CalendarInvNext ==
    CalendarInv /\ [CalendarNext]_calendarvars
       => /\ CalendarInv'
          /\ first # 0 =>
                \/ UNCHANGED calendarvars
                \/ /\ is_before(today, today') /\ ~is_before(today', today)
                   /\ is_before(Date(1, 1, first), today')
<1> SUFFICES ASSUME CalendarInv, [CalendarNext]_calendarvars
             PROVE  /\ CalendarInv'
                    /\ first # 0 =>
                          \/ UNCHANGED calendarvars
                          \/ /\ is_before(today, today') /\ ~is_before(today', today)
                             /\ is_before(Date(1, 1, first), today')
  OBVIOUS
<1>1. ASSUME NEW year \in FirstYears, Begin(year)
      PROVE  CalendarInv' /\ first = 0
  <2>1. year \in Nat \ {0} BY CalendarAssumption
  <2>2. first = 0 /\ first' = year /\ today' = Date(1, 1, year) /\ elapsed' = 0
    BY <1>1 DEF Begin, CalendarInv
  <2>3. today' \in Dates /\ is_valid_date(today') /\ today'.year = year
    BY <2>1, <2>2 DEF Date, Dates, is_valid_date, days_in_month
  <2>4. DayOfYear(today') = 1 BY <2>2 DEF DayOfYear, DaysBefore, Date
  <2>5. NewYear(year) \in Int BY <2>1, YearLength
  <2> QED BY <2>1, <2>2, <2>3, <2>4, <2>5 DEF CalendarInv, DaysCounted
<1>2. ASSUME Tomorrow
      PROVE  /\ CalendarInv'
             /\ is_before(today, today') /\ ~is_before(today', today)
             /\ is_before(Date(1, 1, first), today')
  <2>1. /\ first # 0 /\ today' = NextDay(today) /\ elapsed' = elapsed + 1 /\ first' = first
    BY <1>2 DEF Tomorrow
  <2>2. /\ first \in Nat \ {0} /\ today \in Dates /\ is_valid_date(today)
        /\ today.year >= first /\ elapsed \in Int
        /\ elapsed = NewYear(today.year) - NewYear(first) + DayOfYear(today) - 1
    BY <2>1 DEF CalendarInv, DaysCounted
  <2>3. /\ today' \in Dates /\ is_valid_date(today') /\ today'.year >= today.year
        /\ NewYear(today'.year) + DayOfYear(today') = NewYear(today.year) + DayOfYear(today) + 1
        /\ is_before(today, today') /\ ~is_before(today', today)
    BY <2>1, <2>2, DayByDay
  <2>4. /\ NewYear(today.year) \in Int /\ NewYear(today'.year) \in Int /\ NewYear(first) \in Int
        /\ today.year \in Nat /\ today'.year \in Nat
    BY <2>2, <2>3, YearLength DEF Dates
  <2>5. DayOfYear(today) \in Int /\ DayOfYear(today') \in Int
    <3>1. ASSUME NEW d \in Dates PROVE DayOfYear(d) \in Int
      <4>1. d.month \in 1 .. 12 /\ d.day \in Int /\ d.year \in Nat \ {0} BY DEF Dates
      <4>2. DaysBefore(d.month, d.year) \in Nat BY <4>1, MonthEnds
      <4> QED BY <4>1, <4>2 DEF DayOfYear
    <3> QED BY <2>2, <2>3, <3>1
  <2>6. elapsed' = NewYear(today'.year) - NewYear(first) + DayOfYear(today') - 1
    BY <2>5, <2>1, <2>2, <2>3, <2>4
  <2>7. today'.year >= first BY <2>2, <2>3, <2>4
  <2>8. CalendarInv' BY <2>1, <2>2, <2>3, <2>6, <2>7 DEF CalendarInv, DaysCounted
  <2>9. is_before(Date(1, 1, first), today')
    <3>1. today.month >= 1 /\ today.day >= 1 /\ today.month \in Int /\ today.day \in Int
          /\ today'.month \in Int /\ today'.day \in Int
      BY <2>2, <2>3 DEF Dates, is_valid_date
    <3>2. PICK d : d = Date(1, 1, first) OBVIOUS
    <3>3. d.month = 1 /\ d.day = 1 /\ d.year = first BY <3>2 DEF Date
    <3>4. CASE today'.year > first BY <2>2, <2>4, <3>2, <3>3, <3>4 DEF is_before
    <3>5. CASE today'.year = first
      <4>1. today.year = first
        <5>1. today.year >= first BY <2>2
        <5>2. first >= today.year BY <2>3, <3>5
        <5>3. first \in Int /\ today.year \in Int BY <2>2, <2>4
        <5> QED BY <5>1, <5>2, <5>3
      <4>2. \/ today.month < today'.month
            \/ today.month = today'.month /\ today.day < today'.day
        BY <2>2, <2>3, <2>4, <3>5, <4>1 DEF is_before
      <4> QED BY <3>1, <3>2, <3>3, <3>5, <4>2 DEF is_before
    <3> QED BY <2>2, <2>4, <2>7, <3>4, <3>5
  <2> QED BY <2>3, <2>8, <2>9
<1>3. CASE UNCHANGED calendarvars
  BY <1>3 DEF calendarvars, CalendarInv, DaysCounted
<1> QED BY <1>1, <1>2, <1>3 DEF CalendarNext

(* From the first of January of any year on, however far: a new year begins *)
(* after just as many days as the Gregorian rule for years says (the months *)
(* and leap years of date.ml leave no date out and let none too many in).   *)
THEOREM YearsStayWhole == CalendarSpec => []YearsAreWhole
<1>1. CalendarInv => YearsAreWhole
  <2> SUFFICES ASSUME CalendarInv, first # 0, today.month = 1, today.day = 1
               PROVE  elapsed = NewYear(today.year) - NewYear(first)
    BY DEF YearsAreWhole
  <2>1. DayOfYear(today) = 1 BY DEF DayOfYear, DaysBefore
  <2>2. NewYear(today.year) \in Int /\ NewYear(first) \in Int
    BY YearLength DEF CalendarInv, DaysCounted, Dates
  <2> QED BY <2>1, <2>2 DEF CalendarInv, DaysCounted
<1> QED BY <1>1, CalendarInvInit, CalendarInvNext, PTL DEF CalendarSpec

(* Each day comes before the next one and after the first, and not the      *)
(* other way round, over the ends of months and years (is_before).          *)
THEOREM DaysAreOrdered == CalendarSpec => OrderOfDays
<1>1. CalendarInv /\ [CalendarNext]_calendarvars
         => [first # 0 =>
               /\ is_before(today, today') /\ ~is_before(today', today)
               /\ is_before(Date(1, 1, first), today')]_calendarvars
  BY CalendarInvNext
<1> QED BY <1>1, CalendarInvInit, CalendarInvNext, PTL DEF CalendarSpec, OrderOfDays

-------------------------------------------------------------------------------
(* Mini Redis.                                                             *)

Bytes == Seq(Byte)

-------------------------------------------------------------------------------
Reassociates(a, b, d) == (a \o b) \o d = a \o (b \o d)

LEMMA Associative ==
    ASSUME NEW a \in Bytes, NEW b \in Bytes, NEW d \in Bytes
    PROVE  Reassociates(a, b, d)
BY ConcatAssociative DEF Bytes, Reassociates

(* Two ways to cut the same bytes in two: the first cut is before the        *)
(* second, or at or behind it.                                               *)
CutBefore(a, b) == Len(a) < Len(b) /\ a = SubSeq(b, 1, Len(a))
CutBehind(a, x, b, y) == \E rest \in Bytes : a = b \o rest /\ rest \o x = y

LEMMA TwoCuts ==
    ASSUME NEW a \in Bytes, NEW b \in Bytes, NEW x \in Bytes, NEW y \in Bytes, a \o x = b \o y
    PROVE  CutBefore(a, b) \/ CutBehind(a, x, b, y)
<1> DEFINE whole == a \o x
<1>1. /\ whole = b \o y /\ whole \in Bytes
      /\ Len(a) \in Nat /\ Len(b) \in Nat /\ Len(x) \in Nat /\ Len(y) \in Nat
      /\ Len(whole) = Len(a) + Len(x) /\ Len(whole) = Len(b) + Len(y)
  BY ConcatProperties, LenProperties DEF Bytes
<1>2. \A i \in 1 .. Len(a) : whole[i] = a[i]
  BY <1>1, ConcatProperties DEF Bytes
<1>3. \A i \in 1 .. Len(b) : whole[i] = b[i]
  <2>1. \A i \in 1 .. Len(b) : (b \o y)[i] = b[i]
    BY <1>1, ConcatProperties DEF Bytes
  <2> QED BY <1>1, <2>1
<1> HIDE DEF whole
<1>4. CASE Len(a) < Len(b)
  <2> DEFINE s == SubSeq(b, 1, Len(a))
  <2>1. s \in Bytes /\ Len(s) = Len(a) /\ \A i \in 1 .. Len(a) : s[i] = b[i]
    <3>1. \A i \in 1 .. Len(a) : b[i] \in Byte
      BY <1>1, <1>4, ElementOfSeq DEF Bytes
    <3>2. /\ s \in Seq(Byte) /\ Len(s) = IF 1 <= Len(a) THEN Len(a) - 1 + 1 ELSE 0
          /\ \A i \in 1 .. (Len(a) - 1 + 1) : s[i] = b[1 + i - 1]
      BY <1>1, <3>1, SubSeqProperties
    <3> QED BY <1>1, <3>2 DEF Bytes
  <2> HIDE DEF s
  <2>2. \A i \in 1 .. Len(a) : a[i] = s[i]
    BY <1>1, <1>2, <1>3, <1>4, <2>1
  <2>3. a = s
    BY <2>1, <2>2, SeqEqual DEF Bytes
  <2> QED BY <1>4, <2>3 DEF s, CutBefore
<1>5. CASE Len(b) <= Len(a)
  <2> DEFINE rest == SubSeq(a, Len(b) + 1, Len(a))
             front == SubSeq(a, 1, Len(b))
  <2>1. rest \in Bytes /\ front \in Bytes /\ a = front \o rest
    <3>1. \A i \in 1 .. Len(a) : a[i] \in Byte
      BY <1>1, ElementOfSeq DEF Bytes
    <3>2. rest \in Bytes
      BY <1>1, <3>1, SubSeqProperties DEF Bytes
    <3>3. front \in Bytes
      BY <1>1, <1>5, <3>1, SubSeqProperties DEF Bytes
    <3>4. front \o rest = SubSeq(a, 1, Len(a))
      <4>1. /\ 1 \in 1 .. Len(a) + 1 /\ Len(b) \in 1 - 1 .. Len(a)
            /\ Len(a) \in Len(b) .. Len(a)
        BY <1>1, <1>5
      <4>2. a \in Seq(Byte)
        BY DEF Bytes
      <4> QED BY <4>1, <4>2, ConcatAdjacentSubSeq
    <3> QED BY <3>2, <3>3, <3>4, SubSeqFull DEF Bytes
  <2>2. Len(front) = Len(b) /\ \A i \in 1 .. Len(b) : front[i] = a[i]
    <3>1. \A i \in 1 .. Len(b) : a[i] \in Byte
      BY <1>1, <1>5, ElementOfSeq DEF Bytes
    <3>2. /\ Len(front) = IF 1 <= Len(b) THEN Len(b) - 1 + 1 ELSE 0
          /\ \A i \in 1 .. (Len(b) - 1 + 1) : front[i] = a[1 + i - 1]
      BY <1>1, <3>1, SubSeqProperties
    <3> QED BY <1>1, <3>2
  <2> HIDE DEF rest, front
  <2>3. \A i \in 1 .. Len(b) : front[i] = b[i]
    BY <1>1, <1>2, <1>3, <1>5, <2>2
  <2>4. front = b
    BY <2>1, <2>2, <2>3, SeqEqual DEF Bytes
  <2>5. b \o (rest \o x) = b \o y
    <3>1. a \o x = b \o y
      OBVIOUS
    <3>2. (b \o rest) \o x = b \o (rest \o x)
      <4>1. rest \in Bytes
        BY <2>1
      <4> QED BY <4>1, ConcatAssociative DEF Bytes
    <3> QED BY <2>1, <2>4, <3>1, <3>2
  <2>6. rest \o x \in Bytes
    BY <2>1, ConcatProperties DEF Bytes
  <2>7. rest \o x = y
    BY <2>5, <2>6, ConcatSimplifications DEF Bytes
  <2> QED BY <2>1, <2>4, <2>7 DEF CutBehind
<1>6. Len(a) < Len(b) \/ Len(b) <= Len(a)
  BY <1>1
<1> QED BY <1>4, <1>5, <1>6

-------------------------------------------------------------------------------
(* The stream of a connection: rs are the requests that are not executed     *)
(* yet, suffix[i] the bytes from the i-th on.                                *)
Queued(c, rs, suffix) ==
    /\ rs \in Seq(Requests[c])
    /\ suffix \in [1 .. (Len(rs) + 1) -> Bytes]
    /\ \A i \in 1 .. Len(rs) : suffix[i] = Encode(rs[i].resp) \o suffix[i + 1]
    /\ suffix[Len(rs) + 1] \in {<<>>, InlineCommand}

LEMMA ThreeItems ==
    ASSUME NEW S, NEW x \in S, NEW y \in S, NEW z \in S
    PROVE  <<x, y, z>> \in Seq(S)
<1>1. <<x, y, z>> \in [1 .. 3 -> S]
  OBVIOUS
<1> QED BY <1>1, SeqDef

LEMMA InlineBytes == Len(InlineCommand) = 3 /\ InlineCommand \in Bytes
<1>1. "P" \in Byte /\ "CR" \in Byte /\ "LF" \in Byte
  BY ByteAssumption
<1>2. InlineCommand \in Bytes
  BY <1>1, ThreeItems DEF InlineCommand, Bytes
<1>3. Len(InlineCommand) = 3
  BY DEF InlineCommand
<1> QED BY <1>2, <1>3

(* What decode makes of the bytes at the front of such a stream: nothing, or *)
(* the first request and the stream behind it.                               *)
TakesFront(bytes, more, rs, suffix) ==
    /\ Len(rs) > 0
    /\ \E rest \in Bytes : Decode(bytes) = Ok(rs[1].resp, rest) /\ rest \o more = suffix[2]

LEMMA FrontOfStream ==
    ASSUME CodecSound(Bytes), NEW c \in Clients, NEW rs, NEW suffix, Queued(c, rs, suffix),
           NEW bytes \in Bytes, NEW more \in Bytes, bytes \o more = suffix[1]
    PROVE  ~Decode(bytes).ok \/ TakesFront(bytes, more, rs, suffix)
<1>1. Len(rs) \in Nat /\ Len(bytes) \in Nat
  BY LenProperties DEF Queued, Bytes
<1>2. CASE Len(rs) = 0
  <2>1. bytes \o more = <<>> \/ bytes \o more = InlineCommand
    BY <1>2 DEF Queued
  <2>2. \E n \in 0 .. Len(InlineCommand) : bytes = SubSeq(InlineCommand, 1, n)
    <3>1. CASE bytes \o more = <<>>
      <4>1. bytes = <<>>
        BY <3>1, ConcatEqualIffEmpty DEF Bytes
      <4>2. SubSeq(InlineCommand, 1, 0) = <<>>
        BY SubSeqEmpty
      <4>3. Len(InlineCommand) = 3
        BY InlineBytes
      <4>4. 0 \in 0 .. Len(InlineCommand)
        BY <4>3
      <4> QED BY <4>1, <4>2, <4>4
    <3>2. CASE bytes \o more = InlineCommand
      <4>1. <<>> \in Bytes /\ InlineCommand \in Bytes /\ InlineCommand \o <<>> = InlineCommand
        BY InlineBytes, EmptySeq, ConcatEmptySeq DEF Bytes
      <4>2. bytes \o more = InlineCommand \o <<>>
        BY <3>2, <4>1
      <4>3. CutBefore(bytes, InlineCommand) \/ CutBehind(bytes, more, InlineCommand, <<>>)
        BY <4>1, <4>2, TwoCuts
      <4>4. Len(InlineCommand) = 3 /\ Len(InlineCommand) \in 0 .. Len(InlineCommand)
        BY InlineBytes
      <4>5. CASE CutBehind(bytes, more, InlineCommand, <<>>)
        <5>0. PICK rest \in Bytes : bytes = InlineCommand \o rest /\ rest \o more = <<>>
          BY <4>5 DEF CutBehind
        <5>1. bytes = InlineCommand
          BY <4>1, <5>0, ConcatEqualIffEmpty DEF Bytes
        <5>2. bytes = SubSeq(InlineCommand, 1, Len(InlineCommand))
          BY <4>1, <5>1, SubSeqFull DEF Bytes
        <5> QED BY <4>4, <5>2
      <4>6. CASE CutBefore(bytes, InlineCommand)
        <5>1. Len(bytes) < Len(InlineCommand) /\ bytes = SubSeq(InlineCommand, 1, Len(bytes))
          BY <4>6 DEF CutBefore
        <5>2. Len(bytes) \in 0 .. Len(InlineCommand)
          BY <1>1, <4>4, <5>1
        <5> QED BY <5>1, <5>2
      <4> QED BY <4>3, <4>5, <4>6
    <3> QED BY <2>1, <3>1, <3>2
  <2> QED BY <2>2 DEF CodecSound
<1>3. CASE Len(rs) > 0
  <2> DEFINE e == Encode(rs[1].resp)
  <2>1. rs[1] \in Requests[c]
    <3>1. 1 \in 1 .. Len(rs)
      BY <1>1, <1>3
    <3> QED BY <3>1, ElementOfSeq DEF Queued
  <2>2. suffix[1] = e \o suffix[2] /\ suffix[2] \in Bytes
    <3>1. 1 \in 1 .. Len(rs) /\ 2 \in 1 .. (Len(rs) + 1) /\ 1 + 1 = 2
      BY <1>1, <1>3
    <3>2. suffix[1] = e \o suffix[1 + 1]
      BY <3>1 DEF Queued
    <3>3. suffix[2] \in Bytes
      BY <3>1 DEF Queued
    <3> QED BY <3>1, <3>2, <3>3
  <2>3. /\ e \in Bytes
        /\ \A rest \in Bytes : Decode(e \o rest) = Ok(rs[1].resp, rest)
        /\ \A n \in 0 .. (Len(e) - 1) :
              Decode(SubSeq(e, 1, n)) \in {Error("Empty buffer"), Error("Incomplete")}
    BY <2>1 DEF CodecSound, Bytes
  <2> HIDE DEF e
  <2>4. CutBefore(bytes, e) \/ CutBehind(bytes, more, e, suffix[2])
    <3>1. bytes \o more = e \o suffix[2]
      BY <2>2
    <3>2. e \in Bytes /\ suffix[2] \in Bytes
      BY <2>2, <2>3
    <3> QED BY <3>1, <3>2, TwoCuts
  <2>5. CASE CutBefore(bytes, e)
    <3>0. Len(bytes) < Len(e) /\ bytes = SubSeq(e, 1, Len(bytes))
      BY <2>5 DEF CutBefore
    <3>1. Len(e) \in Nat
      BY <2>3, LenProperties DEF Bytes
    <3>2. Len(bytes) \in 0 .. (Len(e) - 1)
      BY <1>1, <3>0, <3>1
    <3>3. Decode(bytes) \in {Error("Empty buffer"), Error("Incomplete")}
      BY <2>3, <3>0, <3>2
    <3>4. PICK why : Decode(bytes) = Error(why)
      BY <3>3
    <3>5. ~Decode(bytes).ok
      BY <3>4 DEF Error
    <3> QED BY <3>5
  <2>6. CASE CutBehind(bytes, more, e, suffix[2])
    <3>1. PICK rest \in Bytes : bytes = e \o rest /\ rest \o more = suffix[2]
      BY <2>6 DEF CutBehind
    <3>2. Decode(bytes) = Ok(rs[1].resp, rest)
      BY <2>3, <3>1
    <3> QED BY <1>3, <3>1, <3>2 DEF TakesFront
  <2> QED BY <2>4, <2>5, <2>6
<1> QED BY <1>1, <1>2, <1>3
-------------------------------------------------------------------------------
RedisTypes ==
    /\ asked \in [Clients -> Seq(Commands)]
    /\ client \in [Clients -> {"open", "inline", "gone"}]
    /\ wire \in [Clients -> Bytes]
    /\ buffer \in [Clients -> Bytes]
    /\ pc \in [Clients -> {"read", "flush", "closed"}]
    /\ reply \in [Clients -> {<<>>} \cup {Encode(v) : v \in Answers}]
    /\ replies \in [Clients -> Seq(Answers)]
    /\ \A k \in DOMAIN store : BulkString(store[k]) \in Answers
    /\ \A c \in Clients : pc[c] = "read" => reply[c] = <<>>

(* What a connection still has to serve is what its client has asked and is  *)
(* not answered: the buffer, what is on its way and what a client that went  *)
(* away has taken with it make up the requests.                              *)
Streams(c, rs, suffix, lost) ==
    /\ Queued(c, rs, suffix)
    /\ client[c] = "open" => suffix[Len(rs) + 1] = <<>>
    /\ lost \in Bytes
    /\ client[c] # "gone" => lost = <<>>
    /\ lost # <<>> => wire[c] = <<>>
    /\ buffer[c] \o (wire[c] \o lost) = suffix[1]
    /\ Len(asked[c]) = Len(answers[c]) + Len(rs)
    /\ \A i \in 1 .. Len(rs) : asked[c][Len(answers[c]) + i] = rs[i].cmd

RedisInv ==
    /\ RedisTypes
    /\ \A c \in Clients : pc[c] # "closed" => \E rs, suffix, lost : Streams(c, rs, suffix, lost)

LEMMA DecodedAnswer ==
    ASSUME CodecSound(Bytes)
    PROVE  /\ Decoded(<<>>) = <<>>
           /\ \A v \in Answers : Decoded(Encode(v)) = <<v>> /\ Encode(v) \in Bytes
<1>1. Decoded(<<>>) = <<>>
  BY DEF Decoded
<1>2. ASSUME NEW v \in Answers PROVE Decoded(Encode(v)) = <<v>> /\ Encode(v) \in Bytes
  <2>1. Encode(v) \in Seq(Byte) \ {<<>>} /\ Decode(Encode(v)) = Ok(v, <<>>)
    BY DEF CodecSound
  <2>2. Decode(Encode(v)).ok /\ Decode(Encode(v)).rest = <<>> /\ Decode(Encode(v)).value = v
    BY <2>1 DEF Ok
  <2>3. Encode(v) # <<>> /\ Encode(v) \in Bytes
    BY <2>1 DEF Bytes
  <2> QED BY <2>2, <2>3 DEF Decoded
<1> QED BY <1>1, <1>2

LEMMA OneItem == ASSUME NEW S, NEW x \in S PROVE <<x>> \in Seq(S) /\ Len(<<x>>) = 1 /\ <<x>>[1] = x
OBVIOUS

LEMMA AnsweredType ==
    ASSUME CodecSound(Bytes), RedisTypes, NEW c \in Clients
    PROVE  answers[c] \in Seq(Answers)
<1>1. replies[c] \in Seq(Answers)
  BY DEF RedisTypes
<1>2. Decoded(reply[c]) \in Seq(Answers)
  <2>1. CASE reply[c] = <<>>
    BY <2>1, DecodedAnswer, EmptySeq
  <2>2. CASE \E v \in Answers : reply[c] = Encode(v)
    <3>1. PICK v \in Answers : reply[c] = Encode(v)
      BY <2>2
    <3>2. Decoded(reply[c]) = <<v>>
      BY <3>1, DecodedAnswer
    <3> QED BY <3>2, OneItem
  <2> QED BY <2>1, <2>2 DEF RedisTypes
<1> QED BY <1>1, <1>2, ConcatProperties DEF answers

LEMMA CommandOp ==
    ASSUME NEW cmd \in Commands
    PROVE  cmd.op \in {"Ping", "Echo", "Get", "Set", "Invalid"}
<1>0. PICK c \in Clients : \E r \in Requests[c] : cmd = r.cmd
  BY DEF Commands
<1>1. PICK r \in Requests[c] : cmd = r.cmd
  BY <1>0
<1>2. cmd = parse_command(r.resp)
  BY <1>1, RequestAssumption
<1> QED BY <1>2 DEF parse_command, Command, Command_Error

(* A response is an answer, and the one that KeyValue gives.                 *)
LEMMA ResponseIsAnswer ==
    ASSUME RedisTypes, NEW cmd \in Commands
    PROVE  /\ Response(cmd) \in Answers
           /\ Response(cmd) = Service!Reply(cmd)
           /\ \A k \in DOMAIN Stored(cmd) : BulkString(Stored(cmd)[k]) \in Answers
<1>1. BulkString(cmd.value) \in Answers
  BY DEF Answers
<1>2. Response(cmd) \in Answers
  <2>1. /\ SimpleString(<<"PONG">>) \in Answers /\ SimpleString(<<"OK">>) \in Answers
        /\ ErrorString(<<"ERR">>) \in Answers /\ NullBulk \in Answers
    BY DEF Answers
  <2>2. \A k \in DOMAIN store : BulkString(store[k]) \in Answers
    BY DEF RedisTypes
  <2>3. CASE cmd.op = "Ping" BY <2>1, <2>3 DEF Response
  <2>4. CASE cmd.op = "Echo" BY <1>1, <2>4 DEF Response
  <2>5. CASE cmd.op = "Get" BY <2>1, <2>2, <2>5 DEF Response
  <2>6. CASE cmd.op = "Set" BY <2>1, <2>6 DEF Response
  <2>7. CASE cmd.op = "Invalid" BY <2>1, <2>7 DEF Response
  <2> QED BY <2>3, <2>4, <2>5, <2>6, <2>7, CommandOp
<1>3. Response(cmd) = Service!Reply(cmd)
  <2>3. CASE cmd.op = "Ping" BY <2>3 DEF Response, Service!Reply, SimpleString
  <2>4. CASE cmd.op = "Echo" BY <2>4 DEF Response, Service!Reply, BulkString
  <2>5. CASE cmd.op = "Get" BY <2>5 DEF Response, Service!Reply, BulkString, NullBulk
  <2>6. CASE cmd.op = "Set" BY <2>6 DEF Response, Service!Reply, SimpleString
  <2>7. CASE cmd.op = "Invalid" BY <2>7 DEF Response, Service!Reply, ErrorString
  <2> QED BY <2>3, <2>4, <2>5, <2>6, <2>7, CommandOp
<1>4. \A k \in DOMAIN Stored(cmd) : BulkString(Stored(cmd)[k]) \in Answers
  <2>1. \A k \in DOMAIN store : BulkString(store[k]) \in Answers
    BY DEF RedisTypes
  <2>2. CASE cmd.op = "Set"
    <3>1. Stored(cmd) = [k \in DOMAIN store \cup {cmd.key} |->
                             IF k = cmd.key THEN cmd.value ELSE store[k]]
      BY <2>2 DEF Stored
    <3> QED BY <1>1, <2>1, <3>1
  <2>3. CASE cmd.op # "Set"
    BY <2>1, <2>3 DEF Stored
  <2> QED BY <2>2, <2>3
<1> QED BY <1>2, <1>3, <1>4
-------------------------------------------------------------------------------
(* The step of a loop: it has these bytes in its buffer and the answers      *)
(* before are flushed.                                                       *)
LEMMA OtherStream ==
    ASSUME NEW d \in Clients, NEW rs, NEW suffix, NEW lost, Streams(d, rs, suffix, lost),
           client'[d] = client[d], wire'[d] = wire[d], buffer'[d] = buffer[d],
           asked'[d] = asked[d], answers'[d] = answers[d]
    PROVE  Streams(d, rs, suffix, lost)'
BY DEF Streams

LEMMA AnswersOf ==
    /\ \A d \in Clients : answers[d] = replies[d] \o Decoded(reply[d])
    /\ \A d \in Clients : answers'[d] = replies'[d] \o Decoded(reply'[d])
BY DEF answers

LEMMA SameAnswers ==
    ASSUME \A d \in Clients : answers'[d] = answers[d]
    PROVE  answers' = answers
<1> DEFINE before(d) == replies[d] \o Decoded(reply[d])
           after(d) == replies'[d] \o Decoded(reply'[d])
<1>1. answers = [d \in Clients |-> before(d)] /\ answers' = [d \in Clients |-> after(d)]
  BY DEF answers
<1>2. \A d \in Clients : after(d) = before(d)
  BY AnswersOf
<1> QED BY <1>1, <1>2

LEMMA WaitStep ==
    ASSUME CodecSound(Bytes), RedisInv, NEW c \in Clients, NEW bytes \in Bytes,
           NEW rs, NEW suffix, NEW lost, Streams(c, rs, suffix, lost),
           wire' \in [Clients -> Bytes], \A d \in Clients : d # c => wire'[d] = wire[d],
           lost # <<>> => wire'[c] = <<>>, bytes \o (wire'[c] \o lost) = suffix[1],
           replies' = [replies EXCEPT ![c] = answers[c]],
           reply' = [reply EXCEPT ![c] = <<>>],
           buffer' = [buffer EXCEPT ![c] = bytes],
           pc' = [pc EXCEPT ![c] = "read"] \/ pc' = [pc EXCEPT ![c] = "closed"],
           UNCHANGED <<store, asked, client>>
    PROVE  RedisInv' /\ UNCHANGED <<store, asked, answers>>
<1>1. RedisTypes /\ answers[c] \in Seq(Answers)
  BY AnsweredType DEF RedisInv
<1>2. /\ replies'[c] = answers[c] /\ reply'[c] = <<>> /\ buffer'[c] = bytes
      /\ \A d \in Clients : d # c => /\ replies'[d] = replies[d] /\ reply'[d] = reply[d]
                                     /\ buffer'[d] = buffer[d] /\ pc'[d] = pc[d]
  BY <1>1 DEF RedisTypes
<1>3. \A d \in Clients : answers'[d] = answers[d]
  <2>1. answers'[c] = answers[c]
    <3>1. answers'[c] = replies'[c] \o Decoded(reply'[c])
      BY AnswersOf
    <3>2. Decoded(reply'[c]) = <<>>
      BY <1>2, DecodedAnswer
    <3>3. answers[c] \o <<>> = answers[c]
      BY <1>1, ConcatEmptySeq
    <3> QED BY <1>2, <3>1, <3>2, <3>3
  <2>2. ASSUME NEW d \in Clients, d # c
        PROVE  answers'[d] = answers[d]
    <3>1. /\ answers'[d] = replies'[d] \o Decoded(reply'[d])
          /\ answers[d] = replies[d] \o Decoded(reply[d])
      BY AnswersOf
    <3>2. replies'[d] = replies[d] /\ reply'[d] = reply[d]
      BY <1>2, <2>2
    <3> QED BY <3>1, <3>2
  <2> QED BY <2>1, <2>2
<1>4. answers' = answers
  BY <1>3, SameAnswers
<1>5. RedisTypes'
  <2>1. replies' \in [Clients -> Seq(Answers)] /\ buffer' \in [Clients -> Bytes]
    BY <1>1 DEF RedisTypes
  <2>2. reply' \in [Clients -> {<<>>} \cup {Encode(v) : v \in Answers}]
    BY <1>1 DEF RedisTypes
  <2>3. pc' \in [Clients -> {"read", "flush", "closed"}]
    BY <1>1 DEF RedisTypes
  <2>4. \A d \in Clients : pc'[d] = "read" => reply'[d] = <<>>
    BY <1>1, <1>2 DEF RedisTypes
  <2> QED BY <1>1, <2>1, <2>2, <2>3, <2>4 DEF RedisTypes
<1>6. Streams(c, rs, suffix, lost)'
  BY <1>2, <1>3 DEF Streams
<1>7. ASSUME NEW d \in Clients, d # c, pc'[d] # "closed"
      PROVE  \E r, s, l : Streams(d, r, s, l)'
  <2>1. PICK r, s, l : Streams(d, r, s, l)
    BY <1>2, <1>7 DEF RedisInv
  <2> QED BY <1>2, <1>3, <1>7, <2>1, OtherStream
<1> QED BY <1>4, <1>5, <1>6, <1>7 DEF RedisInv

(* The request at the front is taken out of a stream.                        *)
LEMMA QueuedBehind ==
    ASSUME NEW c \in Clients, NEW rs, NEW suffix, Queued(c, rs, suffix), Len(rs) > 0
    PROVE  /\ Queued(c, Tail(rs), [i \in 1 .. Len(rs) |-> suffix[i + 1]])
           /\ Len(Tail(rs)) = Len(rs) - 1 /\ Len(rs) \in Nat
           /\ \A i \in 1 .. Len(Tail(rs)) : Tail(rs)[i] = rs[i + 1]
<1> DEFINE s == [i \in 1 .. Len(rs) |-> suffix[i + 1]]
<1>1. /\ rs \in Seq(Requests[c]) /\ Len(rs) \in Nat /\ rs # <<>>
      /\ suffix \in [1 .. (Len(rs) + 1) -> Bytes]
      /\ \A i \in 1 .. Len(rs) : suffix[i] = Encode(rs[i].resp) \o suffix[i + 1]
      /\ suffix[Len(rs) + 1] \in {<<>>, InlineCommand}
  <2>1. rs \in Seq(Requests[c])
    BY DEF Queued
  <2>2. Len(rs) \in Nat /\ Len(<<>>) = 0
    BY <2>1, LenProperties, EmptySeq
  <2>3. rs # <<>>
    BY <2>2
  <2> QED BY <2>1, <2>2, <2>3 DEF Queued
<1>2. /\ Tail(rs) \in Seq(Requests[c]) /\ Len(Tail(rs)) = Len(rs) - 1
      /\ \A i \in 1 .. Len(Tail(rs)) : Tail(rs)[i] = rs[i + 1]
  BY <1>1, HeadTailProperties
<1>3. Len(Tail(rs)) + 1 = Len(rs)
  BY <1>1, <1>2
<1>4. s \in [1 .. (Len(Tail(rs)) + 1) -> Bytes]
  <2>1. \A i \in 1 .. Len(rs) : suffix[i + 1] \in Bytes
    BY <1>1
  <2> QED BY <1>3, <2>1
<1>5. ASSUME NEW i \in 1 .. Len(Tail(rs))
      PROVE  s[i] = Encode(Tail(rs)[i].resp) \o s[i + 1]
  <2>1. i \in 1 .. Len(rs) /\ i + 1 \in 1 .. Len(rs)
    BY <1>1, <1>2
  <2>2. s[i] = suffix[i + 1] /\ s[i + 1] = suffix[(i + 1) + 1]
    BY <2>1
  <2>3. suffix[i + 1] = Encode(rs[i + 1].resp) \o suffix[(i + 1) + 1]
    BY <1>1, <2>1
  <2> QED BY <1>2, <2>2, <2>3
<1>6. s[Len(Tail(rs)) + 1] \in {<<>>, InlineCommand}
  <2>1. Len(rs) \in 1 .. Len(rs)
    BY <1>1, <1>2, <1>3, LenProperties
  <2>2. s[Len(rs)] = suffix[Len(rs) + 1]
    BY <2>1
  <2> QED BY <1>1, <1>3, <2>2
<1> HIDE DEF s
<1>7. Queued(c, Tail(rs), s)
  BY <1>2, <1>4, <1>5, <1>6 DEF Queued
<1> QED BY <1>1, <1>2, <1>7 DEF s

LEMMA AnswerStep ==
    ASSUME CodecSound(Bytes), RedisInv, NEW c \in Clients, NEW rest \in Bytes,
           NEW rs, NEW suffix, NEW lost, Streams(c, rs, suffix, lost), Len(rs) > 0,
           wire' \in [Clients -> Bytes], \A d \in Clients : d # c => wire'[d] = wire[d],
           lost # <<>> => wire'[c] = <<>>, rest \o (wire'[c] \o lost) = suffix[2],
           replies' = [replies EXCEPT ![c] = answers[c]],
           reply' = [reply EXCEPT ![c] = Encode(Response(rs[1].cmd))],
           store' = Stored(rs[1].cmd),
           buffer' = [buffer EXCEPT ![c] = rest],
           pc' = [pc EXCEPT ![c] = "flush"],
           UNCHANGED <<asked, client>>
    PROVE  RedisInv' /\ Service!Answer(c)
<1> DEFINE cmd == rs[1].cmd
           response == Response(cmd)
<1>1. RedisTypes /\ answers[c] \in Seq(Answers) /\ Len(answers[c]) \in Nat
  BY AnsweredType, LenProperties DEF RedisInv
<1>2. cmd \in Commands /\ 1 \in 1 .. Len(rs)
  <2>1. rs \in Seq(Requests[c]) /\ 1 \in 1 .. Len(rs)
    BY LenProperties DEF Streams, Queued
  <2>2. rs[1] \in Requests[c]
    BY <2>1, ElementOfSeq
  <2> QED BY <2>1, <2>2 DEF Commands
<1>3. /\ response \in Answers /\ response = Service!Reply(cmd)
      /\ \A k \in DOMAIN Stored(cmd) : BulkString(Stored(cmd)[k]) \in Answers
  BY <1>1, <1>2, ResponseIsAnswer
<1>c. store' = Stored(cmd) /\ reply' = [reply EXCEPT ![c] = Encode(response)]
  OBVIOUS
<1> HIDE DEF cmd, response
<1>4. /\ replies'[c] = answers[c] /\ reply'[c] = Encode(response) /\ buffer'[c] = rest
      /\ \A d \in Clients : d # c => /\ replies'[d] = replies[d] /\ reply'[d] = reply[d]
                                     /\ buffer'[d] = buffer[d] /\ pc'[d] = pc[d]
  BY <1>1, <1>c DEF RedisTypes
<1>5. answers'[c] = Append(answers[c], response)
  <2>1. answers'[c] = replies'[c] \o Decoded(reply'[c])
    BY AnswersOf
  <2>2. Decoded(reply'[c]) = <<response>>
    BY <1>3, <1>4, DecodedAnswer
  <2>3. Append(answers[c], response) = answers[c] \o <<response>>
    BY <1>1, <1>3, AppendIsConcat
  <2> QED BY <1>4, <2>1, <2>2, <2>3
<1>6. ASSUME NEW d \in Clients, d # c
      PROVE  answers'[d] = answers[d]
  <2>1. /\ answers'[d] = replies'[d] \o Decoded(reply'[d])
        /\ answers[d] = replies[d] \o Decoded(reply[d])
    BY AnswersOf
  <2>2. replies'[d] = replies[d] /\ reply'[d] = reply[d]
    BY <1>4, <1>6
  <2> QED BY <2>1, <2>2
<1>7. answers' = [answers EXCEPT ![c] = Append(@, response)]
  <2> DEFINE after(d) == replies'[d] \o Decoded(reply'[d])
  <2>1. answers' = [d \in Clients |-> after(d)]
    BY DEF answers
  <2>2. DOMAIN answers = Clients
    BY DEF answers
  <2>3. \A d \in Clients : after(d) = answers'[d]
    BY AnswersOf
  <2> HIDE DEF after
  <2>4. \A d \in Clients : after(d) = IF d = c THEN Append(answers[c], response) ELSE answers[d]
    BY <1>5, <1>6, <2>3
  <2> QED BY <2>1, <2>2, <2>4
<1>8. RedisTypes'
  <2>1. replies' \in [Clients -> Seq(Answers)] /\ buffer' \in [Clients -> Bytes]
    BY <1>1 DEF RedisTypes
  <2>2. reply' \in [Clients -> {<<>>} \cup {Encode(v) : v \in Answers}]
    BY <1>1, <1>3, <1>c DEF RedisTypes
  <2>3. pc' \in [Clients -> {"read", "flush", "closed"}]
    BY <1>1 DEF RedisTypes
  <2>4. \A d \in Clients : pc'[d] = "read" => reply'[d] = <<>>
    <3>1. pc'[c] = "flush"
      BY <1>1 DEF RedisTypes
    <3> QED BY <1>1, <1>4, <3>1 DEF RedisTypes
  <2>5. \A k \in DOMAIN store' : BulkString(store'[k]) \in Answers
    BY <1>3, <1>c
  <2> QED BY <1>1, <2>1, <2>2, <2>3, <2>4, <2>5 DEF RedisTypes
<1>9. /\ Len(asked[c]) = Len(answers[c]) + Len(rs)
      /\ \A i \in 1 .. Len(rs) : asked[c][Len(answers[c]) + i] = rs[i].cmd
      /\ Queued(c, rs, suffix) /\ Len(rs) \in Nat
  BY QueuedBehind DEF Streams
<1>10. Service!Answer(c)
  <2>1. Len(answers[c]) < Len(asked[c])
    BY <1>1, <1>9
  <2>2. asked[c][Len(answers[c]) + 1] = cmd
    BY <1>2, <1>9 DEF cmd
  <2>3. answers' = [answers EXCEPT ![c] = Append(@, Service!Reply(cmd))]
    BY <1>3, <1>7
  <2>4. store' = IF cmd.op = "Set"
                 THEN [k \in DOMAIN store \cup {cmd.key} |->
                          IF k = cmd.key THEN cmd.value ELSE store[k]]
                 ELSE store
    BY <1>c DEF Stored
  <2> QED BY <2>1, <2>2, <2>3, <2>4 DEF Service!Answer
<1>11. \E r, s, l : Streams(c, r, s, l)'
  <2> DEFINE s == [i \in 1 .. Len(rs) |-> suffix[i + 1]]
  <2>1. /\ Queued(c, Tail(rs), s) /\ Len(Tail(rs)) = Len(rs) - 1
        /\ \A i \in 1 .. Len(Tail(rs)) : Tail(rs)[i] = rs[i + 1]
    BY <1>9, QueuedBehind
  <2>2. Len(answers'[c]) = Len(answers[c]) + 1
    BY <1>1, <1>3, <1>5, AppendProperties
  <2>l. /\ Len(rs) \in Nat /\ Len(answers[c]) \in Nat /\ Len(Tail(rs)) = Len(rs) - 1
        /\ Len(asked'[c]) = Len(answers[c]) + Len(rs)
    BY <1>1, <1>9, <2>1
  <2>3. /\ Len(asked'[c]) = Len(answers'[c]) + Len(Tail(rs))
        /\ \A i \in 1 .. Len(Tail(rs)) :
              i + 1 \in 1 .. Len(rs) /\ Len(answers'[c]) + i = Len(answers[c]) + (i + 1)
    <3> DEFINE n == Len(rs)
               m == Len(Tail(rs))
               a == Len(answers[c])
               b == Len(answers'[c])
               k == Len(asked'[c])
    <3>1. n \in Nat /\ a \in Nat /\ m = n - 1 /\ b = a + 1 /\ k = a + n
      BY <2>2, <2>l
    <3> HIDE DEF n, m, a, b, k
    <3>2. k = b + m /\ \A i \in 1 .. m : i + 1 \in 1 .. n /\ b + i = a + (i + 1)
      BY <3>1
    <3> QED BY <3>2 DEF n, m, a, b, k
  <2>4. ASSUME NEW i \in 1 .. Len(Tail(rs))
        PROVE  asked'[c][Len(answers'[c]) + i] = Tail(rs)[i].cmd
    <3>1. i + 1 \in 1 .. Len(rs) /\ Len(answers'[c]) + i = Len(answers[c]) + (i + 1)
      BY <2>3
    <3>2. asked[c][Len(answers[c]) + (i + 1)] = rs[i + 1].cmd
      BY <1>9, <3>1
    <3> QED BY <2>1, <3>1, <3>2
  <2>5. s[1] = suffix[2] /\ s[Len(Tail(rs)) + 1] = suffix[Len(rs) + 1]
    <3>1. 1 \in 1 .. Len(rs) /\ Len(rs) \in 1 .. Len(rs) /\ Len(Tail(rs)) + 1 = Len(rs)
      BY <1>2, <1>9, <2>1
    <3> QED BY <3>1
  <2> HIDE DEF s
  <2>6. Streams(c, Tail(rs), s, lost)'
    BY <1>4, <2>1, <2>3, <2>4, <2>5 DEF Streams
  <2> QED BY <2>6
<1>12. ASSUME NEW d \in Clients, d # c, pc'[d] # "closed"
       PROVE  \E r, s, l : Streams(d, r, s, l)'
  <2>1. PICK r, s, l : Streams(d, r, s, l)
    BY <1>4, <1>12 DEF RedisInv
  <2> QED BY <1>4, <1>6, <1>12, <2>1, OtherStream
<1> QED BY <1>8, <1>10, <1>11, <1>12 DEF RedisInv

(* Whatever decode makes of the bytes, handle_loop takes one of these steps. *)
LEMMA HandleLoop ==
    ASSUME CodecSound(Bytes), RedisInv, NEW c \in Clients, NEW bytes \in Bytes,
           NEW rs, NEW suffix, NEW lost, Streams(c, rs, suffix, lost),
           wire' \in [Clients -> Bytes], \A d \in Clients : d # c => wire'[d] = wire[d],
           lost # <<>> => wire'[c] = <<>>, bytes \o (wire'[c] \o lost) = suffix[1],
           replies' = [replies EXCEPT ![c] = answers[c]],
           UNCHANGED <<asked, client>>, handle_loop(c, bytes)
    PROVE  RedisInv' /\ (Service!Answer(c) \/ UNCHANGED <<store, asked, answers>>)
<1>1. wire'[c] \o lost \in Bytes
  <2>1. wire'[c] \in Bytes /\ lost \in Bytes
    BY DEF Streams
  <2> QED BY <2>1, ConcatProperties DEF Bytes
<1>2. ~Decode(bytes).ok \/ TakesFront(bytes, wire'[c] \o lost, rs, suffix)
  <2>1. Queued(c, rs, suffix)
    BY DEF Streams
  <2> QED BY <1>1, <2>1, FrontOfStream
<1>3. CASE ~Decode(bytes).ok
  <2>1. /\ reply' = [reply EXCEPT ![c] = <<>>]
        /\ buffer' = [buffer EXCEPT ![c] = bytes]
        /\ pc' = [pc EXCEPT ![c] = "read"] \/ pc' = [pc EXCEPT ![c] = "closed"]
        /\ UNCHANGED store
    BY <1>3 DEF handle_loop
  <2>2. RedisInv' /\ UNCHANGED <<store, asked, answers>>
    BY <2>1, WaitStep
  <2> QED BY <2>2
<1>4. CASE TakesFront(bytes, wire'[c] \o lost, rs, suffix)
  <2>0. Len(rs) > 0
    BY <1>4 DEF TakesFront
  <2>1. PICK rest \in Bytes : /\ Decode(bytes) = Ok(rs[1].resp, rest)
                              /\ rest \o (wire'[c] \o lost) = suffix[2]
    BY <1>4 DEF TakesFront
  <2>2. /\ Decode(bytes).ok /\ Decode(bytes).value = rs[1].resp /\ Decode(bytes).rest = rest
    BY <2>1 DEF Ok
  <2>3. parse_command(rs[1].resp) = rs[1].cmd
    <3>1. rs \in Seq(Requests[c])
      BY DEF Streams, Queued
    <3>2. 1 \in 1 .. Len(rs)
      BY <2>0, <3>1, LenProperties
    <3>3. rs[1] \in Requests[c]
      BY <3>1, <3>2, ElementOfSeq
    <3> QED BY <3>3, RequestAssumption
  <2>4. /\ reply' = [reply EXCEPT ![c] = Encode(Response(rs[1].cmd))]
        /\ store' = Stored(rs[1].cmd)
        /\ buffer' = [buffer EXCEPT ![c] = rest]
        /\ pc' = [pc EXCEPT ![c] = "flush"]
    BY <2>2, <2>3 DEF handle_loop
  <2>5. RedisInv' /\ Service!Answer(c)
    BY <2>0, <2>1, <2>4, AnswerStep
  <2> QED BY <2>5
<1> QED BY <1>2, <1>3, <1>4

(* What a read takes off the wire and what it leaves there.                  *)
LEMMA ReadCut ==
    ASSUME NEW bytes \in Bytes, NEW n \in Nat \ {0}
    PROVE  /\ UpTo(n, bytes) \in Bytes /\ Beyond(n, bytes) \in Bytes
           /\ UpTo(n, bytes) \o Beyond(n, bytes) = bytes
<1>1. bytes \in Seq(Byte) /\ Len(bytes) \in Nat /\ \A i \in 1 .. Len(bytes) : bytes[i] \in Byte
  BY LenProperties, ElementOfSeq DEF Bytes
<1>2. CASE n < Len(bytes)
  <2>1. /\ UpTo(n, bytes) = SubSeq(bytes, 1, n)
        /\ Beyond(n, bytes) = SubSeq(bytes, n + 1, Len(bytes))
    BY <1>2 DEF UpTo, Beyond
  <2>2. SubSeq(bytes, 1, n) \in Bytes /\ SubSeq(bytes, n + 1, Len(bytes)) \in Bytes
    <3>1. n \in Int /\ n + 1 \in Int /\ Len(bytes) \in Int
      BY <1>1
    <3>2. /\ \A i \in 1 .. n : bytes[i] \in Byte
          /\ \A i \in (n + 1) .. Len(bytes) : bytes[i] \in Byte
      BY <1>1, <1>2
    <3> QED BY <3>1, <3>2, SubSeqProperties DEF Bytes
  <2>3. SubSeq(bytes, 1, n) \o SubSeq(bytes, n + 1, Len(bytes)) = SubSeq(bytes, 1, Len(bytes))
    <3>1. 1 \in 1 .. Len(bytes) + 1 /\ n \in 1 - 1 .. Len(bytes) /\ Len(bytes) \in n .. Len(bytes)
      BY <1>1, <1>2
    <3> QED BY <1>1, <3>1, ConcatAdjacentSubSeq
  <2>4. SubSeq(bytes, 1, Len(bytes)) = bytes
    BY <1>1, SubSeqFull
  <2> QED BY <2>1, <2>2, <2>3, <2>4
<1>3. CASE ~(n < Len(bytes))
  <2>1. UpTo(n, bytes) = bytes
    BY <1>1, <1>3, SubSeqFull DEF UpTo
  <2>2. Beyond(n, bytes) = <<>>
    <3>1. n + 1 \in Int /\ Len(bytes) \in Int /\ Len(bytes) < n + 1
      BY <1>1, <1>3
    <3> QED BY <3>1, SubSeqEmpty DEF Beyond
  <2> QED BY <1>1, <2>1, <2>2, ConcatEmptySeq, EmptySeq DEF Bytes
<1> QED BY <1>2, <1>3

LEMMA ReadMore ==
    ASSUME CodecSound(Bytes), RedisInv, NEW c \in Clients, read_more(c)
    PROVE  RedisInv' /\ (Service!Answer(c) \/ UNCHANGED <<store, asked, answers>>)
<1>1. RedisTypes /\ answers[c] \in Seq(Answers)
  BY AnsweredType DEF RedisInv
<1>2. pc[c] = "read" /\ wire[c] # <<>> /\ UNCHANGED <<asked, client, replies>>
  BY DEF read_more
<1>3. PICK n \in Reads[c] : /\ wire' = [wire EXCEPT ![c] = Beyond(n, wire[c])]
                            /\ handle_loop(c, buffer[c] \o UpTo(n, wire[c]))
  BY DEF read_more
<1>4. wire[c] \in Bytes /\ buffer[c] \in Bytes /\ n \in Nat \ {0}
  BY <1>1, ReadAssumption DEF RedisTypes
<1> DEFINE front == UpTo(n, wire[c])
           back == Beyond(n, wire[c])
<1>5. front \in Bytes /\ back \in Bytes /\ front \o back = wire[c]
  BY <1>4, ReadCut
<1>6. wire' = [wire EXCEPT ![c] = back] /\ handle_loop(c, buffer[c] \o front)
  BY <1>3
<1> HIDE DEF front, back
<1>7. PICK rs, suffix, lost : Streams(c, rs, suffix, lost)
  BY <1>2 DEF RedisInv
<1>8. /\ wire' \in [Clients -> Bytes] /\ wire'[c] = back
      /\ \A d \in Clients : d # c => wire'[d] = wire[d]
  BY <1>1, <1>5, <1>6 DEF RedisTypes
<1>9. lost = <<>> /\ buffer[c] \o (wire[c] \o lost) = suffix[1]
  BY <1>2, <1>7 DEF Streams
<1>10. buffer[c] \o front \in Bytes
  BY <1>4, <1>5, ConcatProperties DEF Bytes
<1>11. (buffer[c] \o front) \o (wire'[c] \o lost) = suffix[1]
  <2>1. wire[c] \o <<>> = wire[c] /\ back \o <<>> = back
    BY <1>4, <1>5, ConcatEmptySeq DEF Bytes
  <2>2. (buffer[c] \o front) \o back = buffer[c] \o (front \o back)
    <3>1. Reassociates(buffer[c], front, back)
      BY <1>4, <1>5, Associative
    <3> QED BY <3>1 DEF Reassociates
  <2> QED BY <1>5, <1>8, <1>9, <2>1, <2>2
<1>12. replies' = [replies EXCEPT ![c] = answers[c]]
  <2>1. reply[c] = <<>> /\ replies \in [Clients -> Seq(Answers)]
    BY <1>1, <1>2 DEF RedisTypes
  <2>2. answers[c] = replies[c] \o <<>>
    BY <2>1, AnswersOf, DecodedAnswer
  <2>3. replies[c] \o <<>> = replies[c]
    BY <2>1, ConcatEmptySeq
  <2> QED BY <1>2, <2>1, <2>2, <2>3
<1>13. UNCHANGED <<asked, client>> /\ (lost # <<>> => wire'[c] = <<>>)
  BY <1>2, <1>9
<1> QED BY <1>6, <1>7, <1>8, <1>10, <1>11, <1>12, <1>13, HandleLoop

LEMMA FlushStep ==
    ASSUME CodecSound(Bytes), RedisInv, NEW c \in Clients, Flush(c)
    PROVE  RedisInv' /\ (Service!Answer(c) \/ UNCHANGED <<store, asked, answers>>)
<1>1. RedisTypes
  BY DEF RedisInv
<1>2. /\ pc[c] = "flush" /\ UNCHANGED <<asked, client, wire>>
      /\ replies' = [replies EXCEPT ![c] = @ \o Decoded(reply[c])]
      /\ handle_loop(c, buffer[c])
  BY DEF Flush
<1>3. PICK rs, suffix, lost : Streams(c, rs, suffix, lost)
  BY <1>2 DEF RedisInv
<1>4. /\ wire' \in [Clients -> Bytes] /\ buffer[c] \in Bytes
      /\ \A d \in Clients : d # c => wire'[d] = wire[d]
  BY <1>1, <1>2 DEF RedisTypes
<1>5. /\ lost # <<>> => wire'[c] = <<>>
      /\ buffer[c] \o (wire'[c] \o lost) = suffix[1]
  BY <1>2, <1>3 DEF Streams
<1>6. replies' = [replies EXCEPT ![c] = answers[c]]
  <2>1. answers[c] = replies[c] \o Decoded(reply[c])
    BY AnswersOf
  <2> QED BY <1>2, <2>1
<1>7. UNCHANGED <<asked, client>>
  BY <1>2
<1> QED BY <1>2, <1>3, <1>4, <1>5, <1>6, <1>7, HandleLoop

(* Behind a stream follows what its client sends.                            *)
Extends(rs, suffix, e) ==
    /\ \A i \in 1 .. (Len(rs) + 1) : suffix[i] \o e \in Bytes
    /\ \A i \in 1 .. Len(rs) : suffix[i] \o e = Encode(rs[i].resp) \o (suffix[i + 1] \o e)

LEMMA QueuedMore ==
    ASSUME CodecSound(Bytes), NEW c \in Clients, NEW rs, NEW suffix, Queued(c, rs, suffix),
           NEW e \in Bytes
    PROVE  Extends(rs, suffix, e)
<1>1. /\ rs \in Seq(Requests[c]) /\ Len(rs) \in Nat
      /\ \A i \in 1 .. (Len(rs) + 1) : suffix[i] \in Bytes
      /\ \A i \in 1 .. Len(rs) : suffix[i] = Encode(rs[i].resp) \o suffix[i + 1]
  BY LenProperties DEF Queued
<1>2. ASSUME NEW i \in 1 .. (Len(rs) + 1) PROVE suffix[i] \o e \in Bytes
  <2>1. suffix[i] \in Bytes
    BY <1>1
  <2> QED BY <2>1, ConcatProperties DEF Bytes
<1>3. ASSUME NEW i \in 1 .. Len(rs)
      PROVE  suffix[i] \o e = Encode(rs[i].resp) \o (suffix[i + 1] \o e)
  <2>1. rs[i] \in Requests[c]
    BY <1>1, ElementOfSeq
  <2>2. Encode(rs[i].resp) \in Bytes
    BY <2>1 DEF CodecSound, Bytes
  <2>3. i + 1 \in 1 .. (Len(rs) + 1)
    BY <1>1
  <2>4. suffix[i + 1] \in Bytes
    BY <1>1, <2>3
  <2>5. (Encode(rs[i].resp) \o suffix[i + 1]) \o e = Encode(rs[i].resp) \o (suffix[i + 1] \o e)
    <3>1. Reassociates(Encode(rs[i].resp), suffix[i + 1], e)
      BY <2>2, <2>4, Associative
    <3> QED BY <3>1 DEF Reassociates
  <2> QED BY <1>1, <2>5
<1> QED BY <1>2, <1>3 DEF Extends

LEMMA SendStep ==
    ASSUME CodecSound(Bytes), RedisInv, NEW c \in Clients, NEW r \in Requests[c], Send(c, r)
    PROVE  RedisInv' /\ Service!Ask(c, r.cmd) /\ r.cmd \in Commands
<1> DEFINE e == Encode(r.resp)
<1>1. RedisTypes /\ answers[c] \in Seq(Answers) /\ Len(answers[c]) \in Nat
  BY AnsweredType, LenProperties DEF RedisInv
<1>2. /\ client[c] = "open" /\ asked' = [asked EXCEPT ![c] = Append(asked[c], r.cmd)]
      /\ wire' = [wire EXCEPT ![c] = wire[c] \o e]
      /\ UNCHANGED <<store, client, buffer, pc, reply, replies>>
  BY DEF Send
<1>3. r.cmd \in Commands
  BY DEF Commands
<1>4. e \in Bytes
  BY DEF CodecSound, Bytes
<1> HIDE DEF e
<1>5. answers' = answers
  BY <1>2 DEF answers
<1>6. Service!Ask(c, r.cmd)
  BY <1>2, <1>5 DEF Service!Ask
<1>7. RedisTypes'
  <2>1. wire[c] \o e \in Bytes /\ Append(asked[c], r.cmd) \in Seq(Commands)
    <3>1. wire[c] \in Bytes /\ asked[c] \in Seq(Commands)
      BY <1>1 DEF RedisTypes
    <3> QED BY <1>3, <1>4, <3>1, ConcatProperties, AppendProperties DEF Bytes
  <2>2. wire' \in [Clients -> Bytes] /\ asked' \in [Clients -> Seq(Commands)]
    BY <1>1, <1>2, <2>1 DEF RedisTypes
  <2> QED BY <1>1, <1>2, <2>2 DEF RedisTypes
<1>8. ASSUME pc[c] # "closed"
      PROVE  \E q, s, l : Streams(c, q, s, l)'
  <2>1. PICK rs, suffix, lost : Streams(c, rs, suffix, lost)
    BY <1>8 DEF RedisInv
  <2>2. /\ Queued(c, rs, suffix) /\ suffix[Len(rs) + 1] = <<>> /\ lost = <<>>
        /\ rs \in Seq(Requests[c]) /\ Len(rs) \in Nat
        /\ buffer[c] \o (wire[c] \o <<>>) = suffix[1]
        /\ Len(asked[c]) = Len(answers[c]) + Len(rs)
        /\ \A i \in 1 .. Len(rs) : asked[c][Len(answers[c]) + i] = rs[i].cmd
    BY <1>2, <2>1, LenProperties DEF Streams, Queued
  <2> DEFINE q == Append(rs, r)
             s == [i \in 1 .. (Len(rs) + 2) |->
                      IF i <= Len(rs) + 1 THEN suffix[i] \o e ELSE <<>>]
  <2>3. /\ q \in Seq(Requests[c]) /\ Len(q) = Len(rs) + 1 /\ q[Len(rs) + 1] = r
        /\ \A i \in 1 .. Len(rs) : q[i] = rs[i]
    BY <2>2, AppendProperties
  <2>4. /\ \A i \in 1 .. (Len(rs) + 1) : suffix[i] \o e \in Bytes
        /\ \A i \in 1 .. Len(rs) :
              suffix[i] \o e = Encode(rs[i].resp) \o (suffix[i + 1] \o e)
    <3>1. Extends(rs, suffix, e)
      BY <1>4, <2>2, QueuedMore
    <3> QED BY <3>1 DEF Extends
  <2>5. /\ \A i \in 1 .. (Len(rs) + 1) : s[i] = suffix[i] \o e
        /\ s[Len(rs) + 2] = <<>>
    BY <2>2
  <2>6. s \in [1 .. (Len(q) + 1) -> Bytes]
    <3>1. ASSUME NEW i \in 1 .. (Len(rs) + 2)
          PROVE  (IF i <= Len(rs) + 1 THEN suffix[i] \o e ELSE <<>>) \in Bytes
      <4>1. i <= Len(rs) + 1 => i \in 1 .. (Len(rs) + 1)
        BY <2>2
      <4> QED BY <2>4, <4>1, EmptySeq DEF Bytes
    <3>2. Len(q) + 1 = Len(rs) + 2
      BY <2>2, <2>3
    <3> QED BY <3>1, <3>2
  <2> HIDE DEF q, s
  <2>7. ASSUME NEW i \in 1 .. Len(q)
        PROVE  s[i] = Encode(q[i].resp) \o s[i + 1]
    <3>1. CASE i \in 1 .. Len(rs)
      <4>1. i \in 1 .. (Len(rs) + 1) /\ i + 1 \in 1 .. (Len(rs) + 1)
        BY <2>2, <3>1
      <4>2. s[i] = suffix[i] \o e /\ s[i + 1] = suffix[i + 1] \o e
        BY <2>5, <4>1
      <4> QED BY <2>3, <2>4, <3>1, <4>2
    <3>2. CASE i = Len(rs) + 1
      <4>1. Len(rs) + 1 \in 1 .. (Len(rs) + 1) /\ (Len(rs) + 1) + 1 = Len(rs) + 2
        BY <2>2
      <4>2. s[i] = <<>> \o e /\ s[i + 1] = <<>>
        BY <2>2, <2>5, <3>2, <4>1
      <4>3. <<>> \o e = e /\ e \o <<>> = e
        BY <1>4, ConcatEmptySeq DEF Bytes
      <4>4. e = Encode(q[i].resp)
        BY <2>3, <3>2 DEF e
      <4> QED BY <4>2, <4>3, <4>4
    <3>3. i \in 1 .. Len(rs) \/ i = Len(rs) + 1
      BY <2>2, <2>3
    <3> QED BY <3>1, <3>2, <3>3
  <2>8. s[Len(q) + 1] = <<>>
    <3>1. Len(q) + 1 = Len(rs) + 2
      BY <2>2, <2>3
    <3> QED BY <2>5, <3>1
  <2>9. Queued(c, q, s)
    BY <2>3, <2>6, <2>7, <2>8 DEF Queued
  <2>10. /\ asked[c] \in Seq(Commands) /\ wire[c] \in Bytes /\ buffer[c] \in Bytes
         /\ asked'[c] = Append(asked[c], r.cmd) /\ wire'[c] = wire[c] \o e
    BY <1>1, <1>2 DEF RedisTypes
  <2>11. buffer'[c] \o (wire'[c] \o <<>>) = s[1]
    <3>1. s[1] = suffix[1] \o e
      <4>1. 1 \in 1 .. (Len(rs) + 1)
        BY <2>2
      <4> QED BY <2>5, <4>1
    <3>2. wire[c] \o e \in Bytes
      BY <1>4, <2>10, ConcatProperties DEF Bytes
    <3>3. (wire[c] \o e) \o <<>> = wire[c] \o e /\ wire[c] \o <<>> = wire[c]
      BY <2>10, <3>2, ConcatEmptySeq DEF Bytes
    <3>4. (buffer[c] \o wire[c]) \o e = buffer[c] \o (wire[c] \o e)
      <4>1. Reassociates(buffer[c], wire[c], e)
        BY <1>4, <2>10, Associative
      <4> QED BY <4>1 DEF Reassociates
    <3> QED BY <1>2, <2>2, <2>10, <3>1, <3>3, <3>4
  <2>12. Len(asked'[c]) = Len(asked[c]) + 1
    BY <1>3, <2>10, AppendProperties
  <2> DEFINE n == Len(rs)
             a == Len(answers[c])
             k == Len(asked[c])
  <2>13. /\ a \in Nat /\ n \in Nat /\ k = a + n
         /\ Len(q) = n + 1 /\ Len(asked'[c]) = k + 1 /\ Len(answers'[c]) = a
    BY <1>1, <1>5, <2>2, <2>3, <2>12
  <2> HIDE DEF n, a, k
  <2>14. Len(asked'[c]) = Len(answers'[c]) + Len(q) /\ a + (n + 1) = k + 1
    BY <2>13
  <2>15. ASSUME NEW i \in 1 .. Len(q)
         PROVE  asked'[c][Len(answers'[c]) + i] = q[i].cmd
    <3>1. CASE i \in 1 .. Len(rs)
      <4>1. Len(answers[c]) + i \in 1 .. Len(asked[c])
        BY <1>1, <2>2, <3>1
      <4>2. asked'[c][Len(answers[c]) + i] = asked[c][Len(answers[c]) + i]
        BY <1>3, <2>10, <4>1, AppendProperties
      <4> QED BY <1>5, <2>2, <2>3, <3>1, <4>2
    <3>2. CASE i = Len(rs) + 1
      <4>1. Len(answers[c]) + i = Len(asked[c]) + 1
        <5>1. i = n + 1
          BY <3>2 DEF n
        <5>2. a + i = k + 1
          BY <2>14, <5>1
        <5> QED BY <5>2 DEF a, k
      <4>2. asked'[c][Len(asked[c]) + 1] = r.cmd
        BY <1>3, <2>10, AppendProperties
      <4> QED BY <1>5, <2>3, <3>2, <4>1, <4>2
    <3>3. i \in 1 .. Len(rs) \/ i = Len(rs) + 1
      BY <2>2, <2>3
    <3> QED BY <3>1, <3>2, <3>3
  <2>16. <<>> \in Bytes
    BY EmptySeq DEF Bytes
  <2>17. Streams(c, q, s, <<>>)'
    BY <2>8, <2>9, <2>11, <2>14, <2>15, <2>16 DEF Streams
  <2> QED BY <2>17
<1>9. ASSUME NEW d \in Clients, d # c, pc'[d] # "closed"
      PROVE  \E q, s, l : Streams(d, q, s, l)'
  <2>1. PICK q, s, l : Streams(d, q, s, l)
    BY <1>2, <1>9 DEF RedisInv
  <2>2. wire'[d] = wire[d] /\ asked'[d] = asked[d]
    BY <1>1, <1>2, <1>9 DEF RedisTypes
  <2> QED BY <1>2, <1>5, <2>1, <2>2, OtherStream
<1> QED BY <1>2, <1>3, <1>6, <1>7, <1>8, <1>9 DEF RedisInv

LEMMA InlineStep ==
    ASSUME CodecSound(Bytes), RedisInv, NEW c \in Clients, SendInline(c)
    PROVE  RedisInv' /\ UNCHANGED <<store, asked, answers>>
<1> DEFINE e == InlineCommand
<1>1. RedisTypes /\ e \in Bytes
  BY InlineBytes DEF RedisInv
<1> HIDE DEF e
<1>2. /\ client[c] = "open" /\ client' = [client EXCEPT ![c] = "inline"]
      /\ wire' = [wire EXCEPT ![c] = wire[c] \o e]
      /\ UNCHANGED <<store, asked, buffer, pc, reply, replies>>
  BY DEF SendInline, e
<1>3. answers' = answers
  BY <1>2 DEF answers
<1>4. RedisTypes'
  <2>1. wire[c] \o e \in Bytes
    <3>1. wire[c] \in Bytes
      BY <1>1 DEF RedisTypes
    <3> QED BY <1>1, <3>1, ConcatProperties DEF Bytes
  <2>2. wire' \in [Clients -> Bytes]
    BY <1>1, <1>2, <2>1 DEF RedisTypes
  <2>3. client' \in [Clients -> {"open", "inline", "gone"}]
    BY <1>1, <1>2 DEF RedisTypes
  <2> QED BY <1>1, <1>2, <2>2, <2>3 DEF RedisTypes
<1>5. ASSUME pc[c] # "closed"
      PROVE  \E q, s, l : Streams(c, q, s, l)'
  <2>1. PICK rs, suffix, lost : Streams(c, rs, suffix, lost)
    BY <1>5 DEF RedisInv
  <2>2. /\ Queued(c, rs, suffix) /\ suffix[Len(rs) + 1] = <<>> /\ lost = <<>>
        /\ rs \in Seq(Requests[c]) /\ Len(rs) \in Nat
        /\ buffer[c] \o (wire[c] \o <<>>) = suffix[1]
        /\ Len(asked[c]) = Len(answers[c]) + Len(rs)
        /\ \A i \in 1 .. Len(rs) : asked[c][Len(answers[c]) + i] = rs[i].cmd
    BY <1>2, <2>1, LenProperties DEF Streams, Queued
  <2> DEFINE s == [i \in 1 .. (Len(rs) + 1) |-> suffix[i] \o e]
  <2>3. /\ \A i \in 1 .. (Len(rs) + 1) : suffix[i] \o e \in Bytes
        /\ \A i \in 1 .. Len(rs) :
              suffix[i] \o e = Encode(rs[i].resp) \o (suffix[i + 1] \o e)
    <3>1. Extends(rs, suffix, e)
      BY <1>1, <2>2, QueuedMore
    <3> QED BY <3>1 DEF Extends
  <2>4. /\ s \in [1 .. (Len(rs) + 1) -> Bytes]
        /\ \A i \in 1 .. (Len(rs) + 1) : s[i] = suffix[i] \o e
    BY <2>3
  <2> HIDE DEF s
  <2>5. ASSUME NEW i \in 1 .. Len(rs)
        PROVE  s[i] = Encode(rs[i].resp) \o s[i + 1]
    <3>1. i \in 1 .. (Len(rs) + 1) /\ i + 1 \in 1 .. (Len(rs) + 1)
      BY <2>2
    <3> QED BY <2>3, <2>4, <3>1
  <2>6. s[Len(rs) + 1] = InlineCommand
    <3>1. Len(rs) + 1 \in 1 .. (Len(rs) + 1)
      BY <2>2
    <3>2. <<>> \o e = e
      BY <1>1, ConcatEmptySeq DEF Bytes
    <3> QED BY <2>2, <2>4, <3>1, <3>2 DEF e
  <2>7. Queued(c, rs, s)
    BY <2>2, <2>4, <2>5, <2>6 DEF Queued
  <2>8. buffer'[c] \o (wire'[c] \o <<>>) = s[1]
    <3>1. s[1] = suffix[1] \o e
      <4>1. 1 \in 1 .. (Len(rs) + 1)
        BY <2>2
      <4> QED BY <2>4, <4>1
    <3>2. wire[c] \in Bytes /\ buffer[c] \in Bytes /\ wire'[c] = wire[c] \o e
      BY <1>1, <1>2 DEF RedisTypes
    <3>3. wire[c] \o e \in Bytes
      BY <1>1, <3>2, ConcatProperties DEF Bytes
    <3>4. (wire[c] \o e) \o <<>> = wire[c] \o e /\ wire[c] \o <<>> = wire[c]
      BY <3>2, <3>3, ConcatEmptySeq DEF Bytes
    <3>5. (buffer[c] \o wire[c]) \o e = buffer[c] \o (wire[c] \o e)
      <4>1. Reassociates(buffer[c], wire[c], e)
        BY <1>1, <3>2, Associative
      <4> QED BY <4>1 DEF Reassociates
    <3> QED BY <1>2, <2>2, <3>1, <3>2, <3>4, <3>5
  <2>9. client'[c] = "inline" /\ <<>> \in Bytes
    BY <1>1, <1>2, EmptySeq DEF Bytes, RedisTypes
  <2>10. asked'[c] = asked[c] /\ answers'[c] = answers[c]
    BY <1>2, <1>3
  <2>11. Streams(c, rs, s, <<>>)'
    BY <2>2, <2>7, <2>8, <2>9, <2>10 DEF Streams
  <2> QED BY <2>11
<1>6. ASSUME NEW d \in Clients, d # c, pc'[d] # "closed"
      PROVE  \E q, s, l : Streams(d, q, s, l)'
  <2>1. PICK q, s, l : Streams(d, q, s, l)
    BY <1>2, <1>6 DEF RedisInv
  <2>2. wire'[d] = wire[d] /\ client'[d] = client[d]
    BY <1>1, <1>2, <1>6 DEF RedisTypes
  <2> QED BY <1>2, <1>3, <2>1, <2>2, OtherStream
<1> QED BY <1>2, <1>3, <1>4, <1>5, <1>6 DEF RedisInv

(* What a client that goes away has not got through is lost.                 *)
LEMMA HangUpStep ==
    ASSUME RedisInv, NEW c \in Clients, HangUp(c)
    PROVE  RedisInv' /\ UNCHANGED <<store, asked, answers>>
<1>1. RedisTypes /\ wire[c] \in Bytes /\ buffer[c] \in Bytes
  BY DEF RedisInv, RedisTypes
<1>2. /\ client[c] # "gone" /\ client' = [client EXCEPT ![c] = "gone"]
      /\ UNCHANGED <<store, asked, buffer, pc, reply, replies>>
      /\ \E n \in {0, Len(wire[c])} : wire' = [wire EXCEPT ![c] = SubSeq(@, 1, n)]
  BY DEF HangUp
<1>3. answers' = answers
  BY <1>2 DEF answers
<1>4. /\ wire' = [wire EXCEPT ![c] = wire'[c]] /\ wire'[c] \in {<<>>, wire[c]}
  <2>1. PICK n \in {0, Len(wire[c])} : wire' = [wire EXCEPT ![c] = SubSeq(wire[c], 1, n)]
    BY <1>2
  <2>2. SubSeq(wire[c], 1, Len(wire[c])) = wire[c] /\ SubSeq(wire[c], 1, 0) = <<>>
    BY <1>1, SubSeqFull, SubSeqEmpty, LenProperties DEF Bytes
  <2>3. wire'[c] = SubSeq(wire[c], 1, n)
    BY <1>1, <2>1 DEF RedisTypes
  <2> QED BY <2>1, <2>2, <2>3
<1>5. /\ wire'[c] \in Bytes /\ client'[c] = "gone"
      /\ \A d \in Clients : d # c => wire'[d] = wire[d] /\ client'[d] = client[d]
  BY <1>1, <1>2, <1>4, EmptySeq DEF Bytes, RedisTypes
<1>6. RedisTypes'
  <2>1. wire' \in [Clients -> Bytes]
    BY <1>1, <1>4, <1>5 DEF RedisTypes
  <2>2. client' \in [Clients -> {"open", "inline", "gone"}]
    BY <1>1, <1>2 DEF RedisTypes
  <2> QED BY <1>1, <1>2, <2>1, <2>2 DEF RedisTypes
<1>7. ASSUME pc[c] # "closed"
      PROVE  \E q, s, l : Streams(c, q, s, l)'
  <2>1. PICK rs, suffix, lost : Streams(c, rs, suffix, lost)
    BY <1>7 DEF RedisInv
  <2>2. lost = <<>> /\ buffer[c] \o (wire[c] \o <<>>) = suffix[1]
    BY <1>2, <2>1 DEF Streams
  <2>3. wire[c] \o <<>> = wire[c] /\ <<>> \o wire[c] = wire[c] /\ <<>> \in Bytes
    BY <1>1, ConcatEmptySeq, EmptySeq DEF Bytes
  <2>4. asked'[c] = asked[c] /\ answers'[c] = answers[c] /\ buffer'[c] = buffer[c]
    BY <1>2, <1>3
  <2>5. CASE wire'[c] = <<>>
    <3>1. PICK l : l = wire[c]
      OBVIOUS
    <3>2. buffer'[c] \o (wire'[c] \o l) = suffix[1]
      BY <2>2, <2>3, <2>4, <2>5, <3>1
    <3>3. Streams(c, rs, suffix, l)'
      BY <1>1, <1>5, <2>1, <2>4, <2>5, <3>1, <3>2 DEF Streams
    <3> QED BY <3>3
  <2>6. CASE wire'[c] = wire[c]
    <3>1. buffer'[c] \o (wire'[c] \o <<>>) = suffix[1]
      BY <2>2, <2>4, <2>6
    <3>2. Streams(c, rs, suffix, <<>>)'
      BY <1>5, <2>1, <2>3, <2>4, <3>1 DEF Streams
    <3> QED BY <3>2
  <2> QED BY <1>4, <2>5, <2>6
<1>8. ASSUME NEW d \in Clients, d # c, pc'[d] # "closed"
      PROVE  \E q, s, l : Streams(d, q, s, l)'
  <2>1. PICK q, s, l : Streams(d, q, s, l)
    BY <1>2, <1>8 DEF RedisInv
  <2> QED BY <1>2, <1>3, <1>5, <1>8, <2>1, OtherStream
<1> QED BY <1>2, <1>3, <1>6, <1>7, <1>8 DEF RedisInv

LEMMA CloseStep ==
    ASSUME RedisInv, NEW c \in Clients, Disconnected(c) \/ FlushFails(c)
    PROVE  RedisInv' /\ UNCHANGED <<store, asked, answers>>
<1>1. /\ pc' = [pc EXCEPT ![c] = "closed"]
      /\ UNCHANGED <<store, asked, client, wire, buffer, reply, replies>>
  BY DEF Disconnected, FlushFails
<1>2. answers' = answers /\ RedisTypes
  BY <1>1 DEF answers, RedisInv
<1>3. RedisTypes'
  BY <1>1, <1>2 DEF RedisTypes
<1>4. ASSUME NEW d \in Clients, pc'[d] # "closed"
      PROVE  \E q, s, l : Streams(d, q, s, l)'
  <2>1. pc[d] # "closed"
    BY <1>1, <1>2, <1>4 DEF RedisTypes
  <2>2. PICK q, s, l : Streams(d, q, s, l)
    BY <2>1 DEF RedisInv
  <2> QED BY <1>1, <1>2, <2>2, OtherStream
<1> QED BY <1>1, <1>2, <1>3, <1>4 DEF RedisInv

LEMMA RedisStutters ==
    ASSUME RedisInv, UNCHANGED vars
    PROVE  RedisInv' /\ UNCHANGED <<store, asked, answers>>
<1>1. UNCHANGED <<store, asked, client, wire, buffer, pc, reply, replies>>
  BY DEF vars
<1>2. answers' = answers
  BY <1>1 DEF answers
<1>3. RedisTypes'
  BY <1>1 DEF RedisInv, RedisTypes
<1>4. ASSUME NEW d \in Clients, pc'[d] # "closed"
      PROVE  \E q, s, l : Streams(d, q, s, l)'
  <2>1. PICK q, s, l : Streams(d, q, s, l)
    BY <1>1, <1>4 DEF RedisInv
  <2> QED BY <1>1, <1>2, <2>1, OtherStream
<1> QED BY <1>1, <1>2, <1>3, <1>4 DEF RedisInv

LEMMA RedisStarts ==
    ASSUME CodecSound(Bytes), Init
    PROVE  RedisInv /\ Service!Init
<1>1. answers = [c \in Clients |-> <<>>]
  <2>1. Decoded(<<>>) = <<>> /\ <<>> \o <<>> = <<>>
    BY ConcatEmptySeq, EmptySeq DEF Decoded, Bytes
  <2>2. \A c \in Clients : replies[c] \o Decoded(reply[c]) = <<>>
    BY <2>1 DEF Init
  <2> QED BY <2>2 DEF answers
<1>2. Service!Init
  BY <1>1 DEF Init, Service!Init, Service!Empty
<1>3. RedisTypes
  BY EmptySeq DEF Init, RedisTypes, Bytes
<1>4. ASSUME NEW c \in Clients
      PROVE  \E q, s, l : Streams(c, q, s, l)
  <2> DEFINE q == <<>>
             s == [i \in 1 .. 1 |-> <<>>]
  <2>1. q \in Seq(Requests[c]) /\ Len(q) = 0 /\ <<>> \in Bytes
    BY EmptySeq DEF Bytes
  <2>2. s \in [1 .. (Len(q) + 1) -> Bytes] /\ s[1] = <<>>
    BY <2>1
  <2> HIDE DEF q, s
  <2>3. Queued(c, q, s)
    BY <2>1, <2>2 DEF Queued
  <2>4. /\ buffer[c] = <<>> /\ wire[c] = <<>> /\ asked[c] = <<>> /\ answers[c] = <<>>
        /\ <<>> \o (<<>> \o <<>>) = <<>>
    <3>1. <<>> \o <<>> = <<>>
      BY <2>1, ConcatEmptySeq DEF Bytes
    <3> QED BY <1>1, <3>1 DEF Init
  <2>5. Streams(c, q, s, <<>>)
    BY <2>1, <2>2, <2>3, <2>4 DEF Streams
  <2> QED BY <2>5
<1> QED BY <1>2, <1>3, <1>4 DEF RedisInv

(* Every step of the server is a step of the service, or none of it.         *)
LEMMA RedisSteps ==
    ASSUME CodecSound(Bytes), RedisInv, [Next]_vars
    PROVE  RedisInv' /\ [Service!Next]_Service!vars
<1>1. CASE UNCHANGED vars
  BY <1>1, RedisStutters DEF Service!vars
<1>2. CASE Next
  <2>1. PICK c \in Clients :
          \/ \E r \in Requests[c] : Send(c, r)
          \/ SendInline(c) \/ HangUp(c) \/ Serve(c)
    BY <1>2 DEF Next
  <2>2. ASSUME NEW r \in Requests[c], Send(c, r)
        PROVE  RedisInv' /\ [Service!Next]_Service!vars
    <3>1. RedisInv' /\ Service!Ask(c, r.cmd) /\ r.cmd \in Commands
      BY <2>2, SendStep
    <3> QED BY <3>1 DEF Service!Next
  <2>3. CASE SendInline(c)
    BY <2>3, InlineStep DEF Service!vars
  <2>4. CASE HangUp(c)
    BY <2>4, HangUpStep DEF Service!vars
  <2>5. CASE read_more(c)
    <3>1. RedisInv' /\ (Service!Answer(c) \/ UNCHANGED <<store, asked, answers>>)
      BY <2>5, ReadMore
    <3> QED BY <3>1 DEF Service!Next, Service!vars
  <2>6. CASE Flush(c)
    <3>1. RedisInv' /\ (Service!Answer(c) \/ UNCHANGED <<store, asked, answers>>)
      BY <2>6, FlushStep
    <3> QED BY <3>1 DEF Service!Next, Service!vars
  <2>7. CASE Disconnected(c) \/ FlushFails(c)
    BY <2>7, CloseStep DEF Service!vars
  <2> QED BY <2>1, <2>2, <2>3, <2>4, <2>5, <2>6, <2>7 DEF Serve
<1> QED BY <1>1, <1>2

(* However its stream is cut into reads, however many requests a client      *)
(* sends ahead of the answers and wherever it stops, each request that is    *)
(* executed is the oldest one without an answer, is executed once and in one *)
(* step, and gets its own result (handle_loop and read_more of               *)
(* mini_redis/bin/main.ml), for every codec that loses no request: the       *)
(* server implements KeyValue.                                               *)
THEOREM CommandsInOrder ==
    ASSUME CodecSound(Bytes)
    PROVE  Spec => ImplementsKeyValue
<1>1. Init => RedisInv /\ Service!Init
  BY RedisStarts
<1>2. RedisInv /\ [Next]_vars => RedisInv' /\ [Service!Next]_Service!vars
  BY RedisSteps
<1> QED BY <1>1, <1>2, PTL DEF Spec, Service!Spec, ImplementsKeyValue

-------------------------------------------------------------------------------
(* Recursion over a number. *)

(* Every set of naturals has a least element.                                *)
LEMMA LeastElement ==
    ASSUME NEW T, T \subseteq Nat, T # {}
    PROVE  \E m \in T : \A k \in T : m <= k
<1>1. PICK m \in T : \A k \in T : ~(<<k, m>> \in OpToRel(<, Nat))
  BY NatLessThanWellFounded, WFMin
<1>2. \A k \in T : ~(k < m)
  BY <1>1 DEF OpToRel
<1>3. \A k \in T : m <= k
  BY <1>2
<1> QED BY <1>3

(* A function that is defined by recursion over a number exists.             *)
Follows(f, v, next, n) == f[0] = v /\ \A k \in 1 .. n : f[k] = next[<<f[k - 1], k>>]

LEMMA Recursion ==
    ASSUME NEW S, NEW n \in Nat, NEW v \in S, NEW next \in [S \X (1 .. n) -> S]
    PROVE  \E f \in [0 .. n -> S] : Follows(f, v, next, n)
<1> DEFINE T == {m \in 0 .. n : ~ \E f \in [0 .. m -> S] : Follows(f, v, next, m)}
<1>1. SUFFICES ASSUME T # {} PROVE FALSE
  OBVIOUS
<1>2. PICK m \in T : \A k \in T : m <= k
  <2>1. T \subseteq Nat
    OBVIOUS
  <2> HIDE DEF T
  <2> QED BY <1>1, <2>1, LeastElement
<1>3. m \in 0 .. n /\ ~ \E f \in [0 .. m -> S] : Follows(f, v, next, m)
  OBVIOUS
<1>4. CASE m = 0
  <2> DEFINE f == [k \in 0 .. 0 |-> v]
  <2>1. f \in [0 .. 0 -> S] /\ Follows(f, v, next, 0)
    BY DEF Follows
  <2> QED BY <1>3, <1>4, <2>1
<1>5. CASE m # 0
  <2>1. m - 1 \in 0 .. n /\ m \in 1 .. n /\ m - 1 \notin T
    BY <1>2, <1>3, <1>5
  <2>2. PICK g \in [0 .. (m - 1) -> S] : Follows(g, v, next, m - 1)
    BY <2>1
  <2> HIDE DEF T
  <2> DEFINE f == [k \in 0 .. m |-> IF k = m THEN next[<<g[m - 1], m>>] ELSE g[k]]
  <2>3. next[<<g[m - 1], m>>] \in S
    <3>1. g[m - 1] \in S
      BY <2>1
    <3>2. <<g[m - 1], m>> \in S \X (1 .. n)
      BY <2>1, <3>1
    <3> QED BY <3>2
  <2>4. /\ f \in [0 .. m -> S] /\ f[m] = next[<<g[m - 1], m>>]
        /\ \A k \in 0 .. (m - 1) : f[k] = g[k]
    <3>1. \A k \in 0 .. m : k # m => k \in 0 .. (m - 1)
      BY <2>1
    <3>2. m \in 0 .. m /\ \A k \in 0 .. (m - 1) : k \in 0 .. m /\ k # m
      BY <2>1
    <3> QED BY <2>3, <3>1, <3>2
  <2> HIDE DEF f
  <2>5. f[0] = v
    BY <2>1, <2>2, <2>4 DEF Follows
  <2>6. ASSUME NEW k \in 1 .. m PROVE f[k] = next[<<f[k - 1], k>>]
    <3>1. CASE k = m
      <4>1. m - 1 \in 0 .. (m - 1)
        BY <2>1
      <4> QED BY <2>4, <3>1, <4>1
    <3>2. CASE k \in 1 .. (m - 1)
      <4>1. k \in 0 .. (m - 1) /\ k - 1 \in 0 .. (m - 1)
        BY <2>1, <3>2
      <4> QED BY <2>2, <2>4, <3>2, <4>1 DEF Follows
    <3> QED BY <2>1, <3>1, <3>2
  <2> QED BY <1>3, <2>4, <2>5, <2>6 DEF Follows
<1> QED BY <1>4, <1>5

-------------------------------------------------------------------------------
(* Numbers and their digits.                                                 *)

LEMMA DigitRead ==
    ASSUME NEW n \in 0 .. 9
    PROVE  /\ DigitOf(Digit[n + 1]) = n
           /\ Digit[n + 1] \in Range(Digit)
           /\ Digit[n + 1] \notin {"CR", "LF", "-"}
<1> DEFINE D == Digit
<1>1. DOMAIN D = 1 .. 10
  BY DEF Digit
<1>2. /\ D[1] = "0" /\ D[2] = "1" /\ D[3] = "2" /\ D[4] = "3" /\ D[5] = "4"
      /\ D[6] = "5" /\ D[7] = "6" /\ D[8] = "7" /\ D[9] = "8" /\ D[10] = "9"
  BY DEF Digit
<1> HIDE DEF D
<1>3. \A i, j \in 1 .. 10 : D[i] = D[j] => i = j
  <2> SUFFICES ASSUME NEW i \in 1 .. 10, NEW j \in 1 .. 10, D[i] = D[j]
               PROVE  i = j
    OBVIOUS
  <2>1. /\ i \in {1, 2, 3, 4, 5, 6, 7, 8, 9, 10}
        /\ j \in {1, 2, 3, 4, 5, 6, 7, 8, 9, 10}
    OBVIOUS
  <2> QED BY <1>2, <2>1
<1>4. \A i \in 1 .. 10 : D[i] \notin {"CR", "LF", "-"}
  <2> SUFFICES ASSUME NEW i \in 1 .. 10
               PROVE  D[i] \notin {"CR", "LF", "-"}
    OBVIOUS
  <2>1. i \in {1, 2, 3, 4, 5, 6, 7, 8, 9, 10}
    OBVIOUS
  <2> QED BY <1>2, <2>1
<1>5. n + 1 \in 1 .. 10 /\ \A k \in 0 .. 9 : k + 1 \in 1 .. 10
  OBVIOUS
<1>6. \A k \in 0 .. 9 : D[k + 1] = D[n + 1] => k = n
  <2> SUFFICES ASSUME NEW k \in 0 .. 9, D[k + 1] = D[n + 1] PROVE k = n
    OBVIOUS
  <2>1. k + 1 = n + 1
    BY <1>3, <1>5
  <2> QED BY <2>1
<1>7. DigitOf(D[n + 1]) = n
  BY <1>6 DEF DigitOf, D
<1>8. D[n + 1] \in Range(D)
  BY <1>1, <1>5 DEF Range
<1> QED BY <1>4, <1>5, <1>7, <1>8 DEF D

(* What is left of m without its last i digits.                              *)
Lefts(left, m) == left = [i \in 0 .. (m + 1) |-> IF i = 0 THEN m ELSE left[i - 1] \div 10]

LEMMA LeftsExist == ASSUME NEW m \in Nat PROVE \E left : Lefts(left, m)
<1> DEFINE next == [x \in Nat \X (1 .. (m + 1)) |-> x[1] \div 10]
<1>1. next \in [Nat \X (1 .. (m + 1)) -> Nat]
  <2>1. \A k \in Nat : k \div 10 \in Nat
    OBVIOUS
  <2> QED BY <2>1
<1>2. PICK left \in [0 .. (m + 1) -> Nat] : Follows(left, m, next, m + 1)
  <2> HIDE DEF next
  <2>1. m + 1 \in Nat
    OBVIOUS
  <2> QED BY <1>1, <2>1, Recursion
<1>3. ASSUME NEW i \in 0 .. (m + 1)
      PROVE  left[i] = IF i = 0 THEN m ELSE left[i - 1] \div 10
  <2>1. CASE i = 0
    BY <1>2, <2>1 DEF Follows
  <2>2. CASE i # 0
    <3>1. i \in 1 .. (m + 1) /\ i - 1 \in 0 .. (m + 1) /\ left[i - 1] \in Nat
      BY <1>2, <2>2
    <3>2. left[i] = next[<<left[i - 1], i>>]
      BY <1>2, <3>1 DEF Follows
    <3> QED BY <2>2, <3>1, <3>2
  <2> QED BY <2>1, <2>2
<1>4. left = [i \in 0 .. (m + 1) |-> IF i = 0 THEN m ELSE left[i - 1] \div 10]
  BY <1>2, <1>3
<1> QED BY <1>4 DEF Lefts

(* A digit less leaves a smaller number, until nothing is left.              *)
LEMMA LeftsShrink ==
    ASSUME NEW m \in Nat, NEW left, Lefts(left, m)
    PROVE  /\ \A i \in 0 .. (m + 1) : left[i] \in Nat
           /\ left[0] = m /\ left[m + 1] = 0
           /\ \A i \in 0 .. m : left[i + 1] = left[i] \div 10
<1>1. /\ left[0] = m
      /\ \A i \in 1 .. (m + 1) : left[i] = left[i - 1] \div 10
  <2>1. \A i \in 0 .. (m + 1) : left[i] = IF i = 0 THEN m ELSE left[i - 1] \div 10
    BY DEF Lefts
  <2>2. 0 \in 0 .. (m + 1) /\ \A i \in 1 .. (m + 1) : i \in 0 .. (m + 1) /\ i # 0
    OBVIOUS
  <2> QED BY <2>1, <2>2
<1> DEFINE Good(i) == left[i] \in Nat /\ (left[i] = 0 \/ left[i] + i <= m)
           T == {i \in 0 .. (m + 1) : ~Good(i)}
<1>2. \A i \in 0 .. (m + 1) : Good(i)
  <2>1. SUFFICES ASSUME T # {} PROVE FALSE
    OBVIOUS
  <2>2. PICK j \in T : \A k \in T : j <= k
    <3>1. T \subseteq Nat
      OBVIOUS
    <3> HIDE DEF T
    <3> QED BY <2>1, <3>1, LeastElement
  <2>3. CASE j = 0
    BY <1>1, <2>2, <2>3
  <2>4. CASE j # 0
    <3>1. j - 1 \in 0 .. (m + 1) /\ j \in 1 .. (m + 1) /\ j - 1 \notin T
      BY <2>2, <2>4
    <3>2. Good(j - 1) /\ left[j] = left[j - 1] \div 10
      BY <1>1, <3>1
    <3>3. Good(j)
      <4> DEFINE l == left[j - 1]
      <4>1. l \in Nat /\ (l = 0 \/ l + (j - 1) <= m) /\ left[j] = l \div 10
        BY <3>2
      <4> HIDE DEF l
      <4>2. l \div 10 \in Nat /\ (l \div 10 = 0 \/ (l \div 10) + j <= m)
        BY <3>1, <4>1
      <4> QED BY <4>1, <4>2
    <3> QED BY <2>2, <3>3
  <2> QED BY <2>3, <2>4
<1>3. left[m + 1] = 0
  <2>1. m + 1 \in 0 .. (m + 1)
    OBVIOUS
  <2>2. left[m + 1] \in Nat /\ (left[m + 1] = 0 \/ left[m + 1] + (m + 1) <= m)
    BY <1>2, <2>1
  <2> QED BY <2>2
<1>4. ASSUME NEW i \in 0 .. m PROVE left[i + 1] = left[i] \div 10
  <2>1. i + 1 \in 1 .. (m + 1) /\ (i + 1) - 1 = i
    OBVIOUS
  <2> QED BY <1>1, <2>1
<1> QED BY <1>1, <1>2, <1>3, <1>4

(* A numeral has a digit for each step until nothing is left.                *)
NumeralIs(s, left, m) ==
    /\ Lefts(left, m)
    /\ \E width \in 1 .. (m + 1) :
          left[width] = 0 /\ s = [i \in 1 .. width |-> Digit[(left[width - i] % 10) + 1]]

LEMMA MinOf ==
    ASSUME NEW S, S \subseteq Nat, S # {}
    PROVE  Min(S) \in S
<1>1. \E m \in S : \A k \in S : m <= k
  BY LeastElement
<1> QED BY <1>1 DEF Min

LEMMA NumeralOf ==
    ASSUME NEW m \in Nat
    PROVE  \E left : NumeralIs(Numeral(m), left, m)
<1> DEFINE left == CHOOSE f : f = [i \in 0 .. (m + 1) |-> IF i = 0 THEN m ELSE f[i - 1] \div 10]
           S == {i \in 1 .. (m + 1) : left[i] = 0}
           width == Min(S)
<1>1. Lefts(left, m)
  BY LeftsExist DEF Lefts
<1>2. Numeral(m) = [i \in 1 .. width |-> Digit[(left[width - i] % 10) + 1]]
  BY DEF Numeral
<1> HIDE DEF left
<1>3. width \in S
  <2>1. m + 1 \in S
    BY <1>1, LeftsShrink
  <2>2. S \subseteq Nat
    OBVIOUS
  <2> HIDE DEF S
  <2> QED BY <2>1, <2>2, MinOf
<1>4. width \in 1 .. (m + 1) /\ left[width] = 0
  BY <1>3
<1> QED BY <1>1, <1>2, <1>4 DEF NumeralIs

LEMMA LastDigit ==
    ASSUME NEW l \in Nat
    PROVE  l % 10 \in 0 .. 9 /\ l = 10 * (l \div 10) + (l % 10)
OBVIOUS

(* What a numeral says up to each of its digits.                             *)
Values(value, s) ==
    value = [i \in 0 .. Len(s) |-> IF i = 0 THEN 0 ELSE 10 * value[i - 1] + DigitOf(s[i])]

LEMMA DecimalIs ==
    ASSUME NEW s, Len(s) \in Nat, NEW value, Values(value, s)
    PROVE  Decimal(s) = value[Len(s)]
<1> DEFINE n == Len(s)
           f == CHOOSE v : v = [i \in 0 .. Len(s) |-> IF i = 0 THEN 0 ELSE 10 * v[i - 1] + DigitOf(s[i])]
           T == {i \in 0 .. n : f[i] # value[i]}
<1>1. Decimal(s) = f[n]
  BY DEF Decimal
<1>2. Values(f, s)
  BY DEF Values
<1> HIDE DEF f
<1>3. /\ \A i \in 0 .. n : f[i] = IF i = 0 THEN 0 ELSE 10 * f[i - 1] + DigitOf(s[i])
      /\ \A i \in 0 .. n : value[i] = IF i = 0 THEN 0 ELSE 10 * value[i - 1] + DigitOf(s[i])
  BY <1>2 DEF Values
<1>4. n \in Nat
  OBVIOUS
<1> HIDE DEF n
<1>5. T = {}
  <2>1. SUFFICES ASSUME T # {} PROVE FALSE
    OBVIOUS
  <2>2. PICK j \in T : \A k \in T : j <= k
    <3>1. T \subseteq Nat
      BY <1>4
    <3> HIDE DEF T
    <3> QED BY <2>1, <3>1, LeastElement
  <2>3. j # 0
    BY <1>3, <2>2
  <2>4. j - 1 \in 0 .. n /\ j - 1 \notin T
    BY <1>4, <2>2, <2>3
  <2>5. f[j - 1] = value[j - 1]
    BY <2>4
  <2> QED BY <1>3, <2>2, <2>3, <2>5
<1>6. n \in 0 .. n
  BY <1>4
<1> QED BY <1>1, <1>5, <1>6 DEF n

LEMMA NumeralProperties ==
    ASSUME NEW m \in Nat
    PROVE  /\ IsNumeral(Numeral(m)) /\ Decimal(Numeral(m)) = m
           /\ Len(Numeral(m)) \in Nat /\ Len(Numeral(m)) > 0
           /\ \A i \in 1 .. Len(Numeral(m)) : Numeral(m)[i] \notin {"CR", "LF", "-"}
           /\ Numeral(m) \in Seq(Range(Digit))
<1> DEFINE s == Numeral(m)
<1>1. PICK left : NumeralIs(s, left, m)
  BY NumeralOf
<1>2. PICK width \in 1 .. (m + 1) :
          left[width] = 0 /\ s = [i \in 1 .. width |-> Digit[(left[width - i] % 10) + 1]]
  BY <1>1 DEF NumeralIs
<1>3. /\ \A i \in 0 .. (m + 1) : left[i] \in Nat
      /\ left[0] = m /\ \A i \in 0 .. m : left[i + 1] = left[i] \div 10
  BY <1>1, LeftsShrink DEF NumeralIs
<1> HIDE DEF s
<1>4. ASSUME NEW i \in 1 .. width
      PROVE  /\ s[i] \in Range(Digit) /\ s[i] \notin {"CR", "LF", "-"}
             /\ DigitOf(s[i]) = left[width - i] % 10
  <2>1. width - i \in 0 .. (m + 1)
    OBVIOUS
  <2>2. left[width - i] % 10 \in 0 .. 9
    BY <1>3, <2>1, LastDigit
  <2>3. s[i] = Digit[(left[width - i] % 10) + 1]
    BY <1>2
  <2> QED BY <2>2, <2>3, DigitRead
<1>5. Len(s) = width /\ s \in Seq(Range(Digit)) /\ s # <<>>
  <2>1. s \in [1 .. width -> Range(Digit)]
    BY <1>2, <1>4
  <2>2. s \in Seq(Range(Digit)) /\ Len(s) = width
    BY <2>1, SeqDef
  <2> QED BY <2>2
<1>6. IsNumeral(s)
  BY <1>4, <1>5 DEF IsNumeral
<1>7. width - 0 = width /\ width - width = 0 /\ width \in 0 .. width /\ width \in Nat
  OBVIOUS
<1> DEFINE value == [i \in 0 .. width |-> left[width - i]]
<1>8. Values(value, s)
  <2>1. ASSUME NEW i \in 1 .. width
        PROVE  value[i] = 10 * value[i - 1] + DigitOf(s[i])
    <3> DEFINE n == left[width - (i - 1)]
               l == left[width - i]
    <3>1. width - i \in 0 .. m /\ width - (i - 1) = (width - i) + 1 /\ width - i \in 0 .. (m + 1)
      OBVIOUS
    <3>2. n = l \div 10 /\ l \in Nat
      BY <1>3, <3>1
    <3>3. DigitOf(s[i]) = l % 10
      BY <1>4
    <3>4. value[i] = l /\ value[i - 1] = n
      OBVIOUS
    <3> HIDE DEF n, l
    <3>5. l = 10 * (l \div 10) + (l % 10)
      BY <3>2, LastDigit
    <3> HIDE DEF value
    <3> QED BY <3>2, <3>3, <3>4, <3>5
  <2>2. value[0] = 0
    BY <1>2, <1>7
  <2>3. value = [i \in 0 .. width |-> value[i]]
    OBVIOUS
  <2> HIDE DEF value
  <2>4. \A i \in 0 .. width : value[i] = IF i = 0 THEN 0 ELSE 10 * value[i - 1] + DigitOf(s[i])
    BY <2>1, <2>2
  <2> QED BY <1>5, <2>3, <2>4 DEF Values
<1>9. value[width] = m
  BY <1>3, <1>7
<1> HIDE DEF value
<1>10. Decimal(s) = m
  BY <1>5, <1>7, <1>8, <1>9, DecimalIs
<1> QED BY <1>4, <1>5, <1>6, <1>10 DEF s

(* A number is read as it was printed.                                       *)
LEMMA NumberReadBack ==
    ASSUME NEW i \in Int
    PROVE  /\ string_of_int(i) \in Seq(Range(Digit) \cup {"-"})
           /\ IsNumber(string_of_int(i)) /\ int_of_string(string_of_int(i)) = i
           /\ \A k \in 1 .. Len(string_of_int(i)) : string_of_int(i)[k] \notin {"CR", "LF"}
<1> DEFINE s == string_of_int(i)
           D == Range(Digit) \cup {"-"}
<1>1. CASE i >= 0
  <2>1. i \in Nat /\ s = Numeral(i)
    BY <1>1 DEF string_of_int
  <2>2. /\ IsNumeral(s) /\ Decimal(s) = i /\ Len(s) \in Nat /\ Len(s) > 0
        /\ \A k \in 1 .. Len(s) : s[k] \notin {"CR", "LF", "-"}
        /\ s \in Seq(Range(Digit))
    BY <2>1, NumeralProperties
  <2> HIDE DEF s
  <2>3. s[1] # "-"
    BY <2>2
  <2>4. s \in Seq(D)
    BY <2>2
  <2> QED BY <2>2, <2>3, <2>4 DEF IsNumber, int_of_string, s
<1>2. CASE i < 0
  <2> DEFINE t == Numeral(-i)
  <2>1. -i \in Nat /\ -(-i) = i /\ s = <<"-">> \o t
    BY <1>2 DEF string_of_int
  <2>2. /\ IsNumeral(t) /\ Decimal(t) = -i /\ Len(t) \in Nat /\ Len(t) > 0
        /\ \A k \in 1 .. Len(t) : t[k] \notin {"CR", "LF", "-"}
        /\ t \in Seq(Range(Digit))
    BY <2>1, NumeralProperties
  <2> HIDE DEF s, t
  <2>3. t \in Seq(D) /\ <<"-">> \in Seq(D)
    BY <2>2
  <2>4. /\ s \in Seq(D) /\ Len(s) = Len(t) + 1 /\ s[1] = "-"
        /\ \A k \in 1 .. Len(t) : s[k + 1] = t[k]
    <3> HIDE DEF D
    <3>1. <<"-">> \in Seq(D) /\ Len(<<"-">>) = 1 /\ <<"-">>[1] = "-"
      BY <2>3
    <3> DEFINE one == <<"-">>
    <3> HIDE DEF one
    <3>2. one \in Seq(D) /\ Len(one) = 1 /\ one[1] = "-" /\ s = one \o t
      BY <2>1, <3>1 DEF one
    <3>3. /\ s \in Seq(D) /\ Len(s) = Len(one) + Len(t)
          /\ \A k \in 1 .. Len(one) + Len(t) :
                s[k] = IF k <= Len(one) THEN one[k] ELSE t[k - Len(one)]
      BY <2>3, <3>2, ConcatProperties
    <3>4. \A k \in 1 .. Len(s) : s[k] = IF k <= 1 THEN one[k] ELSE t[k - 1]
      BY <2>2, <3>2, <3>3
    <3>5. s[1] = "-"
      <4>1. 1 \in 1 .. Len(s)
        BY <2>2, <3>2, <3>3
      <4> QED BY <3>2, <3>4, <4>1
    <3>6. ASSUME NEW k \in 1 .. Len(t) PROVE s[k + 1] = t[k]
      <4>1. k + 1 \in 1 .. Len(s) /\ ~(k + 1 <= 1) /\ (k + 1) - 1 = k
        BY <2>2, <3>2, <3>3
      <4> QED BY <3>4, <4>1
    <3> QED BY <2>2, <3>2, <3>3, <3>5, <3>6
  <2>5. s # <<>> /\ Tail(s) = t
    <3>1. s # <<>>
      BY <2>2, <2>4
    <3>2. /\ Tail(s) \in Seq(D) /\ Len(Tail(s)) = Len(t)
          /\ \A k \in 1 .. Len(t) : Tail(s)[k] = s[k + 1]
      BY <2>2, <2>4, <3>1, HeadTailProperties
    <3> QED BY <2>3, <2>4, <3>1, <3>2, SeqEqual
  <2>6. \A k \in 1 .. Len(s) : s[k] \notin {"CR", "LF"}
    <3> SUFFICES ASSUME NEW k \in 1 .. Len(s) PROVE s[k] \notin {"CR", "LF"}
      OBVIOUS
    <3>1. CASE k = 1
      BY <2>4, <3>1
    <3>2. CASE k # 1
      <4>1. k - 1 \in 1 .. Len(t) /\ (k - 1) + 1 = k
        BY <2>2, <2>4, <3>2
      <4> QED BY <2>2, <2>4, <4>1
    <3> QED BY <3>1, <3>2
  <2>7. IsNumber(s) /\ int_of_string(s) = i
    BY <2>1, <2>2, <2>4, <2>5 DEF IsNumber, int_of_string
  <2> QED BY <2>4, <2>6, <2>7 DEF s
<1> QED BY <1>1, <1>2

LEMMA MinusOne == IsNumber(<<"-", "1">>) /\ int_of_string(<<"-", "1">>) = -1
<1> DEFINE s == <<"-", "1">>
           t == <<"1">>
           value == [i \in 0 .. 1 |-> i]
<1>1. s # <<>> /\ s[1] = "-" /\ Tail(s) = t /\ Len(t) = 1 /\ t[1] = "1" /\ t # <<>>
  OBVIOUS
<1>2. Digit[2] = "1"
  BY DEF Digit
<1>3. DigitOf("1") = 1 /\ "1" \in Range(Digit)
  <2>1. 1 \in 0 .. 9 /\ 1 + 1 = 2
    OBVIOUS
  <2> QED BY <1>2, <2>1, DigitRead
<1> HIDE DEF s, t
<1>4. IsNumeral(t)
  BY <1>1, <1>3 DEF IsNumeral
<1>5. Values(value, t)
  <2>1. \A i \in 0 .. 1 : i = IF i = 0 THEN 0 ELSE 10 * value[i - 1] + DigitOf(t[i])
    <3> SUFFICES ASSUME NEW i \in 0 .. 1
                 PROVE  i = IF i = 0 THEN 0 ELSE 10 * value[i - 1] + DigitOf(t[i])
      OBVIOUS
    <3>1. i \in {0, 1} /\ value[0] = 0
      OBVIOUS
    <3>2. DigitOf(t[1]) = 1
      BY <1>1, <1>3
    <3>3. 10 * value[1 - 1] = 0
      BY <3>1
    <3> HIDE DEF value
    <3> QED BY <3>1, <3>2, <3>3
  <2>2. value = [i \in 0 .. 1 |-> IF i = 0 THEN 0 ELSE 10 * value[i - 1] + DigitOf(t[i])]
    BY <2>1
  <2> QED BY <1>1, <2>2 DEF Values
<1>6. Decimal(t) = 1
  <2>1. Decimal(t) = value[1]
    <3> HIDE DEF value
    <3>1. Len(t) \in Nat /\ Len(t) = 1
      BY <1>1
    <3>2. Decimal(t) = value[Len(t)]
      BY <1>5, <3>1, DecimalIs
    <3> QED BY <3>1, <3>2
  <2> QED BY <2>1
<1> QED BY <1>1, <1>4, <1>6 DEF IsNumber, int_of_string, s

-------------------------------------------------------------------------------
(* Buffers: what decode has in hand, and what it has behind an element.      *)

Char == Byte \cup Range(Digit) \cup {"+", "-", ":", "$", "*", "CR", "LF"}
Chars == Seq(Char)

(* The bytes in hand and those expected are the same as far as both go.      *)
Agree(c, e) == \A i \in 1 .. Len(c) : i <= Len(e) => c[i] = e[i]

Drop(c, n) == SubSeq(c, n + 1, Len(c))

LEMMA DropIs ==
    ASSUME NEW c \in Bytes, NEW n \in 0 .. Len(c)
    PROVE  /\ Drop(c, n) \in Bytes /\ Len(Drop(c, n)) = Len(c) - n
           /\ \A i \in 1 .. (Len(c) - n) : Drop(c, n)[i] = c[n + i]
<1>1. Len(c) \in Nat /\ \A i \in 1 .. Len(c) : c[i] \in Byte
  BY LenProperties, ElementOfSeq DEF Bytes
<1> DEFINE l == Len(c)
           d == SubSeq(c, n + 1, l)
<1>2. l \in Nat /\ n \in 0 .. l /\ \A i \in 1 .. l : c[i] \in Byte
  BY <1>1
<1>3. Drop(c, n) = d
  BY DEF Drop
<1> HIDE DEF l
<1>4. \A i \in (n + 1) .. l : c[i] \in Byte
  BY <1>2
<1>5. /\ d \in Seq(Byte)
      /\ Len(d) = IF n + 1 <= l THEN l - (n + 1) + 1 ELSE 0
      /\ \A i \in 1 .. l - (n + 1) + 1 : d[i] = c[(n + 1) + i - 1]
  <2>1. n + 1 \in Int /\ l \in Int
    BY <1>2
  <2> QED BY <1>4, <2>1, SubSeqProperties
<1>6. Len(d) = l - n
  BY <1>2, <1>5
<1> HIDE DEF d
<1>7. \A i \in 1 .. (l - n) : d[i] = c[n + i]
  <2>1. l - (n + 1) + 1 = l - n /\ \A i \in 1 .. (l - n) : (n + 1) + i - 1 = n + i
    BY <1>2
  <2> QED BY <1>5, <2>1
<1> QED BY <1>3, <1>5, <1>6, <1>7 DEF Bytes, l

LEMMA SameBytes ==
    ASSUME NEW a \in Bytes, NEW b \in Bytes, Len(a) = Len(b), \A i \in 1 .. Len(a) : a[i] = b[i]
    PROVE  a = b
BY SeqEqual DEF Bytes

LEMMA DropAll == ASSUME NEW c \in Bytes PROVE Drop(c, 0) = c /\ Len(c) \in Nat
<1>1. Len(c) \in Nat
  BY LenProperties DEF Bytes
<1>2. /\ Drop(c, 0) \in Bytes /\ Len(Drop(c, 0)) = Len(c)
      /\ \A i \in 1 .. Len(c) : Drop(c, 0)[i] = c[i]
  <2>1. 0 \in 0 .. Len(c)
    BY <1>1
  <2> DEFINE l == Len(c)
  <2>2. /\ Drop(c, 0) \in Bytes /\ Len(Drop(c, 0)) = l - 0
        /\ \A i \in 1 .. (l - 0) : Drop(c, 0)[i] = c[0 + i]
    BY <2>1, DropIs
  <2>3. l \in Nat
    BY <1>1
  <2> HIDE DEF l
  <2>4. l - 0 = l /\ \A i \in 1 .. l : 0 + i = i
    BY <2>3
  <2>5. \A i \in 1 .. l : Drop(c, 0)[i] = c[i]
    BY <2>2, <2>4
  <2> QED BY <2>2, <2>4, <2>5 DEF l
<1> QED BY <1>1, <1>2, SameBytes

LEMMA DropMore ==
    ASSUME NEW c \in Bytes, NEW a \in Nat, NEW b \in Nat, a + b <= Len(c)
    PROVE  Drop(Drop(c, a), b) = Drop(c, a + b)
<1> DEFINE l == Len(c)
           d == Drop(c, a)
           e == Drop(d, b)
           g == Drop(c, a + b)
<1>1. l \in Nat
  BY LenProperties DEF Bytes
<1>2. a \in 0 .. l /\ a + b \in 0 .. l /\ b \in 0 .. (l - a)
  BY <1>1
<1>3. d \in Bytes /\ Len(d) = l - a /\ \A i \in 1 .. (l - a) : d[i] = c[a + i]
  BY <1>2, DropIs
<1>4. g \in Bytes /\ Len(g) = l - (a + b) /\ \A i \in 1 .. (l - (a + b)) : g[i] = c[a + b + i]
  BY <1>2, DropIs
<1> HIDE DEF d
<1>5. e \in Bytes /\ Len(e) = Len(d) - b /\ \A i \in 1 .. (Len(d) - b) : e[i] = d[b + i]
  BY <1>2, <1>3, DropIs
<1> HIDE DEF l, e, g
<1>6. Len(e) = Len(g)
  BY <1>1, <1>3, <1>4, <1>5
<1>7. ASSUME NEW i \in 1 .. Len(e) PROVE e[i] = g[i]
  <2>1. i \in 1 .. (Len(d) - b) /\ b + i \in 1 .. (l - a) /\ i \in 1 .. (l - (a + b))
    BY <1>1, <1>2, <1>3, <1>5
  <2>2. a + (b + i) = a + b + i
    OBVIOUS
  <2> QED BY <1>3, <1>4, <1>5, <2>1, <2>2
<1>8. e = g
  BY <1>4, <1>5, <1>6, <1>7, SameBytes
<1> QED BY <1>8 DEF e, g, d

LEMMA JoinIs ==
    ASSUME NEW S, NEW a \in Seq(S), NEW b \in Seq(S)
    PROVE  /\ a \o b \in Seq(S) /\ Len(a) \in Nat /\ Len(b) \in Nat
           /\ Len(a \o b) = Len(a) + Len(b)
           /\ \A i \in 1 .. Len(a) : (a \o b)[i] = a[i]
           /\ \A i \in 1 .. Len(b) : (a \o b)[Len(a) + i] = b[i]
<1> DEFINE s == a \o b
           m == Len(a)
           n == Len(b)
<1>1. /\ s \in Seq(S) /\ Len(s) = m + n
      /\ \A i \in 1 .. m + n : s[i] = IF i <= m THEN a[i] ELSE b[i - m]
  BY ConcatProperties
<1>2. m \in Nat /\ n \in Nat
  BY LenProperties
<1> HIDE DEF s, m, n
<1>3. ASSUME NEW i \in 1 .. m PROVE s[i] = a[i]
  <2>1. i \in 1 .. m + n /\ i <= m
    BY <1>2
  <2> QED BY <1>1, <2>1
<1>4. ASSUME NEW i \in 1 .. n PROVE s[m + i] = b[i]
  <2>1. m + i \in 1 .. m + n /\ ~(m + i <= m) /\ (m + i) - m = i
    BY <1>2
  <2> QED BY <1>1, <2>1
<1> QED BY <1>1, <1>2, <1>3, <1>4 DEF s, m, n

(* What agrees with a whole agrees with its parts.                           *)
LEMMA AgreeParts ==
    ASSUME NEW S, NEW a \in Seq(S), NEW b \in Seq(S), NEW c \in Bytes, Agree(c, a \o b)
    PROVE  /\ Agree(c, a)
           /\ Len(a) <= Len(c) => Agree(Drop(c, Len(a)), b)
<1> DEFINE m == Len(a)
           n == Len(b)
           l == Len(c)
           s == a \o b
<1>1. /\ Len(s) = m + n /\ m \in Nat /\ n \in Nat /\ l \in Nat
      /\ \A i \in 1 .. m : s[i] = a[i]
      /\ \A i \in 1 .. n : s[m + i] = b[i]
  BY JoinIs, LenProperties DEF Bytes
<1>2. \A i \in 1 .. l : i <= Len(s) => c[i] = s[i]
  BY DEF Agree
<1> HIDE DEF s
<1>3. Agree(c, a)
  <2> SUFFICES ASSUME NEW i \in 1 .. l, i <= m PROVE c[i] = a[i]
    BY DEF Agree
  <2> HIDE DEF m, n, l
  <2>1. i <= Len(s) /\ i \in 1 .. m
    BY <1>1
  <2> QED BY <1>1, <1>2, <2>1
<1>4. ASSUME m <= l PROVE Agree(Drop(c, m), b)
  <2>1. /\ Len(Drop(c, m)) = l - m
        /\ \A i \in 1 .. (l - m) : Drop(c, m)[i] = c[m + i]
    <3>1. m \in 0 .. l
      BY <1>1, <1>4
    <3> QED BY <3>1, DropIs
  <2> SUFFICES ASSUME NEW i \in 1 .. (l - m), i <= n PROVE Drop(c, m)[i] = b[i]
    BY <2>1 DEF Agree
  <2> HIDE DEF m, n, l
  <2>2. m + i \in 1 .. l /\ m + i <= Len(s) /\ i \in 1 .. n
    BY <1>1, <1>4
  <2> QED BY <1>1, <1>2, <2>1, <2>2
<1> QED BY <1>3, <1>4

-------------------------------------------------------------------------------
(* The first line of an element: its type, its content, and a line break.    *)
HeaderOf(t, line) == <<t>> \o line \o CRLF

LEMMA Singleton ==
    ASSUME NEW t \in Char PROVE <<t>> \in Chars /\ Len(<<t>>) = 1 /\ <<t>>[1] = t
BY DEF Chars

LEMMA LineBreak == CRLF \in Chars /\ Len(CRLF) = 2 /\ CRLF[1] = "CR" /\ CRLF[2] = "LF"
<1>1. "CR" \in Char /\ "LF" \in Char
  BY DEF Char
<1> HIDE DEF Char
<1>2. CRLF \in [1 .. 2 -> Char]
  BY <1>1 DEF CRLF
<1>3. CRLF \in Chars
  BY <1>2, SeqDef DEF Chars
<1> QED BY <1>3 DEF CRLF

LEMMA HeaderIs ==
    ASSUME NEW t \in Char, NEW line \in Chars, NEW h, h = HeaderOf(t, line)
    PROVE  /\ h \in Chars /\ Len(h) = Len(line) + 3 /\ Len(line) \in Nat
           /\ h[1] = t /\ \A i \in 1 .. Len(line) : h[1 + i] = line[i]
           /\ h[Len(line) + 2] = "CR" /\ h[Len(line) + 3] = "LF"
<1> DEFINE one == <<t>>
           front == one \o line
           n == Len(line)
<1>1. one \in Chars /\ Len(one) = 1 /\ one[1] = t
  BY Singleton
<1> HIDE DEF one
<1>2. /\ front \in Chars /\ Len(front) = 1 + n /\ n \in Nat
      /\ \A i \in 1 .. 1 : front[i] = one[i]
      /\ \A i \in 1 .. n : front[1 + i] = line[i]
  <2>1. /\ front \in Seq(Char) /\ Len(front) = Len(one) + n /\ n \in Nat
        /\ \A i \in 1 .. Len(one) : front[i] = one[i]
        /\ \A i \in 1 .. n : front[Len(one) + i] = line[i]
    <3>1. one \in Seq(Char) /\ line \in Seq(Char)
      BY <1>1 DEF Chars
    <3> QED BY <3>1, JoinIs
  <2> HIDE DEF front, n
  <2> QED BY <1>1, <2>1 DEF Chars
<1>3. h = front \o CRLF
  BY DEF HeaderOf, one
<1> HIDE DEF front, n
<1>4. /\ h \in Chars /\ Len(h) = (1 + n) + 2
      /\ \A i \in 1 .. (1 + n) : h[i] = front[i]
      /\ \A i \in 1 .. 2 : h[(1 + n) + i] = CRLF[i]
  <2>1. /\ h \in Seq(Char) /\ Len(h) = Len(front) + Len(CRLF)
        /\ \A i \in 1 .. Len(front) : h[i] = front[i]
        /\ \A i \in 1 .. Len(CRLF) : h[Len(front) + i] = CRLF[i]
    <3>1. front \in Seq(Char) /\ CRLF \in Seq(Char)
      BY <1>2, LineBreak DEF Chars
    <3> QED BY <1>3, <3>1, JoinIs
  <2> QED BY <1>2, <2>1, LineBreak DEF Chars
<1>5. Len(h) = n + 3 /\ h[1] = t
  BY <1>1, <1>2, <1>4
<1>6. ASSUME NEW i \in 1 .. n PROVE h[1 + i] = line[i]
  <2>1. 1 + i \in 1 .. (1 + n)
    BY <1>2
  <2> QED BY <1>2, <1>4, <2>1
<1>7. h[n + 2] = "CR" /\ h[n + 3] = "LF"
  <2>1. (1 + n) + 1 = n + 2 /\ (1 + n) + 2 = n + 3
    BY <1>2
  <2> QED BY <1>4, <2>1, LineBreak
<1> QED BY <1>2, <1>4, <1>5, <1>6, <1>7 DEF n

LEMMA FirstCr ==
    ASSUME NEW c
    PROVE  LET S == {i \in 1 .. Len(c) : c[i] = "CR"}
               i == IF S # {} THEN Min(S) ELSE 0
           IN  find_crlf(c) = IF 0 < i /\ i < Len(c) /\ c[i + 1] = "LF" THEN i ELSE 0
BY DEF find_crlf, SelectInSeq

LEMMA MinIs ==
    ASSUME NEW S, S \subseteq Nat, NEW m \in S, \A k \in S : m <= k
    PROVE  Min(S) = m
<1> DEFINE x == Min(S)
<1>1. x \in S /\ \A k \in S : x <= k
  BY DEF Min
<1> HIDE DEF x
<1>2. x <= m /\ m <= x /\ x \in Nat /\ m \in Nat
  BY <1>1
<1> QED BY <1>2 DEF x

LEMMA HeaderFound ==
    ASSUME NEW t \in Char, t # "CR", NEW line \in Chars, NoBreak(line),
           NEW c \in Bytes, NEW h, h = HeaderOf(t, line), Agree(c, h)
    PROVE  /\ c # <<>> => c[1] = t
           /\ Len(c) < Len(h) => find_crlf(c) = 0
           /\ Len(h) <= Len(c) => find_crlf(c) = Len(line) + 2
<1> DEFINE n == Len(line)
           l == Len(c)
           p == n + 2
           S == {i \in 1 .. l : c[i] = "CR"}
           at == IF S # {} THEN Min(S) ELSE 0
<1>1. /\ Len(h) = n + 3 /\ n \in Nat /\ l \in Nat
      /\ h[1] = t /\ \A i \in 1 .. n : h[1 + i] = line[i] /\ line[i] # "CR"
      /\ h[p] = "CR" /\ h[n + 3] = "LF"
  BY HeaderIs, LenProperties DEF Bytes, NoBreak
<1>2. find_crlf(c) = IF 0 < at /\ at < l /\ c[at + 1] = "LF" THEN at ELSE 0
  BY FirstCr
<1>3. \A i \in 1 .. l : i <= Len(h) => c[i] = h[i]
  BY DEF Agree
<1>4. c # <<>> => 1 \in 1 .. l
  BY EmptySeq DEF Bytes
<1> HIDE DEF n, l
<1>5. c # <<>> => c[1] = t
  BY <1>1, <1>3, <1>4
<1>6. ASSUME NEW i \in 1 .. l, i < p PROVE c[i] # "CR"
  <2>1. c[i] = h[i]
    BY <1>1, <1>3, <1>6
  <2>2. CASE i = 1
    BY <1>1, <2>1, <2>2
  <2>3. CASE i # 1
    <3>1. i - 1 \in 1 .. n /\ 1 + (i - 1) = i
      BY <1>1, <1>6, <2>3
    <3> QED BY <1>1, <2>1, <3>1
  <2> QED BY <2>2, <2>3
<1>7. CASE l < p
  <2>1. S = {}
    BY <1>1, <1>6, <1>7
  <2>2. at = 0
    BY <2>1
  <2> HIDE DEF at
  <2>3. find_crlf(c) = 0
    BY <1>2, <2>2
  <2> QED BY <1>1, <1>5, <1>7, <2>3 DEF n, l
<1>8. CASE p <= l
  <2>1. p \in S /\ S \subseteq Nat
    BY <1>1, <1>3, <1>8
  <2>2. \A k \in S : p <= k
    <3> SUFFICES ASSUME NEW k \in 1 .. l, c[k] = "CR" PROVE p <= k
      OBVIOUS
    <3>1. ~(k < p)
      BY <1>6
    <3> QED BY <1>1, <3>1
  <2> HIDE DEF S
  <2>3. at = p
    BY <2>1, <2>2, MinIs
  <2> HIDE DEF at
  <2>4. CASE l = p
    <3>1. find_crlf(c) = 0
      BY <1>2, <2>3, <2>4
    <3> QED BY <1>1, <1>5, <2>4, <3>1 DEF n, l
  <2>5. CASE l # p
    <3>1. p + 1 \in 1 .. l /\ p + 1 = n + 3 /\ p + 1 <= Len(h) /\ 0 < p /\ p < l
      BY <1>1, <1>8, <2>5
    <3>2. c[p + 1] = "LF"
      BY <1>1, <1>3, <3>1
    <3>3. find_crlf(c) = p
      BY <1>2, <2>3, <3>1, <3>2
    <3> QED BY <1>1, <1>5, <3>1, <3>3 DEF n, l
  <2> QED BY <2>4, <2>5
<1> QED BY <1>1, <1>7, <1>8

LEMMA HeaderTaken ==
    ASSUME NEW t \in Char, t # "CR", NEW line \in Chars, NoBreak(line),
           NEW c \in Bytes, NEW h, h = HeaderOf(t, line), Agree(c, h), Len(h) <= Len(c)
    PROVE  Content(c) = line /\ Rest(c) = Drop(c, Len(h))
<1> DEFINE n == Len(line)
           l == Len(c)
           content == Content(c)
<1>1. find_crlf(c) = n + 2
  BY HeaderFound
<1>2. /\ Len(h) = n + 3 /\ n \in Nat /\ l \in Nat /\ \A i \in 1 .. n : h[1 + i] = line[i]
      /\ \A i \in 1 .. l : c[i] \in Byte
  BY HeaderIs, LenProperties, ElementOfSeq DEF Bytes
<1>3. \A i \in 1 .. l : i <= Len(h) => c[i] = h[i]
  BY DEF Agree
<1>4. n + 3 <= l
  BY <1>2
<1> HIDE DEF n, l
<1>5. Rest(c) = Drop(c, Len(h))
  <2>1. (n + 2) + 2 = Len(h) + 1
    BY <1>2
  <2> QED BY <1>1, <2>1 DEF Rest, Drop
<1>6. content = SubSeq(c, 2, n + 1)
  <2>1. (n + 2) - 1 = n + 1
    BY <1>2
  <2> QED BY <1>1, <2>1 DEF Content
<1> HIDE DEF content
<1>7. /\ content \in Seq(Byte) /\ Len(content) = n
      /\ \A i \in 1 .. n : content[i] = c[1 + i]
  <2>1. \A i \in 2 .. (n + 1) : c[i] \in Byte
    BY <1>2, <1>4
  <2>2. /\ content \in Seq(Byte)
        /\ Len(content) = IF 2 <= n + 1 THEN (n + 1) - 2 + 1 ELSE 0
        /\ \A i \in 1 .. (n + 1) - 2 + 1 : content[i] = c[2 + i - 1]
    <3>1. 2 \in Int /\ n + 1 \in Int
      BY <1>2
    <3> QED BY <1>6, <2>1, <3>1, SubSeqProperties
  <2>3. (n + 1) - 2 + 1 = n /\ (2 <= n + 1 \/ n = 0) /\ \A i \in 1 .. n : 2 + i - 1 = 1 + i
    BY <1>2
  <2> QED BY <2>2, <2>3
<1>8. \A i \in 1 .. n : content[i] = line[i]
  <2> SUFFICES ASSUME NEW i \in 1 .. n PROVE content[i] = line[i]
    OBVIOUS
  <2>1. 1 + i \in 1 .. l /\ 1 + i <= Len(h)
    BY <1>2, <1>4
  <2> QED BY <1>2, <1>3, <1>7, <2>1
<1>9. content = line
  <2>1. content \in Chars
    <3>1. Byte \subseteq Char
      BY DEF Char
    <3> QED BY <1>7, <3>1, SeqMonotonic DEF Chars
  <2>2. Len(content) = Len(line) /\ \A i \in 1 .. Len(content) : content[i] = line[i]
    BY <1>7, <1>8 DEF n
  <2> QED BY <2>1, <2>2, SeqEqual DEF Chars
<1> QED BY <1>5, <1>9 DEF content

-------------------------------------------------------------------------------
(* Elements that are no arrays.                                              *)

Types == {"+", "-", ":", "$", "*"}
Waiting == {Error("Empty buffer"), Error("Incomplete")}

(* What decode makes of bytes that are those of a value, as far as they go.  *)
Outcome(d, c, e, v) == IF Len(e) <= Len(c) THEN d = Ok(v, Drop(c, Len(e))) ELSE d \in Waiting

LEMMA TypeIsChar == Types \subseteq Char /\ "CR" \notin Types
BY DEF Types, Char

LEMMA LineRead ==
    ASSUME NEW t \in Types, NEW line \in Chars, NoBreak(line), NEW c \in Bytes,
           NEW h, h = HeaderOf(t, line), Agree(c, h), NEW Element
    PROVE  /\ Len(c) \in Nat /\ Len(h) \in Nat /\ Len(h) > 2
           /\ Len(c) < Len(h) => decode_with(c, Element) \in Waiting
           /\ Len(h) <= Len(c) => /\ c # <<>> /\ c[1] = t
                                  /\ find_crlf(c) # 0 /\ find_crlf(c) + 1 = Len(h)
                                  /\ Content(c) = line /\ Rest(c) = Drop(c, Len(h))
<1>1. t \in Char /\ t # "CR"
  BY TypeIsChar
<1>2. /\ c # <<>> => c[1] = t
      /\ Len(c) < Len(h) => find_crlf(c) = 0
      /\ Len(h) <= Len(c) => find_crlf(c) = Len(line) + 2
  BY <1>1, HeaderFound
<1>3. Len(h) = Len(line) + 3 /\ Len(line) \in Nat /\ Len(c) \in Nat
  BY <1>1, HeaderIs, LenProperties DEF Bytes
<1>4. ASSUME Len(c) < Len(h) PROVE decode_with(c, Element) \in Waiting
  <2>1. CASE c = <<>>
    BY <2>1 DEF decode_with, Waiting
  <2>2. CASE c # <<>>
    <3>1. c[1] \in {"+", "-", ":", "$", "*"} /\ find_crlf(c) = 0
      BY <1>2, <1>4, <2>2 DEF Types
    <3>2. decode_with(c, Element) = Error("Incomplete")
      BY <2>2, <3>1 DEF decode_with
    <3> QED BY <3>2 DEF Waiting
  <2> QED BY <2>1, <2>2
<1>5. ASSUME Len(h) <= Len(c)
      PROVE  /\ c # <<>> /\ c[1] = t
             /\ find_crlf(c) # 0 /\ find_crlf(c) + 1 = Len(h)
             /\ Content(c) = line /\ Rest(c) = Drop(c, Len(h))
  <2>1. Content(c) = line /\ Rest(c) = Drop(c, Len(h))
    BY <1>1, <1>5, HeaderTaken
  <2>2. c # <<>>
    <3>1. Len(c) # 0
      BY <1>3, <1>5
    <3> QED BY <3>1
  <2>3. find_crlf(c) # 0 /\ find_crlf(c) + 1 = Len(h)
    <3> DEFINE n == Len(line)
    <3>1. n \in Nat /\ Len(h) = n + 3 /\ find_crlf(c) = n + 2
      BY <1>2, <1>3, <1>5
    <3> HIDE DEF n
    <3>2. n + 2 # 0 /\ (n + 2) + 1 = n + 3
      BY <3>1
    <3> QED BY <3>1, <3>2
  <2>4. c[1] = t
    BY <1>2, <2>2
  <2> QED BY <2>1, <2>2, <2>3, <2>4
<1>6. Len(h) > 2
  <2> DEFINE n == Len(line)
  <2>1. n \in Nat /\ Len(h) = n + 3
    BY <1>3
  <2> HIDE DEF n
  <2> QED BY <2>1
<1>7. Len(h) \in Nat
  BY <1>3
<1> QED BY <1>3, <1>4, <1>5, <1>6, <1>7

(* A simple string, an error and an integer are one line.                    *)
LEMMA OneLineRead ==
    ASSUME NEW t \in {"+", "-", ":"}, NEW line \in Chars, NoBreak(line), NEW c \in Bytes,
           NEW e, e = HeaderOf(t, line), Agree(c, e), NEW Element, NEW v,
           t = "+" => v = SimpleString(line),
           t = "-" => v = ErrorString(line),
           t = ":" => IsNumber(line) /\ v = Integer(int_of_string(line))
    PROVE  Outcome(decode_with(c, Element), c, e, v)
<1>1. t \in Types
  BY DEF Types
<1>2. /\ Len(c) \in Nat /\ Len(e) \in Nat /\ Len(e) > 2
      /\ Len(c) < Len(e) => decode_with(c, Element) \in Waiting
      /\ Len(e) <= Len(c) => /\ c # <<>> /\ c[1] = t
                             /\ find_crlf(c) # 0 /\ find_crlf(c) + 1 = Len(e)
                             /\ Content(c) = line /\ Rest(c) = Drop(c, Len(e))
  BY <1>1, LineRead
<1>3. CASE Len(c) < Len(e)
  BY <1>2, <1>3 DEF Outcome
<1>4. CASE Len(e) <= Len(c)
  <2>1. /\ c # <<>> /\ c[1] = t /\ find_crlf(c) # 0
        /\ Content(c) = line /\ Rest(c) = Drop(c, Len(e))
    BY <1>2, <1>4
  <2>2. decode_with(c, Element) = Ok(v, Drop(c, Len(e)))
    <3>1. CASE t = "+"
      BY <2>1, <3>1 DEF decode_with
    <3>2. CASE t = "-"
      BY <2>1, <3>2 DEF decode_with
    <3>3. CASE t = ":"
      BY <2>1, <3>3 DEF decode_with
    <3> QED BY <3>1, <3>2, <3>3
  <2> QED BY <1>4, <2>2 DEF Outcome
<1> QED BY <1>2, <1>3, <1>4

LEMMA MinusOneIsLine == <<"-", "1">> \in Chars /\ NoBreak(<<"-", "1">>)
<1>1. "-" \in Char /\ "1" \in Char
  <2>1. 1 \in 0 .. 9 /\ Digit[1 + 1] = "1"
    BY DEF Digit
  <2>2. "1" \in Range(Digit)
    BY <2>1, DigitRead
  <2> QED BY <2>2 DEF Char
<1> HIDE DEF Char
<1>2. <<"-", "1">> \in [1 .. 2 -> Char]
  BY <1>1
<1>3. <<"-", "1">> \in Chars
  BY <1>2, SeqDef DEF Chars
<1>4. ASSUME NEW i \in 1 .. 2 PROVE <<"-", "1">>[i] # "CR"
  <2>1. i = 1 \/ i = 2
    OBVIOUS
  <2> QED BY <2>1
<1>5. Len(<<"-", "1">>) = 2
  OBVIOUS
<1> QED BY <1>3, <1>4, <1>5 DEF NoBreak

(* What has no value is a line with the number -1.                           *)
LEMMA NullRead ==
    ASSUME NEW t \in {"$", "*"}, NEW c \in Bytes,
           NEW e, e = HeaderOf(t, <<"-", "1">>), Agree(c, e), NEW Element
    PROVE  Outcome(decode_with(c, Element), c, e, IF t = "$" THEN NullBulk ELSE NullArray)
<1> DEFINE line == <<"-", "1">>
           v == IF t = "$" THEN NullBulk ELSE NullArray
<1>1. t \in Types /\ line \in Chars /\ NoBreak(line)
  BY MinusOneIsLine DEF Types
<1>2. IsNumber(line) /\ int_of_string(line) = -1 /\ e = HeaderOf(t, line)
  BY MinusOne
<1> HIDE DEF line
<1>3. /\ Len(c) \in Nat /\ Len(e) \in Nat /\ Len(e) > 2
      /\ Len(c) < Len(e) => decode_with(c, Element) \in Waiting
      /\ Len(e) <= Len(c) => /\ c # <<>> /\ c[1] = t
                             /\ find_crlf(c) # 0 /\ find_crlf(c) + 1 = Len(e)
                             /\ Content(c) = line /\ Rest(c) = Drop(c, Len(e))
  BY <1>1, <1>2, LineRead
<1>4. CASE Len(c) < Len(e)
  BY <1>3, <1>4 DEF Outcome
<1>5. CASE Len(e) <= Len(c)
  <2>1. /\ c # <<>> /\ c[1] = t /\ find_crlf(c) # 0
        /\ Content(c) = line /\ Rest(c) = Drop(c, Len(e))
    BY <1>3, <1>5
  <2>2. decode_with(c, Element) = Ok(v, Drop(c, Len(e)))
    <3>1. CASE t = "$"
      BY <1>2, <2>1, <3>1 DEF decode_with
    <3>2. CASE t = "*"
      BY <1>2, <2>1, <3>2 DEF decode_with
    <3> QED BY <3>1, <3>2
  <2> HIDE DEF v
  <2>3. Outcome(decode_with(c, Element), c, e, v)
    BY <1>5, <2>2 DEF Outcome
  <2> QED BY <2>3 DEF v
<1> QED BY <1>3, <1>4, <1>5

(* A number is a line.                                                       *)
LEMMA NumberIsLine ==
    ASSUME NEW i \in Int
    PROVE  string_of_int(i) \in Chars /\ NoBreak(string_of_int(i))
<1>1. Range(Digit) \cup {"-"} \subseteq Char
  BY DEF Char
<1>2. /\ string_of_int(i) \in Seq(Range(Digit) \cup {"-"})
      /\ \A k \in 1 .. Len(string_of_int(i)) : string_of_int(i)[k] \notin {"CR", "LF"}
  BY NumberReadBack
<1>3. string_of_int(i) \in Chars
  <2> DEFINE D == Range(Digit) \cup {"-"}
  <2> HIDE DEF D
  <2>1. D \subseteq Char /\ string_of_int(i) \in Seq(D)
    BY <1>1, <1>2 DEF D
  <2> QED BY <2>1, SeqMonotonic DEF Chars
<1> QED BY <1>2, <1>3 DEF NoBreak

LEMMA BytesAreChars == Bytes \subseteq Chars
<1>1. Byte \subseteq Char
  BY DEF Char
<1> QED BY <1>1, SeqMonotonic DEF Bytes, Chars

(* A bulk string is a line with its length, its bytes, and a line break.     *)
LEMMA BulkRead ==
    ASSUME NEW s \in Bytes, NEW c \in Bytes, NEW Element,
           NEW e, e = <<"$">> \o string_of_int(Len(s)) \o CRLF \o s \o CRLF, Agree(c, e)
    PROVE  Outcome(decode_with(c, Element), c, e, BulkString(s))
<1> DEFINE n == Len(s)
           line == string_of_int(n)
           h == HeaderOf("$", line)
           front == h \o s
           l == Len(c)
           k == Len(h)
           start == find_crlf(c) + 1
<1>1. n \in Nat /\ n \in Int /\ n # -1
  BY LenProperties DEF Bytes
<1>2. e = front \o CRLF
  BY DEF HeaderOf
<1> HIDE DEF n
<1>3. line \in Chars /\ NoBreak(line) /\ IsNumber(line) /\ int_of_string(line) = n
  BY <1>1, NumberIsLine, NumberReadBack
<1> HIDE DEF line
<1>4. h \in Chars /\ "$" \in Types
  <2>1. "$" \in Types
    BY DEF Types
  <2> QED BY <1>3, <2>1, TypeIsChar, HeaderIs
<1>5. /\ front \in Chars /\ Len(front) = k + n
      /\ Agree(c, front) /\ Agree(c, h) /\ (k <= l => Agree(Drop(c, k), s))
      /\ Len(e) = k + n + 2
  <2>1. h \in Seq(Char) /\ s \in Seq(Char) /\ CRLF \in Seq(Char)
    BY <1>4, BytesAreChars, LineBreak DEF Chars
  <2> HIDE DEF h
  <2>2. front \in Seq(Char) /\ Len(front) = k + Len(s) /\ k \in Nat
    BY <2>1, JoinIs
  <2>3. Agree(c, h) /\ (k <= l => Agree(Drop(c, k), s)) /\ Agree(c, front)
    <3>1. Agree(c, front)
      <4> HIDE DEF front
      <4>1. Agree(c, front \o CRLF)
        BY <1>2
      <4> QED BY <2>1, <2>2, <4>1, AgreeParts
    <3> QED BY <2>1, <3>1, AgreeParts
  <2>4. Len(e) = Len(front) + Len(CRLF)
    <3> HIDE DEF front
    <3> QED BY <1>2, <2>1, <2>2, JoinIs
  <2>5. Len(e) = k + n + 2
    BY <2>2, <2>4, LineBreak, <1>1 DEF n
  <2> QED BY <2>2, <2>3, <2>5 DEF n, Chars
<1> HIDE DEF front
<1>6. /\ l \in Nat /\ k \in Nat /\ k > 2
      /\ l < k => decode_with(c, Element) \in Waiting
      /\ k <= l => /\ c # <<>> /\ c[1] = "$"
                   /\ find_crlf(c) # 0 /\ start = k
                   /\ Content(c) = line /\ Rest(c) = Drop(c, k)
  BY <1>3, <1>4, <1>5, LineRead
<1> HIDE DEF h
<1>7. CASE l < k
  <2>1. ~(Len(e) <= l)
    BY <1>1, <1>5, <1>6, <1>7
  <2> QED BY <1>6, <1>7, <2>1 DEF Outcome
<1>8. CASE k <= l
  <2>1. start = k /\ find_crlf(c) # 0 /\ start + n + 2 = Len(e)
    BY <1>5, <1>6, <1>8
  <2>2. decode_with(c, Element) = BulkContent(c, n)
    <3>1. /\ c # <<>> /\ c[1] = "$" /\ find_crlf(c) # 0 /\ Content(c) = line
      BY <1>6, <1>8, <2>1
    <3> QED BY <1>1, <1>3, <3>1 DEF decode_with
  <2>3. BulkContent(c, n) = IF l < Len(e) THEN Error("Incomplete")
                            ELSE IF n < 0 THEN Error("Invalid_argument")
                            ELSE Ok(BulkString(SubSeq(c, k + 1, k + n)), SubSeq(c, Len(e) + 1, l))
    BY <2>1 DEF BulkContent
  <2>4. CASE l < Len(e)
    <3>1. decode_with(c, Element) = Error("Incomplete") /\ ~(Len(e) <= l)
      BY <1>1, <1>5, <1>6, <2>2, <2>3, <2>4
    <3> QED BY <3>1 DEF Outcome, Waiting
  <2>5. CASE Len(e) <= l
    <3>1. SubSeq(c, k + 1, k + n) = s
      <4> DEFINE content == SubSeq(c, k + 1, k + n)
      <4>1. k + n <= l
        BY <1>1, <1>5, <1>6, <2>5
      <4>2. \A i \in (k + 1) .. (k + n) : c[i] \in Byte
        <5>1. \A i \in 1 .. l : c[i] \in Byte
          BY ElementOfSeq DEF Bytes
        <5> HIDE DEF k, l
        <5> QED BY <1>1, <1>6, <4>1, <5>1
      <4>3. /\ content \in Seq(Byte)
            /\ Len(content) = IF k + 1 <= k + n THEN (k + n) - (k + 1) + 1 ELSE 0
            /\ \A i \in 1 .. (k + n) - (k + 1) + 1 : content[i] = c[(k + 1) + i - 1]
        <5>1. k + 1 \in Int /\ k + n \in Int
          BY <1>1, <1>6
        <5> HIDE DEF k, l
        <5> QED BY <4>2, <5>1, SubSeqProperties
      <4>4. Len(content) = n /\ \A i \in 1 .. n : content[i] = c[k + i]
        <5> HIDE DEF k, l, content
        <5>1. (k + n) - (k + 1) + 1 = n /\ \A i \in 1 .. n : (k + 1) + i - 1 = k + i
          BY <1>1, <1>6
        <5> QED BY <1>1, <1>6, <4>3, <5>1
      <4>5. /\ Len(Drop(c, k)) = l - k
            /\ \A i \in 1 .. (l - k) : Drop(c, k)[i] = c[k + i]
        <5>1. k \in 0 .. l
          BY <1>6, <1>8
        <5> QED BY <5>1, DropIs
      <4>6. \A i \in 1 .. n : content[i] = s[i]
        <5> SUFFICES ASSUME NEW i \in 1 .. n PROVE content[i] = s[i]
          OBVIOUS
        <5>1. i \in 1 .. Len(Drop(c, k)) /\ i \in 1 .. (l - k) /\ i <= Len(s)
          BY <1>1, <1>6, <4>1, <4>5 DEF n
        <5>2. Drop(c, k)[i] = s[i]
          BY <1>5, <1>8, <5>1 DEF Agree
        <5> QED BY <4>4, <4>5, <5>1, <5>2
      <4>7. content \in Bytes /\ Len(content) = Len(s)
        BY <4>3, <4>4 DEF Bytes, n
      <4> HIDE DEF content
      <4>8. content = s
        BY <4>4, <4>6, <4>7, SameBytes
      <4> QED BY <4>8 DEF content
    <3>2. ~(l < Len(e)) /\ ~(n < 0)
      BY <1>1, <1>5, <1>6, <2>5
    <3>3. decode_with(c, Element) = Ok(BulkString(s), Drop(c, Len(e)))
      BY <2>2, <2>3, <3>1, <3>2 DEF Drop
    <3> QED BY <2>5, <3>3 DEF Outcome
  <2>6. l < Len(e) \/ Len(e) <= l
    BY <1>1, <1>5, <1>6
  <2> QED BY <2>4, <2>5, <2>6
<1> QED BY <1>6, <1>7, <1>8

(* The values of RESP that are no arrays.                                    *)
Lines == {line \in Bytes : NoBreak(line)}
Scalars ==
    {SimpleString(line) : line \in Lines} \cup {ErrorString(line) : line \in Lines}
    \cup {Integer(i) : i \in Int} \cup {BulkString(s) : s \in Bytes} \cup {NullBulk, NullArray}

LEMMA ScalarRead ==
    ASSUME NEW v \in Scalars, NEW c \in Bytes, NEW Element, NEW elements,
           NEW e, e = Encoded(v, elements), Agree(c, e)
    PROVE  Outcome(decode_with(c, Element), c, e, v)
<1>1. CASE \E line \in Lines : v = SimpleString(line)
  <2>1. PICK line \in Lines : v = SimpleString(line)
    BY <1>1
  <2>2. line \in Chars /\ NoBreak(line) /\ e = HeaderOf("+", line)
    BY <2>1, BytesAreChars DEF Lines, Encoded, SimpleString, HeaderOf
  <2> QED BY <2>1, <2>2, OneLineRead
<1>2. CASE \E line \in Lines : v = ErrorString(line)
  <2>1. PICK line \in Lines : v = ErrorString(line)
    BY <1>2
  <2>2. line \in Chars /\ NoBreak(line) /\ e = HeaderOf("-", line)
    BY <2>1, BytesAreChars DEF Lines, Encoded, ErrorString, HeaderOf
  <2> QED BY <2>1, <2>2, OneLineRead
<1>3. CASE \E i \in Int : v = Integer(i)
  <2>1. PICK i \in Int : v = Integer(i)
    BY <1>3
  <2>2. e = HeaderOf(":", string_of_int(i))
    BY <2>1 DEF Encoded, Integer, HeaderOf
  <2> DEFINE line == string_of_int(i)
  <2>3. line \in Chars /\ NoBreak(line) /\ IsNumber(line) /\ int_of_string(line) = i
    BY NumberIsLine, NumberReadBack
  <2>4. e = HeaderOf(":", line)
    BY <2>2
  <2> HIDE DEF line
  <2> QED BY <2>1, <2>3, <2>4, OneLineRead
<1>4. CASE \E s \in Bytes : v = BulkString(s)
  <2>1. PICK s \in Bytes : v = BulkString(s)
    BY <1>4
  <2>2. e = <<"$">> \o string_of_int(Len(s)) \o CRLF \o s \o CRLF
    BY <2>1 DEF Encoded, BulkString
  <2> QED BY <2>1, <2>2, BulkRead
<1>5. CASE v = NullBulk
  <2>1. e = HeaderOf("$", <<"-", "1">>)
    <3>1. e = <<"$", "-", "1">> \o CRLF
      BY <1>5 DEF Encoded, NullBulk
    <3>2. <<"$", "-", "1">> = <<"$">> \o <<"-", "1">>
      OBVIOUS
    <3> QED BY <3>1, <3>2 DEF HeaderOf
  <2>2. Outcome(decode_with(c, Element), c, e, NullBulk)
    BY <2>1, NullRead
  <2> QED BY <1>5, <2>2
<1>6. CASE v = NullArray
  <2>1. e = HeaderOf("*", <<"-", "1">>)
    <3>1. e = <<"*", "-", "1">> \o CRLF
      BY <1>6 DEF Encoded, NullArray
    <3>2. <<"*", "-", "1">> = <<"*">> \o <<"-", "1">>
      OBVIOUS
    <3> QED BY <3>1, <3>2 DEF HeaderOf
  <2>2. Outcome(decode_with(c, Element), c, e, NullArray)
    BY <2>1, NullRead
  <2> QED BY <1>6, <2>2
<1> QED BY <1>1, <1>2, <1>3, <1>4, <1>5, <1>6 DEF Scalars

-------------------------------------------------------------------------------
(* Arrays: their elements one behind the other.                              *)
Joined(whole, parts) ==
    /\ whole[0] = <<>>
    /\ \A k \in 1 .. Len(parts) : whole[k] = whole[k - 1] \o parts[k]

LEMMA FlattenIs ==
    ASSUME NEW parts \in Seq(Bytes)
    PROVE  \E whole \in [0 .. Len(parts) -> Bytes] :
              Joined(whole, parts) /\ FlattenSeq(parts) = whole[Len(parts)]
<1> DEFINE n == Len(parts)
           next == [x \in Bytes \X (1 .. n) |-> x[1] \o parts[x[2]]]
           f == CHOOSE g : g = [i \in 1 .. n |-> IF i = 1 THEN parts[i] ELSE g[i - 1] \o parts[i]]
<1>1. n \in Nat /\ \A i \in 1 .. n : parts[i] \in Bytes
  BY LenProperties, ElementOfSeq
<1>2. <<>> \in Bytes /\ \A a, b \in Bytes : a \o b \in Bytes
  BY ConcatProperties DEF Bytes
<1>3. FlattenSeq(parts) = IF n = 0 THEN parts ELSE f[n]
  BY DEF FlattenSeq
<1> HIDE DEF n
<1>4. PICK whole \in [0 .. n -> Bytes] : Follows(whole, <<>>, next, n)
  <2>1. next \in [Bytes \X (1 .. n) -> Bytes]
    <3> SUFFICES ASSUME NEW b \in Bytes, NEW i \in 1 .. n PROVE b \o parts[i] \in Bytes
      OBVIOUS
    <3> QED BY <1>1, <1>2
  <2> HIDE DEF next
  <2> QED BY <1>1, <1>2, <2>1, Recursion
<1>5. ASSUME NEW k \in 1 .. n PROVE whole[k] = whole[k - 1] \o parts[k] /\ whole[k - 1] \in Bytes
  <2>1. k - 1 \in 0 .. n
    BY <1>1
  <2>2. <<whole[k - 1], k>> \in Bytes \X (1 .. n)
    BY <1>4, <2>1
  <2>3. next[<<whole[k - 1], k>>] = whole[k - 1] \o parts[k]
    BY <2>2
  <2>4. whole[k] = next[<<whole[k - 1], k>>]
    <3> HIDE DEF next
    <3> QED BY <1>4 DEF Follows
  <2> QED BY <2>2, <2>3, <2>4
<1>6. whole[0] = <<>>
  <2> HIDE DEF next
  <2> QED BY <1>4 DEF Follows
<1>7. \A i \in 1 .. n : f[i] = IF i = 1 THEN parts[i] ELSE f[i - 1] \o parts[i]
  <2> DEFINE g == [i \in 1 .. n |-> whole[i]]
  <2>1. ASSUME NEW i \in 1 .. n PROVE whole[i] = IF i = 1 THEN parts[i] ELSE g[i - 1] \o parts[i]
    <3>1. CASE i = 1
      <4>1. whole[1] = <<>> \o parts[1] /\ parts[1] \in Bytes
        <5>1. 1 - 1 = 0
          OBVIOUS
        <5> QED BY <1>1, <1>5, <1>6, <3>1, <5>1
      <4>2. <<>> \o parts[1] = parts[1]
        BY <4>1, ConcatEmptySeq DEF Bytes
      <4> QED BY <3>1, <4>1, <4>2
    <3>2. CASE i # 1
      <4>1. i - 1 \in 1 .. n
        BY <1>1, <3>2
      <4>2. g[i - 1] = whole[i - 1]
        BY <4>1
      <4> HIDE DEF g
      <4> QED BY <1>5, <3>2, <4>2
    <3> QED BY <3>1, <3>2
  <2>2. g = [i \in 1 .. n |-> IF i = 1 THEN parts[i] ELSE g[i - 1] \o parts[i]]
    BY <2>1
  <2> HIDE DEF g
  <2>3. f = [i \in 1 .. n |-> IF i = 1 THEN parts[i] ELSE f[i - 1] \o parts[i]]
    BY <2>2
  <2> HIDE DEF f
  <2> QED BY <2>3
<1> HIDE DEF f, next
<1>8. \A k \in 1 .. n : f[k] = whole[k]
  <2> DEFINE T == {k \in 1 .. n : f[k] # whole[k]}
  <2>1. SUFFICES ASSUME T # {} PROVE FALSE
    OBVIOUS
  <2>2. PICK k \in T : \A i \in T : k <= i
    <3>1. T \subseteq Nat
      BY <1>1
    <3> HIDE DEF T
    <3> QED BY <2>1, <3>1, LeastElement
  <2>3. CASE k = 1
    <3>1. whole[1] = <<>> \o parts[1] /\ parts[1] \in Bytes /\ f[1] = parts[1]
      <4>1. 1 - 1 = 0 /\ 1 \in 1 .. n
        BY <2>2, <2>3
      <4> QED BY <1>1, <1>5, <1>6, <1>7, <4>1
    <3>2. <<>> \o parts[1] = parts[1]
      BY <3>1, ConcatEmptySeq DEF Bytes
    <3> QED BY <2>2, <2>3, <3>1, <3>2
  <2>4. CASE k # 1
    <3>1. k - 1 \in 1 .. n /\ k - 1 \notin T
      BY <1>1, <2>2, <2>4
    <3> QED BY <1>5, <1>7, <2>2, <2>4, <3>1
  <2> QED BY <2>3, <2>4
<1>9. FlattenSeq(parts) = whole[n]
  <2>1. CASE n = 0
    <3>1. parts = <<>>
      BY <2>1, EmptySeq DEF n
    <3> QED BY <1>3, <1>6, <2>1, <3>1
  <2>2. CASE n # 0
    <3>1. n \in 1 .. n
      BY <1>1, <2>2
    <3> QED BY <1>3, <1>8, <2>2, <3>1
  <2> QED BY <2>1, <2>2
<1> QED BY <1>5, <1>6, <1>9 DEF Joined, n

(* A step of decode_array_elements.                                          *)
Advance(before, Element) ==
    IF ~before.ok THEN before
    ELSE LET d == Element[before.rest]
         IN  IF d.ok THEN Ok(Append(before.value, d.value), d.rest) ELSE d

ElementsTaken(after, n, bytes, Element) ==
    after = [k \in 0 .. n |-> IF k = 0 THEN Ok(<<>>, bytes) ELSE Advance(after[k - 1], Element)]

LEMMA ElementsExist ==
    ASSUME NEW n \in Nat, NEW bytes, NEW Element
    PROVE  \E after : ElementsTaken(after, n, bytes, Element)
<1> DEFINE T == {m \in 0 .. n : ~ \E after : ElementsTaken(after, m, bytes, Element)}
<1>1. SUFFICES ASSUME T # {} PROVE FALSE
  OBVIOUS
<1>2. PICK m \in T : \A k \in T : m <= k
  <2>1. T \subseteq Nat
    OBVIOUS
  <2> HIDE DEF T
  <2> QED BY <1>1, <2>1, LeastElement
<1>3. m \in 0 .. n /\ ~ \E after : ElementsTaken(after, m, bytes, Element)
  OBVIOUS
<1>4. CASE m = 0
  <2> DEFINE g == [k \in 0 .. 0 |-> Ok(<<>>, bytes)]
  <2>1. \A k \in 0 .. 0 : k = 0
    OBVIOUS
  <2>2. g = [k \in 0 .. 0 |-> IF k = 0 THEN Ok(<<>>, bytes) ELSE Advance(g[k - 1], Element)]
    BY <2>1
  <2> HIDE DEF g
  <2> QED BY <1>3, <1>4, <2>2 DEF ElementsTaken
<1>5. CASE m # 0
  <2>1. m - 1 \in 0 .. n /\ m \in 1 .. n /\ m - 1 \notin T
    BY <1>2, <1>3, <1>5
  <2>2. PICK f : ElementsTaken(f, m - 1, bytes, Element)
    BY <2>1
  <2> HIDE DEF T
  <2> DEFINE g == [k \in 0 .. m |-> IF k = m THEN Advance(f[m - 1], Element) ELSE f[k]]
  <2>3. \A k \in 0 .. (m - 1) : f[k] = IF k = 0 THEN Ok(<<>>, bytes) ELSE Advance(f[k - 1], Element)
    BY <2>2 DEF ElementsTaken
  <2>4. g[m] = Advance(f[m - 1], Element) /\ \A k \in 0 .. (m - 1) : g[k] = f[k]
    <3>1. m \in 0 .. m /\ \A k \in 0 .. (m - 1) : k \in 0 .. m /\ k # m
      BY <2>1
    <3> QED BY <3>1
  <2>5. \E h : g = [k \in 0 .. m |-> h[k]]
    OBVIOUS
  <2> HIDE DEF g
  <2>6. ASSUME NEW k \in 0 .. m
        PROVE  g[k] = IF k = 0 THEN Ok(<<>>, bytes) ELSE Advance(g[k - 1], Element)
    <3>1. CASE k = m
      <4>1. m - 1 \in 0 .. (m - 1) /\ k # 0
        BY <1>5, <2>1, <3>1
      <4> QED BY <2>4, <3>1, <4>1
    <3>2. CASE k # m
      <4>1. k \in 0 .. (m - 1) /\ (k # 0 => k - 1 \in 0 .. (m - 1))
        BY <2>1, <3>2
      <4> QED BY <2>3, <2>4, <4>1
    <3> QED BY <3>1, <3>2
  <2>7. g = [k \in 0 .. m |-> IF k = 0 THEN Ok(<<>>, bytes) ELSE Advance(g[k - 1], Element)]
    BY <2>5, <2>6
  <2> QED BY <1>3, <2>7 DEF ElementsTaken
<1> QED BY <1>4, <1>5

LEMMA ElementsOf ==
    ASSUME NEW n \in Nat, NEW bytes, NEW Element
    PROVE  \E after :
              /\ after[0] = Ok(<<>>, bytes)
              /\ \A k \in 1 .. n : after[k] = Advance(after[k - 1], Element)
              /\ decode_array_elements(n, bytes, Element) =
                    IF after[n].ok THEN Ok(Array(after[n].value), after[n].rest) ELSE after[n]
<1> DEFINE size == IF n < 0 THEN Len(bytes) + 1 ELSE n
           after == CHOOSE f : f = [k \in 0 .. size |-> IF k = 0 THEN Ok(<<>>, bytes)
                                                        ELSE Advance(f[k - 1], Element)]
<1>1. decode_array_elements(n, bytes, Element) =
          IF after[size].ok THEN Ok(Array(after[size].value), after[size].rest) ELSE after[size]
  BY DEF decode_array_elements, Advance
<1>2. size = n
  OBVIOUS
<1>3. ElementsTaken(after, size, bytes, Element)
  <2> HIDE DEF size
  <2> QED BY <1>2, ElementsExist DEF ElementsTaken
<1> HIDE DEF after, size
<1>4. \A k \in 0 .. n : after[k] = IF k = 0 THEN Ok(<<>>, bytes) ELSE Advance(after[k - 1], Element)
  BY <1>2, <1>3 DEF ElementsTaken
<1>5. 0 \in 0 .. n /\ \A k \in 1 .. n : k \in 0 .. n /\ k # 0
  OBVIOUS
<1> QED BY <1>1, <1>2, <1>4, <1>5

(* What agrees with the whole agrees with the first parts of it, and behind  *)
(* them with the next part.                                                  *)
LEMMA AgreeJoined ==
    ASSUME NEW parts \in Seq(Bytes), NEW whole \in [0 .. Len(parts) -> Bytes], Joined(whole, parts),
           NEW c \in Bytes, Agree(c, whole[Len(parts)])
    PROVE  \A k \in 0 .. Len(parts) :
              /\ Agree(c, whole[k])
              /\ k # 0 /\ Len(whole[k - 1]) <= Len(c) => Agree(Drop(c, Len(whole[k - 1])), parts[k])
<1> DEFINE n == Len(parts)
           T == {k \in 0 .. n : ~Agree(c, whole[n - k])}
<1>1. n \in Nat /\ \A i \in 1 .. n : parts[i] \in Bytes
  BY LenProperties, ElementOfSeq
<1>2. \A k \in 1 .. n : whole[k] = whole[k - 1] \o parts[k]
  BY DEF Joined
<1> HIDE DEF n
<1>3. \A k \in 1 .. n : k - 1 \in 0 .. n /\ k \in 0 .. n
  BY <1>1
<1>4. ASSUME NEW k \in 1 .. n, Agree(c, whole[k])
      PROVE  /\ Agree(c, whole[k - 1])
             /\ Len(whole[k - 1]) <= Len(c) => Agree(Drop(c, Len(whole[k - 1])), parts[k])
  <2>1. whole[k - 1] \in Bytes /\ parts[k] \in Bytes /\ Agree(c, whole[k - 1] \o parts[k])
    BY <1>1, <1>2, <1>3, <1>4 DEF n
  <2> QED BY <2>1, AgreeParts DEF Bytes
<1>5. \A k \in 0 .. n : Agree(c, whole[n - k])
  <2>1. SUFFICES ASSUME T # {} PROVE FALSE
    OBVIOUS
  <2>2. PICK j \in T : \A k \in T : j <= k
    <3>1. T \subseteq Nat
      BY <1>1
    <3> HIDE DEF T
    <3> QED BY <2>1, <3>1, LeastElement
  <2>3. CASE j = 0
    <3>1. n - 0 = n
      BY <1>1
    <3> QED BY <2>2, <2>3, <3>1 DEF n
  <2>4. CASE j # 0
    <3>1. j - 1 \in 0 .. n /\ j - 1 \notin T
      <4>1. j \in 0 .. n /\ j - 1 \in 0 .. n /\ ~(j <= j - 1)
        BY <1>1, <2>4
      <4> HIDE DEF T
      <4> QED BY <2>2, <4>1
    <3>2. n - (j - 1) \in 1 .. n /\ (n - (j - 1)) - 1 = n - j
      BY <1>1, <2>2, <2>4
    <3>3. Agree(c, whole[n - (j - 1)])
      BY <3>1
    <3>4. Agree(c, whole[n - j])
      BY <1>4, <3>2, <3>3
    <3> QED BY <2>2, <3>4
  <2> QED BY <2>3, <2>4
<1>6. ASSUME NEW k \in 0 .. n PROVE Agree(c, whole[k])
  <2>1. n - k \in 0 .. n /\ n - (n - k) = k
    BY <1>1
  <2>2. Agree(c, whole[n - (n - k)])
    BY <1>5, <2>1
  <2> QED BY <2>1, <2>2
<1>7. \A k \in 0 .. n : k # 0 => k \in 1 .. n
  BY <1>1
<1> QED BY <1>4, <1>6, <1>7 DEF n

LEMMA WaitingIsError == ASSUME NEW d \in Waiting PROVE ~d.ok
<1>1. \A why : ~Error(why).ok
  BY DEF Error
<1> QED BY <1>1 DEF Waiting

(* An array without its header: its elements are taken one after the other,  *)
(* if Element takes each of them.                                            *)
LEMMA ElementsRead ==
    ASSUME NEW V, NEW es \in Seq(V), NEW parts \in Seq(Bytes), Len(parts) = Len(es),
           NEW c \in Bytes, NEW Element,
           \A k \in 1 .. Len(es) : \A b \in Bytes :
              Len(b) <= Len(c) /\ Agree(b, parts[k]) => Outcome(Element[b], b, parts[k], es[k]),
           Agree(c, FlattenSeq(parts))
    PROVE  /\ FlattenSeq(parts) \in Bytes
           /\ Outcome(decode_array_elements(Len(es), c, Element), c, FlattenSeq(parts), Array(es))
<1> DEFINE n == Len(es)
           l == Len(c)
           flat == FlattenSeq(parts)
<1>1. n \in Nat /\ l \in Nat /\ (\A k \in 1 .. n : es[k] \in V /\ parts[k] \in Bytes)
  BY LenProperties, ElementOfSeq DEF Bytes
<1>2. PICK whole \in [0 .. n -> Bytes] : Joined(whole, parts) /\ flat = whole[n]
  BY FlattenIs
<1> HIDE DEF flat
<1>3. \A k \in 0 .. n :
          /\ Agree(c, whole[k])
          /\ k # 0 /\ Len(whole[k - 1]) <= Len(c) => Agree(Drop(c, Len(whole[k - 1])), parts[k])
  BY <1>2, AgreeJoined DEF flat
<1>4. PICK after :
          /\ after[0] = Ok(<<>>, c)
          /\ \A k \in 1 .. n : after[k] = Advance(after[k - 1], Element)
          /\ decode_array_elements(n, c, Element) =
                IF after[n].ok THEN Ok(Array(after[n].value), after[n].rest) ELSE after[n]
  <2> HIDE DEF n
  <2> QED BY <1>1, ElementsOf
<1>5. \A k \in 1 .. n : \A b \in Bytes :
          Len(b) <= l /\ Agree(b, parts[k]) => Outcome(Element[b], b, parts[k], es[k])
  OBVIOUS
<1>6. whole[0] = <<>> /\ \A k \in 1 .. n : whole[k] = whole[k - 1] \o parts[k]
  BY <1>2 DEF Joined
<1> DEFINE Good(k) == IF Len(whole[k]) <= l
                      THEN after[k] = Ok(SubSeq(es, 1, k), Drop(c, Len(whole[k])))
                      ELSE after[k] \in Waiting
           T == {k \in 0 .. n : ~Good(k)}
<1> HIDE DEF n, l
<1>7. ASSUME NEW k \in 1 .. n
      PROVE  /\ Len(whole[k]) = Len(whole[k - 1]) + Len(parts[k])
             /\ Len(whole[k - 1]) \in Nat /\ Len(parts[k]) \in Nat
  <2>1. whole[k - 1] \in Bytes /\ parts[k] \in Bytes
    <3>1. k - 1 \in 0 .. n
      BY <1>1
    <3> QED BY <1>1, <1>2, <3>1
  <2> DEFINE a == whole[k - 1]
             b == parts[k]
  <2>2. whole[k] = a \o b /\ a \in Seq(Byte) /\ b \in Seq(Byte)
    BY <1>6, <2>1 DEF Bytes
  <2> HIDE DEF a, b
  <2>3. Len(a \o b) = Len(a) + Len(b) /\ Len(a) \in Nat /\ Len(b) \in Nat
    BY <2>2, JoinIs
  <2> QED BY <2>2, <2>3 DEF a, b
<1>8. Good(0)
  <2>1. Len(whole[0]) = 0 /\ Len(whole[0]) <= l
    BY <1>1, <1>6
  <2>2. SubSeq(es, 1, 0) = <<>>
    BY SubSeqEmpty
  <2>3. Drop(c, 0) = c
    BY DropAll
  <2> QED BY <1>4, <2>1, <2>2, <2>3
<1>9. ASSUME NEW k \in 1 .. n, Good(k - 1) PROVE Good(k)
  <2> DEFINE p == Len(whole[k - 1])
             q == Len(parts[k])
             b == Drop(c, p)
             before == after[k - 1]
             d == Element[before.rest]
  <2>1. p \in Nat /\ q \in Nat /\ Len(whole[k]) = p + q
    BY <1>7
  <2>2. after[k] = Advance(before, Element)
    BY <1>4
  <2>3. CASE ~(p <= l)
    <3>1. before \in Waiting /\ ~(p + q <= l)
      BY <1>1, <1>9, <2>1, <2>3
    <3>2. after[k] = before
      <4>1. ~before.ok
        BY <3>1, WaitingIsError
      <4> HIDE DEF before
      <4> QED BY <2>2, <4>1 DEF Advance
    <3> QED BY <2>1, <3>1, <3>2
  <2>4. CASE p <= l
    <3>1. before = Ok(SubSeq(es, 1, k - 1), b)
      BY <1>9, <2>4
    <3>2. b \in Bytes /\ Len(b) = l - p /\ Agree(b, parts[k])
      <4>1. p \in 0 .. Len(c)
        BY <1>1, <2>1, <2>4 DEF l
      <4>2. k \in 0 .. n /\ k # 0
        BY <1>1
      <4> QED BY <1>3, <2>4, <4>1, <4>2, DropIs DEF l
    <3>3. before.ok /\ before.value = SubSeq(es, 1, k - 1) /\ before.rest = b
      BY <3>1 DEF Ok
    <3> HIDE DEF p, q, b, before
    <3>4. Outcome(Element[b], b, parts[k], es[k])
      <4>1. Len(b) <= l
        BY <1>1, <2>1, <3>2
      <4> QED BY <1>5, <3>2, <4>1
    <3>5. CASE q <= Len(b)
      <4>1. Element[b] = Ok(es[k], Drop(b, q))
        BY <3>4, <3>5 DEF Outcome, q
      <4>2. p + q <= l
        BY <1>1, <2>1, <3>2, <3>5
      <4>3. Drop(b, q) = Drop(c, p + q)
        BY <2>1, <4>2, DropMore DEF b, l
      <4>4. after[k] = Ok(Append(SubSeq(es, 1, k - 1), es[k]), Drop(b, q))
        BY <2>2, <3>3, <4>1 DEF Advance, Ok
      <4>5. Append(SubSeq(es, 1, k - 1), es[k]) = SubSeq(es, 1, k)
        <5>1. 1 \in 1 .. Len(es) /\ k \in 1 .. Len(es) /\ es[k] \in V
          BY <1>1 DEF n
        <5>2. SubSeq(es, 1, k) = SubSeq(es, 1, k - 1) \o <<es[k]>>
          BY <5>1, SubSeqRecursiveSecond
        <5>3. SubSeq(es, 1, k - 1) \in Seq(V)
          <6>1. \A i \in 1 .. (k - 1) : es[i] \in V
            BY <1>1
          <6>2. 1 \in Int /\ k - 1 \in Int
            BY <1>1
          <6> QED BY <6>1, <6>2, SubSeqProperties
        <5> QED BY <5>1, <5>2, <5>3, AppendIsConcat
      <4> QED BY <2>1, <4>2, <4>3, <4>4, <4>5
    <3>6. CASE ~(q <= Len(b))
      <4>1. Element[b] \in Waiting
        BY <3>4, <3>6 DEF Outcome, q
      <4>2. ~(p + q <= l)
        BY <1>1, <2>1, <3>2, <3>6
      <4>3. after[k] = Element[b]
        <5>1. ~Element[b].ok
          BY <4>1, WaitingIsError
        <5>2. Advance(before, Element) = Element[b]
          BY <3>3, <5>1 DEF Advance
        <5> QED BY <2>2, <5>2
      <4> QED BY <2>1, <4>1, <4>2, <4>3
    <3> QED BY <3>5, <3>6
  <2> QED BY <2>3, <2>4
<1> HIDE DEF Good
<1>10. Good(n)
  <2>1. SUFFICES ASSUME T # {} PROVE FALSE
    <3>1. n \in 0 .. n
      BY <1>1
    <3> QED BY <3>1
  <2>2. PICK j \in T : \A k \in T : j <= k
    <3>1. T \subseteq Nat
      BY <1>1
    <3> HIDE DEF T
    <3> QED BY <2>1, <3>1, LeastElement
  <2>3. j # 0
    BY <1>8, <2>2
  <2>4. j - 1 \in 0 .. n /\ j - 1 \notin T /\ j \in 1 .. n
    BY <1>1, <2>2, <2>3
  <2> QED BY <1>9, <2>2, <2>4
<1>11. flat \in Bytes
  <2>1. n \in 0 .. n
    BY <1>1
  <2> QED BY <1>2, <2>1
<1>12. Outcome(decode_array_elements(n, c, Element), c, flat, Array(es))
  <2>1. SubSeq(es, 1, n) = es
    BY SubSeqFull DEF n
  <2>2. CASE Len(flat) <= l
    <3>1. after[n] = Ok(es, Drop(c, Len(flat)))
      BY <1>2, <1>10, <2>1, <2>2 DEF Good
    <3>2. decode_array_elements(n, c, Element) = Ok(Array(es), Drop(c, Len(flat)))
      BY <1>4, <3>1 DEF Ok
    <3> QED BY <2>2, <3>2 DEF Outcome, l
  <2>3. CASE ~(Len(flat) <= l)
    <3>1. after[n] \in Waiting
      BY <1>2, <1>10, <2>3 DEF Good
    <3>2. decode_array_elements(n, c, Element) = after[n]
      BY <1>4, <3>1, WaitingIsError
    <3> QED BY <2>3, <3>1, <3>2 DEF Outcome, l
  <2> QED BY <2>2, <2>3
<1> QED BY <1>11, <1>12 DEF n, flat

(* An array is a line with the number of its elements, and the elements.     *)
LEMMA ArrayRead ==
    ASSUME NEW V, NEW es \in Seq(V), NEW parts \in Seq(Bytes), Len(parts) = Len(es),
           NEW c \in Bytes, NEW Element,
           \A k \in 1 .. Len(es) : \A b \in Bytes :
              Len(b) < Len(c) /\ Agree(b, parts[k]) => Outcome(Element[b], b, parts[k], es[k]),
           NEW e, e = Encoded(Array(es), parts), Agree(c, e)
    PROVE  Outcome(decode_with(c, Element), c, e, Array(es))
<1> DEFINE n == Len(es)
           line == string_of_int(n)
           h == HeaderOf("*", line)
           flat == FlattenSeq(parts)
           l == Len(c)
           k == Len(h)
           body == Drop(c, k)
<1>1. n \in Nat /\ n \in Int /\ n # -1
  BY LenProperties
<1>2. e = h \o flat
  BY DEF Encoded, Array, HeaderOf
<1>3. flat \in Bytes
  <2>1. PICK whole \in [0 .. Len(parts) -> Bytes] : flat = whole[Len(parts)]
    BY FlattenIs
  <2>2. Len(parts) \in 0 .. Len(parts)
    BY <1>1
  <2> HIDE DEF flat
  <2> QED BY <2>1, <2>2
<1>4. line \in Chars /\ NoBreak(line) /\ IsNumber(line) /\ int_of_string(line) = n
  <2> HIDE DEF n
  <2> QED BY <1>1, NumberIsLine, NumberReadBack
<1> HIDE DEF line, flat
<1>5. h \in Chars /\ "*" \in Types
  <2>1. "*" \in Types
    BY DEF Types
  <2> QED BY <1>4, <2>1, TypeIsChar, HeaderIs
<1>6. /\ Agree(c, h) /\ (k <= l => Agree(body, flat))
      /\ Len(e) = k + Len(flat) /\ Len(flat) \in Nat
  <2>1. h \in Seq(Char) /\ flat \in Seq(Char)
    BY <1>3, <1>5, BytesAreChars DEF Chars
  <2> HIDE DEF h
  <2>2. Agree(c, h \o flat)
    BY <1>2
  <2>3. Agree(c, h) /\ (k <= l => Agree(body, flat))
    BY <2>1, <2>2, AgreeParts
  <2> QED BY <1>2, <2>1, <2>3, JoinIs
<1>7. /\ l \in Nat /\ k \in Nat /\ k > 2
      /\ l < k => decode_with(c, Element) \in Waiting
      /\ k <= l => /\ c # <<>> /\ c[1] = "*"
                   /\ find_crlf(c) # 0
                   /\ Content(c) = line /\ Rest(c) = body
  BY <1>4, <1>5, <1>6, LineRead
<1> HIDE DEF h
<1>8. CASE l < k
  <2>1. ~(Len(e) <= l)
    BY <1>6, <1>7, <1>8
  <2> QED BY <1>7, <1>8, <2>1 DEF Outcome
<1>9. CASE k <= l
  <2> DEFINE d == decode_array_elements(n, body, Element)
  <2>1. decode_with(c, Element) = d
    BY <1>1, <1>4, <1>7, <1>9 DEF decode_with
  <2>2. body \in Bytes /\ Len(body) = l - k
    <3>1. k \in 0 .. l
      BY <1>7, <1>9
    <3> QED BY <3>1, DropIs
  <2>3. Outcome(d, body, flat, Array(es))
    <3>1. ASSUME NEW i \in 1 .. Len(es), NEW b \in Bytes, Len(b) <= Len(body), Agree(b, parts[i])
          PROVE  Outcome(Element[b], b, parts[i], es[i])
      <4>1. Len(b) \in Nat
        BY <3>1, LenProperties DEF Bytes
      <4> HIDE DEF body
      <4>2. Len(b) < Len(c)
        BY <1>7, <1>9, <2>2, <3>1, <4>1 DEF l
      <4> QED BY <3>1, <4>2
    <3>2. Agree(body, FlattenSeq(parts))
      BY <1>6, <1>9 DEF flat
    <3> HIDE DEF body
    <3> QED BY <2>2, <3>1, <3>2, ElementsRead DEF flat
  <2> HIDE DEF d
  <2>4. CASE Len(e) <= l
    <3>1. Len(flat) <= Len(body)
      BY <1>6, <1>7, <2>2, <2>4
    <3>2. d = Ok(Array(es), Drop(body, Len(flat)))
      BY <2>3, <3>1 DEF Outcome
    <3>3. Drop(body, Len(flat)) = Drop(c, Len(e))
      <4>1. k + Len(flat) <= Len(c)
        BY <1>6, <2>4
      <4> QED BY <1>6, <1>7, <4>1, DropMore
    <3> QED BY <2>1, <2>4, <3>2, <3>3 DEF Outcome
  <2>5. CASE ~(Len(e) <= l)
    <3>1. ~(Len(flat) <= Len(body))
      BY <1>6, <1>7, <2>2, <2>5
    <3>2. d \in Waiting
      BY <2>3, <3>1 DEF Outcome
    <3> QED BY <2>1, <2>5, <3>2 DEF Outcome
  <2> QED BY <2>4, <2>5
<1> QED BY <1>7, <1>8, <1>9

-------------------------------------------------------------------------------
(* decode, for a set V of values whose elements are in V again.              *)

(* Encode makes of the values in V what encode makes of them.                *)
EncodedBy(V) ==
    \A r \in V :
        /\ Encode(r) \in Bytes
        /\ Encode(r) = Encoded(r, IF r.type = "Array" THEN [i \in DOMAIN r.value |-> Encode(r.value[i])]
                                                       ELSE <<>>)

LEMMA PlainIsScalar ==
    ASSUME NEW r, r = [type |-> r.type, value |-> r.value], Plain(r)
    PROVE  r \in Scalars
<1> DEFINE v == r.value
<1>1. r = [type |-> r.type, value |-> v]
  OBVIOUS
<1> HIDE DEF v
<1>2. CASE r.type = "Simple" /\ v \in Bytes /\ NoBreak(v)
  <2>1. r = SimpleString(v) /\ v \in Lines
    BY <1>1, <1>2 DEF SimpleString, Lines
  <2> QED BY <2>1 DEF Scalars
<1>3. CASE r.type = "Error" /\ v \in Bytes /\ NoBreak(v)
  <2>1. r = ErrorString(v) /\ v \in Lines
    BY <1>1, <1>3 DEF ErrorString, Lines
  <2> QED BY <2>1 DEF Scalars
<1>4. CASE r.type = "Integer" /\ v \in Int
  <2>1. r = Integer(v)
    BY <1>1, <1>4 DEF Integer
  <2> QED BY <1>4, <2>1 DEF Scalars
<1>5. CASE r.type = "Bulk" /\ v \in Bytes
  <2>1. r = BulkString(v)
    BY <1>1, <1>5 DEF BulkString
  <2> QED BY <1>5, <2>1 DEF Scalars
<1>6. CASE r.type \in {"NullBulk", "NullArray"} /\ v = <<>>
  <2>1. r \in {NullBulk, NullArray}
    BY <1>1, <1>6 DEF NullBulk, NullArray
  <2> QED BY <2>1 DEF Scalars
<1> QED BY <1>2, <1>3, <1>4, <1>5, <1>6 DEF Plain, Bytes, v

LEMMA ValueRead ==
    ASSUME NEW V, Transmissible(V), EncodedBy(V), NEW v \in V, NEW c \in Bytes, Agree(c, Encode(v)),
           NEW Element,
           \A w \in V : \A b \in Bytes :
              Len(b) < Len(c) /\ Agree(b, Encode(w)) => Outcome(Element[b], b, Encode(w), w)
    PROVE  Outcome(decode_with(c, Element), c, Encode(v), v)
<1>1. v = [type |-> v.type, value |-> v.value]
  BY DEF Transmissible
<1>2. CASE Plain(v)
  <2> DEFINE elements == IF v.type = "Array" THEN [i \in DOMAIN v.value |-> Encode(v.value[i])]
                                              ELSE <<>>
  <2>1. Encode(v) = Encoded(v, elements)
    BY DEF EncodedBy
  <2> HIDE DEF elements
  <2> QED BY <1>1, <1>2, <2>1, PlainIsScalar, ScalarRead
<1>3. CASE v.type = "Array" /\ v.value \in Seq(V)
  <2> DEFINE es == v.value
             parts == [i \in DOMAIN es |-> Encode(es[i])]
             n == Len(es)
  <2>1. v = Array(es) /\ es \in Seq(V)
    BY <1>1, <1>3 DEF Array
  <2>2. Encode(v) = Encoded(v, parts)
    BY <1>3 DEF EncodedBy
  <2>3. DOMAIN es = 1 .. n /\ n \in Nat /\ \A i \in 1 .. n : es[i] \in V
    BY <1>3, LenProperties, ElementOfSeq
  <2> HIDE DEF es, n
  <2>4. parts \in Seq(Bytes) /\ Len(parts) = n /\ \A i \in 1 .. n : parts[i] = Encode(es[i])
    <3>1. \A i \in 1 .. n : Encode(es[i]) \in Bytes
      BY <2>3 DEF EncodedBy
    <3>2. parts \in [1 .. n -> Bytes] /\ DOMAIN parts = 1 .. n
      BY <2>3, <3>1
    <3>3. parts \in Seq(Bytes)
      BY <2>3, <3>2, SeqDef
    <3>4. Len(parts) = n
      <4> HIDE DEF parts
      <4> QED BY <2>3, <3>2, <3>3, LenProperties
    <3> QED BY <2>3, <3>3, <3>4
  <2> HIDE DEF parts
  <2>5. \A k \in 1 .. n : \A b \in Bytes :
            Len(b) < Len(c) /\ Agree(b, parts[k]) => Outcome(Element[b], b, parts[k], es[k])
    BY <2>3, <2>4
  <2> QED BY <2>1, <2>2, <2>4, <2>5, ArrayRead DEF n
<1> QED BY <1>2, <1>3 DEF Transmissible

LEMMA EncodingStarts ==
    ASSUME NEW V, Transmissible(V), EncodedBy(V), NEW v \in V
    PROVE  Encode(v) \in Bytes /\ Len(Encode(v)) \in Nat \ {0}
<1> DEFINE e == Encode(v)
           c == <<>>
           Element == <<>>
<1>1. e \in Bytes /\ Len(e) \in Nat
  <2>1. e \in Bytes
    BY DEF EncodedBy
  <2> QED BY <2>1, LenProperties DEF Bytes
<1>2. c \in Bytes /\ Len(c) = 0 /\ Agree(c, e)
  BY DEF Bytes, Agree
<1>3. \A b \in Bytes : ~(Len(b) < 0)
  BY LenProperties DEF Bytes
<1>4. decode_with(c, Element) = Error("Empty buffer")
  BY DEF decode_with
<1> HIDE DEF e, c, Element
<1>5. Outcome(decode_with(c, Element), c, e, v)
  BY <1>2, <1>3, ValueRead DEF e
<1>6. Len(e) # 0
  <2> SUFFICES ASSUME Len(e) = 0 PROVE FALSE
    OBVIOUS
  <2>1. Error("Empty buffer") = Ok(v, Drop(c, Len(e)))
    <3>1. Len(e) <= Len(c)
      BY <1>2
    <3> QED BY <1>4, <1>5, <3>1 DEF Outcome
  <2>2. ~Error("Empty buffer").ok /\ Ok(v, Drop(c, Len(e))).ok
    BY DEF Error, Ok
  <2> QED BY <2>1, <2>2
<1> QED BY <1>1, <1>6 DEF e

(* decode calls itself as deep as the buffer is long.                        *)
Levels(upto, n) ==
    upto = [k \in 0 .. n |->
              [b \in Seq(Byte) |-> IF k = 0 THEN Error("Empty buffer") ELSE decode_with(b, upto[k - 1])]]

LEMMA LevelsExist ==
    ASSUME NEW n \in Nat
    PROVE  \E upto : Levels(upto, n)
<1> DEFINE T == {m \in 0 .. n : ~ \E upto : Levels(upto, m)}
           Level(f, k) == [b \in Seq(Byte) |-> IF k = 0 THEN Error("Empty buffer")
                                                ELSE decode_with(b, f[k - 1])]
<1>1. SUFFICES ASSUME T # {} PROVE FALSE
  OBVIOUS
<1>2. PICK m \in T : \A k \in T : m <= k
  <2>1. T \subseteq Nat
    OBVIOUS
  <2> HIDE DEF T
  <2> QED BY <1>1, <2>1, LeastElement
<1>3. m \in 0 .. n /\ ~ \E upto : Levels(upto, m)
  OBVIOUS
<1>4. CASE m = 0
  <2> DEFINE g == [k \in 0 .. 0 |-> [b \in Seq(Byte) |-> Error("Empty buffer")]]
  <2>1. \A k \in 0 .. 0 : k = 0
    OBVIOUS
  <2>2. \A k \in 0 .. 0 : g[k] = Level(g, k)
    BY <2>1
  <2>3. g = [k \in 0 .. 0 |-> Level(g, k)]
    BY <2>2
  <2> HIDE DEF g
  <2> QED BY <1>3, <1>4, <2>3 DEF Levels
<1>5. CASE m # 0
  <2>1. m - 1 \in 0 .. n /\ m \in 1 .. n /\ m - 1 \notin T
    BY <1>2, <1>3, <1>5
  <2>2. PICK f : Levels(f, m - 1)
    BY <2>1
  <2> HIDE DEF T
  <2>3. \A k \in 0 .. (m - 1) : f[k] = Level(f, k)
    BY <2>2 DEF Levels
  <2> DEFINE g == [k \in 0 .. m |-> IF k = m THEN Level(f, m) ELSE f[k]]
  <2>4. g[m] = Level(f, m) /\ \A k \in 0 .. (m - 1) : g[k] = f[k]
    <3>1. m \in 0 .. m /\ \A k \in 0 .. (m - 1) : k \in 0 .. m /\ k # m
      BY <2>1
    <3> HIDE DEF Level
    <3> QED BY <3>1
  <2>5. \E h : g = [k \in 0 .. m |-> h[k]]
    OBVIOUS
  <2> HIDE DEF g
  <2>6. ASSUME NEW k \in 0 .. m PROVE g[k] = Level(g, k)
    <3>1. CASE k = m
      <4>1. m - 1 \in 0 .. (m - 1)
        BY <2>1
      <4>2. g[m - 1] = f[m - 1]
        BY <2>4, <4>1
      <4>3. Level(g, m) = Level(f, m)
        BY <4>2
      <4> QED BY <2>4, <3>1, <4>3
    <3>2. CASE k # m
      <4>1. k \in 0 .. (m - 1) /\ (k # 0 => k - 1 \in 0 .. (m - 1))
        BY <2>1, <3>2
      <4>2. g[k] = f[k] /\ (k # 0 => g[k - 1] = f[k - 1])
        BY <2>4, <4>1
      <4>3. Level(g, k) = Level(f, k)
        BY <4>2
      <4> QED BY <2>3, <4>1, <4>2, <4>3
    <3> QED BY <3>1, <3>2
  <2>7. g = [k \in 0 .. m |-> Level(g, k)]
    <3> HIDE DEF Level
    <3> QED BY <2>5, <2>6
  <2> QED BY <1>3, <2>7 DEF Levels
<1> QED BY <1>4, <1>5

LEMMA DecodeIs ==
    ASSUME NEW c \in Bytes
    PROVE  \E upto :
              /\ \A b \in Bytes : upto[0][b] = Error("Empty buffer")
              /\ \A k \in 1 .. Len(c) : \A b \in Bytes : upto[k][b] = decode_with(b, upto[k - 1])
              /\ decode(c) = upto[Len(c)][c]
<1> DEFINE n == Len(c)
           upto == CHOOSE f :
                     f = [k \in 0 .. Len(c) |->
                            [b \in Seq(Byte) |-> IF k = 0 THEN Error("Empty buffer")
                                                 ELSE decode_with(b, f[k - 1])]]
<1>1. decode(c) = upto[n][c]
  BY DEF decode
<1>2. n \in Nat
  BY LenProperties DEF Bytes
<1>3. Levels(upto, n)
  BY <1>2, LevelsExist DEF Levels
<1> HIDE DEF upto, n
<1>4. ASSUME NEW k \in 0 .. n, NEW b \in Bytes
      PROVE  upto[k][b] = IF k = 0 THEN Error("Empty buffer") ELSE decode_with(b, upto[k - 1])
  <2>1. upto[k] = [x \in Seq(Byte) |-> IF k = 0 THEN Error("Empty buffer")
                                       ELSE decode_with(x, upto[k - 1])]
    BY <1>3 DEF Levels
  <2> QED BY <2>1 DEF Bytes
<1>5. 0 \in 0 .. n /\ \A k \in 1 .. n : k \in 0 .. n /\ k # 0
  BY <1>2
<1> QED BY <1>1, <1>4, <1>5 DEF n

(* Bytes that are those of a value, as far as they go, are decoded as that   *)
(* value, or are found incomplete if some are missing.                       *)
LEMMA DecodeReads ==
    ASSUME NEW V, Transmissible(V), EncodedBy(V), NEW v \in V, NEW c \in Bytes, Agree(c, Encode(v))
    PROVE  Outcome(decode(c), c, Encode(v), v)
<1> DEFINE n == Len(c)
<1>1. n \in Nat
  BY LenProperties DEF Bytes
<1>2. PICK upto :
          /\ \A b \in Bytes : upto[0][b] = Error("Empty buffer")
          /\ \A k \in 1 .. n : \A b \in Bytes : upto[k][b] = decode_with(b, upto[k - 1])
          /\ decode(c) = upto[n][c]
  BY DecodeIs
<1> HIDE DEF n
<1> DEFINE Good(k) == \A w \in V : \A b \in Bytes :
                         Len(b) <= k /\ Agree(b, Encode(w)) => Outcome(upto[k][b], b, Encode(w), w)
           T == {k \in 0 .. n : ~Good(k)}
<1>3. Good(0)
  <2> SUFFICES ASSUME NEW w \in V, NEW b \in Bytes, Len(b) <= 0
               PROVE  Outcome(upto[0][b], b, Encode(w), w)
    OBVIOUS
  <2>1. ~(Len(Encode(w)) <= Len(b))
    BY EncodingStarts
  <2>2. upto[0][b] \in Waiting
    BY <1>2 DEF Waiting
  <2> QED BY <2>1, <2>2 DEF Outcome
<1>4. ASSUME NEW k \in 1 .. n, Good(k - 1) PROVE Good(k)
  <2> SUFFICES ASSUME NEW w \in V, NEW b \in Bytes, Len(b) <= k, Agree(b, Encode(w))
               PROVE  Outcome(upto[k][b], b, Encode(w), w)
    OBVIOUS
  <2>1. \A x \in V : \A a \in Bytes :
            Len(a) < Len(b) /\ Agree(a, Encode(x)) => Outcome(upto[k - 1][a], a, Encode(x), x)
    <3> SUFFICES ASSUME NEW x \in V, NEW a \in Bytes, Len(a) < Len(b), Agree(a, Encode(x))
                 PROVE  Outcome(upto[k - 1][a], a, Encode(x), x)
      OBVIOUS
    <3>1. Len(a) \in Nat /\ Len(b) \in Nat
      BY LenProperties DEF Bytes
    <3>2. Len(a) <= k - 1
      BY <3>1
    <3> QED BY <1>4, <3>2
  <2>2. Outcome(decode_with(b, upto[k - 1]), b, Encode(w), w)
    <3> DEFINE Element == upto[k - 1]
    <3>1. \A x \in V : \A a \in Bytes :
              Len(a) < Len(b) /\ Agree(a, Encode(x)) => Outcome(Element[a], a, Encode(x), x)
      BY <2>1
    <3> HIDE DEF Element, Good
    <3>2. Outcome(decode_with(b, Element), b, Encode(w), w)
      BY <3>1, ValueRead
    <3> QED BY <3>2 DEF Element
  <2> QED BY <1>2, <2>2
<1> HIDE DEF Good
<1>5. Good(n)
  <2>1. SUFFICES ASSUME T # {} PROVE FALSE
    <3>1. n \in 0 .. n
      BY <1>1
    <3> QED BY <3>1
  <2>2. PICK j \in T : \A k \in T : j <= k
    <3>1. T \subseteq Nat
      BY <1>1
    <3> HIDE DEF T
    <3> QED BY <2>1, <3>1, LeastElement
  <2>3. j # 0
    BY <1>3, <2>2
  <2>4. j - 1 \in 0 .. n /\ j - 1 \notin T /\ j \in 1 .. n
    BY <1>1, <2>2, <2>3
  <2> QED BY <1>4, <2>2, <2>4
<1>6. Len(c) <= n
  BY <1>1 DEF n
<1> QED BY <1>2, <1>5, <1>6 DEF Good

LEMMA DecodeShort ==
    ASSUME NEW c \in Bytes
    PROVE  /\ c = <<>> => decode(c) = Error("Empty buffer")
           /\ c # <<>> /\ c[1] \notin Types => decode(c) = Error("Invalid RESP type")
<1>1. PICK upto :
          /\ \A b \in Bytes : upto[0][b] = Error("Empty buffer")
          /\ \A k \in 1 .. Len(c) : \A b \in Bytes : upto[k][b] = decode_with(b, upto[k - 1])
          /\ decode(c) = upto[Len(c)][c]
  BY DecodeIs
<1>2. CASE c = <<>>
  <2>1. Len(c) = 0
    BY <1>2
  <2>2. upto[Len(c)][c] = upto[0][c]
    BY <2>1
  <2> QED BY <1>1, <1>2, <2>2
<1>3. CASE c # <<>> /\ c[1] \notin Types
  <2>1. Len(c) \in Nat /\ Len(c) # 0
    BY <1>3, LenProperties, EmptySeq DEF Bytes
  <2> DEFINE n == Len(c)
             Element == upto[n - 1]
  <2>2. n \in 1 .. n
    BY <2>1
  <2>3. decode(c) = decode_with(c, Element)
    BY <1>1, <2>2
  <2> HIDE DEF Element
  <2>4. decode_with(c, Element) = Error("Invalid RESP type")
    BY <1>3 DEF decode_with, Types
  <2> QED BY <1>3, <2>3, <2>4
<1> QED BY <1>2, <1>3

LEMMA PrefixIs ==
    ASSUME NEW e \in Bytes, NEW n \in 0 .. Len(e)
    PROVE  /\ SubSeq(e, 1, n) \in Bytes /\ Len(SubSeq(e, 1, n)) = n
           /\ \A i \in 1 .. n : SubSeq(e, 1, n)[i] = e[i]
<1> DEFINE l == Len(e)
           p == SubSeq(e, 1, n)
<1>1. l \in Nat /\ n \in 0 .. l /\ \A i \in 1 .. l : e[i] \in Byte
  BY LenProperties, ElementOfSeq DEF Bytes
<1> HIDE DEF l
<1>2. \A i \in 1 .. n : e[i] \in Byte
  BY <1>1
<1>3. /\ p \in Seq(Byte) /\ Len(p) = IF 1 <= n THEN n - 1 + 1 ELSE 0
      /\ \A i \in 1 .. n - 1 + 1 : p[i] = e[1 + i - 1]
  <2>1. 1 \in Int /\ n \in Int
    BY <1>1
  <2> QED BY <1>2, <2>1, SubSeqProperties
<1> HIDE DEF p
<1>4. Len(p) = n /\ \A i \in 1 .. n : p[i] = e[i]
  <2>1. n - 1 + 1 = n /\ (1 <= n \/ n = 0) /\ \A i \in 1 .. n : 1 + i - 1 = i
    BY <1>1
  <2> QED BY <1>3, <2>1
<1> QED BY <1>3, <1>4 DEF p, Bytes

LEMMA InlineIs == InlineCommand \in Bytes /\ Len(InlineCommand) = 3 /\ InlineCommand[1] = "P"
<1>1. "P" \in Byte /\ "CR" \in Byte /\ "LF" \in Byte
  BY ByteAssumption
<1>2. InlineCommand \in [1 .. 3 -> Byte]
  BY <1>1 DEF InlineCommand
<1> QED BY <1>2, SeqDef DEF Bytes, InlineCommand

(* The decoder loses nothing: however the stream is cut, a request is        *)
(* decoded as what it is and with the bytes behind it, or found incomplete,  *)
(* and an answer is decoded as itself (decode and its helpers in             *)
(* mini_redis/lib/mini_redis.ml), for requests and answers of any length and *)
(* depth that encode makes of values with lines that hold no CR.             *)
THEOREM DecoderLosesNothing ==
    ASSUME NEW V, Transmissible(V), EncodedBy(V),
           \A c \in Clients : \A r \in Requests[c] : r.resp \in V,
           Answers \subseteq V,
           \A bytes \in Bytes : Decode(bytes) = decode(bytes)
    PROVE  CodecSound(Bytes)
<1>1. ASSUME NEW v \in V
      PROVE  /\ Encode(v) \in Bytes /\ Len(Encode(v)) \in Nat \ {0}
             /\ \A rest \in Bytes : Decode(Encode(v) \o rest) = Ok(v, rest)
             /\ \A n \in 0 .. (Len(Encode(v)) - 1) : Decode(SubSeq(Encode(v), 1, n)) \in Waiting
  <2> DEFINE e == Encode(v)
  <2>1. e \in Bytes /\ Len(e) \in Nat \ {0}
    BY EncodingStarts
  <2>2. \A c \in Bytes : Agree(c, e) => Outcome(Decode(c), c, e, v)
    BY DecodeReads
  <2> HIDE DEF e
  <2>3. ASSUME NEW rest \in Bytes PROVE Decode(e \o rest) = Ok(v, rest)
    <3> DEFINE c == e \o rest
               l == Len(e)
               d == Drop(c, l)
    <3>1. /\ c \in Bytes /\ Len(c) = l + Len(rest) /\ l \in Nat /\ Len(rest) \in Nat
          /\ \A i \in 1 .. l : c[i] = e[i]
          /\ \A i \in 1 .. Len(rest) : c[l + i] = rest[i]
      BY <2>1, JoinIs DEF Bytes
    <3> HIDE DEF c, l
    <3>2. Agree(c, e)
      <4> SUFFICES ASSUME NEW i \in 1 .. Len(c), i <= l PROVE c[i] = e[i]
        BY DEF Agree, l
      <4>1. i \in 1 .. l
        BY <3>1
      <4> QED BY <3>1, <4>1
    <3>3. l <= Len(c) /\ l \in 0 .. Len(c) /\ Len(c) - l = Len(rest)
      BY <3>1
    <3>4. d = rest
      <4>1. d \in Bytes /\ Len(d) = Len(rest) /\ \A i \in 1 .. Len(rest) : d[i] = c[l + i]
        BY <3>1, <3>3, DropIs
      <4> HIDE DEF d
      <4> QED BY <3>1, <4>1, SameBytes
    <3>5. Outcome(Decode(c), c, e, v)
      BY <2>2, <3>1, <3>2
    <3>6. Decode(c) = Ok(v, d)
      BY <3>3, <3>5 DEF Outcome, l
    <3> QED BY <3>4, <3>6 DEF c
  <2>4. ASSUME NEW n \in 0 .. (Len(e) - 1) PROVE Decode(SubSeq(e, 1, n)) \in Waiting
    <3> DEFINE c == SubSeq(e, 1, n)
    <3>1. n \in 0 .. Len(e) /\ ~(Len(e) <= n)
      BY <2>1
    <3>2. c \in Bytes /\ Len(c) = n /\ \A i \in 1 .. n : c[i] = e[i]
      BY <2>1, <3>1, PrefixIs
    <3> HIDE DEF c
    <3>3. Outcome(Decode(c), c, e, v)
      <4>1. Agree(c, e)
        BY <3>2 DEF Agree
      <4> QED BY <2>2, <3>2, <4>1
    <3>4. Decode(c) \in Waiting
      BY <3>1, <3>2, <3>3 DEF Outcome
    <3> QED BY <3>4 DEF c
  <2> QED BY <2>1, <2>3, <2>4 DEF e
<1>2. ASSUME NEW n \in 0 .. Len(InlineCommand)
      PROVE  ~Decode(SubSeq(InlineCommand, 1, n)).ok
  <2> DEFINE c == SubSeq(InlineCommand, 1, n)
  <2>1. c \in Bytes /\ Len(c) = n /\ \A i \in 1 .. n : c[i] = InlineCommand[i]
    BY InlineIs, PrefixIs
  <2> HIDE DEF c
  <2>2. c = <<>> \/ (c # <<>> /\ c[1] \notin Types)
    <3> SUFFICES ASSUME c # <<>> PROVE c[1] \notin Types
      OBVIOUS
    <3>1. Len(c) # 0
      BY <2>1, EmptySeq DEF Bytes
    <3>2. 1 \in 1 .. n
      BY <2>1, <3>1, InlineIs
    <3>3. c[1] = "P"
      BY <2>1, <3>2, InlineIs
    <3> QED BY <3>3 DEF Types
  <2>3. \A why : ~Error(why).ok
    BY DEF Error
  <2>4. Decode(c) = decode(c)
    BY <2>1
  <2>5. ~decode(c).ok
    BY <2>1, <2>2, <2>3, DecodeShort
  <2>6. ~Decode(c).ok
    BY <2>4, <2>5
  <2> QED BY <2>6 DEF c
<1>3. ASSUME NEW c \in Clients, NEW r \in Requests[c], NEW bytes, bytes = Encode(r.resp)
      PROVE  /\ bytes \in Seq(Byte)
             /\ \A rest \in Bytes : Decode(bytes \o rest) = Ok(r.resp, rest)
             /\ \A n \in 0 .. (Len(bytes) - 1) :
                   Decode(SubSeq(bytes, 1, n)) \in {Error("Empty buffer"), Error("Incomplete")}
  <2>1. r.resp \in V
    OBVIOUS
  <2>2. /\ bytes \in Bytes
        /\ \A rest \in Bytes : Decode(bytes \o rest) = Ok(r.resp, rest)
        /\ \A n \in 0 .. (Len(bytes) - 1) : Decode(SubSeq(bytes, 1, n)) \in Waiting
    BY <1>1, <1>3, <2>1
  <2> QED BY <2>2 DEF Bytes, Waiting
<1>4. ASSUME NEW v \in Answers
      PROVE  Encode(v) \in Seq(Byte) \ {<<>>} /\ Decode(Encode(v)) = Ok(v, <<>>)
  <2>1. v \in V
    OBVIOUS
  <2> DEFINE e == Encode(v)
  <2>2. e \in Bytes /\ Len(e) \in Nat \ {0} /\ \A rest \in Bytes : Decode(e \o rest) = Ok(v, rest)
    BY <1>1, <2>1
  <2>3. <<>> \in Bytes /\ e \o <<>> = e
    BY <2>2, ConcatEmptySeq DEF Bytes
  <2>4. e # <<>>
    BY <2>2
  <2> HIDE DEF e
  <2>5. Decode(e) = Ok(v, <<>>)
    BY <2>2, <2>3
  <2> QED BY <2>2, <2>4, <2>5 DEF Bytes, e
<1> QED BY <1>2, <1>3, <1>4 DEF CodecSound

(* So the program with its own codec serves every stream of such requests in *)
(* order (decode, encode and the loop of mini_redis/bin/main.ml).            *)
THEOREM CommandsInOrderByDecoder ==
    ASSUME NEW V, Transmissible(V), EncodedBy(V),
           \A c \in Clients : \A r \in Requests[c] : r.resp \in V,
           Answers \subseteq V,
           \A bytes \in Bytes : Decode(bytes) = decode(bytes)
    PROVE  Spec => ImplementsKeyValue
<1>1. CodecSound(Bytes)
  BY DecoderLosesNothing
<1> QED BY <1>1, CommandsInOrder
===============================================================================
