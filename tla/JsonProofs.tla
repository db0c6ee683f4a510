------------------------------- MODULE JsonProofs -------------------------------
(***************************************************************************)
(* Proofs about JsonParser, for any strings and texts of any length: the   *)
(* parser accepts the texts of the grammar and returns their values, it    *)
(* accepts no other text unless that has a comma in front of a closing     *)
(* bracket, and it reads what is printed of a value back to that value.    *)
(* The parse functions, the grammar and the printer are recursive; here    *)
(* each recursion runs over a number (what is left of the parser's text,   *)
(* the length of the grammar's, the items that are printed), and what      *)
(* holds of it is proved by the least number for which it would not hold.  *)
(***************************************************************************)
EXTENDS JsonParser, SequenceTheorems, WellFoundedInduction, TLAPS

LEMMA LeastElement ==
    ASSUME NEW T, T \subseteq Nat, T # {}
    PROVE  \E m \in T : \A k \in T : m <= k
<1>1. PICK m \in T : \A k \in T : ~(<<k, m>> \in OpToRel(<, Nat))
  BY NatLessThanWellFounded, WFMin
<1>2. \A k \in T : ~(k < m)
  BY <1>1 DEF OpToRel
<1>3. \A k \in T : m <= k
  BY <1>2
<1> QED BY <1>3

-------------------------------------------------------------------------------
(* The grammar: what there is of n tokens is derived from what there is of   *)
(* fewer.                                                                    *)
Longest == MaxText + 1

DerivedFrom(n, f) ==
    [values |-> ValuesOf(n, f), items |-> ItemsOf(n, f), fields |-> FieldsOf(n, f)]

LEMMA FromShorter ==
    ASSUME NEW n \in Nat, NEW f, NEW g, \A k \in 0 .. (n - 1) : f[k] = g[k]
    PROVE  DerivedFrom(n, f) = DerivedFrom(n, g)
<1>1. ValuesOf(n, f) = ValuesOf(n, g)
  <2>1. CASE n < 3
    <3>1. n = 0 \/ n = 1 \/ n = 2
      BY <2>1
    <3> QED BY <3>1 DEF ValuesOf
  <2>2. CASE ~(n < 3)
    <3>1. n - 2 \in 0 .. (n - 1) /\ n # 0 /\ n # 1 /\ n # 2
      BY <2>2
    <3>2. f[n - 2] = g[n - 2]
      BY <3>1
    <3> QED BY <3>1, <3>2 DEF ValuesOf
  <2> QED BY <2>1, <2>2
<1>2. ItemsOf(n, f) = ItemsOf(n, g)
  <2> DEFINE Lists(h, k) ==
               {Pair(pq[1].text \o <<",">> \o pq[2].text, <<pq[1].value>> \o pq[2].value) :
                  pq \in h[k].values \X h[n - 1 - k].items}
  <2>1. ASSUME NEW k \in 1 .. (n - 2) PROVE Lists(f, k) = Lists(g, k)
    <3>1. k \in 0 .. (n - 1) /\ n - 1 - k \in 0 .. (n - 1)
      OBVIOUS
    <3>2. f[k] = g[k] /\ f[n - 1 - k] = g[n - 1 - k]
      BY <3>1
    <3> QED BY <3>2
  <2> HIDE DEF Lists
  <2>2. {Lists(f, k) : k \in 1 .. (n - 2)} = {Lists(g, k) : k \in 1 .. (n - 2)}
    BY <2>1
  <2> QED BY <1>1, <2>2 DEF ItemsOf, Lists
<1>3. FieldsOf(n, f) = FieldsOf(n, g)
  <2>1. CASE n < 3
    BY <2>1 DEF FieldsOf
  <2>2. CASE ~(n < 3)
    <3>1. n - 2 \in 0 .. (n - 1)
      BY <2>2
    <3>2. f[n - 2] = g[n - 2]
      BY <3>1
    <3> DEFINE Lists(h, k) ==
                 {Pair(<<kpq[1], ":">> \o kpq[2].text \o <<",">> \o kpq[3].text,
                       <<<<kpq[1], kpq[2].value>>>> \o kpq[3].value) :
                    kpq \in Keys \X h[k].values \X h[n - 3 - k].fields}
    <3>3. ASSUME NEW k \in 1 .. (n - 4) PROVE Lists(f, k) = Lists(g, k)
      <4>1. k \in 0 .. (n - 1) /\ n - 3 - k \in 0 .. (n - 1)
        OBVIOUS
      <4>2. f[k] = g[k] /\ f[n - 3 - k] = g[n - 3 - k]
        BY <4>1
      <4> QED BY <4>2
    <3> HIDE DEF Lists
    <3>4. {Lists(f, k) : k \in 1 .. (n - 4)} = {Lists(g, k) : k \in 1 .. (n - 4)}
      BY <3>3
    <3> QED BY <2>2, <3>2, <3>4 DEF FieldsOf, Lists
  <2> QED BY <2>1, <2>2
<1> QED BY <1>1, <1>2, <1>3 DEF DerivedFrom

DerivedUpTo(f, n) == f = [k \in 0 .. n |-> DerivedFrom(k, f)]

LEMMA DerivedExists ==
    ASSUME NEW n \in Nat
    PROVE  \E f : DerivedUpTo(f, n)
<1> DEFINE T == {m \in 0 .. n : ~ \E f : DerivedUpTo(f, m)}
<1>1. SUFFICES ASSUME T # {} PROVE FALSE
  OBVIOUS
<1>2. PICK m \in T : \A k \in T : m <= k
  <2>1. T \subseteq Nat
    OBVIOUS
  <2> HIDE DEF T
  <2> QED BY <1>1, <2>1, LeastElement
<1>3. m \in 0 .. n /\ m \in Nat /\ ~ \E f : DerivedUpTo(f, m)
  OBVIOUS
<1>4. \E f : \A k \in 0 .. (m - 1) : f[k] = DerivedFrom(k, f)
  <2>1. CASE m = 0
    <3>1. 0 .. (m - 1) = {}
      BY <2>1
    <3> QED BY <3>1
  <2>2. CASE m # 0
    <3>1. m - 1 \in 0 .. n /\ m - 1 \notin T
      BY <1>2, <1>3, <2>2
    <3>2. PICK f : DerivedUpTo(f, m - 1)
      BY <3>1
    <3> QED BY <3>2 DEF DerivedUpTo
  <2> QED BY <2>1, <2>2
<1>5. PICK f : \A k \in 0 .. (m - 1) : f[k] = DerivedFrom(k, f)
  BY <1>4
<1> DEFINE g == [k \in 0 .. m |-> IF k = m THEN DerivedFrom(m, f) ELSE f[k]]
<1>6. g[m] = DerivedFrom(m, f) /\ \A k \in 0 .. (m - 1) : g[k] = f[k]
  <2>1. m \in 0 .. m /\ \A k \in 0 .. (m - 1) : k \in 0 .. m /\ k # m
    BY <1>3
  <2> QED BY <2>1
<1>7. \E h : g = [k \in 0 .. m |-> h[k]]
  OBVIOUS
<1> HIDE DEF g, T
<1>8. ASSUME NEW k \in 0 .. m PROVE g[k] = DerivedFrom(k, g)
  <2>1. \A i \in 0 .. (k - 1) : i \in 0 .. (m - 1)
    BY <1>3
  <2>2. \A i \in 0 .. (k - 1) : f[i] = g[i]
    BY <1>6, <2>1
  <2>3. k \in Nat
    OBVIOUS
  <2>4. DerivedFrom(k, f) = DerivedFrom(k, g)
    BY <2>2, <2>3, FromShorter
  <2>5. k = m \/ k \in 0 .. (m - 1)
    BY <1>3
  <2> QED BY <1>5, <1>6, <2>4, <2>5
<1>9. g = [k \in 0 .. m |-> DerivedFrom(k, g)]
  BY <1>7, <1>8
<1> QED BY <1>3, <1>9 DEF DerivedUpTo

LEMMA DerivedIs ==
    /\ Longest \in Nat
    /\ \A n \in 0 .. Longest : /\ Derived[n].values = ValuesOf(n, Derived)
                               /\ Derived[n].items = ItemsOf(n, Derived)
                               /\ Derived[n].fields = FieldsOf(n, Derived)
<1>1. Longest \in Nat
  <2>1. MaxText \in Nat
    BY TextAssumption
  <2> QED BY <2>1 DEF Longest
<1> DEFINE d == CHOOSE f : f = [k \in 0 .. Longest |->
                                  [values |-> ValuesOf(k, f), items |-> ItemsOf(k, f),
                                   fields |-> FieldsOf(k, f)]]
<1>2. Derived = d
  BY DEF Derived, Longest
<1>3. DerivedUpTo(d, Longest)
  BY <1>1, DerivedExists DEF DerivedUpTo, DerivedFrom
<1> HIDE DEF d
<1>4. \A n \in 0 .. Longest : d[n] = DerivedFrom(n, d)
  BY <1>3 DEF DerivedUpTo
<1>5. ASSUME NEW n \in 0 .. Longest
      PROVE  /\ d[n].values = ValuesOf(n, d)
             /\ d[n].items = ItemsOf(n, d)
             /\ d[n].fields = FieldsOf(n, d)
  <2>1. d[n] = DerivedFrom(n, d)
    BY <1>4
  <2> QED BY <2>1 DEF DerivedFrom
<1> QED BY <1>1, <1>2, <1>5

(* Sequences of tokens.                                                      *)
TokenSeqs == Seq(Tokens)

LEMMA TokensAre == /\ {"{", "}", "[", "]", ":", ","} \subseteq Tokens
                   /\ Atoms \subseteq Tokens /\ Keys \subseteq Atoms
BY DEF Tokens, Atoms

LEMMA PunctuationIs == Atoms \cap {"{", "}", "[", "]", ":", ","} = {}
<1>1. Keys \cap {"{", "}", "[", "]", ":", ","} = {}
  BY TextAssumption
<1> QED BY <1>1 DEF Atoms

LEMMA ConsIs ==
    ASSUME NEW S, NEW x \in S, NEW s \in Seq(S)
    PROVE  /\ <<x>> \in Seq(S) /\ Len(<<x>>) = 1
           /\ <<x>> \o s \in Seq(S) /\ <<x>> \o s # <<>>
           /\ Head(<<x>> \o s) = x /\ Tail(<<x>> \o s) = s
           /\ Len(<<x>> \o s) = Len(s) + 1
<1> DEFINE t == <<x>> \o s
           n == Len(s)
<1>1. <<x>> \in Seq(S) /\ Len(<<x>>) = 1 /\ <<x>>[1] = x
  OBVIOUS
<1>2. /\ t \in Seq(S) /\ Len(t) = 1 + n
      /\ \A i \in 1 .. 1 + n : t[i] = IF i <= 1 THEN x ELSE s[i - 1]
  BY <1>1, ConcatProperties
<1>3. n \in Nat
  BY LenProperties
<1> HIDE DEF t
<1>4. t # <<>> /\ t[1] = x
  <2> HIDE DEF n
  <2> QED BY <1>2, <1>3, EmptySeq
<1>5. Head(t) = x
  BY <1>2, <1>4
<1>6. /\ Tail(t) \in Seq(S) /\ Len(Tail(t)) = Len(t) - 1
      /\ \A i \in 1 .. Len(Tail(t)) : Tail(t)[i] = t[i + 1]
  BY <1>2, <1>4, HeadTailProperties
<1>7. Tail(t) = s
  <2>1. Len(Tail(t)) = n
    <3> HIDE DEF n
    <3> QED BY <1>2, <1>3, <1>6
  <2>2. ASSUME NEW i \in 1 .. n PROVE Tail(t)[i] = s[i]
    <3>1. i \in 1 .. Len(Tail(t)) /\ i + 1 \in 1 .. 1 + n /\ ~(i + 1 <= 1) /\ (i + 1) - 1 = i
      <4> HIDE DEF n
      <4> QED BY <1>3, <2>1
    <3> QED BY <1>2, <1>6, <3>1
  <2> QED BY <1>6, <2>1, <2>2, SeqEqual
<1>8. Len(t) = n + 1
  <2> HIDE DEF n
  <2> QED BY <1>2, <1>3
<1> QED BY <1>1, <1>2, <1>4, <1>5, <1>7, <1>8 DEF t

LEMMA Uncons ==
    ASSUME NEW S, NEW t \in Seq(S), t # <<>>
    PROVE  /\ Head(t) \in S /\ Tail(t) \in Seq(S) /\ t = <<Head(t)>> \o Tail(t)
           /\ Len(t) \in Nat /\ Len(t) = Len(Tail(t)) + 1
<1> DEFINE h == Head(t)
           r == Tail(t)
           n == Len(r)
<1>1. /\ h \in S /\ r \in Seq(S) /\ Len(r) = Len(t) - 1
      /\ \A i \in 1 .. n : r[i] = t[i + 1]
  BY HeadTailProperties
<1>2. Len(t) \in Nat /\ n \in Nat
  BY <1>1, LenProperties
<1>3. Len(t) = n + 1
  <2> HIDE DEF r, h
  <2> QED BY <1>1, <1>2
<1>4. h = t[1]
  OBVIOUS
<1> HIDE DEF h, r
<1>5. /\ <<h>> \in Seq(S) /\ Len(<<h>>) = 1 /\ <<h>>[1] = h
  BY <1>1
<1>6. /\ <<h>> \o r \in Seq(S) /\ Len(<<h>> \o r) = 1 + n
      /\ \A i \in 1 .. 1 + n : (<<h>> \o r)[i] = IF i <= 1 THEN h ELSE r[i - 1]
  BY <1>1, <1>5, ConcatProperties
<1>7. ASSUME NEW i \in 1 .. Len(t) PROVE t[i] = (<<h>> \o r)[i]
  <2> HIDE DEF n
  <2>1. i \in 1 .. 1 + n
    BY <1>2, <1>3
  <2>2. CASE i = 1
    BY <1>4, <1>6, <2>1, <2>2
  <2>3. CASE i # 1
    <3>1. i - 1 \in 1 .. n /\ ~(i <= 1) /\ (i - 1) + 1 = i
      BY <1>2, <1>3, <2>3
    <3> QED BY <1>1, <1>6, <2>1, <3>1
  <2> QED BY <2>2, <2>3
<1>8. Len(t) = Len(<<h>> \o r)
  <2> HIDE DEF n
  <2> QED BY <1>2, <1>3, <1>6
<1>9. t = <<h>> \o r
  BY <1>6, <1>7, <1>8, SeqEqual
<1> QED BY <1>1, <1>2, <1>3, <1>9 DEF h, r

LEMMA TwoTokens ==
    ASSUME NEW S, NEW x \in S, NEW y \in S
    PROVE  /\ <<x, y>> \in Seq(S) /\ Len(<<x, y>>) = 2 /\ <<x, y>> = <<x>> \o <<y>>
           /\ Head(<<x, y>>) = x
<1>1. /\ <<x>> \in Seq(S) /\ Len(<<x>>) = 1 /\ <<x>>[1] = x
      /\ <<y>> \in Seq(S) /\ Len(<<y>>) = 1 /\ <<y>>[1] = y
      /\ <<x, y>> \in Seq(S) /\ Len(<<x, y>>) = 2 /\ <<x, y>>[1] = x /\ <<x, y>>[2] = y
  OBVIOUS
<1>2. /\ <<x>> \o <<y>> \in Seq(S) /\ Len(<<x>> \o <<y>>) = 1 + 1
      /\ \A i \in 1 .. 1 + 1 : (<<x>> \o <<y>>)[i] = IF i <= 1 THEN <<x>>[i] ELSE <<y>>[i - 1]
  BY <1>1, ConcatProperties
<1>3. (<<x>> \o <<y>>)[1] = x /\ (<<x>> \o <<y>>)[2] = y
  BY <1>1, <1>2
<1>4. \A i \in 1 .. 2 : i = 1 \/ i = 2
  OBVIOUS
<1>5. \A i \in 1 .. 2 : <<x, y>>[i] = (<<x>> \o <<y>>)[i]
  BY <1>1, <1>3, <1>4
<1>6. <<x, y>> = <<x>> \o <<y>>
  <2> DEFINE a == <<x, y>>
             b == <<x>> \o <<y>>
  <2>1. a \in Seq(S) /\ b \in Seq(S) /\ Len(a) = 2 /\ Len(b) = 2
    BY <1>1, <1>2
  <2>2. \A i \in 1 .. 2 : a[i] = b[i]
    BY <1>5
  <2> HIDE DEF a, b
  <2>3. Len(a) = Len(b) /\ \A i \in 1 .. Len(a) : a[i] = b[i]
    BY <2>1, <2>2
  <2>4. a = b
    BY <2>1, <2>3, SeqEqual
  <2> QED BY <2>4 DEF a, b
<1>7. Head(<<x, y>>) = x
  BY <1>1
<1> QED BY <1>1, <1>6, <1>7

(* A text of n tokens, of which the first is one of heads.                   *)
IsText(t, n, heads) == t \in TokenSeqs /\ Len(t) = n /\ n >= 1 /\ t # <<>> /\ Head(t) \in heads

LEMMA TextJoined ==
    ASSUME NEW H, NEW m \in Nat, NEW a, NEW b \in TokenSeqs, IsText(a, m, H)
    PROVE  IsText(a \o b, m + Len(b), H)
<1> DEFINE t == a \o b
           n == Len(b)
<1>1. a \in Seq(Tokens) /\ b \in Seq(Tokens) /\ Len(a) = m /\ m >= 1 /\ a # <<>>
      /\ Head(a) \in H /\ n \in Nat
  BY LenProperties DEF IsText, TokenSeqs
<1>2. /\ t \in Seq(Tokens) /\ Len(t) = m + n
      /\ \A i \in 1 .. m + n : t[i] = IF i <= m THEN a[i] ELSE b[i - m]
  BY <1>1, ConcatProperties
<1> HIDE DEF t, n
<1>3. 1 \in 1 .. m + n /\ 1 <= m /\ m + n >= 1
  BY <1>1
<1>4. t[1] = a[1] /\ t # <<>>
  BY <1>2, <1>3, EmptySeq
<1>5. Head(t) = Head(a)
  BY <1>1, <1>2, <1>4
<1> QED BY <1>1, <1>2, <1>3, <1>4, <1>5 DEF IsText, TokenSeqs, t, n

(* The tokens between values, and the texts of them.                         *)
LBracket == "["
RBracket == "]"
LBrace == "{"
RBrace == "}"
Separator == ","
Colon == ":"
LeftBracket == <<"[">>
RightBracket == <<"]">>
LeftBrace == <<"{">>
RightBrace == <<"}">>
Comma == <<",">>
TrailingComma == <<",", "]">>
EmptyArray == <<"[", "]">>
EmptyObject == <<"{", "}">>
Label(k) == <<k, ":">>

ValueTexts(n) == Derived[n].values
ItemTexts(n) == Derived[n].items
FieldTexts(n) == Derived[n].fields

(* What a text of the grammar is put together from.                          *)
LEMMA ValueForms ==
    ASSUME NEW n \in 0 .. Longest, NEW p \in ValueTexts(n)
    PROVE  \/ n = 1 /\ \E t \in Atoms : p = Pair(<<t>>, Atom(t))
           \/ n = 2 /\ p = Pair(EmptyArray, JsonArray(<<>>))
           \/ n = 2 /\ p = Pair(EmptyObject, JsonObject(<<>>))
           \/ n >= 3 /\ \E q \in ItemTexts(n - 2) : p = Pair(LeftBracket \o q.text \o RightBracket, JsonArray(q.value))
           \/ n >= 3 /\ \E q \in FieldTexts(n - 2) : p = Pair(LeftBrace \o q.text \o RightBrace, JsonObject(q.value))
<1>1. p \in ValuesOf(n, Derived)
  BY DerivedIs DEF ValueTexts
<1>2. n \in Nat
  BY DerivedIs
<1>3. n = 0 \/ n = 1 \/ n = 2 \/ (n >= 3 /\ n # 0 /\ n # 1 /\ n # 2)
  BY <1>2
<1>4. CASE n = 0
  BY <1>1, <1>4 DEF ValuesOf, LeftBracket, RightBracket, LeftBrace, RightBrace,
         EmptyArray, EmptyObject
<1>5. CASE n = 1
  BY <1>1, <1>5 DEF ValuesOf, LeftBracket, RightBracket, LeftBrace, RightBrace,
         EmptyArray, EmptyObject
<1>6. CASE n = 2
  BY <1>1, <1>6 DEF ValuesOf, LeftBracket, RightBracket, LeftBrace, RightBrace,
         EmptyArray, EmptyObject
<1>7. CASE n >= 3 /\ n # 0 /\ n # 1 /\ n # 2
  BY <1>1, <1>7 DEF ValuesOf, LeftBracket, RightBracket, LeftBrace, RightBrace,
         EmptyArray, EmptyObject, ItemTexts, FieldTexts
<1> QED BY <1>3, <1>4, <1>5, <1>6, <1>7

LEMMA ItemForms ==
    ASSUME NEW n \in 0 .. Longest, NEW p \in ItemTexts(n)
    PROVE  \/ \E q \in ValueTexts(n) : p = Pair(q.text, <<q.value>>)
           \/ \E k \in 1 .. (n - 2) : \E q \in ValueTexts(k) : \E r \in ItemTexts(n - 1 - k) :
                 p = Pair(q.text \o Comma \o r.text, <<q.value>> \o r.value)
<1>1. p \in ItemsOf(n, Derived) /\ ValueTexts(n) = ValuesOf(n, Derived)
  BY DerivedIs DEF ItemTexts, ValueTexts
<1>2. CASE p \in {Pair(q.text, <<q.value>>) : q \in ValuesOf(n, Derived)}
  BY <1>1, <1>2
<1>3. CASE p \in UNION {{Pair(pq[1].text \o Comma \o pq[2].text, <<pq[1].value>> \o pq[2].value) :
                     pq \in Derived[k].values \X Derived[n - 1 - k].items} : k \in 1 .. (n - 2)}
  <2>1. PICK k \in 1 .. (n - 2) :
            p \in {Pair(pq[1].text \o Comma \o pq[2].text, <<pq[1].value>> \o pq[2].value) :
                     pq \in Derived[k].values \X Derived[n - 1 - k].items}
    BY <1>3
  <2>2. PICK pq \in Derived[k].values \X Derived[n - 1 - k].items :
            p = Pair(pq[1].text \o Comma \o pq[2].text, <<pq[1].value>> \o pq[2].value)
    BY <2>1
  <2> QED BY <2>2 DEF ValueTexts, ItemTexts
<1> QED BY <1>1, <1>2, <1>3 DEF ItemsOf, Comma

LEMMA FieldForms ==
    ASSUME NEW n \in 0 .. Longest, NEW p \in FieldTexts(n)
    PROVE  /\ n >= 3
           /\ \/ \E k \in Keys : \E q \in ValueTexts(n - 2) :
                    p = Pair(Label(k) \o q.text, <<<<k, q.value>>>>)
              \/ \E m \in 1 .. (n - 4) : \E k \in Keys : \E q \in ValueTexts(m) : \E r \in FieldTexts(n - 3 - m) :
                    p = Pair(Label(k) \o q.text \o Comma \o r.text, <<<<k, q.value>>>> \o r.value)
<1>1. p \in FieldsOf(n, Derived)
  BY DerivedIs DEF FieldTexts
<1>2. ~(n < 3)
  BY <1>1 DEF FieldsOf, Comma, Label
<1>3. n >= 3
  BY <1>2, DerivedIs
<1>4. CASE p \in {Pair(Label(kp[1]) \o kp[2].text, <<<<kp[1], kp[2].value>>>>) :
                    kp \in Keys \X Derived[n - 2].values}
  <2>1. PICK kp \in Keys \X Derived[n - 2].values :
            p = Pair(Label(kp[1]) \o kp[2].text, <<<<kp[1], kp[2].value>>>>)
    BY <1>4
  <2> QED BY <1>3, <2>1 DEF ValueTexts
<1>5. CASE p \in UNION {{Pair(Label(kpq[1]) \o kpq[2].text \o Comma \o kpq[3].text,
                              <<<<kpq[1], kpq[2].value>>>> \o kpq[3].value) :
                           kpq \in Keys \X Derived[m].values \X Derived[n - 3 - m].fields} : m \in 1 .. (n - 4)}
  <2>1. PICK m \in 1 .. (n - 4) :
            p \in {Pair(Label(kpq[1]) \o kpq[2].text \o Comma \o kpq[3].text,
                        <<<<kpq[1], kpq[2].value>>>> \o kpq[3].value) :
                     kpq \in Keys \X Derived[m].values \X Derived[n - 3 - m].fields}
    BY <1>5
  <2>2. PICK kpq \in Keys \X Derived[m].values \X Derived[n - 3 - m].fields :
            p = Pair(Label(kpq[1]) \o kpq[2].text \o Comma \o kpq[3].text,
                     <<<<kpq[1], kpq[2].value>>>> \o kpq[3].value)
    BY <2>1
  <2> QED BY <1>3, <2>2 DEF ValueTexts, FieldTexts
<1> QED BY <1>1, <1>2, <1>4, <1>5 DEF FieldsOf, Comma, Label

(* What may be put together.                                                 *)
LEMMA AtomText ==
    ASSUME NEW t \in Atoms
    PROVE  1 \in 0 .. Longest => Pair(<<t>>, Atom(t)) \in ValueTexts(1)
<1> SUFFICES ASSUME 1 \in 0 .. Longest PROVE Pair(<<t>>, Atom(t)) \in ValueTexts(1)
  OBVIOUS
<1>1. ValueTexts(1) = ValuesOf(1, Derived)
  BY DerivedIs DEF ValueTexts
<1> QED BY <1>1 DEF ValuesOf, LeftBracket, RightBracket, LeftBrace, RightBrace,
         EmptyArray, EmptyObject

LEMMA EmptyTexts ==
    ASSUME 2 \in 0 .. Longest
    PROVE  /\ Pair(EmptyArray, JsonArray(<<>>)) \in ValueTexts(2)
           /\ Pair(EmptyObject, JsonObject(<<>>)) \in ValueTexts(2)
<1>1. ValueTexts(2) = ValuesOf(2, Derived)
  BY DerivedIs DEF ValueTexts
<1> DEFINE a == Pair(EmptyArray, JsonArray(<<>>))
           o == Pair(EmptyObject, JsonObject(<<>>))
<1>2. ValuesOf(2, Derived) = {a, o}
  <2>1. 2 # 0 /\ 2 # 1
    OBVIOUS
  <2> HIDE DEF a, o
  <2> QED BY <2>1, Zenon DEF ValuesOf, LeftBracket, RightBracket, LeftBrace, RightBrace,
         EmptyArray, EmptyObject, a, o
<1> HIDE DEF a, o
<1>3. a \in ValueTexts(2) /\ o \in ValueTexts(2)
  BY <1>1, <1>2
<1> QED BY <1>3 DEF a, o

LEMMA ArrayText ==
    ASSUME NEW n \in Nat, n >= 1, n + 2 <= Longest, NEW q \in ItemTexts(n)
    PROVE  Pair(LeftBracket \o q.text \o RightBracket, JsonArray(q.value)) \in ValueTexts(n + 2)
<1>1. n + 2 \in 0 .. Longest /\ n + 2 # 0 /\ n + 2 # 1 /\ n + 2 # 2 /\ (n + 2) - 2 = n
  BY DerivedIs
<1>2. ValueTexts(n + 2) = ValuesOf(n + 2, Derived)
  BY <1>1, DerivedIs DEF ValueTexts
<1>3. q \in Derived[(n + 2) - 2].items
  BY <1>1 DEF ItemTexts
<1> QED BY <1>1, <1>2, <1>3 DEF ValuesOf, LeftBracket, RightBracket, LeftBrace, RightBrace,
         EmptyArray, EmptyObject

LEMMA ObjectText ==
    ASSUME NEW n \in Nat, n >= 1, n + 2 <= Longest, NEW q \in FieldTexts(n)
    PROVE  Pair(LeftBrace \o q.text \o RightBrace, JsonObject(q.value)) \in ValueTexts(n + 2)
<1>1. n + 2 \in 0 .. Longest /\ n + 2 # 0 /\ n + 2 # 1 /\ n + 2 # 2 /\ (n + 2) - 2 = n
  BY DerivedIs
<1>2. ValueTexts(n + 2) = ValuesOf(n + 2, Derived)
  BY <1>1, DerivedIs DEF ValueTexts
<1>3. q \in Derived[(n + 2) - 2].fields
  BY <1>1 DEF FieldTexts
<1> QED BY <1>1, <1>2, <1>3 DEF ValuesOf, LeftBracket, RightBracket, LeftBrace, RightBrace,
         EmptyArray, EmptyObject

LEMMA OneItemText ==
    ASSUME NEW n \in 0 .. Longest, NEW q \in ValueTexts(n)
    PROVE  Pair(q.text, <<q.value>>) \in ItemTexts(n)
<1>1. ItemTexts(n) = ItemsOf(n, Derived) /\ ValueTexts(n) = ValuesOf(n, Derived)
  BY DerivedIs DEF ItemTexts, ValueTexts
<1> QED BY <1>1 DEF ItemsOf, Comma

LEMMA ItemsText ==
    ASSUME NEW m \in Nat, m >= 1, NEW n \in Nat, n >= 1, m + n + 1 <= Longest,
           NEW q \in ValueTexts(m), NEW r \in ItemTexts(n)
    PROVE  Pair(q.text \o Comma \o r.text, <<q.value>> \o r.value) \in ItemTexts(m + n + 1)
<1> DEFINE l == m + n + 1
<1>1. l \in 0 .. Longest /\ m \in 1 .. (l - 2) /\ l - 1 - m = n
  BY DerivedIs
<1> HIDE DEF l
<1>2. ItemTexts(l) = ItemsOf(l, Derived)
  BY <1>1, DerivedIs DEF ItemTexts
<1>3. <<q, r>> \in Derived[m].values \X Derived[l - 1 - m].items
  BY <1>1 DEF ItemTexts, ValueTexts
<1> DEFINE Lists(k) == {Pair(pq[1].text \o Comma \o pq[2].text, <<pq[1].value>> \o pq[2].value) :
                          pq \in Derived[k].values \X Derived[l - 1 - k].items}
<1>4. Pair(q.text \o Comma \o r.text, <<q.value>> \o r.value) \in Lists(m)
  <2>1. <<q, r>>[1] = q /\ <<q, r>>[2] = r
    OBVIOUS
  <2> QED BY <1>3, <2>1
<1>5. UNION {Lists(k) : k \in 1 .. (l - 2)} \subseteq ItemTexts(l)
  BY <1>2 DEF ItemsOf, Comma
<1> HIDE DEF Lists
<1> QED BY <1>1, <1>4, <1>5 DEF l

LEMMA OneFieldText ==
    ASSUME NEW n \in Nat, n >= 1, n + 2 <= Longest, NEW k \in Keys, NEW q \in ValueTexts(n)
    PROVE  Pair(Label(k) \o q.text, <<<<k, q.value>>>>) \in FieldTexts(n + 2)
<1>1. n + 2 \in 0 .. Longest /\ ~(n + 2 < 3) /\ (n + 2) - 2 = n
  BY DerivedIs
<1>2. FieldTexts(n + 2) = FieldsOf(n + 2, Derived)
  BY <1>1, DerivedIs DEF FieldTexts
<1>3. <<k, q>> \in Keys \X Derived[(n + 2) - 2].values /\ <<k, q>>[1] = k /\ <<k, q>>[2] = q
  BY <1>1 DEF ValueTexts
<1>4. {Pair(Label(kp[1]) \o kp[2].text, <<<<kp[1], kp[2].value>>>>) :
         kp \in Keys \X Derived[(n + 2) - 2].values} \subseteq FieldTexts(n + 2)
  BY <1>1, <1>2 DEF FieldsOf, Comma, Label
<1> QED BY <1>3, <1>4

LEMMA FieldsText ==
    ASSUME NEW m \in Nat, m >= 1, NEW n \in Nat, n >= 1, m + n + 3 <= Longest,
           NEW k \in Keys, NEW q \in ValueTexts(m), NEW r \in FieldTexts(n)
    PROVE  Pair(Label(k) \o q.text \o Comma \o r.text, <<<<k, q.value>>>> \o r.value)
              \in FieldTexts(m + n + 3)
<1> DEFINE l == m + n + 3
<1>1. l \in 0 .. Longest /\ m \in 1 .. (l - 4) /\ l - 3 - m = n /\ ~(l < 3)
  BY DerivedIs
<1> HIDE DEF l
<1>2. FieldTexts(l) = FieldsOf(l, Derived)
  BY <1>1, DerivedIs DEF FieldTexts
<1>3. <<k, q, r>> \in Keys \X Derived[m].values \X Derived[l - 3 - m].fields
  BY <1>1 DEF FieldTexts, ValueTexts
<1> DEFINE Lists(i) == {Pair(Label(kpq[1]) \o kpq[2].text \o Comma \o kpq[3].text,
                             <<<<kpq[1], kpq[2].value>>>> \o kpq[3].value) :
                          kpq \in Keys \X Derived[i].values \X Derived[l - 3 - i].fields}
<1>4. Pair(Label(k) \o q.text \o Comma \o r.text, <<<<k, q.value>>>> \o r.value) \in Lists(m)
  <2>1. <<k, q, r>>[1] = k /\ <<k, q, r>>[2] = q /\ <<k, q, r>>[3] = r
    OBVIOUS
  <2> QED BY <1>3, <2>1
<1>5. UNION {Lists(i) : i \in 1 .. (l - 4)} \subseteq FieldTexts(l)
  BY <1>1, <1>2 DEF FieldsOf, Comma, Label
<1> HIDE DEF Lists
<1> QED BY <1>1, <1>4, <1>5 DEF l

(* The texts of n tokens have n tokens; a value starts with a token of its   *)
(* own, and a field with a key.                                              *)
ValueStarts == Atoms \cup {LBrace, LBracket}
JsonValues == {p.value : p \in Grammar}

TextsTyped(n) ==
    /\ \A p \in ValueTexts(n) : /\ p = Pair(p.text, p.value) /\ p.value \in JsonValues
                                /\ IsText(p.text, n, ValueStarts)
    /\ \A p \in ItemTexts(n) : /\ p = Pair(p.text, p.value)
                               /\ p.value \in Seq(JsonValues) /\ p.value # <<>>
                               /\ IsText(p.text, n, ValueStarts)
    /\ \A p \in FieldTexts(n) : /\ p = Pair(p.text, p.value)
                                /\ p.value \in Seq(Keys \X JsonValues) /\ p.value # <<>>
                                /\ IsText(p.text, n, Keys)

LEMMA PairIs ==
    ASSUME NEW u, NEW v, NEW p, p = Pair(u, v)
    PROVE  p.text = u /\ p.value = v /\ p = Pair(p.text, p.value)
BY DEF Pair

LEMMA PairParts == ASSUME NEW u, NEW v PROVE Pair(u, v).text = u /\ Pair(u, v).value = v
BY DEF Pair

LEMMA InJsonValues ==
    ASSUME NEW n \in 0 .. Longest, NEW p \in ValueTexts(n)
    PROVE  p.value \in JsonValues /\ p \in Grammar
BY DEF JsonValues, Grammar, ValueTexts, Longest

LEMMA TextBetween ==
    ASSUME NEW H, NEW H2, NEW m \in Nat, NEW n \in Nat, NEW l \in Nat,
           NEW a, NEW b, NEW c \in TokenSeqs, Len(c) = l,
           IsText(a, m, H), IsText(b, n, H2)
    PROVE  IsText(a \o b \o c, m + n + l, H) /\ a \o b \o c = a \o (b \o c)
<1>1. a \in TokenSeqs /\ b \in TokenSeqs /\ Len(b) = n
  BY DEF IsText
<1>2. IsText(a \o b, m + n, H)
  BY <1>1, TextJoined
<1>3. IsText((a \o b) \o c, (m + n) + l, H)
  <2>1. m + n \in Nat
    OBVIOUS
  <2>2. IsText((a \o b) \o c, (m + n) + Len(c), H)
    BY <1>2, <2>1, TextJoined
  <2> QED BY <2>2
<1>4. a \o b \o c = a \o (b \o c)
  BY <1>1, ConcatAssociative DEF TokenSeqs
<1> QED BY <1>3, <1>4

LEMMA OneToken == ASSUME NEW t \in Tokens PROVE IsText(<<t>>, 1, {t}) /\ <<t>> \in TokenSeqs /\ Len(<<t>>) = 1
BY DEF IsText, TokenSeqs

LEMMA Punctuation ==
    /\ LBracket \in Tokens /\ RBracket \in Tokens /\ LBrace \in Tokens /\ RBrace \in Tokens
    /\ Separator \in Tokens /\ Colon \in Tokens
    /\ LeftBracket \in TokenSeqs /\ Len(LeftBracket) = 1 /\ RightBracket \in TokenSeqs /\ Len(RightBracket) = 1
    /\ LeftBrace \in TokenSeqs /\ Len(LeftBrace) = 1 /\ RightBrace \in TokenSeqs /\ Len(RightBrace) = 1
    /\ Comma \in TokenSeqs /\ Len(Comma) = 1
    /\ TrailingComma \in TokenSeqs /\ Len(TrailingComma) = 2 /\ TrailingComma = Comma \o RightBracket
    /\ EmptyArray \in TokenSeqs /\ Len(EmptyArray) = 2 /\ EmptyArray = LeftBracket \o RightBracket
    /\ EmptyObject \in TokenSeqs /\ Len(EmptyObject) = 2 /\ EmptyObject = LeftBrace \o RightBrace
<1>1. /\ LBracket \in Tokens /\ RBracket \in Tokens /\ LBrace \in Tokens /\ RBrace \in Tokens
      /\ Separator \in Tokens /\ Colon \in Tokens
  BY TokensAre DEF LBracket, RBracket, LBrace, RBrace, Separator, Colon
<1>2. /\ LeftBracket \in TokenSeqs /\ Len(LeftBracket) = 1 /\ RightBracket \in TokenSeqs /\ Len(RightBracket) = 1
      /\ LeftBrace \in TokenSeqs /\ Len(LeftBrace) = 1 /\ RightBrace \in TokenSeqs /\ Len(RightBrace) = 1
      /\ Comma \in TokenSeqs /\ Len(Comma) = 1
  BY <1>1, OneToken DEF LeftBracket, RightBracket, LeftBrace, RightBrace, Comma,
     LBracket, RBracket, LBrace, RBrace, Separator
<1>3. TrailingComma \in TokenSeqs /\ Len(TrailingComma) = 2 /\ TrailingComma = Comma \o RightBracket
  BY <1>1, TwoTokens DEF TokenSeqs, TrailingComma, Comma, RightBracket, Separator, RBracket
<1>4. EmptyArray \in TokenSeqs /\ Len(EmptyArray) = 2 /\ EmptyArray = LeftBracket \o RightBracket
  BY <1>1, TwoTokens DEF TokenSeqs, EmptyArray, LeftBracket, RightBracket, LBracket, RBracket
<1>5. EmptyObject \in TokenSeqs /\ Len(EmptyObject) = 2 /\ EmptyObject = LeftBrace \o RightBrace
  BY <1>1, TwoTokens DEF TokenSeqs, EmptyObject, LeftBrace, RightBrace, LBrace, RBrace
<1> QED BY <1>1, <1>2, <1>3, <1>4, <1>5

LEMMA OneAndOne == 1 \in Nat /\ 1 + 1 = 2
OBVIOUS

LEMMA Opening ==
    ASSUME NEW H, LBracket \in H, LBrace \in H
    PROVE  /\ IsText(LeftBracket, 1, H) /\ IsText(LeftBrace, 1, H)
           /\ IsText(EmptyArray, 2, H) /\ IsText(EmptyObject, 2, H)
<1>1. IsText(LeftBracket, 1, H) /\ IsText(LeftBrace, 1, H)
  BY Punctuation, OneToken DEF IsText, LeftBracket, LeftBrace, LBracket, LBrace
<1>2. /\ RightBracket \in TokenSeqs /\ Len(RightBracket) = 1
      /\ RightBrace \in TokenSeqs /\ Len(RightBrace) = 1
  BY Punctuation
<1>3. IsText(LeftBracket \o RightBracket, 1 + 1, H) /\ IsText(LeftBrace \o RightBrace, 1 + 1, H)
  BY <1>1, <1>2, OneAndOne, TextJoined
<1> QED BY <1>1, <1>3, OneAndOne, Punctuation

LEMMA KeyColon == ASSUME NEW k \in Keys PROVE IsText(Label(k), 2, Keys)
<1>1. k \in Tokens /\ ":" \in Tokens
  BY TokensAre
<1>2. /\ Label(k) \in Seq(Tokens) /\ Len(Label(k)) = 2 /\ Head(Label(k)) = k
  BY <1>1, TwoTokens DEF Label
<1> QED BY <1>2 DEF IsText, TokenSeqs

LEMMA ValuesTyped ==
    ASSUME NEW n \in 0 .. Longest, \A m \in 0 .. (n - 1) : TextsTyped(m), NEW p \in ValueTexts(n)
    PROVE  /\ p = Pair(p.text, p.value) /\ p.value \in JsonValues
           /\ IsText(p.text, n, ValueStarts)
<1>1. p.value \in JsonValues
  BY InJsonValues
<1>2. LBracket \in ValueStarts /\ LBrace \in ValueStarts
  BY DEF ValueStarts
<1>3. /\ RightBracket \in TokenSeqs /\ Len(RightBracket) = 1 /\ RightBrace \in TokenSeqs /\ Len(RightBrace) = 1
      /\ 1 \in Nat /\ 2 \in Nat
  BY Punctuation
<1>4. /\ IsText(LeftBracket, 1, ValueStarts) /\ IsText(LeftBrace, 1, ValueStarts)
      /\ IsText(EmptyArray, 2, ValueStarts) /\ IsText(EmptyObject, 2, ValueStarts)
  BY <1>2, Opening
<1>5. n \in Nat
  BY DerivedIs
<1>11. n >= 3 => n - 2 \in 0 .. (n - 1) /\ n - 2 \in Nat /\ 1 + (n - 2) + 1 = n
  BY <1>5
<1>6. CASE n = 1 /\ \E t \in Atoms : p = Pair(<<t>>, Atom(t))
  <2>1. PICK t \in Atoms : p = Pair(<<t>>, Atom(t))
    BY <1>6
  <2>2. t \in Tokens /\ t \in ValueStarts
    BY TokensAre DEF ValueStarts
  <2>3. IsText(<<t>>, 1, ValueStarts)
    BY <2>2, OneToken DEF IsText
  <2>4. p.text = <<t>> /\ p = Pair(p.text, p.value)
    BY <2>1, PairIs
  <2> QED BY <1>1, <1>6, <2>3, <2>4
<1>7. CASE n = 2 /\ (p = Pair(EmptyArray, JsonArray(<<>>)) \/ p = Pair(EmptyObject, JsonObject(<<>>)))
  <2>3. (p.text = EmptyArray \/ p.text = EmptyObject) /\ p = Pair(p.text, p.value)
    <3> DEFINE v == JsonArray(<<>>)
               w == JsonObject(<<>>)
    <3>1. p = Pair(EmptyArray, v) \/ p = Pair(EmptyObject, w)
      BY <1>7
    <3> HIDE DEF v, w
    <3> QED BY <3>1, PairIs
  <2> QED BY <1>1, <1>4, <1>7, <2>3
<1>8. ASSUME n >= 3, NEW q \in ItemTexts(n - 2), p = Pair(LeftBracket \o q.text \o RightBracket, JsonArray(q.value))
      PROVE  IsText(p.text, n, ValueStarts) /\ p = Pair(p.text, p.value)
  <2>1. n - 2 \in 0 .. (n - 1) /\ n - 2 \in Nat /\ 1 + (n - 2) + 1 = n
    BY <1>8, <1>11
  <2>2. IsText(q.text, n - 2, ValueStarts)
    BY <2>1 DEF TextsTyped
  <2>3. IsText(LeftBracket \o q.text \o RightBracket, 1 + (n - 2) + 1, ValueStarts)
    BY <1>3, <1>4, <2>1, <2>2, TextBetween
  <2> QED BY <1>8, <2>1, <2>3, PairIs
<1>10. ASSUME n >= 3, NEW q \in FieldTexts(n - 2), p = Pair(LeftBrace \o q.text \o RightBrace, JsonObject(q.value))
       PROVE  IsText(p.text, n, ValueStarts) /\ p = Pair(p.text, p.value)
  <2>1. n - 2 \in 0 .. (n - 1) /\ n - 2 \in Nat /\ 1 + (n - 2) + 1 = n
    BY <1>10, <1>11
  <2>2. IsText(q.text, n - 2, Keys)
    BY <2>1 DEF TextsTyped
  <2>3. IsText(LeftBrace \o q.text \o RightBrace, 1 + (n - 2) + 1, ValueStarts)
    BY <1>3, <1>4, <2>1, <2>2, TextBetween
  <2>4. p.text = LeftBrace \o q.text \o RightBrace /\ p = Pair(p.text, p.value)
    BY <1>10 DEF Pair
  <2> QED BY <2>1, <2>3, <2>4
<1> QED BY <1>1, <1>6, <1>7, <1>8, <1>10, ValueForms

LEMMA OneValue == ASSUME NEW S, NEW v \in S PROVE <<v>> \in Seq(S) /\ <<v>> # <<>>
OBVIOUS

LEMMA ItemsTyped ==
    ASSUME NEW n \in 0 .. Longest, \A m \in 0 .. (n - 1) : TextsTyped(m),
           \A q \in ValueTexts(n) : q.value \in JsonValues /\ IsText(q.text, n, ValueStarts),
           NEW p \in ItemTexts(n)
    PROVE  /\ p = Pair(p.text, p.value) /\ IsText(p.text, n, ValueStarts)
           /\ p.value \in Seq(JsonValues) /\ p.value # <<>>
<1>1. ASSUME NEW q \in ValueTexts(n), p = Pair(q.text, <<q.value>>)
      PROVE  /\ p = Pair(p.text, p.value) /\ IsText(p.text, n, ValueStarts)
             /\ p.value \in Seq(JsonValues) /\ p.value # <<>>
  <2>1. p.text = q.text /\ p.value = <<q.value>> /\ p = Pair(p.text, p.value)
    BY <1>1, PairIs
  <2>2. q.value \in JsonValues /\ IsText(q.text, n, ValueStarts)
    OBVIOUS
  <2>3. <<q.value>> \in Seq(JsonValues) /\ <<q.value>> # <<>>
    BY <2>2, OneValue
  <2> QED BY <2>1, <2>2, <2>3
<1>2. ASSUME NEW k \in 1 .. (n - 2), NEW q \in ValueTexts(k), NEW r \in ItemTexts(n - 1 - k),
             p = Pair(q.text \o Comma \o r.text, <<q.value>> \o r.value)
      PROVE  /\ p = Pair(p.text, p.value) /\ IsText(p.text, n, ValueStarts)
             /\ p.value \in Seq(JsonValues) /\ p.value # <<>>
  <2>1. n \in Nat
    BY DerivedIs
  <2>2. /\ k \in 0 .. (n - 1) /\ n - 1 - k \in 0 .. (n - 1) /\ n - 1 - k \in Nat /\ k \in Nat
        /\ k + 1 + (n - 1 - k) = n
    BY <2>1
  <2>3. /\ IsText(q.text, k, ValueStarts) /\ q.value \in JsonValues
        /\ IsText(r.text, n - 1 - k, ValueStarts) /\ r.value \in Seq(JsonValues)
    BY <2>2 DEF TextsTyped
  <2>4. IsText(Comma, 1, {","})
    BY TokensAre, OneToken DEF Comma
  <2>5. r.text \in TokenSeqs /\ Len(r.text) = n - 1 - k
    BY <2>3 DEF IsText
  <2>6. IsText(q.text \o Comma \o r.text, k + 1 + (n - 1 - k), ValueStarts)
    BY <2>2, <2>3, <2>4, <2>5, TextBetween
  <2>7. <<q.value>> \o r.value \in Seq(JsonValues) /\ <<q.value>> \o r.value # <<>>
    <3> DEFINE v == q.value
               w == r.value
    <3>1. v \in JsonValues /\ w \in Seq(JsonValues)
      BY <2>3
    <3> HIDE DEF v, w
    <3>2. <<v>> \o w \in Seq(JsonValues) /\ <<v>> \o w # <<>>
      BY <3>1, ConsIs
    <3> QED BY <3>2 DEF v, w
  <2>8. /\ p.text = q.text \o Comma \o r.text /\ p.value = <<q.value>> \o r.value
        /\ p = Pair(p.text, p.value)
    BY <1>2 DEF Pair
  <2> HIDE DEF JsonValues
  <2> QED BY <2>2, <2>6, <2>7, <2>8
<1> QED BY <1>1, <1>2, ItemForms

LEMMA FieldsTyped ==
    ASSUME NEW n \in 0 .. Longest, \A m \in 0 .. (n - 1) : TextsTyped(m), NEW p \in FieldTexts(n)
    PROVE  /\ p = Pair(p.text, p.value) /\ IsText(p.text, n, Keys)
           /\ p.value \in Seq(Keys \X JsonValues) /\ p.value # <<>>
<1>1. n >= 3 /\ n \in Nat
  <2>1. n >= 3
    BY FieldForms
  <2> QED BY <2>1, DerivedIs
<1>2. ASSUME NEW k \in Keys, NEW q \in ValueTexts(n - 2), p = Pair(Label(k) \o q.text, <<<<k, q.value>>>>)
      PROVE  /\ p = Pair(p.text, p.value) /\ IsText(p.text, n, Keys)
             /\ p.value \in Seq(Keys \X JsonValues) /\ p.value # <<>>
  <2>1. n - 2 \in 0 .. (n - 1) /\ n - 2 \in Nat /\ 2 + (n - 2) = n
    BY <1>1
  <2>2. q.text \in TokenSeqs /\ Len(q.text) = n - 2 /\ q.value \in JsonValues
    BY <2>1 DEF TextsTyped, IsText
  <2>3. IsText(Label(k) \o q.text, 2 + Len(q.text), Keys)
    BY <2>2, KeyColon, TextJoined
  <2>4. <<k, q.value>> \in Keys \X JsonValues
    BY <2>2
  <2>5. <<<<k, q.value>>>> \in Seq(Keys \X JsonValues) /\ <<<<k, q.value>>>> # <<>>
    BY <2>4, OneValue
  <2>6. p.text = Label(k) \o q.text /\ p.value = <<<<k, q.value>>>> /\ p = Pair(p.text, p.value)
    BY <1>2 DEF Pair
  <2> QED BY <2>1, <2>2, <2>3, <2>5, <2>6
<1>3. ASSUME NEW m \in 1 .. (n - 4), NEW k \in Keys, NEW q \in ValueTexts(m), NEW r \in FieldTexts(n - 3 - m),
             p = Pair(Label(k) \o q.text \o Comma \o r.text, <<<<k, q.value>>>> \o r.value)
      PROVE  /\ p = Pair(p.text, p.value) /\ IsText(p.text, n, Keys)
             /\ p.value \in Seq(Keys \X JsonValues) /\ p.value # <<>>
  <2>1. /\ m \in 0 .. (n - 1) /\ n - 3 - m \in 0 .. (n - 1) /\ n - 3 - m \in Nat /\ m \in Nat
        /\ (2 + m) + 1 + (n - 3 - m) = n /\ 2 + m \in Nat
    BY <1>1
  <2>2. /\ q.text \in TokenSeqs /\ Len(q.text) = m /\ q.value \in JsonValues
        /\ r.text \in TokenSeqs /\ Len(r.text) = n - 3 - m /\ r.value \in Seq(Keys \X JsonValues)
    BY <2>1 DEF TextsTyped, IsText
  <2>3. IsText(Label(k) \o q.text, 2 + m, Keys)
    BY <2>2, KeyColon, TextJoined
  <2>4. IsText(Comma, 1, {","})
    BY TokensAre, OneToken DEF Comma
  <2>5. IsText(Label(k) \o q.text \o Comma \o r.text, (2 + m) + 1 + (n - 3 - m), Keys)
    BY <2>1, <2>2, <2>3, <2>4, TextBetween
  <2>6. <<k, q.value>> \in Keys \X JsonValues
    BY <2>2
  <2>7. <<<<k, q.value>>>> \o r.value \in Seq(Keys \X JsonValues) /\ <<<<k, q.value>>>> \o r.value # <<>>
    <3> DEFINE v == <<k, q.value>>
               w == r.value
               S == Keys \X JsonValues
    <3>1. v \in S /\ w \in Seq(S)
      BY <2>2, <2>6
    <3> HIDE DEF v, w, S
    <3>2. <<v>> \o w \in Seq(S) /\ <<v>> \o w # <<>>
      BY <3>1, ConsIs
    <3> QED BY <3>2 DEF v, w, S
  <2>8. /\ p.text = Label(k) \o q.text \o Comma \o r.text
        /\ p.value = <<<<k, q.value>>>> \o r.value /\ p = Pair(p.text, p.value)
    BY <1>3 DEF Pair
  <2> QED BY <2>1, <2>5, <2>7, <2>8
<1>4. \/ \E k \in Keys : \E q \in ValueTexts(n - 2) :
            p = Pair(Label(k) \o q.text, <<<<k, q.value>>>>)
      \/ \E m \in 1 .. (n - 4) : \E k \in Keys : \E q \in ValueTexts(m) : \E r \in FieldTexts(n - 3 - m) :
            p = Pair(Label(k) \o q.text \o Comma \o r.text, <<<<k, q.value>>>> \o r.value)
  BY FieldForms
<1>5. CASE \E k \in Keys : \E q \in ValueTexts(n - 2) :
              p = Pair(Label(k) \o q.text, <<<<k, q.value>>>>)
  BY <1>2, <1>5
<1>6. CASE \E m \in 1 .. (n - 4) : \E k \in Keys : \E q \in ValueTexts(m) : \E r \in FieldTexts(n - 3 - m) :
              p = Pair(Label(k) \o q.text \o Comma \o r.text, <<<<k, q.value>>>> \o r.value)
  BY <1>3, <1>6
<1> QED BY <1>4, <1>5, <1>6

LEMMA GrammarTyped == \A n \in 0 .. Longest : TextsTyped(n)
<1> DEFINE T == {n \in 0 .. Longest : ~TextsTyped(n)}
<1>1. SUFFICES ASSUME T # {} PROVE FALSE
  OBVIOUS
<1>2. PICK n \in T : \A k \in T : n <= k
  <2>1. T \subseteq Nat
    BY DerivedIs
  <2> HIDE DEF T
  <2> QED BY <1>1, <2>1, LeastElement
<1>3. n \in 0 .. Longest /\ ~TextsTyped(n)
  OBVIOUS
<1>4. \A m \in 0 .. (n - 1) : TextsTyped(m)
  <2> SUFFICES ASSUME NEW m \in 0 .. (n - 1) PROVE TextsTyped(m)
    OBVIOUS
  <2>1. m \in 0 .. Longest /\ ~(n <= m)
    BY <1>3, DerivedIs
  <2> QED BY <1>2, <2>1
<1> HIDE DEF T
<1>5. ASSUME NEW p \in ValueTexts(n)
      PROVE  /\ p = Pair(p.text, p.value) /\ p.value \in JsonValues
             /\ IsText(p.text, n, ValueStarts)
  BY <1>3, <1>4, ValuesTyped
<1>6. ASSUME NEW p \in ItemTexts(n)
      PROVE  /\ p = Pair(p.text, p.value) /\ IsText(p.text, n, ValueStarts)
             /\ p.value \in Seq(JsonValues) /\ p.value # <<>>
  BY <1>3, <1>4, <1>5, ItemsTyped
<1>7. ASSUME NEW p \in FieldTexts(n)
      PROVE  /\ p = Pair(p.text, p.value) /\ IsText(p.text, n, Keys)
             /\ p.value \in Seq(Keys \X JsonValues) /\ p.value # <<>>
  BY <1>3, <1>4, FieldsTyped
<1> QED BY <1>3, <1>5, <1>6, <1>7 DEF TextsTyped

(* The parse functions, as functions of how much is left.                    *)
ParsersAt(f, k) ==
    [items |-> [t \in Seq(Tokens) |->
                   IF k = 0 THEN Failure ELSE parse_comma_separated_value(t, f[k - 1])],
     fields |-> [t \in Seq(Tokens) |-> IF k = 0 THEN Failure ELSE parse_object_fields(t, f[k - 1])]]

ParsersUpTo(f, n) == f = [k \in 0 .. n |-> ParsersAt(f, k)]

LEMMA ParsersExist ==
    ASSUME NEW n \in Nat
    PROVE  \E f : ParsersUpTo(f, n)
<1> DEFINE T == {m \in 0 .. n : ~ \E f : ParsersUpTo(f, m)}
<1>1. SUFFICES ASSUME T # {} PROVE FALSE
  OBVIOUS
<1>2. PICK m \in T : \A k \in T : m <= k
  <2>1. T \subseteq Nat
    OBVIOUS
  <2> HIDE DEF T
  <2> QED BY <1>1, <2>1, LeastElement
<1>3. m \in 0 .. n /\ m \in Nat /\ ~ \E f : ParsersUpTo(f, m)
  OBVIOUS
<1>4. \E f : \A k \in 0 .. (m - 1) : f[k] = ParsersAt(f, k)
  <2>1. CASE m = 0
    <3>1. 0 .. (m - 1) = {}
      BY <2>1
    <3> QED BY <3>1
  <2>2. CASE m # 0
    <3>1. m - 1 \in 0 .. n /\ m - 1 \notin T
      BY <1>2, <1>3, <2>2
    <3>2. PICK f : ParsersUpTo(f, m - 1)
      BY <3>1
    <3> QED BY <3>2 DEF ParsersUpTo
  <2> QED BY <2>1, <2>2
<1>5. PICK f : \A k \in 0 .. (m - 1) : f[k] = ParsersAt(f, k)
  BY <1>4
<1> DEFINE g == [k \in 0 .. m |-> IF k = m THEN ParsersAt(f, m) ELSE f[k]]
<1>6. g[m] = ParsersAt(f, m) /\ \A k \in 0 .. (m - 1) : g[k] = f[k]
  <2>1. m \in 0 .. m /\ \A k \in 0 .. (m - 1) : k \in 0 .. m /\ k # m
    BY <1>3
  <2> QED BY <2>1
<1>7. \E h : g = [k \in 0 .. m |-> h[k]]
  OBVIOUS
<1> HIDE DEF g, T
<1>8. ASSUME NEW k \in 0 .. m PROVE g[k] = ParsersAt(g, k)
  <2>1. ParsersAt(f, k) = ParsersAt(g, k)
    <3>1. CASE k = 0
      BY <3>1 DEF ParsersAt
    <3>2. CASE k # 0
      <4>1. k - 1 \in 0 .. (m - 1)
        BY <1>3, <3>2
      <4>2. g[k - 1] = f[k - 1]
        BY <1>6, <4>1
      <4> QED BY <4>2 DEF ParsersAt
    <3> QED BY <3>1, <3>2
  <2>2. k = m \/ k \in 0 .. (m - 1)
    BY <1>3
  <2> QED BY <1>5, <1>6, <2>1, <2>2
<1>9. g = [k \in 0 .. m |-> ParsersAt(g, k)]
  BY <1>7, <1>8
<1> QED BY <1>3, <1>9 DEF ParsersUpTo

ParseLevels(f, n) ==
    /\ \A t \in TokenSeqs : f[0].items[t] = Failure /\ f[0].fields[t] = Failure
    /\ \A k \in 1 .. n : \A t \in TokenSeqs : /\ f[k].items[t] = parse_comma_separated_value(t, f[k - 1])
                                              /\ f[k].fields[t] = parse_object_fields(t, f[k - 1])

LEMMA ListParsersAre ==
    ASSUME NEW n \in Nat
    PROVE  \E f : ParseLevels(f, n) /\ list_parsers(n) = f[n]
<1> DEFINE f == CHOOSE h :
                  h = [k \in 0 .. n |->
                        [items |-> [t \in Seq(Tokens) |->
                           IF k = 0 THEN Failure ELSE parse_comma_separated_value(t, h[k - 1])],
                         fields |-> [t \in Seq(Tokens) |->
                           IF k = 0 THEN Failure ELSE parse_object_fields(t, h[k - 1])]]]
<1>1. list_parsers(n) = f[n]
  BY DEF list_parsers
<1>2. ParsersUpTo(f, n)
  BY ParsersExist DEF ParsersUpTo, ParsersAt
<1> HIDE DEF f
<1>3. ASSUME NEW k \in 0 .. n PROVE f[k] = ParsersAt(f, k)
  BY <1>2 DEF ParsersUpTo
<1>4. f[0] = ParsersAt(f, 0) /\ \A k \in 1 .. n : f[k] = ParsersAt(f, k) /\ k # 0
  BY <1>3
<1>5. \A t \in TokenSeqs : f[0].items[t] = Failure /\ f[0].fields[t] = Failure
  BY <1>4 DEF ParsersAt, TokenSeqs
<1>6. ASSUME NEW k \in 1 .. n, NEW t \in TokenSeqs
      PROVE  /\ f[k].items[t] = parse_comma_separated_value(t, f[k - 1])
             /\ f[k].fields[t] = parse_object_fields(t, f[k - 1])
  <2>1. f[k] = ParsersAt(f, k) /\ k # 0 /\ t \in Seq(Tokens)
    BY <1>4 DEF TokenSeqs
  <2> DEFINE a == [s \in Seq(Tokens) |-> IF k = 0 THEN Failure ELSE parse_comma_separated_value(s, f[k - 1])]
             b == [s \in Seq(Tokens) |-> IF k = 0 THEN Failure ELSE parse_object_fields(s, f[k - 1])]
  <2>2. f[k].items = a /\ f[k].fields = b
    BY <2>1 DEF ParsersAt
  <2>3. a[t] = parse_comma_separated_value(t, f[k - 1]) /\ b[t] = parse_object_fields(t, f[k - 1])
    BY <2>1
  <2> QED BY <2>2, <2>3
<1> QED BY <1>1, <1>5, <1>6 DEF ParseLevels

(* The parse functions, by what a text starts with.                          *)
NoItems == <<>>
NoArray == JsonArray(<<>>)
NoObject == JsonObject(<<>>)
ArrayOf(p) == Whole("Array", p)
ObjectOf(p) == Whole("Object", p)

LEMMA TokensDiffer ==
    /\ LBracket \notin Atoms /\ LBrace \notin Atoms /\ RBracket \notin ValueStarts /\ LBrace # LBracket
    /\ RBrace \notin Keys /\ RBracket # Separator /\ RBrace # Separator
<1>1. /\ "[" \notin Atoms /\ "{" \notin Atoms /\ "]" \notin Atoms /\ "}" \notin Atoms
  BY PunctuationIs
<1>2. Keys \subseteq Atoms
  BY TokensAre
<1>3. "{" # "[" /\ "]" # "," /\ "}" # "," /\ "]" # "[" /\ "]" # "{"
  OBVIOUS
<1> QED BY <1>1, <1>2, <1>3 DEF LBracket, RBracket, LBrace, RBrace, Separator, ValueStarts

LEMMA StartIs ==
    ASSUME NEW t \in TokenSeqs, NEW x, Starts(t, x)
    PROVE  /\ x \in Tokens /\ Tail(t) \in TokenSeqs /\ t = <<x>> \o Tail(t)
           /\ Len(t) \in Nat /\ Len(t) = Len(Tail(t)) + 1 /\ Len(Tail(t)) \in Nat
<1>1. t # <<>> /\ Head(t) = x /\ t \in Seq(Tokens)
  BY DEF Starts, TokenSeqs
<1>2. /\ Head(t) \in Tokens /\ Tail(t) \in Seq(Tokens) /\ t = <<Head(t)>> \o Tail(t)
      /\ Len(t) \in Nat /\ Len(t) = Len(Tail(t)) + 1
  BY <1>1, Uncons
<1> QED BY <1>1, <1>2, LenProperties DEF TokenSeqs

LEMMA StartOf ==
    ASSUME NEW s \in TokenSeqs, NEW x \in Tokens
    PROVE  /\ <<x>> \o s \in TokenSeqs /\ <<x>> \o s # <<>> /\ Head(<<x>> \o s) = x /\ Tail(<<x>> \o s) = s
           /\ \A y : Starts(<<x>> \o s, y) <=> x = y
<1>1. /\ <<x>> \o s \in Seq(Tokens) /\ <<x>> \o s # <<>>
      /\ Head(<<x>> \o s) = x /\ Tail(<<x>> \o s) = s
  BY ConsIs DEF TokenSeqs
<1> DEFINE t == <<x>> \o s
<1>2. t \in Seq(Tokens) /\ t # <<>> /\ Head(t) = x /\ Tail(t) = s
  BY <1>1
<1> HIDE DEF t
<1>3. \A y : Starts(t, y) <=> x = y
  BY <1>2 DEF Starts
<1> QED BY <1>2, <1>3 DEF t, TokenSeqs

LEMMA StartsAre ==
    ASSUME NEW t \in TokenSeqs
    PROVE  /\ Starts(t, LBracket) => t = LeftBracket \o Tail(t)
           /\ Starts(t, RBracket) => t = RightBracket \o Tail(t)
           /\ Starts(t, LBrace) => t = LeftBrace \o Tail(t)
           /\ Starts(t, RBrace) => t = RightBrace \o Tail(t)
           /\ Starts(t, Separator) => t = Comma \o Tail(t)
<1>1. \A x : Starts(t, x) => t = <<x>> \o Tail(t)
  BY StartIs
<1>2. /\ LeftBracket = <<LBracket>> /\ RightBracket = <<RBracket>> /\ LeftBrace = <<LBrace>>
      /\ RightBrace = <<RBrace>> /\ Comma = <<Separator>>
  BY DEF LeftBracket, RightBracket, LeftBrace, RightBrace, Comma, LBracket, RBracket, LBrace, RBrace, Separator
<1> QED BY <1>1, <1>2

LEMMA Begins ==
    ASSUME NEW s \in TokenSeqs, NEW y
    PROVE  /\ Starts(LeftBracket \o s, y) <=> y = LBracket
           /\ Starts(RightBracket \o s, y) <=> y = RBracket
           /\ Starts(LeftBrace \o s, y) <=> y = LBrace
           /\ Starts(RightBrace \o s, y) <=> y = RBrace
           /\ Starts(Comma \o s, y) <=> y = Separator
           /\ Tail(LeftBracket \o s) = s /\ Tail(RightBracket \o s) = s
           /\ Tail(LeftBrace \o s) = s /\ Tail(RightBrace \o s) = s /\ Tail(Comma \o s) = s
<1>1. \A x \in Tokens : (Starts(<<x>> \o s, y) <=> y = x) /\ Tail(<<x>> \o s) = s
  BY StartOf
<1>2. /\ LeftBracket = <<LBracket>> /\ RightBracket = <<RBracket>> /\ LeftBrace = <<LBrace>>
      /\ RightBrace = <<RBrace>> /\ Comma = <<Separator>>
  BY DEF LeftBracket, RightBracket, LeftBrace, RightBrace, Comma, LBracket, RBracket, LBrace, RBrace, Separator
<1>3. LBracket \in Tokens /\ RBracket \in Tokens /\ LBrace \in Tokens /\ RBrace \in Tokens /\ Separator \in Tokens
  BY Punctuation
<1> QED BY <1>1, <1>2, <1>3

LEMMA ConcatOf ==
    ASSUME NEW a \in TokenSeqs, NEW b \in TokenSeqs
    PROVE  a \o b \in TokenSeqs /\ Len(a) \in Nat /\ Len(b) \in Nat /\ Len(a \o b) = Len(a) + Len(b)
BY ConcatProperties, LenProperties DEF TokenSeqs

LEMMA Regrouped ==
    ASSUME NEW a \in TokenSeqs, NEW b \in TokenSeqs, NEW c \in TokenSeqs
    PROVE  (a \o b) \o c = a \o (b \o c)
BY ConcatAssociative DEF TokenSeqs

LEMMA ThreeLengths ==
    ASSUME NEW b \in TokenSeqs, NEW c \in TokenSeqs, NEW d \in TokenSeqs
    PROVE  /\ c \o d \in TokenSeqs /\ b \o (c \o d) \in TokenSeqs
           /\ Len(b) \in Nat /\ Len(c) \in Nat /\ Len(d) \in Nat
           /\ Len(c \o d) = Len(c) + Len(d) /\ Len(b \o (c \o d)) = Len(b) + (Len(c) + Len(d))
<1>1. c \o d \in TokenSeqs
  BY ConcatOf
<1>2. /\ b \o (c \o d) \in TokenSeqs /\ Len(b \o (c \o d)) = Len(b) + Len(c \o d)
      /\ Len(c \o d) = Len(c) + Len(d)
      /\ Len(b) \in Nat /\ Len(c) \in Nat /\ Len(d) \in Nat
  BY <1>1, ConcatOf
<1> QED BY <1>1, <1>2

LEMMA ParsedIs ==
    ASSUME NEW v, NEW r
    PROVE  Parsed(v, r).ok /\ Parsed(v, r).value = v /\ Parsed(v, r).rest = r /\ ~Failure.ok
BY DEF Parsed, Failure

LEMMA WholeIs ==
    ASSUME NEW p
    PROVE  /\ ArrayOf(p).ok <=> p.ok
           /\ ObjectOf(p).ok <=> p.ok
           /\ p.ok => ArrayOf(p) = Parsed(JsonArray(p.value), p.rest)
           /\ p.ok => ObjectOf(p) = Parsed(JsonObject(p.value), p.rest)
BY DEF ArrayOf, ObjectOf, Whole, Parsed, Failure, JsonArray, JsonObject

LEMMA InFrontIs ==
    ASSUME NEW item, NEW p
    PROVE  /\ InFront(item, p).ok <=> p.ok
           /\ p.ok => InFront(item, p) = Parsed(<<item>> \o p.value, p.rest)
BY DEF InFront, Parsed, Failure

LEMMA ArrayParsed ==
    ASSUME NEW t, NEW shorter
    PROVE  /\ Starts(t, RBracket) => parse_array(t, shorter) = Parsed(NoArray, Tail(t))
           /\ ~Starts(t, RBracket) => parse_array(t, shorter) = ArrayOf(shorter.items[t])
BY DEF parse_array, RBracket, NoArray, ArrayOf

LEMMA ObjectParsed ==
    ASSUME NEW t, NEW shorter
    PROVE  /\ Starts(t, RBrace) => parse_object(t, shorter) = Parsed(NoObject, Tail(t))
           /\ ~Starts(t, RBrace) => parse_object(t, shorter) = ObjectOf(shorter.fields[t])
BY DEF parse_object, RBrace, NoObject, ObjectOf

LEMMA ValueParsed ==
    ASSUME NEW t, NEW shorter
    PROVE  /\ t # <<>> /\ Head(t) \in Atoms => parse_value(t, shorter) = Parsed(Atom(Head(t)), Tail(t))
           /\ Starts(t, LBrace) => parse_value(t, shorter) = parse_object(Tail(t), shorter)
           /\ Starts(t, LBracket) => parse_value(t, shorter) = parse_array(Tail(t), shorter)
           /\ \/ t # <<>> /\ Head(t) \in Atoms
              \/ Starts(t, LBrace)
              \/ Starts(t, LBracket)
              \/ parse_value(t, shorter) = Failure
<1>1. "{" \notin Atoms /\ "[" \notin Atoms /\ "{" # "["
  BY PunctuationIs
<1> QED BY <1>1 DEF parse_value, LBrace, LBracket, Starts

LEMMA ItemsParsed ==
    ASSUME NEW t, NEW shorter, NEW p, p = parse_value(t, shorter)
    PROVE  /\ Starts(t, RBracket) => parse_comma_separated_value(t, shorter) = Parsed(NoItems, Tail(t))
           /\ ~Starts(t, RBracket) =>
                 /\ ~p.ok => parse_comma_separated_value(t, shorter) = Failure
                 /\ p.ok /\ Starts(p.rest, Separator) =>
                       parse_comma_separated_value(t, shorter) = InFront(p.value, shorter.items[Tail(p.rest)])
                 /\ p.ok /\ ~Starts(p.rest, Separator) /\ Starts(p.rest, RBracket) =>
                       parse_comma_separated_value(t, shorter) = Parsed(<<p.value>>, Tail(p.rest))
                 /\ p.ok /\ ~Starts(p.rest, Separator) /\ ~Starts(p.rest, RBracket) =>
                       parse_comma_separated_value(t, shorter) = Failure
BY DEF parse_comma_separated_value, RBracket, Separator, NoItems

KeyInFront(t) == Len(t) >= 2 /\ Head(t) \in Keys /\ t[2] = Colon

LEMMA FieldsParsed ==
    ASSUME NEW t \in TokenSeqs, NEW shorter, NEW p, p = parse_value(Tail(Tail(t)), shorter)
    PROVE  /\ ~KeyInFront(t) \/ ~p.ok => parse_object_fields(t, shorter) = Failure
           /\ KeyInFront(t) /\ p.ok =>
                 /\ Starts(p.rest, Separator) =>
                       parse_object_fields(t, shorter) =
                          InFront(<<Head(t), p.value>>, shorter.fields[Tail(p.rest)])
                 /\ ~Starts(p.rest, Separator) /\ Starts(p.rest, RBrace) =>
                       parse_object_fields(t, shorter) = Parsed(<<<<Head(t), p.value>>>>, Tail(p.rest))
                 /\ ~Starts(p.rest, Separator) /\ ~Starts(p.rest, RBrace) =>
                       parse_object_fields(t, shorter) = Failure
<1>1. Len(t) \in Nat
  BY LenProperties DEF TokenSeqs
<1>2. Len(t) < 2 \/ Len(t) >= 2
  BY <1>1
<1>3. ~(Len(t) < 2 /\ Len(t) >= 2)
  BY <1>1
<1> DEFINE short == Len(t) < 2
           long == Len(t) >= 2
<1>4. short <=> ~long
  BY <1>2, <1>3
<1> HIDE DEF short, long
<1>5. KeyInFront(t) <=> long /\ Head(t) \in Keys /\ t[2] = ":"
  BY DEF KeyInFront, Colon, long
<1>6. parse_object_fields(t, shorter) =
        IF short \/ Head(t) \notin Keys \/ t[2] # ":" THEN Failure
        ELSE IF ~p.ok THEN Failure
             ELSE IF Starts(p.rest, ",") THEN InFront(<<Head(t), p.value>>, shorter.fields[Tail(p.rest)])
             ELSE IF Starts(p.rest, "}") THEN Parsed(<<<<Head(t), p.value>>>>, Tail(p.rest))
             ELSE Failure
  BY DEF parse_object_fields, short
<1> QED BY <1>4, <1>5, <1>6 DEF Separator, RBrace

LEMMA TextOf ==
    ASSUME NEW n \in 1 .. Longest
    PROVE  /\ n \in Nat /\ n >= 1
           /\ \A q \in ValueTexts(n) : /\ q.text \in TokenSeqs /\ Len(q.text) = n /\ q.value \in JsonValues
                                       /\ q.text # <<>> /\ Head(q.text) \in ValueStarts
           /\ \A q \in ItemTexts(n) : /\ q.text \in TokenSeqs /\ Len(q.text) = n /\ q.value \in Seq(JsonValues)
                                      /\ q.text # <<>> /\ Head(q.text) \in ValueStarts
           /\ \A q \in FieldTexts(n) : /\ q.text \in TokenSeqs /\ Len(q.text) = n
                                       /\ q.value \in Seq(Keys \X JsonValues)
                                       /\ q.text # <<>> /\ Head(q.text) \in Keys
<1>1. n \in 0 .. Longest /\ n \in Nat /\ n >= 1
  BY DerivedIs
<1>2. TextsTyped(n)
  BY <1>1, GrammarTyped
<1> QED BY <1>1, <1>2 DEF TextsTyped, IsText

(* What is parsed is of the grammar, or has a comma in front of a bracket:   *)
(* u is a text that is read as s is, of which t is left after r.             *)
Near(s, u) ==
    /\ s \in TokenSeqs /\ u \in TokenSeqs /\ Len(u) <= Len(s)
    /\ s = u \/ CommaBeforeBracket(s)

Reads(t, u, r) == \E s : Near(s, u) /\ t = s \o r

LEMMA CommaStays ==
    ASSUME NEW a \in TokenSeqs, NEW b \in TokenSeqs, CommaBeforeBracket(a) \/ CommaBeforeBracket(b)
    PROVE  CommaBeforeBracket(a \o b)
<1> DEFINE m == Len(a)
           n == Len(b)
           c == a \o b
<1> SUFFICES CommaBeforeBracket(c)
  OBVIOUS
<1>1. m \in Nat /\ n \in Nat /\ Len(c) = m + n
  BY ConcatOf
<1>2. \A i \in 1 .. Len(c) : c[i] = IF i <= m THEN a[i] ELSE b[i - m]
  BY ConcatProperties DEF TokenSeqs
<1> HIDE DEF c
<1>3. CASE CommaBeforeBracket(a)
  <2>1. PICK i \in 1 .. (m - 1) : a[i] = "," /\ a[i + 1] = "]"
    BY <1>3 DEF CommaBeforeBracket
  <2> HIDE DEF m, n
  <2>2. i \in 1 .. (Len(c) - 1) /\ i \in 1 .. Len(c) /\ i + 1 \in 1 .. Len(c) /\ i <= m /\ i + 1 <= m
    BY <1>1
  <2>3. c[i] = a[i] /\ c[i + 1] = a[i + 1]
    BY <1>2, <2>2
  <2> QED BY <2>1, <2>2, <2>3 DEF CommaBeforeBracket
<1>4. CASE CommaBeforeBracket(b)
  <2>1. PICK i \in 1 .. (n - 1) : b[i] = "," /\ b[i + 1] = "]"
    BY <1>4 DEF CommaBeforeBracket
  <2> HIDE DEF m, n
  <2> DEFINE j == m + i
  <2>2. /\ j \in 1 .. (Len(c) - 1) /\ j \in 1 .. Len(c) /\ j + 1 \in 1 .. Len(c)
        /\ ~(j <= m) /\ ~(j + 1 <= m) /\ j - m = i /\ (j + 1) - m = i + 1
    BY <1>1
  <2> HIDE DEF j
  <2>3. c[j] = b[j - m] /\ c[j + 1] = b[(j + 1) - m]
    BY <1>2, <2>2
  <2>4. c[j] = "," /\ c[j + 1] = "]"
    BY <2>1, <2>2, <2>3
  <2> QED BY <2>2, <2>4 DEF CommaBeforeBracket
<1> QED BY <1>3, <1>4 DEF c

LEMMA ReadsSame ==
    ASSUME NEW u \in TokenSeqs, NEW r \in TokenSeqs
    PROVE  Reads(u \o r, u, r)
<1>1. Len(u) <= Len(u)
  BY LenProperties DEF TokenSeqs
<1>2. Near(u, u)
  BY <1>1 DEF Near
<1> QED BY <1>2 DEF Reads

LEMMA ReadsTrailing ==
    ASSUME NEW r \in TokenSeqs
    PROVE  Reads(TrailingComma \o r, RightBracket, r)
<1>1. /\ TrailingComma \in TokenSeqs /\ Len(TrailingComma) = 2
      /\ RightBracket \in TokenSeqs /\ Len(RightBracket) = 1
  BY Punctuation
<1>2. CommaBeforeBracket(TrailingComma)
  <2>1. TrailingComma[1] = "," /\ TrailingComma[1 + 1] = "]"
    BY DEF TrailingComma
  <2>2. 1 \in 1 .. (Len(TrailingComma) - 1)
    BY <1>1
  <2> QED BY <2>1, <2>2 DEF CommaBeforeBracket
<1>3. Near(TrailingComma, RightBracket)
  BY <1>1, <1>2 DEF Near
<1> QED BY <1>3 DEF Reads

LEMMA ReadsBoth ==
    ASSUME NEW t, NEW u, NEW s, NEW w, NEW r \in TokenSeqs, Reads(t, u, s), Reads(s, w, r)
    PROVE  Reads(t, u \o w, r)
<1>1. PICK a : Near(a, u) /\ t = a \o s
  BY DEF Reads
<1>2. PICK b : Near(b, w) /\ s = b \o r
  BY DEF Reads
<1>3. /\ a \in TokenSeqs /\ u \in TokenSeqs /\ b \in TokenSeqs /\ w \in TokenSeqs
      /\ Len(u) <= Len(a) /\ Len(w) <= Len(b)
  BY <1>1, <1>2 DEF Near
<1>4. t = (a \o b) \o r
  BY <1>1, <1>2, <1>3, Regrouped
<1>5. a \o b \in TokenSeqs /\ u \o w \in TokenSeqs
  BY <1>3, ConcatOf
<1>6. Len(u \o w) <= Len(a \o b)
  <2>1. Len(u \o w) = Len(u) + Len(w) /\ Len(a \o b) = Len(a) + Len(b)
    BY <1>3, ConcatOf
  <2>2. Len(u) \in Nat /\ Len(w) \in Nat /\ Len(a) \in Nat /\ Len(b) \in Nat
    BY <1>3, ConcatOf
  <2> QED BY <1>3, <2>1, <2>2
<1>7. a \o b = u \o w \/ CommaBeforeBracket(a \o b)
  <2>1. (a = u /\ b = w) \/ CommaBeforeBracket(a) \/ CommaBeforeBracket(b)
    BY <1>1, <1>2 DEF Near
  <2> QED BY <1>3, <2>1, CommaStays
<1>8. Near(a \o b, u \o w)
  BY <1>5, <1>6, <1>7 DEF Near
<1> QED BY <1>4, <1>8 DEF Reads

LEMMA ReadsBehind ==
    ASSUME NEW a \in TokenSeqs, NEW s \in TokenSeqs, NEW u, NEW r \in TokenSeqs, Reads(s, u, r)
    PROVE  Reads(a \o s, a \o u, r)
BY ReadsSame, ReadsBoth

LEMMA ReadsMore ==
    ASSUME NEW t, NEW u, NEW a \in TokenSeqs, NEW r \in TokenSeqs, Reads(t, u, a \o r)
    PROVE  Reads(t, u \o a, r)
BY ReadsSame, ReadsBoth

(* What is read, and what is behind it, are in the room of the text.         *)
LEMMA ReadsRoom ==
    ASSUME NEW t \in TokenSeqs, Len(t) <= Longest, NEW u, NEW r \in TokenSeqs, Reads(t, u, r),
           NEW n, Len(u) = n
    PROVE  /\ u \in TokenSeqs /\ n \in Nat /\ Len(r) \in Nat /\ n + Len(r) <= Longest
           /\ n <= Longest /\ Len(r) <= Longest
<1>1. PICK s : Near(s, u) /\ t = s \o r
  BY DEF Reads
<1>2. s \in TokenSeqs /\ u \in TokenSeqs /\ n <= Len(s)
  BY <1>1 DEF Near
<1>3. Len(s) \in Nat /\ Len(r) \in Nat /\ Len(t) = Len(s) + Len(r)
  BY <1>1, <1>2, ConcatOf
<1>4. n \in Nat
  BY <1>2, LenProperties DEF TokenSeqs
<1> QED BY <1>2, <1>3, <1>4, DerivedIs

ReadsValue(t, p) ==
    p.ok => /\ p.rest \in TokenSeqs /\ p = Parsed(p.value, p.rest)
            /\ \E n \in 1 .. Longest : \E q \in ValueTexts(n) : Reads(t, q.text, p.rest) /\ p.value = q.value

ReadsItems(t, p) ==
    p.ok => /\ p.rest \in TokenSeqs
            /\ \/ t = RightBracket \o p.rest /\ p.value = NoItems
               \/ \E n \in 1 .. Longest : \E q \in ItemTexts(n) :
                     p.value = q.value /\ Reads(t, q.text \o RightBracket, p.rest)

ReadsFields(t, p) ==
    p.ok => /\ p.rest \in TokenSeqs
            /\ \E n \in 1 .. Longest : \E q \in FieldTexts(n) :
                  p.value = q.value /\ Reads(t, q.text \o RightBrace, p.rest)

Sound(shorter) ==
    \A t \in TokenSeqs : Len(t) <= Longest => /\ ReadsItems(t, shorter.items[t])
                                              /\ ReadsFields(t, shorter.fields[t])

LEMMA ReadsParsed ==
    ASSUME NEW n \in 1 .. Longest, NEW q \in ValueTexts(n), NEW t, NEW r \in TokenSeqs, Reads(t, q.text, r),
           NEW p, p = Parsed(q.value, r)
    PROVE  ReadsValue(t, p)
<1>1. p.value = q.value /\ p.rest = r
  BY ParsedIs
<1> QED BY <1>1 DEF ReadsValue

LEMMA ShorterTail ==
    ASSUME NEW t \in TokenSeqs, Len(t) <= Longest, NEW x, Starts(t, x)
    PROVE  /\ Tail(t) \in TokenSeqs /\ Len(Tail(t)) \in Nat /\ Len(Tail(t)) + 1 <= Longest
           /\ Len(Tail(t)) <= Longest
<1>1. Tail(t) \in TokenSeqs /\ Len(t) = Len(Tail(t)) + 1 /\ Len(Tail(t)) \in Nat
  BY StartIs
<1> DEFINE m == Len(Tail(t))
<1>2. m \in Nat /\ m + 1 <= Longest
  BY <1>1
<1> HIDE DEF m
<1>3. m <= Longest
  BY <1>2, DerivedIs
<1> QED BY <1>1, <1>2, <1>3 DEF m

LEMMA Rooms == \A n \in Nat : /\ n >= 1 /\ n + 2 <= Longest => n + 2 \in 1 .. Longest
                              /\ 2 <= Longest => 2 \in 0 .. Longest /\ 2 \in 1 .. Longest
                              /\ 1 <= Longest => 1 \in 0 .. Longest /\ 1 \in 1 .. Longest
BY DerivedIs

LEMMA ArraySound ==
    ASSUME NEW shorter, Sound(shorter), NEW t \in TokenSeqs, Len(t) <= Longest, Starts(t, LBracket)
    PROVE  ReadsValue(t, parse_array(Tail(t), shorter))
<1> DEFINE s == Tail(t)
           p == parse_array(s, shorter)
           i == shorter.items[s]
<1> SUFFICES ReadsValue(t, p)
  OBVIOUS
<1>1. s \in TokenSeqs /\ Len(s) \in Nat /\ Len(s) + 1 <= Longest /\ Len(s) <= Longest
  BY ShorterTail
<1>2. t = LeftBracket \o s
  BY StartsAre
<1> HIDE DEF s
<1>3. CASE Starts(s, RBracket)
  <2> DEFINE r == Tail(s)
             q == Pair(EmptyArray, NoArray)
  <2>1. r \in TokenSeqs /\ Len(s) = Len(r) + 1 /\ Len(r) \in Nat
    BY <1>1, <1>3, StartIs
  <2>2. s = RightBracket \o r
    BY <1>1, <1>3, StartsAre
  <2>3. p = Parsed(NoArray, r)
    BY <1>3, ArrayParsed
  <2> HIDE DEF p, r
  <2>4. t = EmptyArray \o r
    <3>1. t = LeftBracket \o (RightBracket \o r)
      BY <1>2, <2>2
    <3>2. /\ LeftBracket \in TokenSeqs /\ RightBracket \in TokenSeqs
          /\ EmptyArray = LeftBracket \o RightBracket
      BY Punctuation
    <3>3. (LeftBracket \o RightBracket) \o r = LeftBracket \o (RightBracket \o r)
      BY <2>1, <3>2, Regrouped
    <3> QED BY <3>1, <3>2, <3>3
  <2>5. 2 \in 0 .. Longest /\ 2 \in 1 .. Longest
    <3>1. 2 <= Longest
      BY <1>1, <2>1, DerivedIs
    <3> QED BY <3>1, Rooms
  <2>6. q \in ValueTexts(2)
    BY <2>5, EmptyTexts DEF NoArray
  <2>7. q.text = EmptyArray /\ q.value = NoArray
    BY PairParts
  <2> HIDE DEF q
  <2>8. Reads(t, q.text, r) /\ p = Parsed(q.value, r)
    BY <2>1, <2>3, <2>4, <2>7, Punctuation, ReadsSame
  <2> DEFINE k == 2
  <2>9. k \in 1 .. Longest /\ q \in ValueTexts(k)
    BY <2>5, <2>6
  <2> HIDE DEF k
  <2> QED BY <2>1, <2>8, <2>9, ReadsParsed
<1>4. CASE ~Starts(s, RBracket)
  <2> DEFINE r == i.rest
  <2>1. p = ArrayOf(i)
    BY <1>4, ArrayParsed
  <2>2. CASE ~i.ok
    <3>1. ~p.ok
      BY <2>1, <2>2, WholeIs
    <3> HIDE DEF p
    <3> QED BY <3>1 DEF ReadsValue
  <2>3. CASE i.ok
    <3>1. p = Parsed(JsonArray(i.value), r)
      BY <2>1, <2>3, WholeIs
    <3>2. ReadsItems(s, i)
      BY <1>1 DEF Sound
    <3> HIDE DEF i, p
    <3>3. r \in TokenSeqs
      BY <2>3, <3>2 DEF ReadsItems
    <3>4. ~(s = RightBracket \o r)
      BY <1>4, <3>3, Begins
    <3>5. PICK n \in 1 .. Longest :
              \E q \in ItemTexts(n) : i.value = q.value /\ Reads(s, q.text \o RightBracket, r)
      BY <2>3, <3>2, <3>4 DEF ReadsItems
    <3>6. PICK q \in ItemTexts(n) : i.value = q.value /\ Reads(s, q.text \o RightBracket, r)
      BY <3>5
    <3>7. n \in Nat /\ n >= 1 /\ q.text \in TokenSeqs /\ Len(q.text) = n
      BY TextOf
    <3> HIDE DEF r
    <3> DEFINE w == Pair(LeftBracket \o q.text \o RightBracket, JsonArray(q.value))
    <3>8. /\ LeftBracket \in TokenSeqs /\ Len(LeftBracket) = 1
          /\ RightBracket \in TokenSeqs /\ Len(RightBracket) = 1
      BY Punctuation
    <3>9. Reads(t, LeftBracket \o (q.text \o RightBracket), r)
      BY <1>1, <1>2, <3>3, <3>6, <3>8, ReadsBehind
    <3>10. LeftBracket \o (q.text \o RightBracket) = LeftBracket \o q.text \o RightBracket
      BY <3>7, <3>8, Regrouped
    <3>11. Len(LeftBracket \o (q.text \o RightBracket)) = 1 + (n + 1)
      <4>1. Len(LeftBracket \o (q.text \o RightBracket)) = Len(LeftBracket) + (Len(q.text) + Len(RightBracket))
        BY <3>7, <3>8, ThreeLengths
      <4> QED BY <3>7, <3>8, <4>1
    <3>12. n + 2 <= Longest
      <4>1. 1 + (n + 1) <= Longest
        BY <3>3, <3>9, <3>11, ReadsRoom
      <4> QED BY <3>7, <4>1, DerivedIs
    <3>13. w \in ValueTexts(n + 2) /\ n + 2 \in 1 .. Longest
      BY <3>7, <3>12, ArrayText, Rooms
    <3>14. w.text = LeftBracket \o q.text \o RightBracket /\ w.value = JsonArray(q.value)
      BY PairParts
    <3> HIDE DEF w
    <3>15. Reads(t, w.text, r) /\ p = Parsed(w.value, r)
      BY <3>1, <3>6, <3>9, <3>10, <3>14
    <3> DEFINE k == n + 2
    <3>16. k \in 1 .. Longest /\ w \in ValueTexts(k)
      BY <3>13
    <3> HIDE DEF k
    <3> QED BY <3>3, <3>15, <3>16, ReadsParsed
  <2> QED BY <2>2, <2>3
<1> QED BY <1>3, <1>4 DEF s

LEMMA ObjectSound ==
    ASSUME NEW shorter, Sound(shorter), NEW t \in TokenSeqs, Len(t) <= Longest, Starts(t, LBrace)
    PROVE  ReadsValue(t, parse_object(Tail(t), shorter))
<1> DEFINE s == Tail(t)
           p == parse_object(s, shorter)
           i == shorter.fields[s]
<1> SUFFICES ReadsValue(t, p)
  OBVIOUS
<1>1. s \in TokenSeqs /\ Len(s) \in Nat /\ Len(s) + 1 <= Longest /\ Len(s) <= Longest
  BY ShorterTail
<1>2. t = LeftBrace \o s
  BY StartsAre
<1> HIDE DEF s
<1>3. CASE Starts(s, RBrace)
  <2> DEFINE r == Tail(s)
             q == Pair(EmptyObject, NoObject)
  <2>1. r \in TokenSeqs /\ Len(s) = Len(r) + 1 /\ Len(r) \in Nat
    BY <1>1, <1>3, StartIs
  <2>2. s = RightBrace \o r
    BY <1>1, <1>3, StartsAre
  <2>3. p = Parsed(NoObject, r)
    BY <1>3, ObjectParsed
  <2> HIDE DEF p, r
  <2>4. t = EmptyObject \o r
    <3>1. t = LeftBrace \o (RightBrace \o r)
      BY <1>2, <2>2
    <3>2. /\ LeftBrace \in TokenSeqs /\ RightBrace \in TokenSeqs
          /\ EmptyObject = LeftBrace \o RightBrace
      BY Punctuation
    <3>3. (LeftBrace \o RightBrace) \o r = LeftBrace \o (RightBrace \o r)
      BY <2>1, <3>2, Regrouped
    <3> QED BY <3>1, <3>2, <3>3
  <2>5. 2 \in 0 .. Longest /\ 2 \in 1 .. Longest
    <3>1. 2 <= Longest
      BY <1>1, <2>1, DerivedIs
    <3> QED BY <3>1, Rooms
  <2>6. q \in ValueTexts(2)
    BY <2>5, EmptyTexts DEF NoObject
  <2>7. q.text = EmptyObject /\ q.value = NoObject
    BY PairParts
  <2> HIDE DEF q
  <2>8. Reads(t, q.text, r) /\ p = Parsed(q.value, r)
    BY <2>1, <2>3, <2>4, <2>7, Punctuation, ReadsSame
  <2> DEFINE k == 2
  <2>9. k \in 1 .. Longest /\ q \in ValueTexts(k)
    BY <2>5, <2>6
  <2> HIDE DEF k
  <2> QED BY <2>1, <2>8, <2>9, ReadsParsed
<1>4. CASE ~Starts(s, RBrace)
  <2> DEFINE r == i.rest
  <2>1. p = ObjectOf(i)
    BY <1>4, ObjectParsed
  <2>2. CASE ~i.ok
    <3>1. ~p.ok
      BY <2>1, <2>2, WholeIs
    <3> HIDE DEF p
    <3> QED BY <3>1 DEF ReadsValue
  <2>3. CASE i.ok
    <3>1. p = Parsed(JsonObject(i.value), r)
      BY <2>1, <2>3, WholeIs
    <3>2. ReadsFields(s, i)
      BY <1>1 DEF Sound
    <3> HIDE DEF i, p
    <3>3. r \in TokenSeqs
      BY <2>3, <3>2 DEF ReadsFields
    <3>5. PICK n \in 1 .. Longest :
              \E q \in FieldTexts(n) : i.value = q.value /\ Reads(s, q.text \o RightBrace, r)
      BY <2>3, <3>2 DEF ReadsFields
    <3>6. PICK q \in FieldTexts(n) : i.value = q.value /\ Reads(s, q.text \o RightBrace, r)
      BY <3>5
    <3>7. n \in Nat /\ n >= 1 /\ q.text \in TokenSeqs /\ Len(q.text) = n
      BY TextOf
    <3> HIDE DEF r
    <3> DEFINE w == Pair(LeftBrace \o q.text \o RightBrace, JsonObject(q.value))
    <3>8. /\ LeftBrace \in TokenSeqs /\ Len(LeftBrace) = 1
          /\ RightBrace \in TokenSeqs /\ Len(RightBrace) = 1
      BY Punctuation
    <3>9. Reads(t, LeftBrace \o (q.text \o RightBrace), r)
      BY <1>1, <1>2, <3>3, <3>6, <3>8, ReadsBehind
    <3>10. LeftBrace \o (q.text \o RightBrace) = LeftBrace \o q.text \o RightBrace
      BY <3>7, <3>8, Regrouped
    <3>11. Len(LeftBrace \o (q.text \o RightBrace)) = 1 + (n + 1)
      <4>1. Len(LeftBrace \o (q.text \o RightBrace)) = Len(LeftBrace) + (Len(q.text) + Len(RightBrace))
        BY <3>7, <3>8, ThreeLengths
      <4> QED BY <3>7, <3>8, <4>1
    <3>12. n + 2 <= Longest
      <4>1. 1 + (n + 1) <= Longest
        BY <3>3, <3>9, <3>11, ReadsRoom
      <4> QED BY <3>7, <4>1, DerivedIs
    <3>13. w \in ValueTexts(n + 2) /\ n + 2 \in 1 .. Longest
      BY <3>7, <3>12, ObjectText, Rooms
    <3>14. w.text = LeftBrace \o q.text \o RightBrace /\ w.value = JsonObject(q.value)
      BY PairParts
    <3> HIDE DEF w
    <3>15. Reads(t, w.text, r) /\ p = Parsed(w.value, r)
      BY <3>1, <3>6, <3>9, <3>10, <3>14
    <3> DEFINE k == n + 2
    <3>16. k \in 1 .. Longest /\ w \in ValueTexts(k)
      BY <3>13
    <3> HIDE DEF k
    <3> QED BY <3>3, <3>15, <3>16, ReadsParsed
  <2> QED BY <2>2, <2>3
<1> QED BY <1>3, <1>4 DEF s

LEMMA ValueSound ==
    ASSUME NEW shorter, Sound(shorter), NEW t \in TokenSeqs, Len(t) <= Longest
    PROVE  ReadsValue(t, parse_value(t, shorter))
<1> DEFINE p == parse_value(t, shorter)
<1> SUFFICES ReadsValue(t, p)
  OBVIOUS
<1>1. CASE t # <<>> /\ Head(t) \in Atoms
  <2> DEFINE a == Head(t)
             u == <<a>>
             q == Pair(u, Atom(a))
             r == Tail(t)
  <2>1. t \in Seq(Tokens) /\ t # <<>>
    BY <1>1 DEF TokenSeqs
  <2>2. t = u \o r /\ r \in TokenSeqs /\ Len(t) \in Nat /\ Len(t) = Len(r) + 1 /\ Len(r) \in Nat
    BY <2>1, Uncons, LenProperties DEF TokenSeqs
  <2>3. p = Parsed(Atom(a), r)
    BY <1>1, ValueParsed
  <2>4. 1 \in 0 .. Longest /\ 1 \in 1 .. Longest
    <3>1. 1 <= Longest
      <4> HIDE DEF r
      <4> QED BY <2>2, DerivedIs
    <3> QED BY <3>1, Rooms
  <2>5. q \in ValueTexts(1)
    BY <1>1, <2>4, AtomText
  <2> HIDE DEF u, r, p
  <2>6. q.text = u /\ q.value = Atom(a)
    BY PairParts
  <2> HIDE DEF q
  <2>9. u \in TokenSeqs
    BY <1>1, TokensAre, OneToken DEF u
  <2>7. Reads(t, q.text, r) /\ p = Parsed(q.value, r)
    BY <2>2, <2>3, <2>6, <2>9, ReadsSame
  <2> DEFINE k == 1
  <2>8. k \in 1 .. Longest /\ q \in ValueTexts(k)
    BY <2>4, <2>5
  <2> HIDE DEF k
  <2> QED BY <2>2, <2>7, <2>8, ReadsParsed
<1>2. CASE Starts(t, LBrace)
  BY <1>2, ValueParsed, ObjectSound
<1>3. CASE Starts(t, LBracket)
  BY <1>3, ValueParsed, ArraySound
<1>4. CASE p = Failure
  <2>1. ~p.ok
    BY <1>4, ParsedIs
  <2> QED BY <2>1 DEF ReadsValue
<1> QED BY <1>1, <1>2, <1>3, <1>4, ValueParsed

LEMMA NoMore == ASSUME NEW S, NEW v \in S PROVE <<v>> \o NoItems = <<v>>
<1>1. <<v>> \in Seq(S)
  BY OneValue
<1> QED BY <1>1, ConcatEmptySeq DEF NoItems

LEMMA FieldValue == ASSUME NEW k \in Keys, NEW v \in JsonValues PROVE <<k, v>> \in Keys \X JsonValues
OBVIOUS

(* A value with what is behind it, when it and its rest are in the room.     *)
LEMMA ValueRoom ==
    ASSUME NEW t \in TokenSeqs, Len(t) <= Longest, NEW n \in 1 .. Longest, NEW q \in ValueTexts(n),
           NEW r \in TokenSeqs, Reads(t, q.text, r)
    PROVE  /\ n \in Nat /\ n >= 1 /\ q.text \in TokenSeqs /\ Len(q.text) = n /\ q.value \in JsonValues
           /\ Len(r) \in Nat /\ n + Len(r) <= Longest /\ Len(r) <= Longest
<1>1. n \in Nat /\ n >= 1 /\ q.text \in TokenSeqs /\ Len(q.text) = n /\ q.value \in JsonValues
  BY TextOf
<1> QED BY <1>1, ReadsRoom

LEMMA OneItemRead ==
    ASSUME NEW t \in TokenSeqs, NEW p, NEW r \in TokenSeqs, NEW n \in 1 .. Longest, NEW q \in ValueTexts(n),
           p = Parsed(<<q.value>>, r), Reads(t, q.text \o RightBracket, r)
    PROVE  ReadsItems(t, p)
<1> DEFINE v == <<q.value>>
           w == Pair(q.text, v)
<1>1. n \in 0 .. Longest
  BY TextOf
<1>2. w \in ItemTexts(n)
  BY <1>1, OneItemText
<1>3. p = Parsed(v, r)
  OBVIOUS
<1> HIDE DEF v
<1>4. w.text = q.text /\ w.value = v
  BY PairParts
<1>5. p.value = v /\ p.rest = r
  BY <1>3, ParsedIs
<1> HIDE DEF w
<1>6. p.value = w.value /\ Reads(t, w.text \o RightBracket, p.rest)
  BY <1>4, <1>5
<1> QED BY <1>2, <1>5, <1>6 DEF ReadsItems

LEMMA ItemsRead ==
    ASSUME NEW t \in TokenSeqs, Len(t) <= Longest, NEW p, NEW r \in TokenSeqs,
           NEW n \in 1 .. Longest, NEW q \in ValueTexts(n), NEW m \in 1 .. Longest, NEW w \in ItemTexts(m),
           p = Parsed(<<q.value>> \o w.value, r),
           Reads(t, q.text \o (Comma \o (w.text \o RightBracket)), r)
    PROVE  ReadsItems(t, p)
<1>1. /\ n \in Nat /\ n >= 1 /\ q.text \in TokenSeqs /\ Len(q.text) = n
      /\ m \in Nat /\ m >= 1 /\ w.text \in TokenSeqs /\ Len(w.text) = m
  BY TextOf
<1>2. RightBracket \in TokenSeqs /\ Len(RightBracket) = 1 /\ Comma \in TokenSeqs /\ Len(Comma) = 1
  BY Punctuation
<1> DEFINE d == w.text \o RightBracket
           e == q.text \o (Comma \o d)
<1>3. d \in TokenSeqs /\ Len(d) = m + 1
  BY <1>1, <1>2, ConcatOf
<1>4. Len(e) = n + (1 + (m + 1))
  <2> HIDE DEF d
  <2>1. Len(q.text \o (Comma \o d)) = Len(q.text) + (Len(Comma) + Len(d))
    BY <1>1, <1>2, <1>3, ThreeLengths
  <2> QED BY <1>1, <1>2, <1>3, <2>1
<1>5. n + m + 1 <= Longest /\ m + n + 1 <= Longest /\ n + m + 1 \in 1 .. Longest
  <2>1. n + (1 + (m + 1)) <= Longest
    <3>1. Reads(t, e, r)
      OBVIOUS
    <3> HIDE DEF e
    <3> QED BY <1>4, <3>1, ReadsRoom
  <2> QED BY <1>1, <2>1, DerivedIs
<1> DEFINE v == <<q.value>> \o w.value
           x == Pair(q.text \o Comma \o w.text, v)
           l == n + m + 1
<1>8. x \in ItemTexts(l) /\ l \in 1 .. Longest
  BY <1>1, <1>5, ItemsText
<1>9. p = Parsed(v, r)
  OBVIOUS
<1> HIDE DEF v
<1>10. x.text = q.text \o Comma \o w.text /\ x.value = v
  BY PairParts
<1>11. p.value = v /\ p.rest = r
  BY <1>9, ParsedIs
<1> HIDE DEF x, l
<1>12. Reads(t, x.text \o RightBracket, r)
  <2> DEFINE a == q.text
             b == Comma
             c == w.text
             f == RightBracket
  <2>1. a \o (b \o (c \o f)) = (a \o b \o c) \o f
    <3> HIDE DEF a, b, c, f
    <3> QED OBVIOUS
  <2> QED BY <1>10, <2>1
<1>13. p.value = x.value /\ p.rest \in TokenSeqs /\ Reads(t, x.text \o RightBracket, p.rest)
  BY <1>10, <1>11, <1>12
<1> QED BY <1>8, <1>13 DEF ReadsItems

LEMMA ItemsSound ==
    ASSUME NEW shorter, Sound(shorter), NEW t \in TokenSeqs, Len(t) <= Longest
    PROVE  ReadsItems(t, parse_comma_separated_value(t, shorter))
<1> DEFINE p == parse_value(t, shorter)
           i == parse_comma_separated_value(t, shorter)
           s == p.rest
           j == shorter.items[Tail(s)]
<1> SUFFICES ReadsItems(t, i)
  OBVIOUS
<1>1. CASE Starts(t, RBracket)
  <2> DEFINE r == Tail(t)
  <2>1. i = Parsed(NoItems, r)
    BY <1>1, ItemsParsed
  <2>2. t = RightBracket \o r /\ r \in TokenSeqs
    BY <1>1, StartsAre, StartIs
  <2> HIDE DEF i, r
  <2>3. i.value = NoItems /\ i.rest = r
    BY <2>1, ParsedIs
  <2> QED BY <2>2, <2>3 DEF ReadsItems
<1>2. CASE i = Failure
  <2>1. ~i.ok
    BY <1>2, ParsedIs
  <2> HIDE DEF i
  <2> QED BY <2>1 DEF ReadsItems
<1>3. CASE ~Starts(t, RBracket) /\ i # Failure
  <2>1. p.ok
    BY <1>3, ItemsParsed
  <2>2. ReadsValue(t, p)
    BY ValueSound
  <2>3. s \in TokenSeqs
    BY <2>1, <2>2 DEF ReadsValue
  <2>4. PICK n \in 1 .. Longest : \E q \in ValueTexts(n) : Reads(t, q.text, s) /\ p.value = q.value
    BY <2>1, <2>2 DEF ReadsValue
  <2>5. PICK q \in ValueTexts(n) : Reads(t, q.text, s) /\ p.value = q.value
    BY <2>4
  <2>6. /\ n \in Nat /\ n >= 1 /\ q.text \in TokenSeqs /\ Len(q.text) = n /\ q.value \in JsonValues
        /\ Len(s) \in Nat /\ n + Len(s) <= Longest /\ Len(s) <= Longest
    <3>1. Reads(t, q.text, s)
      BY <2>5
    <3> HIDE DEF s, p
    <3> QED BY <2>3, <3>1, ValueRoom
  <2>9. RightBracket \in TokenSeqs /\ Comma \in TokenSeqs
    BY Punctuation
  <2>7. CASE Starts(s, Separator)
    <3> DEFINE u == Tail(s)
    <3>1. i = InFront(q.value, j)
      BY <1>3, <2>1, <2>5, <2>7, ItemsParsed
    <3>2. s = Comma \o u
      BY <2>3, <2>7, StartsAre
    <3>3. u \in TokenSeqs /\ Len(u) <= Longest
      BY <2>3, <2>6, <2>7, ShorterTail
    <3>4. ReadsItems(u, j)
      BY <3>3 DEF Sound
    <3> HIDE DEF i, u, j, s
    <3>5. CASE ~j.ok
      <4>1. ~i.ok
        BY <3>1, <3>5, InFrontIs
      <4> QED BY <4>1 DEF ReadsItems
    <3>6. CASE j.ok
      <4> DEFINE r == j.rest
      <4>1. i = Parsed(<<q.value>> \o j.value, r)
        BY <3>1, <3>6, InFrontIs
      <4>2. r \in TokenSeqs
        BY <3>4, <3>6 DEF ReadsItems
      <4>3. CASE u = RightBracket \o r /\ j.value = NoItems
        <5>1. Reads(t, q.text \o RightBracket, r)
          <6>1. TrailingComma = Comma \o RightBracket
            BY Punctuation
          <6>2. s = TrailingComma \o r
            BY <2>9, <3>2, <4>2, <4>3, <6>1, Regrouped
          <6>3. Reads(s, RightBracket, r)
            BY <4>2, <6>2, ReadsTrailing
          <6> QED BY <2>5, <4>2, <6>3, ReadsBoth
        <5>2. <<q.value>> \o NoItems = <<q.value>>
          BY <2>6, NoMore
        <5>3. i = Parsed(<<q.value>>, r)
          BY <4>1, <4>3, <5>2
        <5> HIDE DEF r
        <5> QED BY <4>2, <5>1, <5>3, OneItemRead
      <4>4. CASE \E m \in 1 .. Longest : \E w \in ItemTexts(m) :
                    j.value = w.value /\ Reads(u, w.text \o RightBracket, r)
        <5>1. PICK m \in 1 .. Longest : \E w \in ItemTexts(m) :
                    j.value = w.value /\ Reads(u, w.text \o RightBracket, r)
          BY <4>4
        <5>2. PICK w \in ItemTexts(m) : j.value = w.value /\ Reads(u, w.text \o RightBracket, r)
          BY <5>1
        <5>3. Reads(s, Comma \o (w.text \o RightBracket), r)
          BY <2>9, <3>2, <3>3, <4>2, <5>2, ReadsBehind
        <5>4. Reads(t, q.text \o (Comma \o (w.text \o RightBracket)), r)
          BY <2>5, <4>2, <5>3, ReadsBoth
        <5>5. i = Parsed(<<q.value>> \o w.value, r)
          BY <4>1, <5>2
        <5> HIDE DEF r
        <5> QED BY <4>2, <5>4, <5>5, ItemsRead
      <4> QED BY <3>4, <3>6, <4>3, <4>4 DEF ReadsItems
    <3> QED BY <3>5, <3>6
  <2>8. CASE ~Starts(s, Separator)
    <3> DEFINE r == Tail(s)
    <3>1. Starts(s, RBracket) /\ i = Parsed(<<q.value>>, r)
      BY <1>3, <2>1, <2>5, <2>8, ItemsParsed
    <3>2. s = RightBracket \o r
      BY <2>3, <3>1, StartsAre
    <3>3. r \in TokenSeqs
      BY <2>3, <3>1, StartIs
    <3> HIDE DEF i, r, s
    <3>4. Reads(t, q.text \o RightBracket, r)
      BY <2>5, <2>9, <3>2, <3>3, ReadsMore
    <3> QED BY <3>1, <3>3, <3>4, OneItemRead
  <2> QED BY <2>7, <2>8
<1> QED BY <1>1, <1>2, <1>3

LEMMA OneFieldRead ==
    ASSUME NEW t \in TokenSeqs, Len(t) <= Longest, NEW p, NEW r \in TokenSeqs, NEW k \in Keys,
           NEW n \in 1 .. Longest, NEW q \in ValueTexts(n),
           p = Parsed(<<<<k, q.value>>>>, r), Reads(t, Label(k) \o (q.text \o RightBrace), r)
    PROVE  ReadsFields(t, p)
<1>1. n \in Nat /\ n >= 1 /\ q.text \in TokenSeqs /\ Len(q.text) = n
  BY TextOf
<1>2. Label(k) \in TokenSeqs /\ Len(Label(k)) = 2
  BY KeyColon DEF IsText
<1>3. RightBrace \in TokenSeqs /\ Len(RightBrace) = 1
  BY Punctuation
<1>4. Len(Label(k) \o (q.text \o RightBrace)) = 2 + (n + 1)
  <2>1. Len(Label(k) \o (q.text \o RightBrace)) = Len(Label(k)) + (Len(q.text) + Len(RightBrace))
    BY <1>1, <1>2, <1>3, ThreeLengths
  <2> QED BY <1>1, <1>2, <1>3, <2>1
<1>5. 2 + (n + 1) <= Longest
  BY <1>4, ReadsRoom
<1>6. n + 2 <= Longest
  BY <1>1, <1>5, DerivedIs
<1>7. n + 2 \in 1 .. Longest
  BY <1>1, <1>6, Rooms
<1> DEFINE v == <<<<k, q.value>>>>
           w == Pair(Label(k) \o q.text, v)
           l == n + 2
<1>8. w \in FieldTexts(l) /\ l \in 1 .. Longest
  BY <1>1, <1>6, <1>7, OneFieldText
<1>9. p = Parsed(v, r)
  OBVIOUS
<1> HIDE DEF v
<1>10. w.text = Label(k) \o q.text /\ w.value = v
  BY PairParts
<1>11. p.value = v /\ p.rest = r
  BY <1>9, ParsedIs
<1> HIDE DEF w, l
<1>12. Label(k) \o (q.text \o RightBrace) = w.text \o RightBrace
  <2>1. (Label(k) \o q.text) \o RightBrace = Label(k) \o (q.text \o RightBrace)
    BY <1>1, <1>2, <1>3, Regrouped
  <2> QED BY <1>10, <2>1
<1>13. p.value = w.value /\ p.rest \in TokenSeqs /\ Reads(t, w.text \o RightBrace, p.rest)
  BY <1>10, <1>11, <1>12
<1> QED BY <1>8, <1>13 DEF ReadsFields

LEMMA FieldsRead ==
    ASSUME NEW t \in TokenSeqs, Len(t) <= Longest, NEW p, NEW r \in TokenSeqs, NEW k \in Keys,
           NEW n \in 1 .. Longest, NEW q \in ValueTexts(n), NEW m \in 1 .. Longest, NEW w \in FieldTexts(m),
           p = Parsed(<<<<k, q.value>>>> \o w.value, r),
           Reads(t, Label(k) \o (q.text \o (Comma \o (w.text \o RightBrace))), r)
    PROVE  ReadsFields(t, p)
<1>1. /\ n \in Nat /\ n >= 1 /\ q.text \in TokenSeqs /\ Len(q.text) = n
      /\ m \in Nat /\ m >= 1 /\ w.text \in TokenSeqs /\ Len(w.text) = m
  BY TextOf
<1>2. Label(k) \in TokenSeqs /\ Len(Label(k)) = 2
  BY KeyColon DEF IsText
<1>3. RightBrace \in TokenSeqs /\ Len(RightBrace) = 1 /\ Comma \in TokenSeqs /\ Len(Comma) = 1
  BY Punctuation
<1> DEFINE d == w.text \o RightBrace
           e == q.text \o (Comma \o d)
           f == Label(k) \o e
<1>4. d \in TokenSeqs /\ Len(d) = m + 1
  BY <1>1, <1>3, ConcatOf
<1>5. e \in TokenSeqs /\ Len(e) = n + (1 + (m + 1))
  <2> HIDE DEF d
  <2>1. /\ q.text \o (Comma \o d) \in TokenSeqs
        /\ Len(q.text \o (Comma \o d)) = Len(q.text) + (Len(Comma) + Len(d))
    BY <1>1, <1>3, <1>4, ThreeLengths
  <2> QED BY <1>1, <1>3, <1>4, <2>1
<1>6. Len(f) = 2 + (n + (1 + (m + 1)))
  <2> HIDE DEF e
  <2> QED BY <1>2, <1>5, ConcatOf
<1>7. n + m + 3 <= Longest /\ m + n + 3 <= Longest /\ n + m + 3 \in 1 .. Longest
  <2>1. 2 + (n + (1 + (m + 1))) <= Longest
    <3>1. Reads(t, f, r)
      OBVIOUS
    <3> HIDE DEF f
    <3> QED BY <1>6, <3>1, ReadsRoom
  <2> QED BY <1>1, <2>1, DerivedIs
<1> DEFINE v == <<<<k, q.value>>>> \o w.value
           x == Pair(Label(k) \o q.text \o Comma \o w.text, v)
           l == n + m + 3
<1>8. x \in FieldTexts(l) /\ l \in 1 .. Longest
  BY <1>1, <1>7, FieldsText
<1>9. p = Parsed(v, r)
  OBVIOUS
<1> HIDE DEF v
<1>10. x.text = Label(k) \o q.text \o Comma \o w.text /\ x.value = v
  BY PairParts
<1>11. p.value = v /\ p.rest = r
  BY <1>9, ParsedIs
<1> HIDE DEF x, l
<1>12. Reads(t, x.text \o RightBrace, r)
  <2> DEFINE a == Label(k)
             b == q.text
             c == Comma
             g == w.text
             h == RightBrace
  <2>1. a \o (b \o (c \o (g \o h))) = (a \o b \o c \o g) \o h
    <3> DEFINE y == g \o h
               z == a \o b \o c
    <3>1. a \o (b \o (c \o y)) = (a \o b \o c) \o y
      <4> HIDE DEF a, b, c, y, d, e, f
      <4> QED OBVIOUS
    <3>2. z \o (g \o h) = (z \o g) \o h
      <4> HIDE DEF z, g, h, d, e, f
      <4> QED OBVIOUS
    <3> HIDE DEF a, b, c, g, h
    <3> QED BY <3>1, <3>2
  <2>2. x.text = a \o b \o c \o g
    BY <1>10
  <2>3. Reads(t, a \o (b \o (c \o (g \o h))), r)
    OBVIOUS
  <2> HIDE DEF a, b, c, g
  <2> QED BY <2>1, <2>2, <2>3
<1>13. p.value = x.value /\ p.rest \in TokenSeqs /\ Reads(t, x.text \o RightBrace, p.rest)
  BY <1>10, <1>11, <1>12
<1> QED BY <1>8, <1>13 DEF ReadsFields

LEMMA KeyTaken ==
    ASSUME NEW t \in TokenSeqs, Len(t) <= Longest, KeyInFront(t)
    PROVE  /\ Head(t) \in Keys /\ Tail(Tail(t)) \in TokenSeqs /\ t = Label(Head(t)) \o Tail(Tail(t))
           /\ Len(Tail(Tail(t))) \in Nat /\ Len(Tail(Tail(t))) <= Longest
<1> DEFINE k == Head(t)
           a == Tail(t)
           b == Tail(a)
<1>1. t \in Seq(Tokens) /\ Len(t) \in Nat /\ Len(t) >= 2 /\ k \in Keys /\ t[2] = Colon
  BY LenProperties DEF TokenSeqs, KeyInFront
<1>2. t # <<>>
  <2>1. Len(<<>>) = 0
    OBVIOUS
  <2>2. Len(t) # 0
    BY <1>1
  <2> QED BY <2>1, <2>2
<1>3. a \in Seq(Tokens) /\ t = <<k>> \o a /\ Len(t) = Len(a) + 1 /\ Len(a) \in Nat
  BY <1>1, <1>2, Uncons, LenProperties
<1>4. Len(a) >= 1 /\ Len(a) # 0
  <2> HIDE DEF a
  <2> QED BY <1>1, <1>3
<1>5. \A i \in 1 .. Len(a) : a[i] = t[i + 1]
  BY <1>1, <1>2, HeadTailProperties
<1> HIDE DEF k, a
<1>6. a # <<>>
  <2>1. Len(<<>>) = 0
    OBVIOUS
  <2> QED BY <1>4, <2>1
<1>7. a[1] = Colon
  <2>1. 1 \in 1 .. Len(a) /\ 1 + 1 = 2
    BY <1>3, <1>4
  <2>2. a[1] = t[2]
    BY <1>5, <2>1
  <2> QED BY <1>1, <2>2
<1>8. Head(a) = Colon
  BY <1>3, <1>6, <1>7
<1>9. b \in Seq(Tokens) /\ a = <<Colon>> \o b /\ Len(a) = Len(b) + 1 /\ Len(b) \in Nat
  BY <1>3, <1>6, <1>8, Uncons, LenProperties
<1>10. Label(k) = <<k>> \o <<Colon>>
  <2>1. k \in Tokens /\ Colon \in Tokens
    BY <1>1, Punctuation, TokensAre
  <2>2. <<k, Colon>> = <<k>> \o <<Colon>>
    BY <2>1, TwoTokens
  <2> QED BY <2>2 DEF Label, Colon
<1>11. t = Label(k) \o b
  <2> DEFINE x == <<k>>
             y == <<Colon>>
  <2>1. x \o (y \o b) = (x \o y) \o b
    <3> HIDE DEF x, y, b
    <3> QED OBVIOUS
  <2> QED BY <1>3, <1>9, <1>10, <2>1
<1>12. Len(b) <= Longest
  <2> HIDE DEF b
  <2> QED BY <1>1, <1>3, <1>9, DerivedIs
<1> QED BY <1>1, <1>9, <1>11, <1>12 DEF k, a, TokenSeqs

LEMMA FieldsSound ==
    ASSUME NEW shorter, Sound(shorter), NEW t \in TokenSeqs, Len(t) <= Longest
    PROVE  ReadsFields(t, parse_object_fields(t, shorter))
<1> DEFINE h == Tail(Tail(t))
           k == Head(t)
           p == parse_value(h, shorter)
           i == parse_object_fields(t, shorter)
           s == p.rest
           j == shorter.fields[Tail(s)]
<1> SUFFICES ReadsFields(t, i)
  OBVIOUS
<1>2. CASE i = Failure
  <2>1. ~i.ok
    BY <1>2, ParsedIs
  <2> HIDE DEF i
  <2> QED BY <2>1 DEF ReadsFields
<1>3. CASE i # Failure
  <2>1. p.ok /\ KeyInFront(t)
    BY <1>3, FieldsParsed
  <2>2. k \in Keys /\ h \in TokenSeqs /\ t = Label(k) \o h /\ Len(h) <= Longest
    BY <2>1, KeyTaken
  <2>3. ReadsValue(h, p)
    BY <2>2, ValueSound
  <2>4. s \in TokenSeqs
    BY <2>1, <2>3 DEF ReadsValue
  <2>9. PICK n \in 1 .. Longest : \E q \in ValueTexts(n) : Reads(h, q.text, s) /\ p.value = q.value
    BY <2>1, <2>3 DEF ReadsValue
  <2>5. PICK q \in ValueTexts(n) : Reads(h, q.text, s) /\ p.value = q.value
    BY <2>9
  <2>10. RightBrace \in TokenSeqs /\ Comma \in TokenSeqs /\ Label(k) \in TokenSeqs
    BY <2>2, Punctuation, KeyColon DEF IsText
  <2>6. /\ n \in Nat /\ n >= 1 /\ q.text \in TokenSeqs /\ Len(q.text) = n /\ q.value \in JsonValues
        /\ Len(s) \in Nat /\ n + Len(s) <= Longest /\ Len(s) <= Longest
    <3>1. Reads(h, q.text, s)
      BY <2>5
    <3>2. h \in TokenSeqs /\ Len(h) <= Longest
      BY <2>2
    <3>3. n \in 1 .. Longest /\ q \in ValueTexts(n) /\ s \in TokenSeqs
      BY <2>4
    <3> HIDE DEF s, p, h
    <3> QED BY <3>1, <3>2, <3>3, ValueRoom
  <2>7. CASE Starts(s, Separator)
    <3> DEFINE u == Tail(s)
    <3>1. i = InFront(<<k, q.value>>, j)
      BY <2>1, <2>5, <2>7, FieldsParsed
    <3>2. s = Comma \o u
      BY <2>4, <2>7, StartsAre
    <3>3. u \in TokenSeqs /\ Len(u) <= Longest
      BY <2>4, <2>6, <2>7, ShorterTail
    <3>4. ReadsFields(u, j)
      BY <3>3 DEF Sound
    <3> HIDE DEF i, u, j, s, h, k
    <3>5. CASE ~j.ok
      <4>1. ~i.ok
        BY <3>1, <3>5, InFrontIs
      <4> QED BY <4>1 DEF ReadsFields
    <3>6. CASE j.ok
      <4> DEFINE r == j.rest
      <4>1. i = Parsed(<<<<k, q.value>>>> \o j.value, r)
        BY <3>1, <3>6, InFrontIs
      <4>2. r \in TokenSeqs
        BY <3>4, <3>6 DEF ReadsFields
      <4>3. PICK m \in 1 .. Longest :
                \E w \in FieldTexts(m) : j.value = w.value /\ Reads(u, w.text \o RightBrace, r)
        BY <3>4, <3>6 DEF ReadsFields
      <4>4. PICK w \in FieldTexts(m) : j.value = w.value /\ Reads(u, w.text \o RightBrace, r)
        BY <4>3
      <4>7. Reads(s, Comma \o (w.text \o RightBrace), r)
        BY <2>10, <3>2, <3>3, <4>2, <4>4, ReadsBehind
      <4>8. Reads(h, q.text \o (Comma \o (w.text \o RightBrace)), r)
        BY <2>5, <4>2, <4>7, ReadsBoth
      <4>5. Reads(t, Label(k) \o (q.text \o (Comma \o (w.text \o RightBrace))), r)
        BY <2>2, <2>10, <4>2, <4>8, ReadsBehind
      <4>6. i = Parsed(<<<<k, q.value>>>> \o w.value, r)
        BY <4>1, <4>4
      <4> HIDE DEF r
      <4> QED BY <2>2, <4>2, <4>5, <4>6, FieldsRead
    <3> QED BY <3>5, <3>6
  <2>8. CASE ~Starts(s, Separator)
    <3> DEFINE r == Tail(s)
    <3>1. Starts(s, RBrace) /\ i = Parsed(<<<<k, q.value>>>>, r)
      BY <1>3, <2>1, <2>5, <2>8, FieldsParsed
    <3>2. s = RightBrace \o r
      BY <2>4, <3>1, StartsAre
    <3>3. r \in TokenSeqs
      BY <2>4, <3>1, StartIs
    <3> HIDE DEF i, r, s, h, k
    <3>5. Reads(h, q.text \o RightBrace, r)
      BY <2>5, <2>10, <3>2, <3>3, ReadsMore
    <3>4. Reads(t, Label(k) \o (q.text \o RightBrace), r)
      BY <2>2, <2>10, <3>3, <3>5, ReadsBehind
    <3> QED BY <2>2, <3>1, <3>3, <3>4, OneFieldRead
  <2> QED BY <2>7, <2>8
<1> QED BY <1>2, <1>3

LEMMA LevelsSound ==
    ASSUME NEW n \in Nat, NEW f, ParseLevels(f, n)
    PROVE  \A k \in 0 .. n : Sound(f[k])
<1> DEFINE T == {k \in 0 .. n : ~Sound(f[k])}
<1>1. SUFFICES ASSUME T # {} PROVE FALSE
  OBVIOUS
<1>2. PICK k \in T : \A l \in T : k <= l
  <2>1. T \subseteq Nat
    OBVIOUS
  <2> HIDE DEF T
  <2> QED BY <1>1, <2>1, LeastElement
<1>3. k \in 0 .. n /\ ~Sound(f[k])
  OBVIOUS
<1>4. CASE k = 0
  <2>1. ASSUME NEW t \in TokenSeqs PROVE ReadsItems(t, f[0].items[t]) /\ ReadsFields(t, f[0].fields[t])
    <3>1. f[0].items[t] = Failure /\ f[0].fields[t] = Failure
      BY DEF ParseLevels
    <3>2. ~Failure.ok
      BY ParsedIs
    <3> QED BY <3>1, <3>2 DEF ReadsItems, ReadsFields
  <2> QED BY <1>3, <1>4, <2>1 DEF Sound
<1>5. CASE k # 0
  <2>1. k - 1 \in 0 .. n /\ k \in 1 .. n /\ ~(k <= k - 1)
    BY <1>3, <1>5
  <2>2. k - 1 \notin T
    BY <1>2, <2>1
  <2> DEFINE shorter == f[k - 1]
  <2>3. Sound(shorter)
    BY <2>1, <2>2
  <2>4. \A t \in TokenSeqs : /\ f[k].items[t] = parse_comma_separated_value(t, shorter)
                              /\ f[k].fields[t] = parse_object_fields(t, shorter)
    BY <2>1 DEF ParseLevels
  <2> HIDE DEF T, shorter
  <2>5. Sound(f[k])
    BY <2>3, <2>4, ItemsSound, FieldsSound DEF Sound
  <2> QED BY <1>3, <2>5
<1> QED BY <1>4, <1>5

(* What parse_json returns is the value of a text of the grammar: of the     *)
(* text it is given, if that has no comma in front of a bracket.             *)
LEMMA ParserSound ==
    ASSUME NEW t \in TokenSeqs, Len(t) <= Longest, parse_json(t).ok
    PROVE  \E n \in 1 .. Longest : \E q \in ValueTexts(n) : Near(t, q.text) /\ parse_json(t) = Parsed(q.value, <<>>)
<1> DEFINE n == Len(t)
           shorter == list_parsers(n)
           p == parse_value(t, shorter)
<1>1. n \in Nat
  BY LenProperties DEF TokenSeqs
<1>2. PICK f : ParseLevels(f, n) /\ list_parsers(n) = f[n]
  BY <1>1, ListParsersAre
<1>3. Sound(shorter)
  <2>1. n \in 0 .. n
    BY <1>1
  <2>2. \A k \in 0 .. n : Sound(f[k])
    BY <1>1, <1>2, LevelsSound
  <2> QED BY <1>2, <2>1, <2>2
<1>4. parse_json(t) = IF p.ok /\ p.rest = <<>> THEN p ELSE Failure
  BY DEF parse_json
<1>5. p.ok /\ p.rest = <<>> /\ parse_json(t) = p
  BY <1>4, ParsedIs
<1>6. ReadsValue(t, p)
  BY <1>3, ValueSound
<1> HIDE DEF p, shorter
<1>7. PICK m \in 1 .. Longest : \E q \in ValueTexts(m) : Reads(t, q.text, p.rest) /\ p.value = q.value
  BY <1>5, <1>6 DEF ReadsValue
<1>8. PICK q \in ValueTexts(m) : Reads(t, q.text, p.rest) /\ p.value = q.value
  BY <1>7
<1>9. PICK s : Near(s, q.text) /\ t = s \o p.rest
  BY <1>8 DEF Reads
<1>10. t = s
  <2>1. s \in Seq(Tokens)
    BY <1>9 DEF Near, TokenSeqs
  <2> QED BY <1>5, <1>9, <2>1, ConcatEmptySeq
<1>11. p = Parsed(p.value, p.rest)
  BY <1>5, <1>6 DEF ReadsValue
<1>12. parse_json(t) = Parsed(q.value, <<>>)
  BY <1>5, <1>8, <1>11
<1> QED BY <1>9, <1>10, <1>12

-------------------------------------------------------------------------------
(* What is of the grammar is parsed.                                         *)
Complete(shorter, m) ==
    \A r \in TokenSeqs : \A n \in 1 .. Longest : n + 1 <= m =>
        /\ \A q \in ItemTexts(n) : shorter.items[q.text \o (RightBracket \o r)] = Parsed(q.value, r)
        /\ \A q \in FieldTexts(n) : shorter.fields[q.text \o (RightBrace \o r)] = Parsed(q.value, r)

LEMMA StartsLike ==
    ASSUME NEW H, NEW a \in TokenSeqs, a # <<>>, Head(a) \in H, NEW b \in TokenSeqs
    PROVE  a \o b \in TokenSeqs /\ a \o b # <<>> /\ Head(a \o b) \in H /\ \A y : Starts(a \o b, y) => y \in H
<1> DEFINE n == Len(a)
<1>1. n \in Nat
  BY LenProperties DEF TokenSeqs
<1>2. n >= 1
  <2>1. n # 0
    BY EmptySeq DEF TokenSeqs
  <2> HIDE DEF n
  <2> QED BY <1>1, <2>1
<1>3. IsText(a, n, H)
  BY <1>2 DEF IsText
<1>4. IsText(a \o b, n + Len(b), H)
  BY <1>1, <1>3, TextJoined
<1> QED BY <1>4 DEF IsText, Starts

LEMMA LabelTaken ==
    ASSUME NEW k \in Keys, NEW x \in TokenSeqs
    PROVE  /\ Label(k) \o x \in TokenSeqs /\ KeyInFront(Label(k) \o x)
           /\ Head(Label(k) \o x) = k /\ Tail(Tail(Label(k) \o x)) = x
<1> DEFINE t == Label(k) \o x
           a == <<Colon>> \o x
<1>1. k \in Tokens /\ Colon \in Tokens /\ x \in Seq(Tokens)
  BY TokensAre, Punctuation DEF TokenSeqs
<1>2. Label(k) = <<k>> \o <<Colon>>
  BY <1>1, TwoTokens DEF Label, Colon
<1>3. t = <<k>> \o a
  <2> DEFINE u == <<k>>
             v == <<Colon>>
  <2>1. (u \o v) \o x = u \o (v \o x)
    <3> HIDE DEF u, v
    <3> QED OBVIOUS
  <2> QED BY <1>2, <2>1
<1>4. a \in Seq(Tokens) /\ a # <<>> /\ Head(a) = Colon /\ Tail(a) = x /\ Len(a) = Len(x) + 1
  BY <1>1, ConsIs
<1> HIDE DEF a
<1>5. <<k>> \o a \in Seq(Tokens) /\ <<k>> \o a # <<>> /\ Head(<<k>> \o a) = k /\ Tail(<<k>> \o a) = a
      /\ Len(<<k>> \o a) = Len(a) + 1
  BY <1>1, <1>4, ConsIs
<1>6. t \in Seq(Tokens) /\ t # <<>> /\ Head(t) = k /\ Tail(t) = a /\ Len(t) = Len(a) + 1
  BY <1>3, <1>5
<1> HIDE DEF t
<1>7. Len(x) \in Nat
  BY <1>1, LenProperties
<1>8. Len(t) >= 2 /\ Len(a) >= 1 /\ Len(Tail(t)) = Len(a)
  BY <1>4, <1>6, <1>7
<1>9. t[2] = Colon
  <2>1. 1 \in 1 .. Len(Tail(t)) /\ 1 + 1 = 2
    BY <1>4, <1>7, <1>8
  <2>2. \A i \in 1 .. Len(Tail(t)) : Tail(t)[i] = t[i + 1]
    BY <1>6, HeadTailProperties
  <2>3. Tail(t)[1] = t[2]
    BY <2>1, <2>2
  <2>4. a[1] = Head(a)
    BY <1>4
  <2> QED BY <1>4, <1>6, <2>3, <2>4
<1>10. KeyInFront(t)
  BY <1>6, <1>8, <1>9 DEF KeyInFront
<1> QED BY <1>4, <1>6, <1>10 DEF t, TokenSeqs

LEMMA ArrayComplete ==
    ASSUME NEW m \in Nat, NEW shorter, Complete(shorter, m), NEW n \in 1 .. Longest, n + 1 <= m,
           NEW q \in ItemTexts(n), NEW r \in TokenSeqs,
           NEW v, v = JsonArray(q.value)
    PROVE  parse_value((LeftBracket \o q.text \o RightBracket) \o r, shorter) = Parsed(v, r)
<1> DEFINE s == q.text \o (RightBracket \o r)
           t == LeftBracket \o s
           i == shorter.items[s]
<1>1. (LeftBracket \o q.text \o RightBracket) \o r = t
  <2> DEFINE a == LeftBracket
             b == q.text
             c == RightBracket
  <2>1. (a \o b \o c) \o r = a \o (b \o (c \o r))
    <3> HIDE DEF a, b, c
    <3> QED OBVIOUS
  <2> QED BY <2>1
<1>2. /\ q.text \in TokenSeqs /\ q.text # <<>> /\ Head(q.text) \in ValueStarts
      /\ RightBracket \o r \in TokenSeqs
  BY TextOf, Punctuation, ConcatOf
<1>3. s \in TokenSeqs /\ (\A y : Starts(s, y) => y \in ValueStarts)
  BY <1>2, StartsLike
<1>4. i = Parsed(q.value, r)
  BY DEF Complete
<1> HIDE DEF s, i
<1>5. ~Starts(s, RBracket)
  BY <1>3, TokensDiffer
<1>6. Starts(t, LBracket) /\ Tail(t) = s
  BY <1>3, Begins
<1>7. parse_value(t, shorter) = parse_array(s, shorter)
  BY <1>6, ValueParsed
<1>8. parse_array(s, shorter) = ArrayOf(i)
  BY <1>5, ArrayParsed DEF i
<1>9. i.ok /\ i.value = q.value /\ i.rest = r
  BY <1>4, ParsedIs
<1>10. ArrayOf(i) = Parsed(v, r)
  BY <1>9, WholeIs
<1> QED BY <1>1, <1>7, <1>8, <1>10

LEMMA ObjectComplete ==
    ASSUME NEW m \in Nat, NEW shorter, Complete(shorter, m), NEW n \in 1 .. Longest, n + 1 <= m,
           NEW q \in FieldTexts(n), NEW r \in TokenSeqs, NEW v, v = JsonObject(q.value)
    PROVE  parse_value((LeftBrace \o q.text \o RightBrace) \o r, shorter) = Parsed(v, r)
<1> DEFINE s == q.text \o (RightBrace \o r)
           t == LeftBrace \o s
           i == shorter.fields[s]
<1>1. (LeftBrace \o q.text \o RightBrace) \o r = t
  <2> DEFINE a == LeftBrace
             b == q.text
             c == RightBrace
  <2>1. (a \o b \o c) \o r = a \o (b \o (c \o r))
    <3> HIDE DEF a, b, c
    <3> QED OBVIOUS
  <2> QED BY <2>1
<1>2. /\ q.text \in TokenSeqs /\ q.text # <<>> /\ Head(q.text) \in Keys
      /\ RightBrace \o r \in TokenSeqs
  BY TextOf, Punctuation, ConcatOf
<1>3. s \in TokenSeqs /\ (\A y : Starts(s, y) => y \in Keys)
  BY <1>2, StartsLike
<1>4. i = Parsed(q.value, r)
  BY DEF Complete
<1> HIDE DEF s, i
<1>5. ~Starts(s, RBrace)
  BY <1>3, TokensDiffer
<1>6. Starts(t, LBrace) /\ Tail(t) = s
  BY <1>3, Begins
<1>7. parse_value(t, shorter) = parse_object(s, shorter)
  BY <1>6, ValueParsed
<1>8. parse_object(s, shorter) = ObjectOf(i)
  BY <1>5, ObjectParsed DEF i
<1>9. i.ok /\ i.value = q.value /\ i.rest = r
  BY <1>4, ParsedIs
<1>10. ObjectOf(i) = Parsed(v, r)
  BY <1>9, WholeIs
<1> QED BY <1>1, <1>7, <1>8, <1>10

LEMMA EmptyComplete ==
    ASSUME NEW shorter, NEW r \in TokenSeqs
    PROVE  /\ parse_value(EmptyArray \o r, shorter) = Parsed(NoArray, r)
           /\ parse_value(EmptyObject \o r, shorter) = Parsed(NoObject, r)
<1>1. EmptyArray \o r = LeftBracket \o (RightBracket \o r)
  <2> DEFINE a == LeftBracket
             c == RightBracket
  <2>1. (a \o c) \o r = a \o (c \o r)
    <3> HIDE DEF a, c
    <3> QED OBVIOUS
  <2> QED BY <2>1, Punctuation
<1>2. EmptyObject \o r = LeftBrace \o (RightBrace \o r)
  <2> DEFINE a == LeftBrace
             c == RightBrace
  <2>1. (a \o c) \o r = a \o (c \o r)
    <3> HIDE DEF a, c
    <3> QED OBVIOUS
  <2> QED BY <2>1, Punctuation
<1> DEFINE x == RightBracket \o r
           y == RightBrace \o r
<1>3. x \in TokenSeqs /\ y \in TokenSeqs
  BY Punctuation, ConcatOf
<1>4. Starts(x, RBracket) /\ Tail(x) = r /\ Starts(y, RBrace) /\ Tail(y) = r
  BY Begins
<1> HIDE DEF x, y
<1>5. /\ Starts(LeftBracket \o x, LBracket) /\ Tail(LeftBracket \o x) = x
      /\ Starts(LeftBrace \o y, LBrace) /\ Tail(LeftBrace \o y) = y
  BY <1>3, Begins
<1>6. /\ parse_value(LeftBracket \o x, shorter) = parse_array(x, shorter)
      /\ parse_value(LeftBrace \o y, shorter) = parse_object(y, shorter)
  BY <1>5, ValueParsed
<1>7. parse_array(x, shorter) = Parsed(NoArray, r) /\ parse_object(y, shorter) = Parsed(NoObject, r)
  BY <1>4, ArrayParsed, ObjectParsed
<1> QED BY <1>1, <1>2, <1>6, <1>7 DEF x, y

LEMMA ValueComplete ==
    ASSUME NEW m \in Nat, NEW shorter, Complete(shorter, m), NEW n \in 1 .. Longest, n <= m + 1,
           NEW q \in ValueTexts(n), NEW r \in TokenSeqs
    PROVE  parse_value(q.text \o r, shorter) = Parsed(q.value, r)
<1>1. n \in 0 .. Longest /\ n \in Nat
  BY TextOf, DerivedIs
<1>2. CASE n = 1 /\ \E t \in Atoms : q = Pair(<<t>>, Atom(t))
  <2>1. PICK t \in Atoms : q = Pair(<<t>>, Atom(t))
    BY <1>2
  <2>2. q.text = <<t>> /\ q.value = Atom(t)
    BY <2>1, PairParts
  <2>3. t \in Tokens
    BY TokensAre
  <2> DEFINE s == <<t>> \o r
  <2>4. s # <<>> /\ Head(s) = t /\ Tail(s) = r
    BY <2>3, StartOf
  <2> HIDE DEF s
  <2>5. parse_value(s, shorter) = Parsed(Atom(t), r)
    BY <2>4, ValueParsed
  <2> QED BY <2>2, <2>5 DEF s
<1>3. CASE q = Pair(EmptyArray, NoArray) \/ q = Pair(EmptyObject, NoObject)
  <2>1. \/ q.text = EmptyArray /\ q.value = NoArray
        \/ q.text = EmptyObject /\ q.value = NoObject
    BY <1>3, PairIs
  <2> QED BY <2>1, EmptyComplete
<1>4. ASSUME n >= 3, NEW w \in ItemTexts(n - 2), q = Pair(LeftBracket \o w.text \o RightBracket, JsonArray(w.value))
      PROVE  parse_value(q.text \o r, shorter) = Parsed(q.value, r)
  <2> DEFINE k == n - 2
  <2>1. k \in 1 .. Longest /\ k + 1 <= m
    BY <1>1, <1>4, DerivedIs
  <2>2. w \in ItemTexts(k)
    OBVIOUS
  <2>3. q.text = LeftBracket \o w.text \o RightBracket /\ q.value = JsonArray(w.value)
    BY <1>4 DEF Pair
  <2> HIDE DEF k
  <2>4. parse_value((LeftBracket \o w.text \o RightBracket) \o r, shorter) = Parsed(q.value, r)
    BY <2>1, <2>2, <2>3, ArrayComplete
  <2> QED BY <2>3, <2>4
<1>6. ASSUME n >= 3, NEW w \in FieldTexts(n - 2), q = Pair(LeftBrace \o w.text \o RightBrace, JsonObject(w.value))
      PROVE  parse_value(q.text \o r, shorter) = Parsed(q.value, r)
  <2> DEFINE k == n - 2
  <2>1. k \in 1 .. Longest /\ k + 1 <= m
    BY <1>1, <1>6, DerivedIs
  <2>2. w \in FieldTexts(k)
    OBVIOUS
  <2>3. q.text = LeftBrace \o w.text \o RightBrace /\ q.value = JsonObject(w.value)
    BY <1>6 DEF Pair
  <2> HIDE DEF k
  <2>4. parse_value((LeftBrace \o w.text \o RightBrace) \o r, shorter) = Parsed(q.value, r)
    BY <2>1, <2>2, <2>3, ObjectComplete
  <2> QED BY <2>3, <2>4
<1>7. \/ n = 1 /\ \E t \in Atoms : q = Pair(<<t>>, Atom(t))
      \/ n = 2 /\ q = Pair(EmptyArray, NoArray)
      \/ n = 2 /\ q = Pair(EmptyObject, NoObject)
      \/ n >= 3 /\ \E w \in ItemTexts(n - 2) : q = Pair(LeftBracket \o w.text \o RightBracket, JsonArray(w.value))
      \/ n >= 3 /\ \E w \in FieldTexts(n - 2) : q = Pair(LeftBrace \o w.text \o RightBrace, JsonObject(w.value))
  BY <1>1, ValueForms DEF NoArray, NoObject
<1> QED BY <1>2, <1>3, <1>4, <1>6, <1>7

LEMMA ItemsComplete ==
    ASSUME NEW m \in Nat, NEW shorter, Complete(shorter, m), NEW n \in 1 .. Longest, n <= m,
           NEW q \in ItemTexts(n), NEW r \in TokenSeqs
    PROVE  parse_comma_separated_value(q.text \o (RightBracket \o r), shorter) = Parsed(q.value, r)
<1> DEFINE d == RightBracket \o r
           t == q.text \o d
<1>1. n \in 0 .. Longest /\ n \in Nat /\ n >= 1
  BY TextOf, DerivedIs
<1>2. d \in TokenSeqs
  BY Punctuation, ConcatOf
<1>3. t \in TokenSeqs /\ (\A y : Starts(t, y) => y \in ValueStarts)
  <2>1. q.text \in TokenSeqs /\ q.text # <<>> /\ Head(q.text) \in ValueStarts
    BY TextOf
  <2> HIDE DEF d
  <2> QED BY <1>2, <2>1, StartsLike
<1>4. ~Starts(t, RBracket)
  <2> HIDE DEF t
  <2> QED BY <1>3, TokensDiffer
<1>5. ASSUME NEW w \in ValueTexts(n), q = Pair(w.text, <<w.value>>)
      PROVE  parse_comma_separated_value(t, shorter) = Parsed(q.value, r)
  <2> DEFINE p == parse_value(t, shorter)
             i == parse_comma_separated_value(t, shorter)
  <2>1. q.text = w.text /\ q.value = <<w.value>>
    BY <1>5 DEF Pair
  <2>2. t = w.text \o d
    BY <2>1
  <2>3. n <= m + 1
    BY <1>1
  <2>4. w.value \in JsonValues
    BY TextOf
  <2> HIDE DEF d
  <2>5. parse_value(w.text \o d, shorter) = Parsed(w.value, d)
    BY <1>2, <2>3, ValueComplete
  <2>6. p.ok /\ p.value = w.value /\ p.rest = d
    BY <2>2, <2>5, ParsedIs
  <2> HIDE DEF t
  <2>7. /\ Starts(d, Separator) => i = InFront(w.value, shorter.items[Tail(d)])
        /\ ~Starts(d, Separator) /\ Starts(d, RBracket) => i = Parsed(<<w.value>>, Tail(d))
    BY <1>4, <2>6, ItemsParsed
  <2>8. Starts(d, RBracket) /\ ~Starts(d, Separator) /\ Tail(d) = r
    BY Begins, TokensDiffer DEF d
  <2> QED BY <2>1, <2>7, <2>8
<1>6. ASSUME NEW k \in 1 .. (n - 2), NEW w \in ValueTexts(k), NEW x \in ItemTexts(n - 1 - k),
             q = Pair(w.text \o Comma \o x.text, <<w.value>> \o x.value)
      PROVE  parse_comma_separated_value(t, shorter) = Parsed(q.value, r)
  <2> DEFINE l == n - 1 - k
             u == x.text \o d
             e == Comma \o u
             p == parse_value(t, shorter)
             i == parse_comma_separated_value(t, shorter)
             j == shorter.items[u]
  <2>1. k \in 1 .. Longest /\ l \in 1 .. Longest /\ l + 1 <= m /\ k <= m + 1
    BY <1>1, DerivedIs
  <2>2. q.text = w.text \o Comma \o x.text /\ q.value = <<w.value>> \o x.value
    BY <1>6 DEF Pair
  <2>3. t = w.text \o e
    <3> DEFINE a == w.text
               b == Comma
               c == x.text
               g == d
    <3>1. (a \o b \o c) \o g = a \o (b \o (c \o g))
      <4> HIDE DEF a, b, c, g
      <4> QED OBVIOUS
    <3> QED BY <2>2, <3>1
  <2>4. x \in ItemTexts(l)
    OBVIOUS
  <2> HIDE DEF l
  <2>5. x.text \in TokenSeqs
    BY <2>1, <2>4, TextOf
  <2>6. j = Parsed(x.value, r)
    BY <2>1, <2>4 DEF Complete
  <2> HIDE DEF d
  <2>7. u \in TokenSeqs
    BY <1>2, <2>5, ConcatOf
  <2>14. j = shorter.items[u]
    OBVIOUS
  <2> HIDE DEF u, j
  <2>8. e \in TokenSeqs /\ Starts(e, Separator) /\ Tail(e) = u
    BY <2>7, Begins, Punctuation, ConcatOf
  <2> HIDE DEF e
  <2>9. parse_value(w.text \o e, shorter) = Parsed(w.value, e)
    BY <2>1, <2>8, ValueComplete
  <2>10. p.ok /\ p.value = w.value /\ p.rest = e
    BY <2>3, <2>9, ParsedIs
  <2> HIDE DEF t
  <2>11. i = InFront(w.value, j)
    BY <1>4, <2>8, <2>10, <2>14, ItemsParsed
  <2> HIDE DEF i
  <2>12. j.ok /\ j.value = x.value /\ j.rest = r
    BY <2>6, ParsedIs
  <2>13. i = Parsed(<<w.value>> \o x.value, r)
    BY <2>11, <2>12, InFrontIs
  <2> QED BY <2>2, <2>13 DEF i
<1> QED BY <1>1, <1>5, <1>6, ItemForms

LEMMA FieldsComplete ==
    ASSUME NEW m \in Nat, NEW shorter, Complete(shorter, m), NEW n \in 1 .. Longest, n <= m,
           NEW q \in FieldTexts(n), NEW r \in TokenSeqs
    PROVE  parse_object_fields(q.text \o (RightBrace \o r), shorter) = Parsed(q.value, r)
<1> DEFINE d == RightBrace \o r
           t == q.text \o d
           i == parse_object_fields(t, shorter)
<1>1. n \in 0 .. Longest /\ n \in Nat /\ n >= 1
  BY TextOf, DerivedIs
<1>2. d \in TokenSeqs /\ Starts(d, RBrace) /\ ~Starts(d, Separator) /\ Tail(d) = r
  BY Punctuation, ConcatOf, Begins, TokensDiffer
<1> HIDE DEF d
<1>3. ASSUME NEW l \in 1 .. Longest, l <= m + 1, NEW k \in Keys, NEW w \in ValueTexts(l), NEW e \in TokenSeqs,
             t = Label(k) \o (w.text \o e)
      PROVE  /\ Starts(e, Separator) => i = InFront(<<k, w.value>>, shorter.fields[Tail(e)])
             /\ ~Starts(e, Separator) /\ Starts(e, RBrace) => i = Parsed(<<<<k, w.value>>>>, Tail(e))
  <2> DEFINE x == w.text \o e
             p == parse_value(Tail(Tail(t)), shorter)
  <2>1. x \in TokenSeqs
    <3>1. w.text \in TokenSeqs
      BY TextOf
    <3> QED BY <3>1, ConcatOf
  <2>2. parse_value(x, shorter) = Parsed(w.value, e)
    BY <1>3, ValueComplete
  <2>3. t = Label(k) \o x
    BY <1>3
  <2> HIDE DEF x, t
  <2>4. t \in TokenSeqs /\ KeyInFront(t) /\ Head(t) = k /\ Tail(Tail(t)) = x
    BY <2>1, <2>3, LabelTaken
  <2>5. p = Parsed(w.value, e)
    BY <2>2, <2>4
  <2>6. p.ok /\ p.value = w.value /\ p.rest = e
    BY <2>5, ParsedIs
  <2> QED BY <2>4, <2>6, FieldsParsed
<1>4. n >= 3
  BY <1>1, FieldForms
<1>5. ASSUME NEW k \in Keys, NEW w \in ValueTexts(n - 2), q = Pair(Label(k) \o w.text, <<<<k, w.value>>>>)
      PROVE  i = Parsed(q.value, r)
  <2> DEFINE l == n - 2
  <2>1. l \in 1 .. Longest /\ l <= m + 1 /\ w \in ValueTexts(l)
    BY <1>1, <1>4, DerivedIs
  <2>2. q.text = Label(k) \o w.text /\ q.value = <<<<k, w.value>>>>
    BY <1>5 DEF Pair
  <2>3. t = Label(k) \o (w.text \o d)
    <3> DEFINE a == Label(k)
               b == w.text
    <3>1. (a \o b) \o d = a \o (b \o d)
      <4> HIDE DEF a, b
      <4> QED OBVIOUS
    <3> QED BY <2>2, <3>1
  <2> HIDE DEF l, t, i
  <2>4. i = Parsed(<<<<k, w.value>>>>, r)
    BY <1>2, <1>3, <2>1, <2>3
  <2> QED BY <2>2, <2>4
<1>6. ASSUME NEW l \in 1 .. (n - 4), NEW k \in Keys, NEW w \in ValueTexts(l), NEW x \in FieldTexts(n - 3 - l),
             q = Pair(Label(k) \o w.text \o Comma \o x.text, <<<<k, w.value>>>> \o x.value)
      PROVE  i = Parsed(q.value, r)
  <2> DEFINE o == n - 3 - l
             u == x.text \o d
             e == Comma \o u
             j == shorter.fields[u]
  <2>1. l \in 1 .. Longest /\ o \in 1 .. Longest /\ o + 1 <= m /\ l <= m + 1
    BY <1>1, <1>4, DerivedIs
  <2>2. q.text = Label(k) \o w.text \o Comma \o x.text /\ q.value = <<<<k, w.value>>>> \o x.value
    BY <1>6 DEF Pair
  <2>3. t = Label(k) \o (w.text \o e)
    <3> DEFINE a == Label(k)
               b == w.text
               c == Comma
               f == x.text
               g == d
    <3>1. (a \o b \o c \o f) \o g = a \o (b \o (c \o (f \o g)))
      <4> HIDE DEF a, b, c, f, g
      <4> QED BY SMTT(60)
    <3> QED BY <2>2, <3>1
  <2>4. x \in FieldTexts(o)
    OBVIOUS
  <2> HIDE DEF o
  <2>5. x.text \in TokenSeqs
    BY <2>1, <2>4, TextOf
  <2>6. j = Parsed(x.value, r)
    BY <2>1, <2>4 DEF Complete, d
  <2>7. u \in TokenSeqs
    BY <1>2, <2>5, ConcatOf
  <2>8. j = shorter.fields[u]
    OBVIOUS
  <2> HIDE DEF u, j
  <2>9. e \in TokenSeqs /\ Starts(e, Separator) /\ Tail(e) = u
    BY <2>7, Begins, Punctuation, ConcatOf
  <2> HIDE DEF e, t, i
  <2>10. i = InFront(<<k, w.value>>, j)
    BY <1>3, <2>1, <2>3, <2>8, <2>9
  <2>11. j.ok /\ j.value = x.value /\ j.rest = r
    BY <2>6, ParsedIs
  <2>12. i = Parsed(<<<<k, w.value>>>> \o x.value, r)
    BY <2>10, <2>11, InFrontIs
  <2> QED BY <2>2, <2>12
<1>7. i = Parsed(q.value, r)
  <2> HIDE DEF i, t
  <2>1. \/ \E k \in Keys : \E w \in ValueTexts(n - 2) : q = Pair(Label(k) \o w.text, <<<<k, w.value>>>>)
        \/ \E l \in 1 .. (n - 4) : \E k \in Keys : \E w \in ValueTexts(l) : \E x \in FieldTexts(n - 3 - l) :
              q = Pair(Label(k) \o w.text \o Comma \o x.text, <<<<k, w.value>>>> \o x.value)
    BY <1>1, FieldForms
  <2>2. CASE \E k \in Keys : \E w \in ValueTexts(n - 2) : q = Pair(Label(k) \o w.text, <<<<k, w.value>>>>)
    BY <1>5, <2>2
  <2>3. CASE \E l \in 1 .. (n - 4) : \E k \in Keys : \E w \in ValueTexts(l) : \E x \in FieldTexts(n - 3 - l) :
                q = Pair(Label(k) \o w.text \o Comma \o x.text, <<<<k, w.value>>>> \o x.value)
    BY <1>6, <2>3
  <2> QED BY <2>1, <2>2, <2>3
<1> QED BY <1>7 DEF i, t, d

LEMMA LevelsComplete ==
    ASSUME NEW n \in Nat, NEW f, ParseLevels(f, n)
    PROVE  \A k \in 0 .. n : Complete(f[k], k)
<1> DEFINE T == {k \in 0 .. n : ~Complete(f[k], k)}
<1>1. SUFFICES ASSUME T # {} PROVE FALSE
  OBVIOUS
<1>2. PICK k \in T : \A l \in T : k <= l
  <2>1. T \subseteq Nat
    OBVIOUS
  <2> HIDE DEF T
  <2> QED BY <1>1, <2>1, LeastElement
<1>3. k \in 0 .. n /\ ~Complete(f[k], k)
  OBVIOUS
<1>4. CASE k = 0
  <2>1. \A i \in 1 .. Longest : ~(i + 1 <= k)
    BY <1>4, DerivedIs
  <2> HIDE DEF T
  <2> QED BY <1>3, <2>1 DEF Complete
<1>5. CASE k # 0
  <2> DEFINE m == k - 1
             shorter == f[m]
  <2>1. m \in 0 .. n /\ m \in Nat /\ k \in 1 .. n /\ ~(k <= m) /\ \A i \in 1 .. Longest : i + 1 <= k => i <= m
    BY <1>3, <1>5, DerivedIs
  <2>2. m \notin T
    BY <1>2, <2>1
  <2>3. Complete(shorter, m)
    BY <2>1, <2>2
  <2>4. \A t \in TokenSeqs : /\ f[k].items[t] = parse_comma_separated_value(t, shorter)
                              /\ f[k].fields[t] = parse_object_fields(t, shorter)
    BY <2>1 DEF ParseLevels
  <2> HIDE DEF T, m, shorter
  <2>6. ASSUME NEW r \in TokenSeqs, NEW i \in 1 .. Longest, i + 1 <= k, NEW q \in ItemTexts(i)
        PROVE  f[k].items[q.text \o (RightBracket \o r)] = Parsed(q.value, r)
    <3> DEFINE t == q.text \o (RightBracket \o r)
    <3>1. t \in TokenSeqs
      <4>1. q.text \in TokenSeqs /\ RightBracket \in TokenSeqs
        BY TextOf, Punctuation
      <4> QED BY <4>1, ConcatOf
    <3>2. parse_comma_separated_value(t, shorter) = Parsed(q.value, r)
      BY <2>1, <2>3, <2>6, ItemsComplete
    <3> HIDE DEF t
    <3>3. f[k].items[t] = Parsed(q.value, r)
      BY <2>4, <3>1, <3>2
    <3> QED BY <3>3 DEF t
  <2>7. ASSUME NEW r \in TokenSeqs, NEW i \in 1 .. Longest, i + 1 <= k, NEW q \in FieldTexts(i)
        PROVE  f[k].fields[q.text \o (RightBrace \o r)] = Parsed(q.value, r)
    <3> DEFINE t == q.text \o (RightBrace \o r)
    <3>1. t \in TokenSeqs
      <4>1. q.text \in TokenSeqs /\ RightBrace \in TokenSeqs
        BY TextOf, Punctuation
      <4> QED BY <4>1, ConcatOf
    <3>2. parse_object_fields(t, shorter) = Parsed(q.value, r)
      BY <2>1, <2>3, <2>7, FieldsComplete
    <3> HIDE DEF t
    <3>3. f[k].fields[t] = Parsed(q.value, r)
      BY <2>4, <3>1, <3>2
    <3> QED BY <3>3 DEF t
  <2>8. Complete(f[k], k)
    BY <2>6, <2>7 DEF Complete
  <2> QED BY <1>3, <2>8
<1> QED BY <1>4, <1>5

(* parse_json returns the value of a text of the grammar.                    *)
LEMMA ParserComplete ==
    ASSUME NEW n \in 1 .. Longest, NEW q \in ValueTexts(n)
    PROVE  parse_json(q.text) = Parsed(q.value, <<>>)
<1> DEFINE t == q.text
           shorter == list_parsers(Len(t))
           p == parse_value(t, shorter)
<1>1. n \in Nat /\ t \in TokenSeqs /\ Len(t) = n
  BY TextOf
<1>2. PICK f : ParseLevels(f, n) /\ list_parsers(n) = f[n]
  BY <1>1, ListParsersAre
<1>3. Complete(shorter, n)
  <2>1. n \in 0 .. n
    BY <1>1
  <2>2. \A k \in 0 .. n : Complete(f[k], k)
    BY <1>1, <1>2, LevelsComplete
  <2> QED BY <1>1, <1>2, <2>1, <2>2
<1> DEFINE none == <<>>
<1>4. none \in TokenSeqs /\ t \o none = t
  BY <1>1, ConcatEmptySeq DEF TokenSeqs
<1>5. n <= n + 1
  BY <1>1
<1>6. p = Parsed(q.value, none)
  <2> HIDE DEF none, shorter
  <2>1. parse_value(q.text \o none, shorter) = Parsed(q.value, none)
    BY <1>1, <1>3, <1>4, <1>5, ValueComplete
  <2> QED BY <1>4, <2>1
<1>7. p.ok /\ p.rest = none
  BY <1>6, ParsedIs
<1>8. parse_json(t) = IF p.ok /\ p.rest = <<>> THEN p ELSE Failure
  BY DEF parse_json
<1> HIDE DEF p, t
<1> QED BY <1>6, <1>7, <1>8 DEF t

-------------------------------------------------------------------------------
(* What is printed of a value.                                               *)
ListEnds(f, texts, n, m) ==
    f = [k \in 1 .. m |-> IF k = 1 THEN texts[n] ELSE texts[n - k + 1] \o Comma \o f[k - 1]]

LEMMA ListEndsExist ==
    ASSUME NEW texts, NEW n \in Nat
    PROVE  \E f : ListEnds(f, texts, n, n)
<1> DEFINE T == {m \in 0 .. n : ~ \E f : ListEnds(f, texts, n, m)}
<1>1. SUFFICES ASSUME T # {} PROVE FALSE
  <2> QED BY DEF T
<1>2. PICK m \in T : \A k \in T : m <= k
  <2>1. T \subseteq Nat
    OBVIOUS
  <2> HIDE DEF T
  <2> QED BY <1>1, <2>1, LeastElement
<1>3. m \in 0 .. n /\ m \in Nat /\ ~ \E f : ListEnds(f, texts, n, m)
  OBVIOUS
<1> DEFINE E(f, k) == IF k = 1 THEN texts[n] ELSE texts[n - k + 1] \o Comma \o f[k - 1]
<1>4. \E f : \A k \in 1 .. (m - 1) : f[k] = E(f, k)
  <2>1. CASE m = 0
    <3>1. 1 .. (m - 1) = {}
      BY <2>1
    <3> QED BY <3>1
  <2>2. CASE m # 0
    <3>1. m - 1 \in 0 .. n /\ m - 1 \notin T
      BY <1>2, <1>3, <2>2
    <3>2. PICK f : ListEnds(f, texts, n, m - 1)
      BY <3>1
    <3>3. f = [k \in 1 .. (m - 1) |-> E(f, k)]
      BY <3>2 DEF ListEnds
    <3> HIDE DEF E
    <3>4. \A k \in 1 .. (m - 1) : f[k] = E(f, k)
      BY <3>3
    <3> QED BY <3>4
  <2> QED BY <2>1, <2>2
<1>5. PICK f : \A k \in 1 .. (m - 1) : f[k] = E(f, k)
  BY <1>4
<1> DEFINE g == [k \in 1 .. m |-> IF k = m THEN E(f, m) ELSE f[k]]
<1>6. (m # 0 => g[m] = E(f, m)) /\ \A k \in 1 .. (m - 1) : g[k] = f[k]
  <2>1. m # 0 => m \in 1 .. m
    BY <1>3
  <2>2. \A k \in 1 .. (m - 1) : k \in 1 .. m /\ k # m
    BY <1>3
  <2> HIDE DEF E
  <2> QED BY <2>1, <2>2
<1>7. \E h : g = [k \in 1 .. m |-> h[k]]
  OBVIOUS
<1> HIDE DEF g, T
<1>8. ASSUME NEW k \in 1 .. m PROVE g[k] = E(g, k)
  <2>1. E(f, k) = E(g, k)
    <3>1. CASE k = 1
      BY <3>1
    <3>2. CASE k # 1
      <4>1. k - 1 \in 1 .. (m - 1)
        BY <1>3, <3>2
      <4>2. g[k - 1] = f[k - 1]
        BY <1>6, <4>1
      <4> QED BY <4>2
    <3> QED BY <3>1, <3>2
  <2>2. m # 0 /\ (k = m \/ k \in 1 .. (m - 1))
    BY <1>3
  <2> HIDE DEF E
  <2> QED BY <1>5, <1>6, <2>1, <2>2
<1>9. g = [k \in 1 .. m |-> E(g, k)]
  <2> HIDE DEF E
  <2> QED BY <1>7, <1>8
<1> QED BY <1>3, <1>9 DEF ListEnds

ListedBy(f, texts, n) ==
    /\ f[1] = texts[n] /\ Listed(texts) = f[n]
    /\ \A k \in 2 .. n : f[k] = texts[n - k + 1] \o (Comma \o f[k - 1])

LEMMA ListedIs ==
    ASSUME NEW texts, NEW n \in Nat, n = Len(texts), n >= 1
    PROVE  \E f : ListedBy(f, texts, n)
<1> DEFINE f == CHOOSE h : h = [k \in 1 .. n |->
                                  IF k = 1 THEN texts[n] ELSE texts[n - k + 1] \o <<",">> \o h[k - 1]]
<1>1. Listed(texts) = f[n]
  <2>1. Listed(texts) = IF n = 0 THEN <<>> ELSE f[n]
    BY DEF Listed
  <2> HIDE DEF f
  <2> QED BY <2>1
<1>2. ListEnds(f, texts, n, n)
  <2>1. \E h : h = [k \in 1 .. n |-> IF k = 1 THEN texts[n] ELSE texts[n - k + 1] \o <<",">> \o h[k - 1]]
    <3> HIDE DEF f
    <3>1. PICK h : ListEnds(h, texts, n, n)
      BY ListEndsExist
    <3>2. h = [k \in 1 .. n |-> IF k = 1 THEN texts[n] ELSE texts[n - k + 1] \o <<",">> \o h[k - 1]]
      BY <3>1 DEF ListEnds, Comma
    <3> QED BY <3>2
  <2>2. f = [k \in 1 .. n |-> IF k = 1 THEN texts[n] ELSE texts[n - k + 1] \o <<",">> \o f[k - 1]]
    BY <2>1
  <2> HIDE DEF f
  <2> QED BY <2>2 DEF ListEnds, Comma
<1> HIDE DEF f
<1>3. f = [k \in 1 .. n |-> IF k = 1 THEN texts[n] ELSE texts[n - k + 1] \o Comma \o f[k - 1]]
  BY <1>2 DEF ListEnds
<1>4. 1 \in 1 .. n
  OBVIOUS
<1>5. f[1] = texts[n]
  BY <1>3, <1>4
<1>6. ASSUME NEW k \in 2 .. n PROVE f[k] = texts[n - k + 1] \o (Comma \o f[k - 1])
  <2>1. k \in 1 .. n /\ k # 1
    OBVIOUS
  <2>2. f[k] = texts[n - k + 1] \o Comma \o f[k - 1]
    BY <1>3, <2>1
  <2> DEFINE a == texts[n - k + 1]
             b == Comma
             c == f[k - 1]
  <2>3. (a \o b) \o c = a \o (b \o c)
    <3> HIDE DEF a, b, c
    <3> QED OBVIOUS
  <2> QED BY <2>2, <2>3
<1> QED BY <1>1, <1>5, <1>6 DEF ListedBy

LEMMA ListedOne == ASSUME NEW texts, Len(texts) = 1 PROVE Listed(texts) = texts[1]
<1>1. 1 \in Nat /\ 1 >= 1
  OBVIOUS
<1> DEFINE n == 1
<1> HIDE DEF n
<1>2. \E f : ListedBy(f, texts, n)
  <2>1. n \in Nat /\ n >= 1 /\ n = Len(texts)
    BY <1>1 DEF n
  <2> QED BY <2>1, ListedIs
<1> QED BY <1>2 DEF n, ListedBy

LEMMA ListedCons ==
    ASSUME NEW texts, NEW more, NEW n \in Nat, n >= 1, Len(texts) = n, Len(more) = n + 1,
           \A i \in 1 .. n : more[i + 1] = texts[i]
    PROVE  Listed(more) = more[1] \o (Comma \o Listed(texts))
<1> DEFINE m == n + 1
<1>1. PICK f : ListedBy(f, texts, n)
  BY ListedIs
<1>2. m \in Nat /\ m >= 1 /\ m = Len(more)
  OBVIOUS
<1>3. PICK g : ListedBy(g, more, m)
  <2> HIDE DEF m
  <2> QED BY <1>2, ListedIs
<1> DEFINE T == {k \in 1 .. n : g[k] # f[k]}
<1>4. T = {}
  <2>1. SUFFICES ASSUME T # {} PROVE FALSE
    OBVIOUS
  <2>2. PICK k \in T : \A l \in T : k <= l
    <3>1. T \subseteq Nat
      OBVIOUS
    <3> HIDE DEF T
    <3> QED BY <2>1, <3>1, LeastElement
  <2>3. k \in 1 .. n /\ g[k] # f[k]
    OBVIOUS
  <2>4. CASE k = 1
    <3>1. n \in 1 .. n
      OBVIOUS
    <3>2. more[n + 1] = texts[n]
      BY <3>1
    <3> QED BY <1>1, <1>3, <2>3, <2>4, <3>2 DEF ListedBy
  <2>5. CASE k # 1
    <3>1. k - 1 \in 1 .. n /\ ~(k <= k - 1) /\ k \in 2 .. n /\ k \in 2 .. m
      BY <2>3, <2>5
    <3>2. g[k - 1] = f[k - 1]
      <4>1. k - 1 \notin T
        BY <2>2, <3>1
      <4> QED BY <3>1, <4>1
    <3>3. n - k + 1 \in 1 .. n /\ (n - k + 1) + 1 = m - k + 1
      BY <2>3
    <3>4. more[m - k + 1] = texts[n - k + 1]
      <4>1. more[(n - k + 1) + 1] = texts[n - k + 1]
        BY <3>3
      <4> QED BY <3>3, <4>1
    <3>5. f[k] = texts[n - k + 1] \o (Comma \o f[k - 1]) /\ g[k] = more[m - k + 1] \o (Comma \o g[k - 1])
      BY <1>1, <1>3, <3>1 DEF ListedBy
    <3> QED BY <2>3, <3>2, <3>4, <3>5
  <2> QED BY <2>4, <2>5
<1>5. g[n] = f[n]
  <2>1. n \in 1 .. n /\ n \notin T
    BY <1>4
  <2> QED BY <2>1
<1>6. m \in 2 .. m /\ m - m + 1 = 1 /\ m - 1 = n
  OBVIOUS
<1>7. g[m] = more[1] \o (Comma \o g[n])
  <2>1. g[m] = more[m - m + 1] \o (Comma \o g[m - 1])
    BY <1>3, <1>6 DEF ListedBy
  <2> QED BY <1>6, <2>1
<1> QED BY <1>1, <1>3, <1>5, <1>7 DEF ListedBy

(* The texts of the items of an array and of the fields of an object.        *)
Shown(vals) == [i \in DOMAIN vals |-> Show(vals[i])]
ShownField(field) == Label(field[1]) \o Show(field[2])
ShownFields(fields) == [i \in DOMAIN fields |-> ShownField(fields[i])]

LEMMA ConsAt ==
    ASSUME NEW S, NEW x \in S, NEW s \in Seq(S)
    PROVE  /\ Len(s) \in Nat /\ Len(<<x>> \o s) = Len(s) + 1 /\ (<<x>> \o s)[1] = x
           /\ \A i \in 1 .. Len(s) : (<<x>> \o s)[i + 1] = s[i]
<1> DEFINE t == <<x>> \o s
           n == Len(s)
<1>1. <<x>> \in Seq(S) /\ Len(<<x>>) = 1 /\ <<x>>[1] = x
  OBVIOUS
<1>2. /\ t \in Seq(S) /\ Len(t) = 1 + n
      /\ \A i \in 1 .. 1 + n : t[i] = IF i <= 1 THEN x ELSE s[i - 1]
  BY <1>1, ConcatProperties
<1>3. n \in Nat
  BY LenProperties
<1> HIDE DEF t, n
<1>4. t[1] = x /\ Len(t) = n + 1
  BY <1>2, <1>3
<1>5. ASSUME NEW i \in 1 .. n PROVE t[i + 1] = s[i]
  <2>1. i + 1 \in 1 .. 1 + n /\ ~(i + 1 <= 1) /\ (i + 1) - 1 = i
    BY <1>3
  <2> QED BY <1>2, <2>1
<1> QED BY <1>3, <1>4, <1>5 DEF t, n

LEMMA ShownIs ==
    ASSUME NEW S, NEW vals \in Seq(S)
    PROVE  /\ Len(Shown(vals)) = Len(vals) /\ \A i \in 1 .. Len(vals) : Shown(vals)[i] = Show(vals[i])
           /\ Len(ShownFields(vals)) = Len(vals)
           /\ \A i \in 1 .. Len(vals) : ShownFields(vals)[i] = ShownField(vals[i])
<1> DEFINE n == Len(vals)
           s == [i \in 1 .. n |-> Show(vals[i])]
           t == [i \in 1 .. n |-> ShownField(vals[i])]
<1>1. n \in Nat /\ DOMAIN vals = 1 .. n
  BY LenProperties
<1>2. Shown(vals) = s /\ ShownFields(vals) = t
  BY <1>1 DEF Shown, ShownFields
<1> HIDE DEF n
<1>3. Len(s) = n /\ Len(t) = n
  BY <1>1
<1> QED BY <1>1, <1>2, <1>3 DEF n

LEMMA ShownOne ==
    ASSUME NEW S, NEW v \in S
    PROVE  Listed(Shown(<<v>>)) = Show(v) /\ Listed(ShownFields(<<v>>)) = ShownField(v)
<1> DEFINE vals == <<v>>
<1>1. vals \in Seq(S) /\ Len(vals) = 1 /\ vals[1] = v /\ 1 \in 1 .. 1
  OBVIOUS
<1> HIDE DEF vals
<1>2. /\ Len(Shown(vals)) = 1 /\ Shown(vals)[1] = Show(v)
      /\ Len(ShownFields(vals)) = 1 /\ ShownFields(vals)[1] = ShownField(v)
  BY <1>1, ShownIs
<1>3. Listed(Shown(vals)) = Show(v) /\ Listed(ShownFields(vals)) = ShownField(v)
  BY <1>2, ListedOne
<1> QED BY <1>3 DEF vals

LEMMA ShownCons ==
    ASSUME NEW S, NEW v \in S, NEW vals \in Seq(S), vals # <<>>
    PROVE  /\ Listed(Shown(<<v>> \o vals)) = Show(v) \o (Comma \o Listed(Shown(vals)))
           /\ Listed(ShownFields(<<v>> \o vals)) = ShownField(v) \o (Comma \o Listed(ShownFields(vals)))
<1> DEFINE more == <<v>> \o vals
           n == Len(vals)
<1>1. /\ n \in Nat /\ Len(more) = n + 1 /\ more[1] = v
      /\ \A i \in 1 .. n : more[i + 1] = vals[i]
  BY ConsAt
<1>2. more \in Seq(S)
  BY ConsIs
<1>3. n >= 1
  <2>1. n # 0
    BY EmptySeq
  <2> HIDE DEF n
  <2> QED BY <1>1, <2>1
<1> HIDE DEF more
<1>4. /\ Len(Shown(more)) = n + 1 /\ \A i \in 1 .. n + 1 : Shown(more)[i] = Show(more[i])
      /\ Len(ShownFields(more)) = n + 1 /\ \A i \in 1 .. n + 1 : ShownFields(more)[i] = ShownField(more[i])
      /\ Len(Shown(vals)) = n /\ \A i \in 1 .. n : Shown(vals)[i] = Show(vals[i])
      /\ Len(ShownFields(vals)) = n /\ \A i \in 1 .. n : ShownFields(vals)[i] = ShownField(vals[i])
  BY <1>1, <1>2, ShownIs
<1> HIDE DEF n
<1>5. 1 \in 1 .. n + 1 /\ \A i \in 1 .. n : i + 1 \in 1 .. n + 1
  BY <1>1
<1>6. /\ Shown(more)[1] = Show(v) /\ ShownFields(more)[1] = ShownField(v)
      /\ \A i \in 1 .. n : Shown(more)[i + 1] = Shown(vals)[i] /\ ShownFields(more)[i + 1] = ShownFields(vals)[i]
  BY <1>1, <1>4, <1>5
<1> DEFINE a == Shown(more)
           b == Shown(vals)
           c == ShownFields(more)
           d == ShownFields(vals)
<1>7. /\ Len(a) = n + 1 /\ Len(b) = n /\ \A i \in 1 .. n : a[i + 1] = b[i]
      /\ Len(c) = n + 1 /\ Len(d) = n /\ \A i \in 1 .. n : c[i + 1] = d[i]
  BY <1>4, <1>6
<1> HIDE DEF a, b, c, d
<1>8. Listed(a) = a[1] \o (Comma \o Listed(b)) /\ Listed(c) = c[1] \o (Comma \o Listed(d))
  BY <1>1, <1>3, <1>7, ListedCons
<1> QED BY <1>6, <1>8 DEF a, b, c, d, more

LEMMA PrintedIs ==
    ASSUME NEW n \in 0 .. Longest, NEW q \in ValueTexts(n)
    PROVE  /\ \A t : q.value = Atom(t) => Show(q.value) = <<t>>
           /\ \A vals : q.value = JsonArray(vals) =>
                 Show(q.value) = LeftBracket \o Listed(Shown(vals)) \o RightBracket
           /\ \A fields : q.value = JsonObject(fields) =>
                 Show(q.value) = LeftBrace \o Listed(ShownFields(fields)) \o RightBrace
<1> DEFINE v == q.value
           parts == [i \in DOMAIN Inner(v) |-> Show(Inner(v)[i])]
<1>1. Show(v) = Printed(v, parts)
  <2>1. q \in Grammar
    BY InJsonValues
  <2> QED BY <2>1, ShowAssumption
<1> HIDE DEF v
<1>2. ASSUME NEW t, v = Atom(t) PROVE Show(v) = <<t>>
  <2>1. v.kind = "Atom" /\ v.body = <<t>>
    BY <1>2 DEF Atom
  <2>2. Printed(v, parts) = v.body
    BY <2>1 DEF Printed
  <2> QED BY <1>1, <2>1, <2>2
<1>3. ASSUME NEW vals, v = JsonArray(vals)
      PROVE  Show(v) = LeftBracket \o Listed(Shown(vals)) \o RightBracket
  <2>1. v.kind = "Array" /\ v.body = vals
    BY <1>3 DEF JsonArray
  <2>2. Inner(v) = vals
    BY <2>1 DEF Inner
  <2>3. parts = Shown(vals)
    BY <2>2 DEF Shown
  <2>4. Printed(v, Shown(vals)) = LeftBracket \o Listed(Shown(vals)) \o RightBracket
    <3> DEFINE s == Shown(vals)
    <3> HIDE DEF s
    <3>1. Printed(v, s) = <<"[">> \o Listed(s) \o <<"]">>
      BY <2>1 DEF Printed
    <3> QED BY <3>1 DEF s, LeftBracket, RightBracket
  <2> QED BY <1>1, <2>3, <2>4
<1>4. ASSUME NEW fields, v = JsonObject(fields)
      PROVE  Show(v) = LeftBrace \o Listed(ShownFields(fields)) \o RightBrace
  <2>1. v.kind = "Object" /\ v.body = fields
    BY <1>4 DEF JsonObject
  <2>2. Inner(v) = [i \in DOMAIN fields |-> fields[i][2]]
    BY <2>1 DEF Inner
  <2>3. parts = [i \in DOMAIN fields |-> Show(fields[i][2])]
    BY <2>2
  <2> DEFINE s == [i \in DOMAIN v.body |-> <<v.body[i][1], ":">> \o parts[i]]
  <2>4. s = ShownFields(fields)
    BY <2>1, <2>3 DEF ShownFields, ShownField, Label
  <2>5. Printed(v, parts) = <<"{">> \o Listed(s) \o <<"}">>
    <3> HIDE DEF parts
    <3> QED BY <2>1 DEF Printed
  <2> HIDE DEF s, parts
  <2> QED BY <1>1, <2>4, <2>5 DEF LeftBrace, RightBrace
<1> QED BY <1>2, <1>3, <1>4 DEF v

LEMMA NothingListed == Listed(Shown(<<>>)) = <<>> /\ Listed(ShownFields(<<>>)) = <<>>
<1> DEFINE e == <<>>
<1>1. Len(e) = 0 /\ DOMAIN e = {}
  OBVIOUS
<1>2. Shown(e) = e /\ ShownFields(e) = e
  BY <1>1 DEF Shown, ShownFields
<1>3. Listed(e) = <<>>
  BY <1>1 DEF Listed
<1> QED BY <1>2, <1>3

(* What is printed of a value of n tokens is a text of n tokens at most of   *)
(* the same value; a comma behind the last item is not printed.              *)
Prints(n) ==
    /\ \A q \in ValueTexts(n) : \E m \in 1 .. n : Pair(Show(q.value), q.value) \in ValueTexts(m)
    /\ \A q \in ItemTexts(n) : \E m \in 1 .. n : Pair(Listed(Shown(q.value)), q.value) \in ItemTexts(m)
    /\ \A q \in FieldTexts(n) : \E m \in 1 .. n : Pair(Listed(ShownFields(q.value)), q.value) \in FieldTexts(m)

LEMMA ValuePrints ==
    ASSUME NEW n \in 1 .. Longest, \A k \in 1 .. (n - 1) : Prints(k), NEW q \in ValueTexts(n)
    PROVE  \E m \in 1 .. n : Pair(Show(q.value), q.value) \in ValueTexts(m)
<1> DEFINE s == Show(q.value)
<1>1. n \in 0 .. Longest /\ n \in Nat
  BY TextOf, DerivedIs
<1>2. CASE n = 1 /\ \E t \in Atoms : q = Pair(<<t>>, Atom(t))
  <2>1. PICK t \in Atoms : q = Pair(<<t>>, Atom(t))
    BY <1>2
  <2>2. q.value = Atom(t)
    BY <2>1 DEF Pair
  <2>3. s = <<t>>
    BY <1>1, <2>2, PrintedIs
  <2>4. 1 \in 0 .. Longest
    BY <1>1, <1>2
  <2>5. Pair(<<t>>, Atom(t)) \in ValueTexts(1)
    BY <2>4, AtomText
  <2>6. 1 \in 1 .. n
    BY <1>2
  <2> HIDE DEF s
  <2>7. Pair(s, q.value) \in ValueTexts(1)
    BY <2>2, <2>3, <2>5
  <2> QED BY <2>6, <2>7 DEF s
<1>3. CASE n = 2 /\ q = Pair(EmptyArray, NoArray)
  <2>1. q.value = NoArray /\ q.value = JsonArray(<<>>)
    BY <1>3 DEF Pair, NoArray
  <2>2. s = LeftBracket \o Listed(Shown(<<>>)) \o RightBracket
    BY <1>1, <2>1, PrintedIs
  <2>3. s = EmptyArray
    <3>1. Listed(Shown(<<>>)) = <<>>
      BY NothingListed
    <3>2. LeftBracket \in TokenSeqs /\ EmptyArray = LeftBracket \o RightBracket
      BY Punctuation
    <3>3. LeftBracket \o <<>> = LeftBracket
      BY <3>2, ConcatEmptySeq DEF TokenSeqs
    <3> HIDE DEF s
    <3> QED BY <2>2, <3>1, <3>2, <3>3
  <2>4. n \in 1 .. n
    BY <1>1, <1>3
  <2> HIDE DEF s
  <2>5. Pair(s, q.value) \in ValueTexts(n)
    BY <1>3, <2>1, <2>3
  <2> QED BY <2>4, <2>5 DEF s
<1>4. CASE n = 2 /\ q = Pair(EmptyObject, NoObject)
  <2>1. q.value = NoObject /\ q.value = JsonObject(<<>>)
    BY <1>4 DEF Pair, NoObject
  <2>2. s = LeftBrace \o Listed(ShownFields(<<>>)) \o RightBrace
    BY <1>1, <2>1, PrintedIs
  <2>3. s = EmptyObject
    <3>1. Listed(ShownFields(<<>>)) = <<>>
      BY NothingListed
    <3>2. LeftBrace \in TokenSeqs /\ EmptyObject = LeftBrace \o RightBrace
      BY Punctuation
    <3>3. LeftBrace \o <<>> = LeftBrace
      BY <3>2, ConcatEmptySeq DEF TokenSeqs
    <3> HIDE DEF s
    <3> QED BY <2>2, <3>1, <3>2, <3>3
  <2>4. n \in 1 .. n
    BY <1>1, <1>4
  <2> HIDE DEF s
  <2>5. Pair(s, q.value) \in ValueTexts(n)
    BY <1>4, <2>1, <2>3
  <2> QED BY <2>4, <2>5 DEF s
<1>5. ASSUME NEW k \in 1 .. (n - 2), NEW w \in ItemTexts(k), q.value = JsonArray(w.value)
      PROVE  \E m \in 1 .. n : Pair(s, q.value) \in ValueTexts(m)
  <2> DEFINE l == Listed(Shown(w.value))
             x == Pair(l, w.value)
  <2>1. k \in 1 .. (n - 1)
    BY <1>1
  <2>2. PICK m \in 1 .. k : x \in ItemTexts(m)
    BY <2>1 DEF Prints
  <2>3. m \in Nat /\ m >= 1 /\ m + 2 <= Longest /\ m + 2 \in 1 .. n
    BY <1>1, <2>1, DerivedIs
  <2>4. x.text = l /\ x.value = w.value
    BY PairParts
  <2>5. s = LeftBracket \o l \o RightBracket
    BY <1>1, <1>5, PrintedIs
  <2> HIDE DEF x, l, s
  <2>6. Pair(LeftBracket \o x.text \o RightBracket, JsonArray(x.value)) \in ValueTexts(m + 2)
    BY <2>2, <2>3, ArrayText
  <2>7. Pair(s, q.value) \in ValueTexts(m + 2)
    BY <1>5, <2>4, <2>5, <2>6
  <2> QED BY <2>3, <2>7
<1>6. ASSUME n >= 3, NEW w \in ItemTexts(n - 2), q = Pair(LeftBracket \o w.text \o RightBracket, JsonArray(w.value))
      PROVE  \E m \in 1 .. n : Pair(s, q.value) \in ValueTexts(m)
  <2>1. n - 2 \in 1 .. (n - 2)
    BY <1>1, <1>6
  <2>2. q.value = JsonArray(w.value)
    BY <1>6 DEF Pair
  <2> HIDE DEF s
  <2> QED BY <1>5, <2>1, <2>2
<1>8. ASSUME n >= 3, NEW w \in FieldTexts(n - 2), q = Pair(LeftBrace \o w.text \o RightBrace, JsonObject(w.value))
      PROVE  \E m \in 1 .. n : Pair(s, q.value) \in ValueTexts(m)
  <2> DEFINE k == n - 2
             l == Listed(ShownFields(w.value))
             x == Pair(l, w.value)
  <2>1. k \in 1 .. (n - 1) /\ w \in FieldTexts(k)
    BY <1>1, <1>8
  <2>9. q.value = JsonObject(w.value)
    BY <1>8 DEF Pair
  <2>2. PICK m \in 1 .. k : x \in FieldTexts(m)
    BY <2>1 DEF Prints
  <2>3. m \in Nat /\ m >= 1 /\ m + 2 <= Longest /\ m + 2 \in 1 .. n
    BY <1>1, <2>1, DerivedIs
  <2>4. x.text = l /\ x.value = w.value
    BY PairParts
  <2>5. s = LeftBrace \o l \o RightBrace
    BY <1>1, <2>9, PrintedIs
  <2> HIDE DEF x, l, s, k
  <2>6. Pair(LeftBrace \o x.text \o RightBrace, JsonObject(x.value)) \in ValueTexts(m + 2)
    BY <2>2, <2>3, ObjectText
  <2>7. Pair(s, q.value) \in ValueTexts(m + 2)
    BY <2>4, <2>5, <2>6, <2>9
  <2> QED BY <2>3, <2>7
<1>9. \/ n = 1 /\ \E t \in Atoms : q = Pair(<<t>>, Atom(t))
      \/ n = 2 /\ q = Pair(EmptyArray, NoArray)
      \/ n = 2 /\ q = Pair(EmptyObject, NoObject)
      \/ n >= 3 /\ \E w \in ItemTexts(n - 2) : q = Pair(LeftBracket \o w.text \o RightBracket, JsonArray(w.value))
      \/ n >= 3 /\ \E w \in FieldTexts(n - 2) : q = Pair(LeftBrace \o w.text \o RightBrace, JsonObject(w.value))
  BY <1>1, ValueForms DEF NoArray, NoObject
<1> HIDE DEF s
<1>10. \E m \in 1 .. n : Pair(s, q.value) \in ValueTexts(m)
  BY <1>2, <1>3, <1>4, <1>6, <1>8, <1>9 DEF s
<1> QED BY <1>10 DEF s

LEMMA ItemsPrint ==
    ASSUME NEW n \in 1 .. Longest, \A k \in 1 .. (n - 1) : Prints(k),
           \A w \in ValueTexts(n) : \E m \in 1 .. n : Pair(Show(w.value), w.value) \in ValueTexts(m),
           NEW q \in ItemTexts(n)
    PROVE  \E m \in 1 .. n : Pair(Listed(Shown(q.value)), q.value) \in ItemTexts(m)
<1> DEFINE s == Listed(Shown(q.value))
<1>1. n \in 0 .. Longest /\ n \in Nat
  BY TextOf, DerivedIs
<1>2. ASSUME NEW w \in ValueTexts(n), q = Pair(w.text, <<w.value>>)
      PROVE  \E m \in 1 .. n : Pair(s, q.value) \in ItemTexts(m)
  <2> DEFINE x == Pair(Show(w.value), w.value)
  <2>1. PICK m \in 1 .. n : x \in ValueTexts(m)
    OBVIOUS
  <2>2. q.value = <<w.value>>
    BY <1>2 DEF Pair
  <2>3. s = Show(w.value)
    <3>1. w.value \in JsonValues
      BY TextOf
    <3>2. Listed(Shown(<<w.value>>)) = Show(w.value)
      BY <3>1, ShownOne
    <3> QED BY <2>2, <3>2
  <2>4. x.text = s /\ x.value = w.value
    BY <2>3 DEF Pair
  <2>5. m \in 0 .. Longest
    BY <1>1, DerivedIs
  <2> HIDE DEF x, s
  <2>6. Pair(x.text, <<x.value>>) \in ItemTexts(m)
    BY <2>1, <2>5, OneItemText
  <2>7. Pair(s, q.value) \in ItemTexts(m)
    BY <2>2, <2>4, <2>6
  <2> QED BY <2>7
<1>3. ASSUME NEW k \in 1 .. (n - 2), NEW w \in ValueTexts(k), NEW x \in ItemTexts(n - 1 - k),
             q = Pair(w.text \o Comma \o x.text, <<w.value>> \o x.value)
      PROVE  \E m \in 1 .. n : Pair(s, q.value) \in ItemTexts(m)
  <2> DEFINE l == n - 1 - k
             y == Pair(Show(w.value), w.value)
             z == Pair(Listed(Shown(x.value)), x.value)
  <2>1. k \in 1 .. (n - 1) /\ l \in 1 .. (n - 1) /\ k \in 1 .. Longest /\ l \in 0 .. Longest /\ k + l + 1 = n
    BY <1>1, DerivedIs
  <2>2. PICK i \in 1 .. k : y \in ValueTexts(i)
    BY <2>1 DEF Prints
  <2>12. x \in ItemTexts(l)
    OBVIOUS
  <2> HIDE DEF l
  <2>3. PICK j \in 1 .. l : z \in ItemTexts(j)
    BY <2>1, <2>12 DEF Prints
  <2>4. /\ i \in Nat /\ i >= 1 /\ j \in Nat /\ j >= 1 /\ i + j + 1 <= Longest
        /\ i + j + 1 \in 1 .. n
    BY <1>1, <2>1, DerivedIs
  <2>5. q.value = <<w.value>> \o x.value
    BY <1>3 DEF Pair
  <2>6. w.value \in JsonValues
    BY <2>1, TextOf
  <2>7. x.value \in Seq(JsonValues) /\ x.value # <<>>
    BY <2>1, <2>12, GrammarTyped DEF TextsTyped
  <2>8. y.text = Show(w.value) /\ y.value = w.value /\ z.text = Listed(Shown(x.value)) /\ z.value = x.value
    BY DEF Pair
  <2> DEFINE v == w.value
             vals == x.value
  <2>9. s = Show(v) \o Comma \o Listed(Shown(vals))
    <3>1. v \in JsonValues /\ vals \in Seq(JsonValues) /\ vals # <<>> /\ q.value = <<v>> \o vals
      BY <2>5, <2>6, <2>7
    <3> HIDE DEF v, vals
    <3>2. Listed(Shown(<<v>> \o vals)) = Show(v) \o (Comma \o Listed(Shown(vals)))
      BY <3>1, ShownCons
    <3> DEFINE a == Show(v)
               b == Comma
               c == Listed(Shown(vals))
    <3>3. a \o (b \o c) = a \o b \o c
      <4> HIDE DEF a, b, c
      <4> QED OBVIOUS
    <3> QED BY <3>1, <3>2, <3>3
  <2> HIDE DEF y, z, s
  <2>10. Pair(y.text \o Comma \o z.text, <<y.value>> \o z.value) \in ItemTexts(i + j + 1)
    BY <2>2, <2>3, <2>4, ItemsText
  <2>11. Pair(s, q.value) \in ItemTexts(i + j + 1)
    BY <2>5, <2>8, <2>9, <2>10
  <2> QED BY <2>4, <2>11
<1> HIDE DEF s
<1>4. \E m \in 1 .. n : Pair(s, q.value) \in ItemTexts(m)
  BY <1>1, <1>2, <1>3, ItemForms
<1> QED BY <1>4 DEF s

LEMMA FieldsPrint ==
    ASSUME NEW n \in 1 .. Longest, \A k \in 1 .. (n - 1) : Prints(k), NEW q \in FieldTexts(n)
    PROVE  \E m \in 1 .. n : Pair(Listed(ShownFields(q.value)), q.value) \in FieldTexts(m)
<1> DEFINE s == Listed(ShownFields(q.value))
<1>1. n \in 0 .. Longest /\ n \in Nat /\ n >= 3
  <2>1. n \in 0 .. Longest /\ n \in Nat
    BY TextOf, DerivedIs
  <2> QED BY <2>1, FieldForms
<1>2. ASSUME NEW k \in Keys, NEW w \in ValueTexts(n - 2), q = Pair(Label(k) \o w.text, <<<<k, w.value>>>>)
      PROVE  \E m \in 1 .. n : Pair(s, q.value) \in FieldTexts(m)
  <2> DEFINE l == n - 2
             field == <<k, w.value>>
             x == Pair(Show(w.value), w.value)
  <2>1. l \in 1 .. (n - 1) /\ l \in 1 .. Longest /\ w \in ValueTexts(l) /\ l + 2 = n
    BY <1>1, DerivedIs
  <2>2. PICK m \in 1 .. l : x \in ValueTexts(m)
    BY <2>1 DEF Prints
  <2>3. q.value = <<field>>
    BY <1>2 DEF Pair
  <2> HIDE DEF l
  <2>4. s = ShownField(field)
    <3>1. w.value \in JsonValues
      BY <2>1, TextOf
    <3>2. field \in Keys \X JsonValues
      BY <3>1
    <3> HIDE DEF field
    <3>3. Listed(ShownFields(<<field>>)) = ShownField(field)
      BY <3>2, ShownOne
    <3> QED BY <2>3, <3>3
  <2>5. ShownField(field) = Label(k) \o Show(w.value)
    BY DEF ShownField
  <2>6. x.text = Show(w.value) /\ x.value = w.value
    BY DEF Pair
  <2>7. m \in Nat /\ m >= 1 /\ m + 2 <= Longest /\ m + 2 \in 1 .. n
    BY <1>1, <2>1, DerivedIs
  <2> HIDE DEF x, s
  <2>8. Pair(Label(k) \o x.text, <<<<k, x.value>>>>) \in FieldTexts(m + 2)
    BY <2>2, <2>7, OneFieldText
  <2>9. Pair(s, q.value) \in FieldTexts(m + 2)
    BY <2>3, <2>4, <2>5, <2>6, <2>8
  <2> QED BY <2>7, <2>9
<1>3. ASSUME NEW h \in 1 .. (n - 4), NEW k \in Keys, NEW w \in ValueTexts(h), NEW x \in FieldTexts(n - 3 - h),
             q = Pair(Label(k) \o w.text \o Comma \o x.text, <<<<k, w.value>>>> \o x.value)
      PROVE  \E m \in 1 .. n : Pair(s, q.value) \in FieldTexts(m)
  <2> DEFINE l == n - 3 - h
             field == <<k, w.value>>
             y == Pair(Show(w.value), w.value)
             z == Pair(Listed(ShownFields(x.value)), x.value)
  <2>1. h \in 1 .. (n - 1) /\ l \in 1 .. (n - 1) /\ h \in 1 .. Longest /\ l \in 0 .. Longest /\ h + l + 3 = n
    BY <1>1, DerivedIs
  <2>2. PICK i \in 1 .. h : y \in ValueTexts(i)
    BY <2>1 DEF Prints
  <2>12. x \in FieldTexts(l)
    OBVIOUS
  <2> HIDE DEF l
  <2>3. PICK j \in 1 .. l : z \in FieldTexts(j)
    BY <2>1, <2>12 DEF Prints
  <2>4. /\ i \in Nat /\ i >= 1 /\ j \in Nat /\ j >= 1 /\ i + j + 3 <= Longest
        /\ i + j + 3 \in 1 .. n
    BY <1>1, <2>1, DerivedIs
  <2>5. q.value = <<field>> \o x.value
    BY <1>3 DEF Pair
  <2>6. field \in Keys \X JsonValues
    <3>1. w.value \in JsonValues
      BY <2>1, TextOf
    <3> QED BY <3>1
  <2>7. x.value \in Seq(Keys \X JsonValues) /\ x.value # <<>>
    BY <2>1, <2>12, GrammarTyped DEF TextsTyped
  <2>8. /\ y.text = Show(w.value) /\ y.value = w.value
        /\ z.text = Listed(ShownFields(x.value)) /\ z.value = x.value
    BY DEF Pair
  <2>13. ShownField(field) = Label(k) \o Show(w.value)
    BY DEF ShownField
  <2> DEFINE fields == x.value
  <2>9. s = Label(k) \o y.text \o Comma \o z.text
    <3> DEFINE S == Keys \X JsonValues
    <3>1. field \in S /\ fields \in Seq(S) /\ fields # <<>> /\ q.value = <<field>> \o fields
      BY <2>5, <2>6, <2>7
    <3> HIDE DEF field, fields, S, y, z
    <3>2. Listed(ShownFields(<<field>> \o fields)) = ShownField(field) \o (Comma \o Listed(ShownFields(fields)))
      BY <3>1, ShownCons
    <3>4. s = (Label(k) \o y.text) \o (Comma \o z.text)
      BY <2>8, <2>13, <3>1, <3>2 DEF fields
    <3> DEFINE a == Label(k) \o y.text
               b == Comma
               c == z.text
    <3>3. a \o (b \o c) = a \o b \o c
      <4> HIDE DEF a, b, c
      <4> QED OBVIOUS
    <3> HIDE DEF s
    <3> QED BY <3>3, <3>4
  <2> HIDE DEF y, z, s
  <2>10. Pair(Label(k) \o y.text \o Comma \o z.text, <<<<k, y.value>>>> \o z.value) \in FieldTexts(i + j + 3)
    BY <2>2, <2>3, <2>4, FieldsText
  <2>11. Pair(s, q.value) \in FieldTexts(i + j + 3)
    BY <2>5, <2>8, <2>9, <2>10
  <2> QED BY <2>4, <2>11
<1> HIDE DEF s
<1>4. \/ \E k \in Keys : \E w \in ValueTexts(n - 2) : q = Pair(Label(k) \o w.text, <<<<k, w.value>>>>)
      \/ \E l \in 1 .. (n - 4) : \E k \in Keys : \E w \in ValueTexts(l) : \E x \in FieldTexts(n - 3 - l) :
            q = Pair(Label(k) \o w.text \o Comma \o x.text, <<<<k, w.value>>>> \o x.value)
  BY <1>1, FieldForms
<1> DEFINE Found == \E m \in 1 .. n : Pair(s, q.value) \in FieldTexts(m)
<1>5. ASSUME NEW k \in Keys, NEW w \in ValueTexts(n - 2), q = Pair(Label(k) \o w.text, <<<<k, w.value>>>>)
      PROVE  Found
  BY <1>2, <1>5
<1>6. ASSUME NEW l \in 1 .. (n - 4), NEW k \in Keys, NEW w \in ValueTexts(l), NEW x \in FieldTexts(n - 3 - l),
             q = Pair(Label(k) \o w.text \o Comma \o x.text, <<<<k, w.value>>>> \o x.value)
      PROVE  Found
  BY <1>3, <1>6
<1> HIDE DEF Found
<1>7. Found
  BY <1>4, <1>5, <1>6
<1> QED BY <1>7 DEF Found, s

LEMMA AllPrint == \A n \in 1 .. Longest : Prints(n)
<1> DEFINE T == {n \in 1 .. Longest : ~Prints(n)}
<1>1. SUFFICES ASSUME T # {} PROVE FALSE
  OBVIOUS
<1>2. PICK n \in T : \A k \in T : n <= k
  <2>1. T \subseteq Nat
    BY DerivedIs
  <2> HIDE DEF T
  <2> QED BY <1>1, <2>1, LeastElement
<1>3. n \in 1 .. Longest /\ ~Prints(n)
  OBVIOUS
<1>4. \A k \in 1 .. (n - 1) : Prints(k)
  <2> SUFFICES ASSUME NEW k \in 1 .. (n - 1) PROVE Prints(k)
    OBVIOUS
  <2>1. k \in 1 .. Longest /\ ~(n <= k)
    BY <1>3, DerivedIs
  <2> QED BY <1>2, <2>1
<1> HIDE DEF T
<1>5. \A q \in ValueTexts(n) : \E m \in 1 .. n : Pair(Show(q.value), q.value) \in ValueTexts(m)
  BY <1>3, <1>4, ValuePrints
<1>6. \A q \in ItemTexts(n) : \E m \in 1 .. n : Pair(Listed(Shown(q.value)), q.value) \in ItemTexts(m)
  BY <1>3, <1>4, <1>5, ItemsPrint
<1>7. \A q \in FieldTexts(n) : \E m \in 1 .. n : Pair(Listed(ShownFields(q.value)), q.value) \in FieldTexts(m)
  BY <1>3, <1>4, FieldsPrint
<1> QED BY <1>3, <1>5, <1>6, <1>7 DEF Prints

-------------------------------------------------------------------------------
(* The texts that the parser is given.                                       *)
LEMMA PartOf ==
    ASSUME NEW t \in TokenSeqs, NEW i \in Nat, NEW j \in Nat, i >= 1, j <= Len(t)
    PROVE  SubSeq(t, i, j) \in TokenSeqs /\ Len(SubSeq(t, i, j)) = IF i <= j THEN j - i + 1 ELSE 0
<1>1. t \in Seq(Tokens) /\ Len(t) \in Nat /\ i \in Int /\ j \in Int
  BY LenProperties DEF TokenSeqs
<1>2. \A k \in i .. j : t[k] \in Tokens
  BY <1>1, ElementOfSeq
<1> QED BY <1>1, <1>2, SubSeqProperties DEF TokenSeqs

LEMMA Removed ==
    ASSUME NEW t \in TokenSeqs, NEW i \in DOMAIN t
    PROVE  RemoveAt(t, i) \in TokenSeqs /\ Len(RemoveAt(t, i)) <= Len(t)
<1> DEFINE n == Len(t)
<1>1. n \in Nat /\ i \in 1 .. n
  BY LenProperties DEF TokenSeqs
<1> DEFINE a == SubSeq(t, 1, i - 1)
           b == SubSeq(t, i + 1, n)
<1>2. i - 1 \in Nat /\ i + 1 \in Nat /\ i - 1 <= n /\ i + 1 >= 1 /\ 1 \in Nat /\ 1 >= 1 /\ n <= n
  BY <1>1
<1>3. a \in TokenSeqs /\ Len(a) = IF 1 <= i - 1 THEN (i - 1) - 1 + 1 ELSE 0
  BY <1>1, <1>2, PartOf
<1>4. b \in TokenSeqs /\ Len(b) = IF i + 1 <= n THEN n - (i + 1) + 1 ELSE 0
  BY <1>1, <1>2, PartOf
<1>5. RemoveAt(t, i) = a \o b
  BY DEF RemoveAt
<1> HIDE DEF a, b, n
<1>6. a \o b \in TokenSeqs /\ Len(a \o b) = Len(a) + Len(b)
  BY <1>3, <1>4, ConcatOf
<1>7. Len(a) + Len(b) <= n
  BY <1>1, <1>3, <1>4
<1> QED BY <1>5, <1>6, <1>7 DEF n

LEMMA Inserted ==
    ASSUME NEW t \in TokenSeqs, NEW i \in 1 .. (Len(t) + 1), NEW token \in Tokens
    PROVE  InsertAt(t, i, token) \in TokenSeqs /\ Len(InsertAt(t, i, token)) <= Len(t) + 1
<1> DEFINE n == Len(t)
<1>1. n \in Nat /\ i \in 1 .. (n + 1)
  BY LenProperties DEF TokenSeqs
<1> DEFINE a == SubSeq(t, 1, i - 1)
           b == SubSeq(t, i, n)
           c == <<token>>
<1>2. i - 1 \in Nat /\ i \in Nat /\ i - 1 <= n /\ i >= 1 /\ 1 \in Nat /\ 1 >= 1 /\ n <= n
  BY <1>1
<1>3. a \in TokenSeqs /\ Len(a) = IF 1 <= i - 1 THEN (i - 1) - 1 + 1 ELSE 0
  BY <1>1, <1>2, PartOf
<1>4. b \in TokenSeqs /\ Len(b) = IF i <= n THEN n - i + 1 ELSE 0
  BY <1>1, <1>2, PartOf
<1>5. c \in TokenSeqs /\ Len(c) = 1
  BY OneToken
<1>6. InsertAt(t, i, token) = (a \o c) \o b
  BY DEF InsertAt
<1> HIDE DEF a, b, c, n
<1>7. a \o c \in TokenSeqs /\ Len(a \o c) = Len(a) + Len(c)
  BY <1>3, <1>5, ConcatOf
<1>8. (a \o c) \o b \in TokenSeqs /\ Len((a \o c) \o b) = Len(a \o c) + Len(b)
  BY <1>4, <1>7, ConcatOf
<1>9. (Len(a) + Len(c)) + Len(b) <= n + 1
  BY <1>1, <1>3, <1>4, <1>5
<1> QED BY <1>6, <1>7, <1>8, <1>9 DEF n

LEMMA Replaced ==
    ASSUME NEW t \in TokenSeqs, NEW i \in DOMAIN t, NEW token \in Tokens
    PROVE  [t EXCEPT ![i] = token] \in TokenSeqs /\ Len([t EXCEPT ![i] = token]) = Len(t)
<1>1. i \in 1 .. Len(t) /\ t \in Seq(Tokens)
  BY LenProperties DEF TokenSeqs
<1> QED BY <1>1, ExceptSeq DEF TokenSeqs

LEMMA SentenceIs ==
    ASSUME NEW t \in Sentences
    PROVE  \E n \in 1 .. Longest : \E q \in ValueTexts(n) : t = q.text /\ t \in TokenSeqs
<1>1. PICK q \in Grammar : t = q.text
  BY DEF Sentences
<1>2. PICK n \in 0 .. Longest : q \in ValueTexts(n)
  BY DEF Grammar, ValueTexts, Longest
<1>3. IsText(q.text, n, ValueStarts)
  BY <1>2, GrammarTyped DEF TextsTyped
<1>4. q.text \in TokenSeqs /\ n >= 1
  BY <1>3 DEF IsText
<1>5. n \in 1 .. Longest
  BY <1>4, DerivedIs
<1> QED BY <1>1, <1>2, <1>4, <1>5

InRoom(t) == t \in TokenSeqs /\ Len(t) <= Longest

LEMMA TextsInRoom == \A t \in Texts : InRoom(t)
<1>1. Longest \in Nat /\ MaxText + 1 = Longest /\ MaxText \in Nat /\ \A l \in Nat : l <= MaxText => l <= Longest /\ l + 1 <= Longest
  <2>1. MaxText \in Nat
    BY TextAssumption
  <2> QED BY <2>1 DEF Longest
<1>2. ASSUME NEW t \in Sentences, Len(t) <= MaxText
      PROVE  t \in TokenSeqs /\ Len(t) \in Nat /\ Len(t) <= Longest /\ Len(t) + 1 <= Longest
  <2>1. t \in TokenSeqs
    BY SentenceIs
  <2>2. Len(t) \in Nat
    BY <2>1, LenProperties DEF TokenSeqs
  <2> QED BY <1>1, <1>2, <2>1, <2>2
<1>3. ASSUME NEW u \in Sentences, Len(u) <= MaxText, NEW t \in NearMisses(u)
      PROVE  InRoom(t)
  <2>1. u \in TokenSeqs /\ Len(u) \in Nat /\ Len(u) <= Longest /\ Len(u) + 1 <= Longest
    BY <1>2, <1>3
  <2>2. CASE \E i \in DOMAIN u : t = RemoveAt(u, i)
    <3>1. t \in TokenSeqs /\ Len(t) <= Len(u)
      BY <2>1, <2>2, Removed
    <3>2. Len(t) \in Nat
      BY <3>1, LenProperties DEF TokenSeqs
    <3> QED BY <1>1, <2>1, <3>1, <3>2 DEF InRoom
  <2>3. CASE \E i \in 1 .. (Len(u) + 1) : \E token \in Tokens : t = InsertAt(u, i, token)
    <3>1. t \in TokenSeqs /\ Len(t) <= Len(u) + 1
      BY <2>1, <2>3, Inserted
    <3>2. Len(t) \in Nat
      BY <3>1, LenProperties DEF TokenSeqs
    <3> QED BY <1>1, <2>1, <3>1, <3>2 DEF InRoom
  <2>4. CASE \E i \in DOMAIN u : \E token \in Tokens : t = [u EXCEPT ![i] = token]
    <3>1. t \in TokenSeqs /\ Len(t) = Len(u)
      BY <2>1, <2>4, Replaced
    <3> QED BY <2>1, <3>1 DEF InRoom
  <2> QED BY <1>3, <2>2, <2>3, <2>4 DEF NearMisses
<1>4. SUFFICES ASSUME NEW t \in Texts PROVE InRoom(t)
  OBVIOUS
<1>5. CASE t \in Sentences /\ Len(t) <= MaxText
  BY <1>2, <1>5 DEF InRoom
<1>6. CASE \E u \in Sentences : Len(u) <= MaxText /\ t \in NearMisses(u)
  BY <1>3, <1>6
<1> QED BY <1>5, <1>6 DEF Texts

(* For every text that has room: parse_json returns the value of one of the  *)
(* grammar, and fails on every other but for a comma in front of a bracket.  *)
LEMMA ParserIs ==
    ASSUME NEW t, InRoom(t)
    PROVE  LET p == parse_json(t)
           IN  /\ IF p.ok THEN Pair(t, p.value) \in Grammar \/ CommaBeforeBracket(t) ELSE t \notin Sentences
               /\ p.ok => parse_json(Show(p.value)) = p
<1> DEFINE p == parse_json(t)
<1>1. ASSUME p.ok
      PROVE  (Pair(t, p.value) \in Grammar \/ CommaBeforeBracket(t)) /\ parse_json(Show(p.value)) = p
  <2>1. PICK n \in 1 .. Longest : \E q \in ValueTexts(n) : Near(t, q.text) /\ p = Parsed(q.value, <<>>)
    BY <1>1, ParserSound DEF InRoom
  <2>5. PICK q \in ValueTexts(n) : Near(t, q.text) /\ p = Parsed(q.value, <<>>)
    BY <2>1
  <2>2. p.value = q.value
    BY <2>5, ParsedIs
  <2>3. n \in 0 .. Longest
    BY TextOf, DerivedIs
  <2>4. q = Pair(q.text, q.value) /\ q \in Grammar
    BY <2>3, GrammarTyped, InJsonValues DEF TextsTyped
  <2>10. Pair(t, p.value) \in Grammar \/ CommaBeforeBracket(t)
    <3>1. t = q.text \/ CommaBeforeBracket(t)
      BY <2>5 DEF Near
    <3> HIDE DEF p
    <3> QED BY <2>2, <2>4, <3>1
  <2> DEFINE s == Show(q.value)
             w == Pair(s, q.value)
  <2>6. PICK m \in 1 .. n : w \in ValueTexts(m)
    BY AllPrint DEF Prints
  <2>7. m \in 1 .. Longest
    BY DerivedIs
  <2>8. w.text = s /\ w.value = q.value
    BY PairParts
  <2> HIDE DEF w, s, p
  <2>9. parse_json(w.text) = Parsed(w.value, <<>>)
    BY <2>6, <2>7, ParserComplete
  <2> QED BY <2>2, <2>5, <2>8, <2>9, <2>10 DEF s
<1>2. ASSUME ~p.ok PROVE t \notin Sentences
  <2>1. SUFFICES ASSUME t \in Sentences PROVE FALSE
    OBVIOUS
  <2>2. PICK n \in 1 .. Longest : \E q \in ValueTexts(n) : t = q.text
    BY <2>1, SentenceIs
  <2>3. PICK q \in ValueTexts(n) : t = q.text
    BY <2>2
  <2>4. p = Parsed(q.value, <<>>)
    BY <2>3, ParserComplete
  <2>5. p.ok
    BY <2>4, ParsedIs
  <2> QED BY <1>2, <2>5
<1> QED BY <1>1, <1>2

LEMMA TextInRoom == TextSpec => [](InRoom(text))
<1>1. TextInit => InRoom(text)
  <2>1. <<>> \in TokenSeqs /\ Len(<<>>) = 0 /\ 0 <= Longest
    BY DerivedIs DEF TokenSeqs
  <2> QED BY <2>1 DEF TextInit, InRoom
<1>2. InRoom(text) /\ [ChooseText]_text => InRoom(text')
  BY TextsInRoom DEF ChooseText
<1>3. InRoom(text) /\ [ChooseText]_text => InRoom(text)'
  BY <1>2 DEF InRoom
<1> QED BY <1>1, <1>3, PTL DEF TextSpec

(* parse_json, on every text of at most MaxText tokens of the grammar and    *)
(* on all that differ from one by a token, returns the value of the text if  *)
(* it is of the grammar, and fails on every other text but those with a      *)
(* comma in front of a closing bracket.                                      *)
THEOREM ParserKeepsToGrammar == TextSpec => []ParserFollowsGrammar
<1>1. InRoom(text) => ParserFollowsGrammar
  BY ParserIs DEF ParserFollowsGrammar
<1> QED BY <1>1, TextInRoom, PTL

(* What to_string prints of a value that was parsed is parsed to the same    *)
(* value.                                                                    *)
THEOREM PrinterIsRead == TextSpec => []ParserReadsPrinter
<1>1. InRoom(text) => ParserReadsPrinter
  BY ParserIs DEF ParserReadsPrinter
<1> QED BY <1>1, TextInRoom, PTL
===============================================================================
