----------------------------- MODULE ListProofs -----------------------------
(***************************************************************************)
(* What Only keeps of a list.  The provers cannot instantiate the library's *)
(* induction theorems, whose parameter is a predicate; here induction is   *)
(* over the set of the numbers, or lists, that have a property.            *)
(***************************************************************************)
EXTENDS Lists, SequencesExt, SequenceTheorems, WellFoundedInduction, TLAPS

\* A set of numbers with 0 and each successor has all numbers: there would be a
\* least one that is missing.
LEMMA SetInduction ==
  ASSUME NEW A \in SUBSET Nat, 0 \in A, \A n \in A : n + 1 \in A
  PROVE  A = Nat
<1> DEFINE T == Nat \ A
<1>1. SUFFICES ASSUME T # {} PROVE FALSE
  OBVIOUS
<1>2. PICK x \in T : \A y \in T : ~ (<<y, x>> \in OpToRel(<, Nat))
  <2>1. T \subseteq Nat
    OBVIOUS
  <2> QED
    BY <1>1, <2>1, WFMin, NatLessThanWellFounded
<1>3. x \in Nat /\ x # 0 /\ x - 1 \in Nat
  OBVIOUS
<1>4. x - 1 \notin A
  <2>1. (x - 1) + 1 = x
    BY <1>3
  <2> QED
    BY <2>1, <1>3
<1>5. <<x - 1, x>> \in OpToRel(<, Nat)
  BY <1>3 DEF OpToRel
<1> QED
  BY <1>2, <1>3, <1>4, <1>5

\* The same of lists, by their last elements.
LEMMA ListInduction ==
  ASSUME NEW S, NEW B \in SUBSET Seq(S), <<>> \in B,
         \A s \in B : \A x \in S : Append(s, x) \in B
  PROVE  B = Seq(S)
<1> DEFINE A == {n \in Nat : \A s \in Seq(S) : Len(s) = n => s \in B}
<1>1. 0 \in A
  OBVIOUS
<1>2. ASSUME NEW n \in A PROVE n + 1 \in A
  <2>1. SUFFICES ASSUME NEW s \in Seq(S), Len(s) = n + 1 PROVE s \in B
    BY <1>2
  <2>2. PICK f \in Seq(S) : Len(f) = n /\ \A i \in 1..n : f[i] = s[i]
    <3>1. SubSeq(s, 1, n) \in Seq(S) /\ Len(SubSeq(s, 1, n)) = n
          /\ \A i \in 1..n : SubSeq(s, 1, n)[i] = s[i]
      BY <2>1, <1>2
    <3> QED
      BY <3>1
  <2>3. f \in B
    BY <1>2, <2>2
  <2>4. s[n + 1] \in S
    BY <2>1, <1>2
  <2>5. PICK g \in Seq(S) : g = Append(f, s[n + 1])
    <3>1. Append(f, s[n + 1]) \in Seq(S)
      BY <2>4
    <3> QED
      BY <3>1
  <2>6. Len(g) = n + 1 /\ \A i \in 1..(n + 1) : g[i] = s[i]
    <3>1. n \in Nat
      BY <1>2
    <3> HIDE DEF A
    <3>2. Len(g) = Len(f) + 1 /\ g[Len(f) + 1] = s[n + 1]
          /\ \A i \in 1..Len(f) : g[i] = f[i]
      BY <2>4, <2>5
    <3>3. \A i \in 1..(n + 1) : i \in 1..n \/ i = n + 1
      BY <3>1
    <3> QED
      BY <3>1, <3>2, <3>3, <2>2
  <2>7. g = s
    BY <2>1, <2>6, SeqEqual
  <2> QED
    BY <2>3, <2>4, <2>5, <2>7
<1>5. A \in SUBSET Nat
  OBVIOUS
<1> HIDE DEF A
<1>3. A = Nat
  BY <1>1, <1>2, <1>5, SetInduction
<1>4. \A s \in Seq(S) : Len(s) \in Nat
  OBVIOUS
<1> QED
  BY <1>3, <1>4 DEF A

-----------------------------------------------------------------------------
\* What Only builds, as far as the first m elements.
Builds(f, m, list, set) ==
    f = [n \in 0..m |->
            IF n = 0 THEN <<>>
            ELSE IF list[n] \in set THEN Append(f[n - 1], list[n])
            ELSE f[n - 1]]

LEMMA BuildsExists ==
  ASSUME NEW list, NEW set, NEW m \in Nat
  PROVE  \E f : Builds(f, m, list, set)
<1> DEFINE A == {k \in Nat : \E f : Builds(f, k, list, set)}
<1>1. 0 \in A
  <2>1. Builds([n \in 0..0 |-> <<>>], 0, list, set)
    BY DEF Builds
  <2> QED
    BY <2>1
<1>2. ASSUME NEW k \in A PROVE k + 1 \in A
  <2>1. k \in Nat
    OBVIOUS
  <2>2. PICK f : Builds(f, k, list, set)
    OBVIOUS
  <2> DEFINE next == IF list[k + 1] \in set THEN Append(f[k], list[k + 1]) ELSE f[k]
             g    == [n \in 0..(k + 1) |-> IF n = k + 1 THEN next ELSE f[n]]
  <2>3. \A n \in 0..k : f[n] = IF n = 0 THEN <<>>
            ELSE IF list[n] \in set THEN Append(f[n - 1], list[n]) ELSE f[n - 1]
    BY <2>2 DEF Builds
  <2>4. \A n \in 0..k : g[n] = f[n]
    BY <2>1
  <2>5. g[k + 1] = next
    BY <2>1
  <2> HIDE DEF next
  <2>6. ASSUME NEW n \in 0..(k + 1)
        PROVE  g[n] = IF n = 0 THEN <<>>
            ELSE IF list[n] \in set THEN Append(g[n - 1], list[n]) ELSE g[n - 1]
    <3>1. CASE n = k + 1
      <4>1. n # 0 /\ n - 1 = k /\ k \in 0..k
        BY <2>1, <3>1
      <4> QED
        BY <2>4, <2>5, <3>1, <4>1 DEF next
    <3>2. CASE n # k + 1
      <4>1. n \in 0..k /\ (n # 0 => n - 1 \in 0..k)
        BY <2>1, <3>2
      <4> QED
        BY <2>3, <2>4, <4>1
    <3> QED
      BY <3>1, <3>2
  <2>7. Builds(g, k + 1, list, set)
    BY <2>6 DEF Builds
  <2> QED
    BY <2>1, <2>7
<1>3. A \in SUBSET Nat
  OBVIOUS
<1> HIDE DEF A
<1>4. A = Nat
  BY <1>1, <1>2, <1>3, SetInduction
<1> QED
  BY <1>4 DEF A

LEMMA BuildsAgree ==
  ASSUME NEW list, NEW other, NEW set, NEW m \in Nat, NEW k \in Nat, m <= k,
         \A i \in 1..m : list[i] = other[i],
         NEW f, Builds(f, m, list, set), NEW g, Builds(g, k, other, set)
  PROVE  f[m] = g[m]
<1> DEFINE A == {j \in Nat : j <= m => f[j] = g[j]}
<1>1. \A n \in 0..m : f[n] = IF n = 0 THEN <<>>
          ELSE IF list[n] \in set THEN Append(f[n - 1], list[n]) ELSE f[n - 1]
  BY DEF Builds
<1>2. \A n \in 0..k : g[n] = IF n = 0 THEN <<>>
          ELSE IF other[n] \in set THEN Append(g[n - 1], other[n]) ELSE g[n - 1]
  BY DEF Builds
<1>3. 0 \in A
  BY <1>1, <1>2
<1>4. ASSUME NEW j \in A PROVE j + 1 \in A
  <2>1. SUFFICES ASSUME j + 1 <= m PROVE f[j + 1] = g[j + 1]
    OBVIOUS
  <2>2. /\ j + 1 \in 1..m /\ j + 1 \in 0..m /\ j + 1 \in 0..k /\ j + 1 # 0 /\ (j + 1) - 1 = j
        /\ j \in Nat /\ j <= m
    BY <2>1
  <2>3. f[j] = g[j]
    BY <2>2
  <2> QED
    BY <1>1, <1>2, <2>2, <2>3
<1>5. A \in SUBSET Nat
  OBVIOUS
<1> HIDE DEF A
<1>6. A = Nat
  BY <1>3, <1>4, <1>5, SetInduction
<1> QED
  BY <1>6 DEF A

LEMMA OnlyBuilt ==
  ASSUME NEW S, NEW list \in Seq(S), NEW set
  PROVE  \E f : Builds(f, Len(list), list, set) /\ Only(list, set) = f[Len(list)]
<1>1. Len(list) \in Nat
  OBVIOUS
<1>2. \E f : Builds(f, Len(list), list, set)
  BY <1>1, BuildsExists
<1> QED
  BY <1>2, Zenon DEF Only, Builds

\* The equations of Only.
LEMMA OnlyEmpty ==
  ASSUME NEW set
  PROVE  Only(<<>>, set) = <<>>
<1>1. <<>> \in Seq({}) /\ Len(<<>>) = 0
  OBVIOUS
<1>2. PICK f : Builds(f, 0, <<>>, set) /\ Only(<<>>, set) = f[0]
  BY <1>1, OnlyBuilt
<1> QED
  BY <1>2 DEF Builds

LEMMA OnlyAppend ==
  ASSUME NEW S, NEW list \in Seq(S), NEW x \in S, NEW set
  PROVE  Only(Append(list, x), set) =
             IF x \in set THEN Append(Only(list, set), x) ELSE Only(list, set)
<1> DEFINE m == Len(list)
<1>1. m \in Nat
  OBVIOUS
<1>2. PICK longer \in Seq(S) : longer = Append(list, x)
  <2>1. Append(list, x) \in Seq(S)
    OBVIOUS
  <2> QED
    BY <2>1
<1>3. Len(longer) = m + 1 /\ longer[m + 1] = x /\ \A i \in 1..m : list[i] = longer[i]
  BY <1>2
<1> HIDE DEF m
<1>4. PICK f : Builds(f, m, list, set) /\ Only(list, set) = f[m]
  BY OnlyBuilt DEF m
<1>5. PICK g : Builds(g, m + 1, longer, set) /\ Only(longer, set) = g[m + 1]
  BY <1>3, OnlyBuilt
<1>6. g[m + 1] = IF x \in set THEN Append(g[m], x) ELSE g[m]
  <2>1. m + 1 \in 0..(m + 1) /\ m + 1 # 0 /\ (m + 1) - 1 = m
    BY <1>1
  <2> QED
    BY <1>3, <1>5, <2>1 DEF Builds
<1>7. f[m] = g[m]
  BY <1>1, <1>3, <1>4, <1>5, BuildsAgree
<1> QED
  BY <1>2, <1>4, <1>5, <1>6, <1>7

-----------------------------------------------------------------------------
\* The elements of a list.
LEMMA ElementsIn ==
  ASSUME NEW S, NEW s \in Seq(S)
  PROVE  ToSet(s) \subseteq S
  BY DEF ToSet

LEMMA ContainsElement ==
  ASSUME NEW S, NEW s \in Seq(S), NEW e
  PROVE  Contains(s, e) <=> e \in ToSet(s)
  BY DEF Contains, ToSet

\* Longer by one.
LEMMA ToSetAppend ==
  ASSUME NEW S, NEW s \in Seq(S), NEW x \in S
  PROVE  ToSet(Append(s, x)) = ToSet(s) \cup {x}
<1>1. PICK t \in Seq(S) : t = Append(s, x)
  <2>1. Append(s, x) \in Seq(S)
    OBVIOUS
  <2> QED
    BY <2>1
<1>2. Len(t) = Len(s) + 1 /\ t[Len(s) + 1] = x /\ \A i \in 1..Len(s) : t[i] = s[i]
  BY <1>1
<1>3. Len(s) \in Nat /\ DOMAIN s = 1..Len(s) /\ DOMAIN t = 1..Len(t)
  OBVIOUS
<1>4. \A i \in 1..Len(t) : i \in 1..Len(s) \/ i = Len(s) + 1
  BY <1>2, <1>3
<1>5. 1..Len(s) \subseteq 1..Len(t) /\ Len(s) + 1 \in 1..Len(t)
  BY <1>2, <1>3
<1> QED
  BY <1>1, <1>2, <1>3, <1>4, <1>5 DEF ToSet

LEMMA ToSetCons ==
  ASSUME NEW S, NEW s \in Seq(S), NEW x \in S
  PROVE  <<x>> \o s \in Seq(S) /\ ToSet(<<x>> \o s) = ToSet(s) \cup {x}
<1>1. <<x>> \in Seq(S) /\ Len(<<x>>) = 1 /\ <<x>>[1] = x
  OBVIOUS
<1>2. PICK t \in Seq(S) : t = <<x>> \o s
  BY <1>1, ConcatProperties
<1>3. Len(t) = 1 + Len(s) /\ \A i \in 1..(1 + Len(s)) :
          t[i] = IF i <= 1 THEN <<x>>[i] ELSE s[i - 1]
  BY <1>1, <1>2, ConcatProperties
<1>4. Len(s) \in Nat /\ DOMAIN s = 1..Len(s) /\ DOMAIN t = 1..Len(t)
  OBVIOUS
<1>5. t[1] = x /\ 1 \in 1..Len(t)
  BY <1>1, <1>3, <1>4
<1>6. \A i \in 1..Len(s) : i + 1 \in 1..Len(t) /\ t[i + 1] = s[i]
  BY <1>3, <1>4
<1>7. \A i \in 1..Len(t) : i = 1 \/ (i - 1 \in 1..Len(s) /\ t[i] = s[i - 1])
  BY <1>3, <1>4
<1>8. ToSet(s) = {s[i] : i \in 1..Len(s)} /\ ToSet(t) = {t[i] : i \in 1..Len(t)}
  BY <1>4 DEF ToSet
<1>9. ToSet(t) \subseteq ToSet(s) \cup {x}
  BY <1>5, <1>7, <1>8
<1>10. ToSet(s) \cup {x} \subseteq ToSet(t)
  BY <1>5, <1>6, <1>8
<1> QED
  BY <1>2, <1>9, <1>10

\* What is kept: the elements in the set, those only.
LEMMA OnlyElements ==
  ASSUME NEW S, NEW list \in Seq(S), NEW set
  PROVE  /\ Only(list, set) \in Seq(S \cap set) /\ Only(list, set) \in Seq(S)
         /\ ToSet(Only(list, set)) = ToSet(list) \cap set
<1> DEFINE P(s) == Only(s, set) \in Seq(S \cap set) /\ ToSet(Only(s, set)) = ToSet(s) \cap set
           B    == {s \in Seq(S) : P(s)}
<1>1. <<>> \in B
  <2>1. ToSet(<<>>) = {} /\ <<>> \in Seq(S \cap set) /\ <<>> \in Seq(S)
    BY DEF ToSet
  <2> QED
    BY <2>1, OnlyEmpty
<1>2. ASSUME NEW s \in B, NEW x \in S PROVE Append(s, x) \in B
  <2>1. s \in Seq(S) /\ P(s) /\ Append(s, x) \in Seq(S)
    OBVIOUS
  <2>2. PICK kept \in Seq(S \cap set) : kept = Only(s, set)
    BY <2>1
  <2>3. CASE x \in set
    <3>1. Only(Append(s, x), set) = Append(kept, x) /\ x \in S \cap set
      BY <2>1, <2>2, <2>3, OnlyAppend
    <3>2. Append(kept, x) \in Seq(S \cap set)
      BY <3>1
    <3>3. ToSet(Append(kept, x)) = ToSet(kept) \cup {x} /\ ToSet(Append(s, x)) = ToSet(s) \cup {x}
      BY <2>1, <3>1, ToSetAppend
    <3> QED
      BY <2>1, <2>2, <2>3, <3>1, <3>2, <3>3
  <2>4. CASE x \notin set
    <3>1. Only(Append(s, x), set) = kept
      BY <2>1, <2>2, <2>4, OnlyAppend
    <3>2. ToSet(Append(s, x)) = ToSet(s) \cup {x}
      BY <2>1, ToSetAppend
    <3> QED
      BY <2>1, <2>2, <2>4, <3>1, <3>2
  <2> QED
    BY <2>3, <2>4
<1>3. B \in SUBSET Seq(S)
  OBVIOUS
<1> HIDE DEF B
<1>4. B = Seq(S)
  BY <1>1, <1>2, <1>3, ListInduction
<1>5. P(list)
  BY <1>4 DEF B
<1>6. S \cap set \subseteq S
  OBVIOUS
<1>7. Only(list, set) \in Seq(S)
  BY <1>5, <1>6, SeqMonotonic
<1> QED
  BY <1>5, <1>7

\* Nothing is lost if everything may stay.
LEMMA OnlyAll ==
  ASSUME NEW S, NEW list \in Seq(S), NEW set, ToSet(list) \subseteq set
  PROVE  Only(list, set) = list
<1> DEFINE B == {s \in Seq(S) : ToSet(s) \subseteq set => Only(s, set) = s}
<1>1. <<>> \in B
  BY OnlyEmpty
<1>2. ASSUME NEW s \in B, NEW x \in S PROVE Append(s, x) \in B
  <2>1. s \in Seq(S) /\ Append(s, x) \in Seq(S)
    OBVIOUS
  <2>2. ToSet(Append(s, x)) = ToSet(s) \cup {x}
    BY <2>1, ToSetAppend
  <2>3. Only(Append(s, x), set) =
            IF x \in set THEN Append(Only(s, set), x) ELSE Only(s, set)
    BY <2>1, OnlyAppend
  <2> QED
    BY <2>1, <2>2, <2>3
<1>3. B \in SUBSET Seq(S)
  OBVIOUS
<1> HIDE DEF B
<1>4. B = Seq(S)
  BY <1>1, <1>2, <1>3, ListInduction
<1> QED
  BY <1>4 DEF B

\* One filter after the other is one.
LEMMA OnlyTwice ==
  ASSUME NEW S, NEW list \in Seq(S), NEW a, NEW b
  PROVE  Only(Only(list, a), b) = Only(list, a \cap b)
<1> DEFINE B == {s \in Seq(S) : Only(Only(s, a), b) = Only(s, a \cap b)}
<1>1. <<>> \in B
  <2>1. <<>> \in Seq(S)
    OBVIOUS
  <2> QED
    BY <2>1, OnlyEmpty
<1>2. ASSUME NEW s \in B, NEW x \in S PROVE Append(s, x) \in B
  <2>1. s \in Seq(S) /\ Append(s, x) \in Seq(S) /\ Only(Only(s, a), b) = Only(s, a \cap b)
    OBVIOUS
  <2>2. Only(Append(s, x), a \cap b) =
            IF x \in a \cap b THEN Append(Only(s, a \cap b), x) ELSE Only(s, a \cap b)
    BY <2>1, OnlyAppend
  <2>3. Only(Append(s, x), a) = IF x \in a THEN Append(Only(s, a), x) ELSE Only(s, a)
    BY <2>1, OnlyAppend
  <2>4. x \in a => Only(Append(Only(s, a), x), b) =
            IF x \in b THEN Append(Only(Only(s, a), b), x) ELSE Only(Only(s, a), b)
    <3>1. Only(s, a) \in Seq(S)
      BY <2>1, OnlyElements
    <3>2. PICK l \in Seq(S) : l = Only(s, a)
      BY <3>1
    <3>3. x \in a => Only(Append(l, x), b) = IF x \in b THEN Append(Only(l, b), x) ELSE Only(l, b)
      BY OnlyAppend
    <3> QED
      BY <3>2, <3>3
  <2>5. Only(Only(Append(s, x), a), b) = Only(Append(s, x), a \cap b)
    <3>1. CASE x \in a /\ x \in b
      BY <2>1, <2>2, <2>3, <2>4, <3>1
    <3>2. CASE x \in a /\ x \notin b
      BY <2>1, <2>2, <2>3, <2>4, <3>2
    <3>3. CASE x \notin a
      BY <2>1, <2>2, <2>3, <3>3
    <3> QED
      BY <3>1, <3>2, <3>3
  <2> QED
    BY <2>1, <2>5
<1>3. B \in SUBSET Seq(S)
  OBVIOUS
<1> HIDE DEF B
<1>4. B = Seq(S)
  BY <1>1, <1>2, <1>3, ListInduction
<1> QED
  BY <1>4 DEF B

\* It depends on the elements of the list which of them are in the set.
LEMMA OnlySame ==
  ASSUME NEW S, NEW list \in Seq(S), NEW a, NEW b, ToSet(list) \cap a = ToSet(list) \cap b
  PROVE  Only(list, a) = Only(list, b)
<1>1. Only(list, ToSet(list)) = list
  BY OnlyAll
<1>2. Only(list, a) = Only(list, ToSet(list) \cap a) /\ Only(list, b) = Only(list, ToSet(list) \cap b)
  BY <1>1, OnlyTwice
<1> QED
  BY <1>2

\* The same of a list with one more element in front.
LEMMA OnlyCons ==
  ASSUME NEW S, NEW list \in Seq(S), NEW x \in S, NEW set
  PROVE  Only(<<x>> \o list, set) =
             IF x \in set THEN <<x>> \o Only(list, set) ELSE Only(list, set)
<1> DEFINE Before(s) == <<x>> \o s
           B == {s \in Seq(S) : Only(Before(s), set) =
                     IF x \in set THEN Before(Only(s, set)) ELSE Only(s, set)}
<1>0. <<x>> \in Seq(S)
  OBVIOUS
<1>1. <<>> \in B
  <2>1. /\ <<>> \in Seq(S) /\ Append(<<>>, x) = <<x>> /\ Before(<<>>) = <<x>>
    OBVIOUS
  <2>2. Only(Append(<<>>, x), set) = IF x \in set THEN Append(Only(<<>>, set), x) ELSE Only(<<>>, set)
    BY <2>1, OnlyAppend
  <2> QED
    BY <2>1, <2>2, OnlyEmpty
<1>2. ASSUME NEW s \in B, NEW y \in S PROVE Append(s, y) \in B
  <2>1. /\ s \in Seq(S) /\ Append(s, y) \in Seq(S)
        /\ Only(Before(s), set) = IF x \in set THEN Before(Only(s, set)) ELSE Only(s, set)
    OBVIOUS
  <2>2. ASSUME NEW R, NEW l \in Seq(R), x \in R, y \in R
        PROVE  Before(Append(l, y)) = Append(Before(l), y)
    <3>1. <<x>> \in Seq(R) /\ <<y>> \in Seq(R)
      BY <2>2
    <3>2. (<<x>> \o l) \o <<y>> = <<x>> \o (l \o <<y>>)
      BY <3>1, ConcatAssociative
    <3>3. \A k \in Seq(R) : Append(k, y) = k \o <<y>>
      BY <2>2, <3>1, AppendIsConcat
    <3>4. <<x>> \o l \in Seq(R)
      BY <3>1, ConcatProperties
    <3> QED
      BY <3>2, <3>3, <3>4
  <2>3. Before(s) \in Seq(S)
    BY <1>0, <2>1, ConcatProperties
  <2>4. Only(Append(Before(s), y), set) =
            IF y \in set THEN Append(Only(Before(s), set), y) ELSE Only(Before(s), set)
    <3>1. PICK l \in Seq(S) : l = Before(s)
      BY <2>3
    <3>2. Only(Append(l, y), set) = IF y \in set THEN Append(Only(l, set), y) ELSE Only(l, set)
      BY OnlyAppend
    <3> QED
      BY <3>1, <3>2
  <2>5. Only(Append(s, y), set) = IF y \in set THEN Append(Only(s, set), y) ELSE Only(s, set)
    BY <2>1, OnlyAppend
  <2>6. Before(Append(s, y)) = Append(Before(s), y)
    BY <2>1, <2>2
  <2>7. Before(Append(Only(s, set), y)) = Append(Before(Only(s, set)), y)
    <3>1. Only(s, set) \in Seq(S)
      BY <2>1, OnlyElements
    <3> QED
      BY <3>1, <2>2
  <2> HIDE DEF Before
  <2>8. Only(Before(Append(s, y)), set) =
            IF x \in set THEN Before(Only(Append(s, y), set)) ELSE Only(Append(s, y), set)
    BY <2>1, <2>4, <2>5, <2>6, <2>7
  <2> QED
    BY <2>1, <2>8
<1>3. B \in SUBSET Seq(S)
  OBVIOUS
<1> HIDE DEF B
<1>4. B = Seq(S)
  BY <1>1, <1>2, <1>3, ListInduction
<1> QED
  BY <1>4 DEF B

\* No element twice: what it takes of a longer list, and what a filter keeps of it.
LEMMA AppendNew ==
  ASSUME NEW S, NEW s \in Seq(S), NEW x \in S
  PROVE  IsInjective(Append(s, x)) <=> IsInjective(s) /\ x \notin ToSet(s)
<1>1. PICK t \in Seq(S) : t = Append(s, x)
  <2>1. Append(s, x) \in Seq(S)
    OBVIOUS
  <2> QED
    BY <2>1
<1>2. Len(t) = Len(s) + 1 /\ t[Len(s) + 1] = x /\ \A i \in 1..Len(s) : t[i] = s[i]
  BY <1>1
<1>3. Len(s) \in Nat /\ DOMAIN s = 1..Len(s) /\ DOMAIN t = 1..Len(t)
  OBVIOUS
<1>4. \A i \in 1..Len(t) : i \in 1..Len(s) \/ i = Len(s) + 1
  BY <1>2, <1>3
<1>5. 1..Len(s) \subseteq 1..Len(t) /\ Len(s) + 1 \in 1..Len(t) /\ Len(s) + 1 \notin 1..Len(s)
  BY <1>2, <1>3
<1>6. IsInjective(t) => IsInjective(s) /\ x \notin ToSet(s)
  BY <1>2, <1>3, <1>5 DEF IsInjective, ToSet
<1>7. IsInjective(s) /\ x \notin ToSet(s) => IsInjective(t)
  BY <1>2, <1>3, <1>4 DEF IsInjective, ToSet
<1> QED
  BY <1>1, <1>6, <1>7

LEMMA ConsNew ==
  ASSUME NEW S, NEW s \in Seq(S), NEW x \in S, IsInjective(s), x \notin ToSet(s)
  PROVE  IsInjective(<<x>> \o s)
<1>1. <<x>> \in Seq(S) /\ Len(<<x>>) = 1 /\ <<x>>[1] = x
  OBVIOUS
<1>2. PICK t \in Seq(S) : t = <<x>> \o s
  BY <1>1, ConcatProperties
<1>3. Len(t) = 1 + Len(s) /\ \A i \in 1..(1 + Len(s)) :
          t[i] = IF i <= 1 THEN <<x>>[i] ELSE s[i - 1]
  BY <1>1, <1>2, ConcatProperties
<1>4. Len(s) \in Nat /\ DOMAIN s = 1..Len(s) /\ DOMAIN t = 1..Len(t)
  OBVIOUS
<1>5. \A i \in 1..Len(t) : IF i = 1 THEN t[i] = x ELSE i - 1 \in 1..Len(s) /\ t[i] = s[i - 1]
  BY <1>1, <1>3, <1>4
<1>6. \A i \in 1..Len(s) : s[i] # x
  BY <1>4 DEF ToSet
<1>7. ASSUME NEW i \in 1..Len(t), NEW j \in 1..Len(t), t[i] = t[j]
      PROVE  i = j
  <2>1. CASE i = 1 \/ j = 1
    BY <1>5, <1>6, <1>7, <2>1
  <2>2. CASE i # 1 /\ j # 1
    <3>1. i - 1 \in 1..Len(s) /\ j - 1 \in 1..Len(s) /\ s[i - 1] = s[j - 1]
      BY <1>5, <1>7, <2>2
    <3>2. i - 1 = j - 1
      BY <1>4, <3>1 DEF IsInjective
    <3> QED
      BY <1>4, <3>2
  <2> QED
    BY <2>1, <2>2
<1> QED
  BY <1>2, <1>4, <1>7 DEF IsInjective

LEMMA OnlyOnce ==
  ASSUME NEW S, NEW list \in Seq(S), NEW set, IsInjective(list)
  PROVE  IsInjective(Only(list, set))
<1> DEFINE B == {s \in Seq(S) : IsInjective(s) => IsInjective(Only(s, set))}
<1>1. <<>> \in B
  BY OnlyEmpty
<1>2. ASSUME NEW s \in B, NEW x \in S PROVE Append(s, x) \in B
  <2>1. /\ s \in Seq(S) /\ Append(s, x) \in Seq(S)
        /\ IsInjective(s) => IsInjective(Only(s, set))
    OBVIOUS
  <2>2. IsInjective(Append(s, x)) => IsInjective(s) /\ x \notin ToSet(s)
    BY <2>1, AppendNew
  <2>3. PICK l \in Seq(S) : l = Only(s, set) /\ ToSet(l) = ToSet(s) \cap set
    BY <2>1, OnlyElements
  <2>4. Only(Append(s, x), set) = IF x \in set THEN Append(l, x) ELSE l
    BY <2>1, <2>3, OnlyAppend
  <2>5. IsInjective(Append(l, x)) <=> IsInjective(l) /\ x \notin ToSet(l)
    BY AppendNew
  <2>6. IsInjective(Append(s, x)) => IsInjective(Only(Append(s, x), set))
    BY <2>1, <2>2, <2>3, <2>4, <2>5
  <2> QED
    BY <2>1, <2>6
<1>3. B \in SUBSET Seq(S)
  OBVIOUS
<1> HIDE DEF B
<1>4. B = Seq(S)
  BY <1>1, <1>2, <1>3, ListInduction
<1> QED
  BY <1>4 DEF B

=============================================================================
