------------------------------ MODULE ListProofs ------------------------------
(***************************************************************************)
(* What Only does, for any list and any set: it keeps the chosen elements, *)
(* each as often as the list has it, and in the order of the list.  The    *)
(* proofs go by the least number at which a claim would fail, since the    *)
(* induction theorems, which take the claim as a parameter, cannot be      *)
(* used.                                                                   *)
(***************************************************************************)
EXTENDS Lists, FiniteSetTheorems, SequenceTheorems, TLAPS

Less == {pair \in Nat \X Nat : pair[1] < pair[2]}

\* A set of numbers that is not empty has a least one.
LEMMA LeastNumber ==
    ASSUME NEW T \in SUBSET Nat, T # {}
    PROVE  \E n \in T : \A m \in T : n <= m
  <1>1. IsWellFoundedOn(Less, Nat)
    BY NatLessThanWellFounded DEF OpToRel, Less
  <1>2. PICK n \in T : \A m \in T : ~(<<m, n>> \in Less)
    BY <1>1, WFMin
  <1>3. ASSUME NEW m \in T PROVE n <= m
    <2>1. <<m, n>> \in Nat \X Nat /\ ~(m < n)
      BY <1>2 DEF Less
    <2> QED BY <2>1
  <1> QED BY <1>3

-----------------------------------------------------------------------------
\* The recursive function of Only, and the first n steps of it.
Grown(list, chosen, before, n) ==
    IF n = 0 THEN <<>>
    ELSE IF list[n] \in chosen THEN Append(before[n - 1], list[n])
    ELSE before[n - 1]

IsOnly(list, chosen, upto, f) == f = [n \in 0 .. upto |-> Grown(list, chosen, f, n)]

Gathered(list, chosen) == CHOOSE f : IsOnly(list, chosen, Len(list), f)

\* There is such a function.
LEMMA OnlyExists ==
    ASSUME NEW list, NEW chosen, NEW n \in Nat
    PROVE  \E f : IsOnly(list, chosen, n, f)
  <1> DEFINE T == {m \in Nat : ~\E f : IsOnly(list, chosen, m, f)}
  <1> SUFFICES ASSUME T # {} PROVE FALSE
    OBVIOUS
  <1>1. PICK m \in T : \A k \in T : m <= k
    BY LeastNumber
  <1>2. CASE m = 0
    <2> DEFINE f == [k \in {0} |-> <<>>]
    <2>1. f = [k \in 0 .. 0 |-> Grown(list, chosen, f, k)]
      BY DEF Grown
    <2> QED BY <1>1, <1>2, <2>1 DEF IsOnly
  <1>3. CASE m # 0
    <2>1. m - 1 \in Nat /\ m - 1 \notin T
      BY <1>1, <1>3
    <2>2. PICK g : g = [k \in 0 .. m - 1 |-> Grown(list, chosen, g, k)]
      BY <2>1 DEF IsOnly
    <2> DEFINE f == [k \in 0 .. m |-> IF k = m THEN Grown(list, chosen, g, m) ELSE g[k]]
    <2>3. \A k \in 0 .. m - 1 : f[k] = g[k]
      BY <1>1
    <2>4. f[m] = Grown(list, chosen, f, m)
      BY <1>1, <1>3, <2>1, <2>3 DEF Grown
    <2>5. ASSUME NEW k \in 0 .. m - 1 PROVE f[k] = Grown(list, chosen, f, k)
      <3>1. g[k] = Grown(list, chosen, g, k)
        BY <2>2
      <3>2. k # 0 => k - 1 \in 0 .. m - 1
        BY <2>1
      <3> HIDE DEF f
      <3> QED BY <2>3, <3>1, <3>2 DEF Grown
    <2>6. f = [k \in 0 .. m |-> Grown(list, chosen, f, k)]
      <3>1. ASSUME NEW k \in 0 .. m PROVE f[k] = Grown(list, chosen, f, k)
        <4>1. k = m \/ k \in 0 .. m - 1
          BY <1>1
        <4> HIDE DEF f
        <4> QED BY <2>4, <2>5, <4>1
      <3>2. f = [k \in 0 .. m |-> f[k]]
        OBVIOUS
      <3> HIDE DEF f
      <3> QED BY <3>1, <3>2
    <2> HIDE DEF f
    <2> QED BY <1>1, <2>6 DEF IsOnly
  <1> QED BY <1>2, <1>3

LEMMA OnlyIsGathered ==
    ASSUME NEW list, NEW chosen
    PROVE  Only(list, chosen) = Gathered(list, chosen)[Len(list)]
  BY DEF Only, Gathered, IsOnly, Grown

LEMMA GatheredSteps ==
    ASSUME NEW list, NEW chosen, Len(list) \in Nat
    PROVE  /\ Gathered(list, chosen)[0] = <<>>
           /\ \A n \in 1 .. Len(list) :
                 Gathered(list, chosen)[n] =
                     IF list[n] \in chosen
                     THEN Append(Gathered(list, chosen)[n - 1], list[n])
                     ELSE Gathered(list, chosen)[n - 1]
  <1> DEFINE f == Gathered(list, chosen)
  <1>1. f = [n \in 0 .. Len(list) |-> Grown(list, chosen, f, n)]
    BY OnlyExists DEF Gathered, IsOnly
  <1>2. \A n \in 0 .. Len(list) : f[n] = Grown(list, chosen, f, n)
    <2> HIDE DEF f
    <2> QED BY <1>1
  <1> HIDE DEF f
  <1>3. f[0] = <<>>
    BY <1>2 DEF Grown
  <1>4. \A n \in 1 .. Len(list) :
           f[n] = IF list[n] \in chosen THEN Append(f[n - 1], list[n]) ELSE f[n - 1]
    BY <1>2 DEF Grown
  <1> QED BY <1>3, <1>4 DEF f

-----------------------------------------------------------------------------
\* What has been gathered after n elements depends on nothing else.
LEMMA GatheredAgree ==
    ASSUME NEW list, NEW chosen, NEW other, NEW wanted,
           Len(list) \in Nat, Len(other) \in Nat,
           NEW n \in Nat, n <= Len(list), n <= Len(other),
           \A i \in 1 .. n : list[i] = other[i] /\ (list[i] \in chosen <=> other[i] \in wanted)
    PROVE  Gathered(list, chosen)[n] = Gathered(other, wanted)[n]
  <1> DEFINE f == Gathered(list, chosen)
             g == Gathered(other, wanted)
             T == {m \in Nat : m <= n /\ f[m] # g[m]}
  <1>1. /\ f[0] = g[0]
        /\ \A m \in 1 .. n : f[m - 1] = g[m - 1] => f[m] = g[m]
    <2>1. /\ f[0] = <<>> /\ g[0] = <<>>
          /\ \A m \in 1 .. Len(list) :
                f[m] = IF list[m] \in chosen THEN Append(f[m - 1], list[m]) ELSE f[m - 1]
          /\ \A m \in 1 .. Len(other) :
                g[m] = IF other[m] \in wanted THEN Append(g[m - 1], other[m]) ELSE g[m - 1]
      BY GatheredSteps
    <2> HIDE DEF f, g
    <2>2. ASSUME NEW m \in 1 .. n, f[m - 1] = g[m - 1]
          PROVE  f[m] = g[m]
      <3>1. m \in 1 .. Len(list) /\ m \in 1 .. Len(other)
        OBVIOUS
      <3>2. list[m] = other[m] /\ (list[m] \in chosen <=> other[m] \in wanted)
        OBVIOUS
      <3> QED BY <2>1, <2>2, <3>1, <3>2
    <2> QED BY <2>1, <2>2
  <1> HIDE DEF f, g
  <1>2. ASSUME T # {} PROVE FALSE
    <2>1. PICK m \in T : \A k \in T : m <= k
      BY <1>2, LeastNumber
    <2>2. m # 0
      BY <1>1, <2>1
    <2>3. m - 1 \in Nat /\ m - 1 <= n /\ m - 1 \notin T /\ m \in 1 .. n
      BY <2>1, <2>2
    <2> QED BY <1>1, <2>1, <2>3
  <1> QED BY <1>2 DEF f, g

\* Lists of the same elements, of which the same are chosen.
LEMMA OnlyAgree ==
    ASSUME NEW list, NEW chosen, NEW wanted, Len(list) \in Nat,
           \A i \in 1 .. Len(list) : list[i] \in chosen <=> list[i] \in wanted
    PROVE  Only(list, chosen) = Only(list, wanted)
  BY GatheredAgree, OnlyIsGathered

LEMMA OnlyEmpty == ASSUME NEW chosen PROVE Only(<<>>, chosen) = <<>>
  BY GatheredSteps, OnlyIsGathered

\* An element more.
LEMMA OnlyAppend ==
    ASSUME NEW S, NEW list \in Seq(S), NEW x \in S, NEW chosen
    PROVE  Only(Append(list, x), chosen) =
               IF x \in chosen THEN Append(Only(list, chosen), x) ELSE Only(list, chosen)
  <1> DEFINE longer == Append(list, x)
             n == Len(list)
  <1>1. /\ longer \in Seq(S) /\ n \in Nat /\ Len(longer) = n + 1 /\ longer[n + 1] = x
        /\ \A i \in 1 .. n : longer[i] = list[i]
    BY AppendProperties, LenProperties
  <1> HIDE DEF longer, n
  <1>2. Gathered(longer, chosen)[n] = Gathered(list, chosen)[n]
    BY <1>1, GatheredAgree DEF n
  <1>3. Gathered(longer, chosen)[n + 1] =
            IF longer[n + 1] \in chosen
            THEN Append(Gathered(longer, chosen)[n], longer[n + 1])
            ELSE Gathered(longer, chosen)[n]
    <2>1. n + 1 \in 1 .. Len(longer) /\ (n + 1) - 1 = n /\ Len(longer) \in Nat
      BY <1>1
    <2> QED BY <2>1, GatheredSteps
  <1> QED BY <1>1, <1>2, <1>3, OnlyIsGathered DEF longer, n

\* The chosen places of a list, in order, are those of what Only returns.
IsPlacing(list, chosen, n, result, place) ==
    /\ place \in [1 .. Len(result) -> {i \in 1 .. n : list[i] \in chosen}]
    /\ \A a, b \in 1 .. Len(result) : a < b => place[a] < place[b]
    /\ \A i \in 1 .. n : list[i] \in chosen => \E a \in 1 .. Len(result) : place[a] = i
    /\ \A a \in 1 .. Len(result) : result[a] = list[place[a]]

LEMMA ChosenIsPlaced ==
    ASSUME NEW S, NEW list \in Seq(S), NEW chosen, NEW m \in 1 .. Len(list),
           NEW old \in Seq(S), NEW place, IsPlacing(list, chosen, m - 1, old, place),
           list[m] \in chosen
    PROVE  \E longer : IsPlacing(list, chosen, m, Append(old, list[m]), longer)
  <1> DEFINE k == Len(old)
             new == Append(old, list[m])
             longer == [a \in 1 .. k + 1 |-> IF a = k + 1 THEN m ELSE place[a]]
  <1>1. list[m] \in S /\ Len(list) \in Nat /\ m \in Nat /\ k \in Nat
    BY ElementOfSeq, LenProperties
  <1>2. /\ Len(new) = k + 1 /\ new[k + 1] = list[m]
        /\ \A a \in 1 .. k : new[a] = old[a]
    BY <1>1, AppendProperties, LenProperties
  <1>3. /\ \A a \in 1 .. k : place[a] \in 1 .. m - 1 /\ list[place[a]] \in chosen
                             /\ old[a] = list[place[a]]
        /\ \A a, b \in 1 .. k : a < b => place[a] < place[b]
        /\ \A i \in 1 .. m - 1 : list[i] \in chosen => \E a \in 1 .. k : place[a] = i
    BY DEF IsPlacing
  <1> HIDE DEF k, new
  <1>4. longer[k + 1] = m /\ \A a \in 1 .. k : longer[a] = place[a]
    BY <1>1
  <1>5. longer \in [1 .. k + 1 -> {i \in 1 .. m : list[i] \in chosen}]
    BY <1>1, <1>2, <1>3
  <1> HIDE DEF longer
  <1>6. ASSUME NEW a \in 1 .. k + 1, NEW b \in 1 .. k + 1, a < b
        PROVE  longer[a] < longer[b]
    <2>1. a \in 1 .. k /\ place[a] \in 1 .. m - 1
      BY <1>1, <1>3, <1>6
    <2>2. CASE b = k + 1
      BY <1>1, <1>4, <2>1, <2>2
    <2>3. CASE b \in 1 .. k
      BY <1>3, <1>4, <1>6, <2>1, <2>3
    <2> QED BY <1>1, <2>2, <2>3
  <1>7. ASSUME NEW i \in 1 .. m, list[i] \in chosen
        PROVE  \E a \in 1 .. k + 1 : longer[a] = i
    <2>1. CASE i = m
      BY <1>1, <1>4, <2>1
    <2>2. CASE i \in 1 .. m - 1
      <3>1. PICK a \in 1 .. k : place[a] = i
        BY <1>3, <1>7, <2>2
      <3> QED BY <1>1, <1>4, <3>1
    <2> QED BY <1>1, <2>1, <2>2
  <1>8. ASSUME NEW a \in 1 .. k + 1 PROVE new[a] = list[longer[a]]
    <2>1. a = k + 1 \/ a \in 1 .. k
      BY <1>1
    <2> QED BY <1>2, <1>3, <1>4, <2>1
  <1>9. IsPlacing(list, chosen, m, new, longer)
    BY <1>2, <1>5, <1>6, <1>7, <1>8 DEF IsPlacing
  <1> QED BY <1>9 DEF new

LEMMA UnchosenIsLeftOut ==
    ASSUME NEW list, NEW chosen, NEW m \in Nat \ {0}, NEW old, NEW place,
           IsPlacing(list, chosen, m - 1, old, place), list[m] \notin chosen
    PROVE  IsPlacing(list, chosen, m, old, place)
  <1>1. \A i \in 1 .. m : list[i] \in chosen => i \in 1 .. m - 1
    OBVIOUS
  <1>2. {i \in 1 .. m - 1 : list[i] \in chosen} = {i \in 1 .. m : list[i] \in chosen}
    BY <1>1
  <1> QED BY <1>1, <1>2 DEF IsPlacing

LEMMA GatheredPlaces ==
    ASSUME NEW S, NEW list \in Seq(S), NEW chosen, NEW n \in 0 .. Len(list)
    PROVE  LET result == Gathered(list, chosen)[n] IN
           /\ result \in Seq(S)
           /\ \E place : IsPlacing(list, chosen, n, result, place)
  <1> DEFINE f == Gathered(list, chosen)
             Placed(m) == f[m] \in Seq(S) /\ \E place : IsPlacing(list, chosen, m, f[m], place)
             T == {m \in Nat : m <= Len(list) /\ ~Placed(m)}
  <1>1. /\ f[0] = <<>>
        /\ \A m \in 1 .. Len(list) :
              f[m] = IF list[m] \in chosen THEN Append(f[m - 1], list[m]) ELSE f[m - 1]
    BY GatheredSteps, LenProperties
  <1> HIDE DEF f
  <1>2. Placed(0)
    <2>1. f[0] \in Seq(S) /\ Len(f[0]) = 0
      BY <1>1
    <2>2. IsPlacing(list, chosen, 0, f[0], [a \in 1 .. 0 |-> 0])
      BY <2>1 DEF IsPlacing
    <2> QED BY <2>1, <2>2
  <1>3. ASSUME NEW m \in 1 .. Len(list), Placed(m - 1) PROVE Placed(m)
    <2>1. PICK place : IsPlacing(list, chosen, m - 1, f[m - 1], place)
      BY <1>3
    <2>2. f[m - 1] \in Seq(S) /\ list[m] \in S /\ m \in Nat \ {0}
      BY <1>3, ElementOfSeq, LenProperties
    <2>3. CASE list[m] \in chosen
      <3>1. f[m] = Append(f[m - 1], list[m])
        BY <1>1, <2>3
      <3>2. Append(f[m - 1], list[m]) \in Seq(S)
        BY <2>2, AppendProperties
      <3>3. \E longer : IsPlacing(list, chosen, m, Append(f[m - 1], list[m]), longer)
        BY <2>1, <2>2, <2>3, ChosenIsPlaced
      <3> QED BY <3>1, <3>2, <3>3
    <2>4. CASE list[m] \notin chosen
      BY <1>1, <2>1, <2>2, <2>4, UnchosenIsLeftOut
    <2> QED BY <2>3, <2>4
  <1> HIDE DEF Placed
  <1>4. ASSUME T # {} PROVE FALSE
    <2>1. PICK m \in T : \A k \in T : m <= k
      BY <1>4, LeastNumber
    <2>2. Len(list) \in Nat /\ m # 0
      BY <1>2, <2>1, LenProperties
    <2>3. m - 1 \in Nat /\ m - 1 <= Len(list) /\ m - 1 \notin T /\ m \in 1 .. Len(list)
      BY <2>1, <2>2
    <2> QED BY <1>3, <2>1, <2>3
  <1>5. Placed(n)
    <2>1. n \in Nat /\ n <= Len(list)
      BY LenProperties
    <2> QED BY <1>4, <2>1
  <1> QED BY <1>5 DEF Placed, f

\* Only keeps the chosen elements, in their order, each as often as it is there.
THEOREM OnlyKeepsOrder ==
    ASSUME NEW S, NEW list \in Seq(S), NEW chosen
    PROVE  /\ Only(list, chosen) \in Seq(S)
           /\ \E place : IsPlacing(list, chosen, Len(list), Only(list, chosen), place)
  <1>1. Len(list) \in 0 .. Len(list)
    BY LenProperties
  <1> QED BY <1>1, GatheredPlaces, OnlyIsGathered

-----------------------------------------------------------------------------
\* Two lists that go up through the same numbers are the same.
Rising(list) == \A a, b \in 1 .. Len(list) : a < b => list[a] < list[b]

LEMMA RisingIsUnique ==
    ASSUME NEW list \in Seq(Nat), NEW other \in Seq(Nat), Rising(list), Rising(other),
           \A i \in Nat : (\E a \in 1 .. Len(list) : list[a] = i)
                             <=> (\E a \in 1 .. Len(other) : other[a] = i)
    PROVE  list = other
  <1>1. /\ Len(list) \in Nat /\ Len(other) \in Nat
        /\ \A a \in 1 .. Len(list) : list[a] \in Nat
        /\ \A a \in 1 .. Len(other) : other[a] \in Nat
    BY ElementOfSeq, LenProperties
  <1> DEFINE T == {n \in Nat \ {0} : (n <= Len(list) \/ n <= Len(other))
                       /\ ~(n <= Len(list) /\ n <= Len(other) /\ list[n] = other[n])}
  <1>2. ASSUME T # {} PROVE FALSE
    <2>1. PICK n \in T : \A m \in T : n <= m
      BY <1>2, LeastNumber
    <2>2. \A m \in 1 .. n - 1 : m <= Len(list) /\ m <= Len(other) /\ list[m] = other[m]
      <3>1. \A m \in 1 .. n - 1 : m \in Nat \ {0} /\ m \notin T
        BY <2>1
      <3> QED BY <1>1, <2>1, <3>1
    <2>3. ASSUME n <= Len(list), n <= Len(other) => list[n] < other[n] PROVE FALSE
      <3> n \in 1 .. Len(list) /\ list[n] \in Nat
        BY <1>1, <2>1, <2>3
      <3>1. PICK a \in 1 .. Len(other) : other[a] = list[n]
        OBVIOUS
      <3>2. CASE a < n
        BY <1>1, <2>1, <2>2, <2>3, <3>1, <3>2 DEF Rising
      <3>3. CASE a = n
        BY <1>1, <2>1, <2>3, <3>1, <3>3
      <3>4. CASE a > n
        BY <1>1, <2>1, <2>3, <3>1, <3>4 DEF Rising
      <3> QED BY <2>1, <3>2, <3>3, <3>4
    <2>4. ASSUME n <= Len(other), n <= Len(list) => other[n] < list[n] PROVE FALSE
      <3> n \in 1 .. Len(other) /\ other[n] \in Nat
        BY <1>1, <2>1, <2>4
      <3>1. PICK a \in 1 .. Len(list) : list[a] = other[n]
        OBVIOUS
      <3>2. CASE a < n
        BY <1>1, <2>1, <2>2, <2>4, <3>1, <3>2 DEF Rising
      <3>3. CASE a = n
        BY <1>1, <2>1, <2>4, <3>1, <3>3
      <3>4. CASE a > n
        BY <1>1, <2>1, <2>4, <3>1, <3>4 DEF Rising
      <3> QED BY <2>1, <3>2, <3>3, <3>4
    <2> QED BY <1>1, <2>1, <2>3, <2>4
  <1>3. \A n \in Nat \ {0} : (n <= Len(list) <=> n <= Len(other))
                             /\ (n <= Len(list) => list[n] = other[n])
    BY <1>2
  <1>4. Len(list) = Len(other)
    <2>1. Len(list) <= Len(other)
      BY <1>1, <1>3
    <2>2. Len(other) <= Len(list)
      BY <1>1, <1>3
    <2> QED BY <1>1, <2>1, <2>2
  <1>5. \A n \in 1 .. Len(list) : list[n] = other[n]
    BY <1>1, <1>3
  <1> QED BY <1>4, <1>5, SeqEqual

\* The list of all numbers up to n, of which Only makes a rising list.
LEMMA OnlyOfNumbers ==
    ASSUME NEW n \in Nat, NEW chosen
    PROVE  LET result == Only([i \in 1 .. n |-> i], chosen) IN
           /\ result \in Seq(1 .. n)
           /\ Rising(result)
           /\ \A i \in 1 .. n : i \in chosen <=> \E a \in 1 .. Len(result) : result[a] = i
  <1> DEFINE list == [i \in 1 .. n |-> i]
             result == Only(list, chosen)
  <1>1. list \in Seq(1 .. n) /\ Len(list) = n /\ \A i \in 1 .. n : list[i] = i
    OBVIOUS
  <1> HIDE DEF list
  <1>2. PICK place : IsPlacing(list, chosen, n, result, place)
    BY <1>1, OnlyKeepsOrder
  <1>3. result \in Seq(1 .. n) /\ Len(result) \in Nat
    BY <1>1, OnlyKeepsOrder, LenProperties
  <1> HIDE DEF result
  <1>4. /\ \A a \in 1 .. Len(result) :
              place[a] \in 1 .. n /\ result[a] = place[a] /\ place[a] \in chosen
        /\ \A i \in 1 .. n : i \in chosen => \E a \in 1 .. Len(result) : place[a] = i
    BY <1>1, <1>2 DEF IsPlacing
  <1>5. Rising(result)
    BY <1>2, <1>4 DEF IsPlacing, Rising
  <1> QED BY <1>3, <1>4, <1>5 DEF result, list
=============================================================================
