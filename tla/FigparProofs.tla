---- MODULE FigparProofs ----
\* Theorems about FigparLexer, for files of every length over every alphabet,
\* every choice of options and every table of directives.
EXTENDS FigparLexer, FiniteSetTheorems, WellFoundedInduction, TLAPS

-----------------------------------------------------------------------------
\* Folds over sequences.  What is said of all prefixes is proved by induction on
\* their length, in sets of numbers: a set that holds 0 and with each number the
\* next one holds them all.
LEMMA Induction ==
  ASSUME NEW S, 0 \in S, \A n \in Nat : n \in S => n + 1 \in S
  PROVE  \A n \in Nat : n \in S
<1> SUFFICES ASSUME \E n \in Nat : n \notin S PROVE FALSE
  OBVIOUS
<1> DEFINE T == Nat \ S
<1>1. T \subseteq Nat /\ T # {}
  OBVIOUS
<1>2. PICK m \in T : \A y \in T : ~ (<<y, m>> \in OpToRel(<, Nat))
  BY <1>1, NatLessThanWellFounded, WFMin, Zenon
<1>3. m \in Nat /\ m \notin S /\ m # 0
  OBVIOUS
<1>4. m - 1 \in Nat /\ m - 1 < m /\ (m - 1) + 1 = m
  BY <1>3
<1>5. m - 1 \in T
  BY <1>3, <1>4
<1>6. <<m - 1, m>> \in OpToRel(<, Nat)
  BY <1>3, <1>4 DEF OpToRel
<1>. QED
  BY <1>2, <1>5, <1>6

\* The greatest of some numbers.
LEMMA Greatest ==
  ASSUME NEW n \in Nat, NEW s \in SUBSET (1 .. n), s # {}
  PROVE  Max(s) \in s /\ \A y \in s : Max(s) >= y
<1> DEFINE S == {m \in Nat : \A t \in SUBSET (1 .. m) : t # {} => \E x \in t : \A y \in t : x >= y}
<1>1. 0 \in S
  <2>1. \A t \in SUBSET (1 .. 0) : t = {}
    OBVIOUS
  <2>. QED
    BY <2>1
<1>2. ASSUME NEW m \in Nat, m \in S PROVE m + 1 \in S
  <2> SUFFICES ASSUME NEW t \in SUBSET (1 .. m + 1), t # {} PROVE \E x \in t : \A y \in t : x >= y
    OBVIOUS
  <2>1. CASE m + 1 \in t
    BY <2>1
  <2>2. CASE m + 1 \notin t
    BY <1>2, <2>2
  <2>. QED
    BY <2>1, <2>2
<1> HIDE DEF S
<1>3. n \in S
  BY <1>1, <1>2, Induction
<1>. QED
  BY <1>3 DEF S, Max

LEMMA GreatestOfAll ==
  ASSUME NEW n \in Nat \ {0}
  PROVE  Max(1 .. n) = n
<1>1. n \in Nat /\ 1 .. n \in SUBSET (1 .. n) /\ 1 .. n # {}
  OBVIOUS
<1>2. Max(1 .. n) \in 1 .. n /\ \A y \in 1 .. n : Max(1 .. n) >= y
  BY <1>1, Greatest, Zenon
<1>. QED
  BY <1>2

\* The function a fold is calculated by exists: every set is made from the one
\* without its greatest element.
IsFold(f, n, V, base, G) ==
  /\ f \in [SUBSET (1 .. n) -> V]
  /\ \A s \in SUBSET (1 .. n) : f[s] = IF s = {} THEN base ELSE G[<<f[s \ {Max(s)}], Max(s)>>]
LEMMA FoldExists ==
  ASSUME NEW n \in Nat, NEW V, NEW base \in V, NEW G \in [V \X (1 .. n) -> V]
  PROVE  \E f : IsFold(f, n, V, base, G)
<1> DEFINE Good(m, f) == \A s \in SUBSET (1 .. m) :
              f[s] = IF s = {} THEN base ELSE G[<<f[s \ {Max(s)}], Max(s)>>]
           Has(m) == \E f \in [SUBSET (1 .. m) -> V] : Good(m, f)
           S == {m \in Nat : m <= n => Has(m)}
<1>1. 0 \in S
  <2> DEFINE f == [s \in SUBSET (1 .. 0) |-> base]
  <2>1. f \in [SUBSET (1 .. 0) -> V] /\ Good(0, f)
    OBVIOUS
  <2>. QED
    BY <2>1
<1>2. ASSUME NEW m \in Nat, m \in S PROVE m + 1 \in S
  <2> SUFFICES ASSUME m + 1 <= n PROVE Has(m + 1)
    <3> HIDE DEF Has
    <3>. QED
      OBVIOUS
  <2>0. Has(m)
    <3> HIDE DEF Has
    <3>. QED
      BY <1>2
  <2>1. PICK f \in [SUBSET (1 .. m) -> V] : Good(m, f)
    BY <2>0, Zenon
  <2> DEFINE g == [s \in SUBSET (1 .. m + 1) |->
                     IF m + 1 \in s THEN G[<<f[s \ {m + 1}], m + 1>>] ELSE f[s]]
  <2>2. ASSUME NEW s \in SUBSET (1 .. m + 1), m + 1 \in s
        PROVE  /\ s # {} /\ Max(s) = m + 1 /\ g[s] \in V
               /\ g[s] = G[<<g[s \ {Max(s)}], Max(s)>>]
    <3>0. m + 1 \in Nat /\ s # {}
      BY <2>2
    <3>1. Max(s) \in s /\ \A y \in s : Max(s) >= y
      BY <3>0, Greatest, Zenon
    <3>2. Max(s) = m + 1
      <4>1. Max(s) \in 1 .. m + 1 /\ Max(s) >= m + 1
        BY <2>2, <3>1
      <4>. QED
        BY <4>1
    <3>3. s \ {m + 1} \in SUBSET (1 .. m) /\ s \ {m + 1} \in SUBSET (1 .. m + 1)
      OBVIOUS
    <3>4. g[s \ {m + 1}] = f[s \ {m + 1}] /\ f[s \ {m + 1}] \in V
      BY <3>3
    <3>5. g[s] = G[<<f[s \ {m + 1}], m + 1>>]
      BY <2>2
    <3>6. G[<<f[s \ {m + 1}], m + 1>>] \in V
      BY <3>4, m + 1 \in 1 .. n
    <3>. QED
      BY <2>2, <3>2, <3>4, <3>5, <3>6
  <2>3. ASSUME NEW s \in SUBSET (1 .. m + 1), m + 1 \notin s
        PROVE  /\ g[s] \in V
               /\ g[s] = IF s = {} THEN base ELSE G[<<g[s \ {Max(s)}], Max(s)>>]
    <3>1. s \in SUBSET (1 .. m) /\ g[s] = f[s]
      BY <2>3
    <3>2. f[s] \in V /\ f[s] = IF s = {} THEN base ELSE G[<<f[s \ {Max(s)}], Max(s)>>]
      BY <2>1, <3>1
    <3>3. s \ {Max(s)} \in SUBSET (1 .. m) /\ m + 1 \notin s \ {Max(s)}
      <4>1. \A y : s \ {y} \in SUBSET (1 .. m) /\ m + 1 \notin s \ {y}
        BY <2>3, <3>1
      <4>. QED
        BY <4>1, Zenon
    <3>4. g[s \ {Max(s)}] = f[s \ {Max(s)}]
      BY <3>3
    <3>. QED
      BY <3>1, <3>2, <3>4
  <2>4. g \in [SUBSET (1 .. m + 1) -> V]
    <3>1. \A s \in SUBSET (1 .. m + 1) : g[s] \in V
      BY <2>2, <2>3
    <3>2. DOMAIN g = SUBSET (1 .. m + 1)
      OBVIOUS
    <3>3. g = [s \in SUBSET (1 .. m + 1) |-> g[s]]
      OBVIOUS
    <3> HIDE DEF g
    <3>. QED
      BY <3>1, <3>3
  <2>5. Good(m + 1, g)
    <3> HIDE DEF g
    <3>. QED
      BY <2>2, <2>3
  <2>. QED
    BY <2>4, <2>5, Zenon
<1> HIDE DEF S
<1>3. n \in S
  BY <1>1, <1>2, Induction
<1>4. Has(n)
  <2> HIDE DEF Has
  <2>. QED
    BY <1>3 DEF S
<1>. QED
  BY <1>4, Zenon DEF IsFold

\* The sets of a fold over a sequence are those of the first places.
LEMMA FirstPlaces ==
  ASSUME NEW n \in Nat, NEW k \in 1 .. n
  PROVE  /\ 1 .. k \in SUBSET (1 .. n) /\ 1 .. k # {} /\ Max(1 .. k) = k
         /\ (1 .. k) \ {Max(1 .. k)} = 1 .. k - 1
<1>1. k \in Nat \ {0}
  OBVIOUS
<1>2. Max(1 .. k) = k
  BY <1>1, GreatestOfAll
<1>3. (1 .. k) \ {k} = 1 .. k - 1
  BY <1>1
<1>4. 1 .. k \in SUBSET (1 .. n) /\ 1 .. k # {}
  BY <1>1
<1>5. (1 .. k) \ {Max(1 .. k)} = 1 .. k - 1
  BY <1>2, <1>3
<1>. QED
  BY <1>2, <1>4, <1>5

-----------------------------------------------------------------------------
\* replaceall() of the escaped quotes adds a backslash for each that strcount()
\* counts, and no more.
Texts == Seq(Characters \cup {"\\"})
WithQuote(out, c) ==
  IF c = "\"" /\ out # <<>> /\ Last(out) = "\\" THEN out \o <<"\\", c>> ELSE Append(out, c)
QuoteStep(text, f, s) == IF s = {} THEN <<>> ELSE WithQuote(f[s \ {Max(s)}], text[Max(s)])

LEMMA WithQuoteIsText ==
  ASSUME NEW out \in Texts, NEW c \in Characters
  PROVE  /\ WithQuote(out, c) \in Texts /\ Last(WithQuote(out, c)) = c
         /\ WithQuote(out, c) # <<>>
         /\ Len(WithQuote(out, c)) =
              Len(out) + IF c = "\"" /\ out # <<>> /\ Last(out) = "\\" THEN 2 ELSE 1
<1>1. out \o <<"\\", c>> \in Texts /\ Append(out, c) \in Texts
  BY DEF Texts
<1>2. Len(out \o <<"\\", c>>) = Len(out) + 2 /\ Last(out \o <<"\\", c>>) = c
  BY DEF Texts, Last
<1>3. Len(Append(out, c)) = Len(out) + 1 /\ Last(Append(out, c)) = c
  BY DEF Texts, Last
<1> DEFINE both == c = "\"" /\ out # <<>> /\ Last(out) = "\\"
<1>4. ASSUME NEW u \in Texts, u = <<>> PROVE Len(u) = 0
  BY <1>4
<1>5. Len(out) \in Nat
  BY DEF Texts
<1>6. CASE both
  <2>1. WithQuote(out, c) = out \o <<"\\", c>>
    BY <1>6 DEF WithQuote
  <2>2. WithQuote(out, c) # <<>>
    BY <1>1, <1>2, <1>4, <1>5, <2>1
  <2>3. Len(WithQuote(out, c)) = Len(out) + 2
    BY <1>2, <2>1
  <2> HIDE DEF both
  <2>4. Len(WithQuote(out, c)) = Len(out) + IF both THEN 2 ELSE 1
    BY <1>6, <2>3
  <2>. QED
    BY <1>1, <1>2, <2>1, <2>2, <2>4, Zenon DEF both
<1>7. CASE ~both
  <2>1. WithQuote(out, c) = Append(out, c)
    BY <1>7 DEF WithQuote
  <2>2. WithQuote(out, c) # <<>>
    BY <1>1, <1>3, <1>4, <1>5, <2>1
  <2>3. Len(WithQuote(out, c)) = Len(out) + 1
    BY <1>3, <2>1
  <2> HIDE DEF both
  <2>4. Len(WithQuote(out, c)) = Len(out) + IF both THEN 2 ELSE 1
    BY <1>7, <2>3
  <2>. QED
    BY <1>1, <1>3, <2>1, <2>2, <2>4, Zenon DEF both
<1>. QED
  BY <1>6, <1>7

LEMMA QuotesUnfold ==
  ASSUME NEW text \in Seq(Characters)
  PROVE  \E r \in [0 .. Len(text) -> Texts] :
            /\ r[0] = <<>> /\ QuotesKept(text) = r[Len(text)]
            /\ \A k \in 1 .. Len(text) : r[k] = WithQuote(r[k - 1], text[k])
<1> DEFINE n == Len(text)
           G == [p \in Texts \X (1 .. n) |-> WithQuote(p[1], text[p[2]])]
<1>1. n \in Nat /\ DOMAIN text = 1 .. n /\ \A i \in 1 .. n : text[i] \in Characters
  OBVIOUS
<1>2. <<>> \in Texts
  BY DEF Texts
<1>3. G \in [Texts \X (1 .. n) -> Texts]
  BY <1>1, WithQuoteIsText
<1>4. \A v \in Texts, i \in 1 .. n : G[<<v, i>>] = WithQuote(v, text[i])
  OBVIOUS
<1> HIDE DEF G, n
<1>a. n \in Nat
  BY <1>1
<1>5. PICK g \in [SUBSET (1 .. n) -> Texts] : \A s \in SUBSET (1 .. n) :
            g[s] = IF s = {} THEN <<>> ELSE G[<<g[s \ {Max(s)}], Max(s)>>]
  <2>1. \E g : IsFold(g, n, Texts, <<>>, G)
    BY <1>a, <1>2, <1>3, FoldExists, Zenon
  <2>. QED
    BY <2>1, Zenon DEF IsFold
<1>6. g = [s \in SUBSET (1 .. n) |-> QuoteStep(text, g, s)]
  <2>1. ASSUME NEW s \in SUBSET (1 .. n) PROVE g[s] = QuoteStep(text, g, s)
    <3>1. CASE s = {}
      BY <1>5, <3>1 DEF QuoteStep
    <3>2. CASE s # {}
      <4>1. Max(s) \in 1 .. n
        BY <1>1, <3>2, Greatest
      <4>2. s \ {Max(s)} \in SUBSET (1 .. n)
        OBVIOUS
      <4>3. g[s \ {Max(s)}] \in Texts
        BY <4>2
      <4>4. G[<<g[s \ {Max(s)}], Max(s)>>] = WithQuote(g[s \ {Max(s)}], text[Max(s)])
        BY <1>4, <4>1, <4>3, Zenon
      <4>. QED
        BY <1>5, <3>2, <4>4, Zenon DEF QuoteStep
    <3>. QED
      BY <3>1, <3>2
  <2>. QED
    BY <2>1, Zenon
<1> DEFINE f == CHOOSE h : h = [s \in SUBSET (1 .. n) |-> QuoteStep(text, h, s)]
<1>7. f = [s \in SUBSET (1 .. n) |-> QuoteStep(text, f, s)]
  BY <1>6, Zenon
<1>8. QuotesKept(text) = f[1 .. n]
  BY <1>1, Zenon DEF QuotesKept, FoldLeft, MapThenFoldSet, QuoteStep, WithQuote
<1> HIDE DEF f
<1> DEFINE r == [k \in 0 .. n |-> f[1 .. k]]
<1>9. r[0] = <<>>
  <2>1. 1 .. 0 = {} /\ 1 .. 0 \in SUBSET (1 .. n)
    OBVIOUS
  <2>. QED
    BY <1>1, <1>7, <2>1 DEF QuoteStep
<1>10. ASSUME NEW k \in 1 .. n PROVE r[k] = WithQuote(r[k - 1], text[k])
  <2>1. f[1 .. k] = QuoteStep(text, f, 1 .. k)
    <3>0. k \in 1 .. n
      OBVIOUS
    <3> HIDE DEF r
    <3>1. 1 .. k \in SUBSET (1 .. n)
      BY <1>a, <3>0, FirstPlaces
    <3>2. ASSUME NEW s \in SUBSET (1 .. n) PROVE f[s] = QuoteStep(text, f, s)
      BY <1>7
    <3>. QED
      BY <3>1, <3>2, Zenon
  <2>2. QuoteStep(text, f, 1 .. k) = WithQuote(f[1 .. k - 1], text[k])
    <3>0. k \in 1 .. n
      OBVIOUS
    <3> HIDE DEF r
    <3>1. 1 .. k # {} /\ Max(1 .. k) = k /\ (1 .. k) \ {Max(1 .. k)} = 1 .. k - 1
      BY <1>a, <3>0, FirstPlaces
    <3>. QED
      BY <3>1, Zenon DEF QuoteStep
  <2>3. r[k] = f[1 .. k] /\ r[k - 1] = f[1 .. k - 1]
    BY <1>1
  <2>. QED
    BY <2>1, <2>2, <2>3
<1>11. QuotesKept(text) = r[n]
  BY <1>1, <1>8
<1>12. \A k \in Nat : k <= n => r[k] \in Texts
  <2> DEFINE S == {k \in Nat : k <= n => r[k] \in Texts}
  <2> HIDE DEF r
  <2>1. 0 \in S
    BY <1>2, <1>9
  <2>2. ASSUME NEW k \in Nat, k \in S PROVE k + 1 \in S
    <3> SUFFICES ASSUME k + 1 <= n PROVE r[k + 1] \in Texts
      OBVIOUS
    <3>1. k + 1 \in 1 .. n /\ (k + 1) - 1 = k /\ r[k] \in Texts
      BY <1>1, <2>2
    <3>2. text[k + 1] \in Characters
      BY <1>1, <3>1
    <3>3. r[k + 1] = WithQuote(r[k], text[k + 1])
      BY <1>10, <3>1
    <3>. QED
      BY <3>1, <3>2, <3>3, WithQuoteIsText
  <2> HIDE DEF S
  <2>3. \A k \in Nat : k \in S
    BY <2>1, <2>2, Induction
  <2>. QED
    BY <2>3 DEF S
<1>13. r \in [0 .. n -> Texts]
  BY <1>1, <1>12
<1> HIDE DEF r
<1>. QED
  BY <1>9, <1>10, <1>11, <1>13 DEF n

\* What strcount() counts is what replaceall() adds.
THEOREM QuotesLength ==
  ASSUME NEW text \in Seq(Characters)
  PROVE  EscapedQuotes(text) \in Nat /\ Len(QuotesKept(text)) = Len(text) + EscapedQuotes(text)
<1> DEFINE n == Len(text)
           Here(i) == text[i] = "\\" /\ text[i + 1] = "\""
           E(k) == {i \in 1 .. k - 1 : Here(i)}
<1>1. n \in Nat /\ \A i \in 1 .. n : text[i] \in Characters
  OBVIOUS
<1>2. PICK r \in [0 .. n -> Texts] :
            /\ r[0] = <<>> /\ QuotesKept(text) = r[n]
            /\ \A k \in 1 .. n : r[k] = WithQuote(r[k - 1], text[k])
  BY QuotesUnfold
<1> HIDE DEF n, Here
<1>3. ASSUME NEW k \in Nat PROVE IsFiniteSet(E(k)) /\ Cardinality(E(k)) \in Nat
  <2>1. IsFiniteSet(1 .. k - 1) /\ E(k) \subseteq 1 .. k - 1
    BY FS_Interval
  <2>. QED
    BY <2>1, FS_Subset, FS_CardinalityType
<1> DEFINE Good(k) == /\ Len(r[k]) = k + Cardinality(E(k))
                      /\ k > 0 => r[k] # <<>> /\ Last(r[k]) = text[k]
                      /\ k = 0 => r[k] = <<>>
           S == {k \in Nat : k <= n => Good(k)}
<1>4. 0 \in S
  <2>1. E(0) = {}
    OBVIOUS
  <2>2. Cardinality(E(0)) = 0
    BY <2>1, FS_EmptySet
  <2> HIDE DEF E
  <2>. QED
    BY <1>1, <1>2, <2>2
<1>5. ASSUME NEW k \in Nat, k \in S PROVE k + 1 \in S
  <2> SUFFICES ASSUME k + 1 <= n PROVE Good(k + 1)
    OBVIOUS
  <2>1. k + 1 \in 1 .. n /\ (k + 1) - 1 = k /\ k \in 0 .. n
    BY <1>1
  <2>2. Good(k)
    BY <1>1, <1>5
  <2>3. r[k + 1] = WithQuote(r[k], text[k + 1]) /\ text[k + 1] \in Characters /\ r[k] \in Texts
    BY <1>1, <1>2, <2>1
  <2> DEFINE both == text[k + 1] = "\"" /\ r[k] # <<>> /\ Last(r[k]) = "\\"
  <2>4. /\ Last(r[k + 1]) = text[k + 1] /\ r[k + 1] # <<>>
        /\ Len(r[k + 1]) = Len(r[k]) + IF both THEN 2 ELSE 1
    <3>1. ASSUME NEW out \in Texts, NEW c \in Characters, NEW u, u = WithQuote(out, c)
          PROVE  /\ Last(u) = c /\ u # <<>>
                 /\ Len(u) = Len(out) + IF c = "\"" /\ out # <<>> /\ Last(out) = "\\" THEN 2 ELSE 1
      BY <3>1, WithQuoteIsText
    <3>. QED
      BY <2>3, <3>1, Zenon
  <2>5. both <=> k > 0 /\ Here(k)
    <3>1. CASE k = 0
      BY <2>2, <3>1
    <3>2. CASE k > 0
      BY <2>2, <3>2, Zenon DEF Here
    <3> HIDE DEF both
    <3>. QED
      BY <3>1, <3>2
  <2>6. Cardinality(E(k + 1)) = Cardinality(E(k)) + IF both THEN 1 ELSE 0
    <3>1. CASE both
      <4>0. k > 0 /\ Here(k) /\ 1 .. (k + 1) - 1 = (1 .. k - 1) \cup {k} /\ k \notin 1 .. k - 1
        <5> HIDE DEF both
        <5>. QED
          BY <2>5, <3>1
      <4>1. E(k + 1) = E(k) \cup {k} /\ k \notin E(k)
        BY <4>0, Zenon
      <4>2. Cardinality(E(k) \cup {k}) = Cardinality(E(k)) + 1
        BY <1>3, <4>1, FS_AddElement
      <4> HIDE DEF both, E
      <4>. QED
        BY <3>1, <4>1, <4>2
    <3>2. CASE ~both
      <4>0. \A i \in 1 .. (k + 1) - 1 : Here(i) => i \in 1 .. k - 1
        <5> HIDE DEF both
        <5>. QED
          BY <2>5, <3>2
      <4>1. 1 .. k - 1 \subseteq 1 .. (k + 1) - 1
        OBVIOUS
      <4>2. E(k + 1) = E(k)
        BY <4>0, <4>1, Zenon
      <4> HIDE DEF both, E
      <4>. QED
        BY <1>3, <3>2, <4>2
    <3>. QED
      BY <3>1, <3>2
  <2> HIDE DEF both, E
  <2>7. Len(r[k + 1]) = (k + 1) + Cardinality(E(k + 1))
    <3>1. Len(r[k]) = k + Cardinality(E(k)) /\ Cardinality(E(k)) \in Nat
      BY <1>3, <2>2
    <3>2. CASE both
      BY <2>4, <2>6, <3>1, <3>2
    <3>3. CASE ~both
      BY <2>4, <2>6, <3>1, <3>3
    <3>. QED
      BY <3>2, <3>3
  <2>8. k + 1 # 0
    OBVIOUS
  <2>. QED
    BY <2>4, <2>7, <2>8, Zenon
<1> HIDE DEF S
<1>6. n \in S
  BY <1>1, <1>4, <1>5, Induction
<1>7. Len(r[n]) = n + Cardinality(E(n))
  BY <1>1, <1>6 DEF S
<1>8. EscapedQuotes(text) = Cardinality(E(n))
  BY DEF EscapedQuotes, n, Here
<1>. QED
  BY <1>1, <1>2, <1>3, <1>7, <1>8 DEF n

LEMMA TrimmedIsShorter ==
  ASSUME NEW text \in Seq(Characters)
  PROVE  Trimmed(text) \in Seq(Characters) /\ Len(Trimmed(text)) <= Len(text)
<1> DEFINE kept == {i \in 1 .. Len(text) : text[i] \notin Blank}
           last == CHOOSE i \in kept : \A j \in kept : j <= i
<1>1. CASE kept = {}
  <2>1. Trimmed(text) = <<>>
    BY <1>1 DEF Trimmed
  <2>. QED
    BY <2>1
<1>2. CASE kept # {}
  <2>1. kept \in SUBSET (1 .. Len(text)) /\ Len(text) \in Nat
    OBVIOUS
  <2>2. Max(kept) \in kept /\ \A y \in kept : Max(kept) >= y
    <3> HIDE DEF kept
    <3>. QED
      BY <1>2, <2>1, Greatest, Zenon
  <2>3. \A y \in kept : y <= Max(kept)
    BY <2>1, <2>2
  <2>4. last \in kept
    BY <2>2, <2>3, Zenon
  <2>5. Trimmed(text) = SubSeq(text, 1, last)
    BY <1>2 DEF Trimmed
  <2>6. last \in 1 .. Len(text)
    BY <2>1, <2>4
  <2> HIDE DEF last
  <2>. QED
    BY <2>5, <2>6
<1>. QED
  BY <1>1, <1>2

LEMMA LeastIsIn ==
  ASSUME NEW S \in SUBSET Nat, S # {}
  PROVE  Least(S) \in S /\ \A j \in S : Least(S) <= j
<1>1. PICK m \in S : \A y \in S : ~ (<<y, m>> \in OpToRel(<, Nat))
  BY NatLessThanWellFounded, WFMin, Zenon
<1>2. ASSUME NEW y \in S PROVE m <= y
  <2>1. y \in Nat /\ m \in Nat
    OBVIOUS
  <2>2. y < m => <<y, m>> \in OpToRel(<, Nat)
    BY <2>1 DEF OpToRel
  <2>3. ~ (y < m)
    BY <1>1, <2>2, Zenon
  <2>. QED
    BY <2>1, <2>3
<1>. QED
  BY <1>2 DEF Least

-----------------------------------------------------------------------------
\* What is read, and what the lengths are calculated from.
Reads == [off : 0 .. Len(file), p : Characters \cup Blank, r : {0, 1}]
ReadInv ==
  /\ file \in Seq(Characters)
  /\ in \in Reads
  /\ dsize \in Nat /\ vsize \in Nat
  /\ pc \in {"skip", "tovalue", "value"} /\ in.r # 0 => in.off >= 1
  /\ pc \in {"tovalue", "value", "cut", "call"} =>
       dir.from \in Nat /\ dir.to \in Nat /\ dir.to - dir.from <= dsize
  /\ pc \in {"value", "cut"} => cur \in Nat /\ cur + 1 <= in.off
  /\ pc = "cut" /\ in.r # 0 => cur + 2 <= in.off
  /\ pc = "call" =>
       /\ val.longest \in Nat /\ val.longest <= vsize
       /\ val.from \in Nat /\ val.to \in Nat

LEMMA GetReads ==
  ASSUME file \in Seq(Characters), NEW i \in Reads
  PROVE  /\ Get(i) \in Reads
         /\ Get(i).r = 0 => Get(i).off = i.off /\ i.off = Len(file)
         /\ Get(i).r # 0 => Get(i).off = i.off + 1 /\ Get(i).p = file[i.off + 1]
<1>1. Len(file) \in Nat /\ \A k \in 1 .. Len(file) : file[k] \in Characters
  OBVIOUS
<1>2. CASE i.off < Len(file)
  <2>1. Get(i) = [off |-> i.off + 1, p |-> file[i.off + 1], r |-> 1]
    BY <1>2 DEF Get
  <2>2. i.off + 1 \in 0 .. Len(file) /\ file[i.off + 1] \in Characters
    BY <1>1, <1>2 DEF Reads
  <2>. QED
    BY <2>1, <2>2 DEF Reads
<1>3. CASE ~ (i.off < Len(file))
  <2>1. Get(i) = [i EXCEPT !.r = 0]
    BY <1>3 DEF Get
  <2>2. i.off = Len(file)
    BY <1>1, <1>3 DEF Reads
  <2>. QED
    BY <2>1, <2>2 DEF Reads
<1>. QED
  BY <1>2, <1>3

LEMMA PastBlanksReads ==
  ASSUME file \in Seq(Characters), NEW i \in Reads
  PROVE  /\ PastBlanks(i) \in Reads
         /\ i.r = 0 \/ i.p # " " => PastBlanks(i) = i
         /\ i.r # 0 /\ i.p = " " =>
              /\ PastBlanks(i).off >= i.off
              /\ PastBlanks(i).r = 0 => PastBlanks(i).off = Len(file)
              /\ PastBlanks(i).r # 0 =>
                   /\ PastBlanks(i).off >= i.off + 1
                   /\ PastBlanks(i).p = file[PastBlanks(i).off]
              /\ \A k \in i.off + 1 .. PastBlanks(i).off :
                   file[k] = " " \/ (k = PastBlanks(i).off /\ PastBlanks(i).r # 0)
<1> DEFINE others == {k \in i.off .. Len(file) - 1 : file[k + 1] # " "}
<1>1. Len(file) \in Nat /\ i.off \in Nat /\ i.off <= Len(file)
  BY DEF Reads
<1>2. CASE i.r = 0 \/ i.p # " "
  <2>1. PastBlanks(i) = i
    BY <1>2 DEF PastBlanks
  <2>. QED
    BY <1>2, <2>1
<1>3. CASE i.r # 0 /\ i.p = " " /\ others = {}
  <2>1. PastBlanks(i) = [off |-> Len(file), p |-> " ", r |-> 0]
    BY <1>3 DEF PastBlanks
  <2>2. ASSUME NEW k \in i.off + 1 .. Len(file) PROVE file[k] = " "
    <3>1. k - 1 \in i.off .. Len(file) - 1 /\ (k - 1) + 1 = k
      BY <1>1
    <3>2. k - 1 \notin others
      BY <1>3
    <3>. QED
      BY <3>1, <3>2
  <2> HIDE DEF others
  <2>3. PastBlanks(i) \in Reads
    <3>1. Len(file) \in 0 .. Len(file) /\ " " \in Characters \cup Blank
      BY <1>1 DEF Blank
    <3>2. [off |-> Len(file), p |-> " ", r |-> 0] \in Reads
      BY <3>1 DEF Reads
    <3>. QED
      BY <2>1, <3>2, Zenon
  <2> DEFINE b == PastBlanks(i)
  <2>4. b.off = Len(file) /\ b.r = 0 /\ b.off >= i.off
    <3>1. b.off = Len(file) /\ b.r = 0
      <4>1. \A u, c : c = [off |-> Len(file), p |-> u, r |-> 0] => c.off = Len(file) /\ c.r = 0
        OBVIOUS
      <4>. QED
        BY <2>1, <4>1, Zenon
    <3>2. Len(file) >= i.off
      BY <1>1
    <3>. QED
      BY <3>1, <3>2, Zenon
  <2>5. \A k \in i.off + 1 .. b.off : file[k] = " "
    BY <2>2, <2>4
  <2> HIDE DEF b
  <2>. QED
    BY <1>3, <2>3, <2>4, <2>5 DEF b
<1>4. CASE i.r # 0 /\ i.p = " " /\ others # {}
  <2>1. PastBlanks(i) = Get([i EXCEPT !.off = Least(others)])
    BY <1>4 DEF PastBlanks
  <2>2. others \in SUBSET Nat
    <3>1. i.off .. Len(file) - 1 \subseteq Nat
      BY <1>1
    <3>. QED
      BY <3>1
  <2>3. Least(others) \in others /\ \A j \in others : Least(others) <= j
    <3> HIDE DEF others
    <3>. QED
      BY <1>4, <2>2, LeastIsIn, Zenon
  <2> DEFINE m == Least(others)
             at == [i EXCEPT !.off = m]
  <2>4. m \in i.off .. Len(file) - 1
    BY <2>3
  <2>5. at \in Reads /\ at.off = m
    <3> HIDE DEF m
    <3>. QED
      BY <1>1, <2>4 DEF Reads
  <2>6. ASSUME NEW k \in i.off + 1 .. m PROVE file[k] = " "
    <3> HIDE DEF m
    <3>1. k - 1 \in i.off .. Len(file) - 1 /\ (k - 1) + 1 = k /\ ~ (m <= k - 1)
      BY <1>1, <2>4
    <3>2. k - 1 \notin others
      BY <2>3, <3>1, Zenon DEF m
    <3>. QED
      BY <3>1, <3>2
  <2> HIDE DEF m, at
  <2>7. /\ Get(at) \in Reads
        /\ Get(at).r = 0 => at.off = Len(file)
        /\ Get(at).r # 0 => Get(at).off = at.off + 1 /\ Get(at).p = file[at.off + 1]
    BY <2>5, GetReads
  <2>8. Get(at).r # 0 /\ Get(at).off = m + 1 /\ Get(at).p = file[m + 1]
    BY <1>1, <2>4, <2>5, <2>7
  <2>9. PastBlanks(i) = Get(at)
    BY <2>1 DEF at, m
  <2>10. ASSUME NEW k \in i.off + 1 .. m + 1 PROVE file[k] = " " \/ k = m + 1
    <3>1. k # m + 1 => k \in i.off + 1 .. m
      BY <1>1, <2>4
    <3>. QED
      BY <2>6, <3>1
  <2> HIDE DEF others
  <2> DEFINE b == PastBlanks(i)
  <2>11. /\ b \in Reads /\ b.r # 0 /\ b.off >= i.off /\ b.off >= i.off + 1
         /\ b.p = file[b.off]
    BY <1>1, <2>4, <2>7, <2>8, <2>9
  <2>12. \A k \in i.off + 1 .. b.off : file[k] = " " \/ k = b.off
    BY <2>8, <2>9, <2>10
  <2> HIDE DEF b
  <2>. QED
    BY <1>4, <2>11, <2>12, Zenon DEF b
<1>. QED
  BY <1>2, <1>3, <1>4

LEMMA ReadInit == Init => ReadInv
<1> SUFFICES ASSUME Init PROVE ReadInv
  OBVIOUS
<1>1. file \in Seq(Characters)
  <2>1. PICK n \in 0 .. MaxLength : file \in [1 .. n -> Characters]
    BY DEF Init
  <2>2. n \in Nat
    OBVIOUS
  <2>. QED
    BY <2>1, <2>2
<1>2. in \in Reads
  <2>1. in = [off |-> 0, p |-> " ", r |-> 1]
    BY DEF Init
  <2>2. 0 \in 0 .. Len(file) /\ " " \in Characters \cup Blank
    BY <1>1 DEF Blank
  <2>. QED
    BY <2>1, <2>2 DEF Reads
<1>. QED
  BY <1>1, <1>2 DEF Init, ReadInv

LEMMA ReadStep == ReadInv /\ [Next]_vars => ReadInv'
<1> SUFFICES ASSUME ReadInv, [Next]_vars PROVE ReadInv'
  OBVIOUS
<1>0. /\ file \in Seq(Characters) /\ Len(file) \in Nat
      /\ in \in Reads /\ in.off \in Nat /\ in.off <= Len(file) /\ in.r \in {0, 1}
      /\ dsize \in Nat /\ vsize \in Nat
  BY DEF ReadInv, Reads
<1>g. /\ Get(in) \in Reads
      /\ Get(in).r = 0 => Get(in).off = in.off
      /\ Get(in).r # 0 => Get(in).off = in.off + 1
  BY <1>0, GetReads
<1>1. CASE Begin
  <2>1. file' = file /\ pc' \in {"skip", "done"}
    BY <1>1 DEF Begin, input
  <2>2. in' \in Reads /\ Reads' = Reads
    BY <1>0, <1>1, <1>g, <2>1 DEF Begin, Reads
  <2>3. in'.r # 0 /\ pc' = "skip" => in'.off >= 1
    BY <1>0, <1>1, <1>g DEF Begin
  <2>. QED
    BY <1>0, <1>1, <2>1, <2>2, <2>3 DEF Begin, ReadInv
<1>2. CASE Skip
  <2>1. file' = file /\ pc' = "skip" /\ in' = Get(in) /\ in' \in Reads /\ Reads' = Reads
    BY <1>2, <1>g DEF Skip, input, Reads
  <2>2. in'.r # 0 => in'.off >= 1
    BY <1>0, <1>g, <2>1
  <2>. QED
    BY <1>0, <1>2, <2>1, <2>2 DEF Skip, ReadInv
<1>3. CASE EndOfFile
  BY <1>0, <1>3 DEF EndOfFile, ReadInv, input, Reads
<1>4. CASE Directive
  <2> DEFINE from == in.off - 1
             n == Len(file)
             to == Least({k \in from .. n : k < n => EndsDirective(file[k + 1])})
             equals == to < n /\ "=" \in flags /\ file[to + 1] = "="
             after == [off |-> to, p |-> file[IF to < n THEN to + 1 ELSE to],
                       r |-> IF to > from THEN 1 ELSE 0]
             past == Get([after EXCEPT !.off = to + 1])
  <2>1. /\ pc = "skip" /\ in.r # 0 /\ file' = file /\ Reads' = Reads
        /\ dir' = [from |-> from, to |-> to] /\ dsize' = Larger(dsize, to - from)
        /\ in' = IF ~equals THEN after
                 ELSE IF "strict" \in flags /\ past.p \in Blank THEN [past EXCEPT !.p = "\n"]
                 ELSE past
        /\ pc' \in {"crashed", "tovalue"} /\ vsize' = vsize
    BY <1>4, Zenon DEF Directive, input, Reads
  <2>2. from \in Nat /\ n \in Nat /\ from < n
    BY <1>0, <2>1 DEF ReadInv
  <2>3. to \in from .. n
    <3> DEFINE S == {k \in from .. n : k < n => EndsDirective(file[k + 1])}
    <3> HIDE DEF from, n
    <3>1. S \in SUBSET Nat /\ S # {} /\ S \subseteq from .. n
      BY <2>2
    <3> HIDE DEF S
    <3>2. Least(S) \in S
      BY <3>1, LeastIsIn, Zenon
    <3>. QED
      BY <3>1, <3>2 DEF S
  <2> HIDE DEF to, from
  <2>4. after \in Reads /\ after.off = to /\ (after.r # 0 => to >= 1)
    BY <1>0, <2>2, <2>3 DEF Reads
  <2>5. equals => past \in Reads /\ past.off >= 1
    <3> SUFFICES ASSUME equals PROVE past \in Reads /\ past.off >= 1
      OBVIOUS
    <3> DEFINE skip == [after EXCEPT !.off = to + 1]
    <3>1. skip \in Reads /\ skip.off = to + 1
      BY <1>0, <2>2, <2>3, <2>4 DEF Reads
    <3> HIDE DEF skip
    <3>2. /\ Get(skip) \in Reads
          /\ Get(skip).r = 0 => Get(skip).off = skip.off
          /\ Get(skip).r # 0 => Get(skip).off = skip.off + 1
      BY <1>0, <3>1, GetReads
    <3>. QED
      BY <2>2, <2>3, <3>1, <3>2 DEF skip
  <2>6. ASSUME NEW i \in Reads
        PROVE  /\ [i EXCEPT !.p = "\n"] \in Reads
               /\ [i EXCEPT !.p = "\n"].off = i.off
    <3>1. "\n" \in Characters \cup Blank
      BY Zenon DEF Blank
    <3>. QED
      BY <3>1 DEF Reads
  <2> HIDE DEF equals, after, past
  <2>7. in' \in Reads' /\ (in'.r # 0 => in'.off >= 1)
    <3>1. CASE ~equals
      <4>1. in' = after
        BY <2>1, <3>1, Zenon
      <4>2. to \in Nat
        BY <2>2, <2>3
      <4>. QED
        BY <2>1, <2>4, <4>1
    <3>2. CASE equals
      <4>1. past \in Reads /\ past.off >= 1
        BY <2>5, <3>2
      <4>2. in' = [past EXCEPT !.p = "\n"] \/ in' = past
        BY <2>1, <3>2, Zenon
      <4>. QED
        BY <2>1, <2>6, <4>1, <4>2
    <3>. QED
      BY <3>1, <3>2
  <2>8. dsize' \in Nat /\ dir'.from \in Nat /\ dir'.to \in Nat /\ dir'.to - dir'.from <= dsize'
    BY <1>0, <2>1, <2>2, <2>3 DEF Larger
  <2>. QED
    BY <1>0, <2>1, <2>7, <2>8 DEF ReadInv
<1>5. CASE ToValue
  <2> DEFINE stays == (";" \in flags /\ in.p = ";") \/ ("strict" \in flags /\ in.p = "=")
             near == IF stays THEN in ELSE PastBlanks(in)
             equals == near.r # 0 /\ "=" \in flags /\ near.p = "=" /\ "strict" \notin flags
             at == IF equals THEN PastBlanks(Get(near)) ELSE near
  <2>1. /\ pc = "tovalue" /\ file' = file /\ Reads' = Reads /\ in' = at
        /\ dir' = dir /\ dsize' = dsize /\ vsize' = vsize
        /\ \/ val' = Empty(at.off) /\ pc' = "call"
           \/ pc' = "value" /\ cur' = at.off - 1 /\ at.r # 0
    BY <1>5, Zenon DEF ToValue, NoValueAt, input, Reads
  <2>2. at \in Reads /\ (at.r # 0 => at.off >= 1)
    <3>1. in.r # 0 => in.off >= 1
      BY <2>1 DEF ReadInv
    <3>3. ASSUME NEW i \in Reads PROVE Get(i) \in Reads /\ (Get(i).r # 0 => Get(i).off >= 1)
      BY <1>0, <3>3, GetReads DEF Reads
    <3>4. ASSUME NEW i \in Reads, i.r # 0 => i.off >= 1
          PROVE  PastBlanks(i) \in Reads /\ (PastBlanks(i).r # 0 => PastBlanks(i).off >= 1)
      <4>1. i.off \in Nat
        BY <1>0 DEF Reads
      <4>2. /\ PastBlanks(i) \in Reads
            /\ i.r = 0 \/ i.p # " " => PastBlanks(i) = i
            /\ i.r # 0 /\ i.p = " " => PastBlanks(i).off >= i.off
        BY <1>0, PastBlanksReads, Zenon
      <4>3. CASE i.r = 0 \/ i.p # " "
        BY <3>4, <4>2, <4>3, Zenon
      <4>4. CASE i.r # 0 /\ i.p = " "
        <5>1. PastBlanks(i).off >= i.off /\ i.off >= 1
          BY <3>4, <4>2, <4>4, Zenon
        <5>2. PastBlanks(i).off \in Nat
          <6>1. PastBlanks(i) \in Reads
            BY <4>2, Zenon
          <6>. QED
            BY <1>0, <6>1 DEF Reads
        <5>3. PastBlanks(i).off >= 1
          BY <4>1, <5>1, <5>2
        <5>. QED
          BY <4>2, <5>3, Zenon
      <4>. QED
        BY <4>3, <4>4, Zenon
    <3>2. near \in Reads /\ (near.r # 0 => near.off >= 1)
      BY <1>0, <3>1, <3>4, Zenon
    <3> HIDE DEF near
    <3>. QED
      BY <3>2, <3>3, <3>4, Zenon
  <2> HIDE DEF at
  <2>3. CASE pc' = "value"
    <3>1. cur' = at.off - 1 /\ at.r # 0
      BY <2>1, <2>3
    <3>2. cur' \in Nat /\ cur' + 1 <= in'.off
      BY <2>1, <2>2, <3>1 DEF Reads
    <3>. QED
      BY <1>0, <2>1, <2>2, <2>3, <3>2 DEF ReadInv
  <2>4. CASE pc' = "call"
    <3>1. val'.longest = 0 /\ val'.from \in Nat /\ val'.to \in Nat
      <4>1. at.off \in Nat
        BY <2>2 DEF Reads
      <4>2. val' = Empty(at.off)
        BY <2>1, <2>4
      <4>. QED
        BY <4>1, <4>2 DEF Empty
    <3>. QED
      BY <1>0, <2>1, <2>2, <2>4, <3>1 DEF ReadInv
  <2>. QED
    BY <2>1, <2>3, <2>4
<1>6. CASE Value
  <2>1. /\ file' = file /\ pc = "value" /\ pc' \in {"value", "cut"} /\ in' = Get(in)
        /\ in' \in Reads /\ Reads' = Reads /\ in.r # 0
    BY <1>6, <1>g DEF Value, input, Reads
  <2>2. /\ in'.r # 0 => in'.off = in.off + 1
        /\ in'.r = 0 => in'.off = in.off
        /\ in'.r \in {0, 1}
    BY <1>0, <1>g, <2>1 DEF Reads
  <2>3. cur \in Nat /\ cur + 1 <= in.off /\ cur' = cur
    BY <1>6, <2>1 DEF Value, ReadInv
  <2>4. cur' + 1 <= in'.off /\ (in'.r # 0 => in'.off >= 1 /\ cur' + 2 <= in'.off)
    BY <1>0, <2>2, <2>3
  <2>5. dir' = dir /\ dsize' = dsize /\ vsize' = vsize
    BY <1>6 DEF Value
  <2>. QED
    BY <1>0, <2>1, <2>3, <2>4, <2>5 DEF ReadInv
<1>7. CASE ValueAtEnd
  BY <1>0, <1>7 DEF ValueAtEnd, ReadInv, input, Reads
<1>8. CASE Cut
  <2> DEFINE text == Trimmed(SubSeq(file, cur + 1, cur + Length))
             x == EscapedQuotes(text)
  <2>1. /\ pc = "cut" /\ file' = file /\ Reads' = Reads /\ dir' = dir /\ dsize' = dsize
        /\ \/ pc' = "crashed" /\ in' = in /\ vsize' = vsize
           \/ /\ pc' = "call" /\ vsize' = Room(Length, x)
              /\ val' = [from |-> cur, to |-> cur + Length, longest |-> Len(QuotesKept(text)),
                         text |-> Expanded(Joined(QuotesKept(text))), null |-> FALSE]
              /\ in' = [in EXCEPT !.off = After(Length), !.r = IF Length > 0 THEN 1 ELSE 0]
    BY <1>8, Zenon DEF Cut, input, Reads
  <2>2. cur \in Nat /\ Length \in Nat /\ cur + Length <= Len(file)
    BY <1>0, <2>1 DEF ReadInv, Length
  <2>3. SubSeq(file, cur + 1, cur + Length) \in Seq(Characters)
        /\ Len(SubSeq(file, cur + 1, cur + Length)) = Length
    BY <1>0, <2>2
  <2>4. text \in Seq(Characters) /\ Len(text) \in Nat /\ Len(text) <= Length
    <3>1. ASSUME NEW u \in Seq(Characters), Len(u) = Length
          PROVE  Trimmed(u) \in Seq(Characters) /\ Len(Trimmed(u)) \in Nat /\ Len(Trimmed(u)) <= Length
      BY <3>1, TrimmedIsShorter
    <3>. QED
      BY <2>3, <3>1, Zenon
  <2> HIDE DEF text
  <2>5. x \in Nat /\ Len(QuotesKept(text)) = Len(text) + x
    BY <2>4, QuotesLength
  <2> HIDE DEF x
  <2>6. CASE pc' = "call"
    <3>1. /\ vsize' = Room(Length, x) /\ val'.longest = Len(text) + x
          /\ val'.from = cur /\ val'.to = cur + Length
      BY <2>1, <2>5, <2>6
    <3>4. val'.from \in Nat /\ val'.to \in Nat
      BY <2>2, <3>1
    <3>2. vsize' \in Nat /\ val'.longest \in Nat /\ val'.longest <= vsize'
      BY <1>0, <2>2, <2>4, <2>5, <3>1 DEF Room, Larger
    <3>3. in' \in Reads'
      <4>1. in' = [in EXCEPT !.off = cur + Length, !.r = IF Length > 0 THEN 1 ELSE 0]
        BY <2>1, <2>6 DEF After
      <4>2. cur + Length \in 0 .. Len(file)
        BY <1>0, <2>2
      <4>. QED
        BY <1>0, <2>1, <4>1, <4>2 DEF Reads
    <3>. QED
      BY <1>0, <2>1, <2>6, <3>2, <3>3, <3>4 DEF ReadInv
  <2>7. CASE pc' = "crashed"
    BY <1>0, <2>1, <2>7 DEF ReadInv
  <2>. QED
    BY <2>1, <2>6, <2>7
<1>9. CASE Call
  BY <1>0, <1>9 DEF Call, ReadInv, input, Reads
<1>10. CASE NoAssignment
  BY <1>0, <1>10 DEF NoAssignment, ReadInv, input, Reads
<1>11. CASE CountsForever \/ Finished \/ UNCHANGED vars
  <2>1. UNCHANGED vars
    BY <1>11 DEF CountsForever, Finished
  <2>. QED
    BY <2>1 DEF vars, ReadInv, Reads
<1>. QED
  BY <1>1, <1>2, <1>3, <1>4, <1>5, <1>6, <1>7, <1>8, <1>9, <1>10, <1>11 DEF Next, Parse

\* What was allocated holds the directive and the value, whatever the file.
THEOREM BuffersFit == Spec => []FitsBuffers
<1>1. ReadInv => FitsBuffers
  BY DEF ReadInv, FitsBuffers
<1>. QED
  BY <1>1, ReadInit, ReadStep, PTL DEF Spec

-----------------------------------------------------------------------------
\* Every directive has its function, when there is one for the unknown ones.
MatchStep(opts, name, f, s) ==
  IF s = {} THEN <<>>
  ELSE IF opts[[j \in DOMAIN opts |-> j][Max(s)]] \in {Anyone, name}
       THEN Append(f[s \ {Max(s)}], [j \in DOMAIN opts |-> j][Max(s)])
       ELSE f[s \ {Max(s)}]

LEMMA MatchingIsSeq ==
  ASSUME options \in Seq(Range(options))
  PROVE  Matching \in Seq(Nat)
<1> DEFINE n == Len(options)
           V == Seq(Nat)
           at == [j \in DOMAIN options |-> j]
           G == [p \in V \X (1 .. n) |->
                   IF options[at[p[2]]] \in {Anyone, Name} THEN Append(p[1], at[p[2]]) ELSE p[1]]
<1>1. n \in Nat /\ DOMAIN options = 1 .. n /\ DOMAIN at = 1 .. n
  OBVIOUS
<1>2. \A i \in 1 .. n : at[i] \in Nat
  BY <1>1
<1> HIDE DEF n, at
<1>3. \A v \in V, i \in 1 .. n :
        G[<<v, i>>] = IF options[at[i]] \in {Anyone, Name} THEN Append(v, at[i]) ELSE v
  OBVIOUS
<1>4. \A v \in V, i \in 1 .. n : Append(v, at[i]) \in V
  BY <1>2
<1>5. G \in [V \X (1 .. n) -> V]
  <2>1. \A p \in V \X (1 .. n) : G[p] \in V
    <3> SUFFICES ASSUME NEW v \in V, NEW i \in 1 .. n PROVE G[<<v, i>>] \in V
      OBVIOUS
    <3> HIDE DEF G, V
    <3>. QED
      BY <1>3, <1>4, Zenon
  <2>2. G = [p \in V \X (1 .. n) |-> G[p]]
    OBVIOUS
  <2> HIDE DEF G
  <2>. QED
    BY <2>1, <2>2
<1>6. <<>> \in V
  OBVIOUS
<1> HIDE DEF G, V
<1>7. \E g : IsFold(g, n, V, <<>>, G)
  BY <1>1, <1>5, <1>6, FoldExists, Zenon
<1>8. PICK g : IsFold(g, n, V, <<>>, G)
  BY <1>7, Zenon
<1>9. ASSUME NEW s \in SUBSET (1 .. n), s # {}
      PROVE  /\ Max(s) \in 1 .. n /\ s \ {Max(s)} \in SUBSET (1 .. n)
             /\ g[s \ {Max(s)}] \in V
  <2>1. Max(s) \in 1 .. n
    BY <1>1, <1>9, Greatest
  <2>2. s \ {Max(s)} \in SUBSET (1 .. n)
    OBVIOUS
  <2>3. g \in [SUBSET (1 .. n) -> V]
    BY <1>8, Zenon DEF IsFold
  <2>. QED
    BY <2>1, <2>2, <2>3, Zenon
<1>10. g = [s \in SUBSET (1 .. n) |-> MatchStep(options, Name, g, s)]
  <2>1. ASSUME NEW s \in SUBSET (1 .. n) PROVE g[s] = MatchStep(options, Name, g, s)
    <3>1. CASE s = {}
      BY <1>8, <3>1, Zenon DEF IsFold, MatchStep
    <3>2. CASE s # {}
      <4>1. g[s] = G[<<g[s \ {Max(s)}], Max(s)>>]
        BY <1>8, <3>2, Zenon DEF IsFold
      <4>2. g[s] = IF options[at[Max(s)]] \in {Anyone, Name}
                   THEN Append(g[s \ {Max(s)}], at[Max(s)]) ELSE g[s \ {Max(s)}]
        BY <1>3, <1>9, <3>2, <4>1, Zenon
      <4>. QED
        BY <3>2, <4>2, Zenon DEF MatchStep, at
    <3>. QED
      BY <3>1, <3>2
  <2>2. g = [s \in SUBSET (1 .. n) |-> g[s]]
    BY <1>8, Zenon DEF IsFold
  <2>. QED
    BY <2>1, <2>2, Zenon
<1> DEFINE f == CHOOSE h : h = [s \in SUBSET (1 .. n) |-> MatchStep(options, Name, h, s)]
<1>11. f = [s \in SUBSET (1 .. n) |-> MatchStep(options, Name, f, s)]
  BY <1>10, Zenon
<1>12. Matching = f[1 .. n]
  BY <1>1, Zenon DEF Matching, FoldLeftDomain, FoldLeft, MapThenFoldSet, MatchStep, at
<1> HIDE DEF f
<1>13. \A k \in Nat : k <= n => f[1 .. k] \in V
  <2> DEFINE S == {k \in Nat : k <= n => f[1 .. k] \in V}
  <2>1. 0 \in S
    <3>1. 1 .. 0 = {} /\ 1 .. 0 \in SUBSET (1 .. n)
      OBVIOUS
    <3>2. f[1 .. 0] = <<>>
      BY <1>11, <3>1, Zenon DEF MatchStep
    <3>. QED
      BY <1>6, <3>2
  <2>2. ASSUME NEW k \in Nat, k \in S PROVE k + 1 \in S
    <3> SUFFICES ASSUME k + 1 <= n PROVE f[1 .. k + 1] \in V
      OBVIOUS
    <3>1. k + 1 \in 1 .. n /\ (k + 1) - 1 = k /\ f[1 .. k] \in V
      BY <1>1, <2>2
    <3>2. /\ 1 .. k + 1 \in SUBSET (1 .. n) /\ 1 .. k + 1 # {} /\ Max(1 .. k + 1) = k + 1
          /\ (1 .. k + 1) \ {Max(1 .. k + 1)} = 1 .. (k + 1) - 1
      BY <1>1, <3>1, FirstPlaces
    <3>3. f[1 .. k + 1] = MatchStep(options, Name, f, 1 .. k + 1)
      <4>1. ASSUME NEW s \in SUBSET (1 .. n) PROVE f[s] = MatchStep(options, Name, f, s)
        BY <1>11, Zenon
      <4>. QED
        BY <3>2, <4>1, Zenon
    <3>4. (1 .. k + 1) \ {Max(1 .. k + 1)} = 1 .. k
      BY <3>1, <3>2
    <3>5. f[1 .. k + 1] = IF options[at[k + 1]] \in {Anyone, Name}
                          THEN Append(f[1 .. k], at[k + 1]) ELSE f[1 .. k]
      BY <3>2, <3>3, <3>4, Zenon DEF MatchStep, at
    <3>6. Append(f[1 .. k], at[k + 1]) \in V
      BY <1>4, <3>1, Zenon
    <3>. QED
      BY <3>1, <3>5, <3>6, Zenon
  <2> HIDE DEF S
  <2>3. \A k \in Nat : k \in S
    BY <2>1, <2>2, Induction
  <2>. QED
    BY <2>3 DEF S
<1>14. n <= n
  BY <1>1
<1>. QED
  BY <1>1, <1>12, <1>13, <1>14, Zenon DEF V

LEMMA SomeHandler ==
  ASSUME options \in Seq(Range(options)), unknown
  PROVE  Handlers \in Seq(Nat) /\ Len(Handlers) \in Nat \ {0}
<1>1. Matching \in Seq(Nat)
  BY MatchingIsSeq
<1>2. CASE Matching # <<>>
  BY <1>1, <1>2 DEF Handlers
<1>3. CASE Matching = <<>>
  BY <1>3 DEF Handlers
<1>. QED
  BY <1>2, <1>3

-----------------------------------------------------------------------------
\* What is behind the parser: every letter up to there is in a directive or a
\* value that was told of, or in a comment.
Open(f, n) == \E h \in 1 .. n : f[h] = "#" /\ \A j \in h .. n : f[j] # "\n"
Kept(f, cs, k) ==
  Open(f, k) \/ \E i \in DOMAIN cs : Inside(k, cs[i].dir) \/ Inside(k, cs[i].val)
Passed(f, cs, n) == \A k \in 1 .. n : f[k] = "a" => Kept(f, cs, k)
Bare(f, m, n) == \A k \in m + 1 .. n : f[k] # "a"

EndsName(fl, c) == c \in Blank \/ (";" \in fl /\ c = ";")
EndsValue(fl, c) == c \in {"\n", "#"} \/ (";" \in fl /\ c = ";")

\* Where what was read last has not been dealt with.
Seen(i) == i.off - IF i.r # 0 THEN 1 ELSE 0

\* Behind a name p is the character read last, or one that ends the name, which
\* was looked at and not read, or stands for the blank after an equals sign.
AtName(f, fl, to, i) ==
  /\ i.r = 0 => Bare(f, to, i.off)
  /\ i.r # 0 =>
       /\ Bare(f, to, i.off - 1)
       /\ i.p = f[i.off] \/ (Bare(f, to, i.off) /\ EndsName(fl, i.p))

KeepsInv ==
  /\ in.r = 0 => in.off = Len(file)
  /\ pc \notin {"skip", "done"} => ~comment
  /\ pc = "begin" => Passed(file, calls, in.off)
  /\ pc = "skip" =>
       /\ in.r # 0 => in.p = file[in.off]
       /\ Passed(file, calls, Seen(in))
       /\ comment => Open(file, Seen(in))
  /\ pc \in {"tovalue", "value", "cut", "call"} => Passed(file, calls, dir.from)
  /\ pc = "tovalue" => AtName(file, flags, dir.to, in)
  /\ pc \in {"value", "cut"} => Bare(file, dir.to, cur)
  /\ pc = "value" =>
       /\ in.r # 0 => in.p = file[in.off]
       /\ in.off = cur + 1 => in.r # 0 /\ ~EndsValue(flags, in.p)
  /\ pc = "cut" => Length >= 1
  /\ pc = "call" => Bare(file, dir.to, val.from) /\ in.off = val.to
  /\ pc = "done" => Passed(file, calls, Len(file))
Told == calls \in Seq(Range(calls)) /\ options \in Seq(Range(options))
LossInv == Told /\ (Ended /\ unknown => KeepsInv)

LEMMA CharactersDiffer ==
  ASSUME NEW fl, NEW c
  PROVE  /\ EndsName(fl, c) => c # "a" /\ c # "="
         /\ EndsName(fl, c) /\ c # " " => EndsValue(fl, c)
         /\ EndsValue(fl, c) => c # "a" /\ c # " "
         /\ c = "=" => c # " " /\ c # "a" /\ ~EndsValue(fl, c)
         /\ EndsValue(fl, "\n") /\ EndsName(fl, "\n") /\ "=" # "\n" /\ " " # "a" /\ "#" # "\n" /\ "a" # "\n"
BY Zenon DEF EndsName, EndsValue, Blank

LEMMA BareMore ==
  ASSUME NEW f, NEW m \in Int, NEW n \in Int, NEW l \in Int,
         Bare(f, m, n), \A k \in n + 1 .. l : f[k] # "a"
  PROVE  Bare(f, m, l)
BY DEF Bare

LEMMA BareStep ==
  ASSUME NEW f, NEW m \in Int, NEW n \in Int, Bare(f, m, n - 1), f[n] # "a"
  PROVE  Bare(f, m, n)
BY DEF Bare

LEMMA PassedStep ==
  ASSUME NEW f, NEW cs, NEW n \in Int, Passed(f, cs, n - 1), f[n] = "a" => Kept(f, cs, n)
  PROVE  Passed(f, cs, n)
BY DEF Passed

LEMMA OpenStep ==
  ASSUME NEW f, NEW n \in Nat \ {0}
  PROVE  /\ f[n] = "#" => Open(f, n)
         /\ Open(f, n - 1) /\ f[n] # "\n" => Open(f, n)
<1>1. ASSUME f[n] = "#" PROVE Open(f, n)
  <2>1. n \in 1 .. n /\ \A j \in n .. n : f[j] # "\n"
    BY <1>1
  <2>. QED
    BY <1>1, <2>1 DEF Open
<1>2. ASSUME Open(f, n - 1), f[n] # "\n" PROVE Open(f, n)
  <2>1. PICK h \in 1 .. n - 1 : f[h] = "#" /\ \A j \in h .. n - 1 : f[j] # "\n"
    BY <1>2 DEF Open
  <2>2. h \in 1 .. n /\ \A j \in h .. n : f[j] # "\n"
    BY <1>2, <2>1
  <2>. QED
    BY <2>1, <2>2 DEF Open
<1>. QED
  BY <1>1, <1>2

LEMMA OpenIsKept == ASSUME NEW f, NEW cs, NEW n, Open(f, n) PROVE Kept(f, cs, n)
BY DEF Kept

Extends(cs, ds) == \A j \in DOMAIN cs : j \in DOMAIN ds /\ ds[j] = cs[j]

\* A directive and its value are told of, and with them what is before them and
\* between them.
LEMMA TellsAll ==
  ASSUME NEW f, NEW cs, NEW ds, NEW i \in DOMAIN ds, NEW from \in Int, NEW to \in Int,
         NEW start \in Int, NEW end \in Int,
         Passed(f, cs, from), Bare(f, to, start),
         Extends(cs, ds),
         ds[i].dir.from = from, ds[i].dir.to = to, ds[i].val.from = start, ds[i].val.to = end
  PROVE  Passed(f, ds, end)
<1> SUFFICES ASSUME NEW k \in 1 .. end, f[k] = "a" PROVE Kept(f, ds, k)
  BY DEF Passed
<1>1. CASE k <= from
  <2>1. Kept(f, cs, k)
    BY <1>1 DEF Passed
  <2>. QED
    BY <2>1, Zenon DEF Kept, Extends
<1>2. CASE from < k /\ k <= to
  BY <1>2 DEF Kept, Inside
<1>3. CASE start < k
  BY <1>3 DEF Kept, Inside
<1>4. CASE to < k /\ k <= start
  BY <1>4 DEF Bare
<1>. QED
  BY <1>1, <1>2, <1>3, <1>4

\* What a sequence becomes by others put behind it.
LEMMA LongerSeq ==
  ASSUME NEW cs, cs \in Seq(Range(cs)), NEW m \in Nat, NEW T, NEW g \in [1 .. m -> T]
  PROVE  /\ cs \o g \in Seq(Range(cs \o g))
         /\ Extends(cs, cs \o g)
         /\ m > 0 => Len(cs) + 1 \in DOMAIN (cs \o g) /\ (cs \o g)[Len(cs) + 1] = g[1]
<1> DEFINE U == Range(cs) \cup T
           d == cs \o g
<1>1. \A A, B : A \subseteq B => Seq(A) \subseteq Seq(B)
  OBVIOUS
<1>2. cs \in Seq(U)
  BY <1>1
<1>3. g \in Seq(U) /\ Len(g) = m
  <2>1. g \in Seq(T) /\ Len(g) = m
    OBVIOUS
  <2>. QED
    BY <1>1, <2>1
<1> HIDE DEF U
<1>4. d \in Seq(U) /\ Len(d) = Len(cs) + m /\ DOMAIN d = 1 .. Len(cs) + m
  BY <1>2, <1>3
<1>5. \A j \in 1 .. Len(cs) : d[j] = cs[j]
  BY <1>2, <1>3
<1>6. m > 0 => d[Len(cs) + 1] = g[1]
  BY <1>2, <1>3
<1>7. DOMAIN cs = 1 .. Len(cs) /\ Len(cs) \in Nat
  BY <1>2
<1>8. d \in Seq(Range(d))
  <2>1. Len(cs) + m \in Nat
    BY <1>7
  <2>2. ASSUME NEW n \in Nat, NEW e \in Seq(U), DOMAIN e = 1 .. n PROVE e \in Seq({e[i] : i \in DOMAIN e})
    BY <2>2
  <2>. QED
    BY <1>4, <2>1, <2>2, Zenon DEF Range
<1> HIDE DEF d
<1>9. Extends(cs, d)
  BY <1>4, <1>5, <1>7 DEF Extends
<1>10. m > 0 => Len(cs) + 1 \in DOMAIN d /\ d[Len(cs) + 1] = g[1]
  BY <1>4, <1>6, <1>7
<1>. QED
  BY <1>8, <1>9, <1>10 DEF d

Behind(fl, to, i) ==
  /\ i \in Reads /\ AtName(file, fl, to, i)
  /\ i.r = 0 => i.off = Len(file)
  /\ i.r # 0 => i.off >= 1
PastSpaces(i) == i.r # 0 => i.p = file[i.off] \/ i.p # " "

\* Blanks behind a name hold no letter.
LEMMA PastBlanksAt ==
  ASSUME file \in Seq(Characters), NEW fl, NEW to \in Nat, NEW i, Behind(fl, to, i)
  PROVE  Behind(fl, to, PastBlanks(i)) /\ PastSpaces(PastBlanks(i))
<1> DEFINE j == PastBlanks(i)
<1>a. /\ i \in Reads /\ AtName(file, fl, to, i)
      /\ i.r = 0 => i.off = Len(file)
      /\ i.r # 0 => i.off >= 1
  BY DEF Behind
<1>0. Len(file) \in Nat /\ i.off \in Nat
  BY <1>a DEF Reads
<1>1. CASE i.r = 0 \/ i.p # " "
  <2>1. j = i
    BY <1>a, <1>1, PastBlanksReads, Zenon
  <2>. QED
    BY <1>a, <1>1, <2>1, Zenon DEF Behind, PastSpaces
<1>2. CASE i.r # 0 /\ i.p = " "
  <2>1. file[i.off] # "a" \/ Bare(file, to, i.off)
    BY <1>a, <1>2, CharactersDiffer, Zenon DEF AtName
  <2>2. Bare(file, to, i.off)
    <3>1. Bare(file, to, i.off - 1)
      BY <1>a, <1>2, Zenon DEF AtName
    <3>. QED
      BY <1>0, <2>1, <3>1, BareStep
  <2>3. /\ j \in Reads
        /\ j.off >= i.off
        /\ j.r = 0 => j.off = Len(file)
        /\ j.r # 0 => j.off >= i.off + 1 /\ j.p = file[j.off]
    BY <1>a, <1>2, PastBlanksReads, Zenon
  <2>4. \A k \in i.off + 1 .. j.off : file[k] # "a" \/ (k = j.off /\ j.r # 0)
    <3>1. \A k \in i.off + 1 .. j.off : file[k] = " " \/ (k = j.off /\ j.r # 0)
      BY <1>a, <1>2, PastBlanksReads, Zenon
    <3>. QED
      BY <3>1, CharactersDiffer, Zenon
  <2> HIDE DEF j
  <2>5. j.off \in Nat
    BY <1>0, <2>3 DEF Reads
  <2>6. j.r = 0 => Bare(file, to, j.off)
    <3> SUFFICES ASSUME j.r = 0 PROVE Bare(file, to, j.off)
      OBVIOUS
    <3>1. \A k \in i.off + 1 .. j.off : file[k] # "a"
      BY <2>4
    <3>. QED
      BY <1>0, <2>2, <2>5, <3>1, BareMore
  <2>7. j.r # 0 => Bare(file, to, j.off - 1)
    <3>1. \A k \in i.off + 1 .. j.off - 1 : k \in i.off + 1 .. j.off /\ k # j.off
      BY <1>0, <2>5
    <3>2. \A k \in i.off + 1 .. j.off - 1 : file[k] # "a"
      BY <2>4, <3>1, Zenon
    <3>3. j.off - 1 \in Int
      BY <2>5
    <3>. QED
      BY <1>0, <2>2, <3>2, <3>3, BareMore
  <2>8. j.r # 0 => j.off >= 1
    BY <1>0, <2>3, <2>5
  <2>. QED
    BY <2>3, <2>6, <2>7, <2>8, Zenon DEF AtName, Behind, PastSpaces, j
<1>. QED
  BY <1>1, <1>2

\* Nor does an equals sign.
LEMMA EqualsAt ==
  ASSUME file \in Seq(Characters), NEW fl, NEW to \in Nat, NEW i, Behind(fl, to, i),
         i.r # 0, i.p = "="
  PROVE  Behind(fl, to, Get(i))
<1> DEFINE j == Get(i)
<1>0. /\ i \in Reads /\ AtName(file, fl, to, i) /\ i.off >= 1
      /\ Len(file) \in Nat /\ i.off \in Nat /\ i.off - 1 \in Int /\ i.off + 1 \in Nat
  BY DEF Behind, Reads
<1>1. /\ j \in Reads
      /\ j.r = 0 => j.off = i.off /\ i.off = Len(file)
      /\ j.r # 0 => j.off = i.off + 1 /\ j.p = file[i.off + 1]
  BY <1>0, GetReads, Zenon
<1> HIDE DEF j
<1>2. Bare(file, to, i.off - 1) /\ file[i.off] # "a"
  BY <1>0, CharactersDiffer, Zenon DEF AtName
<1>3. Bare(file, to, i.off)
  BY <1>0, <1>2, BareStep
<1>4. j.r = 0 => Bare(file, to, j.off) /\ j.off = Len(file)
  BY <1>1, <1>3, Zenon
<1>5. j.r # 0 => j.off - 1 = i.off /\ j.off >= 1 /\ j.p = file[j.off]
  BY <1>0, <1>1
<1>6. j.r # 0 => Bare(file, to, j.off - 1)
  BY <1>3, <1>5, Zenon
<1>. QED
  BY <1>1, <1>4, <1>5, <1>6, Zenon DEF AtName, Behind, j

LEMMA ToValueLoses ==
  ASSUME ReadInv, ToValue, AtName(file, flags, dir.to, in), in.r = 0 => in.off = Len(file)
  PROVE  /\ in'.r = 0 => in'.off = Len(file)
         /\ pc' = "call" => /\ val'.from = in'.off /\ val'.to = in'.off
                            /\ Bare(file, dir.to, in'.off)
         /\ pc' = "value" => /\ cur' = in'.off - 1 /\ Bare(file, dir.to, cur')
                             /\ in'.r # 0 /\ in'.p = file[in'.off] /\ ~EndsValue(flags, in'.p)
         /\ pc' \in {"call", "value"}
<1> DEFINE stays == (";" \in flags /\ in.p = ";") \/ ("strict" \in flags /\ in.p = "=")
           near == IF stays THEN in ELSE PastBlanks(in)
           equals == near.r # 0 /\ "=" \in flags /\ near.p = "=" /\ "strict" \notin flags
           at == IF equals THEN PastBlanks(Get(near)) ELSE near
           Good(i) == Behind(flags, dir.to, i) /\ PastSpaces(i)
<1>1. /\ in' = at
      /\ \/ val' = Empty(at.off) /\ pc' = "call" /\ NoValueAt(at)
         \/ pc' = "value" /\ cur' = at.off - 1 /\ ~NoValueAt(at)
  BY Zenon DEF ToValue
<1>2. NoValueAt(at) <=> at.r = 0 \/ EndsValue(flags, at.p)
  BY Zenon DEF NoValueAt, EndsValue
<1>3. pc = "tovalue"
  BY Zenon DEF ToValue
<1>4. /\ file \in Seq(Characters) /\ in \in Reads /\ dir.to \in Nat /\ Len(file) \in Nat
      /\ in.r # 0 => in.off >= 1
  BY <1>3 DEF ReadInv
<1>b. Behind(flags, dir.to, in)
  BY <1>4, Zenon DEF Behind
<1>5. Good(near)
  <2>1. CASE stays
    <3>1. in.p # " "
      BY <2>1, CharactersDiffer, Zenon DEF EndsName
    <3>. QED
      BY <1>b, <2>1, <3>1, Zenon DEF PastSpaces
  <2>2. CASE ~stays
    <3>1. near = PastBlanks(in)
      BY <2>2, Zenon
    <3> HIDE DEF near
    <3>. QED
      BY <1>b, <1>4, <3>1, PastBlanksAt, Zenon
  <2>. QED
    BY <2>1, <2>2, Zenon
<1> HIDE DEF near
<1>6. Good(at)
  <2>1. CASE equals
    <3>1. Behind(flags, dir.to, Get(near))
      BY <1>4, <1>5, <2>1, EqualsAt, Zenon
    <3>2. at = PastBlanks(Get(near))
      BY <2>1, Zenon
    <3> HIDE DEF at
    <3>. QED
      BY <1>4, <3>1, <3>2, PastBlanksAt, Zenon
  <2>2. CASE ~equals
    BY <1>5, <2>2, Zenon
  <2>. QED
    BY <2>1, <2>2, Zenon
<1> HIDE DEF at
<1>7. at.off \in Nat /\ at.off - 1 \in Int /\ dir.to \in Int
  BY <1>4, <1>6 DEF Reads, Behind
<1>8. CASE NoValueAt(at)
  <2>1. Bare(file, dir.to, at.off)
    <3>1. CASE at.r = 0
      BY <1>6, <3>1, Zenon DEF AtName, Behind
    <3>2. CASE at.r # 0
      <4>1. EndsValue(flags, at.p)
        BY <1>2, <1>8, <3>2, Zenon
      <4>2. Bare(file, dir.to, at.off) \/ (Bare(file, dir.to, at.off - 1) /\ file[at.off] # "a")
        BY <1>6, <3>2, <4>1, CharactersDiffer, Zenon DEF AtName, Behind
      <4>. QED
        BY <1>7, <4>2, BareStep
    <3>. QED
      BY <3>1, <3>2
  <2>2. Empty(at.off).from = at.off /\ Empty(at.off).to = at.off
    BY Zenon DEF Empty
  <2>. QED
    BY <1>1, <1>6, <1>8, <2>1, <2>2, Zenon DEF Behind
<1>9. CASE ~NoValueAt(at)
  <2>1. at.r # 0 /\ ~EndsValue(flags, at.p)
    BY <1>2, <1>9, Zenon
  <2>2. at.p = file[at.off]
    BY <1>6, <2>1, CharactersDiffer, Zenon DEF AtName, Behind, PastSpaces
  <2>3. Bare(file, dir.to, at.off - 1)
    BY <1>6, <2>1, Zenon DEF AtName, Behind
  <2>. QED
    BY <1>1, <1>9, <2>1, <2>2, <2>3, Zenon
<1>. QED
  BY <1>8, <1>9

LEMMA DirectiveLoses ==
  ASSUME ReadInv, Directive, Ended, in.p = file[in.off]
  PROVE  /\ in'.r # 0 /\ dir'.from = in.off - 1 /\ ~comment
         /\ AtName(file, flags, dir'.to, in')
<1> DEFINE from == in.off - 1
           n == Len(file)
           to == Least({k \in from .. n : k < n => EndsDirective(file[k + 1])})
           equals == to < n /\ "=" \in flags /\ file[to + 1] = "="
           after == [off |-> to, p |-> file[IF to < n THEN to + 1 ELSE to],
                     r |-> IF to > from THEN 1 ELSE 0]
           skip == [after EXCEPT !.off = to + 1]
           past == Get(skip)
<1>1. /\ pc = "skip" /\ in.r # 0 /\ ~comment /\ in.p \notin {"#"}
      /\ ~EndsName(flags, in.p)
      /\ dir' = [from |-> from, to |-> to]
      /\ in' = IF ~equals THEN after
               ELSE IF "strict" \in flags /\ past.p \in Blank THEN [past EXCEPT !.p = "\n"]
               ELSE past
  BY Zenon DEF Directive, Skipped, EndsName
<1>2. /\ file \in Seq(Characters) /\ n \in Nat /\ from \in Nat /\ from < n
      /\ in.off \in 1 .. n /\ from + 1 = in.off /\ \A k \in 1 .. n : file[k] \in Characters
  BY <1>1 DEF ReadInv, Reads
<1>3. file[n] = "\n"
  <2>1. file # <<>>
    BY <1>2
  <2>. QED
    BY <2>1 DEF Ended, Last
<1>4. to \in from .. n - 1 /\ EndsDirective(file[to + 1])
  <2> DEFINE S == {k \in from .. n : k < n => EndsDirective(file[k + 1])}
  <2>0. EndsDirective(file[n])
    BY <1>3, CharactersDiffer, Zenon DEF EndsDirective, EndsName, Blank
  <2> HIDE DEF from, n
  <2>1. S \in SUBSET Nat /\ S \subseteq from .. n
    BY <1>2
  <2>2. n - 1 \in S
    <3>1. n - 1 \in from .. n /\ (n - 1) + 1 = n
      BY <1>2
    <3>. QED
      BY <2>0, <3>1
  <2> HIDE DEF S
  <2>3. S # {}
    BY <2>2
  <2>4. Least(S) \in S /\ \A k \in S : Least(S) <= k
    BY <2>1, <2>3, LeastIsIn, Zenon
  <2>5. Least(S) \in from .. n - 1
    <3>1. Least(S) <= n - 1 /\ Least(S) \in from .. n
      BY <2>1, <2>2, <2>4, Zenon
    <3>. QED
      BY <1>2, <3>1
  <2>6. EndsDirective(file[Least(S) + 1])
    BY <1>2, <2>4, <2>5 DEF S
  <2>. QED
    BY <2>5, <2>6 DEF S
<1> HIDE DEF from, n, to
<1>5. dir'.from = from /\ dir'.to = to
  BY <1>1
<1>6. to \in Nat /\ to < n /\ to + 1 \in 1 .. n
  BY <1>2, <1>4
<1>7. Bare(file, to, to - 1) /\ Bare(file, to, to)
  BY <1>6 DEF Bare
<1>8. CASE ~equals
  <2>1. EndsName(flags, file[to + 1])
    BY <1>4, <1>6, <1>8, Zenon DEF EndsDirective, EndsName
  <2>2. to # from
    BY <1>1, <1>2, <2>1
  <2>3. to > from
    BY <1>2, <1>4, <2>2
  <2>4. after.off = to /\ after.p = file[to + 1] /\ after.r = 1
    BY <1>6, <2>3
  <2>5. in' = after
    BY <1>1, <1>8, Zenon
  <2> HIDE DEF after
  <2>6. in'.r # 0
    BY <2>4, <2>5
  <2>. QED
    BY <1>1, <1>5, <1>7, <2>1, <2>4, <2>5, <2>6, Zenon DEF AtName, from
<1>9. CASE equals
  <2>1. file[to + 1] = "=" /\ to + 1 # n
    BY <1>3, <1>9, CharactersDiffer, Zenon
  <2>2. to + 1 < n /\ to + 1 \in 0 .. n /\ to + 2 \in 1 .. n
    BY <1>2, <1>6, <2>1
  <2>3. skip \in Reads /\ skip.off = to + 1
    <3>1. file[IF to < n THEN to + 1 ELSE to] \in Characters
      BY <1>2, <1>6
    <3>. QED
      BY <2>2, <3>1 DEF Reads, n
  <2> HIDE DEF skip
  <2>4. /\ past \in Reads
        /\ past.r = 0 => skip.off = n
        /\ past.r # 0 => past.off = skip.off + 1 /\ past.p = file[skip.off + 1]
    BY <1>2, <2>3, GetReads, Zenon DEF n
  <2>5. past.r # 0 /\ past.off = to + 2 /\ past.p = file[to + 2]
    BY <1>2, <1>6, <2>2, <2>3, <2>4
  <2> HIDE DEF past
  <2>6. file[to + 1] # "a"
    BY <2>1, CharactersDiffer, Zenon
  <2>7. Bare(file, to, to + 1)
    <3>1. (to + 1) - 1 = to /\ to + 1 \in Int /\ to \in Int
      BY <1>6
    <3>. QED
      BY <1>7, <2>6, <3>1, BareStep
  <2>8. past.off - 1 = to + 1
    BY <1>6, <2>5
  <2>9. CASE in' = past
    <3>1. in'.r # 0 /\ in'.p = file[in'.off] /\ Bare(file, to, in'.off - 1)
      BY <2>5, <2>7, <2>8, <2>9
    <3>. QED
      BY <1>1, <1>5, <3>1, Zenon DEF AtName, from
  <2>10. CASE in' = [past EXCEPT !.p = "\n"] /\ past.p \in Blank
    <3>1. in'.r # 0 /\ in'.p = "\n" /\ in'.off = past.off
      BY <2>4, <2>5, <2>10 DEF Reads
    <3>2. file[to + 2] # "a"
      BY <2>5, <2>10, CharactersDiffer, Zenon DEF EndsName
    <3>3. Bare(file, to, to + 2)
      <4>1. (to + 2) - 1 = to + 1 /\ to + 2 \in Int /\ to \in Int
        BY <1>6
      <4>. QED
        BY <2>7, <3>2, <4>1, BareStep
    <3>4. Bare(file, to, in'.off) /\ Bare(file, to, in'.off - 1)
      BY <2>5, <2>7, <2>8, <3>1, <3>3
    <3>. QED
      BY <1>1, <1>5, <3>1, <3>4, CharactersDiffer, Zenon DEF AtName, from
  <2>. QED
    BY <1>1, <1>9, <2>9, <2>10, Zenon
<1>. QED
  BY <1>8, <1>9

LEMMA ValueLoses ==
  ASSUME ReadInv, Value, Ended, in.p = file[in.off],
         in.off = cur + 1 => ~EndsValue(flags, in.p)
  PROVE  /\ in'.r = 0 => in'.off = Len(file)
         /\ in'.r # 0 => in'.p = file[in'.off]
         /\ pc' = "value" => cur' = cur /\ (in'.off = cur + 1 => FALSE)
         /\ pc' = "cut" => cur' = cur /\ Length' >= 1
         /\ pc' \in {"value", "cut"}
<1>1. /\ pc = "value" /\ in.r # 0 /\ in' = Get(in) /\ cur' = cur /\ pc' \in {"value", "cut"}
      /\ pc' = "cut" => EndsValue(flags, in.p)
  BY Zenon DEF Value, EndsValue, Key
<1>2. /\ file \in Seq(Characters) /\ in \in Reads /\ cur \in Nat /\ cur + 1 <= in.off
      /\ in.off \in 1 .. Len(file) /\ Len(file) \in Nat
  BY <1>1 DEF ReadInv, Reads
<1>3. /\ in' \in Reads
      /\ in'.r = 0 => in'.off = in.off /\ in.off = Len(file)
      /\ in'.r # 0 => in'.off = in.off + 1 /\ in'.p = file[in.off + 1]
  BY <1>1, <1>2, GetReads, Zenon
<1>4. in.off = cur + 1 => in'.r # 0
  <2>1. in.off = Len(file) => EndsValue(flags, in.p)
    <3>1. file # <<>>
      BY <1>2
    <3>2. file[Len(file)] = "\n"
      BY <3>1 DEF Ended, Last
    <3>. QED
      BY <3>2, CharactersDiffer, Zenon
  <2>. QED
    BY <1>3, <2>1, Zenon
<1>5. in'.off \in Nat /\ in'.r \in {0, 1}
  BY <1>2, <1>3 DEF Reads
<1>6. pc' = "value" => (in'.off = cur + 1 => FALSE)
  BY <1>2, <1>3, <1>4
<1>7. pc' = "cut" => Length' >= 1
  <2> SUFFICES ASSUME pc' = "cut" PROVE Length' >= 1
    OBVIOUS
  <2>1. in.off # cur + 1
    BY <1>1, Zenon
  <2>2. Length' = in'.off - 1 - cur - IF in'.r # 0 THEN 1 ELSE 0
    BY <1>1, Zenon DEF Length
  <2>3. in.off >= cur + 2
    BY <1>2, <2>1
  <2>. QED
    BY <1>2, <1>3, <1>5, <2>2, <2>3
<1>8. /\ in'.r = 0 => in'.off = Len(file)
      /\ in'.r # 0 => in'.p = file[in'.off]
  BY <1>3
<1>. QED
  BY <1>1, <1>6, <1>7, <1>8, Zenon

LEMMA SkipLoses ==
  ASSUME ReadInv, Skip, in.p = file[in.off], Passed(file, calls, Seen(in)),
         comment => Open(file, Seen(in))
  PROVE  /\ in'.r = 0 => in'.off = Len(file)
         /\ in'.r # 0 => in'.p = file[in'.off]
         /\ Passed(file, calls, Seen(in'))
         /\ comment' => Open(file, Seen(in'))
<1>1. /\ pc = "skip" /\ in.r # 0 /\ in' = Get(in)
      /\ comment' = (in.p = "#" \/ (comment /\ in.p # "\n"))
      /\ in.p = "a" => comment
  BY CharactersDiffer, Zenon DEF Skip, Skipped, EndsName
<1>2. file \in Seq(Characters) /\ in \in Reads /\ in.off \in Nat \ {0}
  BY <1>1 DEF ReadInv, Reads
<1>3. /\ in' \in Reads
      /\ in'.r = 0 => in'.off = in.off /\ in.off = Len(file)
      /\ in'.r # 0 => in'.off = in.off + 1 /\ in'.p = file[in.off + 1]
  BY <1>1, <1>2, GetReads, Zenon
<1>4. Seen(in) = in.off - 1 /\ Seen(in') = in.off
  BY <1>1, <1>2, <1>3 DEF Seen
<1>5. file[in.off] = "a" => Kept(file, calls, in.off)
  <2> SUFFICES ASSUME file[in.off] = "a" PROVE Kept(file, calls, in.off)
    OBVIOUS
  <2>1. Open(file, in.off - 1) /\ file[in.off] # "\n"
    BY <1>1, <1>4, CharactersDiffer, Zenon
  <2>. QED
    BY <1>2, <2>1, OpenStep, OpenIsKept
<1>6. Passed(file, calls, in.off)
  BY <1>2, <1>4, <1>5, PassedStep
<1>7. comment' => Open(file, in.off)
  <2>1. /\ file[in.off] = "#" => Open(file, in.off)
        /\ Open(file, in.off - 1) /\ file[in.off] # "\n" => Open(file, in.off)
    BY <1>2, OpenStep
  <2>. QED
    BY <1>1, <1>4, <2>1, Zenon
<1>8. /\ in'.r = 0 => in'.off = Len(file)
      /\ in'.r # 0 => in'.p = file[in'.off]
  BY <1>3
<1>. QED
  BY <1>4, <1>6, <1>7, <1>8, Zenon

LEMMA CallLoses ==
  ASSUME Told, unknown, dir.from \in Int, dir.to \in Int, val.from \in Int, val.to \in Int,
         Passed(file, calls, dir.from), Bare(file, dir.to, val.from),
         calls' = calls \o [i \in DOMAIN Handlers |-> CallOf(Handlers[i])]
  PROVE  Passed(file, calls', val.to)
<1> DEFINE m == Len(Handlers)
           g == [i \in DOMAIN Handlers |-> CallOf(Handlers[i])]
<1>1. m \in Nat \ {0} /\ DOMAIN Handlers = 1 .. m
  BY SomeHandler DEF Told
<1>2. g \in [1 .. m -> {CallOf(Handlers[i]) : i \in 1 .. m}] /\ g[1] = CallOf(Handlers[1])
  BY <1>1
<1>3. calls \in Seq(Range(calls)) /\ m \in Nat /\ m > 0
  BY <1>1 DEF Told
<1> HIDE DEF m, g
<1>4. calls' = calls \o g
  BY Zenon DEF g
<1>5. /\ Extends(calls, calls')
      /\ Len(calls) + 1 \in DOMAIN calls' /\ calls'[Len(calls) + 1] = CallOf(Handlers[1])
  BY <1>2, <1>3, <1>4, LongerSeq, Zenon
<1> DEFINE c == calls'[Len(calls) + 1]
<1>6. c = CallOf(Handlers[1])
  BY <1>5, Zenon
<1> HIDE DEF c
<1>7. c.dir = dir /\ c.val = val
  BY <1>6 DEF CallOf
<1>8. /\ c.dir.from = dir.from /\ c.dir.to = dir.to
      /\ c.val.from = val.from /\ c.val.to = val.to
  BY <1>7, Zenon
<1>9. Len(calls) + 1 \in DOMAIN calls' /\ Extends(calls, calls')
  BY <1>5, Zenon
<1>. QED
  BY <1>8, <1>9, TellsAll, Zenon DEF c

LEMMA LossInit == Init => LossInv
<1> SUFFICES ASSUME Init PROVE LossInv
  OBVIOUS
<1>1. Told
  <2>1. PICK t \in Tables : options = t[1]
    BY Zenon DEF Init
  <2>2. options \in Seq(Range(options))
    BY <2>1, TablesAssumption
  <2>3. calls = <<>>
    BY Zenon DEF Init
  <2>4. \A T : <<>> \in Seq(T)
    OBVIOUS
  <2>. QED
    BY <2>2, <2>3, <2>4, Zenon DEF Told
<1>2. /\ in.off = 0 /\ in.r = 1 /\ pc \in {"begin", "refused"} /\ ~comment
  BY DEF Init
<1>3. Passed(file, calls, 0)
  BY DEF Passed
<1>. QED
  BY <1>1, <1>2, <1>3 DEF LossInv, KeepsInv

LEMMA ToldStep == Told /\ [Next]_vars => Told'
<1> SUFFICES ASSUME Told, [Next]_vars PROVE Told'
  OBVIOUS
<1>1. options' = options
  BY Zenon DEF Next, Parse, Begin, Skip, EndOfFile, Directive, ToValue, Value, ValueAtEnd,
     CountsForever, Cut, Call, NoAssignment, Finished, vars, input
<1>2. CASE calls' = calls
  BY <1>1, <1>2 DEF Told, Range
<1>3. CASE Call
  <2>1. ASSUME NEW m \in Nat, NEW T, NEW g \in [1 .. m -> T], calls' = calls \o g
        PROVE  Told'
    <3>1. calls \in Seq(Range(calls)) /\ options \in Seq(Range(options))
      BY DEF Told
    <3>2. calls' \in Seq(Range(calls'))
      BY <2>1, <3>1, LongerSeq, Zenon
    <3>. QED
      BY <1>1, <3>1, <3>2, Zenon DEF Told
  <2>2. CASE calls' = calls \o [i \in DOMAIN Handlers |-> CallOf(Handlers[i])]
    <3>1. \E m \in Nat : DOMAIN Handlers = 1 .. m
      <4>1. Matching \in Seq(Nat) /\ \A j : <<j>> \in Seq({j}) /\ <<>> \in Seq({j})
        BY MatchingIsSeq DEF Told
      <4>2. \E T : Handlers \in Seq(T)
        BY <4>1, Zenon DEF Handlers
      <4>. QED
        BY <4>2
    <3>2. PICK m \in Nat : DOMAIN Handlers = 1 .. m
      BY <3>1
    <3> DEFINE g == [i \in DOMAIN Handlers |-> CallOf(Handlers[i])]
    <3>3. g \in [1 .. m -> {CallOf(Handlers[i]) : i \in 1 .. m}]
      BY <3>2
    <3>4. calls' = calls \o g
      BY <2>2
    <3> HIDE DEF g
    <3>. QED
      BY <2>1, <3>2, <3>3, <3>4, Zenon
  <2>3. CASE \E last \in DOMAIN Handlers :
                calls' = calls \o [i \in 1 .. last |-> CallOf(Handlers[i])]
    <3>1. DOMAIN Handlers \subseteq Nat
      <4>1. Matching \in Seq(Nat) /\ \A j : <<j>> \in Seq({j}) /\ <<>> \in Seq({j})
        BY MatchingIsSeq DEF Told
      <4>2. \E T : Handlers \in Seq(T)
        BY <4>1, Zenon DEF Handlers
      <4>. QED
        BY <4>2
    <3>2. PICK last \in DOMAIN Handlers : calls' = calls \o [i \in 1 .. last |-> CallOf(Handlers[i])]
      BY <2>3
    <3>3. last \in Nat
      BY <3>1
    <3> DEFINE g == [i \in 1 .. last |-> CallOf(Handlers[i])]
    <3>4. g \in [1 .. last -> {CallOf(Handlers[i]) : i \in 1 .. last}]
      OBVIOUS
    <3>5. calls' = calls \o g
      BY <3>2
    <3> HIDE DEF g
    <3>. QED
      BY <2>1, <3>3, <3>4, <3>5, Zenon
  <2>. QED
    BY <1>3, <2>2, <2>3, Zenon DEF Call
<1>. QED
  BY <1>2, <1>3, Zenon DEF Next, Parse, Begin, Skip, EndOfFile, Directive, ToValue, Value,
     ValueAtEnd, CountsForever, Cut, Call, NoAssignment, Finished, vars

LEMMA LossStep == ReadInv /\ LossInv /\ [Next]_vars => LossInv'
<1> SUFFICES ASSUME ReadInv, LossInv, [Next]_vars PROVE LossInv'
  OBVIOUS
<1>1. Told /\ Told'
  BY ToldStep DEF LossInv
<1> SUFFICES ASSUME Ended', unknown' PROVE KeepsInv'
  BY <1>1, Zenon DEF LossInv
<1>2. file' = file /\ flags' = flags /\ unknown' = unknown
  BY Zenon DEF Next, Parse, Begin, Skip, EndOfFile, Directive, ToValue, Value, ValueAtEnd,
     CountsForever, Cut, Call, NoAssignment, Finished, vars, input
<1>3. Ended /\ unknown
  BY <1>2, Zenon DEF Ended
<1>4. KeepsInv
  BY <1>3, Zenon DEF LossInv
<1>5. /\ file \in Seq(Characters) /\ Len(file) \in Nat
      /\ in \in Reads /\ in.off \in Nat /\ in.off <= Len(file) /\ in.r \in {0, 1}
  BY DEF ReadInv, Reads
<1>6. CASE Begin
  <2>1. /\ pc = "begin" /\ comment' = comment /\ calls' = calls
        /\ \/ in.r = 0 /\ pc' = "done" /\ in' = in
           \/ in.r # 0 /\ pc' = "skip" /\ in' = Get(in)
    BY <1>6, Zenon DEF Begin
  <2>2. Passed(file, calls, in.off) /\ ~comment /\ (in.r = 0 => in.off = Len(file))
    BY <1>4, <2>1 DEF KeepsInv
  <2>3. CASE in.r = 0 /\ pc' = "done" /\ in' = in
    BY <1>2, <2>1, <2>2, <2>3 DEF KeepsInv
  <2>4. CASE pc' = "skip" /\ in' = Get(in)
    <3>1. /\ in'.r = 0 => in'.off = in.off /\ in.off = Len(file)
          /\ in'.r # 0 => in'.off = in.off + 1 /\ in'.p = file[in.off + 1]
      BY <1>5, <2>4, GetReads, Zenon
    <3>2. Seen(in') = in.off
      BY <1>5, <3>1 DEF Seen
    <3>3. in'.r # 0 => in'.p = file[in'.off]
      BY <3>1
    <3>. QED
      BY <1>2, <2>1, <2>2, <2>4, <3>1, <3>2, <3>3 DEF KeepsInv
  <2>. QED
    BY <2>1, <2>3, <2>4
<1>7. CASE Skip
  <2>1. pc = "skip" /\ pc' = "skip" /\ in.r # 0 /\ calls' = calls
    BY <1>7, Zenon DEF Skip
  <2>2. in.p = file[in.off] /\ Passed(file, calls, Seen(in)) /\ (comment => Open(file, Seen(in)))
    BY <1>4, <2>1 DEF KeepsInv
  <2>3. /\ in'.r = 0 => in'.off = Len(file)
        /\ in'.r # 0 => in'.p = file[in'.off]
        /\ Passed(file, calls, Seen(in'))
        /\ comment' => Open(file, Seen(in'))
    BY <1>7, <2>2, SkipLoses
  <2>. QED
    BY <1>2, <2>1, <2>3 DEF KeepsInv
<1>8. CASE EndOfFile
  <2>1. /\ pc = "skip" /\ in.r = 0 /\ pc' = "done" /\ in' = in /\ calls' = calls
    BY <1>8, Zenon DEF EndOfFile
  <2>2. Seen(in) = Len(file) /\ in.off = Len(file) /\ Passed(file, calls, Seen(in))
    BY <1>4, <1>5, <2>1 DEF KeepsInv, Seen
  <2>. QED
    BY <1>2, <2>1, <2>2 DEF KeepsInv
<1>9. CASE Directive
  <2>1. /\ pc = "skip" /\ in.r # 0 /\ pc' \in {"crashed", "tovalue"} /\ calls' = calls /\ comment' = comment
    BY <1>9, Zenon DEF Directive
  <2>2. in.p = file[in.off] /\ Passed(file, calls, Seen(in))
    BY <1>4, <2>1 DEF KeepsInv
  <2>3. /\ in'.r # 0 /\ dir'.from = in.off - 1 /\ ~comment
        /\ AtName(file, flags, dir'.to, in')
    BY <1>3, <1>9, <2>2, DirectiveLoses
  <2>4. Passed(file, calls, dir'.from)
    BY <2>1, <2>2, <2>3 DEF Seen
  <2>. QED
    BY <1>2, <2>1, <2>3, <2>4 DEF KeepsInv
<1>10. CASE ToValue
  <2>1. pc = "tovalue" /\ calls' = calls /\ comment' = comment /\ dir' = dir
    BY <1>10, Zenon DEF ToValue
  <2>2. /\ AtName(file, flags, dir.to, in) /\ (in.r = 0 => in.off = Len(file)) /\ ~comment
        /\ Passed(file, calls, dir.from)
    BY <1>4, <2>1 DEF KeepsInv
  <2>3. /\ in'.r = 0 => in'.off = Len(file)
        /\ pc' = "call" => /\ val'.from = in'.off /\ val'.to = in'.off
                           /\ Bare(file, dir.to, in'.off)
        /\ pc' = "value" => /\ cur' = in'.off - 1 /\ Bare(file, dir.to, cur')
                            /\ in'.r # 0 /\ in'.p = file[in'.off] /\ ~EndsValue(flags, in'.p)
        /\ pc' \in {"call", "value"}
    BY <1>10, <2>2, ToValueLoses
  <2>. QED
    BY <1>2, <2>1, <2>2, <2>3 DEF KeepsInv
<1>11. CASE Value
  <2>1. pc = "value" /\ in.r # 0 /\ calls' = calls /\ comment' = comment /\ dir' = dir
    BY <1>11, Zenon DEF Value
  <2>2. /\ in.p = file[in.off] /\ ~comment
        /\ in.off = cur + 1 => ~EndsValue(flags, in.p)
        /\ Bare(file, dir.to, cur) /\ Passed(file, calls, dir.from)
    BY <1>4, <2>1 DEF KeepsInv
  <2>3. /\ in'.r = 0 => in'.off = Len(file)
        /\ in'.r # 0 => in'.p = file[in'.off]
        /\ pc' = "value" => cur' = cur /\ (in'.off = cur + 1 => FALSE)
        /\ pc' = "cut" => cur' = cur /\ Length' >= 1
        /\ pc' \in {"value", "cut"}
    BY <1>3, <1>11, <2>2, ValueLoses
  <2>. QED
    BY <1>2, <2>1, <2>2, <2>3 DEF KeepsInv
<1>12. CASE ValueAtEnd
  <2>1. /\ pc = "value" /\ in.r = 0 /\ pc' = "cut" /\ in' = in /\ cur' = cur
        /\ calls' = calls /\ comment' = comment /\ dir' = dir
    BY <1>12, Zenon DEF ValueAtEnd
  <2>2. /\ Bare(file, dir.to, cur) /\ Passed(file, calls, dir.from) /\ ~comment
        /\ in.off # cur + 1 /\ in.off = Len(file)
    BY <1>4, <2>1 DEF KeepsInv
  <2>3. cur \in Nat /\ cur + 1 <= in.off
    BY <2>1 DEF ReadInv
  <2>4. Length' = in.off - 1 - cur - 0
    BY <2>1 DEF Length
  <2>5. Length' >= 1
    BY <1>5, <2>2, <2>3, <2>4
  <2>. QED
    BY <1>2, <2>1, <2>2, <2>5 DEF KeepsInv
<1>13. CASE Cut
  <2>1. /\ pc = "cut" /\ calls' = calls /\ comment' = comment /\ dir' = dir
        /\ \/ pc' = "crashed" /\ in' = in
           \/ /\ pc' = "call"
              /\ val'.from = cur /\ val'.to = cur + Length
              /\ in' = [in EXCEPT !.off = After(Length), !.r = IF Length > 0 THEN 1 ELSE 0]
    <3>1. ASSUME NEW v, NEW a, NEW b, NEW l, NEW t, v = [from |-> a, to |-> b, longest |-> l, text |-> t, null |-> FALSE]
          PROVE  v.from = a /\ v.to = b
      BY <3>1
    <3>. QED
      BY <1>13, <3>1, Zenon DEF Cut
  <2>2. /\ Bare(file, dir.to, cur) /\ Passed(file, calls, dir.from) /\ ~comment
        /\ Length >= 1 /\ (in.r = 0 => in.off = Len(file))
    BY <1>4, <2>1 DEF KeepsInv
  <2>3. CASE pc' = "crashed" /\ in' = in
    BY <1>2, <2>1, <2>2, <2>3 DEF KeepsInv
  <2>4. CASE pc' = "call"
    <3>1. in' = [in EXCEPT !.off = After(Length), !.r = IF Length > 0 THEN 1 ELSE 0]
      BY <2>1, <2>4
    <3>2. cur \in Nat /\ Length \in Int
      BY <1>5, <2>1 DEF ReadInv, Length
    <3>3. in'.r = 1 /\ in'.off = cur + Length
      BY <1>5, <2>2, <3>1, <3>2 DEF After, Reads
    <3>. QED
      BY <1>2, <2>1, <2>2, <2>4, <3>3 DEF KeepsInv
  <2>. QED
    BY <2>1, <2>3, <2>4
<1>14. CASE Call
  <2>1. /\ pc = "call" /\ comment' = comment /\ in' = in
        /\ \/ /\ pc' = "begin"
              /\ calls' = calls \o [i \in DOMAIN Handlers |-> CallOf(Handlers[i])]
           \/ pc' = "error"
    BY <1>14, Zenon DEF Call
  <2>2. /\ Bare(file, dir.to, val.from) /\ in.off = val.to /\ Passed(file, calls, dir.from)
        /\ ~comment /\ (in.r = 0 => in.off = Len(file))
    BY <1>4, <2>1 DEF KeepsInv
  <2>3. CASE pc' = "begin" /\ calls' = calls \o [i \in DOMAIN Handlers |-> CallOf(Handlers[i])]
    <3>1. dir.from \in Int /\ dir.to \in Int /\ val.from \in Int /\ val.to \in Int
      BY <2>1 DEF ReadInv
    <3>2. Passed(file, calls', val.to)
      BY <1>1, <1>3, <2>2, <2>3, <3>1, CallLoses
    <3>. QED
      BY <1>2, <2>1, <2>2, <2>3, <3>2 DEF KeepsInv
  <2>4. CASE pc' = "error"
    BY <1>2, <2>1, <2>2, <2>4 DEF KeepsInv
  <2>. QED
    BY <2>1, <2>3, <2>4
<1>15. CASE NoAssignment
  <2>1. pc = "call" /\ pc' = "refused" /\ comment' = comment /\ in' = in
    BY <1>15, Zenon DEF NoAssignment
  <2>. QED
    BY <1>2, <1>4, <2>1 DEF KeepsInv
<1>16. CASE CountsForever \/ Finished \/ UNCHANGED vars
  <2>1. UNCHANGED vars
    BY <1>16 DEF CountsForever, Finished
  <2>. QED
    BY <1>4, <2>1, Zenon DEF vars, KeepsInv, Length
<1>. QED
  BY <1>6, <1>7, <1>8, <1>9, <1>10, <1>11, <1>12, <1>13, <1>14, <1>15, <1>16, Zenon DEF Next, Parse

\* What a parser tells of a file whose last line is ended is all that is in it:
\* no letter is jumped over, whatever is quoted, escaped or commented.
THEOREM NothingGetsLost == Spec => []NothingLost
<1>1. ReadInv /\ LossInv => NothingLost
  <2> SUFFICES ASSUME ReadInv, LossInv, pc = "done", unknown, Ended,
                      NEW k \in DOMAIN file, file[k] = "a"
               PROVE  \/ \E i \in DOMAIN calls : Inside(k, calls[i].dir) \/ Inside(k, calls[i].val)
                      \/ \E h \in 1 .. k : file[h] = "#" /\ \A j \in h .. k : file[j] # "\n"
    BY Zenon DEF NothingLost, Ordinary
  <2>1. Passed(file, calls, Len(file))
    BY Zenon DEF LossInv, KeepsInv
  <2>2. k \in 1 .. Len(file)
    BY DEF ReadInv
  <2>3. Kept(file, calls, k)
    BY <2>1, <2>2, Zenon DEF Passed
  <2>. QED
    BY <2>3, Zenon DEF Kept, Open
<1>. QED
  BY <1>1, ReadInit, ReadStep, LossInit, LossStep, PTL DEF Spec
====
