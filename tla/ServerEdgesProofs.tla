------------------------- MODULE ServerEdgesProofs -------------------------
(***************************************************************************)
(* The edges of the server: the listener and the connection pool, for any  *)
(* number of requests, and what is read out of a request before a handler  *)
(* keeps anything of it, for texts, alphabets and limits of any size.      *)
(***************************************************************************)
EXTENDS ServiceLifecycle, RequestInputs, Integers, SequenceTheorems,
        FiniteSetTheorems, WellFoundedInduction, TLAPS

-----------------------------------------------------------------------------
(* Induction. The theorems of the library take the formula to prove as an  *)
(* operator; these take the set of what satisfies it.                      *)

\* A set of naturals that is not empty has a least one.
LEMMA LeastOfNaturals ==
    ASSUME NEW T \in SUBSET Nat, T # {}
    PROVE  \E m \in T : \A k \in T : m <= k
<1>. DEFINE R == OpToRel(<, Nat)
<1>1. IsWellFoundedOn(R, Nat)
  BY NatLessThanWellFounded
<1>2. \A k, m \in Nat : k < m => <<k, m>> \in R
  BY DEF OpToRel
<1>. HIDE DEF R
<1>3. \E m \in T : \A k \in T : <<k, m>> \notin R
  BY <1>1, WFMin
<1>4. \A k, m \in Nat : <<k, m>> \notin R => m <= k
  <2>. TAKE k \in Nat, m \in Nat
  <2>1. k < m => <<k, m>> \in R
    BY <1>2
  <2>. QED BY <2>1
<1>5. \A m \in T, k \in T : <<k, m>> \notin R => m <= k
  BY <1>4
<1>. QED BY <1>3, <1>5

\* A set that holds 0 and with every natural the next holds them all.
LEMMA NatSetInduction ==
    ASSUME NEW T, 0 \in T, \A n \in Nat : n \in T => n + 1 \in T
    PROVE  Nat \subseteq T
<1>1. SUFFICES ASSUME Nat \ T # {} PROVE FALSE
  OBVIOUS
<1>2. PICK m \in Nat \ T : \A k \in Nat \ T : m <= k
  BY <1>1, LeastOfNaturals
<1>3. m # 0 /\ m - 1 \in Nat /\ m - 1 \in T
  BY <1>2
<1>. QED BY <1>2, <1>3

\* The same for sequences and Append.
LEMMA SeqSetInduction ==
    ASSUME NEW S, NEW T, <<>> \in T,
           \A s \in Seq(S) : s \in T => \A e \in S : Append(s, e) \in T
    PROVE  Seq(S) \subseteq T
<1>. DEFINE L == {n \in Nat : \A s \in Seq(S) : Len(s) = n => s \in T}
<1>1. 0 \in L
  BY EmptySeq
<1>2. ASSUME NEW n \in Nat, n \in L PROVE n + 1 \in L
  <2>1. SUFFICES ASSUME NEW s \in Seq(S), Len(s) = n + 1 PROVE s \in T
    OBVIOUS
  <2>2. s # <<>>
    BY <2>1, EmptySeq
  <2>3. PICK front \in Seq(S), e \in S : s = Append(front, e)
    BY <2>2, SequenceEmptyOrAppend
  <2>4. Len(front) = n
    BY <2>1, <2>3, AppendProperties, LenProperties
  <2>. QED BY <1>2, <2>3, <2>4
<1>. HIDE DEF L
<1>3. Nat \subseteq L
  BY <1>1, <1>2, NatSetInduction
<1>. QED BY <1>3, LenProperties DEF L

\* Primitive recursion up to L defines a function, whose values are in S
\* when the first is and each step d stays there.
StepsWithin(S, c, L, d) == c \in S /\ L \in Nat /\ d \in [S \X (1 .. L) -> S]

LEMMA RecursionExists ==
    ASSUME NEW S, NEW c, NEW L, NEW d, StepsWithin(S, c, L, d)
    PROVE  \E g \in [0 .. L -> S] :
              g[0] = c /\ \A n \in 1 .. L : g[n] = d[<<g[n - 1], n>>]
<1>. USE DEF StepsWithin
<1>. DEFINE Upto(m) == \E g \in [0 .. m -> S] :
                          g[0] = c /\ \A n \in 1 .. m : g[n] = d[<<g[n - 1], n>>]
            T == {m \in Nat : m <= L => Upto(m)}
<1>1. 0 \in T
  <2>. DEFINE g == [n \in 0 .. 0 |-> c]
  <2>1. g \in [0 .. 0 -> S] /\ g[0] = c /\ \A n \in 1 .. 0 : g[n] = d[<<g[n - 1], n>>]
    OBVIOUS
  <2>. HIDE DEF g
  <2>. QED BY <2>1
<1>2. ASSUME NEW m \in Nat, m \in T PROVE m + 1 \in T
  <2>1. SUFFICES ASSUME m + 1 <= L PROVE Upto(m + 1)
    OBVIOUS
  <2>2. PICK g \in [0 .. m -> S] : g[0] = c /\ \A n \in 1 .. m : g[n] = d[<<g[n - 1], n>>]
    BY <1>2, <2>1
  <2>. DEFINE h == [n \in 0 .. m + 1 |-> IF n = m + 1 THEN d[<<g[m], m + 1>>] ELSE g[n]]
  <2>3. d[<<g[m], m + 1>>] \in S
    BY <2>1
  <2>4. h \in [0 .. m + 1 -> S]
    BY <2>3
  <2>5. h[0] = c /\ h[m + 1] = d[<<h[m], m + 1>>] /\ \A n \in 0 .. m : h[n] = g[n]
    BY <2>2
  <2>6. \A n \in 1 .. m + 1 : h[n] = d[<<h[n - 1], n>>]
    <3>. HIDE DEF h
    <3>. TAKE n \in 1 .. m + 1
    <3>1. CASE n = m + 1
      BY <2>5, <3>1
    <3>2. CASE n # m + 1
      BY <2>2, <2>5, <3>2
    <3>. QED BY <3>1, <3>2
  <2>. HIDE DEF h
  <2>. QED BY <2>4, <2>5, <2>6
<1>. HIDE DEF T
<1>3. L \in T
  BY <1>1, <1>2, NatSetInduction
<1>. QED BY <1>3 DEF T

\* Two functions that start alike and step alike are alike.
StepAlike(L, g, h) ==
    /\ L \in Nat /\ g[0] = h[0]
    /\ \A n \in 1 .. L : g[n - 1] = h[n - 1] => g[n] = h[n]

LEMMA RecursionIsUnique ==
    ASSUME NEW L, NEW g, NEW h, StepAlike(L, g, h)
    PROVE  \A n \in 0 .. L : g[n] = h[n]
<1>. USE DEF StepAlike
<1>. DEFINE T == {n \in Nat : n <= L => g[n] = h[n]}
<1>1. 0 \in T
  OBVIOUS
<1>2. ASSUME NEW n \in Nat, n \in T PROVE n + 1 \in T
  BY <1>2
<1>. HIDE DEF T
<1>3. Nat \subseteq T
  BY <1>1, <1>2, NatSetInduction
<1>. QED BY <1>3 DEF T

-----------------------------------------------------------------------------
(* Texts: what Bytes, Split and Join compute, as equations for one more    *)
(* character and one more word.                                            *)

Letter    == Char \ {Space}
WordLists == Seq(Seq(Letter)) \ {<<>>}

\* Extend writes at the end of the last word.
LEMMA ExtendType ==
    ASSUME NEW ws \in WordLists, NEW c \in Letter
    PROVE  /\ Extend(ws, c) \in WordLists
           /\ Len(Extend(ws, c)) = Len(ws)
           /\ \A i \in 1 .. Len(ws) :
                 Extend(ws, c)[i] = IF i = Len(ws) THEN Append(ws[i], c) ELSE ws[i]
<1>1. Len(ws) \in 1 .. Len(ws) /\ ws \in Seq(Seq(Letter))
  <2>1. Len(ws) \in Nat \ {0}
    BY EmptySeq DEF WordLists
  <2>. QED BY <2>1 DEF WordLists
<1>2. ws[Len(ws)] \in Seq(Letter)
  BY <1>1, ElementOfSeq
<1>3. Append(ws[Len(ws)], c) \in Seq(Letter)
  BY <1>2, AppendProperties
<1>4. /\ Extend(ws, c) \in Seq(Seq(Letter))
      /\ Len(Extend(ws, c)) = Len(ws)
      /\ \A i \in 1 .. Len(ws) :
            Extend(ws, c)[i] = IF i = Len(ws) THEN Append(ws[i], c) ELSE ws[i]
  BY <1>1, <1>3, ExceptSeq DEF Extend
<1>5. Len(ws) # 0
  BY <1>1, LenProperties
<1>. QED BY <1>4, <1>5 DEF WordLists

\* The words of a text, a character at a time.
SplitStep(ws, c) == IF c = Space THEN Append(ws, <<>>) ELSE Extend(ws, c)

\* A character more leaves a list of words that is not empty.
LEMMA SplitStepType ==
    ASSUME NEW ws \in WordLists, NEW c \in Char
    PROVE  SplitStep(ws, c) \in WordLists
<1>1. Append(ws, <<>>) \in WordLists
  BY AppendProperties, EmptySeq DEF WordLists
<1>2. c # Space => Extend(ws, c) \in WordLists
  BY ExtendType DEF Letter
<1>. QED BY <1>1, <1>2 DEF SplitStep

SplitUpTo(g, s) ==
    g = [n \in 0 .. Len(s) |-> IF n = 0 THEN << <<>> >> ELSE SplitStep(g[n - 1], s[n])]

\* Split is the recursion of these steps.
LEMMA SplitUpToSteps ==
    ASSUME NEW s \in Seq(Char), NEW g, SplitUpTo(g, s)
    PROVE  g[0] = << <<>> >> /\ \A n \in 1 .. Len(s) : g[n] = SplitStep(g[n - 1], s[n])
<1>1. \A n \in 0 .. Len(s) : g[n] = IF n = 0 THEN << <<>> >> ELSE SplitStep(g[n - 1], s[n])
  BY DEF SplitUpTo
<1>. QED BY <1>1, LenProperties

\* That recursion has exactly one solution.
LEMMA SplitIsRecursion ==
    ASSUME NEW s \in Seq(Char)
    PROVE  \E g \in [0 .. Len(s) -> WordLists] :
              /\ Split(s) = g[Len(s)] /\ g[0] = << <<>> >>
              /\ \A n \in 1 .. Len(s) : g[n] = SplitStep(g[n - 1], s[n])
<1>. DEFINE d == [p \in WordLists \X (1 .. Len(s)) |-> SplitStep(p[1], s[p[2]])]
<1>1. Len(s) \in Nat /\ \A n \in 1 .. Len(s) : s[n] \in Char
  BY LenProperties
<1>2. << <<>> >> \in WordLists
  BY DEF WordLists
<1>3. d \in [WordLists \X (1 .. Len(s)) -> WordLists]
  BY <1>1, SplitStepType
<1>4. PICK h \in [0 .. Len(s) -> WordLists] :
             h[0] = << <<>> >> /\ \A n \in 1 .. Len(s) : h[n] = d[<<h[n - 1], n>>]
  <2>. DEFINE c == << <<>> >>
  <2>. HIDE DEF d, c
  <2>1. \E h \in [0 .. Len(s) -> WordLists] :
           h[0] = c /\ \A n \in 1 .. Len(s) : h[n] = d[<<h[n - 1], n>>]
    <3>1. StepsWithin(WordLists, c, Len(s), d)
      BY <1>1, <1>2, <1>3 DEF StepsWithin, c
    <3>. QED BY <3>1, RecursionExists
  <2>. QED BY <2>1 DEF c
<1>5. \A n \in 1 .. Len(s) : h[n] = SplitStep(h[n - 1], s[n])
  <2>. TAKE n \in 1 .. Len(s)
  <2>1. h[n] = d[<<h[n - 1], n>>]
    <3>. HIDE DEF d
    <3>. QED BY <1>4
  <2>2. <<h[n - 1], n>> \in WordLists \X (1 .. Len(s))
    BY <1>1
  <2>. QED BY <2>1, <2>2
<1>6. SplitUpTo(h, s)
  <2>1. \A n \in 0 .. Len(s) : h[n] = IF n = 0 THEN << <<>> >> ELSE SplitStep(h[n - 1], s[n])
    BY <1>1, <1>4, <1>5, SMTT(30)
  <2>. QED BY <2>1 DEF SplitUpTo
<1>. DEFINE g == CHOOSE g : SplitUpTo(g, s)
<1>7. SplitUpTo(g, s)
  BY <1>6
<1>8. Split(s) = g[Len(s)]
  BY DEF Split, SplitUpTo, SplitStep
<1>. HIDE DEF g, d
<1>9. \A n \in 0 .. Len(s) : g[n] = h[n]
  <2>1. g[0] = << <<>> >> /\ \A n \in 1 .. Len(s) : g[n] = SplitStep(g[n - 1], s[n])
    BY <1>7, SplitUpToSteps
  <2>2. StepAlike(Len(s), g, h)
    BY <1>1, <1>4, <1>5, <2>1 DEF StepAlike
  <2>. QED BY <2>2, RecursionIsUnique
<1>. QED BY <1>1, <1>4, <1>5, <1>8, <1>9

\* The empty text is one empty word.
LEMMA SplitEmpty == Split(<<>>) = << <<>> >>
<1>1. <<>> \in Seq(Char) /\ Len(<<>>) = 0
  BY EmptySeq
<1>. QED BY <1>1, SplitIsRecursion

\* What Split returns.
LEMMA SplitType ==
    ASSUME NEW s \in Seq(Char)
    PROVE  Split(s) \in WordLists
BY SplitIsRecursion, LenProperties

\* One character more is one step more.
LEMMA SplitAppend ==
    ASSUME NEW s \in Seq(Char), NEW c \in Char
    PROVE  Split(Append(s, c)) = SplitStep(Split(s), c)
<1>. DEFINE t == Append(s, c)
<1>1. /\ t \in Seq(Char) /\ Len(t) = Len(s) + 1 /\ Len(s) \in Nat
      /\ t[Len(s) + 1] = c /\ \A n \in 1 .. Len(s) : t[n] = s[n]
  BY AppendProperties, LenProperties
<1>. HIDE DEF t
<1>2. PICK g : /\ Split(s) = g[Len(s)] /\ g[0] = << <<>> >>
               /\ \A n \in 1 .. Len(s) : g[n] = SplitStep(g[n - 1], s[n])
  BY SplitIsRecursion
<1>3. PICK h : /\ Split(t) = h[Len(t)] /\ h[0] = << <<>> >>
               /\ \A n \in 1 .. Len(t) : h[n] = SplitStep(h[n - 1], t[n])
  BY <1>1, SplitIsRecursion
<1>4. StepAlike(Len(s), g, h)
  BY <1>1, <1>2, <1>3 DEF StepAlike
<1>5. \A n \in 0 .. Len(s) : g[n] = h[n]
  BY <1>4, RecursionIsUnique
<1>6. Len(t) \in 1 .. Len(t) /\ Len(t) - 1 = Len(s)
  BY <1>1
<1>7. h[Len(t)] = SplitStep(h[Len(s)], c)
  BY <1>1, <1>3, <1>6
<1>. QED BY <1>1, <1>2, <1>3, <1>5, <1>7 DEF t

\* Every character has a byte at least.
LEMMA BytesCountCharacters ==
    ASSUME NEW s \in Seq(Char)
    PROVE  Bytes(s) \in Nat /\ Len(s) <= Bytes(s)
<1>. DEFINE d == [p \in Nat \X (1 .. Len(s)) |-> p[1] + Width[s[p[2]]]]
            IsSum(g) == g = [n \in 0 .. Len(s) |-> IF n = 0 THEN 0 ELSE g[n - 1] + Width[s[n]]]
<1>1. Len(s) \in Nat /\ \A n \in 1 .. Len(s) : Width[s[n]] \in Nat \ {0}
  BY LenProperties, CharactersAreSane
<1>2. PICK h \in [0 .. Len(s) -> Nat] :
             h[0] = 0 /\ \A n \in 1 .. Len(s) : h[n] = d[<<h[n - 1], n>>]
  <2>1. StepsWithin(Nat, 0, Len(s), d)
    BY <1>1 DEF StepsWithin
  <2>. HIDE DEF d
  <2>. QED BY <2>1, RecursionExists
<1>3. \A n \in 1 .. Len(s) : h[n] = h[n - 1] + Width[s[n]]
  <2>. TAKE n \in 1 .. Len(s)
  <2>1. h[n] = d[<<h[n - 1], n>>]
    <3>. HIDE DEF d
    <3>. QED BY <1>2
  <2>2. <<h[n - 1], n>> \in Nat \X (1 .. Len(s))
    <3>1. n - 1 \in 0 .. Len(s)
      BY <1>1
    <3>. HIDE DEF d
    <3>. QED BY <1>2, <3>1
  <2>. QED BY <2>1, <2>2
<1>4. IsSum(h)
  <2>1. \A n \in 0 .. Len(s) : h[n] = IF n = 0 THEN 0 ELSE h[n - 1] + Width[s[n]]
    BY <1>1, <1>2, <1>3
  <2>. QED BY <2>1
<1>. DEFINE g == CHOOSE g : IsSum(g)
<1>5. Bytes(s) = g[Len(s)]
  BY DEF Bytes
<1>6. IsSum(g)
  <2>. HIDE DEF IsSum
  <2>. QED BY <1>4
<1>. HIDE DEF g
<1>7. \A n \in 0 .. Len(s) : g[n] = IF n = 0 THEN 0 ELSE g[n - 1] + Width[s[n]]
  BY <1>6
<1>. DEFINE T == {n \in Nat : n <= Len(s) => g[n] \in Nat /\ n <= g[n]}
<1>8. 0 \in T
  BY <1>1, <1>7
<1>9. ASSUME NEW n \in Nat, n \in T PROVE n + 1 \in T
  <2>1. SUFFICES ASSUME n + 1 <= Len(s) PROVE g[n + 1] \in Nat /\ n + 1 <= g[n + 1]
    OBVIOUS
  <2>2. g[n + 1] = g[n] + Width[s[n + 1]] /\ Width[s[n + 1]] \in Nat \ {0}
    BY <1>1, <1>7, <2>1
  <2>. QED BY <1>9, <2>1, <2>2
<1>. HIDE DEF T
<1>10. Len(s) \in T
  BY <1>1, <1>8, <1>9, NatSetInduction
<1>. QED BY <1>1, <1>5, <1>10 DEF T

\* The text of some words, a word at a time.
JoinStep(s, w) == s \o <<Space>> \o w

\* A word more leaves a text.
LEMMA JoinStepType ==
    ASSUME NEW s \in Seq(Char), NEW w \in Seq(Char)
    PROVE  /\ JoinStep(s, w) \in Seq(Char)
           /\ Len(JoinStep(s, w)) = Len(s) + 1 + Len(w)
           /\ JoinStep(s, w)[Len(s) + 1] = Space
           /\ \A i \in 1 .. Len(s) : JoinStep(s, w)[i] = s[i]
           /\ \A i \in 1 .. Len(w) : JoinStep(s, w)[Len(s) + 1 + i] = w[i]
<1>1. Len(s) \in Nat /\ Len(w) \in Nat
  BY LenProperties
<1>. DEFINE o == <<Space>>
<1>2. o \in Seq(Char) /\ Len(o) = 1 /\ o[1] = Space
  BY CharactersAreSane
<1>. HIDE DEF o
<1>3. /\ s \o o \in Seq(Char) /\ Len(s \o o) = Len(s) + Len(o)
      /\ \A i \in 1 .. Len(s) + Len(o) : (s \o o)[i] = IF i <= Len(s) THEN s[i] ELSE o[i - Len(s)]
  BY <1>2, ConcatProperties
<1>. DEFINE p == s \o o
<1>4. /\ p \in Seq(Char) /\ Len(p) = Len(s) + 1
      /\ p[Len(s) + 1] = Space /\ \A i \in 1 .. Len(s) : p[i] = s[i]
  BY <1>1, <1>2, <1>3
<1>. HIDE DEF p
<1>5. /\ p \o w \in Seq(Char) /\ Len(p \o w) = Len(p) + Len(w)
      /\ \A i \in 1 .. Len(p) + Len(w) : (p \o w)[i] = IF i <= Len(p) THEN p[i] ELSE w[i - Len(p)]
  BY <1>4, ConcatProperties
<1>6. JoinStep(s, w) = p \o w
  BY DEF JoinStep, p, o
<1>. QED BY <1>1, <1>4, <1>5, <1>6

\* Join is the recursion of these steps.
LEMMA JoinIsRecursion ==
    ASSUME NEW ws \in Seq(Seq(Char)), ws # <<>>
    PROVE  \E g \in [0 .. Len(ws) - 1 -> Seq(Char)] :
              /\ Join(ws) = g[Len(ws) - 1] /\ g[0] = ws[1]
              /\ \A n \in 1 .. Len(ws) - 1 : g[n] = JoinStep(g[n - 1], ws[n + 1])
<1>. DEFINE L == Len(ws) - 1
            d == [p \in Seq(Char) \X (1 .. L) |-> JoinStep(p[1], ws[p[2] + 1])]
            IsText(g) ==
              g = [n \in 0 .. L |-> IF n = 0 THEN ws[1] ELSE JoinStep(g[n - 1], ws[n + 1])]
<1>1. L \in Nat /\ \A n \in 1 .. L + 1 : ws[n] \in Seq(Char)
  <2>1. Len(ws) \in Nat \ {0}
    BY EmptySeq
  <2>. QED BY <2>1, LenProperties
<1>2. PICK h \in [0 .. L -> Seq(Char)] :
             h[0] = ws[1] /\ \A n \in 1 .. L : h[n] = d[<<h[n - 1], n>>]
  <2>1. \A p \in Seq(Char) \X (1 .. L) : JoinStep(p[1], ws[p[2] + 1]) \in Seq(Char)
    <3>. HIDE DEF L
    <3>1. TAKE p \in Seq(Char) \X (1 .. L)
    <3>2. p[1] \in Seq(Char) /\ p[2] + 1 \in 1 .. L + 1
      BY <1>1
    <3>. QED BY <1>1, <3>2, JoinStepType
  <2>2. StepsWithin(Seq(Char), ws[1], L, d)
    <3>. HIDE DEF L
    <3>1. ws[1] \in Seq(Char)
      BY <1>1
    <3>. QED BY <1>1, <2>1, <3>1 DEF StepsWithin
  <2>. HIDE DEF d, L
  <2>. QED BY <2>2, RecursionExists, SMTT(30)
<1>. HIDE DEF L
<1>3. \A n \in 1 .. L : h[n] = JoinStep(h[n - 1], ws[n + 1])
  <2>. TAKE n \in 1 .. L
  <2>1. h[n] = d[<<h[n - 1], n>>]
    <3>. HIDE DEF d
    <3>. QED BY <1>2
  <2>2. <<h[n - 1], n>> \in Seq(Char) \X (1 .. L)
    <3>1. n - 1 \in 0 .. L
      BY <1>1
    <3>. HIDE DEF d
    <3>. QED BY <1>2, <3>1
  <2>. QED BY <2>1, <2>2
<1>4. IsText(h)
  <2>1. \A n \in 0 .. L : h[n] = IF n = 0 THEN ws[1] ELSE JoinStep(h[n - 1], ws[n + 1])
    BY <1>1, <1>2, <1>3
  <2>. QED BY <2>1
<1>. DEFINE g == CHOOSE g : IsText(g)
<1>5. Join(ws) = g[L]
  BY DEF Join, JoinStep, L
<1>6. IsText(g)
  <2>. HIDE DEF IsText
  <2>. QED BY <1>4
<1>. HIDE DEF g, d
<1>7. \A n \in 0 .. L : g[n] = IF n = 0 THEN ws[1] ELSE JoinStep(g[n - 1], ws[n + 1])
  BY <1>6
<1>8. \A n \in 0 .. L : g[n] = h[n]
  <2>1. StepAlike(L, g, h)
    BY <1>1, <1>2, <1>3, <1>7 DEF StepAlike
  <2>. HIDE DEF IsText
  <2>. QED BY <2>1, RecursionIsUnique, ZenonT(60)
<1>9. Join(ws) = h[L] /\ h \in [0 .. L -> Seq(Char)]
  BY <1>1, <1>2, <1>5, <1>8
<1>. QED BY <1>2, <1>3, <1>9 DEF L

\* One word is its own text.
LEMMA JoinOne ==
    ASSUME NEW w \in Seq(Char)
    PROVE  Join(<<w>>) = w
<1>1. <<w>> \in Seq(Seq(Char)) /\ <<w>> # <<>> /\ Len(<<w>>) = 1 /\ <<w>>[1] = w
  OBVIOUS
<1>2. \E g : Join(<<w>>) = g[Len(<<w>>) - 1] /\ g[0] = <<w>>[1]
  BY <1>1, JoinIsRecursion
<1>. QED BY <1>1, <1>2

\* What Join returns.
LEMMA JoinType ==
    ASSUME NEW ws \in Seq(Seq(Char)), ws # <<>>
    PROVE  Join(ws) \in Seq(Char)
<1>1. Len(ws) - 1 \in 0 .. Len(ws) - 1
  BY EmptySeq
<1>. QED BY <1>1, JoinIsRecursion

\* One word more is one step more.
LEMMA JoinAppend ==
    ASSUME NEW ws \in Seq(Seq(Char)), ws # <<>>, NEW w \in Seq(Char)
    PROVE  Join(Append(ws, w)) = JoinStep(Join(ws), w)
<1>. DEFINE vs == Append(ws, w)
            L  == Len(ws)
<1>1. /\ vs \in Seq(Seq(Char)) /\ vs # <<>> /\ Len(vs) = L + 1 /\ L \in Nat \ {0}
      /\ vs[L + 1] = w /\ \A n \in 1 .. L : vs[n] = ws[n]
  BY AppendProperties, EmptySeq, SMTT(30)
<1>. HIDE DEF vs
<1>2. PICK g : /\ Join(ws) = g[L - 1] /\ g[0] = ws[1]
               /\ \A n \in 1 .. L - 1 : g[n] = JoinStep(g[n - 1], ws[n + 1])
  BY JoinIsRecursion
<1>. HIDE DEF L
<1>3. PICK h : /\ Join(vs) = h[L] /\ h[0] = vs[1]
               /\ \A n \in 1 .. L : h[n] = JoinStep(h[n - 1], vs[n + 1])
  <2>1. \E h : /\ Join(vs) = h[Len(vs) - 1] /\ h[0] = vs[1]
               /\ \A n \in 1 .. Len(vs) - 1 : h[n] = JoinStep(h[n - 1], vs[n + 1])
    BY <1>1, JoinIsRecursion, ZenonT(60)
  <2>2. Len(vs) - 1 = L
    BY <1>1
  <2>. QED BY <2>1, <2>2
<1>4. \A n \in 0 .. L - 1 : g[n] = h[n]
  <2>1. StepAlike(L - 1, g, h)
    BY <1>1, <1>2, <1>3 DEF StepAlike
  <2>. QED BY <2>1, RecursionIsUnique
<1>5. h[L] = JoinStep(h[L - 1], w)
  BY <1>1, <1>3
<1>. QED BY <1>1, <1>2, <1>3, <1>4, <1>5 DEF vs

-----------------------------------------------------------------------------
(* Split and Join are inverse to each other.                               *)

\* Words are texts without spaces.
LEMMA WordsAreTexts == Seq(Letter) \subseteq Seq(Char) /\ WordLists \subseteq Seq(Seq(Char))
<1>1. Letter \subseteq Char
  BY DEF Letter
<1>2. Seq(Letter) \subseteq Seq(Char)
  BY <1>1, SeqMonotonic
<1>. QED BY <1>2, SeqMonotonic DEF WordLists

\* The first character of a word.
LEMMA AppendToEmpty ==
    ASSUME NEW S, NEW x \in S
    PROVE  Append(<<>>, x) = <<x>>
OBVIOUS

\* Extend changes the last word of a list.
LEMMA ExtendAppend ==
    ASSUME NEW front \in Seq(Seq(Letter)), NEW last \in Seq(Letter), NEW c \in Letter
    PROVE  Extend(Append(front, last), c) = Append(front, Append(last, c))
<1>. DEFINE ws == Append(front, last)
            new == Append(last, c)
            vs == Append(front, new)
<1>1. new \in Seq(Letter)
  BY AppendProperties
<1>2. /\ ws \in Seq(Seq(Letter)) /\ ws # <<>> /\ Len(ws) = Len(front) + 1 /\ Len(front) \in Nat
      /\ ws[Len(front) + 1] = last /\ \A i \in 1 .. Len(front) : ws[i] = front[i]
  BY AppendProperties, LenProperties
<1>3. /\ vs \in Seq(Seq(Letter)) /\ Len(vs) = Len(front) + 1
      /\ vs[Len(front) + 1] = new /\ \A i \in 1 .. Len(front) : vs[i] = front[i]
  <2>. HIDE DEF new
  <2>. QED BY <1>1, AppendProperties
<1>. HIDE DEF ws, vs
<1>4. ws \in WordLists
  BY <1>2 DEF WordLists
<1>5. /\ Extend(ws, c) \in Seq(Seq(Letter)) /\ Len(Extend(ws, c)) = Len(ws)
      /\ \A i \in 1 .. Len(ws) : Extend(ws, c)[i] = IF i = Len(ws) THEN Append(ws[i], c) ELSE ws[i]
  BY <1>4, ExtendType DEF WordLists
<1>6. \A i \in 1 .. Len(ws) : Extend(ws, c)[i] = vs[i]
  <2>. TAKE i \in 1 .. Len(ws)
  <2>1. CASE i = Len(ws)
    BY <1>2, <1>3, <1>5, <2>1
  <2>2. CASE i # Len(ws)
    <3>1. i \in 1 .. Len(front)
      BY <1>2, <2>2
    <3>2. Extend(ws, c)[i] = ws[i]
      BY <1>5, <2>2
    <3>. QED BY <1>2, <1>3, <3>1, <3>2
  <2>. QED BY <2>1, <2>2
<1>7. Extend(ws, c) = vs
  BY <1>2, <1>3, <1>5, <1>6, SeqEqual
<1>. QED BY <1>7 DEF ws, vs

\* An empty word adds its space.
LEMMA JoinStepEmpty ==
    ASSUME NEW s \in Seq(Char)
    PROVE  JoinStep(s, <<>>) = Append(s, Space)
<1>1. <<>> \in Seq(Char) /\ Len(<<>>) = 0 /\ Len(s) \in Nat /\ Space \in Char
  BY EmptySeq, LenProperties, CharactersAreSane
<1>. DEFINE j == JoinStep(s, <<>>)
            a == Append(s, Space)
<1>2. /\ j \in Seq(Char) /\ Len(j) = Len(s) + 1 /\ j[Len(s) + 1] = Space
      /\ \A i \in 1 .. Len(s) : j[i] = s[i]
  <2>. DEFINE e == <<>>
  <2>1. e \in Seq(Char) /\ Len(e) = 0
    BY <1>1
  <2>. HIDE DEF e
  <2>2. /\ JoinStep(s, e) \in Seq(Char) /\ Len(JoinStep(s, e)) = Len(s) + 1 + Len(e)
        /\ JoinStep(s, e)[Len(s) + 1] = Space
        /\ \A i \in 1 .. Len(s) : JoinStep(s, e)[i] = s[i]
    BY <2>1, JoinStepType
  <2>3. j = JoinStep(s, e)
    BY DEF e
  <2>. HIDE DEF j
  <2>. QED BY <1>1, <2>1, <2>2, <2>3
<1>3. /\ a \in Seq(Char) /\ Len(a) = Len(s) + 1 /\ a[Len(s) + 1] = Space
      /\ \A i \in 1 .. Len(s) : a[i] = s[i]
  BY <1>1, AppendProperties
<1>. HIDE DEF j, a
<1>4. \A i \in 1 .. Len(j) : j[i] = a[i]
  BY <1>1, <1>2, <1>3
<1>5. j = a
  BY <1>2, <1>3, <1>4, SeqEqual
<1>. QED BY <1>5 DEF j, a

\* A longer word makes a text longer at its end.
LEMMA JoinStepAppend ==
    ASSUME NEW s \in Seq(Char), NEW w \in Seq(Char), NEW c \in Char
    PROVE  JoinStep(s, Append(w, c)) = Append(JoinStep(s, w), c)
<1>. DEFINE w2 == Append(w, c)
            j  == JoinStep(s, w)
            j2 == JoinStep(s, w2)
            a  == Append(j, c)
<1>1. /\ w2 \in Seq(Char) /\ Len(w2) = Len(w) + 1 /\ Len(w) \in Nat /\ Len(s) \in Nat
      /\ w2[Len(w) + 1] = c /\ \A i \in 1 .. Len(w) : w2[i] = w[i]
  BY AppendProperties, LenProperties
<1>2. /\ j \in Seq(Char) /\ Len(j) = Len(s) + 1 + Len(w) /\ j[Len(s) + 1] = Space
      /\ \A i \in 1 .. Len(s) : j[i] = s[i]
      /\ \A i \in 1 .. Len(w) : j[Len(s) + 1 + i] = w[i]
  BY JoinStepType
<1>3. /\ j2 \in Seq(Char) /\ Len(j2) = Len(s) + 1 + Len(w2) /\ j2[Len(s) + 1] = Space
      /\ \A i \in 1 .. Len(s) : j2[i] = s[i]
      /\ \A i \in 1 .. Len(w2) : j2[Len(s) + 1 + i] = w2[i]
  <2>. HIDE DEF w2
  <2>. QED BY <1>1, JoinStepType
<1>4. /\ a \in Seq(Char) /\ Len(a) = Len(j) + 1 /\ a[Len(j) + 1] = c
      /\ \A i \in 1 .. Len(j) : a[i] = j[i]
  <2>. HIDE DEF j
  <2>1. j \in Seq(Char)
    BY <1>2
  <2>. QED BY <2>1, AppendProperties
<1>. HIDE DEF w2, j, j2, a
<1>5. \A i \in 1 .. Len(w) + 1 : a[Len(s) + 1 + i] = j2[Len(s) + 1 + i]
  <2>. TAKE i \in 1 .. Len(w) + 1
  <2>1. CASE i = Len(w) + 1
    BY <1>1, <1>2, <1>3, <1>4, <2>1
  <2>2. CASE i # Len(w) + 1
    <3>1. i \in 1 .. Len(w) /\ Len(s) + 1 + i \in 1 .. Len(j)
      BY <1>1, <1>2, <2>2
    <3>. QED BY <1>1, <1>2, <1>3, <1>4, <3>1
  <2>. QED BY <2>1, <2>2
<1>6. \A i \in 1 .. Len(a) : a[i] = j2[i]
  <2>. TAKE i \in 1 .. Len(a)
  <2>1. CASE i <= Len(s)
    <3>1. i \in 1 .. Len(s) /\ i \in 1 .. Len(j)
      BY <1>1, <1>2, <2>1
    <3>. QED BY <1>2, <1>3, <1>4, <3>1
  <2>3. CASE i = Len(s) + 1
    <3>1. i \in 1 .. Len(j)
      BY <1>1, <1>2, <2>3
    <3>. QED BY <1>2, <1>3, <1>4, <2>3, <3>1
  <2>2. CASE i > Len(s) + 1
    <3>1. i - Len(s) - 1 \in 1 .. Len(w) + 1 /\ Len(s) + 1 + (i - Len(s) - 1) = i
      BY <1>1, <1>2, <1>4, <2>2
    <3>. QED BY <1>5, <3>1
  <2>. QED BY <1>1, <2>1, <2>2, <2>3
<1>7. Len(j2) = Len(a)
  BY <1>1, <1>2, <1>3, <1>4
<1>8. j2 = a
  BY <1>3, <1>4, <1>6, <1>7, SeqEqual
<1>. QED BY <1>8 DEF w2, j, j2, a

\* A list of words has a last word, and either no others or a list of them.
LEMMA WordListEnds ==
    ASSUME NEW ws \in WordLists
    PROVE  \E front \in Seq(Seq(Letter)), last \in Seq(Letter) : ws = Append(front, last)
BY SequenceEmptyOrAppend DEF WordLists

\* A character in the last word is a character at the end of the text.
LEMMA JoinExtend ==
    ASSUME NEW ws \in WordLists, NEW c \in Letter
    PROVE  Join(Extend(ws, c)) = Append(Join(ws), c)
<1>1. PICK front \in Seq(Seq(Letter)), last \in Seq(Letter) : ws = Append(front, last)
  BY WordListEnds
<1>2. Append(last, c) \in Seq(Letter) /\ Extend(ws, c) = Append(front, Append(last, c))
  BY <1>1, ExtendAppend, AppendProperties
<1>3. last \in Seq(Char) /\ Append(last, c) \in Seq(Char) /\ c \in Char
  BY <1>2, WordsAreTexts DEF Letter
<1>4. CASE front = <<>>
  <2>1. ws = <<last>> /\ Extend(ws, c) = <<Append(last, c)>>
    BY <1>1, <1>2, <1>4
  <2>. QED BY <1>3, <2>1, JoinOne
<1>5. CASE front # <<>>
  <2>1. front \in Seq(Seq(Char))
    BY <1>5, WordsAreTexts DEF WordLists
  <2>2. Join(front) \in Seq(Char)
    BY <1>5, <2>1, JoinType
  <2>3. Join(ws) = JoinStep(Join(front), last)
    BY <1>1, <1>3, <1>5, <2>1, JoinAppend
  <2>4. Join(Extend(ws, c)) = JoinStep(Join(front), Append(last, c))
    BY <1>2, <1>3, <1>5, <2>1, JoinAppend
  <2>. QED BY <1>3, <2>2, <2>3, <2>4, JoinStepAppend, ZenonT(60)
<1>. QED BY <1>4, <1>5

\* What was split can be joined.
LEMMA JoinOfSplit ==
    ASSUME NEW text0 \in Seq(Char)
    PROVE  Join(Split(text0)) = text0
<1>. DEFINE T == {s \in Seq(Char) : Join(Split(s)) = s}
<1>1. <<>> \in T
  BY EmptySeq, SplitEmpty, JoinOne
<1>2. ASSUME NEW s \in Seq(Char), s \in T, NEW c \in Char PROVE Append(s, c) \in T
  <2>1. Append(s, c) \in Seq(Char) /\ Split(s) \in WordLists
    BY AppendProperties, SplitType
  <2>2. Split(Append(s, c)) = SplitStep(Split(s), c)
    BY SplitAppend
  <2>3. CASE c = Space
    <3>1. Split(s) \in Seq(Seq(Char)) /\ Split(s) # <<>> /\ <<>> \in Seq(Char)
      BY <2>1, WordsAreTexts, EmptySeq DEF WordLists
    <3>2. Join(Append(Split(s), <<>>)) = JoinStep(Join(Split(s)), <<>>)
      BY <3>1, JoinAppend
    <3>3. JoinStep(s, <<>>) = Append(s, c)
      BY <2>3, JoinStepEmpty
    <3>. QED BY <1>2, <2>1, <2>2, <2>3, <3>2, <3>3 DEF SplitStep
  <2>4. CASE c # Space
    BY <1>2, <2>1, <2>2, <2>4, JoinExtend DEF SplitStep, Letter
  <2>. QED BY <2>3, <2>4
<1>. HIDE DEF T
<1>3. Seq(Char) \subseteq T
  BY <1>1, <1>2, SeqSetInduction
<1>. QED BY <1>3 DEF T

\* A space and a word are one word more.
LEMMA SplitStepJoin ==
    ASSUME NEW s \in Seq(Char), NEW word \in Seq(Letter)
    PROVE  Split(JoinStep(s, word)) = Append(Split(s), word)
<1>. DEFINE T == {w \in Seq(Letter) : Split(JoinStep(s, w)) = Append(Split(s), w)}
<1>1. <<>> \in T
  <2>1. Split(Append(s, Space)) = Append(Split(s), <<>>)
    BY SplitAppend, CharactersAreSane DEF SplitStep
  <2>. QED BY <2>1, JoinStepEmpty, EmptySeq
<1>2. ASSUME NEW w \in Seq(Letter), w \in T, NEW c \in Letter PROVE Append(w, c) \in T
  <2>1. Append(w, c) \in Seq(Letter) /\ w \in Seq(Char) /\ c \in Char /\ c # Space
    BY AppendProperties, WordsAreTexts DEF Letter
  <2>2. JoinStep(s, w) \in Seq(Char) /\ Split(s) \in Seq(Seq(Letter))
    BY <2>1, JoinStepType, SplitType DEF WordLists
  <2>3. Split(JoinStep(s, Append(w, c))) = Split(Append(JoinStep(s, w), c))
    BY <2>1, JoinStepAppend
  <2>4. Split(Append(JoinStep(s, w), c)) = Extend(Split(JoinStep(s, w)), c)
    BY <2>1, <2>2, SplitAppend DEF SplitStep
  <2>5. Extend(Append(Split(s), w), c) = Append(Split(s), Append(w, c))
    BY <2>2, ExtendAppend
  <2>. QED BY <1>2, <2>1, <2>3, <2>4, <2>5
<1>. HIDE DEF T
<1>3. Seq(Letter) \subseteq T
  BY <1>1, <1>2, SeqSetInduction
<1>. QED BY <1>3 DEF T

\* A word is not split.
LEMMA SplitWord ==
    ASSUME NEW word \in Seq(Letter)
    PROVE  Split(word) = <<word>>
<1>. DEFINE T == {w \in Seq(Letter) : Split(w) = <<w>>}
<1>1. <<>> \in T
  BY SplitEmpty, EmptySeq
<1>2. ASSUME NEW w \in Seq(Letter), w \in T, NEW c \in Letter PROVE Append(w, c) \in T
  <2>1. Append(w, c) \in Seq(Letter) /\ w \in Seq(Char) /\ c \in Char /\ c # Space
    BY AppendProperties, WordsAreTexts DEF Letter
  <2>2. Split(Append(w, c)) = Extend(<<w>>, c)
    BY <1>2, <2>1, SplitAppend DEF SplitStep
  <2>3. Extend(Append(<<>>, w), c) = Append(<<>>, Append(w, c))
    <3>1. <<>> \in Seq(Seq(Letter))
      BY EmptySeq
    <3>. QED BY <3>1, ExtendAppend
  <2>4. <<w>> = Append(<<>>, w) /\ <<Append(w, c)>> = Append(<<>>, Append(w, c))
    BY <2>1
  <2>. QED BY <2>1, <2>2, <2>3, <2>4
<1>. HIDE DEF T
<1>3. Seq(Letter) \subseteq T
  BY <1>1, <1>2, SeqSetInduction
<1>. QED BY <1>3 DEF T

\* What was joined can be split: words have no spaces.
LEMMA SplitOfJoin ==
    ASSUME NEW words \in WordLists
    PROVE  Split(Join(words)) = words
<1>. DEFINE T == {ws \in Seq(Seq(Letter)) : ws = <<>> \/ Split(Join(ws)) = ws}
<1>1. <<>> \in T
  BY EmptySeq
<1>2. ASSUME NEW ws \in Seq(Seq(Letter)), ws \in T, NEW w \in Seq(Letter) PROVE Append(ws, w) \in T
  <2>1. Append(ws, w) \in Seq(Seq(Letter)) /\ w \in Seq(Char)
    BY AppendProperties, WordsAreTexts
  <2>2. CASE ws = <<>>
    <3>1. Append(ws, w) = <<w>>
      BY <2>2
    <3>2. Split(Join(<<w>>)) = <<w>>
      BY <2>1, JoinOne, SplitWord
    <3>. QED BY <2>1, <3>1, <3>2
  <2>3. CASE ws # <<>>
    <3>1. ws \in Seq(Seq(Char))
      BY <2>3, WordsAreTexts DEF WordLists
    <3>2. Join(Append(ws, w)) = JoinStep(Join(ws), w) /\ Join(ws) \in Seq(Char)
      BY <2>1, <2>3, <3>1, JoinAppend, JoinType
    <3>3. Split(JoinStep(Join(ws), w)) = Append(Split(Join(ws)), w)
      BY <3>2, SplitStepJoin
    <3>. QED BY <1>2, <2>1, <2>3, <3>2, <3>3
  <2>. QED BY <2>2, <2>3
<1>. HIDE DEF T
<1>3. Seq(Seq(Letter)) \subseteq T
  BY <1>1, <1>2, SeqSetInduction
<1>. QED BY <1>3 DEF T, WordLists

-----------------------------------------------------------------------------
(* Lower case, spaces and lengths.                                         *)

\* Lower case keeps the length.
LEMMA ToLowerType ==
    ASSUME NEW S \in {Char, Letter}, NEW s \in Seq(S)
    PROVE  ToLower(s) \in Seq(S) /\ Len(ToLower(s)) = Len(s)
<1>1. \A c \in S : Lower[c] \in S
  BY CharactersAreSane DEF Letter
<1>2. Len(s) \in Nat /\ DOMAIN s = 1 .. Len(s) /\ \A i \in 1 .. Len(s) : s[i] \in S
  BY LenProperties
<1>. QED BY <1>1, <1>2 DEF ToLower

\* Lower case goes a character at a time.
LEMMA ToLowerAppend ==
    ASSUME NEW S \in {Char, Letter}, NEW s \in Seq(S), NEW c \in S
    PROVE  ToLower(Append(s, c)) = Append(ToLower(s), Lower[c])
<1>. DEFINE t == Append(s, c)
            a == Append(ToLower(s), Lower[c])
<1>1. /\ t \in Seq(S) /\ Len(t) = Len(s) + 1 /\ Len(s) \in Nat
      /\ t[Len(s) + 1] = c /\ \A i \in 1 .. Len(s) : t[i] = s[i]
  BY AppendProperties, LenProperties
<1>2. ToLower(s) \in Seq(S) /\ Len(ToLower(s)) = Len(s) /\ Lower[c] \in S
  BY ToLowerType, CharactersAreSane DEF Letter
<1>3. /\ a \in Seq(S) /\ Len(a) = Len(s) + 1 /\ a[Len(s) + 1] = Lower[c]
      /\ \A i \in 1 .. Len(s) : a[i] = ToLower(s)[i]
  BY <1>2, AppendProperties
<1>. HIDE DEF t, a
<1>4. ToLower(t) \in Seq(S) /\ Len(ToLower(t)) = Len(t)
  BY <1>1, ToLowerType
<1>5. /\ \A i \in 1 .. Len(t) : ToLower(t)[i] = Lower[t[i]]
      /\ \A i \in 1 .. Len(s) : ToLower(s)[i] = Lower[s[i]]
  BY <1>1, LenProperties DEF ToLower
<1>6. \A i \in 1 .. Len(t) : ToLower(t)[i] = a[i]
  BY <1>1, <1>3, <1>5
<1>7. ToLower(t) = a
  BY <1>1, <1>3, <1>4, <1>6, SeqEqual
<1>. QED BY <1>7 DEF t, a

\* The words of the lower case are the words in lower case.
LowerWords(ws) == [i \in DOMAIN ws |-> ToLower(ws[i])]

\* As many words, one by one in lower case.
LEMMA LowerWordsType ==
    ASSUME NEW ws \in Seq(Seq(Letter))
    PROVE  /\ LowerWords(ws) \in Seq(Seq(Letter)) /\ Len(LowerWords(ws)) = Len(ws)
           /\ \A i \in 1 .. Len(ws) : LowerWords(ws)[i] = ToLower(ws[i])
<1>1. Len(ws) \in Nat /\ DOMAIN ws = 1 .. Len(ws)
  BY LenProperties
<1>2. \A i \in 1 .. Len(ws) : ToLower(ws[i]) \in Seq(Letter)
  BY LenProperties, ToLowerType
<1>. QED BY <1>1, <1>2 DEF LowerWords

\* A word more in both.
LEMMA LowerWordsAppend ==
    ASSUME NEW ws \in Seq(Seq(Letter)), NEW w \in Seq(Letter)
    PROVE  LowerWords(Append(ws, w)) = Append(LowerWords(ws), ToLower(w))
<1>. DEFINE vs == Append(ws, w)
            lw == LowerWords(ws)
            u  == ToLower(w)
            a  == Append(lw, u)
<1>1. /\ vs \in Seq(Seq(Letter)) /\ Len(vs) = Len(ws) + 1 /\ Len(ws) \in Nat
      /\ vs[Len(ws) + 1] = w /\ \A i \in 1 .. Len(ws) : vs[i] = ws[i]
  BY AppendProperties, LenProperties
<1>2. /\ LowerWords(ws) \in Seq(Seq(Letter)) /\ Len(LowerWords(ws)) = Len(ws)
      /\ \A i \in 1 .. Len(ws) : LowerWords(ws)[i] = ToLower(ws[i])
  BY LowerWordsType
<1>3. ToLower(w) \in Seq(Letter)
  BY ToLowerType
<1>4. /\ a \in Seq(Seq(Letter)) /\ Len(a) = Len(ws) + 1 /\ a[Len(ws) + 1] = ToLower(w)
      /\ \A i \in 1 .. Len(ws) : a[i] = LowerWords(ws)[i]
  <2>1. lw \in Seq(Seq(Letter)) /\ u \in Seq(Letter) /\ Len(lw) = Len(ws)
    BY <1>2, <1>3
  <2>. HIDE DEF lw, u
  <2>2. /\ a \in Seq(Seq(Letter)) /\ Len(a) = Len(ws) + 1 /\ a[Len(ws) + 1] = u
        /\ \A i \in 1 .. Len(ws) : a[i] = lw[i]
    BY <2>1, AppendProperties
  <2>. QED BY <2>2 DEF lw, u
<1>. HIDE DEF vs, a
<1>5. /\ LowerWords(vs) \in Seq(Seq(Letter)) /\ Len(LowerWords(vs)) = Len(vs)
      /\ \A i \in 1 .. Len(vs) : LowerWords(vs)[i] = ToLower(vs[i])
  BY <1>1, LowerWordsType
<1>6. \A i \in 1 .. Len(vs) : LowerWords(vs)[i] = a[i]
  <2>. TAKE i \in 1 .. Len(vs)
  <2>1. CASE i = Len(ws) + 1
    BY <1>1, <1>4, <1>5, <2>1
  <2>2. CASE i # Len(ws) + 1
    <3>1. i \in 1 .. Len(ws)
      BY <1>1, <2>2
    <3>. QED BY <1>1, <1>2, <1>4, <1>5, <3>1
  <2>. QED BY <2>1, <2>2
<1>7. LowerWords(vs) = a
  BY <1>1, <1>4, <1>5, <1>6, SeqEqual
<1>. QED BY <1>7 DEF vs, a, lw, u

\* A character more in the last word of both.
LEMMA LowerWordsExtend ==
    ASSUME NEW ws \in WordLists, NEW c \in Letter
    PROVE  LowerWords(Extend(ws, c)) = Extend(LowerWords(ws), Lower[c])
<1>1. PICK front \in Seq(Seq(Letter)), last \in Seq(Letter) : ws = Append(front, last)
  BY WordListEnds
<1>2. /\ Append(last, c) \in Seq(Letter) /\ ToLower(last) \in Seq(Letter)
      /\ LowerWords(front) \in Seq(Seq(Letter)) /\ Lower[c] \in Letter
  BY AppendProperties, ToLowerType, LowerWordsType, CharactersAreSane DEF Letter
<1>3. Extend(ws, c) = Append(front, Append(last, c))
  BY <1>1, ExtendAppend
<1>4. LowerWords(Extend(ws, c)) = Append(LowerWords(front), ToLower(Append(last, c)))
  BY <1>2, <1>3, LowerWordsAppend
<1>5. ToLower(Append(last, c)) = Append(ToLower(last), Lower[c])
  BY ToLowerAppend
<1>6. LowerWords(ws) = Append(LowerWords(front), ToLower(last))
  BY <1>1, LowerWordsAppend
<1>7. Extend(LowerWords(ws), Lower[c]) = Append(LowerWords(front), Append(ToLower(last), Lower[c]))
  BY <1>2, <1>6, ExtendAppend
<1>. QED BY <1>4, <1>5, <1>7

\* Spaces stay spaces in lower case, so the words are the same.
LEMMA SplitOfLower ==
    ASSUME NEW text0 \in Seq(Char)
    PROVE  Split(ToLower(text0)) = LowerWords(Split(text0))
<1>. DEFINE T == {s \in Seq(Char) : Split(ToLower(s)) = LowerWords(Split(s))}
<1>1. <<>> \in T
  <2>1. ToLower(<<>>) = <<>> /\ <<>> \in Seq(Char) /\ <<>> \in Seq(Letter)
    BY EmptySeq DEF ToLower
  <2>2. LowerWords(<< <<>> >>) = << ToLower(<<>>) >>
    BY DEF LowerWords
  <2>. QED BY <2>1, <2>2, SplitEmpty
<1>2. ASSUME NEW s \in Seq(Char), s \in T, NEW c \in Char PROVE Append(s, c) \in T
  <2>1. /\ Append(s, c) \in Seq(Char) /\ Split(s) \in WordLists /\ Split(s) \in Seq(Seq(Letter))
        /\ ToLower(s) \in Seq(Char) /\ Lower[c] \in Char /\ (Lower[c] = Space <=> c = Space)
    BY AppendProperties, SplitType, ToLowerType, CharactersAreSane DEF WordLists
  <2>2. Split(Append(s, c)) = SplitStep(Split(s), c)
    BY SplitAppend
  <2>3. Split(ToLower(Append(s, c))) = SplitStep(LowerWords(Split(s)), Lower[c])
    <3>1. ToLower(Append(s, c)) = Append(ToLower(s), Lower[c])
      BY ToLowerAppend
    <3>. QED BY <1>2, <2>1, <3>1, SplitAppend
  <2>4. LowerWords(SplitStep(Split(s), c)) = SplitStep(LowerWords(Split(s)), Lower[c])
    <3>1. CASE c = Space
      <4>1. <<>> \in Seq(Letter) /\ ToLower(<<>>) = <<>>
        BY EmptySeq DEF ToLower
      <4>. QED BY <2>1, <3>1, <4>1, LowerWordsAppend DEF SplitStep
    <3>2. CASE c # Space
      BY <2>1, <3>2, LowerWordsExtend DEF SplitStep, Letter
    <3>. QED BY <3>1, <3>2
  <2>. QED BY <2>1, <2>2, <2>3, <2>4
<1>. HIDE DEF T
<1>3. Seq(Char) \subseteq T
  BY <1>1, <1>2, SeqSetInduction
<1>. QED BY <1>3 DEF T

\* A text has one space less than words.
LEMMA SpacesBetweenWords ==
    ASSUME NEW text0 \in Seq(Char)
    PROVE  Spaces(text0) = Len(Split(text0)) - 1
<1>. DEFINE At(s) == {i \in DOMAIN s : s[i] = Space}
            T == {s \in Seq(Char) : IsFiniteSet(At(s)) /\ Cardinality(At(s)) = Len(Split(s)) - 1}
<1>1. <<>> \in T
  <2>1. At(<<>>) = {} /\ <<>> \in Seq(Char)
    BY EmptySeq
  <2>2. Len(Split(<<>>)) - 1 = 0
    BY SplitEmpty
  <2>3. IsFiniteSet(At(<<>>)) /\ Cardinality(At(<<>>)) = 0
    BY <2>1, FS_EmptySet
  <2>. HIDE DEF At
  <2>. QED BY <2>1, <2>2, <2>3
<1>2. ASSUME NEW s \in Seq(Char), s \in T, NEW c \in Char PROVE Append(s, c) \in T
  <2>. DEFINE t == Append(s, c)
  <2>1. /\ t \in Seq(Char) /\ Len(t) = Len(s) + 1 /\ Len(s) \in Nat
        /\ t[Len(s) + 1] = c /\ \A i \in 1 .. Len(s) : t[i] = s[i]
        /\ DOMAIN s = 1 .. Len(s) /\ DOMAIN t = 1 .. Len(t)
    BY AppendProperties, LenProperties
  <2>2. Split(t) = SplitStep(Split(s), c) /\ Split(s) \in WordLists
    BY SplitAppend, SplitType
  <2>. HIDE DEF t
  <2>3. CASE c = Space
    <3>1. At(t) = At(s) \cup {Len(s) + 1} /\ Len(s) + 1 \notin At(s)
      BY <2>1, <2>3
    <3>2. Len(Split(t)) = Len(Split(s)) + 1
      BY <2>2, <2>3, AppendProperties, EmptySeq DEF SplitStep, WordLists
    <3>3. Len(Split(s)) \in Nat
      BY <2>2, LenProperties DEF WordLists
    <3>4. IsFiniteSet(At(t)) /\ Cardinality(At(t)) = Cardinality(At(s)) + 1
      <4>. HIDE DEF At
      <4>1. IsFiniteSet(At(s))
        BY <1>2
      <4>. QED BY <3>1, <4>1, FS_AddElement
    <3>. HIDE DEF At
    <3>. QED BY <1>2, <2>1, <3>2, <3>3, <3>4 DEF t
  <2>4. CASE c # Space
    <3>1. At(t) = At(s)
      BY <2>1, <2>4
    <3>2. Len(Split(t)) = Len(Split(s))
      BY <2>2, <2>4, ExtendType DEF SplitStep, Letter
    <3>. HIDE DEF At
    <3>. QED BY <1>2, <2>1, <3>1, <3>2 DEF t
  <2>. QED BY <2>3, <2>4
<1>. HIDE DEF T
<1>3. Seq(Char) \subseteq T
  BY <1>1, <1>2, SeqSetInduction
<1>. QED BY <1>3 DEF T, Spaces

\* Shorter words make a shorter text.
LEMMA JoinOfShorterWords ==
    ASSUME NEW us \in Seq(Seq(Char)), NEW vs \in Seq(Seq(Char)), us # <<>>,
           Len(vs) = Len(us), \A i \in 1 .. Len(us) : Len(vs[i]) <= Len(us[i])
    PROVE  Len(Join(vs)) <= Len(Join(us))
<1>. DEFINE L == Len(us) - 1
<1>1. L \in Nat /\ Len(us) = L + 1 /\ vs # <<>>
  BY EmptySeq
<1>. HIDE DEF L
<1>2. PICK g \in [0 .. L -> Seq(Char)] :
             /\ Join(us) = g[L] /\ g[0] = us[1]
             /\ \A n \in 1 .. L : g[n] = JoinStep(g[n - 1], us[n + 1])
  BY JoinIsRecursion DEF L
<1>3. PICK h \in [0 .. L -> Seq(Char)] :
             /\ Join(vs) = h[L] /\ h[0] = vs[1]
             /\ \A n \in 1 .. L : h[n] = JoinStep(h[n - 1], vs[n + 1])
  <2>1. \E h \in [0 .. Len(vs) - 1 -> Seq(Char)] :
           /\ Join(vs) = h[Len(vs) - 1] /\ h[0] = vs[1]
           /\ \A n \in 1 .. Len(vs) - 1 : h[n] = JoinStep(h[n - 1], vs[n + 1])
    BY <1>1, JoinIsRecursion
  <2>2. Len(vs) - 1 = L
    BY <1>1
  <2>. QED BY <2>1, <2>2
<1>. DEFINE T == {n \in Nat : n <= L => Len(h[n]) <= Len(g[n])}
<1>4. 0 \in T
  BY <1>1, <1>2, <1>3
<1>5. ASSUME NEW n \in Nat, n \in T PROVE n + 1 \in T
  <2>1. SUFFICES ASSUME n + 1 <= L PROVE Len(h[n + 1]) <= Len(g[n + 1])
    OBVIOUS
  <2>2. /\ n \in 0 .. L /\ n + 1 \in 1 .. L /\ n + 2 \in 1 .. Len(us)
        /\ g[n] \in Seq(Char) /\ h[n] \in Seq(Char) /\ Len(h[n]) <= Len(g[n])
    BY <1>1, <1>2, <1>3, <1>5, <2>1
  <2>3. us[n + 2] \in Seq(Char) /\ vs[n + 2] \in Seq(Char) /\ Len(vs[n + 2]) <= Len(us[n + 2])
    BY <2>2, ElementOfSeq
  <2>4. g[n + 1] = JoinStep(g[n], us[n + 2]) /\ h[n + 1] = JoinStep(h[n], vs[n + 2])
    BY <1>2, <1>3, <2>2
  <2>5. /\ Len(JoinStep(g[n], us[n + 2])) = Len(g[n]) + 1 + Len(us[n + 2])
        /\ Len(JoinStep(h[n], vs[n + 2])) = Len(h[n]) + 1 + Len(vs[n + 2])
    BY <2>2, <2>3, JoinStepType
  <2>6. Len(g[n]) \in Nat /\ Len(h[n]) \in Nat /\ Len(us[n + 2]) \in Nat /\ Len(vs[n + 2]) \in Nat
    BY <2>2, <2>3, LenProperties
  <2>7. /\ Len(g[n + 1]) = Len(g[n]) + 1 + Len(us[n + 2])
        /\ Len(h[n + 1]) = Len(h[n]) + 1 + Len(vs[n + 2])
    BY <2>4, <2>5
  <2>8. \A a, b, c, d \in Nat : a <= b /\ c <= d => a + 1 + c <= b + 1 + d
    OBVIOUS
  <2>9. Len(h[n]) + 1 + Len(vs[n + 2]) <= Len(g[n]) + 1 + Len(us[n + 2])
    BY <2>2, <2>3, <2>6, <2>8
  <2>. QED BY <2>7, <2>9
<1>. HIDE DEF T
<1>6. L \in T
  BY <1>1, <1>4, <1>5, NatSetInduction
<1>. QED BY <1>1, <1>2, <1>3, <1>6 DEF T

-----------------------------------------------------------------------------
(* The filter.                                                             *)

\* The words of a filtered text.
MaskedWords(s) ==
    [i \in DOMAIN Split(s) |-> IF Split(ToLower(s))[i] \in BadWords THEN Mask ELSE Split(s)[i]]

\* Masked joins the masked words.
LEMMA MaskedIsJoin == \A s : Masked(s) = Join(MaskedWords(s))
BY DEF Masked, MaskedWords

\* The mask is a word, and not a bad one.
LEMMA MaskIsClean == /\ Mask \in Seq(Letter) /\ ToLower(Mask) \notin BadWords
                     /\ \A w \in BadWords : Len(Mask) <= Len(w)
<1>1. Mask \in Seq(Letter)
  BY BadWordsAreSane DEF Letter
<1>2. ToLower(Mask) = Mask
  <2>1. ToLower(Mask) \in Seq(Letter) /\ Len(ToLower(Mask)) = Len(Mask)
    BY <1>1, ToLowerType
  <2>2. \A i \in 1 .. Len(Mask) : ToLower(Mask)[i] = Mask[i]
    BY <1>1, BadWordsAreSane, LenProperties DEF ToLower
  <2>. QED BY <1>1, <2>1, <2>2, SeqEqual
<1>3. \A w \in BadWords : Len(Mask) <= Len(w)
  <2>1. TAKE w \in BadWords
  <2>2. w \in Seq(Letter) /\ Len(w) >= Len(Mask)
    BY BadWordsAreSane DEF Letter
  <2>. QED BY <1>1, <2>2, LenProperties
<1>. QED BY <1>1, <1>2, <1>3, BadWordsAreSane

\* Masked words are words, as many, none longer, none bad.
LEMMA MaskedWordsFacts ==
    ASSUME NEW s \in Seq(Char)
    PROVE  /\ MaskedWords(s) \in WordLists /\ Len(MaskedWords(s)) = Len(Split(s))
           /\ \A i \in 1 .. Len(Split(s)) : /\ Len(MaskedWords(s)[i]) <= Len(Split(s)[i])
                                            /\ ToLower(MaskedWords(s)[i]) \notin BadWords
<1>. DEFINE us == Split(s)
            ms == MaskedWords(s)
<1>1. /\ us \in Seq(Seq(Letter)) /\ us # <<>> /\ Len(us) \in Nat /\ DOMAIN us = 1 .. Len(us)
      /\ Split(ToLower(s)) = LowerWords(us)
  BY SplitType, SplitOfLower, LenProperties DEF WordLists
<1>2. \A i \in 1 .. Len(us) : us[i] \in Seq(Letter) /\ LowerWords(us)[i] = ToLower(us[i])
  <2>. HIDE DEF us
  <2>. QED BY <1>1, LowerWordsType, ElementOfSeq
<1>3. ms = [i \in 1 .. Len(us) |-> IF ToLower(us[i]) \in BadWords THEN Mask ELSE us[i]]
  BY <1>1, <1>2 DEF MaskedWords
<1>. HIDE DEF us, ms
<1>4. ASSUME NEW i \in 1 .. Len(us)
      PROVE  ms[i] \in Seq(Letter) /\ Len(ms[i]) <= Len(us[i]) /\ ToLower(ms[i]) \notin BadWords
  <2>1. us[i] \in Seq(Letter) /\ Len(us[i]) \in Nat /\ Len(ToLower(us[i])) = Len(us[i])
    BY <1>2, ToLowerType, LenProperties
  <2>2. CASE ToLower(us[i]) \in BadWords
    <3>1. ms[i] = Mask
      BY <1>3, <2>2
    <3>. QED BY <2>1, <2>2, <3>1, MaskIsClean
  <2>3. CASE ToLower(us[i]) \notin BadWords
    <3>1. ms[i] = us[i]
      BY <1>3, <2>3
    <3>. QED BY <2>1, <2>3, <3>1
  <2>. QED BY <2>2, <2>3
<1>5. ms \in Seq(Seq(Letter)) /\ Len(ms) = Len(us)
  BY <1>1, <1>3, <1>4
<1>6. ms # <<>>
  BY <1>1, <1>5, EmptySeq
<1>. QED BY <1>4, <1>5, <1>6 DEF us, ms, WordLists

\* Filtering keeps the spaces, adds no character, and done again changes nothing.
LEMMA MaskedFacts ==
    ASSUME NEW s \in Seq(Char)
    PROVE  /\ Masked(s) \in Seq(Char) /\ Len(Masked(s)) <= Len(s)
           /\ Spaces(Masked(s)) = Spaces(s) /\ Masked(Masked(s)) = Masked(s)
<1>. DEFINE us == Split(s)
            ms == MaskedWords(s)
<1>1. us \in WordLists /\ Join(us) = s
  BY SplitType, JoinOfSplit
<1>2. /\ ms \in WordLists /\ Len(ms) = Len(us)
      /\ \A i \in 1 .. Len(us) : Len(ms[i]) <= Len(us[i]) /\ ToLower(ms[i]) \notin BadWords
  BY MaskedWordsFacts
<1>3. Masked(s) = Join(ms) /\ Spaces(s) = Len(us) - 1
  BY MaskedIsJoin, SpacesBetweenWords
<1>. HIDE DEF us, ms
<1>4. us \in Seq(Seq(Char)) /\ us # <<>> /\ ms \in Seq(Seq(Char)) /\ ms # <<>>
  BY <1>1, <1>2, WordsAreTexts DEF WordLists
<1>5. Join(ms) \in Seq(Char) /\ Split(Join(ms)) = ms
  BY <1>2, <1>4, JoinType, SplitOfJoin
<1>6. Len(Join(ms)) <= Len(Join(us))
  BY <1>2, <1>4, JoinOfShorterWords
<1>7. Spaces(Join(ms)) = Len(ms) - 1
  BY <1>5, SpacesBetweenWords
<1>8. MaskedWords(Join(ms)) = ms
  <2>1. /\ Split(ToLower(Join(ms))) = LowerWords(ms) /\ DOMAIN ms = 1 .. Len(ms)
        /\ ms \in Seq(Seq(Letter))
    BY <1>2, <1>5, SplitOfLower, LenProperties DEF WordLists
  <2>2. \A i \in 1 .. Len(ms) : LowerWords(ms)[i] \notin BadWords
    BY <1>2, <2>1, LowerWordsType
  <2>3. MaskedWords(Join(ms)) = [i \in 1 .. Len(ms) |-> ms[i]]
    BY <1>5, <2>1, <2>2 DEF MaskedWords
  <2>. QED BY <2>1, <2>3
<1>. QED BY <1>1, <1>2, <1>3, <1>5, <1>6, <1>7, <1>8, MaskedIsJoin

\* The same characters k places further on are the same word.
LEMMA SubSeqSame ==
    ASSUME NEW s \in Seq(Char), NEW t \in Seq(Char), NEW k \in Nat,
           NEW i \in Nat \ {0}, NEW j \in Nat,
           k + j <= Len(t), j <= Len(s), \A n \in i .. j : t[k + n] = s[n]
    PROVE  SubSeq(t, k + i, k + j) = SubSeq(s, i, j)
<1>1. Len(s) \in Nat /\ Len(t) \in Nat
  BY LenProperties
<1>2. \A n \in i .. j : s[n] \in Char
  BY <1>1, LenProperties
<1>3. \A n \in k + i .. k + j : t[n] \in Char
  BY <1>1, LenProperties
<1>. DEFINE p == SubSeq(t, k + i, k + j)
            q == SubSeq(s, i, j)
<1>4. /\ q \in Seq(Char) /\ Len(q) = IF i <= j THEN j - i + 1 ELSE 0
      /\ \A n \in 1 .. j - i + 1 : q[n] = s[i + n - 1]
  BY <1>2, SubSeqProperties
<1>5. /\ p \in Seq(Char) /\ Len(p) = IF k + i <= k + j THEN (k + j) - (k + i) + 1 ELSE 0
      /\ \A n \in 1 .. (k + j) - (k + i) + 1 : p[n] = t[(k + i) + n - 1]
  <2>1. k + i \in Int /\ k + j \in Int
    OBVIOUS
  <2>. DEFINE a == k + i  b == k + j
  <2>. HIDE DEF a, b
  <2>2. /\ SubSeq(t, a, b) \in Seq(Char) /\ Len(SubSeq(t, a, b)) = IF a <= b THEN b - a + 1 ELSE 0
        /\ \A n \in 1 .. b - a + 1 : SubSeq(t, a, b)[n] = t[a + n - 1]
    <3>1. a \in Int /\ b \in Int /\ \A n \in a .. b : t[n] \in Char
      BY <1>3, <2>1 DEF a, b
    <3>. QED BY <3>1, SubSeqProperties, SMTT(30)
  <2>. QED BY <2>2 DEF a, b
<1>. HIDE DEF p, q
<1>6. Len(p) = Len(q)
  BY <1>4, <1>5
<1>7. \A n \in 1 .. Len(p) : p[n] = q[n]
  <2>. TAKE n \in 1 .. Len(p)
  <2>1. i <= j /\ n \in 1 .. j - i + 1 /\ n \in 1 .. (k + j) - (k + i) + 1
    BY <1>4, <1>5
  <2>2. p[n] = t[(k + i) + n - 1] /\ q[n] = s[i + n - 1]
    BY <1>4, <1>5, <2>1
  <2>3. i + n - 1 \in i .. j /\ (k + i) + n - 1 = k + (i + n - 1)
    BY <2>1
  <2>. QED BY <2>2, <2>3
<1>8. p = q
  BY <1>4, <1>5, <1>6, <1>7, SeqEqual
<1>. QED BY <1>8 DEF p, q

\* A word by itself is the only one readers see in it.
LEMMA CleanWord ==
    ASSUME NEW w \in Seq(Letter), ToLower(w) \notin BadWords
    PROVE  ~HasBadWord(w)
<1>1. SUFFICES ASSUME NEW i \in DOMAIN w, NEW j \in DOMAIN w, i <= j, IsWord(w, i, j),
                      ToLower(SubSeq(w, i, j)) \in BadWords
               PROVE  FALSE
  BY DEF HasBadWord
<1>2. DOMAIN w = 1 .. Len(w) /\ Len(w) \in Nat /\ \A n \in 1 .. Len(w) : w[n] # Space
  BY LenProperties, ElementOfSeq DEF Letter
<1>3. i = 1 /\ j = Len(w)
  <2>1. i # 1 => i - 1 \in 1 .. Len(w)
    BY <1>2
  <2>2. j # Len(w) => j + 1 \in 1 .. Len(w)
    BY <1>2
  <2>. QED BY <1>1, <1>2, <2>1, <2>2 DEF IsWord
<1>4. SubSeq(w, i, j) = w
  BY <1>3, SubSeqFull
<1>. QED BY <1>1, <1>4

\* A word after a space is not joined to what stands before.
LEMMA CleanStep ==
    ASSUME NEW s \in Seq(Char), NEW w \in Seq(Letter), ~HasBadWord(s), ToLower(w) \notin BadWords
    PROVE  ~HasBadWord(JoinStep(s, w))
<1>. DEFINE r == JoinStep(s, w)
            p == Len(s) + 1
<1>1. w \in Seq(Char) /\ Len(w) \in Nat /\ Len(s) \in Nat /\ \A n \in 1 .. Len(w) : w[n] # Space
  BY WordsAreTexts, LenProperties, ElementOfSeq DEF Letter
<1>2. /\ r \in Seq(Char) /\ Len(r) = p + Len(w) /\ r[p] = Space
      /\ \A n \in 1 .. Len(s) : r[n] = s[n]
      /\ \A n \in 1 .. Len(w) : r[p + n] = w[n]
  BY <1>1, JoinStepType
<1>3. DOMAIN r = 1 .. Len(r) /\ DOMAIN s = 1 .. Len(s)
  BY <1>2, LenProperties
<1>. HIDE DEF r
<1>4. SUFFICES ASSUME NEW i \in DOMAIN r, NEW j \in DOMAIN r, i <= j, IsWord(r, i, j),
                      ToLower(SubSeq(r, i, j)) \in BadWords
               PROVE  FALSE
  BY DEF HasBadWord, r
<1>5. i \in 1 .. p + Len(w) /\ j \in 1 .. p + Len(w)
  BY <1>2, <1>3
<1>6. ~(i <= p /\ p <= j)
  <2>1. i <= p /\ p <= j => p \in i .. j
    BY <1>1, <1>5
  <2>. QED BY <1>2, <1>4, <2>1 DEF IsWord
<1>7. CASE j < p
  <2>1. i \in 1 .. Len(s) /\ j \in 1 .. Len(s)
    BY <1>1, <1>4, <1>5, <1>7
  <2>2. i = 1 \/ s[i - 1] = Space
    <3>1. i # 1 => i - 1 \in 1 .. Len(s)
      BY <1>1, <2>1
    <3>. QED BY <1>2, <1>4, <3>1 DEF IsWord
  <2>3. j = Len(s) \/ s[j + 1] = Space
    <3>1. j # Len(s) => j + 1 \in 1 .. Len(s) /\ j # Len(r)
      BY <1>1, <1>2, <2>1
    <3>. QED BY <1>2, <1>4, <3>1 DEF IsWord
  <2>4. \A k \in i .. j : s[k] # Space
    <3>1. \A k \in i .. j : k \in 1 .. Len(s)
      BY <1>1, <2>1
    <3>. QED BY <1>2, <1>4, <3>1 DEF IsWord
  <2>5. SubSeq(r, 0 + i, 0 + j) = SubSeq(s, i, j)
    <3>1. 0 + j <= Len(r) /\ j <= Len(s) /\ i \in Nat \ {0} /\ j \in Nat /\ 0 \in Nat
      BY <1>1, <1>2, <2>1
    <3>2. \A n \in i .. j : r[0 + n] = s[n]
      BY <1>1, <1>2, <2>1
    <3>. QED BY <1>2, <3>1, <3>2, SubSeqSame, SMTT(30)
  <2>6. ToLower(SubSeq(s, i, j)) \in BadWords
    <3>1. 0 + i = i /\ 0 + j = j
      BY <2>1
    <3>. QED BY <1>4, <2>5, <3>1
  <2>. QED BY <1>3, <1>4, <2>1, <2>2, <2>3, <2>4, <2>6 DEF HasBadWord, IsWord
<1>8. CASE i > p
  <2>0. /\ p \in Nat \ {0} /\ i \in Nat /\ j \in Nat /\ i <= j
        /\ Len(w) \in Nat /\ j <= p + Len(w)
    BY <1>1, <1>4, <1>5
  <2>9. \A n \in p + 1 .. p + Len(w) : r[n] # Space
    <3>. TAKE n \in p + 1 .. p + Len(w)
    <3>. HIDE DEF p
    <3>1. n - p \in 1 .. Len(w) /\ p + (n - p) = n
      BY <1>1, <2>0
    <3>. QED BY <1>1, <1>2, <3>1
  <2>1. i = p + 1
    <3>. HIDE DEF p
    <3>1. i # p + 1 => i - 1 \in p + 1 .. p + Len(w)
      BY <1>8, <2>0
    <3>2. i # 1
      BY <1>8, <2>0
    <3>. QED BY <1>4, <2>9, <3>1, <3>2 DEF IsWord
  <2>2. j = p + Len(w)
    <3>. HIDE DEF p
    <3>1. j # p + Len(w) => j + 1 \in p + 1 .. p + Len(w)
      BY <1>8, <2>0
    <3>. QED BY <1>2, <1>4, <2>9, <3>1 DEF IsWord
  <2>3. SubSeq(r, p + 1, p + Len(w)) = SubSeq(w, 1, Len(w))
    <3>1. p \in Nat /\ p + Len(w) <= Len(r) /\ Len(w) <= Len(w)
      BY <1>1, <1>2
    <3>. HIDE DEF p
    <3>. QED BY <1>1, <1>2, <3>1, SubSeqSame
  <2>4. SubSeq(r, i, j) = w
    BY <1>1, <2>1, <2>2, <2>3, SubSeqFull
  <2>. QED BY <1>4, <2>4
<1>. QED BY <1>1, <1>5, <1>6, <1>7, <1>8

\* Words that are not bad make a text without bad words.
LEMMA CleanJoin ==
    ASSUME NEW words \in WordLists, \A i \in 1 .. Len(words) : ToLower(words[i]) \notin BadWords
    PROVE  ~HasBadWord(Join(words))
<1>. DEFINE Clean(ws) == \A i \in 1 .. Len(ws) : ToLower(ws[i]) \notin BadWords
            T == {ws \in Seq(Seq(Letter)) : ws # <<>> /\ Clean(ws) => ~HasBadWord(Join(ws))}
<1>1. <<>> \in T
  BY EmptySeq
<1>2. ASSUME NEW ws \in Seq(Seq(Letter)), ws \in T, NEW w \in Seq(Letter) PROVE Append(ws, w) \in T
  <2>1. /\ Append(ws, w) \in Seq(Seq(Letter)) /\ w \in Seq(Char) /\ Len(ws) \in Nat
        /\ Len(Append(ws, w)) = Len(ws) + 1 /\ Append(ws, w)[Len(ws) + 1] = w
        /\ \A i \in 1 .. Len(ws) : Append(ws, w)[i] = ws[i]
    BY AppendProperties, WordsAreTexts, LenProperties
  <2>2. SUFFICES ASSUME Clean(Append(ws, w)) PROVE ~HasBadWord(Join(Append(ws, w)))
    BY <2>1
  <2>3. ToLower(w) \notin BadWords /\ Clean(ws)
    <3>1. /\ Len(ws) + 1 \in 1 .. Len(Append(ws, w))
          /\ \A i \in 1 .. Len(ws) : i \in 1 .. Len(Append(ws, w))
      BY <2>1
    <3>. QED BY <2>1, <2>2, <3>1
  <2>. HIDE DEF Clean
  <2>4. CASE ws = <<>>
    <3>1. Join(Append(ws, w)) = w
      BY <2>1, <2>4, JoinOne
    <3>. QED BY <2>3, <3>1, CleanWord
  <2>5. CASE ws # <<>>
    <3>1. ws \in Seq(Seq(Char))
      BY <2>5, WordsAreTexts DEF WordLists
    <3>2. Join(Append(ws, w)) = JoinStep(Join(ws), w) /\ Join(ws) \in Seq(Char)
      BY <2>1, <2>5, <3>1, JoinAppend, JoinType
    <3>3. ~HasBadWord(Join(ws))
      BY <1>2, <2>3, <2>5
    <3>. QED BY <2>3, <3>2, <3>3, CleanStep
  <2>. QED BY <2>4, <2>5
<1>. HIDE DEF T
<1>3. Seq(Seq(Letter)) \subseteq T
  BY <1>1, <1>2, SeqSetInduction
<1>. QED BY <1>3 DEF T, WordLists

-----------------------------------------------------------------------------
(* Headers.                                                                *)

\* What the getters return, one by one.
LEMMA GettersAre ==
    ASSUME NEW h
    PROVE  /\ Getters(h)["access"] = GetAccessToken(h)
           /\ Getters(h)["refresh"] = GetRefreshToken(h)
           /\ Getters(h)["key"] = GetAPIKey(h)
BY DEF Getters, Kinds

\* A part of a set of one has at most one element.
LEMMA SmallSet ==
    ASSUME NEW S, NEW x, S \subseteq {x}
    PROVE  Cardinality(S) <= 1
<1>1. CASE S = {}
  BY <1>1, FS_EmptySet
<1>2. CASE S # {}
  <2>1. S = {x}
    BY <1>2
  <2>. QED BY <2>1, FS_Singleton
<1>. QED BY <1>1, <1>2

\* Digits have no dots.
LEMMA HexIsOnePart ==
    ASSUME NEW s, NEW n, HexDigits(s, n)
    PROVE  ~ThreeParts(s)
<1>. DEFINE dots == {i \in DOMAIN s : s[i] = "."}
<1>1. dots = {}
  BY CharactersAreDistinct DEF HexDigits
<1>2. ThreeParts(s) => Cardinality(dots) = 2
  BY DEF ThreeParts
<1>. HIDE DEF dots
<1>. QED BY <1>1, <1>2, FS_EmptySet

\* Whatever the header, at most one getter returns something.
LEMMA GettersExclude ==
    ASSUME NEW h
    PROVE  Cardinality({k \in Kinds : Getters(h)[k] # Nothing}) <= 1
<1>. DEFINE S == {k \in Kinds : Getters(h)[k] # Nothing}
<1>1. "access" \in S => h.word = "Bearer" /\ ThreeParts(h.text)
  BY GettersAre DEF GetAccessToken, getTokenByRegex
<1>2. "refresh" \in S => h.word = "Bearer" /\ HexDigits(h.text, refreshTokenLength * 2)
  BY GettersAre DEF GetRefreshToken, getTokenByRegex
<1>3. "key" \in S => h.word = "ApiKey"
  BY GettersAre DEF GetAPIKey, getTokenByRegex
<1>4. ~("access" \in S /\ "refresh" \in S)
  BY <1>1, <1>2, HexIsOnePart
<1>5. S \subseteq {"access", "refresh", "key"}
  BY DEF Kinds
<1>. HIDE DEF S
<1>6. S \subseteq {"access"} \/ S \subseteq {"refresh"} \/ S \subseteq {"key"}
  BY <1>1, <1>2, <1>3, <1>4, <1>5
<1>7. Cardinality(S) <= 1
  BY <1>6, SmallSet
<1>. QED BY <1>7 DEF S

\* An appended element comes last, and the others stay where they were.
LEMMA AppendAt ==
    ASSUME NEW X, NEW s \in Seq(X), NEW e \in X,
           NEW n \in Nat, Len(s) = n
    PROVE  /\ Append(s, e) \in Seq(X) /\ Len(Append(s, e)) = n + 1
           /\ Append(s, e)[n + 1] = e
           /\ \A i \in 1 .. n : Append(s, e)[i] = s[i]
BY AppendProperties

\* A signed token has three parts.
LEMMA SignedHasThreeParts ==
    ASSUME NEW t \in SignedString
    PROVE  ThreeParts(t)
<1>. DEFINE C == Hex \cup Base64
            D == C \cup {"."}
<1>1. PICK parts \in [1 .. 3 -> [1 .. 1 -> C]] :
             t = parts[1] \o <<".">> \o parts[2] \o <<".">> \o parts[3]
  BY DEF SignedString, Texts
<1>. DEFINE x == parts[1][1]
            y == parts[2][1]
            z == parts[3][1]
<1>2. x \in C /\ y \in C /\ z \in C /\ "." \notin C
  BY <1>1, CharactersAreDistinct
<1>3. parts[1] = <<x>> /\ parts[2] = <<y>> /\ parts[3] = <<z>>
  BY <1>1
<1>. HIDE DEF C, x, y, z
<1>. DEFINE t1 == <<x>>
            t2 == Append(t1, ".")
            t3 == Append(t2, y)
            t4 == Append(t3, ".")
            t5 == Append(t4, z)
<1>4. x \in D /\ y \in D /\ z \in D /\ "." \in D
  BY <1>2
<1>. HIDE DEF D
<1>5. t1 \in Seq(D) /\ Len(t1) = 1 /\ t1[1] = x
  BY <1>4
<1>. HIDE DEF t1
<1>6. t2 \in Seq(D) /\ Len(t2) = 2 /\ t2[1] = x /\ t2[2] = "."
  <2>. DEFINE el == "."
              n == 1
  <2>1. t1 \in Seq(D) /\ el \in D /\ n \in Nat /\ Len(t1) = n
    BY <1>4, <1>5
  <2>. HIDE DEF el, n
  <2>2. /\ Append(t1, el) \in Seq(D) /\ Len(Append(t1, el)) = n + 1
        /\ Append(t1, el)[n + 1] = el
        /\ \A i \in 1 .. n : Append(t1, el)[i] = t1[i]
    BY <2>1, AppendAt
  <2>3. 1 \in 1 .. Len(t1)
    BY <1>5
  <2>. QED BY <1>5, <2>2, <2>3 DEF el, n
<1>. HIDE DEF t2
<1>7. t3 \in Seq(D) /\ Len(t3) = 3 /\ t3[1] = x /\ t3[2] = "." /\ t3[3] = y
  <2>. DEFINE el == y
              n == 2
  <2>1. t2 \in Seq(D) /\ el \in D /\ n \in Nat /\ Len(t2) = n
    BY <1>4, <1>6
  <2>. HIDE DEF el, n
  <2>2. /\ Append(t2, el) \in Seq(D) /\ Len(Append(t2, el)) = n + 1
        /\ Append(t2, el)[n + 1] = el
        /\ \A i \in 1 .. n : Append(t2, el)[i] = t2[i]
    BY <2>1, AppendAt
  <2>3. 1 \in 1 .. Len(t2) /\ 2 \in 1 .. Len(t2)
    BY <1>6
  <2>. QED BY <1>6, <2>2, <2>3 DEF el, n
<1>. HIDE DEF t3
<1>8. t4 \in Seq(D) /\ Len(t4) = 4 /\ t4[1] = x /\ t4[2] = "." /\ t4[3] = y /\ t4[4] = "."
  <2>. DEFINE el == "."
              n == 3
  <2>1. t3 \in Seq(D) /\ el \in D /\ n \in Nat /\ Len(t3) = n
    BY <1>4, <1>7
  <2>. HIDE DEF el, n
  <2>2. /\ Append(t3, el) \in Seq(D) /\ Len(Append(t3, el)) = n + 1
        /\ Append(t3, el)[n + 1] = el
        /\ \A i \in 1 .. n : Append(t3, el)[i] = t3[i]
    BY <2>1, AppendAt
  <2>3. 1 \in 1 .. Len(t3) /\ 2 \in 1 .. Len(t3) /\ 3 \in 1 .. Len(t3)
    BY <1>7
  <2>. QED BY <1>7, <2>2, <2>3 DEF el, n
<1>. HIDE DEF t4
<1>9. /\ t5 \in Seq(D) /\ Len(t5) = 5
      /\ t5[1] = x /\ t5[2] = "." /\ t5[3] = y /\ t5[4] = "." /\ t5[5] = z
  <2>. DEFINE el == z
              n == 4
  <2>1. t4 \in Seq(D) /\ el \in D /\ n \in Nat /\ Len(t4) = n
    BY <1>4, <1>8
  <2>. HIDE DEF el, n
  <2>2. /\ Append(t4, el) \in Seq(D) /\ Len(Append(t4, el)) = n + 1
        /\ Append(t4, el)[n + 1] = el
        /\ \A i \in 1 .. n : Append(t4, el)[i] = t4[i]
    BY <2>1, AppendAt
  <2>3. 1 \in 1 .. Len(t4) /\ 2 \in 1 .. Len(t4) /\ 3 \in 1 .. Len(t4) /\ 4 \in 1 .. Len(t4)
    BY <1>8
  <2>. QED BY <1>8, <2>2, <2>3 DEF el, n
<1>10. t5 = t
  <2>1. t2 = t1 \o <<".">> /\ t3 = t2 \o <<y>> /\ t4 = t3 \o <<".">> /\ t5 = t4 \o <<z>>
    BY <1>4, <1>5, <1>6, <1>7, <1>8, AppendIsConcat DEF t2, t3, t4
  <2>. HIDE DEF t5
  <2>. QED BY <1>1, <1>3, <2>1, Zenon DEF t1
<1>11. /\ Len(t) = 5 /\ DOMAIN t = 1 .. 5
      /\ t[1] = x /\ t[2] = "." /\ t[3] = y /\ t[4] = "." /\ t[5] = z
  BY <1>9, <1>10, LenProperties
<1>12. {i \in DOMAIN t : t[i] = "."} = {2, 4}
  <2>1. \A i \in 1 .. 5 : i = 1 \/ i = 2 \/ i = 3 \/ i = 4 \/ i = 5
    OBVIOUS
  <2>. QED BY <1>2, <1>11, <2>1
<1>13. Cardinality({2, 4}) = 2
  <2>1. IsFiniteSet({2}) /\ Cardinality({2}) = 1
    BY FS_Singleton
  <2>. DEFINE two == {2}
  <2>2. 4 \notin two /\ two \cup {4} = {2, 4}
    OBVIOUS
  <2>. HIDE DEF two
  <2>3. Cardinality(two \cup {4}) = Cardinality(two) + 1
    BY <2>1, <2>2, FS_AddElement DEF two
  <2>. QED BY <2>1, <2>2, <2>3 DEF two
<1>14. \A i \in DOMAIN t : t[i] \in C \cup {"."}
  <2>1. \A i \in 1 .. 5 : i = 1 \/ i = 2 \/ i = 3 \/ i = 4 \/ i = 5
    OBVIOUS
  <2>. QED BY <1>2, <1>11, <2>1
<1>. QED BY <1>11, <1>12, <1>13, <1>14 DEF ThreeParts, C

\* A refresh token is twice as many digits as it has bytes.
LEMMA RefreshTokenIsHex ==
    ASSUME NEW t \in MakeRefreshToken
    PROVE  HexDigits(t, refreshTokenLength * 2)
<1>. DEFINE n == refreshTokenLength
<1>1. PICK bytes \in [1 .. n -> [1 .. 2 -> Hex]] :
             t = [i \in 1 .. n * 2 |-> bytes[(i + 1) \div 2][2 - (i % 2)]]
  BY DEF MakeRefreshToken, Texts
<1>2. n \in Nat
  BY LengthsArePositive
<1>. HIDE DEF n
<1>3. \A i \in 1 .. n * 2 : (i + 1) \div 2 \in 1 .. n /\ 2 - (i % 2) \in 1 .. 2
  BY <1>2
<1>4. \A i \in 1 .. n * 2 : t[i] \in Hex
  BY <1>1, <1>3
<1>5. n * 2 \in Nat
  BY <1>2
<1>6. Len(t) = n * 2 /\ DOMAIN t = 1 .. n * 2
  BY <1>1, <1>5
<1>. QED BY <1>4, <1>6 DEF HexDigits, n

-----------------------------------------------------------------------------
(* The theorems.                                                           *)

\* What clients have was made by the server, or is whatever POLKA_KEY says.
Handed ==
    \/ given = NoToken
    \/ given.kind = "access"  /\ given.text \in SignedString
    \/ given.kind = "refresh" /\ given.text \in MakeRefreshToken
    \/ given.kind = "key"

\* What is stored was sent and accepted, and filtered; what was read is what
\* the getters make of the header.
InputsInv ==
    /\ status = 201 => body \in Seq(Char) /\ Validate(body) /\ stored = FilterChirp(body)
    /\ status # 201 => stored = <<>>
    /\ Handed
    /\ read = Getters(header)

\* The inductive invariant.
LEMMA InputsInvariant == InputSpec => []InputsInv
<1>1. InputInit => InputsInv
  <2>. SUFFICES ASSUME InputInit PROVE InputsInv
    OBVIOUS
  <2>1. Getters(NoHeader) = [k \in Kinds |-> Nothing]
    BY DEF Getters, Kinds, NoHeader, GetAccessToken, GetRefreshToken, GetAPIKey, getTokenByRegex
  <2>. QED BY <2>1 DEF InputInit, InputsInv, Handed
<1>2. InputsInv /\ [InputNext]_inputVars => InputsInv'
  <2>. SUFFICES ASSUME InputsInv, [InputNext]_inputVars PROVE InputsInv'
    OBVIOUS
  <2>1. CASE Post
    <3>1. \A s \in BoundedSeq(Char, MaxTyped) : s \in Seq(Char)
      BY LongestAreNatural DEF BoundedSeq, SeqOf
    <3>2. /\ status' = 201 => body' \in Seq(Char) /\ Validate(body') /\ stored' = FilterChirp(body')
          /\ status' # 201 => stored' = <<>>
      BY <2>1, <3>1 DEF Post
    <3>3. UNCHANGED <<given, header, read>>
      BY <2>1 DEF Post, tokens
    <3>. QED BY <3>2, <3>3 DEF InputsInv, Handed
  <2>2. CASE Obtain
    <3>1. Handed'
      BY <2>2 DEF Obtain, Handed
    <3>2. UNCHANGED <<body, status, stored, header, read>>
      BY <2>2 DEF Obtain, text
    <3>. QED BY <3>1, <3>2 DEF InputsInv
  <2>3. CASE Send
    <3>1. UNCHANGED <<body, status, stored, given>> /\ read' = Getters(header')
      BY <2>3 DEF Send, text
    <3>. QED BY <3>1 DEF InputsInv, Handed
  <2>4. CASE UNCHANGED inputVars
    BY <2>4 DEF InputsInv, Handed, inputVars, text, tokens
  <2>. QED BY <2>1, <2>2, <2>3, <2>4 DEF InputNext
<1>. QED BY <1>1, <1>2, PTL DEF InputSpec

\* An accepted text is short enough to be stored as the filter leaves it.
LEMMA AcceptedIsNotCut ==
    ASSUME NEW s \in Seq(Char), Validate(s)
    PROVE  /\ FilterChirp(s) = Masked(s)
           /\ FilterChirp(Masked(s)) = Masked(s)
<1>1. Len(s) <= MaxRunes
  <2>1. Len(s) \in Nat /\ Bytes(s) \in Nat /\ Len(s) <= Bytes(s) /\ Bytes(s) <= MaxBytes
    BY BytesCountCharacters, LenProperties DEF Validate
  <2>. QED BY <2>1, LimitsAgree
<1>2. /\ Len(Masked(s)) <= MaxRunes /\ Len(Masked(s)) \in Nat /\ Masked(Masked(s)) = Masked(s)
  <2>1. /\ Len(Masked(s)) <= Len(s) /\ Len(Masked(s)) \in Nat /\ Len(s) \in Nat
        /\ Masked(Masked(s)) = Masked(s)
    BY MaskedFacts, LenProperties
  <2>. QED BY <1>1, <2>1, LimitsAgree
<1>3. ~(Len(Masked(s)) > MaxRunes)
  BY <1>2, LimitsAgree
<1>. QED BY <1>2, <1>3 DEF FilterChirp, truncateChirp

\* No chirp is stored with a bad word in it, as readers see words, in whatever
\* case: FilterChirp finds them all, and the length check keeps truncateChirp
\* from making new ones.
THEOREM NoBadWordCorrect == InputSpec => []NoBadWord
<1>1. InputsInv => NoBadWord
  <2>. SUFFICES ASSUME InputsInv PROVE ~HasBadWord(stored)
    BY DEF NoBadWord
  <2>1. CASE status = 201
    <3>1. body \in Seq(Char) /\ stored = Join(MaskedWords(body))
      BY <2>1, AcceptedIsNotCut, MaskedIsJoin DEF InputsInv
    <3>. QED BY <3>1, MaskedWordsFacts, CleanJoin
  <2>2. CASE status # 201
    BY <2>2 DEF InputsInv, HasBadWord
  <2>. QED BY <2>1, <2>2
<1>. QED BY <1>1, InputsInvariant, PTL

\* An accepted chirp loses its bad words and nothing else: the spaces stay, no
\* character is cut off, and filtering it again changes nothing.
THEOREM NothingLostCorrect == InputSpec => []NothingLost
<1>1. InputsInv => NothingLost
  BY AcceptedIsNotCut, MaskedFacts DEF InputsInv, NothingLost
<1>. QED BY <1>1, InputsInvariant, PTL

\* Every token the server hands out is read back by the getter of its kind; a
\* configured key is, if it has the digits the getter wants, and never otherwise.
THEOREM TokensReturnCorrect == InputSpec => []TokensReturn
<1>1. InputsInv => TokensReturn
  <2>. SUFFICES ASSUME InputsInv, given.kind \in Kinds, header.gap >= 1,
                       header.word = Word(given.kind), header.text = given.text
                PROVE  read[given.kind] = IF given.kind = "key" /\ ~HexDigits(given.text, apiKeyTokenLength)
                                          THEN Nothing ELSE given.text
    BY DEF TokensReturn
  <2>1. given # NoToken
    BY DEF NoToken, Kinds
  <2>2. CASE given.kind = "access" /\ given.text \in SignedString
    BY <2>2, SignedHasThreeParts, GettersAre DEF InputsInv, Word, GetAccessToken, getTokenByRegex
  <2>3. CASE given.kind = "refresh" /\ given.text \in MakeRefreshToken
    BY <2>3, RefreshTokenIsHex, GettersAre DEF InputsInv, Word, GetRefreshToken, getTokenByRegex
  <2>4. CASE given.kind = "key"
    BY <2>4, GettersAre DEF InputsInv, Word, GetAPIKey, getTokenByRegex
  <2>. QED BY <2>1, <2>2, <2>3, <2>4 DEF InputsInv, Handed
<1>. QED BY <1>1, InputsInvariant, PTL

\* No header is taken for tokens of two kinds, whatever clients write in it.
THEOREM OneKindCorrect == InputSpec => []OneKind
<1>1. InputsInv => OneKind
  BY GettersExclude DEF InputsInv, OneKind
<1>. QED BY <1>1, InputsInvariant, PTL

-----------------------------------------------------------------------------
(* The listener and the connection pool.                                   *)

\* Why the order holds: only Shutdown lets ListenAndServe return, and it has
\* closed the listener by then; only after that does main close the pool.
ClosingOrder ==
    /\ shutdown # "waiting" => listener = "closed"
    /\ main \in {"close", "return"} => shutdown # "waiting"
    /\ db = "closed" => shutdown # "waiting"

\* No request is accepted by a server whose connection pool is closed.
THEOREM PoolOutlivesListenerCorrect == Spec => []PoolOutlivesListener
<1>1. Init => ClosingOrder
  BY DEF Init, ClosingOrder
<1>2. ClosingOrder /\ [Next]_vars => ClosingOrder'
  <2>1. SUFFICES ASSUME ClosingOrder, [Next]_vars PROVE ClosingOrder'
    OBVIOUS
  <2>2. CASE MainStep
    BY <2>1, <2>2 DEF ClosingOrder, MainStep, Listen, ListenFails, ServeReturns, Close, Exit
  <2>7. CASE ServeFails
    BY <2>1, <2>7 DEF ClosingOrder, ServeFails
  <2>3. CASE ShutdownStep
    BY <2>1, <2>3 DEF ClosingOrder, ShutdownStep, Shutdown, Drained
  <2>4. CASE Interrupt
    BY <2>1, <2>4 DEF ClosingOrder, Interrupt
  <2>5. CASE \E r \in Request : Accept(r) \/ Finish(r)
    BY <2>1, <2>5 DEF ClosingOrder, Accept, Finish
  <2>6. CASE UNCHANGED vars
    BY <2>1, <2>6 DEF ClosingOrder, vars
  <2>. QED BY <2>1, <2>2, <2>3, <2>4, <2>5, <2>6, <2>7 DEF Next
<1>3. ClosingOrder => PoolOutlivesListener
  BY DEF ClosingOrder, PoolOutlivesListener
<1>. QED BY <1>1, <1>2, <1>3, PTL DEF Spec
=============================================================================
