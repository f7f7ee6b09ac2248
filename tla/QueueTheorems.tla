--------------------------- MODULE QueueTheorems ----------------------------
(***************************************************************************)
(* What the proofs of several components need to know of queues.           *)
(*                                                                         *)
(* First what Erase returns, for every sequence and every set of values.   *)
(* Erase is a recursive function, so these facts need induction over the   *)
(* length of the prefix scanned.  It is done by least counterexample: a    *)
(* non-empty set of numbers has a least element (from the library's theorem*)
(* that < is well founded on Nat), and the set of prefix lengths at which a*)
(* fact fails can have none.                                               *)
(*                                                                         *)
(* Then the pipes of a network, each for itself and all of them, one for   *)
(* each name: how many messages of a kind they hold when some are read, cut*)
(* off or sent.                                                            *)
(***************************************************************************)
EXTENDS StdErase, Integers, TLAPS, WellFoundedInduction

\* One step of the recursion, and that g is the recursion up to length n.
Kept(s, D, g, i) ==
    IF i = 0 THEN <<>>
    ELSE IF s[i] \in D THEN g[i - 1]
    ELSE Append(g[i - 1], s[i])

KeptUpTo(s, D, g, n) == g = [i \in 0 .. n |-> Kept(s, D, g, i)]

\* A non-empty set of natural numbers has a least element.
LEMMA LeastNat ==
  ASSUME NEW T \in SUBSET Nat, T # {}
  PROVE  \E m \in T : \A n \in T : m <= n
<1>1. \E x \in T : \A y \in T : ~ (<<y, x>> \in OpToRel(<, Nat))
  BY WFMin, NatLessThanWellFounded, Zenon
<1>2. PICK x \in T : \A y \in T : ~ (<<y, x>> \in OpToRel(<, Nat))
  BY <1>1
<1>3. \A y \in T : ~ (y < x)
  BY <1>2, Zenon DEF OpToRel
<1> QED
  BY <1>3, SMT

\* The recursion, unfolded at one point.
LEMMA KeptAt ==
  ASSUME NEW s, NEW D, NEW g, NEW n, KeptUpTo(s, D, g, n), NEW i \in 0 .. n
  PROVE  g[i] = Kept(s, D, g, i)
BY Zenon DEF KeptUpTo

\* The recursion of Erase defines a function: there is one at every length.
LEMMA KeptExists ==
  ASSUME NEW S, NEW s \in Seq(S), NEW D
  PROVE  \E g : KeptUpTo(s, D, g, Len(s))
<1> DEFINE Bad == {n \in 0 .. Len(s) : ~ \E g : KeptUpTo(s, D, g, n)}
<1>1. SUFFICES ASSUME Bad # {} PROVE FALSE
  BY Len(s) \in Nat
<1>2. PICK m \in Bad : \A n \in Bad : m <= n
  <2>1. Bad \in SUBSET Nat BY Len(s) \in Nat
  <2> QED BY <1>1, <2>1, LeastNat
<1> HIDE DEF Bad
<1>3. m \in 0 .. Len(s) /\ Len(s) \in Nat BY DEF Bad
<1>4. ~ \E g : KeptUpTo(s, D, g, m) BY DEF Bad
<1>5. m # 0
  <2>1. SUFFICES ASSUME m = 0 PROVE FALSE OBVIOUS
  <2> DEFINE g == [i \in 0 .. 0 |-> <<>>]
  <2>2. \A i \in 0 .. 0 : i = 0 OBVIOUS
  <2>3. \A i \in 0 .. 0 : Kept(s, D, g, i) = <<>> BY <2>2, Zenon DEF Kept
  <2>4. KeptUpTo(s, D, g, 0) BY <2>3, Zenon DEF KeptUpTo
  <2> QED BY <1>4, <2>1, <2>4
<1>6. m - 1 \notin Bad /\ m - 1 \in 0 .. Len(s) /\ m \in Nat BY <1>2, <1>3, <1>5
<1>7. PICK g : KeptUpTo(s, D, g, m - 1) BY <1>6 DEF Bad
<1> DEFINE h == [i \in 0 .. m |-> IF i = m THEN Kept(s, D, g, i) ELSE g[i]]
<1>8. ASSUME NEW i \in 0 .. m PROVE h[i] = Kept(s, D, h, i)
  <2>1. CASE i = m
     <3>1. m-1 \in 0..m /\ m - 1 # m BY <1>6
     <3>2. h[m-1] = g[m-1] BY <3>1
     <3>3. h[m] = Kept(s, D, g, m) BY <1>6
     <3>4. Kept(s,D,h,m) = Kept(s,D,g,m) BY <3>2 DEF Kept
     <3> QED BY <3>3, <3>4, <2>1
  <2>2. CASE i # m
     <3>1. i \in 0 .. (m-1) BY <2>2, <1>6
     <3>2. h[i] = g[i] BY <2>2
     <3>3. g[i] = Kept(s, D, g, i) BY <1>7, <3>1, KeptAt
     <3>4. i # 0 => h[i-1] = g[i-1] BY <3>1, <1>6
     <3> QED BY <3>2,<3>3,<3>4 DEF Kept
  <2> QED BY <2>1, <2>2
<1>9. KeptUpTo(s, D, h, m) BY <1>8, Zenon DEF KeptUpTo
<1> QED BY <1>4, <1>9

\* Erase is that function at the length of the sequence.
LEMMA EraseIsKept ==
  ASSUME NEW S, NEW s \in Seq(S), NEW D
  PROVE  \E g : KeptUpTo(s, D, g, Len(s)) /\ Erase(s, D) = g[Len(s)]
<1> DEFINE kept == CHOOSE g : KeptUpTo(s, D, g, Len(s))
<1>1. KeptUpTo(s, D, kept, Len(s))
  BY KeptExists, Zenon
<1>2. Erase(s, D) = kept[Len(s)]
  BY Zenon DEF Erase, KeptUpTo, Kept
<1> QED BY <1>1, <1>2, Zenon

\* std::erase keeps nothing of D, adds nothing, lengthens nothing, and leaves a
\* list without repetitions without repetitions.
LEMMA EraseByIndex ==
  ASSUME NEW S, NEW s \in Seq(S), NEW D
  PROVE  /\ Erase(s, D) \in Seq(S)
         /\ Len(Erase(s, D)) <= Len(s)
         /\ \A k \in 1 .. Len(Erase(s, D)) : /\ Erase(s, D)[k] \notin D
               /\ \E j \in 1 .. Len(s) : Erase(s, D)[k] = s[j]
         /\ (\A j, k \in 1 .. Len(s) : s[j] = s[k] => j = k) =>
               \A j, k \in 1 .. Len(Erase(s, D)) : Erase(s, D)[j] = Erase(s, D)[k] => j = k
<1>1. PICK g : KeptUpTo(s, D, g, Len(s)) /\ Erase(s, D) = g[Len(s)]
  BY EraseIsKept
<1>1a. \A i \in 0 .. Len(s) : g[i] = Kept(s, D, g, i)
  BY <1>1, KeptAt
<1> DEFINE Good(i) == 
         /\ g[i] \in Seq(S)
         /\ Len(g[i]) <= i
         /\ \A k \in 1 .. Len(g[i]) : /\ g[i][k] \notin D
               /\ \E j \in 1 .. i : g[i][k] = s[j]
         /\ (\A j, k \in 1 .. Len(s) : s[j] = s[k] => j = k) =>
               \A j, k \in 1 .. Len(g[i]) : g[i][j] = g[i][k] => j = k
       Bad == {i \in 0 .. Len(s) : ~ Good(i)}
<1>0. Len(s) \in Nat OBVIOUS
<1>2. Bad = {}
  <2>1. SUFFICES ASSUME Bad # {} PROVE FALSE OBVIOUS
  <2>2. PICK m \in Bad : \A n \in Bad : m <= n
    <3>1. Bad \in SUBSET Nat BY <1>0
    <3> HIDE DEF Bad
    <3> QED BY <2>1, <3>1, LeastNat
  <2>3. m \in 0 .. Len(s) /\ ~ Good(m) BY <2>2
  <2>4. m # 0
    <3>1. g[0] = <<>> BY <1>0, <1>1a DEF Kept
    <3>2. Good(0) BY <3>1
    <3> QED BY <2>3, <3>2
  <2>5. m \in Nat /\ m - 1 \in 0 .. Len(s) /\ m \in 1 .. Len(s) BY <2>3, <2>4, <1>0
  <2>6. Good(m - 1)
    <3> HIDE DEF Good
    <3>1. m - 1 \notin Bad BY <2>2, <2>5
    <3> QED BY <3>1, <2>5
  <2>7. s[m] \in S BY <2>5
  <2> DEFINE p == g[m-1]
  <2>8. CASE s[m] \in D
    <3>1. g[m] = g[m-1] BY <1>1a, <2>4, <2>5, <2>8 DEF Kept
    <3>2. Good(m) BY <2>6, <3>1, <2>5
    <3> QED BY <3>2, <2>3
  <2>9. CASE s[m] \notin D
    <3>1. g[m] = Append(p, s[m]) BY <1>1a, <2>4, <2>5, <2>9 DEF Kept
    <3>2. p \in Seq(S) /\ Len(p) \in Nat /\ Len(p) <= m - 1 BY <2>6
    <3>2a. \A k \in 1 .. Len(p) : p[k] \notin D /\ \E j \in 1 .. (m-1) : p[k] = s[j]
      BY <2>6
    <3>2b. (\A j, k \in 1 .. Len(s) : s[j] = s[k] => j = k) =>
               \A j, k \in 1 .. Len(p) : p[j] = p[k] => j = k
      BY <2>6
    <3> HIDE DEF p
    <3>3. /\ g[m] \in Seq(S) /\ Len(g[m]) = Len(p) + 1
          /\ g[m][Len(p) + 1] = s[m]
          /\ \A k \in 1 .. Len(p) : g[m][k] = p[k]
      BY <3>1, <3>2, <2>7
    <3>4. \A k \in 1 .. Len(g[m]) : k = Len(p) + 1 \/ k \in 1 .. Len(p)
      BY <3>2, <3>3
    <3>5. \A k \in 1 .. Len(g[m]) : /\ g[m][k] \notin D
               /\ \E j \in 1 .. m : g[m][k] = s[j]
      BY <3>2, <3>2a, <3>3, <3>4, <2>5, <2>9
    <3>6. ASSUME \A j, k \in 1 .. Len(s) : s[j] = s[k] => j = k,
                 NEW j \in 1 .. Len(g[m]), NEW k \in 1 .. Len(g[m]), g[m][j] = g[m][k]
          PROVE  j = k
      <4>1. \A i \in 1 .. Len(p) : p[i] # s[m]
        <5>1. SUFFICES ASSUME NEW i \in 1 .. Len(p), p[i] = s[m] PROVE FALSE OBVIOUS
        <5>2. PICK l \in 1 .. (m-1) : p[i] = s[l] BY <3>2a
        <5>3. l \in 1 .. Len(s) /\ l # m BY <2>5
        <5> QED BY <5>1, <5>2, <5>3, <3>6, <2>5
      <4> QED BY <3>3, <3>4, <3>2b, <3>6, <4>1
    <3>7. Good(m) BY <3>2, <3>3, <3>5, <3>6
    <3> QED BY <3>7, <2>3
  <2> QED BY <2>8, <2>9
<1>3. Good(Len(s))
  <2> HIDE DEF Good
  <2> QED BY <1>2, <1>0
<1> QED BY <1>3, <1>1

\* The same, in terms of the elements of the sequence.
LEMMA EraseFacts ==
  ASSUME NEW S, NEW s \in Seq(S), NEW D
  PROVE  /\ Erase(s, D) \in Seq(S)
         /\ Len(Erase(s, D)) <= Len(s)
         /\ Elements(Erase(s, D)) \subseteq Elements(s) \ D
         /\ NoRepeats(s) => NoRepeats(Erase(s, D))
<1>1. Elements(Erase(s, D)) \subseteq Elements(s) \ D
  BY EraseByIndex DEF Elements
<1>2. NoRepeats(s) => NoRepeats(Erase(s, D))
  BY EraseByIndex DEF NoRepeats
<1> QED BY <1>1, <1>2, EraseByIndex

\* Every element of s that is not in D is in e, after those that were before it.
KeepsOrder(s, D, e) ==
    \A b \in 1 .. Len(s) : s[b] \notin D =>
       \E l \in 1 .. Len(e) :
          /\ e[l] = s[b]
          /\ \A a \in 1 .. b - 1 : s[a] \notin D => \E k \in 1 .. l - 1 : e[k] = s[a]

\* std::erase keeps what is not in D, in its order.
LEMMA EraseKeepsOrder ==
  ASSUME NEW S, NEW s \in Seq(S), NEW D
  PROVE  KeepsOrder(s, D, Erase(s, D))
<1>1. PICK g : KeptUpTo(s, D, g, Len(s)) /\ Erase(s, D) = g[Len(s)]
  BY EraseIsKept
<1>1a. \A i \in 0 .. Len(s) : g[i] = Kept(s, D, g, i)
  BY <1>1, KeptAt
<1> DEFINE Good(i) ==
         /\ g[i] \in Seq(S)
         /\ \A b \in 1 .. i : s[b] \notin D =>
              \E l \in 1 .. Len(g[i]) :
                /\ g[i][l] = s[b]
                /\ \A a \in 1 .. b - 1 : s[a] \notin D => \E k \in 1 .. l - 1 : g[i][k] = s[a]
       Bad == {i \in 0 .. Len(s) : ~ Good(i)}
<1>0. Len(s) \in Nat OBVIOUS
<1>2. Bad = {}
  <2>1. SUFFICES ASSUME Bad # {} PROVE FALSE OBVIOUS
  <2>2. PICK m \in Bad : \A n \in Bad : m <= n
    <3>1. Bad \in SUBSET Nat BY <1>0
    <3> HIDE DEF Bad
    <3> QED BY <2>1, <3>1, LeastNat
  <2>3. m \in 0 .. Len(s) /\ ~ Good(m) BY <2>2
  <2>4. m # 0
    <3>1. g[0] = <<>> BY <1>0, <1>1a DEF Kept
    <3>2. Good(0) BY <3>1
    <3> QED BY <2>3, <3>2
  <2>5. m \in Nat /\ m - 1 \in 0 .. Len(s) /\ m \in 1 .. Len(s) BY <2>3, <2>4, <1>0
  <2>6. Good(m - 1)
    <3> HIDE DEF Good
    <3>1. m - 1 \notin Bad BY <2>2, <2>5
    <3> QED BY <3>1, <2>5
  <2>6a. \A b \in 1 .. m : b = m \/ b \in 1 .. (m - 1) BY <2>5
  <2>7. s[m] \in S BY <2>5
  <2> DEFINE p == g[m-1]
  <2>8. CASE s[m] \in D
    <3>1. g[m] = g[m-1] BY <1>1a, <2>4, <2>5, <2>8 DEF Kept
    <3>2. Good(m) BY <2>6, <2>6a, <2>8, <3>1
    <3> QED BY <3>2, <2>3
  <2>9. CASE s[m] \notin D
    <3>1. g[m] = Append(p, s[m]) BY <1>1a, <2>4, <2>5, <2>9 DEF Kept
    <3>2. p \in Seq(S) /\ Len(p) \in Nat BY <2>6
    <3>3. \A b \in 1 .. (m - 1) : s[b] \notin D =>
            \E l \in 1 .. Len(p) :
              /\ p[l] = s[b]
              /\ \A a \in 1 .. b - 1 : s[a] \notin D => \E k \in 1 .. l - 1 : p[k] = s[a]
      BY <2>6
    <3> HIDE DEF p
    <3>4. /\ g[m] \in Seq(S) /\ Len(g[m]) = Len(p) + 1
          /\ g[m][Len(p) + 1] = s[m]
          /\ \A k \in 1 .. Len(p) : g[m][k] = p[k]
      BY <3>1, <3>2, <2>7
    <3>5. ASSUME NEW b \in 1 .. m, s[b] \notin D
          PROVE  \E l \in 1 .. Len(g[m]) :
                   /\ g[m][l] = s[b]
                   /\ \A a \in 1 .. b - 1 : s[a] \notin D =>
                        \E k \in 1 .. l - 1 : g[m][k] = s[a]
      <4>1. CASE b = m
        <5>1. ASSUME NEW a \in 1 .. b - 1, s[a] \notin D
              PROVE  \E k \in 1 .. (Len(p) + 1) - 1 : g[m][k] = s[a]
          <6>1. a \in 1 .. (m - 1) BY <4>1
          <6>2. PICK l \in 1 .. Len(p) : p[l] = s[a] BY <3>3, <5>1, <6>1
          <6>3. l \in 1 .. (Len(p) + 1) - 1 BY <3>2
          <6> QED BY <3>4, <6>2, <6>3
        <5>2. Len(p) + 1 \in 1 .. Len(g[m]) BY <3>2, <3>4
        <5> QED BY <3>4, <4>1, <5>1, <5>2
      <4>2. CASE b \in 1 .. (m - 1)
        <5>1. PICK l \in 1 .. Len(p) :
                /\ p[l] = s[b]
                /\ \A a \in 1 .. b - 1 : s[a] \notin D => \E k \in 1 .. l - 1 : p[k] = s[a]
          BY <3>3, <3>5, <4>2
        <5>2. l \in 1 .. Len(g[m]) /\ \A k \in 1 .. l - 1 : k \in 1 .. Len(p)
          BY <3>2, <3>4
        <5> QED BY <3>4, <5>1, <5>2
      <4> QED BY <2>6a, <4>1, <4>2
    <3>6. Good(m) BY <3>4, <3>5
    <3> QED BY <3>6, <2>3
  <2> QED BY <2>8, <2>9
<1>3. Good(Len(s))
  <2> HIDE DEF Good
  <2> QED BY <1>2, <1>0
<1> QED BY <1>3, <1>1 DEF KeepsOrder
-----------------------------------------------------------------------------
(* One pipe.                                                               *)

\* Erasing values that do not occur leaves a sequence as it is.
LEMMA EraseNothing ==
  ASSUME NEW S, NEW s \in Seq(S), NEW D, \A i \in 1 .. Len(s) : s[i] \notin D
  PROVE  Erase(s, D) = s
<1>1. PICK g : KeptUpTo(s, D, g, Len(s)) /\ Erase(s, D) = g[Len(s)]
  BY EraseIsKept
<1>2. \A i \in 0 .. Len(s) : g[i] = Kept(s, D, g, i)
  BY <1>1, KeptAt
<1> DEFINE Good(i) == /\ g[i] \in Seq(S) /\ Len(g[i]) = i
                      /\ \A k \in 1 .. i : g[i][k] = s[k]
           Bad == {i \in 0 .. Len(s) : ~ Good(i)}
<1>3. Len(s) \in Nat OBVIOUS
<1>4. Bad = {}
  <2>1. SUFFICES ASSUME Bad # {} PROVE FALSE OBVIOUS
  <2>2. PICK m \in Bad : \A n \in Bad : m <= n
    <3>1. Bad \in SUBSET Nat BY <1>3
    <3> HIDE DEF Bad
    <3> QED BY <2>1, <3>1, LeastNat
  <2>3. m \in 0 .. Len(s) /\ ~ Good(m) BY <2>2
  <2>4. m # 0
    <3>1. g[0] = <<>> BY <1>2, <1>3 DEF Kept
    <3>2. Good(0) BY <3>1
    <3> QED BY <2>3, <3>2
  <2>5. m \in Nat /\ m - 1 \in 0 .. Len(s) /\ m \in 1 .. Len(s) BY <1>3, <2>3, <2>4
  <2>6. Good(m - 1)
    <3> HIDE DEF Good
    <3>1. m - 1 \notin Bad BY <2>2, <2>5
    <3> QED BY <2>5, <3>1
  <2> DEFINE p == g[m - 1]
  <2>7. g[m] = Append(p, s[m]) BY <1>2, <2>4, <2>5 DEF Kept
  <2>8. p \in Seq(S) /\ Len(p) = m - 1 /\ \A k \in 1 .. m - 1 : p[k] = s[k]
    BY <2>6
  <2> HIDE DEF p
  <2>9. /\ g[m] \in Seq(S) /\ Len(g[m]) = m /\ g[m][m] = s[m]
        /\ \A k \in 1 .. m - 1 : g[m][k] = s[k]
    BY <2>5, <2>7, <2>8
  <2>10. \A k \in 1 .. m : k = m \/ k \in 1 .. m - 1 BY <2>5
  <2>11. Good(m) BY <2>9, <2>10
  <2> QED BY <2>3, <2>11
<1>5. Good(Len(s))
  <2> HIDE DEF Good
  <2> QED BY <1>3, <1>4
<1> QED BY <1>1, <1>5

\* What erasing the first element by reference leaves: fewer elements, none new,
\* and just the tail when that element occurs once and no other twice.
LEMMA EraseFirstFacts ==
  ASSUME NEW S, NEW s \in Seq(S), s # <<>>
  PROVE  /\ EraseFirst(s) \in Seq(S)
         /\ Len(EraseFirst(s)) < Len(s)
         /\ Elements(EraseFirst(s)) \subseteq Elements(s)
         /\ NoRepeats(s) => EraseFirst(s) = Tail(s)
<1> DEFINE others == {k \in 1 .. Len(s) : s[k] # s[1]}
<1>0. Len(s) \in Nat /\ Len(s) >= 1 OBVIOUS
<1>1. CASE others = {}
  <2>1. EraseFirst(s) = <<>> BY <1>1, Zenon DEF EraseFirst
  <2>2. NoRepeats(s) => Len(s) = 1
    <3>1. SUFFICES ASSUME NoRepeats(s), Len(s) # 1 PROVE FALSE OBVIOUS
    <3> DEFINE n == Len(s)
    <3>1a. n \in Nat /\ n >= 1 /\ n # 1 BY <1>0, <3>1
    <3> HIDE DEF n
    <3>2. 1 \in 1 .. n /\ 2 \in 1 .. n BY <3>1a
    <3> USE DEF n
    <3>3. s[2] = s[1] BY <1>1, <3>2
    <3> QED BY <3>1, <3>2, <3>3 DEF NoRepeats
  <2>3. Len(s) = 1 => Tail(s) = <<>>
    <3>1. Tail(s) \in Seq(S) /\ Len(Tail(s)) = Len(s) - 1 OBVIOUS
    <3>2. \A x \in Seq(S) : Len(x) = 0 => x = <<>> OBVIOUS
    <3>3. Len(s) = 1 => Len(Tail(s)) = 0 BY <3>1
    <3> QED BY <3>1, <3>2, <3>3, Zenon
  <2> QED BY <1>0, <2>1, <2>2, <2>3 DEF Elements
<1>2. CASE others # {}
  <2> DEFINE k == CHOOSE k \in others : \A j \in others : k <= j
             t == SubSeq(s, k + 1, Len(s))
             e == Erase(t, {s[k]})
  <2>1. k \in others /\ \A j \in others : k <= j
    <3>1. others \in SUBSET Nat BY <1>0
    <3>2. \E m \in others : \A j \in others : m <= j BY <1>2, <3>1, LeastNat
    <3> QED BY <3>2
  <2>2. EraseFirst(s) = <<s[k]>> \o e BY <1>2, Zenon DEF EraseFirst
  <2> HIDE DEF k
  <2>3. k \in 1 .. Len(s) /\ k \in Nat /\ k > 1 /\ s[k] \in S
    BY <1>0, <2>1
  <2>4. /\ t \in Seq(S) /\ Len(t) = Len(s) - k
        /\ \A i \in 1 .. Len(s) - k : t[i] = s[k + i]
    BY <1>0, <2>3
  <2> HIDE DEF t
  <2>5. e \in Seq(S) /\ Len(e) <= Len(t) /\ Elements(e) \subseteq Elements(t)
    BY <2>4, EraseFacts
  <2>6. Elements(t) \subseteq Elements(s)
    <3>1. \A i \in 1 .. Len(s) - k : k + i \in 1 .. Len(s) BY <1>0, <2>3
    <3> QED BY <2>4, <3>1 DEF Elements
  <2>7. NoRepeats(s) => e = t /\ k = 2
    <3>1. SUFFICES ASSUME NoRepeats(s) PROVE e = t /\ k = 2 OBVIOUS
    <3>2. k = 2
      <4>1. 1 \in 1 .. Len(s) /\ 2 \in 1 .. Len(s) BY <1>0, <2>3
      <4>2. s[2] # s[1] BY <3>1, <4>1 DEF NoRepeats
      <4>3. 2 \in others BY <4>1, <4>2
      <4> QED BY <2>1, <2>3, <4>3
    <3>3. \A i \in 1 .. Len(t) : t[i] \notin {s[k]}
      <4>1. \A i \in 1 .. Len(s) - k : k + i \in 1 .. Len(s) /\ k + i # k BY <1>0, <2>3
      <4> QED BY <2>3, <2>4, <3>1, <4>1 DEF NoRepeats
    <3>4. e = t BY <2>4, <3>3, EraseNothing
    <3> QED BY <3>2, <3>4
  <2> HIDE DEF e
  <2>8. /\ <<s[k]>> \o e \in Seq(S)
        /\ Len(<<s[k]>> \o e) = 1 + Len(e)
        /\ \A i \in 1 .. Len(<<s[k]>> \o e) :
              (<<s[k]>> \o e)[i] = IF i = 1 THEN s[k] ELSE e[i - 1]
    BY <2>3, <2>5
  <2> DEFINE r == <<s[k]>> \o e
  <2>9. Elements(r) \subseteq Elements(s)
    <3> SUFFICES ASSUME NEW i \in 1 .. Len(r) PROVE r[i] \in Elements(s)
      BY DEF Elements
    <3>1. CASE i = 1
      BY <2>3, <2>8, <3>1 DEF Elements
    <3>2. CASE i # 1
      <4>1. i - 1 \in 1 .. Len(e) BY <2>5, <2>8, <3>2
      <4>2. r[i] = e[i - 1] BY <2>8, <3>2
      <4> QED BY <2>5, <2>6, <4>1, <4>2 DEF Elements
    <3> QED BY <3>1, <3>2
  <2>10. NoRepeats(s) => r = Tail(s)
    <3>1. SUFFICES ASSUME NoRepeats(s) PROVE r = Tail(s) OBVIOUS
    <3>2. e = t /\ k = 2 BY <2>7, <3>1
    <3>3. Len(r) = Len(Tail(s)) /\ Tail(s) \in Seq(S)
      BY <1>0, <2>4, <2>8, <3>2
    <3>4. \A i \in 1 .. Len(r) : r[i] = Tail(s)[i]
      <4> SUFFICES ASSUME NEW i \in 1 .. Len(r) PROVE r[i] = Tail(s)[i] OBVIOUS
      <4>1. Tail(s)[i] = s[i + 1] BY <3>3
      <4>2. CASE i = 1
        <5>1. r[1] = s[2] BY <2>8, <3>2, <4>2
        <5>2. i + 1 = 2 BY <4>2
        <5>3. Tail(s)[i] = s[2] BY <4>1, <5>2, Zenon
        <5> HIDE DEF r
        <5> QED BY <4>2, <5>1, <5>3, Zenon
      <4>3. CASE i # 1
        <5>1. i - 1 \in 1 .. Len(s) - 2 BY <2>4, <2>8, <3>2, <4>3
        <5>2. r[i] = t[i - 1] BY <2>8, <3>2, <4>3
        <5>3. t[i - 1] = s[2 + (i - 1)] /\ 2 + (i - 1) = i + 1 BY <2>4, <3>2, <5>1
        <5> QED BY <4>1, <5>2, <5>3
      <4> QED BY <4>2, <4>3
    <3> HIDE DEF r
    <3> QED BY <2>8, <3>3, <3>4 DEF r
  <2> QED BY <1>0, <2>2, <2>3, <2>4, <2>5, <2>8, <2>9, <2>10
<1> QED BY <1>1, <1>2

\* No message of s is in M; at most one is; none is but the first.
Lacks(s, M) == \A k \in 1 .. Len(s) : s[k] \notin M
Single(s, M) == \A k, l \in 1 .. Len(s) : s[k] \in M /\ s[l] \in M => k = l
FirstOnly(s, M) == \A k \in 1 .. Len(s) : s[k] \in M => k = 1

\* t is s without what is before or after some part of it.
Part(s, t) ==
    \E k \in 0 .. Len(s) : /\ Len(t) + k <= Len(s)
                          /\ \A i \in 1 .. Len(t) : t[i] = s[i + k]

LEMMA PartKeeps ==
  ASSUME NEW S, NEW s \in Seq(S), NEW t \in Seq(S), Part(s, t), NEW M
  PROVE  /\ Lacks(s, M) => Lacks(t, M)
         /\ Single(s, M) => Single(t, M)
         /\ FirstOnly(s, M) => FirstOnly(t, M)
<1>1. PICK k \in 0 .. Len(s) : /\ Len(t) + k <= Len(s)
                               /\ \A i \in 1 .. Len(t) : t[i] = s[i + k]
  BY DEF Part
<1>2. Len(s) \in Nat /\ Len(t) \in Nat
  OBVIOUS
<1>3. \A i \in 1 .. Len(t) : i + k \in 1 .. Len(s) /\ t[i] = s[i + k]
  BY <1>1, <1>2
<1>4. Lacks(s, M) => Lacks(t, M)
  BY <1>3 DEF Lacks
<1>5. ASSUME Single(s, M), NEW i \in 1 .. Len(t), NEW j \in 1 .. Len(t), t[i] \in M, t[j] \in M
      PROVE  i = j
  <2>1. i + k = j + k
    BY <1>3, <1>5 DEF Single
  <2> QED BY <2>1
<1>6. ASSUME FirstOnly(s, M), NEW i \in 1 .. Len(t), t[i] \in M PROVE i = 1
  <2>1. i + k = 1
    BY <1>3, <1>6 DEF FirstOnly
  <2> QED BY <2>1
<1> QED BY <1>4, <1>5, <1>6 DEF Single, FirstOnly

\* What is left when the first message has been read.
LEMMA TailLacks ==
  ASSUME NEW S, NEW s \in Seq(S), s # <<>>, NEW M
  PROVE  /\ FirstOnly(s, M) => Lacks(Tail(s), M)
         /\ Single(s, M) /\ Head(s) \in M => Lacks(Tail(s), M)
         /\ Head(s) \in M => ~ Lacks(s, M)
<1>1. Len(Tail(s)) = Len(s) - 1 /\ \A i \in 1 .. Len(Tail(s)) : Tail(s)[i] = s[i + 1]
  OBVIOUS
<1>2. Head(s) = s[1] /\ 1 \in 1 .. Len(s) /\ Len(s) \in Nat
  OBVIOUS
<1>3. \A i \in 1 .. Len(Tail(s)) : i + 1 \in 1 .. Len(s) /\ i + 1 # 1 /\ Tail(s)[i] = s[i + 1]
  BY <1>1, <1>2
<1> QED BY <1>2, <1>3 DEF Lacks, Single, FirstOnly

LEMMA AppendKeeps ==
  ASSUME NEW S, NEW s \in Seq(S), NEW e \in S, NEW M
  PROVE  /\ Append(s, e) \in Seq(S)
         /\ Lacks(s, M) => Single(Append(s, e), M)
         /\ e \notin M => /\ Lacks(s, M) => Lacks(Append(s, e), M)
                          /\ Single(s, M) => Single(Append(s, e), M)
                          /\ FirstOnly(s, M) => FirstOnly(Append(s, e), M)
<1> DEFINE t == Append(s, e)
<1>1. /\ t \in Seq(S) /\ Len(t) = Len(s) + 1 /\ Len(s) \in Nat
      /\ \A i \in 1 .. Len(t) :
            \/ i \in 1 .. Len(s) /\ t[i] = s[i]
            \/ i = Len(t) /\ t[i] = e
  OBVIOUS
<1> HIDE DEF t
<1>2. t \in Seq(S) /\ (Lacks(s, M) => Single(t, M))
  BY <1>1 DEF Lacks, Single
<1>3. ASSUME e \notin M
      PROVE  /\ Lacks(s, M) => Lacks(t, M)
             /\ Single(s, M) => Single(t, M)
             /\ FirstOnly(s, M) => FirstOnly(t, M)
  BY <1>1, <1>3 DEF Lacks, Single, FirstOnly
<1> QED BY <1>2, <1>3 DEF t

-----------------------------------------------------------------------------
(* Families of pipes, one sequence for each element of a set.              *)

\* No message of the pipes p is in M; at most one is.
None(p, M) == \A w \in DOMAIN p : \A i \in 1 .. Len(p[w]) : p[w][i] \notin M

One(p, M) ==
    \A v, w \in DOMAIN p : \A i \in 1 .. Len(p[v]), j \in 1 .. Len(p[w]) :
        p[v][i] \in M /\ p[w][j] \in M => v = w /\ i = j

\* Pipes that are nothing more than they were, less what is read or lost.
Shrink(p, q) ==
    /\ DOMAIN q = DOMAIN p
    /\ \A w \in DOMAIN p : Part(p[w], q[w])

\* Where each element of a concatenation comes from.
LEMMA ConcatFacts ==
  ASSUME NEW S, NEW a \in Seq(S), NEW b \in Seq(S)
  PROVE  /\ a \o b \in Seq(S)
         /\ Len(a \o b) = Len(a) + Len(b)
         /\ \A i \in 1 .. Len(a \o b) :
               \/ i \in 1 .. Len(a) /\ (a \o b)[i] = a[i]
               \/ i - Len(a) \in 1 .. Len(b) /\ (a \o b)[i] = b[i - Len(a)]
OBVIOUS

\* Fewer kinds of message, fewer messages.
LEMMA NoneOfFewer ==
  ASSUME NEW p, NEW M, NEW L, L \subseteq M, None(p, M)
  PROVE  None(p, L)
BY DEF None

LEMMA NoneIsOne ==
  ASSUME NEW p, NEW M, None(p, M)
  PROVE  One(p, M)
BY DEF None, One

\* The ways to lose messages: from the front, from the end, all, none.
LEMMA Parts ==
  ASSUME NEW S, NEW s \in Seq(S)
  PROVE  /\ Part(s, s)
         /\ Part(s, <<>>)
         /\ s # <<>> => Part(s, Tail(s)) /\ Tail(s) \in Seq(S)
         /\ \A k \in 0 .. Len(s) :
               /\ Part(s, SubSeq(s, 1, k)) /\ SubSeq(s, 1, k) \in Seq(S)
               /\ Part(s, SubSeq(s, k + 1, Len(s))) /\ SubSeq(s, k + 1, Len(s)) \in Seq(S)
<1>0. Len(s) \in Nat OBVIOUS
<1>1. Part(s, s)
  <2>1. 0 \in 0 .. Len(s) /\ Len(s) + 0 <= Len(s) /\ \A i \in 1 .. Len(s) : s[i] = s[i + 0]
    BY <1>0
  <2> QED BY <2>1 DEF Part
<1>2. Part(s, <<>>)
  BY <1>0 DEF Part
<1>3. ASSUME s # <<>> PROVE Part(s, Tail(s)) /\ Tail(s) \in Seq(S)
  <2> DEFINE t == Tail(s)
  <2>1. t \in Seq(S) /\ Len(t) = Len(s) - 1 /\ Len(s) >= 1
        /\ \A i \in 1 .. Len(t) : t[i] = s[i + 1]
    BY <1>3
  <2> HIDE DEF t
  <2>2. 1 \in 0 .. Len(s) /\ Len(t) + 1 <= Len(s)
    BY <1>0, <2>1
  <2>3. Part(s, t)
    BY <2>1, <2>2 DEF Part
  <2> QED BY <2>1, <2>3 DEF t
<1>4. ASSUME NEW k \in 0 .. Len(s)
      PROVE  Part(s, SubSeq(s, 1, k)) /\ SubSeq(s, 1, k) \in Seq(S)
  <2> DEFINE t == SubSeq(s, 1, k)
  <2>1. t \in Seq(S) /\ Len(t) = k /\ \A i \in 1 .. Len(t) : t[i] = s[i]
    BY <1>0
  <2> HIDE DEF t
  <2>2. 0 \in 0 .. Len(s) /\ Len(t) + 0 <= Len(s) /\ \A i \in 1 .. Len(t) : t[i] = s[i + 0]
    BY <1>0, <2>1
  <2>3. Part(s, t)
    BY <2>2 DEF Part
  <2> QED BY <2>1, <2>3 DEF t
<1>5. ASSUME NEW k \in 0 .. Len(s)
      PROVE  Part(s, SubSeq(s, k + 1, Len(s))) /\ SubSeq(s, k + 1, Len(s)) \in Seq(S)
  <2> DEFINE t == SubSeq(s, k + 1, Len(s))
  <2>1. t \in Seq(S) /\ Len(t) = Len(s) - k /\ \A i \in 1 .. Len(t) : t[i] = s[i + k]
    BY <1>0
  <2> HIDE DEF t
  <2>2. Len(t) + k <= Len(s)
    BY <1>0, <2>1
  <2>3. Part(s, t)
    BY <2>1, <2>2 DEF Part
  <2> QED BY <2>1, <2>3 DEF t
<1> QED BY <1>1, <1>2, <1>3, <1>4, <1>5

\* What is lost is not more than it was.
LEMMA ShrinkKeeps ==
  ASSUME NEW p, NEW q, Shrink(p, q), NEW M, \A w \in DOMAIN p : Len(p[w]) \in Nat
  PROVE  /\ None(p, M) => None(q, M)
         /\ One(p, M) => One(q, M)
<1>1. \A w \in DOMAIN q : \E k \in 0 .. Len(p[w]) :
         \A i \in 1 .. Len(q[w]) : i + k \in 1 .. Len(p[w]) /\ q[w][i] = p[w][i + k]
  BY DEF Shrink, Part
<1>2. ASSUME None(p, M) PROVE None(q, M)
  BY <1>1, <1>2 DEF None, Shrink
<1>3. ASSUME One(p, M),
             NEW v \in DOMAIN q, NEW w \in DOMAIN q,
             NEW i \in 1 .. Len(q[v]), NEW j \in 1 .. Len(q[w]),
             q[v][i] \in M, q[w][j] \in M
      PROVE  v = w /\ i = j
  <2>1. PICK k \in 0 .. Len(p[v]) :
           \A n \in 1 .. Len(q[v]) : n + k \in 1 .. Len(p[v]) /\ q[v][n] = p[v][n + k]
    BY <1>1
  <2>2. PICK l \in 0 .. Len(p[w]) :
           \A n \in 1 .. Len(q[w]) : n + l \in 1 .. Len(p[w]) /\ q[w][n] = p[w][n + l]
    BY <1>1
  <2>3. /\ v \in DOMAIN p /\ i + k \in 1 .. Len(p[v]) /\ p[v][i + k] \in M
        /\ w \in DOMAIN p /\ j + l \in 1 .. Len(p[w]) /\ p[w][j + l] \in M
    BY <1>3, <2>1, <2>2 DEF Shrink
  <2>4. v = w /\ i + k = j + l
    BY <1>3, <2>3, Zenon DEF One
  <2>5. j \in 1 .. Len(q[v]) /\ q[v][j] \in M
    BY <1>3, <2>4
  <2>6. j + k \in 1 .. Len(p[v]) /\ p[v][j + k] \in M
    BY <2>1, <2>5
  <2>7. i + k = j + k
    BY <1>3, <2>3, <2>6, Zenon DEF One
  <2> QED BY <2>4, <2>7
<1> QED BY <1>2, <1>3 DEF One

\* The only message of a kind is read.
LEMMA ReadTakesOnly ==
  ASSUME NEW S, NEW W, NEW p \in [W -> Seq(S)], NEW M, One(p, M),
         NEW w \in W, p[w] # <<>>, Head(p[w]) \in M
  PROVE  None([p EXCEPT ![w] = Tail(@)], M)
<1> DEFINE q == [p EXCEPT ![w] = Tail(@)]
<1>1. p[w] \in Seq(S) /\ 1 \in 1 .. Len(p[w]) /\ p[w][1] \in M
  BY Head(p[w]) = p[w][1]
<1>2. \A v \in W : \A i \in 1 .. Len(p[v]) : p[v][i] \in M => v = w /\ i = 1
  BY <1>1 DEF One
<1>3. DOMAIN q = W /\ q[w] = Tail(p[w]) /\ \A v \in W : v # w => q[v] = p[v]
  OBVIOUS
<1> HIDE DEF q
<1>4. \A i \in 1 .. Len(q[w]) : q[w][i] = p[w][i + 1] /\ i + 1 \in 1 .. Len(p[w]) /\ i + 1 # 1
  <2> DEFINE t == p[w]
  <2>1. t \in Seq(S) /\ t # <<>> /\ q[w] = Tail(t)
    BY <1>1, <1>3
  <2> HIDE DEF t
  <2>2. Len(Tail(t)) = Len(t) - 1 /\ \A i \in 1 .. Len(Tail(t)) : Tail(t)[i] = t[i + 1]
    BY <2>1
  <2>3. Len(t) \in Nat
    BY <2>1
  <2> QED BY <2>1, <2>2, <2>3 DEF t
<1>5. ASSUME NEW v \in W, NEW i \in 1 .. Len(q[v]) PROVE q[v][i] \notin M
  <2>1. CASE v = w
    BY <1>2, <1>4, <1>5, <2>1
  <2>2. CASE v # w
    BY <1>2, <1>3, <1>5, <2>2
  <2> QED BY <2>1, <2>2
<1>6. None(q, M)
  BY <1>3, <1>5 DEF None
<1> QED BY <1>6 DEF q

\* Messages x[w] are sent into each pipe p[w].
Sends(W, p, x) == [w \in W |-> p[w] \o x[w]]

\* Of a kind that is not sent, there is as much as before; the first message of
\* its kind is the only one.
LEMMA SendsKeep ==
  ASSUME NEW S, NEW W, NEW p \in [W -> Seq(S)], NEW x \in [W -> Seq(S)], NEW M
  PROVE  /\ Sends(W, p, x) \in [W -> Seq(S)]
         /\ None(x, M) /\ None(p, M) => None(Sends(W, p, x), M)
         /\ None(x, M) /\ One(p, M) => One(Sends(W, p, x), M)
         /\ One(x, M) /\ None(p, M) => One(Sends(W, p, x), M)
<1> DEFINE q == Sends(W, p, x)
<1>1. DOMAIN p = W /\ DOMAIN q = W /\ DOMAIN x = W /\ q \in [W -> Seq(S)]
  BY DEF Sends
<1>2. ASSUME NEW w \in W
      PROVE  /\ Len(p[w]) \in Nat /\ Len(x[w]) \in Nat
             /\ \A i \in 1 .. Len(q[w]) :
                   \/ i \in 1 .. Len(p[w]) /\ q[w][i] = p[w][i]
                   \/ i - Len(p[w]) \in 1 .. Len(x[w]) /\ q[w][i] = x[w][i - Len(p[w])]
  <2>1. q[w] = p[w] \o x[w] /\ p[w] \in Seq(S) /\ x[w] \in Seq(S)
    BY DEF Sends
  <2> QED BY <2>1
<1> HIDE DEF q
<1>3. ASSUME None(x, M), NEW w \in W, NEW i \in 1 .. Len(q[w]), q[w][i] \in M
      PROVE  i \in 1 .. Len(p[w]) /\ p[w][i] \in M
  <2>1. CASE i - Len(p[w]) \in 1 .. Len(x[w]) /\ q[w][i] = x[w][i - Len(p[w])]
    BY <1>1, <1>3, <2>1 DEF None
  <2>2. CASE i \in 1 .. Len(p[w]) /\ q[w][i] = p[w][i]
    BY <1>3, <2>2
  <2> QED BY <1>2, <2>1, <2>2
<1>4. ASSUME None(p, M), NEW w \in W, NEW i \in 1 .. Len(q[w]), q[w][i] \in M
      PROVE  i - Len(p[w]) \in 1 .. Len(x[w]) /\ x[w][i - Len(p[w])] \in M
  <2>1. CASE i - Len(p[w]) \in 1 .. Len(x[w]) /\ q[w][i] = x[w][i - Len(p[w])]
    BY <1>4, <2>1
  <2>2. CASE i \in 1 .. Len(p[w]) /\ q[w][i] = p[w][i]
    BY <1>1, <1>4, <2>2 DEF None
  <2> QED BY <1>2, <2>1, <2>2
<1>5. ASSUME None(x, M), None(p, M) PROVE None(q, M)
  BY <1>1, <1>3, <1>5 DEF None
<1>6. ASSUME None(x, M), One(p, M) PROVE One(q, M)
  <2>1. ASSUME NEW v \in W, NEW w \in W, NEW i \in 1 .. Len(q[v]), NEW j \in 1 .. Len(q[w]),
               q[v][i] \in M, q[w][j] \in M
        PROVE  v = w /\ i = j
    <3>1. /\ v \in DOMAIN p /\ i \in 1 .. Len(p[v]) /\ p[v][i] \in M
          /\ w \in DOMAIN p /\ j \in 1 .. Len(p[w]) /\ p[w][j] \in M
      BY <1>1, <1>3, <1>6, <2>1
    <3> QED BY <1>6, <3>1, Zenon DEF One
  <2> QED BY <1>1, <2>1 DEF One
<1>7. ASSUME One(x, M), None(p, M) PROVE One(q, M)
  <2>1. ASSUME NEW v \in W, NEW w \in W, NEW i \in 1 .. Len(q[v]), NEW j \in 1 .. Len(q[w]),
               q[v][i] \in M, q[w][j] \in M
        PROVE  v = w /\ i = j
    <3>1. /\ v \in DOMAIN x /\ i - Len(p[v]) \in 1 .. Len(x[v]) /\ x[v][i - Len(p[v])] \in M
          /\ w \in DOMAIN x /\ j - Len(p[w]) \in 1 .. Len(x[w]) /\ x[w][j - Len(p[w])] \in M
      BY <1>1, <1>4, <1>7, <2>1
    <3> DEFINE a == i - Len(p[v])
               b == j - Len(p[w])
    <3>2. v = w /\ a = b
      <4>1. /\ v \in DOMAIN x /\ a \in 1 .. Len(x[v]) /\ x[v][a] \in M
            /\ w \in DOMAIN x /\ b \in 1 .. Len(x[w]) /\ x[w][b] \in M
        BY <3>1
      <4> HIDE DEF a, b
      <4> QED BY <1>7, <4>1, Zenon DEF One
    <3> QED BY <1>2, <2>1, <3>2
  <2> QED BY <1>1, <2>1 DEF One
<1> QED BY <1>1, <1>5, <1>6, <1>7 DEF q

\* One pipe loses something, or gets the messages y.
LEMMA OneShrinks ==
  ASSUME NEW S, NEW W, NEW p \in [W -> Seq(S)], NEW w \in W,
         NEW t \in Seq(S), Part(p[w], t), NEW M
  PROVE  /\ [p EXCEPT ![w] = t] \in [W -> Seq(S)]
         /\ None(p, M) => None([p EXCEPT ![w] = t], M)
         /\ One(p, M) => One([p EXCEPT ![w] = t], M)
<1> DEFINE q == [p EXCEPT ![w] = t]
<1>1. /\ q \in [W -> Seq(S)] /\ DOMAIN p = W /\ DOMAIN q = W
      /\ q[w] = t /\ \A v \in W : v # w => q[v] = p[v]
  OBVIOUS
<1>2. \A v \in W : p[v] \in Seq(S) /\ Len(p[v]) \in Nat
  OBVIOUS
<1> HIDE DEF q
<1>3. \A v \in W : Part(p[v], q[v])
  BY <1>1, <1>2, Parts
<1>4. Shrink(p, q)
  BY <1>1, <1>3, Zenon DEF Shrink
<1>5. (None(p, M) => None(q, M)) /\ (One(p, M) => One(q, M))
  BY <1>1, <1>2, <1>4, ShrinkKeeps
<1> QED BY <1>1, <1>5 DEF q

LEMMA OneGets ==
  ASSUME NEW S, NEW W, NEW p \in [W -> Seq(S)], NEW w \in W, NEW y \in Seq(S), NEW M
  PROVE  /\ [p EXCEPT ![w] = @ \o y] \in [W -> Seq(S)]
         /\ (\A i \in 1 .. Len(y) : y[i] \notin M) =>
               /\ None(p, M) => None([p EXCEPT ![w] = @ \o y], M)
               /\ One(p, M) => One([p EXCEPT ![w] = @ \o y], M)
         /\ (\A i \in 1 .. Len(y) : y[i] \in M => i = 1) =>
               (None(p, M) => One([p EXCEPT ![w] = @ \o y], M))
<1> DEFINE x == [v \in W |-> IF v = w THEN y ELSE <<>>]
<1>1. x \in [W -> Seq(S)] /\ DOMAIN x = W /\ x[w] = y /\ \A v \in W : v # w => x[v] = <<>>
  <2>1. <<>> \in Seq(S)
    OBVIOUS
  <2> QED BY <2>1
<1>2. [p EXCEPT ![w] = @ \o y] = Sends(W, p, x)
  <2>1. \A v \in W : p[v] \o <<>> = p[v]
    OBVIOUS
  <2> QED BY <2>1 DEF Sends
<1> HIDE DEF x
<1>3. ASSUME \A i \in 1 .. Len(y) : y[i] \notin M PROVE None(x, M)
  BY <1>1, <1>3 DEF None
<1>4. ASSUME \A i \in 1 .. Len(y) : y[i] \in M => i = 1 PROVE One(x, M)
  <2>1. \A v \in W : \A i \in 1 .. Len(x[v]) : x[v][i] \in M => v = w /\ i = 1
    BY <1>1, <1>4
  <2> QED BY <1>1, <2>1 DEF One
<1>5. /\ Sends(W, p, x) \in [W -> Seq(S)]
      /\ None(x, M) /\ None(p, M) => None(Sends(W, p, x), M)
      /\ None(x, M) /\ One(p, M) => One(Sends(W, p, x), M)
      /\ One(x, M) /\ None(p, M) => One(Sends(W, p, x), M)
  BY <1>1, SendsKeep, Zenon
<1> QED BY <1>2, <1>3, <1>4, <1>5, Zenon

\* One pipe gets the message e.
LEMMA OneAppends ==
  ASSUME NEW S, NEW W, NEW p \in [W -> Seq(S)], NEW w \in W, NEW e \in S, NEW M
  PROVE  /\ [p EXCEPT ![w] = Append(@, e)] \in [W -> Seq(S)]
         /\ e \notin M => /\ None(p, M) => None([p EXCEPT ![w] = Append(@, e)], M)
                          /\ One(p, M) => One([p EXCEPT ![w] = Append(@, e)], M)
         /\ None(p, M) => One([p EXCEPT ![w] = Append(@, e)], M)
<1> DEFINE y == <<e>>
<1>1. y \in Seq(S) /\ Len(y) = 1 /\ y[1] = e
  OBVIOUS
<1>2. [p EXCEPT ![w] = Append(@, e)] = [p EXCEPT ![w] = @ \o y]
  <2>1. p[w] \in Seq(S)
    OBVIOUS
  <2>2. Append(p[w], e) = p[w] \o y
    BY <2>1
  <2> QED BY <2>2
<1> HIDE DEF y
<1>3. /\ e \notin M => \A i \in 1 .. Len(y) : y[i] \notin M
      /\ \A i \in 1 .. Len(y) : y[i] \in M => i = 1
  BY <1>1
<1>4. /\ [p EXCEPT ![w] = @ \o y] \in [W -> Seq(S)]
      /\ e \notin M => /\ None(p, M) => None([p EXCEPT ![w] = @ \o y], M)
                       /\ One(p, M) => One([p EXCEPT ![w] = @ \o y], M)
      /\ None(p, M) => One([p EXCEPT ![w] = @ \o y], M)
  BY <1>1, <1>3, OneGets, Zenon
<1> QED BY <1>2, <1>4, Zenon

\* Each pipe loses something, or all that is in M.
LEMMA LosesKeeps ==
  ASSUME NEW S, NEW W, NEW p \in [W -> Seq(S)], NEW q \in [W -> Seq(S)], NEW M,
         \A w \in W : Part(p[w], q[w]) \/ Lacks(q[w], M)
  PROVE  /\ None(p, M) => None(q, M)
         /\ One(p, M) => One(q, M)
<1> DEFINE r == [w \in W |-> IF Lacks(q[w], M) THEN <<>> ELSE q[w]]
<1>1. /\ DOMAIN p = W /\ DOMAIN q = W /\ DOMAIN r = W
      /\ \A w \in W : r[w] = IF Lacks(q[w], M) THEN <<>> ELSE q[w]
  OBVIOUS
<1>2. \A w \in W : p[w] \in Seq(S) /\ Len(p[w]) \in Nat
  OBVIOUS
<1> HIDE DEF r
<1>3. \A w \in W : Part(p[w], r[w])
  BY <1>1, <1>2, Parts
<1>4. Shrink(p, r)
  BY <1>1, <1>3, Zenon DEF Shrink
<1>5. /\ None(p, M) => None(r, M)
      /\ One(p, M) => One(r, M)
  BY <1>1, <1>2, <1>4, ShrinkKeeps
<1>6. \A w \in W : \A i \in 1 .. Len(q[w]) : q[w][i] \in M => r[w] = q[w]
  BY <1>1 DEF Lacks
<1>7. None(r, M) => None(q, M)
  BY <1>1, <1>6 DEF None
<1>8. One(r, M) => One(q, M)
  BY <1>1, <1>6 DEF One
<1> QED BY <1>5, <1>7, <1>8
=============================================================================
