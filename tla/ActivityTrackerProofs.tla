------------------------ MODULE ActivityTrackerProofs ------------------------
(***************************************************************************)
(* What ActivityTracker and StatsOutput promise, for every set of users,   *)
(* polls and resets and every window and bound.                            *)
(*                                                                         *)
(* First the names xray prints and where strings.Split cuts them, for any  *)
(* email, and with that what the two parsers make of the output; then the  *)
(* two queries, and the inductive invariant: who moved (for CleanSlate)    *)
(* and how old traffic and entries are (for HiddenIsIdle).                 *)
(***************************************************************************)
EXTENDS MCActivityTracker, SequenceTheorems, FiniteSetTheorems, WellFoundedInduction, TLAPS

\* Induction over the numbers, as a fact about sets.
LEMMA Induction ==
  ASSUME NEW S, 0 \in S, \A n \in Nat : n \in S => n + 1 \in S
  PROVE  Nat \subseteq S
<1> DEFINE T == Nat \ S
           R == OpToRel(<, Nat)
<1>1. SUFFICES ASSUME T # {} PROVE FALSE
  OBVIOUS
<1>2. IsWellFoundedOn(R, Nat)
  BY NatLessThanWellFounded
<1>3. T \subseteq Nat
  OBVIOUS
<1>4. PICK x \in T : \A y \in T : ~(<<y, x>> \in R)
  <2> HIDE DEF T, R
  <2> QED BY <1>1, <1>2, <1>3, WFMin
<1>5. \A y \in Nat : y < x => <<y, x>> \in R
  BY DEF OpToRel
<1>6. x # 0
  OBVIOUS
<1>7. x - 1 \in Nat /\ x - 1 < x /\ (x - 1) + 1 = x
  BY <1>6
<1>8. x - 1 \in S
  <2> HIDE DEF R
  <2> QED BY <1>4, <1>5, <1>7
<1> QED BY <1>7, <1>8

\* A set of numbers with 0 in it has a last one up to i.
LEMMA LastUpTo ==
  ASSUME NEW S, 0 \in S, NEW i \in Nat
  PROVE  \E a \in 0..i : a \in S /\ \A j \in (a + 1)..i : j \notin S
<1> DEFINE T == {n \in Nat : \E a \in 0..n : a \in S /\ \A j \in (a + 1)..n : j \notin S}
<1>1. 0 \in T
  OBVIOUS
<1>2. ASSUME NEW n \in Nat, n \in T PROVE n + 1 \in T
  <2>1. PICK a \in 0..n : a \in S /\ \A j \in (a + 1)..n : j \notin S
    BY <1>2
  <2>2. CASE n + 1 \in S
    <3>1. n + 1 \in 0..(n + 1) /\ \A j \in (n + 1 + 1)..(n + 1) : j \notin S
      OBVIOUS
    <3> QED BY <2>2, <3>1
  <2>3. CASE n + 1 \notin S
    <3>1. \A j \in (a + 1)..(n + 1) : j = n + 1 \/ j \in (a + 1)..n
      OBVIOUS
    <3>2. a \in 0..(n + 1) /\ \A j \in (a + 1)..(n + 1) : j \notin S
      BY <2>1, <2>3, <3>1
    <3> QED BY <2>1, <3>2
  <2> QED BY <2>2, <2>3
<1> HIDE DEF T
<1>3. Nat \subseteq T
  BY <1>1, <1>2, Induction
<1> QED BY <1>3 DEF T

\* A cut, by how many separators are in the row up to it.
Cut(s, i, m) == /\ m \in Nat /\ m >= 1 /\ 3 * m <= i
                /\ \A j \in (i - 3 * m + 1)..i : s[j] = ">"
                /\ 3 * m < i => s[i - 3 * m] # ">"

\* The cuts of the definition are these.
LEMMA CutsAre ==
  ASSUME NEW C, NEW s \in Seq(C), NEW i
  PROVE  i \in Cuts(s) <=> i \in 1..Len(s) /\ \E m : Cut(s, i, m)
<1>1. ASSUME i \in 1..Len(s), NEW m PROVE m \in 1..(i \div 3) <=> m \in Nat /\ m >= 1 /\ 3 * m <= i
  <2>1. i \in Nat
    BY <1>1
  <2> QED BY <2>1
<1> QED BY <1>1 DEF Cuts, Cut

\* Three ">" in a row are not read without a cut.
LEMMA RowIsCut ==
  ASSUME NEW C, NEW s \in Seq(C), NEW i \in 1..Len(s), i + 2 <= Len(s),
         s[i] = ">", s[i + 1] = ">", s[i + 2] = ">"
  PROVE  \E c \in i..(i + 2) : c \in Cuts(s)
<1> DEFINE S == {0} \cup {j \in 1..Len(s) : s[j] # ">"}
<1>0. Len(s) \in Nat /\ i \in Nat /\ i >= 1
  OBVIOUS
<1>1. PICK a \in 0..(i + 2) : a \in S /\ \A j \in (a + 1)..(i + 2) : j \notin S
  <2>1. 0 \in S /\ i + 2 \in Nat
    OBVIOUS
  <2> HIDE DEF S
  <2> QED BY <2>1, LastUpTo
<1>2. a < i
  <2>1. i \notin S /\ i + 1 \notin S /\ i + 2 \notin S
    BY <1>0
  <2> HIDE DEF S
  <2> QED BY <1>0, <1>1, <2>1
<1>3. \A j \in (a + 1)..(i + 2) : s[j] = ">"
  <2>1. \A j \in (a + 1)..(i + 2) : j \in 1..Len(s)
    BY <1>0
  <2> QED BY <1>1, <2>1
<1>4. a > 0 => s[a] # ">"
  BY <1>1
<1>5. PICK m \in Nat : m >= 1 /\ 3 * m <= i + 2 - a /\ i + 2 - a <= 3 * m + 2
  <2> DEFINE n == i + 2 - a
             q == n \div 3
  <2>1. n \in Nat /\ n >= 3
    BY <1>0, <1>2
  <2>2. q \in Nat /\ q >= 1 /\ 3 * q <= n /\ n <= 3 * q + 2
    <3> HIDE DEF n
    <3> QED BY <2>1
  <2> QED BY <2>2
<1> DEFINE c == a + 3 * m
<1>6. c \in i..(i + 2) /\ c \in 1..Len(s) /\ c - 3 * m = a /\ 3 * m <= c /\ (3 * m < c <=> a > 0)
  BY <1>0, <1>5
<1> HIDE DEF c, S
<1>7. Cut(s, c, m)
  <2>1. \A j \in (c - 3 * m + 1)..c : s[j] = ">"
    BY <1>0, <1>3, <1>6
  <2>2. 3 * m < c => s[c - 3 * m] # ">"
    BY <1>4, <1>6
  <2> QED BY <1>5, <1>6, <2>1, <2>2 DEF Cut
<1> QED BY <1>6, <1>7, CutsAre

-----------------------------------------------------------------------------
\* s begins with user>>>u>>> and a token that is not ">".
Names(s, u) ==
  LET n == Len(u)
  IN  /\ Len(s) \in Nat /\ n + 8 <= Len(s)
      /\ s[1] # ">" /\ s[2] = ">" /\ s[3] = ">" /\ s[4] = ">"
      /\ \A j \in 1..n : s[j + 4] = u[j]
      /\ s[n + 5] = ">" /\ s[n + 6] = ">" /\ s[n + 7] = ">" /\ s[n + 8] # ">"

\* The first cut is after "user".
LEMMA FirstCut ==
  ASSUME NEW C, NEW s \in Seq(C), NEW u \in Seq(C), Names(s, u)
  PROVE  4 \in Cuts(s) /\ \A i \in Cuts(s) : i >= 4
<1>1. Len(s) \in Nat /\ Len(s) >= 4
  BY DEF Names
<1>2. Cut(s, 4, 1)
  BY DEF Cut, Names
<1>3. ASSUME NEW i \in Cuts(s), i < 4 PROVE FALSE
  <2>1. PICK m : Cut(s, i, m)
    BY CutsAre
  <2>2. i \in 1..Len(s)
    BY CutsAre
  <2>3. m = 1 /\ i = 3
    BY <1>3, <2>1, <2>2 DEF Cut
  <2>4. s[1] = ">"
    BY <2>1, <2>3 DEF Cut
  <2> QED BY <2>4 DEF Names
<1>4. \A i \in Cuts(s) : i \in Nat
  BY CutsAre
<1> QED BY <1>1, <1>2, <1>3, <1>4, CutsAre

\* There is a cut in the separator after the email,
LEMMA CutAfterName ==
  ASSUME NEW C, NEW s \in Seq(C), NEW u \in Seq(C), Names(s, u)
  PROVE  \E c \in (Len(u) + 5)..(Len(u) + 7) : c \in Cuts(s)
<1> DEFINE n == Len(u)
<1>1. n \in Nat /\ n + 5 \in 1..Len(s) /\ (n + 5) + 2 <= Len(s)
  BY DEF Names
<1>2. s[n + 5] = ">" /\ s[(n + 5) + 1] = ">" /\ s[(n + 5) + 2] = ">"
  BY <1>1 DEF Names
<1>3. \E c \in (n + 5)..((n + 5) + 2) : c \in Cuts(s)
  BY <1>1, <1>2, RowIsCut
<1> QED BY <1>1, <1>3

\* and one in the email when it has a separator.
LEMMA CutInName ==
  ASSUME NEW C, NEW s \in Seq(C), NEW u \in Seq(C), Names(s, u), HasSep(u)
  PROVE  \E c \in 5..(Len(u) + 4) : c \in Cuts(s)
<1> DEFINE n == Len(u)
<1>0. n \in Nat
  OBVIOUS
<1>1. PICK i \in 1..n : i + 2 <= n /\ u[i] = ">" /\ u[i + 1] = ">" /\ u[i + 2] = ">"
  BY DEF HasSep
<1>2. i + 4 \in 1..Len(s) /\ (i + 4) + 2 <= Len(s)
  BY <1>0, <1>1 DEF Names
<1>3. s[i + 4] = ">" /\ s[(i + 4) + 1] = ">" /\ s[(i + 4) + 2] = ">"
  <2>1. i \in 1..n /\ i + 1 \in 1..n /\ i + 2 \in 1..n
    BY <1>0, <1>1
  <2>2. s[i + 4] = u[i] /\ s[(i + 1) + 4] = u[i + 1] /\ s[(i + 2) + 4] = u[i + 2]
    BY <2>1 DEF Names
  <2>3. (i + 4) + 1 = (i + 1) + 4 /\ (i + 4) + 2 = (i + 2) + 4
    BY <1>0
  <2> QED BY <1>1, <2>2, <2>3
<1>4. \E c \in (i + 4)..((i + 4) + 2) : c \in Cuts(s)
  BY <1>2, <1>3, RowIsCut
<1> QED BY <1>0, <1>1, <1>4

\* The tokens of the email, where they are in the name.
LEMMA InName ==
  ASSUME NEW C, NEW s \in Seq(C), NEW u \in Seq(C), Names(s, u), NEW k \in 5..(Len(u) + 4)
  PROVE  s[k] = u[k - 4]
<1>1. k - 4 \in 1..Len(u) /\ (k - 4) + 4 = k
  OBVIOUS
<1> QED BY <1>1 DEF Names

\* Without a separator in the email no cut is in it.
LEMMA NoCutInName ==
  ASSUME NEW C, NEW s \in Seq(C), NEW u \in Seq(C), Names(s, u), ~HasSep(u),
         NEW i \in Cuts(s), i > 4
  PROVE  i >= Len(u) + 5
<1> DEFINE n == Len(u)
<1>0. n \in Nat /\ i \in Nat
  BY CutsAre
<1>1. SUFFICES ASSUME i <= n + 4 PROVE FALSE
  BY <1>0
<1>2. PICK m : Cut(s, i, m)
  BY CutsAre
<1>3. m \in Nat /\ m >= 1 /\ 3 * m <= i /\ (\A j \in (i - 3 * m + 1)..i : s[j] = ">")
  BY <1>2 DEF Cut
<1>4. s[i] = ">" /\ s[i - 1] = ">" /\ s[i - 2] = ">"
  BY <1>0, <1>3
<1>5. i < 7
  <2> SUFFICES ASSUME i >= 7 PROVE FALSE
    BY <1>0
  <2>1. i \in 5..(n + 4) /\ i - 1 \in 5..(n + 4) /\ i - 2 \in 5..(n + 4)
    BY <1>0, <1>1
  <2>2. s[i] = u[i - 4] /\ s[i - 1] = u[(i - 1) - 4] /\ s[i - 2] = u[(i - 2) - 4]
    BY <2>1, InName
  <2>3. /\ (i - 2) - 4 = i - 6 /\ (i - 1) - 4 = (i - 6) + 1 /\ i - 4 = (i - 6) + 2
        /\ i - 6 \in 1..n /\ (i - 6) + 2 <= n
    BY <1>0, <1>1
  <2> QED BY <1>4, <2>2, <2>3 DEF HasSep
<1>6. i \in {5, 6}
  BY <1>0, <1>5
<1>7. s[2] = ">" /\ s[3] = ">" /\ s[1] # ">"
  BY DEF Names
<1>8. CASE m = 1
  <2>1. i - 3 * m \in {2, 3} /\ 3 * m < i
    BY <1>6, <1>8
  <2>2. s[i - 3 * m] # ">"
    BY <1>2, <2>1 DEF Cut
  <2> QED BY <1>7, <2>1, <2>2
<1>9. CASE m # 1
  <2>1. m = 2 /\ i = 6
    BY <1>3, <1>6, <1>9
  <2>2. s[1] = ">"
    BY <1>3, <2>1
  <2> QED BY <1>7, <2>2
<1> QED BY <1>8, <1>9

\* After a plain email a name is cut at the end of the separator,
LEMMA CutAfterPlain ==
  ASSUME NEW C, NEW s \in Seq(C), NEW u \in Seq(C), Names(s, u), Plain(u),
         NEW i \in Cuts(s), i > 4, i <= Len(u) + 8
  PROVE  i = Len(u) + 7
<1> DEFINE n == Len(u)
<1>0. n \in Nat /\ i \in Nat /\ ~HasSep(u)
  BY CutsAre DEF Plain
<1>1. i >= n + 5
  BY <1>0, NoCutInName
<1>2. PICK m : Cut(s, i, m)
  BY CutsAre
<1>3. m \in Nat /\ m >= 1 /\ 3 * m <= i /\ (\A j \in (i - 3 * m + 1)..i : s[j] = ">")
  BY <1>2 DEF Cut
<1>4. s[i] = ">" /\ s[i - 1] = ">" /\ s[i - 2] = ">"
  BY <1>0, <1>3
<1>5. i # n + 8
  BY <1>4 DEF Names
<1>6. i \in {n + 5, n + 6, n + 7}
  BY <1>0, <1>1, <1>5
<1>7. CASE n > 0
  <2>1. s[n + 4] # ">"
    <3>1. n + 4 \in 5..(n + 4) /\ (n + 4) - 4 = n
      BY <1>0, <1>7
    <3>2. s[n + 4] = u[n]
      BY <3>1, InName
    <3> QED BY <1>7, <3>2 DEF Plain
  <2>2. i = n + 5 => i - 1 = n + 4
    BY <1>0
  <2>3. i = n + 6 => i - 2 = n + 4
    BY <1>0
  <2> QED BY <1>4, <1>6, <2>1, <2>2, <2>3
<1>8. CASE n = 0
  <2>1. i \in {5, 6, 7}
    BY <1>6, <1>8
  <2>2. s[2] = ">" /\ s[3] = ">" /\ s[1] # ">"
    BY DEF Names
  <2>3. m = 1 => 3 * m < i /\ i - 3 * m \in {2, 3, 4}
    BY <2>1
  <2>4. m = 1 => i = 7
    BY <1>2, <2>1, <2>2 DEF Cut
  <2>5. m # 1 => m = 2 /\ i \in {6, 7}
    BY <1>3, <2>1
  <2>6. i = 6 /\ m = 2 => s[1] = ">"
    BY <1>3
  <2> QED BY <1>8, <2>1, <2>2, <2>4, <2>5, <2>6
<1> QED BY <1>0, <1>7, <1>8

\* and before it after an email that ends in ">".
LEMMA NoCutAfterOther ==
  ASSUME NEW C, NEW s \in Seq(C), NEW u \in Seq(C), Names(s, u), ~HasSep(u),
         Len(u) > 0, u[Len(u)] = ">"
  PROVE  Len(u) + 7 \notin Cuts(s)
<1> DEFINE n == Len(u)
           i == n + 7
<1>0. n \in Nat /\ n >= 1 /\ i \in Nat
  OBVIOUS
<1>1. SUFFICES ASSUME i \in Cuts(s) PROVE FALSE
  OBVIOUS
<1>2. PICK m : Cut(s, i, m)
  BY <1>1, CutsAre
<1>3. m \in Nat /\ m >= 1 /\ 3 * m <= i /\ (\A j \in (i - 3 * m + 1)..i : s[j] = ">")
  BY <1>2 DEF Cut
<1>4. s[1] # ">" /\ s[2] = ">" /\ s[3] = ">"
  BY DEF Names
<1>5. \A k \in 5..(n + 4) : s[k] = u[k - 4]
  BY InName
<1>6. s[n + 4] = ">"
  <2>1. n + 4 \in 5..(n + 4) /\ (n + 4) - 4 = n
    BY <1>0
  <2> QED BY <1>5, <2>1
<1>7. m # 1
  <2> SUFFICES ASSUME m = 1 PROVE FALSE
    OBVIOUS
  <2>1. i - 3 * m = n + 4 /\ 3 * m < i
    BY <1>0
  <2> QED BY <1>2, <1>6, <2>1 DEF Cut
<1>8. n + 2 \in (i - 3 * m + 1)..i /\ n + 3 \in (i - 3 * m + 1)..i
  BY <1>0, <1>3, <1>7
<1>9. s[n + 2] = ">" /\ s[n + 3] = ">"
  BY <1>3, <1>8
<1>10. CASE n >= 3
  <2>1. /\ n + 2 \in 5..(n + 4) /\ n + 3 \in 5..(n + 4)
        /\ (n + 2) - 4 = n - 2 /\ (n + 3) - 4 = (n - 2) + 1
        /\ (n - 2) + 2 = n /\ n - 2 \in 1..n
    BY <1>0, <1>10
  <2>2. u[n - 2] = ">" /\ u[(n - 2) + 1] = ">" /\ u[(n - 2) + 2] = ">"
    BY <1>5, <1>9, <2>1
  <2> QED BY <1>0, <2>1, <2>2 DEF HasSep
<1>11. CASE n = 2
  <2>1. i = 9 /\ (m = 2 \/ m = 3)
    BY <1>3, <1>7, <1>11
  <2>2. m = 2 => i - 3 * m = 3 /\ 3 * m < i
    BY <2>1
  <2>3. m = 3 => 1 \in (i - 3 * m + 1)..i
    BY <2>1
  <2> QED BY <1>2, <1>3, <1>4, <2>1, <2>2, <2>3 DEF Cut
<1>12. CASE n = 1
  <2>1. i = 8 /\ m = 2
    BY <1>3, <1>7, <1>12
  <2>2. i - 3 * m = 2 /\ 3 * m < i
    BY <2>1
  <2> QED BY <1>2, <1>4, <2>2 DEF Cut
<1>13. n >= 3 \/ n = 2 \/ n = 1
  <2> HIDE DEF n
  <2> QED BY <1>0
<1> QED BY <1>10, <1>11, <1>12, <1>13

-----------------------------------------------------------------------------
(* Split, by its cuts.                                                     *)

\* The cuts are a finite set of positions.
LEMMA CutsFinite ==
  ASSUME NEW C, NEW s \in Seq(C)
  PROVE  /\ IsFiniteSet(Cuts(s)) /\ Cuts(s) \in SUBSET (1..Len(s)) /\ Cardinality(Cuts(s)) \in Nat
<1>1. Cuts(s) \in SUBSET (1..Len(s)) /\ IsFiniteSet(1..Len(s))
  BY FS_Interval DEF Cuts
<1>2. IsFiniteSet(Cuts(s))
  BY <1>1, FS_Subset
<1> QED BY <1>1, <1>2, FS_CardinalityType

\* The parts, one by one.  (Slice is SubSeq under a name that the provers do
\* not expand.)
Slice(s, i, j) == SubSeq(s, i, j)

Part(s, cuts, k) ==
  Slice(s, IF k = 1 THEN 1 ELSE Nth(cuts, k - 1) + 1,
           IF k - 1 = Cardinality(cuts) THEN Len(s) ELSE Nth(cuts, k) - 3)

\* The parts lie between the cuts,
LEMMA SplitIs ==
  ASSUME NEW C, NEW s \in Seq(C)
  PROVE  Split(s) = [k \in 1..(Cardinality(Cuts(s)) + 1) |-> Part(s, Cuts(s), k)]
BY CutsFinite, Zenon DEF Split, Part, Slice

\* and are one more than these.
LEMMA SplitLen ==
  ASSUME NEW C, NEW s \in Seq(C)
  PROVE  Len(Split(s)) = Cardinality(Cuts(s)) + 1
<1> DEFINE n == Cardinality(Cuts(s)) + 1
           f == [k \in 1..n |-> Part(s, Cuts(s), k)]
<1>1. n \in Nat
  <2>1. Cardinality(Cuts(s)) \in Nat
    BY CutsFinite
  <2> QED BY <2>1
<1>2. DOMAIN f = 1..n /\ f = Split(s)
  BY SplitIs, Zenon
<1>3. \E T : f \in Seq(T)
  <2> DEFINE T == {f[k] : k \in 1..n}
  <2>1. f \in [1..n -> T]
    OBVIOUS
  <2>2. f \in Seq(T)
    <3> HIDE DEF f, T, n
    <3> QED BY <1>1, <2>1, SeqDef
  <2> QED BY <2>2
<1>4. Len(f) = n
  <2> HIDE DEF f, n
  <2>1. PICK T : f \in Seq(T)
    BY <1>3
  <2> QED BY <1>1, <1>2, <2>1
<1> QED BY <1>2, <1>4

\* The cuts of a name that has two of them, in order.
LEMMA NthOfTwo ==
  ASSUME NEW a \in Int, NEW b \in Int, a < b, NEW cuts, cuts = {a, b}
  PROVE  Cardinality(cuts) = 2 /\ Nth(cuts, 1) = a /\ Nth(cuts, 2) = b
<1>1. {j \in {a, b} : j <= a} = {a} /\ {j \in {a, b} : j <= b} = {a, b}
  OBVIOUS
<1>2. Cardinality({a}) = 1 /\ IsFiniteSet({a})
  BY FS_Singleton
<1>3. Cardinality({a, b}) = 2
  <2>1. {a} \cup {b} = {a, b} /\ b \notin {a}
    OBVIOUS
  <2>2. Cardinality({a} \cup {b}) = 1 + 1
    BY <1>2, <2>1, FS_AddElement
  <2> QED BY <2>1, <2>2
<1> QED BY <1>1, <1>2, <1>3 DEF Nth

\* And of one that has three.
LEMMA NthOfThree ==
  ASSUME NEW a \in Int, NEW b \in Int, NEW c \in Int, a < b, b < c, NEW cuts, cuts = {a, b, c}
  PROVE  Cardinality(cuts) = 3 /\ Nth(cuts, 1) = a /\ Nth(cuts, 2) = b /\ Nth(cuts, 3) = c
<1>1. /\ {j \in {a, b, c} : j <= a} = {a}
      /\ {j \in {a, b, c} : j <= b} = {a, b}
      /\ {j \in {a, b, c} : j <= c} = {a, b, c}
  OBVIOUS
<1>2. Cardinality({a}) = 1
  BY FS_Singleton
<1>3. Cardinality({a, b}) = 2 /\ IsFiniteSet({a, b})
  <2>1. {a, b} = {a} \cup {b}
    OBVIOUS
  <2>2. IsFiniteSet({a}) /\ IsFiniteSet({b})
    BY FS_Singleton
  <2>3. IsFiniteSet({a, b})
    BY <2>1, <2>2, FS_Union
  <2> QED BY <2>3, NthOfTwo
<1>4. Cardinality({a, b, c}) = 3 /\ IsFiniteSet({a, b, c})
  <2>1. {a, b} \cup {c} = {a, b, c} /\ c \notin {a, b}
    OBVIOUS
  <2>2. Cardinality({a, b} \cup {c}) = 2 + 1 /\ IsFiniteSet({a, b} \cup {c})
    BY <1>3, <2>1, FS_AddElement
  <2> QED BY <2>1, <2>2
<1> QED BY <1>1, <1>2, <1>3, <1>4 DEF Nth

InThree(s, a, b) ==
  /\ Len(Split(s)) = 3
  /\ Split(s)[1] = Slice(s, 1, a - 3)
  /\ Split(s)[2] = Slice(s, a + 1, b - 3)

\* Two cuts make three parts,
LEMMA SplitInThree ==
  ASSUME NEW C, NEW s \in Seq(C), NEW a \in Int, NEW b \in Int, a < b,
         NEW cuts, cuts = Cuts(s), cuts = {a, b}
  PROVE  InThree(s, a, b)
<1>1. Cardinality(cuts) = 2 /\ Nth(cuts, 1) = a /\ Nth(cuts, 2) = b
  BY NthOfTwo
<1>2. /\ Len(Split(s)) = Cardinality(cuts) + 1
      /\ Split(s) = [k \in 1..(Cardinality(cuts) + 1) |-> Part(s, cuts, k)]
  BY SplitLen, SplitIs, Zenon
<1>3. 1 \in 1..(Cardinality(cuts) + 1) /\ 2 \in 1..(Cardinality(cuts) + 1)
  BY <1>1
<1>4. Split(s)[1] = Part(s, cuts, 1) /\ Split(s)[2] = Part(s, cuts, 2)
  BY <1>2, <1>3, Zenon
<1>5. Part(s, cuts, 1) = Slice(s, 1, Nth(cuts, 1) - 3)
  BY <1>1 DEF Part
<1>6. Part(s, cuts, 2) = Slice(s, a + 1, b - 3)
  BY <1>1 DEF Part
<1>7. Len(Split(s)) = 3
  BY <1>1, <1>2
<1> QED BY <1>1, <1>4, <1>5, <1>6, <1>7, Zenon DEF InThree

InFour(s, a, b, c) ==
  /\ Len(Split(s)) = 4
  /\ Split(s)[1] = Slice(s, 1, a - 3)
  /\ Split(s)[2] = Slice(s, a + 1, b - 3)
  /\ Split(s)[3] = Slice(s, b + 1, c - 3)
  /\ Split(s)[4] = Slice(s, c + 1, Len(s))

\* and three make four.
LEMMA SplitInFour ==
  ASSUME NEW C, NEW s \in Seq(C), NEW a \in Int, NEW b \in Int, NEW c \in Int, a < b, b < c,
         NEW cuts, cuts = Cuts(s), cuts = {a, b, c}
  PROVE  InFour(s, a, b, c)
<1>1. Cardinality(cuts) = 3 /\ Nth(cuts, 1) = a /\ Nth(cuts, 2) = b /\ Nth(cuts, 3) = c
  BY NthOfThree
<1>2. /\ Len(Split(s)) = Cardinality(cuts) + 1
      /\ Split(s) = [k \in 1..(Cardinality(cuts) + 1) |-> Part(s, cuts, k)]
  BY SplitLen, SplitIs, Zenon
<1>3. \A k \in {1, 2, 3, 4} : k \in 1..(Cardinality(cuts) + 1)
  BY <1>1
<1>4. \A k \in {1, 2, 3, 4} : Split(s)[k] = Part(s, cuts, k)
  BY <1>2, <1>3, Zenon
<1>5. Part(s, cuts, 1) = Slice(s, 1, Nth(cuts, 1) - 3)
  BY <1>1 DEF Part
<1>6. Part(s, cuts, 2) = Slice(s, a + 1, b - 3)
  BY <1>1 DEF Part
<1>7. Part(s, cuts, 3) = Slice(s, b + 1, c - 3)
  BY <1>1 DEF Part
<1>8. Part(s, cuts, 4) = Slice(s, Nth(cuts, 3) + 1, Len(s))
  BY <1>1 DEF Part
<1>9. Len(Split(s)) = 4
  BY <1>1, <1>2
<1> QED BY <1>1, <1>4, <1>5, <1>6, <1>7, <1>8, <1>9, Zenon DEF InFour

-----------------------------------------------------------------------------
(* The names xray prints.                                                  *)

\* One sequence after another, by position.  (Under a name of its own, which
\* the provers do not expand.)
Join(x, y) == x \o y

\* The type and the length of a joined sequence,
LEMMA Joined ==
  ASSUME NEW T, NEW x \in Seq(T), NEW y \in Seq(T)
  PROVE  Join(x, y) \in Seq(T) /\ Len(Join(x, y)) = Len(x) + Len(y)
BY DEF Join

\* its first part, by position,
LEMMA InFirst ==
  ASSUME NEW T, NEW x \in Seq(T), NEW y \in Seq(T), NEW j \in 1..Len(x)
  PROVE  Join(x, y)[j] = x[j]
BY DEF Join

\* and its second.
LEMMA InSecond ==
  ASSUME NEW T, NEW x \in Seq(T), NEW y \in Seq(T), NEW j \in 1..Len(y), NEW k, k = Len(x) + j
  PROVE  Join(x, y)[k] = y[j]
BY DEF Join

\* The separator, by position.
LEMMA SepIs ==
  ASSUME NEW T, ">" \in T
  PROVE  /\ Sep \in Seq(T) /\ Len(Sep) = 3
         /\ Sep[1] = ">" /\ Sep[2] = ">" /\ Sep[3] = ">"
         /\ 1 \in 1..Len(Sep) /\ 2 \in 1..Len(Sep) /\ 3 \in 1..Len(Sep)
BY DEF Sep

\* user>>>u>>>, by position.
Start(u) == Join(Join(Join(<<"user">>, Sep), u), Sep)

\* The separators of a name are where Names has them,
LEMMA StartOfName ==
  ASSUME NEW T, ">" \in T, "user" \in T, NEW u \in Seq(T)
  PROVE  /\ Start(u) \in Seq(T) /\ Len(Start(u)) = Len(u) + 7
         /\ Start(u)[1] = "user" /\ Start(u)[2] = ">" /\ Start(u)[3] = ">" /\ Start(u)[4] = ">"
         /\ Start(u)[Len(u) + 5] = ">" /\ Start(u)[Len(u) + 6] = ">" /\ Start(u)[Len(u) + 7] = ">"
<1> DEFINE a == Join(<<"user">>, Sep)
           b == Join(a, u)
           c == Join(b, Sep)
<1>1. Len(u) \in Nat
  OBVIOUS
<1>2. a \in Seq(T) /\ Len(a) = 4 /\ a[1] = "user" /\ a[2] = ">" /\ a[3] = ">" /\ a[4] = ">"
  BY DEF Sep, Join
<1>3. c = Start(u)
  BY DEF Start
<1> HIDE DEF a
<1>4. b \in Seq(T) /\ Len(b) = 4 + Len(u)
  BY <1>2, Joined
<1>5. b[1] = a[1] /\ b[2] = a[2] /\ b[3] = a[3] /\ b[4] = a[4]
  <2>1. 1 \in 1..Len(a) /\ 2 \in 1..Len(a) /\ 3 \in 1..Len(a) /\ 4 \in 1..Len(a)
    BY <1>2
  <2> QED BY <1>2, <2>1, InFirst
<1> HIDE DEF b
<1>6. c \in Seq(T) /\ Len(c) = Len(b) + 3
  <2>1. /\ Sep \in Seq(T) /\ Len(Sep) = 3 /\ Sep[1] = ">" /\ Sep[2] = ">" /\ Sep[3] = ">"
        /\ 1 \in 1..Len(Sep) /\ 2 \in 1..Len(Sep) /\ 3 \in 1..Len(Sep)
    BY SepIs
  <2>2. Join(b, Sep) \in Seq(T) /\ Len(Join(b, Sep)) = Len(b) + Len(Sep)
    BY <1>4, <2>1, Joined, Zenon
  <2> QED BY <2>1, <2>2
<1>7. c[1] = b[1] /\ c[2] = b[2] /\ c[3] = b[3] /\ c[4] = b[4]
  <2>1. 1 \in 1..Len(b) /\ 2 \in 1..Len(b) /\ 3 \in 1..Len(b) /\ 4 \in 1..Len(b)
    BY <1>1, <1>4
  <2> QED BY <1>4, <2>1, SepIs, InFirst
<1>8. c[Len(b) + 1] = ">" /\ c[Len(b) + 2] = ">" /\ c[Len(b) + 3] = ">"
  <2>1. /\ Sep \in Seq(T) /\ Len(Sep) = 3 /\ Sep[1] = ">" /\ Sep[2] = ">" /\ Sep[3] = ">"
        /\ 1 \in 1..Len(Sep) /\ 2 \in 1..Len(Sep) /\ 3 \in 1..Len(Sep)
    BY SepIs
  <2>2. ASSUME NEW j \in 1..Len(Sep), NEW k, k = Len(b) + j PROVE Join(b, Sep)[k] = Sep[j]
    <3>1. b \in Seq(T) /\ Sep \in Seq(T)
      BY <1>4, <2>1
    <3> QED BY <2>2, <3>1, InSecond
  <2> QED BY <2>1, <2>2
<1>9. Len(b) + 1 = Len(u) + 5 /\ Len(b) + 2 = Len(u) + 6 /\ Len(b) + 3 = Len(u) + 7
  BY <1>1, <1>4
<1> QED BY <1>2, <1>3, <1>5, <1>6, <1>7, <1>8, <1>9

\* and the email is between them.
LEMMA StartOfNameAt ==
  ASSUME NEW T, ">" \in T, "user" \in T, NEW u \in Seq(T), NEW j \in 1..Len(u)
  PROVE  Start(u)[j + 4] = u[j]
<1> DEFINE a == Join(<<"user">>, Sep)
           b == Join(a, u)
<1>1. Len(u) \in Nat
  OBVIOUS
<1>2. a \in Seq(T) /\ Len(a) = 4
  BY DEF Sep, Join
<1>3. Start(u) = Join(b, Sep)
  BY DEF Start
<1> HIDE DEF a
<1>4. b \in Seq(T) /\ Len(b) = 4 + Len(u)
  BY <1>2, Joined
<1>5. b[Len(a) + j] = u[j]
  <2>1. ASSUME NEW k, k = Len(a) + j PROVE Join(a, u)[k] = u[j]
    <3>1. a \in Seq(T)
      BY <1>2
    <3> QED BY <2>1, <3>1, InSecond
  <2> QED BY <2>1
<1> HIDE DEF b
<1>6. Len(a) + j = j + 4 /\ j + 4 \in 1..Len(b)
  BY <1>1, <1>2, <1>4
<1>7. Join(b, Sep)[j + 4] = b[j + 4]
  BY <1>4, <1>6, SepIs, InFirst
<1> QED BY <1>3, <1>5, <1>6, <1>7

\* A name goes on with a token that is not ">".
LEMMA NameStarts ==
  ASSUME NEW T, ">" \in T, "user" \in T, NEW u \in Seq(T), NEW s, NEW l \in Nat,
         Len(s) = l, Len(u) + 8 <= l,
         \A j \in 1..(Len(u) + 7) : s[j] = Start(u)[j],
         s[Len(u) + 8] # ">"
  PROVE  s[1] = "user" /\ Names(s, u)
<1> DEFINE n == Len(u)
<1>1. n \in Nat
  OBVIOUS
<1>2. \A j \in {1, 2, 3, 4, n + 5, n + 6, n + 7} : j \in 1..(n + 7)
  <2> HIDE DEF n
  <2> QED BY <1>1
<1>3. \A j \in {1, 2, 3, 4, n + 5, n + 6, n + 7} : s[j] = Start(u)[j]
  BY <1>2
<1>4. s[1] = "user" /\ s[2] = ">" /\ s[3] = ">" /\ s[4] = ">"
  BY <1>3, StartOfName
<1>5. s[n + 5] = ">" /\ s[n + 6] = ">" /\ s[n + 7] = ">"
  BY <1>3, StartOfName
<1>6. ASSUME NEW j \in 1..n PROVE s[j + 4] = u[j]
  <2>1. j + 4 \in 1..(n + 7)
    BY <1>1
  <2>2. Start(u)[j + 4] = u[j]
    BY StartOfNameAt
  <2> QED BY <2>1, <2>2
<1> QED BY <1>4, <1>5, <1>6 DEF Names

\* The tokens of names are among T.
Alphabet(T) == {">", "user", "traffic", "online", "uplink", "downlink"} \subseteq T

\* The name of a counter: user>>>u>>>traffic>>>d.
IsCounterName(s, u, d) ==
  LET n == Len(u)
  IN  /\ Len(s) = n + 12
      /\ s[1] = "user" /\ s[n + 8] = "traffic" /\ s[n + 12] = d
      /\ s[n + 9] = ">" /\ s[n + 10] = ">" /\ s[n + 11] = ">"
      /\ Names(s, u)

\* The name of a counter has this form.
LEMMA CounterNameIs ==
  ASSUME NEW T, Alphabet(T), NEW u \in Seq(T), NEW d \in Directions, NEW s, s = CounterName(u, d)
  PROVE  s \in Seq(T) /\ IsCounterName(s, u, d)
<1> DEFINE n == Len(u)
           c == Start(u)
           t == <<"traffic">>
           e == Join(c, t)
           f == Join(e, Sep)
           w == <<d>>
<1>1. u \in Seq(T) /\ n \in Nat
  OBVIOUS
<1>2. ">" \in T /\ "user" \in T
  BY DEF Alphabet
<1>3. t \in Seq(T) /\ Len(t) = 1 /\ t[1] = "traffic" /\ 1 \in 1..Len(t)
  BY DEF Alphabet
<1>4. w \in Seq(T) /\ Len(w) = 1 /\ w[1] = d /\ 1 \in 1..Len(w)
  BY DEF Directions, Alphabet
<1>5. s = Join(f, w)
  BY DEF CounterName, Join, Start
<1> HIDE DEF t, w
<1>6. c \in Seq(T) /\ Len(c) = n + 7
  BY <1>1, <1>2, StartOfName
<1> HIDE DEF c
<1>7. e \in Seq(T) /\ Len(e) = Len(c) + 1
  BY <1>3, <1>6, Joined
<1>8. e[Len(c) + 1] = "traffic"
  <2>1. ASSUME NEW k, k = Len(c) + 1 PROVE Join(c, t)[k] = t[1]
    <3>1. c \in Seq(T) /\ t \in Seq(T) /\ 1 \in 1..Len(t)
      BY <1>3, <1>6
    <3> QED BY <2>1, <3>1, InSecond
  <2> QED BY <1>3, <2>1
<1>9. \A j \in 1..Len(c) : e[j] = c[j]
  BY <1>3, <1>6, InFirst
<1> HIDE DEF e
<1>10. f \in Seq(T) /\ Len(f) = Len(e) + 3
  <2>1. /\ Sep \in Seq(T) /\ Len(Sep) = 3 /\ Sep[1] = ">" /\ Sep[2] = ">" /\ Sep[3] = ">"
        /\ 1 \in 1..Len(Sep) /\ 2 \in 1..Len(Sep) /\ 3 \in 1..Len(Sep)
    BY <1>2, SepIs
  <2> QED BY <1>7, <2>1, Joined
<1>11. f[Len(e) + 1] = ">" /\ f[Len(e) + 2] = ">" /\ f[Len(e) + 3] = ">"
  <2>1. /\ Sep \in Seq(T) /\ Sep[1] = ">" /\ Sep[2] = ">" /\ Sep[3] = ">"
        /\ 1 \in 1..Len(Sep) /\ 2 \in 1..Len(Sep) /\ 3 \in 1..Len(Sep)
    BY <1>2, SepIs
  <2>2. ASSUME NEW j \in 1..Len(Sep), NEW k, k = Len(e) + j PROVE Join(e, Sep)[k] = Sep[j]
    <3>1. e \in Seq(T) /\ Sep \in Seq(T)
      BY <1>7, <2>1
    <3> QED BY <2>2, <3>1, InSecond
  <2> QED BY <2>1, <2>2
<1>12. \A j \in 1..Len(e) : f[j] = e[j]
  BY <1>2, <1>7, SepIs, InFirst
<1> HIDE DEF f
<1>13. s \in Seq(T) /\ Len(s) = Len(f) + 1
  BY <1>4, <1>5, <1>10, Joined
<1>14. s[Len(f) + 1] = d
  <2>1. ASSUME NEW k, k = Len(f) + 1 PROVE Join(f, w)[k] = w[1]
    <3>1. f \in Seq(T) /\ w \in Seq(T) /\ 1 \in 1..Len(w)
      BY <1>4, <1>10
    <3> QED BY <2>1, <3>1, InSecond
  <2> QED BY <1>4, <1>5, <2>1
<1>15. \A j \in 1..Len(f) : s[j] = f[j]
  BY <1>4, <1>5, <1>10, InFirst
<1> HIDE DEF n
<1>16. Len(e) = n + 8 /\ Len(f) = n + 11 /\ Len(s) = n + 12
  BY <1>1, <1>6, <1>7, <1>10, <1>13
<1>17. ASSUME NEW j \in 1..(n + 7) PROVE s[j] = c[j]
  <2>1. j \in 1..Len(c) /\ j \in 1..Len(e) /\ j \in 1..Len(f)
    BY <1>1, <1>6, <1>16
  <2> QED BY <1>9, <1>12, <1>15, <2>1
<1>18. s[n + 8] = "traffic"
  <2>1. Len(c) + 1 = n + 8 /\ n + 8 \in 1..Len(e) /\ n + 8 \in 1..Len(f)
    BY <1>1, <1>6, <1>16
  <2> QED BY <1>8, <1>12, <1>15, <2>1
<1>19. s[n + 9] = ">" /\ s[n + 10] = ">" /\ s[n + 11] = ">"
  <2>1. /\ Len(e) + 1 = n + 9 /\ Len(e) + 2 = n + 10 /\ Len(e) + 3 = n + 11
        /\ n + 9 \in 1..Len(f) /\ n + 10 \in 1..Len(f) /\ n + 11 \in 1..Len(f)
    BY <1>1, <1>16
  <2> QED BY <1>11, <1>15, <2>1
<1>20. s[n + 12] = d
  BY <1>1, <1>14, <1>16
<1>21. s[1] = "user" /\ Names(s, u)
  <2>1. s[n + 8] # ">"
    BY <1>18
  <2>2. n + 12 \in Nat /\ n + 8 <= n + 12
    BY <1>1
  <2>3. \A j \in 1..(n + 7) : s[j] = Start(u)[j]
    BY <1>17 DEF c
  <2> QED BY <1>1, <1>2, <1>16, <2>1, <2>2, <2>3, NameStarts DEF n
<1> QED BY <1>13, <1>16, <1>18, <1>19, <1>20, <1>21 DEF IsCounterName, n

\* The name of a session: user>>>u>>>online.
LEMMA OnlineNameIs ==
  ASSUME NEW T, Alphabet(T), NEW u \in Seq(T), NEW s, s = OnlineName(u)
  PROVE  /\ s \in Seq(T) /\ Len(s) = Len(u) + 8
         /\ s[1] = "user" /\ Names(s, u)
<1> DEFINE n == Len(u)
           c == Start(u)
           w == <<"online">>
<1>1. u \in Seq(T) /\ n \in Nat
  OBVIOUS
<1>2. ">" \in T /\ "user" \in T
  BY DEF Alphabet
<1>3. w \in Seq(T) /\ Len(w) = 1 /\ w[1] = "online" /\ 1 \in 1..Len(w)
  BY DEF Alphabet
<1>4. s = Join(c, w)
  BY DEF OnlineName, Join, Start
<1> HIDE DEF w
<1>5. c \in Seq(T) /\ Len(c) = n + 7
  BY <1>1, <1>2, StartOfName
<1> HIDE DEF c
<1>6. s \in Seq(T) /\ Len(s) = Len(c) + 1
  BY <1>3, <1>4, <1>5, Joined
<1>7. s[Len(c) + 1] = "online"
  <2>1. ASSUME NEW k, k = Len(c) + 1 PROVE Join(c, w)[k] = w[1]
    <3>1. c \in Seq(T) /\ w \in Seq(T) /\ 1 \in 1..Len(w)
      BY <1>3, <1>5
    <3> QED BY <2>1, <3>1, InSecond
  <2> QED BY <1>3, <1>4, <2>1
<1>8. \A j \in 1..Len(c) : s[j] = c[j]
  BY <1>3, <1>4, <1>5, InFirst
<1> HIDE DEF n
<1>9. Len(s) = n + 8 /\ s[n + 8] # ">"
  BY <1>1, <1>5, <1>6, <1>7
<1>10. \A j \in 1..(n + 7) : s[j] = Start(u)[j]
  BY <1>5, <1>8 DEF c
<1>11. s[1] = "user" /\ Names(s, u)
  <2>1. n + 8 \in Nat /\ n + 8 <= n + 8
    BY <1>1
  <2> QED BY <1>1, <1>2, <1>9, <1>10, <2>1, NameStarts DEF n
<1> QED BY <1>6, <1>9, <1>11 DEF n

-----------------------------------------------------------------------------
(* Slices of names.                                                        *)

\* A slice of one token.
LEMMA SliceOne ==
  ASSUME NEW T, NEW s \in Seq(T), NEW i \in 1..Len(s)
  PROVE  Slice(s, i, i) = <<s[i]>>
<1> DEFINE a == Slice(s, i, i)
           b == <<s[i]>>
<1>1. i \in Int /\ i \in 1..(Len(s) + 1) /\ s[i] \in T /\ Len(s) \in Nat
  OBVIOUS
<1>2. a \in Seq(T) /\ Len(a) = 1 /\ a[1] = s[i]
  BY <1>1, SubSeqProperties DEF Slice
<1>3. b \in Seq(T) /\ Len(b) = 1 /\ b[1] = s[i]
  BY <1>1
<1>4. a = b
  <2> HIDE DEF a, b
  <2>1. Len(a) = Len(b) /\ \A j \in 1..Len(a) : a[j] = b[j]
    BY <1>2, <1>3
  <2> QED BY <1>2, <1>3, <2>1, SeqEqual
<1> QED BY <1>4

\* The slice between the separators around the email is the email.
LEMMA SliceName ==
  ASSUME NEW T, NEW s \in Seq(T), NEW u \in Seq(T), Names(s, u)
  PROVE  Slice(s, 5, Len(u) + 4) = u
<1> DEFINE n == Len(u)
           a == Slice(s, 5, n + 4)
<1>1. n \in Nat /\ Len(s) \in Nat /\ n + 8 <= Len(s) /\ \A j \in 1..n : s[j + 4] = u[j]
  BY DEF Names
<1>2. a \in Seq(T) /\ Len(a) = n /\ \A j \in 1..n : a[j] = s[j + 4]
  <2>1. 5 \in 1..(Len(s) + 1) /\ n + 4 \in (5 - 1)..Len(s)
    BY <1>1
  <2> HIDE DEF n
  <2>2. /\ SubSeq(s, 5, n + 4) \in Seq(T)
        /\ Len(SubSeq(s, 5, n + 4)) = IF 5 <= n + 4 THEN (n + 4) - 5 + 1 ELSE 0
        /\ \A j \in 1..((n + 4) - 5 + 1) : SubSeq(s, 5, n + 4)[j] = s[5 + j - 1]
    BY <1>1, <2>1, SubSeqProperties
  <2>3. (n + 4) - 5 + 1 = n /\ \A j \in 1..n : 5 + j - 1 = j + 4
    BY <1>1
  <2> QED BY <1>1, <2>2, <2>3 DEF Slice
<1>3. a = u
  <2> HIDE DEF a
  <2>1. Len(a) = Len(u) /\ \A j \in 1..Len(a) : a[j] = u[j]
    BY <1>1, <1>2
  <2> QED BY <1>2, <2>1, SeqEqual
<1> QED BY <1>3

-----------------------------------------------------------------------------
(* Sessions.                                                               *)

\* The panel finds a plain email in the name of a session.
LEMMA PlainSession ==
  ASSUME NEW T, Alphabet(T), NEW u \in Seq(T), Plain(u)
  PROVE  extractOnlineEmail(OnlineName(u)) = u
<1> DEFINE s == OnlineName(u)
           n == Len(u)
           cuts == Cuts(s)
<1>1. s \in Seq(T) /\ Len(s) = n + 8 /\ s[1] = "user" /\ Names(s, u)
  <2> HIDE DEF s
  <2>1. s = OnlineName(u)
    BY DEF s
  <2> QED BY <2>1, OnlineNameIs
<1>2. u \in Seq(T) /\ n \in Nat
  OBVIOUS
<1> HIDE DEF s, n
<1>3. 4 \in cuts /\ \A i \in cuts : i >= 4
  BY <1>1, <1>2, FirstCut
<1>4. ASSUME NEW i \in cuts, i # 4 PROVE i = n + 7
  <2>1. i \in 1..Len(s)
    BY <1>1, CutsAre
  <2>2. i > 4 /\ i <= n + 8
    BY <1>1, <1>2, <1>3, <1>4, <2>1
  <2> QED BY <1>1, <1>2, <2>2, CutAfterPlain DEF n
<1>5. n + 7 \in cuts
  <2>1. PICK c \in (n + 5)..(n + 7) : c \in cuts
    BY <1>1, <1>2, CutAfterName DEF n
  <2>2. c # 4
    BY <1>2
  <2> QED BY <1>4, <2>1, <2>2
<1>6. cuts = {4, n + 7}
  <2> HIDE DEF cuts
  <2> QED BY <1>3, <1>4, <1>5
<1> HIDE DEF cuts
<1>7. PICK a \in Int, b \in Int : a = 4 /\ b = n + 7
  BY <1>2
<1>8. InThree(s, a, b)
  <2>1. a < b /\ cuts = {a, b} /\ cuts = Cuts(s)
    BY <1>2, <1>6, <1>7 DEF cuts
  <2> QED BY <1>1, <2>1, SplitInThree
<1>9. Split(s)[1] = <<"user">> /\ Split(s)[2] = u
  <2>1. a - 3 = 1 /\ a + 1 = 5 /\ b - 3 = n + 4 /\ 1 \in 1..Len(s)
    BY <1>1, <1>2, <1>7
  <2>2. Slice(s, 1, 1) = <<"user">>
    BY <1>1, <2>1, SliceOne
  <2>3. Slice(s, 5, n + 4) = u
    BY <1>1, <1>2, SliceName DEF n
  <2> QED BY <1>8, <2>1, <2>2, <2>3 DEF InThree
<1>10. Len(Split(s)) >= 2
  BY <1>8 DEF InThree
<1> QED BY <1>9, <1>10, Zenon DEF extractOnlineEmail, s

-----------------------------------------------------------------------------
(* Counters.                                                               *)

\* The last cut of a counter's name is before its direction.
LEMMA LastCut ==
  ASSUME NEW T, Alphabet(T), NEW u \in Seq(T), NEW d \in Directions, NEW s, s = CounterName(u, d)
  PROVE  /\ Len(u) + 11 \in Cuts(s)
         /\ \A i \in Cuts(s) : i = Len(u) + 11 \/ i <= Len(u) + 8
<1> DEFINE n == Len(u)
<1>1. s \in Seq(T) /\ IsCounterName(s, u, d)
  BY CounterNameIs
<1>2. n \in Nat
  OBVIOUS
<1>3. /\ s \in Seq(T) /\ Len(s) = n + 12 /\ s[n + 8] = "traffic" /\ s[n + 12] = d
      /\ s[n + 9] = ">" /\ s[n + 10] = ">" /\ s[n + 11] = ">"
  BY <1>1 DEF IsCounterName
<1>4. d # ">"
  BY DEF Directions
<1> HIDE DEF n
<1>5. n + 11 \in Cuts(s)
  <2>1. Cut(s, n + 11, 1)
    <3>1. \A j \in ((n + 11) - 3 * 1 + 1)..(n + 11) : j \in {n + 9, n + 10, n + 11}
      BY <1>2
    <3>2. (n + 11) - 3 * 1 = n + 8
      BY <1>2
    <3> QED BY <1>3, <1>2, <3>1, <3>2 DEF Cut
  <2>2. n + 11 \in 1..Len(s)
    BY <1>3, <1>2
  <2> QED BY <1>3, <2>1, <2>2, CutsAre
<1>6. ASSUME NEW i \in Cuts(s), ~(i <= n + 8) PROVE i = n + 11
  <2>1. i \in 1..Len(s)
    BY <1>3, CutsAre
  <2>2. PICK m : Cut(s, i, m)
    BY <1>3, CutsAre
  <2>3. m \in Nat /\ m >= 1 /\ 3 * m <= i /\ (\A j \in (i - 3 * m + 1)..i : s[j] = ">")
    BY <2>2 DEF Cut
  <2>4. s[i] = ">" /\ s[i - 1] = ">" /\ s[i - 2] = ">"
    BY <2>1, <2>3
  <2>5. i \in {n + 9, n + 10, n + 11, n + 12}
    BY <1>3, <1>2, <1>6, <2>1
  <2>6. i = n + 9 => i - 1 = n + 8
    BY <1>2
  <2>7. i = n + 10 => i - 2 = n + 8
    BY <1>2
  <2> QED BY <1>3, <1>4, <2>4, <2>5, <2>6, <2>7
<1> QED BY <1>5, <1>6 DEF n

\* parseUserStatName accepts the name of a counter of a plain email, and takes
\* it apart.
LEMMA PlainCounter ==
  ASSUME NEW T, Alphabet(T), NEW u \in Seq(T), Plain(u), NEW d \in Directions
  PROVE  LET parts == Split(CounterName(u, d))
         IN  IsUserStat(parts) /\ parts[2] = u /\ parts[4] = <<d>>
<1> DEFINE s == CounterName(u, d)
           n == Len(u)
           cuts == Cuts(s)
<1>1. /\ s \in Seq(T) /\ Len(s) = n + 12 /\ Names(s, u)
      /\ s[1] = "user" /\ s[n + 8] = "traffic" /\ s[n + 12] = d
  <2> HIDE DEF s
  <2>1. s = CounterName(u, d)
    BY DEF s
  <2>2. s \in Seq(T) /\ IsCounterName(s, u, d)
    BY <2>1, CounterNameIs
  <2> QED BY <2>2 DEF IsCounterName
<1>2. u \in Seq(T) /\ n \in Nat
  OBVIOUS
<1>3. n + 11 \in cuts /\ \A i \in cuts : i = n + 11 \/ i <= n + 8
  <2> HIDE DEF s
  <2>1. s = CounterName(u, d)
    BY DEF s
  <2> QED BY <2>1, LastCut
<1> HIDE DEF s, n
<1>4. 4 \in cuts /\ \A i \in cuts : i >= 4
  BY <1>1, <1>2, FirstCut
<1>5. ASSUME NEW i \in cuts, i # 4, i # n + 11 PROVE i = n + 7
  <2>1. i \in 1..Len(s)
    BY <1>1, CutsAre
  <2>2. i > 4 /\ i <= n + 8
    BY <1>1, <1>2, <1>3, <1>4, <1>5, <2>1
  <2> QED BY <1>1, <1>2, <2>2, CutAfterPlain DEF n
<1>6. n + 7 \in cuts
  <2>1. PICK c \in (n + 5)..(n + 7) : c \in cuts
    BY <1>1, <1>2, CutAfterName DEF n
  <2>2. c # 4 /\ c # n + 11
    BY <1>2
  <2> QED BY <1>5, <2>1, <2>2
<1>7. cuts = {4, n + 7, n + 11}
  <2> HIDE DEF cuts
  <2> QED BY <1>3, <1>4, <1>5, <1>6
<1> HIDE DEF cuts
<1>8. PICK a \in Int, b \in Int, c \in Int : a = 4 /\ b = n + 7 /\ c = n + 11
  BY <1>2
<1>9. InFour(s, a, b, c)
  <2>1. a < b /\ b < c /\ cuts = {a, b, c} /\ cuts = Cuts(s)
    BY <1>2, <1>7, <1>8 DEF cuts
  <2> QED BY <1>1, <2>1, SplitInFour
<1>10. /\ a - 3 = 1 /\ a + 1 = 5 /\ b - 3 = n + 4 /\ b + 1 = n + 8 /\ c - 3 = n + 8
       /\ c + 1 = n + 12 /\ Len(s) = n + 12
       /\ 1 \in 1..Len(s) /\ n + 8 \in 1..Len(s) /\ n + 12 \in 1..Len(s)
  BY <1>1, <1>2, <1>8
<1>11. /\ Slice(s, 1, 1) = <<"user">> /\ Slice(s, n + 8, n + 8) = <<"traffic">>
       /\ Slice(s, n + 12, n + 12) = <<d>>
  BY <1>1, <1>10, SliceOne
<1>12. Slice(s, 5, n + 4) = u
  BY <1>1, <1>2, SliceName DEF n
<1>13. /\ Split(s)[1] = <<"user">> /\ Split(s)[2] = u
       /\ Split(s)[3] = <<"traffic">> /\ Split(s)[4] = <<d>>
  BY <1>9, <1>10, <1>11, <1>12 DEF InFour
<1>14. Len(Split(s)) = 4
  BY <1>9 DEF InFour
<1> QED BY <1>13, <1>14, Zenon DEF IsUserStat, s

\* ... and no other.
LEMMA OtherCounter ==
  ASSUME NEW T, Alphabet(T), NEW u \in Seq(T), ~Plain(u), NEW d \in Directions
  PROVE  ~IsUserStat(Split(CounterName(u, d)))
<1> DEFINE s == CounterName(u, d)
           n == Len(u)
           cuts == Cuts(s)
<1>1. s \in Seq(T) /\ Len(s) = n + 12 /\ Names(s, u)
  <2> HIDE DEF s
  <2>1. s = CounterName(u, d)
    BY DEF s
  <2>2. s \in Seq(T) /\ IsCounterName(s, u, d)
    BY <2>1, CounterNameIs
  <2> QED BY <2>2 DEF IsCounterName
<1>2. u \in Seq(T) /\ n \in Nat
  OBVIOUS
<1>3. n + 11 \in cuts /\ \A i \in cuts : i = n + 11 \/ i <= n + 8
  <2> HIDE DEF s
  <2>1. s = CounterName(u, d)
    BY DEF s
  <2> QED BY <2>1, LastCut
<1> HIDE DEF s
<1>4. 4 \in cuts
  BY <1>1, <1>2, FirstCut
<1>5. PICK c \in (n + 5)..(n + 7) : c \in cuts
  BY <1>1, <1>2, CutAfterName
<1>6. PICK a \in Int, b \in Int : a = 4 /\ b = n + 11
  BY <1>2
<1>7. a < c /\ c < b /\ a \in cuts /\ b \in cuts /\ c \in Int
  <2> HIDE DEF cuts, n
  <2> QED BY <1>2, <1>3, <1>4, <1>5, <1>6
<1>8. Cardinality({a, c, b}) = 3 /\ IsFiniteSet({a, c, b})
  <2>1. PICK three : three = {a, c, b}
    OBVIOUS
  <2>2. Cardinality(three) = 3
    BY <1>7, <2>1, NthOfThree
  <2>3. IsFiniteSet(three)
    <3>1. IsFiniteSet({a}) /\ IsFiniteSet({c}) /\ IsFiniteSet({b})
      BY FS_Singleton
    <3>2. IsFiniteSet({a} \cup {c})
      BY <3>1, FS_Union
    <3>3. IsFiniteSet(({a} \cup {c}) \cup {b})
      BY <3>1, <3>2, FS_Union
    <3>4. ({a} \cup {c}) \cup {b} = three
      BY <2>1
    <3> QED BY <3>3, <3>4
  <2> QED BY <2>1, <2>2, <2>3
<1>9. IsFiniteSet(cuts) /\ Cardinality(cuts) \in Nat /\ Len(Split(s)) = Cardinality(cuts) + 1
  BY <1>1, CutsFinite, SplitLen
<1> HIDE DEF cuts
<1>10. CASE HasSep(u)
  <2>1. PICK e \in 5..(n + 4) : e \in cuts
    BY <1>1, <1>2, <1>10, CutInName DEF cuts
  <2>2. e \notin {a, c, b}
    <3> HIDE DEF n
    <3> QED BY <1>2, <1>5, <1>6, <1>7
  <2>3. PICK four : four = {a, c, b} \cup {e}
    OBVIOUS
  <2>4. Cardinality(four) = 4
    <3>1. Cardinality({a, c, b} \cup {e}) = 3 + 1
      BY <1>8, <2>2, FS_AddElement
    <3>2. Cardinality(four) = 3 + 1
      BY <2>3, <3>1, Zenon
    <3> QED BY <3>2
  <2>5. Cardinality(four) <= Cardinality(cuts)
    <3>1. four \in SUBSET cuts
      BY <1>5, <1>7, <2>1, <2>3
    <3> QED BY <1>9, <3>1, FS_Subset
  <2>6. Len(Split(s)) # 4
    <3> DEFINE k == Cardinality(cuts)
    <3>1. 4 <= k
      BY <2>4, <2>5, Zenon
    <3>2. k \in Nat /\ Len(Split(s)) = k + 1
      BY <1>9
    <3> HIDE DEF k
    <3> QED BY <3>1, <3>2
  <2> QED BY <2>6, Zenon DEF IsUserStat, s
<1>11. CASE ~HasSep(u)
  <2>1. n > 0 /\ u[n] = ">"
    BY <1>11 DEF Plain
  <2>2. n + 7 \notin cuts
    BY <1>1, <1>2, <1>11, <2>1, NoCutAfterOther DEF cuts
  <2>3. c # n + 7
    BY <1>5, <2>2
  <2>4. SUFFICES ASSUME Len(Split(s)) = 4 PROVE Split(s)[3] # <<"traffic">>
    BY Zenon DEF IsUserStat, s
  <2>5. cuts = {a, c, b}
    <3> DEFINE k == Cardinality(cuts)
    <3>1. k \in Nat /\ k + 1 = 4
      BY <1>9, <2>4
    <3>2. k = 3
      <4> HIDE DEF k
      <4> QED BY <3>1
    <3>3. {a, c, b} \in SUBSET cuts
      BY <1>5, <1>7
    <3>4. Cardinality(cuts) = Cardinality({a, c, b})
      BY <1>8, <3>2
    <3> QED BY <1>9, <3>3, <3>4, FS_Subset
  <2>6. Split(s)[3] = Slice(s, c + 1, b - 3)
    <3>1. InFour(s, a, c, b)
      BY <1>1, <1>7, <2>5, SplitInFour DEF cuts
    <3> QED BY <3>1 DEF InFour
  <2>7. Len(Slice(s, c + 1, b - 3)) # 1
    <3> HIDE DEF n
    <3>1. /\ c \in Int /\ c + 1 \in Int /\ b - 3 \in Int /\ c + 1 < b - 3 /\ c + 1 >= 1
          /\ b - 3 <= Len(s) /\ Len(s) \in Nat
      BY <1>1, <1>2, <1>5, <1>6, <2>3
    <3>2. \A i \in (c + 1)..(b - 3) : s[i] \in T
      <4>1. \A i \in (c + 1)..(b - 3) : i \in 1..Len(s)
        BY <3>1
      <4> QED BY <1>1, <4>1
    <3>3. Len(SubSeq(s, c + 1, b - 3)) = IF c + 1 <= b - 3 THEN (b - 3) - (c + 1) + 1 ELSE 0
      BY <3>1, <3>2, SubSeqProperties
    <3>4. (b - 3) - (c + 1) + 1 # 1 /\ c + 1 <= b - 3
      BY <3>1, <1>7
    <3>5. Len(SubSeq(s, c + 1, b - 3)) # 1
      BY <3>3, <3>4, Zenon
    <3> QED BY <3>5, Zenon DEF Slice
  <2>8. Len(<<"traffic">>) = 1
    OBVIOUS
  <2> QED BY <2>6, <2>7, <2>8, Zenon
<1> QED BY <1>10, <1>11

\* A function of emails to bytes by direction.
IsTraffic(T, traffic) ==
  /\ DOMAIN traffic \subseteq Seq(T)
  /\ \A u \in DOMAIN traffic : traffic[u] \in [Directions -> Int]

\* What parseStats makes of what xray prints: the counters of the plain emails.
LEMMA ParsedStats ==
  ASSUME NEW T, Alphabet(T), NEW w \in {"stat", "statistics"}, NEW traffic, IsTraffic(T, traffic)
  PROVE  ParseStats(PrintStats(w, traffic)) =
           {[email |-> u, uplink |-> traffic[u]["uplink"], downlink |-> traffic[u]["downlink"]] :
              u \in {v \in DOMAIN traffic : Plain(v)}}
<1> DEFINE out     == PrintStats(w, traffic)
           D       == DOMAIN traffic
           plain   == {v \in D : Plain(v)}
           parts(u, d) == Split(CounterName(u, d))
           Line(u, d)  == [name |-> CounterName(u, d), value |-> traffic[u][d]]
           Found(u, d) == [parts |-> parts(u, d), value |-> traffic[u][d]]
           entries == {Line(u, d) : u \in D, d \in Directions}
           read    == {[parts |-> Split(e.name), value |-> e.value] : e \in Entries(out)}
           known   == {r \in read : IsUserStat(r.parts)}
           Of(u, d) == {r.value : r \in {r \in known : r.parts[2] = u /\ r.parts[4] = <<d>>}}
           Last(u, d) == IF Of(u, d) = {} THEN 0 ELSE CHOOSE n \in Of(u, d) : TRUE
<1>1. Entries(out) = entries
  <2>1. out = [stat       |-> IF w = "stat" THEN entries ELSE {},
               statistics |-> IF w = "statistics" THEN entries ELSE {}]
    <3> HIDE DEF entries
    <3>1. PrintStats(w, traffic) =
            [stat       |-> IF w = "stat" THEN entries ELSE {},
             statistics |-> IF w = "statistics" THEN entries ELSE {}]
      BY DEF PrintStats, entries
    <3> QED BY <3>1, Zenon
  <2> HIDE DEF entries, out
  <2> QED BY <2>1 DEF Entries
<1>2. ASSUME NEW u \in D, NEW d \in Directions
      PROVE  /\ IsUserStat(parts(u, d)) <=> u \in plain
             /\ u \in plain => parts(u, d)[2] = u /\ parts(u, d)[4] = <<d>>
  <2>1. u \in Seq(T)
    BY DEF IsTraffic
  <2>2. CASE Plain(u)
    <3>1. IsUserStat(parts(u, d)) /\ parts(u, d)[2] = u /\ parts(u, d)[4] = <<d>>
      BY <2>1, <2>2, PlainCounter
    <3> HIDE DEF parts
    <3> QED BY <2>2, <3>1
  <2>3. CASE ~Plain(u)
    <3>1. ~IsUserStat(parts(u, d))
      BY <2>1, <2>3, OtherCounter
    <3> HIDE DEF parts
    <3> QED BY <2>3, <3>1
  <2> QED BY <2>2, <2>3
<1>3. read = {Found(u, d) : u \in D, d \in Directions}
  <2>1. \A u \in D, d \in Directions :
           Found(u, d) = [parts |-> Split(Line(u, d).name), value |-> Line(u, d).value]
    OBVIOUS
  <2>2. read = {[parts |-> Split(e.name), value |-> e.value] : e \in entries}
    <3> HIDE DEF entries, out
    <3> QED BY <1>1
  <2> HIDE DEF read, Found, Line, D
  <2> QED BY <2>1, <2>2
<1> HIDE DEF parts
<1>4. known = {Found(u, d) : u \in plain, d \in Directions}
  <2>1. \A u \in D, d \in Directions : IsUserStat(Found(u, d).parts) <=> u \in plain
    BY <1>2
  <2> HIDE DEF read, Found
  <2>2. plain \subseteq D
    OBVIOUS
  <2> HIDE DEF plain, D
  <2> QED BY <1>3, <2>1, <2>2
<1>5. \A u \in plain, d \in Directions :
         Found(u, d).parts[2] = u /\ Found(u, d).parts[4] = <<d>> /\ Found(u, d).value = traffic[u][d]
  BY <1>2
<1> HIDE DEF Found, known, plain
<1>6. {r.parts[2] : r \in known} = plain
  <2>1. "uplink" \in Directions
    BY DEF Directions
  <2>2. ASSUME NEW r \in known PROVE r.parts[2] \in plain
    BY <1>4, <1>5
  <2>3. ASSUME NEW u \in plain PROVE \E r \in known : r.parts[2] = u
    BY <1>4, <1>5, <2>1
  <2> QED BY <2>2, <2>3
<1>7. ASSUME NEW u \in plain, NEW d \in Directions
      PROVE  Last(u, d) = traffic[u][d]
  <2>1. \A r \in known : r.parts[2] = u /\ r.parts[4] = <<d>> => r.value = traffic[u][d]
    <3> SUFFICES ASSUME NEW r \in known, r.parts[2] = u, r.parts[4] = <<d>>
                 PROVE  r.value = traffic[u][d]
      OBVIOUS
    <3>1. PICK v \in plain, e \in Directions : r = Found(v, e)
      BY <1>4
    <3>2. v = u /\ <<e>> = <<d>> /\ r.value = traffic[v][e]
      BY <1>5, <3>1
    <3>3. e = d
      BY <3>2
    <3> QED BY <3>2, <3>3
  <2>2. Found(u, d) \in known
    BY <1>4
  <2>3. Of(u, d) = {traffic[u][d]}
    BY <1>5, <2>1, <2>2
  <2> HIDE DEF Of
  <2> QED BY <2>3
<1>8. ParseStats(out) = {[email |-> u, uplink |-> Last(u, "uplink"), downlink |-> Last(u, "downlink")] :
                           u \in {r.parts[2] : r \in known}}
  BY Zenon DEF ParseStats, known
<1> HIDE DEF Last
<1>9. ParseStats(out) = {[email |-> u, uplink |-> traffic[u]["uplink"], downlink |-> traffic[u]["downlink"]] :
                           u \in plain}
  <2>1. \A u \in plain : Last(u, "uplink") = traffic[u]["uplink"] /\ Last(u, "downlink") = traffic[u]["downlink"]
    BY <1>7 DEF Directions
  <2> HIDE DEF out
  <2> QED BY <1>6, <1>8, <2>1
<1> QED BY <1>9 DEF plain

\* What comes back: every user with its sessions.
Back(sessions) == {[email |-> u, sessions |-> sessions[u]] : u \in DOMAIN sessions}

\* The shapes, one by one.
MapOf(sessions)   == Object([u \in DOMAIN sessions |-> Number(sessions[u])])
RowsOf(sessions)  == Array([u \in DOMAIN sessions |-> Row(u, sessions[u])])
EachOf(sessions)  == UNION {{u} \X (1..sessions[u]) : u \in DOMAIN sessions}
NamesOf(sessions) == Array([i \in EachOf(sessions) |-> String(OnlineName(i[1]))])
Wrapper(inner)    == Object([k \in {<<"users">>} |-> inner])

\* What xray prints in each shape.
LEMMA Printed ==
  ASSUME NEW sessions
  PROVE  /\ PrintOnline("flat", sessions) = MapOf(sessions)
         /\ PrintOnline("object", sessions) = Wrapper(MapOf(sessions))
         /\ PrintOnline("rows", sessions) = Wrapper(RowsOf(sessions))
         /\ PrintOnline("strings", sessions) = Wrapper(NamesOf(sessions))
<1>1. ASSUME NEW shape
      PROVE  PrintOnline(shape, sessions) =
               CASE shape = "flat"    -> MapOf(sessions)
                 [] shape = "object"  -> Wrapper(MapOf(sessions))
                 [] shape = "rows"    -> Wrapper(RowsOf(sessions))
                 [] shape = "strings" -> Wrapper(NamesOf(sessions))
  BY Zenon DEF PrintOnline, MapOf, RowsOf, EachOf, NamesOf, Wrapper
<1> QED BY <1>1

\* A map of users comes back.
LEMMA MapComesBack ==
  ASSUME NEW sessions
  PROVE  /\ MapOf(sessions).kind = "object" /\ DOMAIN MapOf(sessions).fields = DOMAIN sessions
         /\ \A u \in DOMAIN sessions : MapOf(sessions).fields[u] = Number(sessions[u])
         /\ buildOnlineFromMap(MapOf(sessions).fields) = Back(sessions)
<1> DEFINE fields == [u \in DOMAIN sessions |-> Number(sessions[u])]
<1>1. MapOf(sessions).kind = "object" /\ MapOf(sessions).fields = fields
  BY DEF MapOf, Object
<1>2. \A u \in DOMAIN sessions : coerceInt(fields[u]) = sessions[u] /\ fields[u] = Number(sessions[u])
  BY DEF coerceInt, Number
<1>3. DOMAIN fields = DOMAIN sessions
  OBVIOUS
<1> HIDE DEF fields
<1>4. buildOnlineFromMap(fields) = Back(sessions)
  BY <1>2, <1>3 DEF buildOnlineFromMap, Back
<1> QED BY <1>1, <1>2, <1>3, <1>4

\* An object with the one key "users" is taken apart.
LEMMA Unwrapped ==
  ASSUME NEW inner
  PROVE  ParseOnline(Wrapper(inner)) =
           IF inner.kind = "object"           THEN Online(buildOnlineFromMap(inner.fields))
           ELSE IF IsArrayOf("string", inner) THEN Online(CountStrings(inner.items))
           ELSE IF IsArrayOf("object", inner) THEN Online(ReadRows(inner.items))
           ELSE Failed
<1> DEFINE out == Wrapper(inner)
<1>1. DOMAIN out.fields = {<<"users">>} /\ out.fields[<<"users">>] = inner
  BY DEF Wrapper, Object
<1> HIDE DEF out
<1>2. ParseOnline(out) =
           IF inner.kind = "object"           THEN Online(buildOnlineFromMap(inner.fields))
           ELSE IF IsArrayOf("string", inner) THEN Online(CountStrings(inner.items))
           ELSE IF IsArrayOf("object", inner) THEN Online(ReadRows(inner.items))
           ELSE Failed
  BY <1>1, Zenon DEF ParseOnline
<1> QED BY <1>2 DEF out

\* A map of users by themselves.
LEMMA FlatIsRead ==
  ASSUME NEW sessions
  PROVE  ParseOnline(PrintOnline("flat", sessions)) =
           IF DOMAIN sessions = {<<"users">>} THEN Failed ELSE Online(Back(sessions))
<1> DEFINE out == MapOf(sessions)
<1>1. PrintOnline("flat", sessions) = out
  BY Printed
<1>2. DOMAIN out.fields = DOMAIN sessions /\ buildOnlineFromMap(out.fields) = Back(sessions)
  BY MapComesBack
<1>3. CASE DOMAIN sessions # {<<"users">>}
  <2> HIDE DEF out
  <2>1. ParseOnline(out) = Online(Back(sessions))
    BY <1>2, <1>3, Zenon DEF ParseOnline
  <2> QED BY <1>1, <1>3, <2>1
<1>4. CASE DOMAIN sessions = {<<"users">>}
  <2> DEFINE inner == Number(sessions[<<"users">>])
  <2>1. out.fields[<<"users">>] = inner
    BY <1>4, MapComesBack
  <2>2. inner.kind # "object" /\ inner.kind # "array"
    BY DEF Number
  <2> HIDE DEF out, inner
  <2>3. ParseOnline(out) = Failed
    BY <1>2, <1>4, <2>1, <2>2, Zenon DEF ParseOnline, IsArrayOf
  <2> QED BY <1>1, <1>4, <2>3
<1> QED BY <1>3, <1>4

\* A map of users in the wrapper.
LEMMA ObjectIsRead ==
  ASSUME NEW sessions
  PROVE  ParseOnline(PrintOnline("object", sessions)) = Online(Back(sessions))
<1>1. PrintOnline("object", sessions) = Wrapper(MapOf(sessions))
  BY Printed
<1>2. MapOf(sessions).kind = "object" /\ buildOnlineFromMap(MapOf(sessions).fields) = Back(sessions)
  BY MapComesBack
<1> QED BY <1>1, <1>2, Unwrapped, Zenon

\* Rows.
LEMMA RowsAreRead ==
  ASSUME NEW sessions, <<>> \notin DOMAIN sessions
  PROVE  ParseOnline(PrintOnline("rows", sessions)) = Online(Back(sessions))
<1> DEFINE items == [u \in DOMAIN sessions |-> Row(u, sessions[u])]
           inner == RowsOf(sessions)
           line(u) == [k \in {<<"email">>, <<"count">>} |->
                         IF k = <<"email">> THEN String(u) ELSE Number(sessions[u])]
           found == {items[i].fields : i \in DOMAIN items}
<1>1. PrintOnline("rows", sessions) = Wrapper(inner)
  BY Printed
<1>2. inner.kind = "array" /\ inner.items = items
  BY DEF RowsOf, Array
<1>3. \A u \in DOMAIN sessions : items[u].kind = "object" /\ items[u].fields = line(u)
  BY DEF Row, Object
<1>4. \A u \in DOMAIN sessions : line(u)[<<"email">>].text = u /\ coerceInt(line(u)[<<"count">>]) = sessions[u]
  <2>1. <<"email">> # <<"count">>
    OBVIOUS
  <2> QED BY <2>1 DEF String, Number, coerceInt
<1>5. DOMAIN items = DOMAIN sessions
  OBVIOUS
<1> HIDE DEF items, inner, line
<1>6. CASE DOMAIN sessions = {}
  <2>1. IsArrayOf("string", inner)
    BY <1>2, <1>5, <1>6 DEF IsArrayOf
  <2>2. CountStrings(items) = {}
    BY <1>5, <1>6 DEF CountStrings
  <2>3. Back(sessions) = {}
    BY <1>6 DEF Back
  <2>4. inner.kind # "object"
    BY <1>2
  <2>5. ParseOnline(Wrapper(inner)) = Online(CountStrings(inner.items))
    BY <2>1, <2>4, Unwrapped, Zenon
  <2> QED BY <1>1, <1>2, <2>2, <2>3, <2>5, Zenon
<1>7. CASE DOMAIN sessions # {}
  <2>1. IsArrayOf("object", inner) /\ ~IsArrayOf("string", inner)
    BY <1>2, <1>3, <1>5, <1>7 DEF IsArrayOf
  <2>2. ReadRows(items) = Back(sessions)
    <3>1. found = {line(u) : u \in DOMAIN sessions}
      BY <1>3, <1>5
    <3>2. {r \in found : r[<<"email">>].text # <<>>} = {line(u) : u \in DOMAIN sessions}
      BY <1>4, <3>1
    <3>3. ReadRows(items) = {[email |-> r[<<"email">>].text, sessions |-> coerceInt(r[<<"count">>])] :
                               r \in {r \in found : r[<<"email">>].text # <<>>}}
      BY Zenon DEF ReadRows
    <3>4. ReadRows(items) = {[email |-> line(u)[<<"email">>].text,
                              sessions |-> coerceInt(line(u)[<<"count">>])] : u \in DOMAIN sessions}
      <4> HIDE DEF found
      <4> QED BY <3>2, <3>3
    <3> QED BY <1>4, <3>4 DEF Back
  <2>3. inner.kind # "object"
    BY <1>2
  <2>4. ParseOnline(Wrapper(inner)) = Online(ReadRows(inner.items))
    BY <2>1, <2>3, Unwrapped, Zenon
  <2> QED BY <1>1, <1>2, <2>2, <2>4, Zenon
<1> QED BY <1>6, <1>7

\* Strings: one for each session.
Counts(sessions) == {<<i, extractOnlineEmail(OnlineName(i[1]))>> : i \in EachOf(sessions)}

Counted(sessions) ==
  {[email |-> u, sessions |-> Cardinality({e \in Counts(sessions) : e[2] = u})] :
     u \in {e[2] : e \in Counts(sessions)} \ {<<>>}}

\* The strings are counted.
LEMMA StringsAreRead ==
  ASSUME NEW sessions
  PROVE  ParseOnline(PrintOnline("strings", sessions)) = Online(Counted(sessions))
<1> DEFINE items == [i \in EachOf(sessions) |-> String(OnlineName(i[1]))]
           inner == NamesOf(sessions)
<1>1. PrintOnline("strings", sessions) = Wrapper(inner)
  BY Printed
<1>2. inner.kind = "array" /\ inner.items = items
  BY DEF NamesOf, Array
<1>3. \A i \in EachOf(sessions) : items[i].kind = "string" /\ items[i].text = OnlineName(i[1])
  BY DEF String
<1>4. DOMAIN items = EachOf(sessions)
  OBVIOUS
<1> HIDE DEF items, inner
<1>5. IsArrayOf("string", inner) /\ inner.kind # "object"
  BY <1>2, <1>3, <1>4 DEF IsArrayOf
<1>6. CountStrings(items) = Counted(sessions)
  <2>1. {<<i, extractOnlineEmail(items[i].text)>> : i \in DOMAIN items} = Counts(sessions)
    BY <1>3, <1>4 DEF Counts
  <2> QED BY <2>1, Zenon DEF CountStrings, Counted
<1>7. ParseOnline(Wrapper(inner)) = Online(CountStrings(inner.items))
  BY <1>5, Unwrapped, Zenon
<1> QED BY <1>1, <1>2, <1>6, <1>7, Zenon

\* The image of a finite set is finite.
LEMMA ImageIsFinite ==
  ASSUME NEW f, IsFiniteSet(DOMAIN f), NEW S, S = {f[x] : x \in DOMAIN f}, f = [x \in DOMAIN f |-> f[x]]
  PROVE  IsFiniteSet(S)
<1>1. f \in Surjection(DOMAIN f, S)
  BY DEF Surjection
<1> QED BY <1>1, FS_Surjection

\* As many as the numbers up to n.
LEMMA CountedOff ==
  ASSUME NEW n \in Nat, NEW f, DOMAIN f = 1..n, f = [k \in 1..n |-> f[k]],
         \A j, k \in 1..n : f[j] = f[k] => j = k,
         NEW S, S = {f[k] : k \in 1..n}
  PROVE  IsFiniteSet(S) /\ Cardinality(S) = n
<1>1. f \in Bijection(1..n, S)
  BY DEF Bijection, Injection, Surjection, IsInjective
<1>2. ExistsBijection(1..n, S)
  BY <1>1 DEF ExistsBijection
<1>3. IsFiniteSet(1..n) /\ Cardinality(1..n) = n
  <2>1. IsFiniteSet(1..n) /\ Cardinality(1..n) = IF 1 > n THEN 0 ELSE n - 1 + 1
    BY FS_Interval
  <2> QED BY <2>1
<1> QED BY <1>2, <1>3, FS_Bijection

\* A function of emails to numbers of sessions.
IsSessions(T, sessions) ==
  /\ DOMAIN sessions \subseteq Seq(T) \ {<<>>} /\ IsFiniteSet(DOMAIN sessions)
  /\ \A u \in DOMAIN sessions : sessions[u] \in Nat \ {0}

\* The strings of a plain user.
Own(sessions, v) == {<<<<v, k>>, v>> : k \in 1..sessions[v]}

\* There is one for each of its sessions.
LEMMA OwnCounts ==
  ASSUME NEW T, Alphabet(T), NEW sessions, IsSessions(T, sessions),
         NEW v \in DOMAIN sessions, Plain(v)
  PROVE  /\ Own(sessions, v) \subseteq {e \in Counts(sessions) : e[2] = v}
         /\ Cardinality(Own(sessions, v)) = sessions[v]
         /\ sessions[v] \in Nat \ {0}
<1> DEFINE n == sessions[v]
           f == [k \in 1..n |-> <<<<v, k>>, v>>]
<1>1. n \in Nat \ {0} /\ v \in Seq(T)
  BY DEF IsSessions
<1>2. extractOnlineEmail(OnlineName(v)) = v
  BY <1>1, PlainSession
<1>3. ASSUME NEW k \in 1..n PROVE <<<<v, k>>, v>> \in Counts(sessions)
  <2>1. <<v, k>> \in EachOf(sessions)
    BY DEF EachOf
  <2>2. <<v, k>>[1] = v
    OBVIOUS
  <2> QED BY <1>2, <2>1, <2>2 DEF Counts
<1>4. Own(sessions, v) \subseteq {e \in Counts(sessions) : e[2] = v}
  BY <1>3 DEF Own
<1>5. Cardinality(Own(sessions, v)) = n
  <2>1. DOMAIN f = 1..n /\ f = [k \in 1..n |-> f[k]] /\ (\A j, k \in 1..n : f[j] = f[k] => j = k)
    OBVIOUS
  <2>2. Own(sessions, v) = {f[k] : k \in 1..n}
    BY DEF Own
  <2> HIDE DEF f, n
  <2> QED BY <1>1, <2>1, <2>2, CountedOff
<1> QED BY <1>1, <1>4, <1>5

\* There are finitely many strings.
LEMMA CountsFinite ==
  ASSUME NEW T, NEW sessions, IsSessions(T, sessions)
  PROVE  IsFiniteSet(Counts(sessions))
<1> DEFINE U == DOMAIN sessions
           f == [u \in U |-> {u} \X (1..sessions[u])]
           S == {f[u] : u \in U}
           E == EachOf(sessions)
           g == [i \in E |-> <<i, extractOnlineEmail(OnlineName(i[1]))>>]
<1>1. IsFiniteSet(U)
  BY DEF IsSessions
<1>2. IsFiniteSet(S)
  <2>1. DOMAIN f = U /\ f = [u \in U |-> f[u]]
    OBVIOUS
  <2> HIDE DEF f, U
  <2> QED BY <1>1, <2>1, ImageIsFinite
<1>3. \A x \in S : IsFiniteSet(x)
  <2> SUFFICES ASSUME NEW u \in U PROVE IsFiniteSet({u} \X (1..sessions[u]))
    OBVIOUS
  <2>1. PICK n \in Int : n = sessions[u]
    BY DEF IsSessions
  <2>2. IsFiniteSet({u}) /\ IsFiniteSet(1..n)
    <3>1. IsFiniteSet({u})
      BY FS_Singleton
    <3>2. \A a, b \in Int : IsFiniteSet(a..b)
      BY FS_Interval
    <3> QED BY <3>1, <3>2
  <2> QED BY <2>1, <2>2, FS_Product
<1>4. IsFiniteSet(E)
  <2>1. UNION S = E
    BY DEF EachOf
  <2> HIDE DEF S, E
  <2> QED BY <1>2, <1>3, <2>1, FS_UNION
<1>5. IsFiniteSet({g[i] : i \in E})
  <2>1. DOMAIN g = E /\ g = [i \in E |-> g[i]]
    OBVIOUS
  <2> HIDE DEF g, E
  <2> QED BY <1>4, <2>1, ImageIsFinite
<1>6. Counts(sessions) = {g[i] : i \in E}
  BY DEF Counts
<1> QED BY <1>5, <1>6

\* A plain user has all of its sessions, perhaps with those of another one.
LEMMA PlainSessionsCount ==
  ASSUME NEW T, Alphabet(T), NEW sessions, IsSessions(T, sessions),
         NEW v \in DOMAIN sessions, Plain(v)
  PROVE  \E r \in Counted(sessions) : r.email = v /\ r.sessions >= sessions[v]
<1> DEFINE S == {e \in Counts(sessions) : e[2] = v}
           r == [email |-> v, sessions |-> Cardinality(S)]
<1>1. Own(sessions, v) \subseteq S /\ Cardinality(Own(sessions, v)) = sessions[v] /\ sessions[v] \in Nat \ {0}
  BY OwnCounts
<1>2. IsFiniteSet(S)
  BY CountsFinite, FS_Subset
<1>3. sessions[v] <= Cardinality(S)
  <2> HIDE DEF S
  <2> QED BY <1>1, <1>2, FS_Subset
<1>4. v \in {e[2] : e \in Counts(sessions)} /\ v # <<>>
  <2>1. <<<<v, 1>>, v>> \in Own(sessions, v)
    BY <1>1 DEF Own
  <2>2. <<<<v, 1>>, v>> \in S /\ <<<<v, 1>>, v>>[2] = v
    BY <1>1, <2>1
  <2> QED BY <2>2 DEF IsSessions
<1>5. r \in Counted(sessions)
  BY <1>4 DEF Counted
<1>6. r.email = v /\ r.sessions >= sessions[v]
  <2> HIDE DEF S
  <2>1. Cardinality(S) \in Nat
    BY <1>2, FS_CardinalityType
  <2> QED BY <1>1, <1>3, <2>1
<1> QED BY <1>5, <1>6

\* Plain users have theirs.
LEMMA AllPlain ==
  ASSUME NEW T, Alphabet(T), NEW sessions, IsSessions(T, sessions),
         \A u \in DOMAIN sessions : Plain(u)
  PROVE  Counted(sessions) = Back(sessions)
<1> DEFINE U == DOMAIN sessions
           Of(v) == {e \in Counts(sessions) : e[2] = v}
<1>1. \A u \in U : extractOnlineEmail(OnlineName(u)) = u /\ u # <<>>
  BY PlainSession DEF IsSessions
<1>2. ASSUME NEW e \in Counts(sessions) PROVE \E u \in U : \E k \in 1..sessions[u] : e = <<<<u, k>>, u>>
  <2>1. PICK i \in EachOf(sessions) : e = <<i, extractOnlineEmail(OnlineName(i[1]))>>
    BY DEF Counts
  <2>2. PICK u \in U : i \in {u} \X (1..sessions[u])
    BY DEF EachOf
  <2>3. PICK k \in 1..sessions[u] : i = <<u, k>>
    BY <2>2
  <2>4. i[1] = u
    BY <2>3
  <2>5. e = <<i, u>>
    BY <1>1, <2>1, <2>4
  <2> QED BY <2>3, <2>5
<1>3. ASSUME NEW v \in U PROVE Cardinality(Of(v)) = sessions[v]
  <2>1. Own(sessions, v) \subseteq Of(v) /\ Cardinality(Own(sessions, v)) = sessions[v]
    BY OwnCounts
  <2>2. Of(v) \subseteq Own(sessions, v)
    <3> SUFFICES ASSUME NEW e \in Counts(sessions), e[2] = v PROVE e \in Own(sessions, v)
      OBVIOUS
    <3>1. PICK u \in U : \E k \in 1..sessions[u] : e = <<<<u, k>>, u>>
      BY <1>2
    <3>2. u = v
      BY <3>1
    <3> QED BY <3>1, <3>2 DEF Own
  <2>3. Of(v) = Own(sessions, v)
    BY <2>1, <2>2
  <2> QED BY <2>1, <2>3
<1>4. {e[2] : e \in Counts(sessions)} \ {<<>>} = U
  <2>1. ASSUME NEW e \in Counts(sessions) PROVE e[2] \in U
    BY <1>2
  <2>2. ASSUME NEW v \in U PROVE \E e \in Counts(sessions) : e[2] = v
    <3>1. Own(sessions, v) \subseteq Of(v) /\ sessions[v] \in Nat \ {0}
      BY OwnCounts
    <3>2. <<<<v, 1>>, v>> \in Own(sessions, v)
      BY <3>1 DEF Own
    <3> QED BY <3>1, <3>2
  <2> QED BY <1>1, <2>1, <2>2
<1>5. Counted(sessions) = {[email |-> u, sessions |-> Cardinality(Of(u))] : u \in U}
  BY <1>4, Zenon DEF Counted
<1> HIDE DEF Of
<1> QED BY <1>3, <1>5 DEF Back

-----------------------------------------------------------------------------
\* Who is taken to be online: nobody for whom no session counts.
LEMMA CountedEmails ==
  ASSUME NEW sessions, NEW r \in Counted(sessions)
  PROVE  \E u \in DOMAIN sessions : r.email = extractOnlineEmail(OnlineName(u))
<1>1. PICK e \in Counts(sessions) : r.email = e[2]
  <2> DEFINE One(u) == [email |-> u, sessions |-> Cardinality({e \in Counts(sessions) : e[2] = u})]
  <2>1. Counted(sessions) = {One(u) : u \in {e[2] : e \in Counts(sessions)} \ {<<>>}}
    BY DEF Counted
  <2>2. \A u : One(u).email = u
    OBVIOUS
  <2> HIDE DEF One
  <2> QED BY <2>1, <2>2
<1>2. PICK i \in EachOf(sessions) : e = <<i, extractOnlineEmail(OnlineName(i[1]))>>
  BY DEF Counts
<1>3. PICK u \in DOMAIN sessions : i \in {u} \X (1..sessions[u])
  BY DEF EachOf
<1>4. i[1] = u
  BY <1>3
<1>5. e[2] = extractOnlineEmail(OnlineName(i[1]))
  BY <1>2
<1> QED BY <1>1, <1>4, <1>5

-----------------------------------------------------------------------------
(* The two queries, with the output read.                                  *)

\* The tokens of emails and of names.
Token == STRING \cup {">", "user", "traffic", "online", "uplink", "downlink"}

\* Users are not empty, and made of these tokens.
LEMMA UserTokens == Alphabet(Token) /\ User \subseteq Seq(Token) /\ <<>> \notin User
<1>1. Alphabet(Token)
  BY DEF Alphabet, Token
<1>2. \A T, U : T \subseteq U => Seq(T) \subseteq Seq(U)
  BY SeqDef
<1>3. Seq(STRING) \subseteq Seq(Token)
  BY <1>2 DEF Token
<1> QED BY <1>1, <1>3, ActivityAssumption

\* QueryUsers hands the tracker the counters there are, of the users whose name
\* is plain.
LEMMA QueryUsersReads ==
  ASSUME TypeOK, NEW p \in Poll, QueryUsers(p)
  PROVE  stats' = [stats EXCEPT ![p] =
                     [u \in {v \in User : counter[v] # None /\ Plain(v)} |-> counter[u]]]
<1> DEFINE Known   == {v \in User : counter[v] # None}
           Read    == {v \in User : counter[v] # None /\ Plain(v)}
           up(u)   == [d \in Directions |-> IF d = "uplink" THEN counter[u] ELSE 0]
           traffic == [u \in Known |-> up(u)]
           parsed  == ParseStats(PrintStats("stat", traffic))
           line(u) == [email |-> u, uplink |-> traffic[u]["uplink"], downlink |-> traffic[u]["downlink"]]
           sum(u)  == LET r == CHOOSE r \in parsed : r.email = u IN r.uplink + r.downlink
<1>1. stats' = [stats EXCEPT ![p] = [u \in {r.email : r \in parsed} |-> sum(u)]]
  <2> DEFINE Sums(users) == [u \in {r.email : r \in users} |->
                               LET r == CHOOSE r \in users : r.email = u IN r.uplink + r.downlink]
  <2>1. PICK users \in {parsed} : stats' = [stats EXCEPT ![p] = Sums(users)]
    BY Zenon DEF QueryUsers
  <2>2. Sums(parsed) = [u \in {r.email : r \in parsed} |-> sum(u)]
    BY Zenon
  <2> HIDE DEF Sums, parsed
  <2>3. stats' = [stats EXCEPT ![p] = Sums(parsed)]
    BY <2>1
  <2> QED BY <2>2, <2>3, Zenon
<1>2. \A u \in Known : counter[u] \in Int
  BY DEF TypeOK
<1>3. IsTraffic(Token, traffic)
  <2>1. DOMAIN traffic = Known /\ Known \subseteq Seq(Token)
    BY UserTokens
  <2>2. \A u \in Known : traffic[u] = up(u) /\ up(u) \in [Directions -> Int]
    BY <1>2
  <2> HIDE DEF traffic, Known
  <2> QED BY <2>1, <2>2 DEF IsTraffic
<1>4. parsed = {line(u) : u \in {v \in DOMAIN traffic : Plain(v)}}
  <2> HIDE DEF traffic
  <2>1. \A w \in {"stat", "statistics"} :
          ParseStats(PrintStats(w, traffic)) = {line(u) : u \in {v \in DOMAIN traffic : Plain(v)}}
    BY <1>3, UserTokens, ParsedStats
  <2> QED BY <2>1
<1>5. {v \in DOMAIN traffic : Plain(v)} = Read
  OBVIOUS
<1>6. \A u \in Read : traffic[u] = up(u) /\ up(u)["uplink"] = counter[u] /\ up(u)["downlink"] = 0
  BY DEF Directions
<1>7. \A u \in Read : line(u).email = u /\ line(u).uplink = counter[u] /\ line(u).downlink = 0
  <2> HIDE DEF up, traffic
  <2> QED BY <1>6
<1> HIDE DEF line, traffic, parsed
<1>8. parsed = {line(u) : u \in Read}
  BY <1>4, <1>5
<1>9. {r.email : r \in parsed} = Read
  <2> HIDE DEF Read
  <2> QED BY <1>7, <1>8
<1>10. \A u \in Read : sum(u) = counter[u]
  <2> SUFFICES ASSUME NEW u \in Read PROVE sum(u) = counter[u]
    OBVIOUS
  <2>1. (CHOOSE r \in parsed : r.email = u) = line(u)
    <3> HIDE DEF Read
    <3>1. line(u) \in parsed /\ line(u).email = u
      BY <1>7, <1>8
    <3>2. \A r \in parsed : r.email = u => r = line(u)
      BY <1>7, <1>8
    <3> QED BY <3>1, <3>2
  <2>2. sum(u) = line(u).uplink + line(u).downlink
    BY <2>1
  <2>3. counter[u] \in Int
    BY <1>2
  <2> HIDE DEF sum
  <2> QED BY <1>7, <2>2, <2>3
<1>11. [u \in {r.email : r \in parsed} |-> sum(u)] = [u \in Read |-> counter[u]]
  <2> HIDE DEF sum, Read
  <2> QED BY <1>9, <1>10
<1> QED BY <1>1, <1>11, Zenon

\* QueryOnline takes nobody to be online for whom no session counts.
LEMMA QueryOnlineReads ==
  ASSUME TypeOK, NEW p \in Poll, QueryOnline(p)
  PROVE  \E S \in SUBSET UNION {CountedFor(u) : u \in online} : on' = [on EXCEPT ![p] = S]
<1> DEFINE sessions == [u \in online |-> 1]
           One     == UNION {CountedFor(u) : u \in online}
           Shown(parsed) == {r.email : r \in {r \in parsed.users : r.sessions > 0}}
<1>0. PICK shape \in Shapes :
        \E parsed \in {ParseOnline(PrintOnline(shape, sessions)), Failed} :
          on' = [on EXCEPT ![p] = Shown(parsed)]
  BY Zenon DEF QueryOnline
<1>1. PICK parsed \in {ParseOnline(PrintOnline(shape, sessions)), Failed} :
        on' = [on EXCEPT ![p] = Shown(parsed)]
  BY <1>0
<1>2. DOMAIN sessions = online
  OBVIOUS
<1> HIDE DEF sessions
<1>3. \A r \in Back(sessions) : r.email \in One
  BY <1>2 DEF Back, CountedFor
<1>4. \A r \in Counted(sessions) : r.email \in One
  BY <1>2, CountedEmails DEF CountedFor
<1>5. Failed.users = {} /\ \A users : Online(users).users = users
  BY DEF Failed, Online
<1>6. \A r \in parsed.users : r.email \in One
  <2>1. ParseOnline(PrintOnline("flat", sessions)) \in {Failed, Online(Back(sessions))}
    BY FlatIsRead
  <2>2. ParseOnline(PrintOnline("object", sessions)) = Online(Back(sessions))
    BY ObjectIsRead
  <2>3. ParseOnline(PrintOnline("rows", sessions)) = Online(Back(sessions))
    <3>1. <<>> \notin DOMAIN sessions
      BY <1>2, UserTokens DEF TypeOK
    <3> QED BY <3>1, RowsAreRead
  <2>4. ParseOnline(PrintOnline("strings", sessions)) = Online(Counted(sessions))
    BY StringsAreRead
  <2>5. parsed \in {Failed, Online(Back(sessions)), Online(Counted(sessions))}
    <3>1. CASE shape = "flat"
      BY <1>1, <2>1, <3>1
    <3>2. CASE shape = "object"
      BY <1>1, <2>2, <3>2
    <3>3. CASE shape = "rows"
      BY <1>1, <2>3, <3>3
    <3>4. CASE shape = "strings"
      BY <1>1, <2>4, <3>4
    <3> QED BY <3>1, <3>2, <3>3, <3>4 DEF Shapes
  <2> HIDE DEF One
  <2> QED BY <1>3, <1>4, <1>5, <2>5
<1>7. Shown(parsed) \subseteq One
  <2> HIDE DEF One
  <2> QED BY <1>6
<1> QED BY <1>1, <1>7

-----------------------------------------------------------------------------
(* The inductive invariant.                                                *)

Busy(p) == pc[p] # "idle"

\* What a poll carries, and nothing while it is idle.
PollShape ==
  /\ stats \in [Poll -> UNION {[S -> 0..MaxBytes] : S \in SUBSET User}]
  /\ todo \in [Poll -> SUBSET User] /\ show \in [Poll -> SUBSET User]
  /\ \A p \in Poll : pc[p] # "observe" => on[p] = {}
  /\ \A p \in Poll : ~Busy(p) => stats[p] = NoStats

\* Eras only grow.
PastEras ==
  /\ \A p \in Poll : asof[p] <= era
  /\ \A u \in User : seen[u] # None => seen[u].era <= era

\* What xray shows of a user, and what polls and the tracker took from it, was
\* a move since the last reset.
MovesAreKnown ==
  /\ \A u \in User : counter[u] \notin {None, 0} => u \in moved
  /\ \A u \in online : CountedFor(u) \subseteq moved
  /\ clean =>
       /\ \A p \in Poll : /\ \A u \in DOMAIN stats[p] : stats[p][u] # 0 => u \in moved
                          /\ on[p] \subseteq moved
       /\ \A u \in User : seen[u] # None /\ (seen[u].bytes # 0 \/ seen[u].age # Never)
                          => u \in moved

\* A counter of no bytes has shown no traffic.
QuietAtZero ==
  /\ \A u \in User : counter[u] \in {None, 0} => quiet[u] > Idle
  /\ \A p \in Poll : \A u \in DOMAIN stats[p] : stats[p][u] = 0 => recent[p][u] > Idle

\* A poll of this era has at most the bytes the counter has now.
StatsBehindCounter ==
  \A p \in Poll : Busy(p) /\ asof[p] = era =>
    \A u \in DOMAIN stats[p] : counter[u] # None /\ stats[p][u] <= counter[u]

\* An entry was made at or after the last traffic of the bytes it holds.
AtLeastAsRecent(u, age) == seen[u].age <= age \/ age > Idle

EntriesAreRecent ==
  \A u \in User : seen[u] # None =>
    /\ seen[u].era = era =>
         /\ counter[u] # None /\ seen[u].bytes <= counter[u]
         /\ seen[u].bytes = counter[u] => AtLeastAsRecent(u, quiet[u])
    /\ \A p \in Poll : Busy(p) /\ u \in DOMAIN stats[p]
                       /\ seen[u].era = asof[p] /\ seen[u].bytes = stats[p][u]
                       => AtLeastAsRecent(u, recent[p][u])

IInv == /\ TypeOK /\ PollShape /\ PastEras
        /\ MovesAreKnown
        /\ QuietAtZero /\ StatsBehindCounter /\ EntriesAreRecent

-----------------------------------------------------------------------------
(* Types.                                                                  *)

\* Longest: nobody had traffic within the window.
LEMMA LongestIsAges == Longest \in [User -> Age] /\ \A u \in User : Longest[u] > Idle
BY ActivityAssumption DEF Longest, Age

\* Emails that sessions count for.
LEMMA CountedAreCredited == \A u \in User : u \in Credited /\ CountedFor(u) \subseteq Credited
BY DEF CountedFor, Credited

\* The types, at the start.
LEMMA InitTypes == Init => TypeOK /\ PollShape
<1> SUFFICES ASSUME Init PROVE TypeOK /\ PollShape
  OBVIOUS
<1> USE ActivityAssumption
<1>1. stats = [p \in Poll |-> NoStats] /\ NoStats \in [{} -> 0..MaxBytes] /\ DOMAIN NoStats = {}
  BY DEF Init, NoStats
<1>2. TypeOK
  <2>1. \A p \in Poll : /\ DOMAIN stats[p] = {} /\ todo[p] \cup show[p] = {}
    BY <1>1 DEF Init
  <2>2. recent \in [Poll -> [User -> Age]] /\ quiet \in [User -> Age]
    BY LongestIsAges DEF Init
  <2>3. era \in 0..MaxEra /\ asof \in [Poll -> 0..MaxEra]
    BY DEF Init
  <2> QED BY <2>1, <2>2, <2>3 DEF Init, TypeOK
<1>3. PollShape
  BY <1>1 DEF Init, PollShape, Busy
<1> QED BY <1>2, <1>3

\* Ages grow together and never leave Age.
LEMMA OlderAges ==
  /\ \A a \in Age : Older(a) \in Age
  /\ \A a \in Age, b \in Age : a <= b => Older(a) <= Older(b)
  /\ \A a \in Age : a > Idle => Older(a) > Idle
BY ActivityAssumption DEF Age, Older

\* What an observe leaves behind.
LEMMA ObservedIsEntry ==
  ASSUME TypeOK, PollShape, NEW p \in Poll, NEW u \in todo[p]
  PROVE  /\ u \in User /\ u \in DOMAIN stats[p] /\ stats[p][u] \in 0..MaxBytes
         /\ \/ /\ Observed(p, u) \in Entry
               /\ Observed(p, u).bytes = stats[p][u] /\ Observed(p, u).era = asof[p]
               /\ \/ /\ Observed(p, u).age = 0
                     /\ stats[p][u] # 0 \/ u \in on[p] \/ (seen[u] # None /\ seen[u].bytes # 0)
                  \/ /\ Observed(p, u).age = Never
                     /\ stats[p][u] = 0
            \/ /\ Observed(p, u) = seen[u] /\ seen[u] # None
               /\ seen[u].bytes = stats[p][u]
<1> USE ActivityAssumption
<1>1. u \in User /\ u \in DOMAIN stats[p] /\ stats[p][u] \in 0..MaxBytes
  BY DEF TypeOK
<1>2. asof[p] \in 0..MaxEra
  BY DEF TypeOK
<1> DEFINE e(a) == [bytes |-> stats[p][u], age |-> a, era |-> asof[p]]
<1>3. e(0) \in Entry /\ e(Never) \in Entry
  BY <1>1, <1>2 DEF Entry, Age, Never
<1>4. CASE seen[u] = None /\ FirstSight(stats[p][u], u \in on[p])
  <2>1. Observed(p, u) = e(0)
    BY <1>4, Zenon DEF Observed
  <2> QED BY <1>1, <1>3, <1>4, <2>1 DEF FirstSight
<1>5. CASE seen[u] = None /\ ~FirstSight(stats[p][u], u \in on[p])
  <2>1. Observed(p, u) = e(Never)
    BY <1>5 DEF Observed
  <2> QED BY <1>1, <1>3, <1>5, <2>1 DEF FirstSight
<1>6. CASE seen[u] # None /\ Touched(u, stats[p][u], u \in on[p])
  <2>1. Observed(p, u) = e(0)
    BY <1>6 DEF Observed
  <2> QED BY <1>1, <1>3, <1>6, <2>1 DEF Touched
<1>7. CASE seen[u] # None /\ ~Touched(u, stats[p][u], u \in on[p])
  <2>1. Observed(p, u) = seen[u]
    BY <1>7 DEF Observed
  <2> QED BY <1>1, <1>7, <2>1 DEF Touched
<1> QED BY <1>4, <1>5, <1>6, <1>7

\* The types are kept.
LEMMA TypeStep ==
  ASSUME TypeOK, PollShape, [Next]_vars
  PROVE  TypeOK'
<1> USE ActivityAssumption
<1>1. ASSUME NEW u \in User, Traffic(u) PROVE TypeOK'
  <2>1. counter' \in [User -> 0..MaxBytes \cup {None}]
    BY <1>1 DEF Traffic, TypeOK
  <2>2. quiet' \in [User -> Age] /\ moved' \subseteq Credited
    BY <1>1, CountedAreCredited DEF Traffic, TypeOK, Age
  <2> QED BY <1>1, <2>1, <2>2 DEF Traffic, TypeOK, polls
<1>2. ASSUME NEW u \in User, Connect(u) PROVE TypeOK'
  <2>1. CountedFor(u) \subseteq Credited
    BY CountedAreCredited
  <2> QED BY <1>2, <2>1 DEF Connect, TypeOK, polls
<1>3. ASSUME NEW u \in User, Disconnect(u) PROVE TypeOK'
  BY <1>3 DEF Disconnect, TypeOK, polls, history
<1>4. CASE XrayRestart
  BY <1>4, LongestIsAges DEF XrayRestart, TypeOK, polls
<1>5. CASE PanelRestart
  <2>1. DOMAIN NoStats = {}
    BY DEF NoStats
  <2>2. \A p \in Poll : DOMAIN stats'[p] = {} /\ todo'[p] \cup show'[p] = {}
    BY <1>5, <2>1 DEF PanelRestart
  <2>3. recent' \in [Poll -> [User -> Age]] /\ asof' \in [Poll -> 0..MaxEra]
    BY <1>5, LongestIsAges DEF PanelRestart
  <2> QED BY <1>5, <2>2, <2>3 DEF PanelRestart, TypeOK, xray
<1>6. CASE Tick
  <2>1. seen' \in [User -> Entry \cup {None}]
    <3>1. \A e \in Entry : e.age # Never => [e EXCEPT !.age = Older(@)] \in Entry
      BY OlderAges DEF Entry
    <3> QED BY <1>6, <3>1 DEF Tick, TypeOK
  <2>2. quiet' \in [User -> Age] /\ recent' \in [Poll -> [User -> Age]]
    BY <1>6, OlderAges DEF Tick, TypeOK
  <2> QED BY <1>6, <2>1, <2>2 DEF Tick, TypeOK, xray
<1>7. ASSUME NEW p \in Poll, QueryUsers(p) PROVE TypeOK'
  <2>1. stats' = [stats EXCEPT ![p] =
                    [u \in {v \in User : counter[v] # None /\ Plain(v)} |-> counter[u]]]
    BY <1>7, QueryUsersReads
  <2>2. \A q \in Poll : /\ DOMAIN stats'[q] \subseteq User
                        /\ \A u \in DOMAIN stats'[q] : stats'[q][u] \in 0..MaxBytes
    BY <2>1 DEF TypeOK, PollShape
  <2>3. todo'[p] \cup show'[p] = {}
    BY <1>7 DEF QueryUsers, TypeOK, PollShape, Busy, NoStats
  <2>4. \A q \in Poll : todo'[q] \cup show'[q] \subseteq DOMAIN stats'[q]
    BY <1>7, <2>1, <2>3 DEF QueryUsers, TypeOK, PollShape
  <2>5. /\ counter' = counter /\ online' = online /\ seen' = seen /\ on' = on /\ rows' = rows
        /\ reset' = reset /\ quiet' = quiet /\ era' = era /\ moved' = moved /\ clean' = clean
        /\ pc' = [pc EXCEPT ![p] = "online"] /\ asof' = [asof EXCEPT ![p] = era]
        /\ recent' = [recent EXCEPT ![p] = quiet]
    BY <1>7 DEF QueryUsers, xray, history
  <2> QED BY <2>2, <2>4, <2>5 DEF TypeOK
<1>8. ASSUME NEW p \in Poll, QueryOnline(p) PROVE TypeOK'
  <2>1. PICK S \in SUBSET UNION {CountedFor(u) : u \in online} : on' = [on EXCEPT ![p] = S]
    BY <1>8, QueryOnlineReads
  <2>2. S \subseteq Credited
    BY CountedAreCredited DEF TypeOK
  <2>3. /\ counter' = counter /\ online' = online /\ seen' = seen /\ rows' = rows
        /\ reset' = reset /\ quiet' = quiet /\ era' = era /\ moved' = moved /\ clean' = clean
        /\ stats' = stats /\ show' = show /\ asof' = asof /\ recent' = recent
        /\ pc' = [pc EXCEPT ![p] = "observe"] /\ todo' = [todo EXCEPT ![p] = DOMAIN stats[p]]
    BY <1>8 DEF QueryOnline, xray, history
  <2> QED BY <2>1, <2>2, <2>3 DEF TypeOK, PollShape
<1>9. ASSUME NEW p \in Poll, Observe(p) PROVE TypeOK'
  <2>1. PICK u \in todo[p] :
          /\ seen' = [seen EXCEPT ![u] = Observed(p, u)]
          /\ todo' = [todo EXCEPT ![p] = @ \ {u}]
          /\ show' = IF seen'[u].age <= Idle THEN [show EXCEPT ![p] = @ \cup {u}] ELSE show
    BY <1>9 DEF Observe
  <2>2. u \in User /\ Observed(p, u) \in Entry \cup {None} /\ u \in DOMAIN stats[p]
    BY <2>1, ObservedIsEntry DEF TypeOK
  <2>3. seen' \in [User -> Entry \cup {None}]
    BY <2>1, <2>2 DEF TypeOK
  <2>4. stats' = stats
    BY <1>9 DEF Observe
  <2>5. \A q \in Poll : todo'[q] \cup show'[q] \subseteq DOMAIN stats'[q]
    <3>1. \A q \in Poll : todo'[q] \subseteq todo[q]
      BY <2>1 DEF PollShape
    <3>2. \A q \in Poll : show'[q] \subseteq show[q] \cup (IF q = p THEN {u} ELSE {})
      <4>1. CASE show' = show
        BY <4>1
      <4>2. CASE show' = [show EXCEPT ![p] = @ \cup {u}]
        BY <4>2 DEF PollShape
      <4> QED BY <2>1, <4>1, <4>2
    <3> QED BY <2>2, <2>4, <3>1, <3>2 DEF TypeOK
  <2> QED BY <1>9, <2>3, <2>4, <2>5 DEF Observe, TypeOK, xray, history
<1>10. ASSUME NEW p \in Poll, Respond(p) PROVE TypeOK'
  <2>1. DOMAIN NoStats = {}
    BY DEF NoStats
  <2>2. stats' = [stats EXCEPT ![p] = NoStats] /\ show' = [show EXCEPT ![p] = {}] /\ todo' = todo
        /\ todo[p] = {} /\ on' = [on EXCEPT ![p] = {}] /\ rows' = show[p]
        /\ pc' = [pc EXCEPT ![p] = "idle"]
        /\ asof' = [asof EXCEPT ![p] = 0] /\ recent' = [recent EXCEPT ![p] = Longest]
    BY <1>10 DEF Respond
  <2>3. \A q \in Poll : /\ DOMAIN stats'[q] \subseteq User
                        /\ \A u \in DOMAIN stats'[q] : stats'[q][u] \in 0..MaxBytes
                        /\ todo'[q] \cup show'[q] \subseteq DOMAIN stats'[q]
    BY <2>1, <2>2 DEF TypeOK, PollShape
  <2>4. rows' \subseteq User /\ pc' \in [Poll -> {"idle", "online", "observe"}]
        /\ on' \in [Poll -> SUBSET Credited]
    BY <2>2 DEF TypeOK
  <2>5. asof' \in [Poll -> 0..MaxEra] /\ recent' \in [Poll -> [User -> Age]]
    BY <2>2, LongestIsAges DEF TypeOK
  <2> QED BY <1>10, <2>3, <2>4, <2>5 DEF Respond, TypeOK, xray, history
<1>11. ASSUME NEW a \in Reset, Zero(a) PROVE TypeOK'
  <2>1. counter' \in [User -> 0..MaxBytes \cup {None}] /\ quiet' \in [User -> Age]
    BY <1>11, LongestIsAges DEF Zero, Zeroed
  <2>2. moved' \subseteq Credited
    BY <1>11, CountedAreCredited DEF Zero, TypeOK
  <2>3. era' \in 0..MaxEra
    BY <1>11 DEF Zero, TypeOK
  <2> QED BY <1>11, <2>1, <2>2, <2>3 DEF Zero, TypeOK, polls
<1>12. ASSUME NEW a \in Reset, ZeroFails(a) PROVE TypeOK'
  <2>1. counter' \in [User -> 0..MaxBytes \cup {None}] /\ quiet' \in [User -> Age]
    <3>1. CASE counter' = Zeroed /\ quiet' = Longest
      BY <3>1, LongestIsAges DEF Zeroed
    <3>2. CASE UNCHANGED <<counter, quiet>>
      BY <3>2 DEF TypeOK
    <3> QED BY <1>12, <3>1, <3>2 DEF ZeroFails
  <2>2. era' \in 0..MaxEra
    BY <1>12 DEF ZeroFails, TypeOK
  <2> QED BY <1>12, <2>1, <2>2 DEF ZeroFails, TypeOK, polls
<1>13. ASSUME NEW a \in Reset, Clear(a) PROVE TypeOK'
  BY <1>13 DEF Clear, TypeOK, xray, polls
<1>14. CASE UNCHANGED vars
  BY <1>14 DEF vars, xray, polls, history, TypeOK
<1> QED BY <1>1, <1>2, <1>3, <1>4, <1>5, <1>6, <1>7, <1>8, <1>9, <1>10, <1>11, <1>12,
           <1>13, <1>14 DEF Next, PollStep

\* What polls carry keeps its shape.
LEMMA ShapeStep ==
  ASSUME TypeOK, PollShape, [Next]_vars
  PROVE  PollShape'
<1> USE ActivityAssumption
<1>1. CASE UNCHANGED polls
  BY <1>1 DEF polls, PollShape, Busy
<1>2. CASE PanelRestart
  <2>1. NoStats \in [{} -> 0..MaxBytes]
    BY DEF NoStats
  <2> QED BY <1>2, <2>1 DEF PanelRestart, PollShape, Busy
<1>3. CASE Tick
  BY <1>3 DEF Tick, PollShape, Busy
<1>4. ASSUME NEW p \in Poll, QueryUsers(p) PROVE PollShape'
  <2> DEFINE S == {v \in User : counter[v] # None /\ Plain(v)}
             f == [u \in S |-> counter[u]]
  <2>1. stats' = [stats EXCEPT ![p] = f]
    BY <1>4, QueryUsersReads
  <2>2. f \in [S -> 0..MaxBytes] /\ S \in SUBSET User
    BY DEF TypeOK
  <2>3. stats' \in [Poll -> UNION {[T -> 0..MaxBytes] : T \in SUBSET User}]
    <3> HIDE DEF f, S
    <3> QED BY <2>1, <2>2 DEF PollShape
  <2> HIDE DEF f
  <2>4. UNCHANGED <<on, todo, show>> /\ pc[p] = "idle" /\ pc' = [pc EXCEPT ![p] = "online"]
    BY <1>4 DEF QueryUsers
  <2>5. \A q \in Poll : q # p => stats'[q] = stats[q] /\ pc'[q] = pc[q]
    BY <2>1, <2>4 DEF PollShape, TypeOK
  <2>6. pc'[p] = "online" /\ on[p] = {}
    BY <2>4 DEF TypeOK, PollShape
  <2> QED BY <2>3, <2>4, <2>5, <2>6 DEF PollShape, Busy
<1>5. ASSUME NEW p \in Poll, QueryOnline(p) PROVE PollShape'
  <2>1. PICK S \in SUBSET UNION {CountedFor(u) : u \in online} : on' = [on EXCEPT ![p] = S]
    BY <1>5, QueryOnlineReads
  <2>2. stats' = stats /\ show' = show /\ pc[p] = "online"
        /\ pc' = [pc EXCEPT ![p] = "observe"] /\ todo' = [todo EXCEPT ![p] = DOMAIN stats[p]]
    BY <1>5 DEF QueryOnline
  <2>3. \A q \in Poll : q # p => on'[q] = on[q] /\ pc'[q] = pc[q]
    BY <2>1, <2>2 DEF TypeOK
  <2>4. pc'[p] = "observe"
    BY <2>2 DEF TypeOK
  <2>5. todo' \in [Poll -> SUBSET User]
    BY <2>2 DEF PollShape, TypeOK
  <2> QED BY <2>2, <2>3, <2>4, <2>5 DEF PollShape, Busy
<1>6. ASSUME NEW p \in Poll, Observe(p) PROVE PollShape'
  <2>1. PICK u \in todo[p] : /\ todo' = [todo EXCEPT ![p] = @ \ {u}]
                             /\ show' \in {show, [show EXCEPT ![p] = @ \cup {u}]}
    BY <1>6 DEF Observe
  <2>2. u \in User
    BY <2>1 DEF PollShape
  <2>3. UNCHANGED <<stats, on, pc>>
    BY <1>6 DEF Observe
  <2> QED BY <2>1, <2>2, <2>3 DEF PollShape, Busy
<1>7. ASSUME NEW p \in Poll, Respond(p) PROVE PollShape'
  <2>1. NoStats \in [{} -> 0..MaxBytes]
    BY DEF NoStats
  <2>2. stats' = [stats EXCEPT ![p] = NoStats] /\ show' = [show EXCEPT ![p] = {}] /\ todo' = todo
        /\ on' = [on EXCEPT ![p] = {}] /\ pc' = [pc EXCEPT ![p] = "idle"]
    BY <1>7 DEF Respond
  <2>3. stats' \in [Poll -> UNION {[T -> 0..MaxBytes] : T \in SUBSET User}]
    BY <2>1, <2>2 DEF PollShape
  <2>4. \A q \in Poll : q # p => stats'[q] = stats[q] /\ pc'[q] = pc[q] /\ on'[q] = on[q]
    BY <2>2 DEF PollShape, TypeOK
  <2>5. stats'[p] = NoStats /\ on'[p] = {}
    BY <2>2 DEF PollShape, TypeOK
  <2> QED BY <2>2, <2>3, <2>4, <2>5 DEF PollShape, Busy
<1> QED BY <1>1, <1>2, <1>3, <1>4, <1>5, <1>6, <1>7
        DEF Next, PollStep, vars, Traffic, Connect, Disconnect, XrayRestart,
            Zero, ZeroFails, Clear, polls

\* Nothing is of an era to come.
LEMMA ErasStep ==
  ASSUME TypeOK, PollShape, PastEras, [Next]_vars
  PROVE  PastEras'
<1> USE ActivityAssumption
<1>1. CASE UNCHANGED <<seen, asof>> /\ era' \in {era, era + 1}
  BY <1>1 DEF PastEras, TypeOK, Entry
<1>2. CASE PanelRestart
  BY <1>2 DEF PanelRestart, PastEras, TypeOK
<1>3. CASE Tick
  <2>1. \A u \in User : seen'[u] # None => seen[u] # None /\ seen'[u].era = seen[u].era
    BY <1>3 DEF Tick, TypeOK, Entry
  <2> QED BY <1>3, <2>1 DEF Tick, PastEras
<1>4. ASSUME NEW p \in Poll, QueryUsers(p) PROVE PastEras'
  BY <1>4 DEF QueryUsers, PastEras, TypeOK, history
<1>5. ASSUME NEW p \in Poll, QueryOnline(p) PROVE PastEras'
  BY <1>5 DEF QueryOnline, PastEras, history
<1>6. ASSUME NEW p \in Poll, Observe(p) PROVE PastEras'
  <2>1. PICK u \in todo[p] : seen' = [seen EXCEPT ![u] = Observed(p, u)]
    BY <1>6 DEF Observe
  <2>2. Observed(p, u).era = asof[p] \/ (Observed(p, u) = seen[u] /\ seen[u] # None)
    BY <2>1, ObservedIsEntry
  <2>3. u \in User
    BY <2>1 DEF PollShape
  <2>4. Observed(p, u).era <= era
    BY <2>2, <2>3 DEF PastEras
  <2>5. \A v \in User : seen'[v] = IF v = u THEN Observed(p, u) ELSE seen[v]
    BY <2>1, <2>3 DEF TypeOK
  <2>6. asof' = asof /\ era' = era
    BY <1>6 DEF Observe, history
  <2> QED BY <2>4, <2>5, <2>6 DEF PastEras
<1>7. ASSUME NEW p \in Poll, Respond(p) PROVE PastEras'
  BY <1>7 DEF Respond, PastEras, TypeOK, history
<1>8. ASSUME NEW a \in Reset, Clear(a) PROVE PastEras'
  BY <1>8 DEF Clear, PastEras, polls
<1> QED BY <1>1, <1>2, <1>3, <1>4, <1>5, <1>6, <1>7, <1>8
        DEF Next, PollStep, vars, Traffic, Connect, Disconnect, XrayRestart,
            Zero, ZeroFails, polls, history

-----------------------------------------------------------------------------
(* Moves.                                                                  *)

\* No step makes anybody active who did not move.
LEMMA MovesStep ==
  ASSUME TypeOK, PollShape, MovesAreKnown, [Next]_vars
  PROVE  MovesAreKnown'
<1> USE ActivityAssumption
<1>1. ASSUME NEW u \in User, Traffic(u) PROVE MovesAreKnown'
  BY <1>1 DEF Traffic, MovesAreKnown, TypeOK, polls
<1>2. ASSUME NEW u \in User, Connect(u) PROVE MovesAreKnown'
  BY <1>2 DEF Connect, MovesAreKnown, TypeOK, polls
<1>3. ASSUME NEW u \in User, Disconnect(u) PROVE MovesAreKnown'
  BY <1>3 DEF Disconnect, MovesAreKnown, TypeOK, polls, history
<1>4. CASE XrayRestart
  BY <1>4 DEF XrayRestart, MovesAreKnown, TypeOK, polls
<1>5. CASE PanelRestart
  BY <1>5 DEF PanelRestart, MovesAreKnown, TypeOK, xray
<1>6. CASE Tick
  <2>1. \A u \in User : seen'[u] # None =>
          seen[u] # None /\ seen'[u].bytes = seen[u].bytes
          /\ (seen'[u].age # Never => seen[u].age # Never)
    BY <1>6 DEF Tick, TypeOK, Entry
  <2> QED BY <1>6, <2>1 DEF Tick, MovesAreKnown, xray
<1>7. ASSUME NEW p \in Poll, QueryUsers(p) PROVE MovesAreKnown'
  <2>1. stats' = [stats EXCEPT ![p] =
                    [u \in {v \in User : counter[v] # None /\ Plain(v)} |-> counter[u]]]
    BY <1>7, QueryUsersReads
  <2>2. UNCHANGED <<counter, online, moved, clean, seen, on>>
    BY <1>7 DEF QueryUsers, xray, history
  <2>3. \A q \in Poll : \A u \in DOMAIN stats'[q] :
          \/ u \in DOMAIN stats[q] /\ stats'[q][u] = stats[q][u]
          \/ u \in User /\ counter[u] # None /\ stats'[q][u] = counter[u]
    BY <2>1 DEF PollShape
  <2> QED BY <2>2, <2>3 DEF MovesAreKnown
<1>8. ASSUME NEW p \in Poll, QueryOnline(p) PROVE MovesAreKnown'
  <2>1. PICK S \in SUBSET UNION {CountedFor(u) : u \in online} : on' = [on EXCEPT ![p] = S]
    BY <1>8, QueryOnlineReads
  <2>2. S \subseteq moved
    BY DEF MovesAreKnown
  <2>3. \A q \in Poll : on'[q] \subseteq on[q] \cup S
    BY <2>1 DEF TypeOK
  <2>4. UNCHANGED <<counter, online, moved, clean, seen, stats>>
    BY <1>8 DEF QueryOnline, xray, history
  <2> QED BY <2>2, <2>3, <2>4 DEF MovesAreKnown
<1>9. ASSUME NEW p \in Poll, Observe(p) PROVE MovesAreKnown'
  <2>1. PICK u \in todo[p] : seen' = [seen EXCEPT ![u] = Observed(p, u)]
    BY <1>9 DEF Observe
  <2>2. UNCHANGED <<counter, online, moved, clean, stats, on>>
    BY <1>9 DEF Observe, xray, history
  <2>3. u \in User /\ u \in DOMAIN stats[p]
    BY <2>1, ObservedIsEntry
  <2>4. ASSUME clean, Observed(p, u).bytes # 0 \/ Observed(p, u).age # Never
        PROVE  u \in moved
    <3> DEFINE o == Observed(p, u)
    <3>1. \/ /\ o.bytes = stats[p][u]
             /\ \/ /\ o.age = 0
                   /\ stats[p][u] # 0 \/ u \in on[p] \/ (seen[u] # None /\ seen[u].bytes # 0)
                \/ o.age = Never /\ stats[p][u] = 0
          \/ seen[u] # None /\ o = seen[u]
      BY <2>1, ObservedIsEntry
    <3>2. /\ stats[p][u] # 0 => u \in moved
          /\ u \in on[p] => u \in moved
          /\ seen[u] # None /\ (seen[u].bytes # 0 \/ seen[u].age # Never) => u \in moved
      BY <2>3, <2>4 DEF MovesAreKnown
    <3>3. o.bytes # 0 \/ o.age # Never
      BY <2>4
    <3> HIDE DEF o
    <3> QED BY <3>1, <3>2, <3>3
  <2>5. \A v \in User : seen'[v] = IF v = u THEN Observed(p, u) ELSE seen[v]
    BY <2>1, <2>3 DEF TypeOK
  <2> QED BY <2>2, <2>4, <2>5 DEF MovesAreKnown
<1>10. ASSUME NEW p \in Poll, Respond(p) PROVE MovesAreKnown'
  <2>1. DOMAIN NoStats = {}
    BY DEF NoStats
  <2> QED BY <1>10, <2>1 DEF Respond, MovesAreKnown, TypeOK, PollShape, xray, history
<1>11. ASSUME NEW a \in Reset, Zero(a) PROVE MovesAreKnown'
  BY <1>11 DEF Zero, Zeroed, MovesAreKnown, polls
<1>12. ASSUME NEW a \in Reset, ZeroFails(a) PROVE MovesAreKnown'
  BY <1>12 DEF ZeroFails, Zeroed, MovesAreKnown, polls
<1>13. ASSUME NEW a \in Reset, Clear(a) PROVE MovesAreKnown'
  <2>1. UNCHANGED <<counter, online, moved, stats, on>> /\ seen' = [u \in User |-> None]
    BY <1>13 DEF Clear, xray, polls
  <2>2. ASSUME clean' PROVE \A p \in Poll : DOMAIN stats[p] = {} /\ on[p] = {}
    <3>1. \A p \in Poll : pc[p] = "idle"
      BY <1>13, <2>2 DEF Clear
    <3> QED BY <3>1 DEF PollShape, Busy, NoStats
  <2> QED BY <2>1, <2>2 DEF MovesAreKnown
<1>14. CASE UNCHANGED vars
  BY <1>14 DEF vars, xray, polls, history, MovesAreKnown
<1> QED BY <1>1, <1>2, <1>3, <1>4, <1>5, <1>6, <1>7, <1>8, <1>9, <1>10, <1>11, <1>12,
           <1>13, <1>14 DEF Next, PollStep

-----------------------------------------------------------------------------
(* Ages.                                                                   *)

\* No step makes traffic recent that the counter does not show.
LEMMA QuietStep ==
  ASSUME TypeOK, PollShape, QuietAtZero, [Next]_vars
  PROVE  QuietAtZero'
<1> USE ActivityAssumption
<1>1. ASSUME NEW u \in User, Traffic(u) PROVE QuietAtZero'
  <2>1. \A v \in User : counter'[v] \in {None, 0} =>
          counter[v] \in {None, 0} /\ quiet'[v] = quiet[v]
    <3>1. counter'[u] \notin {None, 0}
      BY <1>1 DEF Traffic, TypeOK
    <3>2. \A v \in User : v # u => counter'[v] = counter[v] /\ quiet'[v] = quiet[v]
      BY <1>1 DEF Traffic, TypeOK
    <3> QED BY <3>1, <3>2
  <2>2. stats' = stats /\ recent' = recent
    BY <1>1 DEF Traffic, polls
  <2> QED BY <2>1, <2>2 DEF QuietAtZero
<1>2. ASSUME NEW u \in User, Connect(u) PROVE QuietAtZero'
  BY <1>2 DEF Connect, QuietAtZero, TypeOK, polls
<1>3. ASSUME NEW u \in User, Disconnect(u) PROVE QuietAtZero'
  BY <1>3 DEF Disconnect, QuietAtZero, polls, history
<1>4. CASE XrayRestart
  BY <1>4, LongestIsAges DEF XrayRestart, QuietAtZero, polls
<1>5. CASE PanelRestart
  BY <1>5 DEF PanelRestart, QuietAtZero, xray, NoStats
<1>6. CASE Tick
  <2>1. \A u \in User : quiet[u] > Idle => quiet'[u] > Idle
    BY <1>6, OlderAges DEF Tick, TypeOK
  <2>2. \A p \in Poll : \A u \in User : recent[p][u] > Idle => recent'[p][u] > Idle
    BY <1>6, OlderAges DEF Tick, TypeOK
  <2>3. counter' = counter /\ stats' = stats
    BY <1>6 DEF Tick, xray
  <2> QED BY <2>1, <2>2, <2>3 DEF QuietAtZero, TypeOK
<1>7. ASSUME NEW p \in Poll, QueryUsers(p) PROVE QuietAtZero'
  <2> DEFINE f == [u \in {v \in User : counter[v] # None /\ Plain(v)} |-> counter[u]]
  <2>1. stats' = [stats EXCEPT ![p] = f]
    BY <1>7, QueryUsersReads
  <2>2. UNCHANGED <<counter, quiet>> /\ recent' = [recent EXCEPT ![p] = quiet]
    BY <1>7 DEF QueryUsers, xray, history
  <2>3. \A u \in DOMAIN f : u \in User /\ f[u] = counter[u]
    OBVIOUS
  <2> HIDE DEF f
  <2>4. ASSUME NEW q \in Poll, NEW u \in DOMAIN stats'[q], stats'[q][u] = 0
        PROVE  recent'[q][u] > Idle
    <3>1. CASE q = p
      <4>1. stats'[q] = f /\ recent'[q] = quiet
        BY <2>1, <2>2, <3>1 DEF PollShape, TypeOK
      <4> QED BY <2>3, <2>4, <4>1 DEF QuietAtZero
    <3>2. CASE q # p
      <4>1. stats'[q] = stats[q] /\ recent'[q] = recent[q]
        BY <2>1, <2>2, <3>2 DEF PollShape, TypeOK
      <4> QED BY <2>4, <4>1 DEF QuietAtZero
    <3> QED BY <3>1, <3>2
  <2> QED BY <2>2, <2>4 DEF QuietAtZero
<1>8. ASSUME NEW p \in Poll, QueryOnline(p) \/ Observe(p) PROVE QuietAtZero'
  BY <1>8 DEF QueryOnline, Observe, QuietAtZero, xray, history
<1>9. ASSUME NEW p \in Poll, Respond(p) PROVE QuietAtZero'
  <2>1. stats' = [stats EXCEPT ![p] = NoStats] /\ recent' = [recent EXCEPT ![p] = Longest]
        /\ UNCHANGED <<counter, quiet>>
    BY <1>9 DEF Respond, xray, history
  <2>2. \A q \in Poll : \/ stats'[q] = NoStats
                        \/ stats'[q] = stats[q] /\ recent'[q] = recent[q]
    BY <2>1 DEF PollShape, TypeOK
  <2>3. DOMAIN NoStats = {}
    BY DEF NoStats
  <2> QED BY <2>1, <2>2, <2>3 DEF QuietAtZero
<1>10. ASSUME NEW a \in Reset, Zero(a) PROVE QuietAtZero'
  BY <1>10, LongestIsAges DEF Zero, QuietAtZero, polls
<1>11. ASSUME NEW a \in Reset, ZeroFails(a) PROVE QuietAtZero'
  BY <1>11, LongestIsAges DEF ZeroFails, QuietAtZero, polls
<1>12. ASSUME NEW a \in Reset, Clear(a) PROVE QuietAtZero'
  BY <1>12 DEF Clear, QuietAtZero, xray, polls
<1>13. CASE UNCHANGED vars
  BY <1>13 DEF vars, xray, polls, history, QuietAtZero
<1> QED BY <1>1, <1>2, <1>3, <1>4, <1>5, <1>6, <1>7, <1>8, <1>9, <1>10, <1>11, <1>12,
           <1>13 DEF Next, PollStep

\* Within an era counters only grow.
CountersGrow ==
  \A u \in User : counter[u] # None => counter'[u] # None /\ counter'[u] >= counter[u]

\* A step zeroes the counters and begins an era, or lets them grow.
LEMMA EraOrGrowth ==
  ASSUME TypeOK, [Next]_vars
  PROVE  /\ era' = era + 1 \/ (era' = era /\ CountersGrow)
<1> USE ActivityAssumption
<1>1. ASSUME NEW u \in User, Traffic(u) PROVE era' = era /\ CountersGrow
  BY <1>1 DEF Traffic, CountersGrow, TypeOK
<1>2. ASSUME NEW u \in User, Connect(u) PROVE era' = era /\ CountersGrow
  BY <1>2 DEF Connect, CountersGrow, TypeOK
<1>3. CASE counter' = counter /\ era' = era
  BY <1>3 DEF CountersGrow, TypeOK
<1> QED BY <1>1, <1>2, <1>3
        DEF Next, PollStep, vars, Disconnect, XrayRestart, PanelRestart, Tick, QueryUsers,
            QueryOnline, Observe, Respond, Zero, ZeroFails, Clear, xray, history

\* What a poll read of this era stays behind the counters.
LEMMA StatsBehindStep ==
  ASSUME TypeOK, PollShape, PastEras, StatsBehindCounter, [Next]_vars
  PROVE  StatsBehindCounter'
<1> USE ActivityAssumption
<1>1. CASE era' = era + 1 /\ UNCHANGED <<pc, asof>>
  BY <1>1 DEF StatsBehindCounter, PastEras, TypeOK
<1>2. CASE era' = era /\ CountersGrow /\ UNCHANGED <<asof, stats>>
           /\ \A q \in Poll : Busy(q)' => Busy(q)
  <2> SUFFICES ASSUME NEW q \in Poll, Busy(q)', asof'[q] = era', NEW u \in DOMAIN stats'[q]
               PROVE  counter'[u] # None /\ stats'[q][u] <= counter'[u]
    BY DEF StatsBehindCounter
  <2>1. u \in User /\ stats[q][u] \in Nat /\ counter[u] # None /\ stats[q][u] <= counter[u]
    BY <1>2 DEF StatsBehindCounter, TypeOK
  <2>2. counter'[u] # None /\ counter'[u] >= counter[u]
    BY <1>2, <2>1 DEF CountersGrow
  <2>3. counter[u] \in Nat /\ counter'[u] \in Nat
    BY <2>1, <2>2, TypeStep DEF TypeOK
  <2> QED BY <1>2, <2>1, <2>2, <2>3
<1>3. ASSUME NEW p \in Poll, QueryUsers(p) PROVE StatsBehindCounter'
  <2> DEFINE f == [u \in {v \in User : counter[v] # None /\ Plain(v)} |-> counter[u]]
  <2>1. stats' = [stats EXCEPT ![p] = f]
    BY <1>3, QueryUsersReads
  <2>2. UNCHANGED <<counter, era>> /\ asof' = [asof EXCEPT ![p] = era]
        /\ pc' = [pc EXCEPT ![p] = "online"]
    BY <1>3 DEF QueryUsers, xray, history
  <2>3. \A u \in DOMAIN f : u \in User /\ counter[u] # None /\ f[u] <= counter[u]
    BY DEF TypeOK
  <2> HIDE DEF f
  <2>4. ASSUME NEW q \in Poll, Busy(q)', asof'[q] = era, NEW u \in DOMAIN stats'[q]
        PROVE  counter[u] # None /\ stats'[q][u] <= counter[u]
    <3>1. CASE q = p
      BY <2>1, <2>3, <3>1 DEF PollShape
    <3>2. CASE q # p
      <4>1. stats'[q] = stats[q] /\ asof'[q] = asof[q] /\ pc'[q] = pc[q]
        BY <2>1, <2>2, <3>2 DEF PollShape, TypeOK
      <4> QED BY <2>4, <4>1 DEF StatsBehindCounter, Busy
    <3> QED BY <3>1, <3>2
  <2> QED BY <2>2, <2>4 DEF StatsBehindCounter
<1>4. ASSUME NEW p \in Poll, Respond(p) PROVE StatsBehindCounter'
  <2>1. stats' = [stats EXCEPT ![p] = NoStats] /\ asof' = [asof EXCEPT ![p] = 0]
        /\ pc' = [pc EXCEPT ![p] = "idle"] /\ UNCHANGED <<counter, era>>
    BY <1>4 DEF Respond, xray, history
  <2>2. \A q \in Poll : \/ ~Busy(q)'
                        \/ /\ stats'[q] = stats[q] /\ asof'[q] = asof[q]
                           /\ pc'[q] = pc[q]
    BY <2>1 DEF PollShape, TypeOK, Busy
  <2> QED BY <2>1, <2>2 DEF StatsBehindCounter, Busy
<1>5. CASE PanelRestart
  BY <1>5 DEF PanelRestart, StatsBehindCounter, Busy
<1>6. ASSUME NEW p \in Poll, QueryOnline(p) \/ Observe(p) PROVE StatsBehindCounter'
  <2>1. \A q \in Poll : Busy(q)' => Busy(q)
    BY <1>6 DEF QueryOnline, Observe, Busy, TypeOK
  <2>2. UNCHANGED <<asof, stats, counter, era>>
    BY <1>6 DEF QueryOnline, Observe, xray, history
  <2> QED BY <2>1, <2>2 DEF StatsBehindCounter
<1>7. UNCHANGED <<pc, asof, stats>> => \A q \in Poll : Busy(q)' => Busy(q)
  BY DEF Busy
<1> QED BY <1>1, <1>2, <1>3, <1>4, <1>5, <1>6, <1>7, EraOrGrowth
        DEF Next, PollStep, vars, Traffic, Connect, Disconnect, XrayRestart, Tick,
            Zero, ZeroFails, Clear, polls

\* An entry stays as recent as the traffic it stands for.
LEMMA EntriesStep ==
  ASSUME IInv, [Next]_vars
  PROVE  EntriesAreRecent'
<1> USE ActivityAssumption
<1>0. TypeOK /\ PollShape /\ PastEras /\ QuietAtZero /\ StatsBehindCounter /\ EntriesAreRecent
  BY DEF IInv
<1>1. ASSUME NEW u \in User, Traffic(u) PROVE EntriesAreRecent'
  <2>1. UNCHANGED <<seen, era, stats, asof, recent, pc>>
    BY <1>1 DEF Traffic, polls
  <2>2. \A v \in User : v # u => counter'[v] = counter[v] /\ quiet'[v] = quiet[v]
    BY <1>0, <1>1 DEF Traffic, TypeOK
  <2>3. counter[u] # None => counter'[u] = counter[u] + 1 /\ counter[u] \in Nat /\ counter'[u] # None
    BY <1>0, <1>1 DEF Traffic, TypeOK
  <2>4. seen[u] # None => seen[u].bytes \in Nat
    BY <1>0 DEF TypeOK, Entry
  <2>5. seen[u] # None /\ seen[u].era = era =>
          /\ counter'[u] # None /\ seen[u].bytes <= counter'[u]
          /\ seen[u].bytes # counter'[u]
    BY <1>0, <2>3, <2>4 DEF EntriesAreRecent
  <2> QED BY <1>0, <2>1, <2>2, <2>5 DEF EntriesAreRecent, Busy, AtLeastAsRecent
<1>2. ASSUME NEW u \in User, Connect(u) PROVE EntriesAreRecent'
  <2>1. UNCHANGED <<seen, era, stats, asof, recent, pc, quiet>>
    BY <1>2 DEF Connect, polls
  <2>2. \A v \in User : counter[v] # None => counter'[v] = counter[v]
    BY <1>0, <1>2 DEF Connect, TypeOK
  <2> QED BY <1>0, <2>1, <2>2 DEF EntriesAreRecent, Busy, AtLeastAsRecent
<1>3. CASE UNCHANGED <<seen, era, stats, asof, recent, pc, quiet, counter>>
  BY <1>0, <1>3 DEF EntriesAreRecent, Busy, AtLeastAsRecent
<1>4. CASE era' = era + 1 /\ UNCHANGED <<seen, stats, asof, recent, pc>>
  <2>1. \A u \in User : seen[u] # None => seen[u].era # era'
    BY <1>0, <1>4 DEF PastEras, TypeOK, Entry
  <2> QED BY <1>0, <1>4, <2>1 DEF EntriesAreRecent, Busy, AtLeastAsRecent
<1>5. CASE seen' = [u \in User |-> None]
  BY <1>5 DEF EntriesAreRecent
<1>6. CASE Tick
  <2>1. UNCHANGED <<counter, stats, asof, pc, era>>
    BY <1>6 DEF Tick, xray
  <2>2. \A u \in User : seen'[u] # None =>
          /\ seen[u] # None
          /\ seen'[u].bytes = seen[u].bytes /\ seen'[u].era = seen[u].era
          /\ seen[u].age # Never => seen'[u].age = Older(seen[u].age) /\ seen[u].age \in Age
          /\ seen[u].age = Never => seen'[u].age = Never
    BY <1>0, <1>6 DEF Tick, TypeOK, Entry
  <2>3. ASSUME NEW u \in User, seen'[u] # None, NEW a \in Age, AtLeastAsRecent(u, a)
        PROVE  seen'[u].age <= Older(a) \/ Older(a) > Idle
    <3>1. CASE a > Idle
      BY <3>1, OlderAges
    <3>2. CASE ~(a > Idle)
      <4>1. seen[u].age <= a
        BY <2>3, <3>2 DEF AtLeastAsRecent
      <4>2. seen[u].age # Never
        BY <4>1, <3>2 DEF Never, Age
      <4> QED BY <2>2, <2>3, <4>1, <4>2, OlderAges
    <3> QED BY <3>1, <3>2
  <2>4. \A u \in User : quiet'[u] = Older(quiet[u]) /\ quiet[u] \in Age
    BY <1>0, <1>6 DEF Tick, TypeOK
  <2>5. \A p \in Poll : Busy(p) =>
          \A u \in User : recent'[p][u] = Older(recent[p][u]) /\ recent[p][u] \in Age
    BY <1>0, <1>6 DEF Tick, TypeOK, Busy
  <2> SUFFICES ASSUME NEW u \in User, seen'[u] # None
               PROVE  /\ seen'[u].era = era' =>
                           /\ counter'[u] # None /\ seen'[u].bytes <= counter'[u]
                           /\ seen'[u].bytes = counter'[u] => AtLeastAsRecent(u, quiet[u])'
                      /\ \A p \in Poll : Busy(p)' /\ u \in DOMAIN stats'[p]
                           /\ seen'[u].era = asof'[p] /\ seen'[u].bytes = stats'[p][u]
                           => AtLeastAsRecent(u, recent[p][u])'
    BY DEF EntriesAreRecent
  <2>6. ASSUME seen'[u].era = era'
        PROVE  /\ counter'[u] # None /\ seen'[u].bytes <= counter'[u]
               /\ seen'[u].bytes = counter'[u] => AtLeastAsRecent(u, quiet[u])'
    <3>1. /\ counter[u] # None /\ seen[u].bytes <= counter[u]
          /\ seen[u].bytes = counter[u] => AtLeastAsRecent(u, quiet[u])
      BY <1>0, <2>1, <2>2, <2>6 DEF EntriesAreRecent
    <3> QED BY <2>1, <2>2, <2>3, <2>4, <3>1 DEF AtLeastAsRecent
  <2>7. ASSUME NEW p \in Poll, Busy(p)', u \in DOMAIN stats'[p],
               seen'[u].era = asof'[p], seen'[u].bytes = stats'[p][u]
        PROVE  AtLeastAsRecent(u, recent[p][u])'
    <3>1. Busy(p)
      BY <2>1, <2>7 DEF Busy
    <3>2. AtLeastAsRecent(u, recent[p][u])
      BY <1>0, <2>1, <2>2, <2>7, <3>1 DEF EntriesAreRecent
    <3> QED BY <2>3, <2>5, <3>1, <3>2 DEF AtLeastAsRecent
  <2> QED BY <2>6, <2>7
<1>7. ASSUME NEW p \in Poll, QueryUsers(p) PROVE EntriesAreRecent'
  <2> DEFINE f == [u \in {v \in User : counter[v] # None /\ Plain(v)} |-> counter[u]]
  <2>1. stats' = [stats EXCEPT ![p] = f]
    BY <1>0, <1>7, QueryUsersReads
  <2>2. UNCHANGED <<counter, era, quiet, seen>> /\ asof' = [asof EXCEPT ![p] = era]
        /\ recent' = [recent EXCEPT ![p] = quiet] /\ pc' = [pc EXCEPT ![p] = "online"]
    BY <1>7 DEF QueryUsers, xray, history
  <2>3. \A u \in DOMAIN f : u \in User /\ counter[u] # None /\ f[u] = counter[u]
    OBVIOUS
  <2> HIDE DEF f
  <2>4. ASSUME NEW q \in Poll, NEW u \in User, seen[u] # None, Busy(q)', u \in DOMAIN stats'[q],
               seen[u].era = asof'[q], seen[u].bytes = stats'[q][u]
        PROVE  AtLeastAsRecent(u, recent'[q][u])
    <3>1. CASE q = p
      <4>1. stats'[q] = f /\ asof'[q] = era /\ recent'[q] = quiet
        BY <1>0, <2>1, <2>2, <3>1 DEF PollShape, TypeOK
      <4> QED BY <1>0, <2>3, <2>4, <4>1 DEF EntriesAreRecent
    <3>2. CASE q # p
      <4>1. stats'[q] = stats[q] /\ asof'[q] = asof[q] /\ recent'[q] = recent[q] /\ pc'[q] = pc[q]
        BY <1>0, <2>1, <2>2, <3>2 DEF PollShape, TypeOK
      <4> QED BY <1>0, <2>4, <4>1 DEF EntriesAreRecent, Busy
    <3> QED BY <3>1, <3>2
  <2> QED BY <1>0, <2>2, <2>4 DEF EntriesAreRecent, AtLeastAsRecent
<1>8. ASSUME NEW p \in Poll, QueryOnline(p) PROVE EntriesAreRecent'
  <2>1. \A q \in Poll : Busy(q)' => Busy(q)
    BY <1>0, <1>8 DEF QueryOnline, Busy, TypeOK
  <2>2. UNCHANGED <<seen, era, stats, asof, recent, quiet, counter>>
    BY <1>8 DEF QueryOnline, xray, history
  <2> QED BY <1>0, <2>1, <2>2 DEF EntriesAreRecent, AtLeastAsRecent
<1>9. ASSUME NEW p \in Poll, Observe(p) PROVE EntriesAreRecent'
  <2>1. PICK u \in todo[p] : seen' = [seen EXCEPT ![u] = Observed(p, u)]
    BY <1>9 DEF Observe
  <2>2. UNCHANGED <<era, stats, asof, recent, quiet, counter, pc>> /\ Busy(p)
    BY <1>9 DEF Observe, xray, history, Busy
  <2> DEFINE e == Observed(p, u)
  <2>3. u \in User /\ u \in DOMAIN stats[p] /\ stats[p][u] \in Nat
    BY <1>0, <2>1, ObservedIsEntry
  <2>4. \A v \in User : seen'[v] = IF v = u THEN e ELSE seen[v]
    BY <1>0, <2>1, <2>3 DEF TypeOK
  <2>5. /\ e.era = era =>
             /\ counter[u] # None /\ e.bytes <= counter[u]
             /\ e.bytes = counter[u] => e.age <= quiet[u] \/ quiet[u] > Idle
        /\ \A q \in Poll : Busy(q) /\ u \in DOMAIN stats[q]
                           /\ e.era = asof[q] /\ e.bytes = stats[q][u]
                           => e.age <= recent[q][u] \/ recent[q][u] > Idle
    <3>1. CASE e.bytes = stats[p][u] /\ e.era = asof[p] /\ e.age = 0
      <4>1. 0 <= quiet[u] /\ \A q \in Poll : 0 <= recent[q][u]
        BY <1>0, <2>3 DEF TypeOK, Age
      <4>2. e.era = era => counter[u] # None /\ e.bytes <= counter[u]
        BY <1>0, <2>2, <2>3, <3>1 DEF StatsBehindCounter
      <4> HIDE DEF e
      <4> QED BY <3>1, <4>1, <4>2
    <3>2. CASE e.bytes = stats[p][u] /\ e.era = asof[p] /\ stats[p][u] = 0
      <4>1. e.era = era => counter[u] # None /\ e.bytes <= counter[u]
        BY <1>0, <2>2, <2>3, <3>2 DEF StatsBehindCounter
      <4>2. counter[u] = 0 => quiet[u] > Idle
        BY <1>0, <2>3 DEF QuietAtZero
      <4>3. \A q \in Poll : u \in DOMAIN stats[q] /\ stats[q][u] = 0 => recent[q][u] > Idle
        BY <1>0 DEF QuietAtZero
      <4> HIDE DEF e
      <4> QED BY <3>2, <4>1, <4>2, <4>3
    <3>3. CASE e = seen[u] /\ seen[u] # None
      <4> HIDE DEF e
      <4> QED BY <1>0, <2>3, <3>3 DEF EntriesAreRecent, AtLeastAsRecent
    <3>4. \/ e.bytes = stats[p][u] /\ e.era = asof[p] /\ e.age = 0
          \/ e.bytes = stats[p][u] /\ e.era = asof[p] /\ stats[p][u] = 0
          \/ e = seen[u] /\ seen[u] # None
      BY <1>0, <2>1, ObservedIsEntry
    <3> HIDE DEF e
    <3> QED BY <3>1, <3>2, <3>3, <3>4
  <2> HIDE DEF e
  <2> QED BY <1>0, <2>2, <2>4, <2>5 DEF EntriesAreRecent, AtLeastAsRecent, Busy
<1>10. ASSUME NEW p \in Poll, Respond(p) PROVE EntriesAreRecent'
  <2>1. stats' = [stats EXCEPT ![p] = NoStats] /\ asof' = [asof EXCEPT ![p] = 0]
        /\ recent' = [recent EXCEPT ![p] = Longest]
        /\ pc' = [pc EXCEPT ![p] = "idle"] /\ UNCHANGED <<counter, era, quiet, seen>>
    BY <1>10 DEF Respond, xray, history
  <2>2. \A q \in Poll : \/ ~Busy(q)'
                        \/ /\ stats'[q] = stats[q] /\ asof'[q] = asof[q]
                           /\ recent'[q] = recent[q] /\ pc'[q] = pc[q]
    BY <1>0, <2>1 DEF PollShape, TypeOK, Busy
  <2> QED BY <1>0, <2>1, <2>2 DEF EntriesAreRecent, AtLeastAsRecent, Busy
<1> QED BY <1>1, <1>2, <1>3, <1>4, <1>5, <1>6, <1>7, <1>8, <1>9, <1>10
        DEF Next, PollStep, vars, Disconnect, XrayRestart, PanelRestart,
            Zero, ZeroFails, Clear, xray, polls, history

-----------------------------------------------------------------------------
(* Theorems.                                                               *)

\* The tracker, the polls and xray's counters keep to IInv.
THEOREM ActivityInvariant == Spec => []IInv
<1>1. ASSUME Init PROVE IInv
  <2>1. TypeOK /\ PollShape
    BY <1>1, InitTypes
  <2>2. \A p \in Poll : DOMAIN stats[p] = {}
    BY <1>1 DEF Init, NoStats
  <2>3. PastEras /\ MovesAreKnown
    BY <1>1, <2>2, ActivityAssumption DEF Init, PastEras, MovesAreKnown
  <2>4. QuietAtZero /\ StatsBehindCounter /\ EntriesAreRecent
    BY <1>1, <2>2, LongestIsAges DEF Init, QuietAtZero, StatsBehindCounter, EntriesAreRecent
  <2> QED BY <2>1, <2>3, <2>4 DEF IInv
<1>2. ASSUME IInv, [Next]_vars PROVE IInv'
  <2>1. TypeOK /\ PollShape /\ PastEras /\ MovesAreKnown /\ QuietAtZero /\ StatsBehindCounter
    BY <1>2 DEF IInv
  <2> QED BY <1>2, <2>1, TypeStep, ShapeStep, ErasStep, MovesStep, QuietStep,
             StatsBehindStep, EntriesStep DEF IInv
<1> QED BY <1>1, <1>2, PTL DEF Spec

\* The types of ActivityTracker, whatever the users, polls, resets and bounds.
THEOREM ActivityTypeCorrect == Spec => []TypeOK
<1>1. IInv => TypeOK
  BY DEF IInv
<1> QED BY <1>1, ActivityInvariant, PTL

\* After a reset that no poll overlapped, only who moved since counts as
\* active (activity.go:175-177).
THEOREM SlateIsClean == Spec => []CleanSlate
<1>1. IInv => CleanSlate
  BY DEF IInv, MovesAreKnown, CleanSlate
<1> QED BY <1>1, ActivityInvariant, PTL

\* A poll that hides a user does so because the user was idle for the window
\* when the counters were queried, or because the entry is of before the
\* counters were zeroed (activity.go:60-94).
THEOREM OnlyIdleAreHidden == Spec => HiddenIsIdle
<1> DEFINE Hidden(p, u) == /\ pc'[p] = "observe" /\ u \in todo[p] /\ u \notin todo'[p]
                           /\ recent[p][u] <= Idle /\ u \notin show'[p]
<1>1. ASSUME IInv, [Next]_vars, NEW p \in Poll, NEW u \in User, Hidden(p, u)
      PROVE  seen'[u].era # asof[p]
  <2>0. TypeOK /\ PollShape /\ QuietAtZero /\ EntriesAreRecent
    BY <1>1 DEF IInv
  <2>1. Observe(p)
    <3>1. CASE todo' = todo
      BY <1>1, <3>1
    <3>2. CASE PanelRestart
      BY <1>1, <3>2 DEF PanelRestart
    <3>3. ASSUME NEW q \in Poll, QueryOnline(q) PROVE FALSE
      <4>1. todo'[p] = todo[p] \/ todo'[p] = DOMAIN stats[p]
        BY <2>0, <3>3 DEF QueryOnline, PollShape
      <4> QED BY <1>1, <2>0, <4>1 DEF TypeOK
    <3>4. ASSUME NEW q \in Poll, Observe(q) PROVE q = p
      <4>1. q # p => todo'[p] = todo[p]
        BY <2>0, <3>4 DEF Observe, PollShape
      <4> QED BY <1>1, <4>1
    <3> QED BY <1>1, <3>1, <3>2, <3>3, <3>4
            DEF Next, PollStep, vars, Traffic, Connect, Disconnect, XrayRestart, Tick,
                QueryUsers, Respond, Zero, ZeroFails, Clear, polls
  <2>2. seen' = [seen EXCEPT ![u] = Observed(p, u)] /\ ~(seen'[u].age <= Idle)
    <3>1. PICK v \in todo[p] :
            /\ seen' = [seen EXCEPT ![v] = Observed(p, v)]
            /\ todo' = [todo EXCEPT ![p] = @ \ {v}]
            /\ show' = IF seen'[v].age <= Idle THEN [show EXCEPT ![p] = @ \cup {v}] ELSE show
      BY <2>1 DEF Observe
    <3>2. v = u
      BY <1>1, <2>0, <3>1 DEF PollShape
    <3>3. ~(seen'[u].age <= Idle)
      BY <1>1, <2>0, <3>1, <3>2 DEF PollShape
    <3> QED BY <3>1, <3>2, <3>3
  <2>3. seen'[u] = Observed(p, u)
    BY <2>0, <2>2 DEF TypeOK
  <2>4. Observed(p, u).age # 0
    BY <2>2, <2>3, ActivityAssumption
  <2>5. Busy(p) /\ recent[p][u] \in Age /\ Idle \in Nat
    BY <2>0, <2>1, ActivityAssumption DEF Observe, Busy, TypeOK
  <2>6. ~(recent[p][u] > Idle)
    BY <1>1, <2>5 DEF Age
  <2>7. CASE stats[p][u] = 0 /\ u \in DOMAIN stats[p]
    BY <2>0, <2>6, <2>7 DEF QuietAtZero
  <2>8. CASE /\ Observed(p, u) = seen[u] /\ seen[u] # None /\ u \in DOMAIN stats[p]
             /\ seen[u].bytes = stats[p][u]
    <3>1. SUFFICES ASSUME seen[u].era = asof[p] PROVE FALSE
      BY <2>3, <2>8
    <3>2. seen[u].age <= recent[p][u]
      BY <2>0, <2>5, <2>6, <2>8, <3>1 DEF EntriesAreRecent, AtLeastAsRecent
    <3>3. seen[u].age \in Nat
      BY <2>0, <2>5, <2>8 DEF TypeOK, Entry, Age, Never
    <3> QED BY <1>1, <2>2, <2>3, <2>5, <2>8, <3>2, <3>3 DEF Age
  <2>9. u \in todo[p]
    BY <1>1
  <2>10. u \in DOMAIN stats[p]
    BY <2>0, <2>9 DEF TypeOK
  <2>11. \/ Observed(p, u).age = 0 \/ stats[p][u] = 0
         \/ Observed(p, u) = seen[u] /\ seen[u] # None /\ seen[u].bytes = stats[p][u]
    BY <2>0, <2>9, ObservedIsEntry
  <2> QED BY <2>4, <2>7, <2>8, <2>10, <2>11, Zenon
<1>2. IInv /\ [Next]_vars =>
        [\A p \in Poll : \A u \in User : Hidden(p, u) => seen'[u].era # asof[p]]_vars
  BY <1>1
<1> QED BY <1>2, ActivityInvariant, PTL DEF Spec, HiddenIsIdle

-----------------------------------------------------------------------------
(* Theorems about the output (stats.go).                                   *)

\* QueryUsers returns the counters xray has, whatever the users and their
\* numbers, and leaves out the clients whose email is not plain: their bytes
\* are credited to nobody (stats.go:201-255).
THEOREM CountersComeBack ==
  ASSUME NEW T, Alphabet(T), NEW emails \in SUBSET Seq(T), NEW bytes \in SUBSET Int
  PROVE  StatsComeBack(emails, bytes)
<1> SUFFICES ASSUME NEW traffic \in Some(emails, [Directions -> bytes]),
                    NEW w \in {"stat", "statistics"}
             PROVE  ParseStats(PrintStats(w, traffic)) =
      {[email |-> u, uplink |-> traffic[u]["uplink"], downlink |-> traffic[u]["downlink"]] :
         u \in {v \in DOMAIN traffic : Plain(v)}}
  BY Zenon DEF StatsComeBack
<1>1. PICK S \in SUBSET emails : traffic \in [S -> [Directions -> bytes]]
  BY DEF Some
<1>2. IsTraffic(T, traffic)
  BY <1>1 DEF IsTraffic
<1>3. \A x \in {"stat", "statistics"} :
        ParseStats(PrintStats(x, traffic)) =
          {[email |-> u, uplink |-> traffic[u]["uplink"], downlink |-> traffic[u]["downlink"]] :
             u \in {v \in DOMAIN traffic : Plain(v)}}
  BY <1>2, ParsedStats
<1> QED BY <1>3

\* The users and numbers of sessions that come back from every shape, as
\* SessionsComeBack has it for emails that are not plain: a plain user has all
\* of its sessions whoever else is online (stats.go:114-199).
THEOREM SessionsAreRead ==
  ASSUME NEW T, Alphabet(T), NEW emails \in SUBSET (Seq(T) \ {<<>>}), IsFiniteSet(emails),
         NEW numbers \in SUBSET (Nat \ {0})
  PROVE  SessionsComeBack(emails, numbers)
<1> DEFINE Parsed(shape, sessions) == ParseOnline(PrintOnline(shape, sessions))
           Right(shape, sessions) ==
             CASE shape = "flat" /\ DOMAIN sessions = {<<"users">>} -> Parsed(shape, sessions) = Failed
               [] shape = "strings" /\ (\E u \in DOMAIN sessions : ~Plain(u)) ->
                    /\ Parsed(shape, sessions).ok
                    /\ \A u \in DOMAIN sessions : Plain(u) =>
                         \E r \in Parsed(shape, sessions).users : r.email = u /\ r.sessions >= sessions[u]
               [] OTHER -> Parsed(shape, sessions) =
                             Online({[email |-> u, sessions |-> sessions[u]] : u \in DOMAIN sessions})
<1> SUFFICES ASSUME NEW sessions \in Some(emails, numbers), NEW shape \in Shapes
             PROVE  Right(shape, sessions)
  BY Zenon DEF SessionsComeBack
<1>1. PICK S \in SUBSET emails : sessions \in [S -> numbers]
  BY DEF Some
<1>2. IsSessions(T, sessions)
  <2>1. DOMAIN sessions = S /\ IsFiniteSet(S)
    BY <1>1, FS_Subset
  <2> QED BY <1>1, <2>1 DEF IsSessions
<1>3. <<>> \notin DOMAIN sessions
  BY <1>2 DEF IsSessions
<1>4. Back(sessions) = {[email |-> u, sessions |-> sessions[u]] : u \in DOMAIN sessions}
  BY DEF Back
<1>5. CASE shape = "flat"
  <2>1. Parsed("flat", sessions) = IF DOMAIN sessions = {<<"users">>} THEN Failed ELSE Online(Back(sessions))
    BY FlatIsRead
  <2> HIDE DEF Parsed
  <2> QED BY <1>4, <1>5, <2>1
<1>6. CASE shape = "object"
  <2>1. Parsed("object", sessions) = Online(Back(sessions))
    BY ObjectIsRead
  <2> HIDE DEF Parsed
  <2> QED BY <1>4, <1>6, <2>1
<1>7. CASE shape = "rows"
  <2>1. Parsed("rows", sessions) = Online(Back(sessions))
    BY <1>3, RowsAreRead
  <2> HIDE DEF Parsed
  <2> QED BY <1>4, <1>7, <2>1
<1>8. CASE shape = "strings"
  <2>1. Parsed("strings", sessions) = Online(Counted(sessions))
    BY StringsAreRead
  <2>2. CASE \A u \in DOMAIN sessions : Plain(u)
    <3>1. Counted(sessions) = Back(sessions)
      BY <1>2, <2>2, AllPlain
    <3> HIDE DEF Parsed
    <3> QED BY <1>4, <1>8, <2>1, <2>2, <3>1
  <2>3. CASE \E u \in DOMAIN sessions : ~Plain(u)
    <3>1. \A v \in DOMAIN sessions : Plain(v) =>
            \E r \in Counted(sessions) : r.email = v /\ r.sessions >= sessions[v]
      BY <1>2, PlainSessionsCount
    <3>2. Online(Counted(sessions)).ok /\ Online(Counted(sessions)).users = Counted(sessions)
      BY DEF Online
    <3> HIDE DEF Parsed
    <3> QED BY <1>8, <2>1, <2>3, <3>1, <3>2
  <2> QED BY <2>2, <2>3
<1> QED BY <1>5, <1>6, <1>7, <1>8 DEF Shapes

\* What the run of the small instance checks of the output.
THEOREM OutputIsUnderstood == Spec => []OutputParses
<1> DEFINE T == {">", "user", "traffic", "online", "uplink", "downlink", "alice", "bob", "users"}
<1>0. Alphabet(T)
  BY DEF Alphabet
<1>1. \A u \in Emails : u \in Seq(T) \ {<<>>}
  <2>1. ASSUME NEW n \in 1..2, NEW u \in [1..n -> {"alice", ">"}] PROVE u \in Seq(T) \ {<<>>}
    <3>1. u \in [1..n -> T] /\ n \in Nat
      OBVIOUS
    <3>2. u \in Seq(T) /\ DOMAIN u = 1..n
      <4> HIDE DEF T
      <4> QED BY <3>1, SeqDef
    <3>3. DOMAIN <<>> = {} /\ 1 \in 1..n
      OBVIOUS
    <3> HIDE DEF T
    <3> QED BY <3>2, <3>3
  <2>2. ">" \in T /\ "alice" \in T /\ "bob" \in T /\ "users" \in T /\ "traffic" \in T
    OBVIOUS
  <2> HIDE DEF T
  <2>3. Sep \in Seq(T) /\ Len(Sep) = 3
    BY <2>2 DEF Sep
  <2>4. /\ Sep # <<>>
        /\ <<"alice", ">", ">">> \in Seq(T) \ {<<>>} /\ <<"users">> \in Seq(T) \ {<<>>}
    BY <2>2 DEF Sep
  <2>5. <<"alice">> \o Sep \in Seq(T) /\ Len(<<"alice">> \o Sep) = 4
    <3>1. <<"alice">> \in Seq(T) /\ Len(<<"alice">>) = 1
      BY <2>2
    <3>2. \A x, y \in Seq(T) : x \o y \in Seq(T) /\ Len(x \o y) = Len(x) + Len(y)
      OBVIOUS
    <3>3. <<"alice">> \o Sep \in Seq(T) /\ Len(<<"alice">> \o Sep) = Len(<<"alice">>) + Len(Sep)
      BY <2>3, <3>1, <3>2
    <3>4. Len(<<"alice">>) + Len(Sep) = 4
      BY <2>3, <3>1
    <3> QED BY <3>3, <3>4
  <2>6. ASSUME NEW x \in Seq(T), NEW t \in T PROVE x \o <<t>> \in Seq(T) \ {<<>>}
    <3>1. x \o <<t>> \in Seq(T) /\ Len(x \o <<t>>) = Len(x) + 1 /\ Len(x) \in Nat
      OBVIOUS
    <3> QED BY <3>1
  <2>7. /\ <<"alice">> \o Sep \o <<"bob">> \in Seq(T) \ {<<>>}
        /\ <<"alice">> \o Sep \o <<"traffic">> \in Seq(T) \ {<<>>}
    BY <2>2, <2>5, <2>6
  <2>8. <<"alice">> \o Sep # <<>>
    BY <2>5
  <2>9. ASSUME NEW u \in Emails PROVE u \in Seq(T) \ {<<>>}
    <3>1. CASE u \in ShortEmails
      <4>1. \A n \in 1..2 : [1..n -> {"alice", ">"}] \subseteq Seq(T) \ {<<>>}
        BY <2>1
      <4> QED BY <3>1, <4>1 DEF ShortEmails
    <3>2. CASE u \notin ShortEmails
      <4>1. u \in {Sep, <<"alice", ">", ">">>, <<"alice">> \o Sep, <<"alice">> \o Sep \o <<"bob">>,
                    <<"users">>, <<"alice">> \o Sep \o <<"traffic">>}
        BY <2>9, <3>2 DEF Emails
      <4> QED BY <2>3, <2>4, <2>5, <2>7, <2>8, <4>1
    <3> QED BY <3>1, <3>2
  <2> QED BY <2>9
<1> HIDE DEF T
<1>2. ASSUME NEW pair \in Pairs
      PROVE  pair \in SUBSET (Seq(T) \ {<<>>}) /\ pair \in SUBSET Seq(T) /\ IsFiniteSet(pair)
  <2>1. PICK u \in Emails, v \in Emails : pair = {u, v}
    BY DEF Pairs
  <2>2. IsFiniteSet({u, v})
    <3>1. IsFiniteSet({u}) /\ IsFiniteSet({v})
      BY FS_Singleton
    <3>2. IsFiniteSet({u} \cup {v}) /\ {u} \cup {v} = {u, v}
      BY <3>1, FS_Union
    <3> QED BY <3>2
  <2> QED BY <1>1, <2>1, <2>2
<1>3. 0..1 \in SUBSET Int /\ 1..2 \in SUBSET (Nat \ {0})
  OBVIOUS
<1>4. CountersParse
  <2> SUFFICES ASSUME NEW pair \in Pairs PROVE StatsComeBack(pair, 0..1)
    BY DEF CountersParse
  <2> QED BY <1>0, <1>2, <1>3, CountersComeBack
<1>5. SessionsParse
  <2> SUFFICES ASSUME NEW pair \in Pairs PROVE SessionsComeBack(pair, 1..2)
    BY DEF SessionsParse
  <2> QED BY <1>0, <1>2, <1>3, SessionsAreRead
<1>6. OutputParses
  BY <1>4, <1>5 DEF OutputParses
<1> QED BY <1>6, PTL

=============================================================================
