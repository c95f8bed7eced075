---------------------------- MODULE LogTailProofs ----------------------------
(***************************************************************************)
(* What LogTail promises, for lines of any width, any number of lines, of  *)
(* removals and truncations, and snapshots of any budget.                  *)
(*                                                                         *)
(* Split is a fold.  It is unfolded first, by induction over the length of *)
(* what is split (Induction, from the well-foundedness of < on Nat), into  *)
(* its steps: SplitEmpty and SplitAppend.  By induction over these follow  *)
(* that splitting in two goes is splitting at once (SplitConcat), that     *)
(* what is carried into a read reaches its first line only (SplitCarried)  *)
(* and that reading on keeps the order (SplitOrdered).  The rest are       *)
(* invariants of Follow: where its cursor is in the file.                  *)
(***************************************************************************)
EXTENDS LogTail, Integers, SequenceTheorems, WellFoundedInduction, TLAPS

\* Induction over the numbers, as a fact about sets.
LEMMA Induction ==
  ASSUME NEW S, 0 \in S, \A n \in Nat : n \in S => n + 1 \in S
  PROVE  Nat \subseteq S
<1> DEFINE T == Nat \ S
           R == OpToRel(<, Nat)
<1>1. SUFFICES ASSUME T # {} PROVE FALSE
  OBVIOUS
<1>2. IsWellFoundedOn(R, Nat)
  BY NatLessThanWellFounded
<1>3. T \subseteq Nat
  OBVIOUS
<1>4. PICK x \in T : \A y \in T : ~(<<y, x>> \in R)
  <2> HIDE DEF T, R
  <2> QED BY <1>1, <1>2, <1>3, WFMin
<1>5. \A y \in Nat : y < x => <<y, x>> \in R
  BY DEF OpToRel
<1>6. x # 0
  OBVIOUS
<1>7. x - 1 \in Nat /\ x - 1 < x /\ (x - 1) + 1 = x
  BY <1>6
<1>8. x - 1 \in S
  <2> HIDE DEF R
  <2> QED BY <1>4, <1>5, <1>7
<1> QED BY <1>7, <1>8

-----------------------------------------------------------------------------
(* Split, unfolded.                                                        *)

\* g folds Feed over the positions in D of s, from the last to the first.
Folds(g, base, s, D) ==
  g = [S \in SUBSET D |-> IF S = {} THEN base ELSE Feed(g[S \ {Max(S)}], s[Max(S)])]

\* The last of the first n + 1 positions is the greatest, in any set it is in.
LEMMA MaxOfPrefix ==
  ASSUME NEW n \in Nat, NEW S \in SUBSET (1..(n + 1)), n + 1 \in S
  PROVE  Max(S) = n + 1
<1>1. \A y \in S : n + 1 >= y
  OBVIOUS
<1>2. \A x \in S : (\A y \in S : x >= y) => x = n + 1
  OBVIOUS
<1> QED BY <1>1, <1>2 DEF Max

\* There is such a fold over the first n positions.
LEMMA FoldsExists ==
  ASSUME NEW base, NEW s, NEW n \in Nat
  PROVE  \E g : Folds(g, base, s, 1..n)
<1> DEFINE T == {m \in Nat : \E g : Folds(g, base, s, 1..m)}
<1>1. 0 \in T
  <2> DEFINE h == [S \in SUBSET (1..0) |-> base]
  <2>1. \A S \in SUBSET (1..0) : S = {}
    OBVIOUS
  <2>2. Folds(h, base, s, 1..0)
    BY <2>1, Zenon DEF Folds
  <2> QED BY <2>2
<1>2. ASSUME NEW m \in Nat, m \in T PROVE m + 1 \in T
  <2>1. PICK g : Folds(g, base, s, 1..m)
    BY <1>2
  <2> DEFINE h == [S \in SUBSET (1..(m + 1)) |->
                   IF m + 1 \in S THEN Feed(g[S \ {m + 1}], s[m + 1]) ELSE g[S]]
  <2>2. ASSUME NEW S \in SUBSET (1..(m + 1))
        PROVE  h[S] = IF S = {} THEN base ELSE Feed(h[S \ {Max(S)}], s[Max(S)])
    <3>1. CASE m + 1 \in S
      <4>1. Max(S) = m + 1
        BY <3>1, MaxOfPrefix
      <4>2. S \ {m + 1} \in SUBSET (1..(m + 1)) /\ m + 1 \notin S \ {m + 1}
        OBVIOUS
      <4>3. h[S \ {m + 1}] = g[S \ {m + 1}]
        BY <4>2, Zenon
      <4>4. h[S] = Feed(g[S \ {m + 1}], s[m + 1])
        BY <3>1, Zenon
      <4> HIDE DEF h
      <4> QED BY <3>1, <4>1, <4>3, <4>4, Zenon
    <3>2. CASE m + 1 \notin S
      <4>0. \A x \in 1..(m + 1) : x # m + 1 => x \in 1..m
        OBVIOUS
      <4>1. S \in SUBSET (1..m) /\ S \ {Max(S)} \in SUBSET (1..(m + 1)) /\ S \ {Max(S)} \in SUBSET (1..m)
        BY <3>2, <4>0, Zenon
      <4>2. h[S] = g[S] /\ h[S \ {Max(S)}] = g[S \ {Max(S)}]
        BY <3>2, <4>1, Zenon
      <4>3. g[S] = IF S = {} THEN base ELSE Feed(g[S \ {Max(S)}], s[Max(S)])
        BY <2>1, <4>1, Zenon DEF Folds
      <4> HIDE DEF h
      <4> QED BY <4>2, <4>3, Zenon
    <3> QED BY <3>1, <3>2
  <2>3. Folds(h, base, s, 1..(m + 1))
    <3> DEFINE k == [S \in SUBSET (1..(m + 1)) |->
                     IF S = {} THEN base ELSE Feed(h[S \ {Max(S)}], s[Max(S)])]
    <3>1. h = [S \in SUBSET (1..(m + 1)) |-> h[S]]
      OBVIOUS
    <3>2. [S \in SUBSET (1..(m + 1)) |-> h[S]] = k
      <4> HIDE DEF h
      <4> QED BY <2>2, Zenon
    <3> HIDE DEF h
    <3> QED BY <3>1, <3>2, Zenon DEF Folds
  <2> QED BY <2>3
<1> HIDE DEF T
<1>3. Nat \subseteq T
  BY <1>1, <1>2, Induction
<1> QED BY <1>3 DEF T

\* Split is what such a fold has for all positions.
LEMMA SplitFolds ==
  ASSUME NEW S, NEW s \in Seq(S), NEW p
  PROVE  \E g : /\ Folds(g, [lines |-> <<>>, carry |-> p], s, 1..Len(s))
                /\ Split(p, s) = g[1..Len(s)]
<1> DEFINE base == [lines |-> <<>>, carry |-> p]
           It(g) == g = [z \in SUBSET DOMAIN s |->
                     IF z = {} THEN base ELSE Feed(g[z \ {Max(z)}], s[Max(z)])]
<1>1. DOMAIN s = 1..Len(s) /\ Len(s) \in Nat
  OBVIOUS
<1>2. \E g : It(g)
  <2>1. \E g : Folds(g, base, s, 1..Len(s))
    <3> HIDE DEF base
    <3> QED BY <1>1, FoldsExists
  <2> QED BY <1>1, <2>1, Zenon DEF Folds
<1>3. It(CHOOSE g : It(g))
  BY <1>2, Zenon
<1>4. Split(p, s) = (CHOOSE g : It(g))[DOMAIN s]
  BY Zenon DEF Split, FoldLeft, MapThenFoldSet
<1> HIDE DEF It
<1>5. Folds(CHOOSE g : It(g), base, s, 1..Len(s))
  BY <1>1, <1>3, Zenon DEF Folds, It
<1> QED BY <1>1, <1>4, <1>5, Zenon

\* A fold begins with its base,
LEMMA FoldsEmpty ==
  ASSUME NEW base, NEW s, NEW n \in Nat, NEW g, Folds(g, base, s, 1..n)
  PROVE  g[1..0] = base
<1>1. 1..0 = {} /\ 1..0 \in SUBSET (1..n)
  OBVIOUS
<1> QED BY <1>1, Zenon DEF Folds

\* and goes on by one Feed per position.
LEMMA FoldsStep ==
  ASSUME NEW base, NEW s, NEW n \in Nat, NEW g, Folds(g, base, s, 1..n),
         NEW k \in Nat, k + 1 <= n
  PROVE  g[1..(k + 1)] = Feed(g[1..k], s[k + 1])
<1>1. 1..(k + 1) \in SUBSET (1..n) /\ 1..(k + 1) # {} /\ (1..(k + 1)) \ {k + 1} = 1..k
      /\ k + 1 \in 1..(k + 1)
  OBVIOUS
<1>2. Max(1..(k + 1)) = k + 1
  BY <1>1, MaxOfPrefix
<1> QED BY <1>1, <1>2, Zenon DEF Folds

\* The last Feed of a fold.
LEMMA FoldsLast ==
  ASSUME NEW base, NEW s, NEW k \in Nat, NEW g, Folds(g, base, s, 1..(k + 1))
  PROVE  g[1..(k + 1)] = Feed(g[1..k], s[k + 1])
<1>1. 1..(k + 1) \in SUBSET (1..(k + 1)) /\ 1..(k + 1) # {} /\ (1..(k + 1)) \ {k + 1} = 1..k
      /\ k + 1 \in 1..(k + 1)
  OBVIOUS
<1>2. Max(1..(k + 1)) = k + 1
  BY <1>1, MaxOfPrefix
<1> QED BY <1>1, <1>2, Zenon DEF Folds

\* Nothing to read leaves what was carried.
LEMMA SplitEmpty ==
  ASSUME NEW p
  PROVE  Split(p, <<>>) = [lines |-> <<>>, carry |-> p]
<1> DEFINE base == [lines |-> <<>>, carry |-> p]
<1>1. <<>> \in Seq({}) /\ Len(<<>>) = 0
  OBVIOUS
<1>2. PICK g : Folds(g, base, <<>>, 1..0) /\ Split(p, <<>>) = g[1..0]
  BY <1>1, SplitFolds
<1> HIDE DEF base
<1>3. Split(p, <<>>) = base
  BY <1>2, FoldsEmpty
<1> QED BY <1>3 DEF base

\* One more character is one more Feed.
LEMMA SplitAppend ==
  ASSUME NEW S, NEW s \in Seq(S), NEW c \in S, NEW p
  PROVE  Split(p, Append(s, c)) = Feed(Split(p, s), c)
<1> DEFINE base == [lines |-> <<>>, carry |-> p]
           t == Append(s, c)
           n == Len(s)
<1>1. t \in Seq(S) /\ Len(t) = n + 1 /\ n \in Nat
      /\ (\A i \in 1..n : t[i] = s[i]) /\ t[n + 1] = c
  OBVIOUS
<1>2. PICK g : Folds(g, base, s, 1..n) /\ Split(p, s) = g[1..n]
  BY SplitFolds
<1>3. PICK h : Folds(h, base, t, 1..(n + 1)) /\ Split(p, t) = h[1..(n + 1)]
  BY <1>1, SplitFolds
<1> HIDE DEF base, t, n
<1> DEFINE T == {k \in Nat : k <= n => h[1..k] = g[1..k]}
<1>4. n \in Nat /\ n + 1 \in Nat
  BY <1>1
<1>5. g[1..0] = base /\ h[1..0] = base
  BY <1>2, <1>3, <1>4, FoldsEmpty
<1>6. 0 \in T
  BY <1>5
<1>7. ASSUME NEW k \in Nat, k \in T PROVE k + 1 \in T
  <2>1. SUFFICES ASSUME k + 1 <= n PROVE h[1..(k + 1)] = g[1..(k + 1)]
    OBVIOUS
  <2>2. k + 1 <= n + 1 /\ k + 1 \in 1..n /\ h[1..k] = g[1..k]
    BY <1>4, <1>7, <2>1
  <2>3. t[k + 1] = s[k + 1]
    BY <1>1, <2>2
  <2>4. g[1..(k + 1)] = Feed(g[1..k], s[k + 1])
    BY <1>2, <1>4, <2>1, FoldsStep
  <2>5. h[1..(k + 1)] = Feed(h[1..k], t[k + 1])
    BY <1>3, <1>4, <2>2, FoldsStep
  <2> QED BY <2>2, <2>3, <2>4, <2>5, Zenon
<1> HIDE DEF T
<1>8. Nat \subseteq T
  BY <1>6, <1>7, Induction
<1>9. h[1..n] = g[1..n]
  BY <1>1, <1>8 DEF T
<1>10. h[1..(n + 1)] = Feed(h[1..n], t[n + 1])
  BY <1>3, <1>4, FoldsLast
<1> QED BY <1>1, <1>2, <1>3, <1>9, <1>10, Zenon DEF t

-----------------------------------------------------------------------------
(* What Split computes.                                                    *)

\* The lines found so far and the rest.
Acc(C) == [lines : Seq(Seq(C)), carry : Seq(C)]

\* Feed ends a line or lengthens the rest.
LEMMA FeedSimple ==
  ASSUME NEW C, NEW acc \in Acc(C), NEW c \in C
  PROVE  /\ Feed(acc, c) \in Acc(C)
         /\ Feed(acc, c) = IF c.part = Width
                           THEN [lines |-> Append(acc.lines, acc.carry), carry |-> <<>>]
                           ELSE [lines |-> acc.lines, carry |-> Append(acc.carry, c)]
<1>1. acc.lines \in Seq(Seq(C)) /\ acc.carry \in Seq(C)
      /\ acc = [lines |-> acc.lines, carry |-> acc.carry]
  BY DEF Acc
<1>2. [acc EXCEPT !.carry = Append(@, c)] = [lines |-> acc.lines, carry |-> Append(acc.carry, c)]
  <2> DEFINE l == acc.lines
             r == acc.carry
  <2>1. acc = [lines |-> l, carry |-> r]
    BY <1>1
  <2> HIDE DEF l, r
  <2>2. [[lines |-> l, carry |-> r] EXCEPT !.carry = Append(r, c)] = [lines |-> l, carry |-> Append(r, c)]
    OBVIOUS
  <2>3. acc.carry = r /\ acc.lines = l
    BY DEF l, r
  <2> QED BY <2>1, <2>2, <2>3, Zenon
<1>3. Feed(acc, c) = IF c.part = Width
                     THEN [lines |-> Append(acc.lines, acc.carry), carry |-> <<>>]
                     ELSE [lines |-> acc.lines, carry |-> Append(acc.carry, c)]
  BY <1>2 DEF Feed
<1>4. /\ Append(acc.lines, acc.carry) \in Seq(Seq(C)) /\ <<>> \in Seq(C)
      /\ Append(acc.carry, c) \in Seq(C)
  BY <1>1
<1> QED BY <1>1, <1>3, <1>4 DEF Acc

\* Splitting characters yields lines and a rest of characters.
LEMMA SplitType ==
  ASSUME NEW C, NEW p \in Seq(C), NEW s \in Seq(C)
  PROVE  Split(p, s) \in Acc(C)
<1> DEFINE T == {n \in Nat : \A t \in Seq(C) : Len(t) = n => Split(p, t) \in Acc(C)}
<1>1. 0 \in T
  <2>1. \A t \in Seq(C) : Len(t) = 0 => t = <<>>
    OBVIOUS
  <2>2. Split(p, <<>>) \in Acc(C)
    <3>1. <<>> \in Seq(Seq(C))
      OBVIOUS
    <3>2. Split(p, <<>>) = [lines |-> <<>>, carry |-> p]
      BY SplitEmpty
    <3>3. [lines |-> <<>>, carry |-> p] \in Acc(C)
      BY <3>1 DEF Acc
    <3> QED BY <3>2, <3>3
  <2> QED BY <2>1, <2>2
<1>2. ASSUME NEW n \in Nat, n \in T PROVE n + 1 \in T
  <2> SUFFICES ASSUME NEW t \in Seq(C), Len(t) = n + 1 PROVE Split(p, t) \in Acc(C)
    OBVIOUS
  <2>1. PICK u \in Seq(C), c \in C : t = Append(u, c)
    <3>1. t # <<>>
      OBVIOUS
    <3> QED BY <3>1, SequenceEmptyOrAppend
  <2>2. Len(u) = n
    BY <2>1
  <2>3. Split(p, u) \in Acc(C)
    BY <1>2, <2>2
  <2>4. Split(p, t) = Feed(Split(p, u), c)
    BY <2>1, SplitAppend
  <2> QED BY <2>3, <2>4, FeedSimple
<1> HIDE DEF T
<1>3. Nat \subseteq T
  BY <1>1, <1>2, Induction
<1> QED BY <1>3 DEF T

\* Appending to the second of two lists is appending to both.
LEMMA ConcatAppend ==
  ASSUME NEW S, NEW s \in Seq(S), NEW t \in Seq(S), NEW c \in S
  PROVE  s \o Append(t, c) = Append(s \o t, c)
OBVIOUS

\* Appending makes a list longer by one.
LEMMA LenAppend ==
  ASSUME NEW S, NEW s \in Seq(S), NEW c \in S
  PROVE  Len(Append(s, c)) = Len(s) + 1 /\ Append(s, c) # <<>>
BY AppendProperties

\* Concatenation under a name, where a lemma about it is applied: the provers
\* take \o apart, and then do not recognise the lemma.
Cat(s, t) == s \o t

\* Concatenation is associative.
LEMMA CatAssociative ==
  ASSUME NEW S, NEW s \in Seq(S), NEW t \in Seq(S), NEW u \in Seq(S)
  PROVE  Cat(Cat(s, t), u) = Cat(s, Cat(t, u))
BY DEF Cat

\* Reading in two goes, with what is left over in between, is reading at once.
LEMMA SplitConcat ==
  ASSUME NEW C, NEW p \in Seq(C), NEW a \in Seq(C), NEW b \in Seq(C)
  PROVE  Split(p, Cat(a, b)) = [lines |-> Cat(Split(p, a).lines, Split(Split(p, a).carry, b).lines),
                              carry |-> Split(Split(p, a).carry, b).carry]
<1> DEFINE l == Split(p, a).lines
           r == Split(p, a).carry
           Glued(t) == [lines |-> l \o Split(r, t).lines, carry |-> Split(r, t).carry]
           T == {n \in Nat : \A t \in Seq(C) : Len(t) = n => Split(p, a \o t) = Glued(t)}
<1>0. Split(p, a) \in Acc(C) /\ Split(p, a) = [lines |-> l, carry |-> r]
      /\ l \in Seq(Seq(C)) /\ r \in Seq(C)
  BY SplitType DEF Acc
<1> HIDE DEF l, r
<1>1. 0 \in T
  <2>1. \A t \in Seq(C) : Len(t) = 0 => t = <<>>
    OBVIOUS
  <2>2. Split(r, <<>>) = [lines |-> <<>>, carry |-> r]
    BY SplitEmpty
  <2>3. a \o <<>> = a /\ l \o <<>> = l
    BY <1>0
  <2>4. Split(r, <<>>).lines = <<>> /\ Split(r, <<>>).carry = r
    BY <2>2
  <2>5. Split(p, a \o <<>>) = Glued(<<>>)
    BY <1>0, <2>3, <2>4, Zenon
  <2> QED BY <2>1, <2>5
<1>2. ASSUME NEW n \in Nat, n \in T PROVE n + 1 \in T
  <2> SUFFICES ASSUME NEW t \in Seq(C), Len(t) = n + 1 PROVE Split(p, a \o t) = Glued(t)
    OBVIOUS
  <2>1. PICK u \in Seq(C), c \in C : t = Append(u, c)
    <3>1. t # <<>>
      OBVIOUS
    <3> QED BY <3>1, SequenceEmptyOrAppend
  <2>2. Len(u) = n
    BY <2>1
  <2>3. Split(p, a \o u) = Glued(u)
    BY <1>2, <2>2
  <2>4. a \o t = Append(a \o u, c) /\ a \o u \in Seq(C)
    BY <2>1
  <2>5. Split(p, a \o t) = Feed(Split(p, a \o u), c) /\ Split(r, t) = Feed(Split(r, u), c)
    BY <2>1, <2>4, SplitAppend
  <2> DEFINE x == Split(r, u)
             y == Split(p, a \o u)
  <2>6. x \in Acc(C) /\ y \in Acc(C) /\ x.lines \in Seq(Seq(C)) /\ x.carry \in Seq(C)
    BY <1>0, <2>4, SplitType DEF Acc
  <2>7. y.lines = l \o x.lines /\ y.carry = x.carry
    BY <2>3
  <2> HIDE DEF x, y, T, l, r
  <2>8. Feed(y, c) = [lines |-> l \o Feed(x, c).lines, carry |-> Feed(x, c).carry]
    <3>1. CASE c.part = Width
      <4>1. Feed(x, c) = [lines |-> Append(x.lines, x.carry), carry |-> <<>>]
            /\ Feed(y, c) = [lines |-> Append(y.lines, y.carry), carry |-> <<>>]
        BY <2>6, <3>1, FeedSimple, Zenon
      <4>2. Append(l \o x.lines, x.carry) = l \o Append(x.lines, x.carry)
        <5> DEFINE q == x.lines
                   z == x.carry
                   D == Seq(C)
        <5>1. q \in Seq(D) /\ z \in D /\ l \in Seq(D)
          BY <1>0, <2>6
        <5> HIDE DEF q, z, D
        <5>2. l \o Append(q, z) = Append(l \o q, z)
          BY <5>1, ConcatAppend
        <5> QED BY <5>2 DEF q, z
      <4>3. Feed(x, c).lines = Append(x.lines, x.carry) /\ Feed(x, c).carry = <<>>
        BY <4>1
      <4> QED BY <2>7, <4>1, <4>2, <4>3, Zenon
    <3>2. CASE c.part # Width
      <4>1. Feed(x, c) = [lines |-> x.lines, carry |-> Append(x.carry, c)]
            /\ Feed(y, c) = [lines |-> y.lines, carry |-> Append(y.carry, c)]
        BY <2>6, <3>2, FeedSimple, Zenon
      <4>3. Feed(x, c).lines = x.lines /\ Feed(x, c).carry = Append(x.carry, c)
        BY <4>1
      <4> QED BY <2>7, <4>1, <4>3, Zenon
    <3> QED BY <3>1, <3>2
  <2> QED BY <2>5, <2>8, Zenon DEF x, y
<1> HIDE DEF T
<1>3. Nat \subseteq T
  BY <1>1, <1>2, Induction
<1>4. Len(b) \in T
  BY <1>3
<1> QED BY <1>4 DEF T, l, r, Cat

\* What is carried into a read is at the front of its first line, or of its
\* rest if there is none, and nowhere else.
LEMMA SplitCarried ==
  ASSUME NEW C, NEW p \in Seq(C), NEW b \in Seq(C)
  PROVE  /\ Len(Split(p, b).lines) = Len(Split(<<>>, b).lines)
         /\ Split(<<>>, b).lines = <<>> => Split(p, b).carry = p \o Split(<<>>, b).carry
         /\ Split(<<>>, b).lines # <<>> => /\ Split(p, b).carry = Split(<<>>, b).carry
                                          /\ Tail(Split(p, b).lines) = Tail(Split(<<>>, b).lines)
<1> DEFINE Alike(x, y) ==
      /\ Len(x.lines) = Len(y.lines)
      /\ y.lines = <<>> => x.carry = p \o y.carry
      /\ y.lines # <<>> => x.carry = y.carry /\ Tail(x.lines) = Tail(y.lines)
<1> DEFINE T == {n \in Nat : \A t \in Seq(C) : Len(t) = n => Alike(Split(p, t), Split(<<>>, t))}
<1>0. <<>> \in Seq(C)
  OBVIOUS
<1>1. 0 \in T
  <2>1. \A t \in Seq(C) : Len(t) = 0 => t = <<>>
    OBVIOUS
  <2>2. Split(p, <<>>) = [lines |-> <<>>, carry |-> p] /\ Split(<<>>, <<>>) = [lines |-> <<>>, carry |-> <<>>]
    BY SplitEmpty
  <2>3. p \o <<>> = p
    OBVIOUS
  <2>4. Alike(Split(p, <<>>), Split(<<>>, <<>>))
    BY <2>2, <2>3
  <2> QED BY <2>1, <2>4
<1>2. ASSUME NEW n \in Nat, n \in T PROVE n + 1 \in T
  <2> SUFFICES ASSUME NEW t \in Seq(C), Len(t) = n + 1 PROVE Alike(Split(p, t), Split(<<>>, t))
    OBVIOUS
  <2>1. PICK u \in Seq(C), c \in C : t = Append(u, c)
    <3>1. t # <<>>
      OBVIOUS
    <3> QED BY <3>1, SequenceEmptyOrAppend
  <2>2. Len(u) = n
    BY <2>1
  <2> DEFINE x == Split(p, u)
             y == Split(<<>>, u)
  <2>3. Alike(x, y)
    BY <1>2, <2>2
  <2>5. Split(p, t) = Feed(x, c) /\ Split(<<>>, t) = Feed(y, c)
    BY <2>1, SplitAppend
  <2>6. /\ x \in Acc(C) /\ x.lines \in Seq(Seq(C)) /\ x.carry \in Seq(C)
        /\ y \in Acc(C) /\ y.lines \in Seq(Seq(C)) /\ y.carry \in Seq(C)
    BY <1>0, SplitType DEF Acc
  <2> HIDE DEF x, y, T
  <2>8. Alike(Feed(x, c), Feed(y, c))
    <3>1. CASE c.part = Width
      <4> DEFINE fx == Append(x.lines, x.carry)
                 fy == Append(y.lines, y.carry)
      <4>1. Feed(x, c) = [lines |-> fx, carry |-> <<>>] /\ Feed(y, c) = [lines |-> fy, carry |-> <<>>]
        BY <2>6, <3>1, FeedSimple, Zenon
      <4>2. Len(fx) = Len(fy) /\ fy # <<>>
        <5>1. Len(fx) = Len(x.lines) + 1 /\ Len(fy) = Len(y.lines) + 1 /\ fy # <<>>
          <6> DEFINE D == Seq(C)
                     q == x.lines
                     z == x.carry
                     v == y.lines
                     w == y.carry
          <6>1. q \in Seq(D) /\ z \in D /\ v \in Seq(D) /\ w \in D
            BY <2>6
          <6> HIDE DEF D, q, z, v, w
          <6>2. Len(Append(q, z)) = Len(q) + 1 /\ Len(Append(v, w)) = Len(v) + 1
            BY <6>1, LenAppend
          <6>3. Append(v, w) # <<>>
            BY <6>1, LenAppend
          <6> QED BY <6>2, <6>3 DEF q, z, v, w
        <5>2. Len(x.lines) = Len(y.lines)
          BY <2>3
        <5> HIDE DEF fx, fy
        <5> QED BY <5>1, <5>2
      <4>3. Tail(fx) = Tail(fy)
        <5>1. CASE y.lines = <<>>
          <6>1. x.lines = <<>>
            <7>1. Len(x.lines) = Len(y.lines) /\ Len(y.lines) = 0
              BY <2>3, <5>1
            <7> QED BY <2>6, <7>1
          <6> QED BY <2>6, <5>1, <6>1
        <5>2. CASE y.lines # <<>>
          <6>1. x.lines # <<>>
            <7>1. Len(x.lines) = Len(y.lines) /\ Len(y.lines) # 0
              BY <2>3, <2>6, <5>2
            <7> QED BY <2>6, <7>1
          <6>2. Tail(fx) = Append(Tail(x.lines), x.carry) /\ Tail(fy) = Append(Tail(y.lines), y.carry)
            BY <2>6, <5>2, <6>1, HeadTailAppend
          <6>3. x.carry = y.carry /\ Tail(x.lines) = Tail(y.lines)
            BY <2>3, <5>2
          <6> QED BY <6>2, <6>3, Zenon
        <5> QED BY <5>1, <5>2
      <4> HIDE DEF fx, fy
      <4> QED BY <4>1, <4>2, <4>3
    <3>2. CASE c.part # Width
      <4>1. Feed(x, c) = [lines |-> x.lines, carry |-> Append(x.carry, c)]
            /\ Feed(y, c) = [lines |-> y.lines, carry |-> Append(y.carry, c)]
        BY <2>6, <3>2, FeedSimple, Zenon
      <4>2. x.carry = p \o y.carry => Append(x.carry, c) = p \o Append(y.carry, c)
        <5> DEFINE z == y.carry
        <5>1. z \in Seq(C)
          BY <2>6
        <5> HIDE DEF z
        <5>2. p \o Append(z, c) = Append(p \o z, c)
          BY <5>1, ConcatAppend
        <5> QED BY <5>2, Zenon DEF z
      <4>3. /\ Feed(x, c).lines = x.lines /\ Feed(x, c).carry = Append(x.carry, c)
            /\ Feed(y, c).lines = y.lines /\ Feed(y, c).carry = Append(y.carry, c)
        BY <4>1
      <4> QED BY <2>3, <4>2, <4>3, Zenon
    <3> QED BY <3>1, <3>2
  <2> QED BY <2>5, <2>8, Zenon
<1> HIDE DEF T
<1>3. Nat \subseteq T
  BY <1>1, <1>2, Induction
<1>4. Len(b) \in T
  BY <1>3
<1> QED BY <1>4 DEF T

-----------------------------------------------------------------------------
(* Snapshots.                                                              *)

\* What a scanner finds are lines.
LEMMA ScannedType ==
  ASSUME NEW C, NEW b \in Seq(C)
  PROVE  Scanned(b) \in Seq(Seq(C))
<1> DEFINE y == Split(<<>>, b)
<1>1. <<>> \in Seq(C)
  OBVIOUS
<1>2. y.lines \in Seq(Seq(C)) /\ y.carry \in Seq(C)
  BY <1>1, SplitType DEF Acc
<1> HIDE DEF y
<1>3. (IF y.carry = <<>> THEN <<>> ELSE <<y.carry>>) \in Seq(Seq(C))
  BY <1>2
<1>4. Scanned(b) = y.lines \o (IF y.carry = <<>> THEN <<>> ELSE <<y.carry>>)
  BY DEF Scanned, y
<1> HIDE DEF Scanned
<1> QED BY <1>2, <1>3, <1>4, ConcatProperties

\* The first of two lists put together loses its head.
LEMMA TailOfConcat ==
  ASSUME NEW D, NEW s \in Seq(D), NEW t \in Seq(D), s # <<>>
  PROVE  Tail(s \o t) = Tail(s) \o t /\ s = <<Head(s)>> \o Tail(s)
OBVIOUS

\* But for the line it begins in, the end of a file has the lines the file ends
\* with.
LEMMA WindowLines ==
  ASSUME NEW C, NEW a \in Seq(C), NEW b \in Seq(C), Scanned(b) # <<>>
  PROVE  \E pre \in Seq(Seq(C)) : Scanned(a \o b) = pre \o Tail(Scanned(b))
<1> DEFINE D == Seq(C)
           c == Split(<<>>, a).carry
           la == Split(<<>>, a).lines
           lx == Split(c, b).lines
           rx == Split(c, b).carry
           ly == Split(<<>>, b).lines
           ry == Split(<<>>, b).carry
           Rest(r) == IF r = <<>> THEN <<>> ELSE <<r>>
<1>1. <<>> \in Seq(C)
  OBVIOUS
<1>2. c \in D /\ la \in Seq(D)
  BY <1>1, SplitType DEF Acc
<1>3. lx \in Seq(D) /\ rx \in D /\ ly \in Seq(D) /\ ry \in D
  <2> HIDE DEF c
  <2> QED BY <1>1, <1>2, SplitType DEF Acc
<1>4. Split(<<>>, a \o b).lines = la \o lx /\ Split(<<>>, a \o b).carry = rx
  <2>1. Split(<<>>, a \o b) = [lines |-> la \o lx, carry |-> rx]
    <3> DEFINE e == <<>>
    <3>1. e \in Seq(C)
      OBVIOUS
    <3> HIDE DEF e
    <3>2. Split(e, Cat(a, b)) = [lines |-> Cat(Split(e, a).lines, Split(Split(e, a).carry, b).lines),
                               carry |-> Split(Split(e, a).carry, b).carry]
      BY <3>1, SplitConcat
    <3> QED BY <3>2 DEF e, Cat
  <2> HIDE DEF la, lx, rx
  <2> QED BY <2>1
<1>5. Scanned(a \o b) = (la \o lx) \o Rest(rx) /\ Scanned(b) = ly \o Rest(ry)
  <2>1. Scanned(b) = ly \o Rest(ry)
    BY DEF Scanned
  <2>2. Scanned(a \o b) = Split(<<>>, a \o b).lines \o Rest(Split(<<>>, a \o b).carry)
    BY DEF Scanned
  <2> HIDE DEF la, lx, rx, Scanned
  <2> QED BY <2>1, <2>2, <1>4
<1>6. /\ Len(lx) = Len(ly)
      /\ ly # <<>> => rx = ry /\ Tail(lx) = Tail(ly)
  <2> HIDE DEF c
  <2> QED BY <1>2, SplitCarried DEF D
<1>7. Scanned(a \o b) \in Seq(D)
  <2>1. a \o b \in Seq(C)
    OBVIOUS
  <2> QED BY <2>1, ScannedType
<1>8. Rest(ry) \in Seq(D)
  <2> HIDE DEF ry, D
  <2> QED BY <1>3
<1>9. CASE ly = <<>>
  <2>1. Scanned(b) = Rest(ry)
    <3> HIDE DEF ly, Rest, D, Scanned
    <3> QED BY <1>5, <1>8, <1>9
  <2>2. Scanned(b) = <<ry>>
    BY <2>1
  <2>3. Tail(Scanned(b)) = <<>>
    <3> HIDE DEF Scanned, ry
    <3> QED BY <2>2
  <2>4. Scanned(a \o b) = Scanned(a \o b) \o <<>>
    <3> HIDE DEF D, Scanned
    <3> QED BY <1>7
  <2> HIDE DEF Scanned
  <2> QED BY <1>7, <2>3, <2>4
<1>10. CASE ly # <<>>
  <2> HIDE DEF D, c, la, lx, rx, ly, ry, Scanned, Rest
  <2>1. lx # <<>> /\ Tail(lx) \in Seq(D) /\ Head(lx) \in D
    <3>1. lx # <<>>
      BY <1>3, <1>6, <1>10, EmptySeq
    <3> QED BY <1>3, <3>1, HeadTailProperties
  <2>2. Tail(Scanned(b)) = Tail(ly) \o Rest(ry)
    BY <1>3, <1>5, <1>8, <1>10, TailOfConcat
  <2>3. lx = <<Head(lx)>> \o Tail(lx)
    BY <1>3, <2>1, TailOfConcat
  <2> DEFINE h == <<Head(lx)>>
             t == Tail(lx)
             q == Rest(ry)
  <2>4. h \in Seq(D) /\ t \in Seq(D) /\ q \in Seq(D)
    BY <1>8, <2>1
  <2>5. Scanned(a \o b) = (la \o (h \o t)) \o q
    BY <1>5, <1>6, <1>10, <2>3
  <2>6. Tail(Scanned(b)) = t \o q
    BY <1>6, <1>10, <2>2
  <2> HIDE DEF h, t, q
  <2>7. la \o (h \o t) = (la \o h) \o t
    <3>1. Cat(la, Cat(h, t)) = Cat(Cat(la, h), t)
      BY <1>2, <2>4, CatAssociative
    <3> QED BY <3>1, Zenon DEF Cat
  <2> DEFINE g == la \o h
  <2>8. g \in Seq(D)
    BY <1>2, <2>4, ConcatProperties
  <2> HIDE DEF g
  <2>9. (g \o t) \o q = g \o (t \o q)
    <3>1. Cat(Cat(g, t), q) = Cat(g, Cat(t, q))
      BY <2>4, <2>8, CatAssociative
    <3> QED BY <3>1, Zenon DEF Cat
  <2>10. Scanned(a \o b) = g \o Tail(Scanned(b))
    BY <2>5, <2>6, <2>7, <2>9 DEF g
  <2> QED BY <2>8, <2>10 DEF D
<1> QED BY <1>9, <1>10

\* The last lines of a run of last lines are last lines.
LEMMA LastOfSuffix ==
  ASSUME NEW D, NEW pre \in Seq(D), NEW suf \in Seq(D), NEW n \in Nat
  PROVE  LastOf(suf, n) = LastOf(pre \o suf, Len(LastOf(suf, n)))
<1> DEFINE lines == pre \o suf
           m == Len(suf)
           k == IF m <= n THEN m ELSE n
           last == SubSeq(suf, m - k + 1, m)
<1>1. /\ lines \in Seq(D) /\ Len(lines) = Len(pre) + m /\ m \in Nat /\ Len(pre) \in Nat
      /\ \A i \in 1..m : lines[Len(pre) + i] = suf[i]
  OBVIOUS
<1>2. k \in Nat /\ k <= m
  BY <1>1
<1>3. SubSeq(suf, 1, m) = suf
  BY SubSeqFull
<1>4. LastOf(suf, n) = last
  BY <1>1, <1>3 DEF LastOf
<1>5. /\ last \in Seq(D) /\ Len(last) = k
      /\ \A i \in 1..k : last[i] = suf[m - k + i]
  <2>1. \A i \in (m - k + 1)..m : suf[i] \in D
    BY <1>1, <1>2
  <2> HIDE DEF k, m, lines
  <2>2. m - k + 1 \in Int /\ m \in Int /\ (m - k + 1 <= m => m - (m - k + 1) + 1 = k)
        /\ (~(m - k + 1 <= m) => k = 0) /\ m - (m - k + 1) + 1 = k
    BY <1>1, <1>2
  <2>3. /\ last \in Seq(D) /\ Len(last) = IF m - k + 1 <= m THEN m - (m - k + 1) + 1 ELSE 0
        /\ \A i \in 1..(m - (m - k + 1) + 1) : last[i] = suf[(m - k + 1) + i - 1]
    BY <2>1, <2>2, SubSeqProperties
  <2> HIDE DEF last
  <2>4. \A i \in 1..k : (m - k + 1) + i - 1 = m - k + i
    BY <1>1, <1>2
  <2> QED BY <2>2, <2>3, <2>4
<1> HIDE DEF lines, m, last, k
<1>6. LastOf(lines, k) = SubSeq(lines, Len(lines) - k + 1, Len(lines))
  <2>1. CASE Len(lines) <= k
    <3>1. Len(lines) = k
      BY <1>1, <1>2, <2>1
    <3>2. Len(lines) - k + 1 = 1
      BY <1>2, <3>1
    <3> QED BY <1>1, <2>1, <3>2, SubSeqFull DEF LastOf
  <2>2. CASE ~(Len(lines) <= k)
    BY <2>2 DEF LastOf
  <2> QED BY <2>1, <2>2
<1> DEFINE N == Len(lines)
           end == SubSeq(lines, N - k + 1, N)
<1>7. /\ end \in Seq(D) /\ Len(end) = k
      /\ \A i \in 1..k : end[i] = lines[N - k + i]
  <2>0. N \in Nat /\ N >= k
    BY <1>1, <1>2
  <2>1. \A i \in (N - k + 1)..N : lines[i] \in D
    BY <1>1, <1>2, ElementOfSeq
  <2> HIDE DEF N
  <2> QED BY <1>1, <1>2, <2>0, <2>1, SubSeqProperties
<1>8. \A i \in 1..k : end[i] = last[i]
  <2> TAKE i \in 1..k
  <2>1. m - k + i \in 1..m /\ Len(pre) + (m - k + i) = N - k + i
    BY <1>1, <1>2
  <2> HIDE DEF N, end
  <2>2. end[i] = lines[N - k + i] /\ last[i] = suf[m - k + i]
    BY <1>5, <1>7
  <2> QED BY <1>1, <2>1, <2>2
<1> HIDE DEF end
<1>9. end = last
  BY <1>5, <1>7, <1>8, SeqEqual
<1> QED BY <1>4, <1>5, <1>6, <1>9, Zenon DEF end, lines, N

\* There are no lines in nothing.
LEMMA ScannedEmpty == Scanned(<<>>) = <<>>
<1> DEFINE y == Split(<<>>, <<>>)
<1>1. y = [lines |-> <<>>, carry |-> <<>>]
  BY SplitEmpty
<1>2. y.lines = <<>> /\ y.carry = <<>>
  <2> HIDE DEF y
  <2> QED BY <1>1
<1>3. Scanned(<<>>) = y.lines \o (IF y.carry = <<>> THEN <<>> ELSE <<y.carry>>)
  BY DEF Scanned
<1> HIDE DEF y
<1> QED BY <1>2, <1>3 DEF Scanned

\* A snapshot is a run of the last lines, whatever the file's stat said; the
\* longest one if that was within the budget.
LEMMA SnapshotLines ==
  ASSUME TailAssumption, NEW C, NEW content \in Seq(C), NEW length \in Nat
  PROVE  /\ Snapshot(content, length) = LastOf(Scanned(content), Len(Snapshot(content, length)))
         /\ length <= Budget => Snapshot(content, length) = LastOf(Scanned(content), MaxTail)
<1> DEFINE D == Seq(C)
           N == Len(content)
           lines == Scanned(content)
           k == length - Budget
           text == SubSeq(content, k + 1, N)
<1>1. Budget \in Nat /\ MaxTail \in Nat
  BY DEF TailAssumption
<1>2. lines \in Seq(D)
  BY ScannedType
<1>3. CASE length <= Budget
  <2>1. SubSeq(content, 0 + 1, N) = content
    BY SubSeqFull
  <2>2. ~(length > Budget)
    BY <1>1, <1>3
  <2>3. Snapshot(content, length) = LastOf(lines, MaxTail)
    BY <2>1, <2>2 DEF Snapshot
  <2> HIDE DEF lines, D
  <2>4. <<>> \in Seq(D) /\ <<>> \o lines = lines
    BY <1>2
  <2>5. LastOf(lines, MaxTail) = LastOf(<<>> \o lines, Len(LastOf(lines, MaxTail)))
    BY <1>1, <1>2, <2>4, LastOfSuffix
  <2> QED BY <2>3, <2>4, <2>5 DEF lines
<1>4. CASE length > Budget
  <2> DEFINE found == Scanned(text)
             suf == IF found # <<>> THEN Tail(found) ELSE found
  <2>1. Snapshot(content, length) = LastOf(suf, MaxTail)
    BY <1>4 DEF Snapshot
  <2>2. k \in Nat /\ N \in Nat
    BY <1>1, <1>4
  <2>3. suf = <<>> \/ \E pre \in Seq(D) : lines = pre \o suf
    <3>1. CASE k < N
      <4> DEFINE a == SubSeq(content, 1, k)
      <4>1. a \in Seq(C) /\ text \in Seq(C)
        BY <1>1, <1>4, <3>1
      <4>2. a \o text = content
        <5>1. 1 \in 1..(N + 1) /\ k \in (1 - 1)..N /\ N \in k..N
          BY <2>2, <3>1
        <5>2. a \o text = SubSeq(content, 1, N)
          <6> HIDE DEF k
          <6> QED BY <5>1, ConcatAdjacentSubSeq
        <5>3. SubSeq(content, 1, N) = content
          BY SubSeqFull
        <5> HIDE DEF a, text, N
        <5> QED BY <5>2, <5>3
      <4> HIDE DEF a, text, N, k
      <4>3. found # <<>> => \E pre \in Seq(D) : Scanned(a \o text) = pre \o Tail(found)
        BY <4>1, WindowLines
      <4> QED BY <4>2, <4>3
    <3>2. CASE ~(k < N)
      <4>1. text = <<>>
        BY <2>2, <3>2, SubSeqEmpty
      <4> HIDE DEF text
      <4> QED BY <4>1, ScannedEmpty
    <3> QED BY <3>1, <3>2
  <2>4. \E pre \in Seq(D) : suf \in Seq(D) /\ lines = pre \o suf
    <3>1. suf \in Seq(D)
      <4>1. text \in Seq(C)
        <5>1. \A i \in (k + 1)..N : content[i] \in C
          BY <2>2
        <5>2. k + 1 \in Int /\ N \in Int
          BY <2>2
        <5> HIDE DEF k, N
        <5> QED BY <5>1, <5>2, SubSeqProperties
      <4> HIDE DEF text
      <4>2. found \in Seq(D)
        BY <4>1, ScannedType
      <4> HIDE DEF D, found
      <4> QED BY <4>2
    <3>2. CASE suf = <<>>
      <4>1. lines \o <<>> = lines
        <5> HIDE DEF lines, D
        <5> QED BY <1>2
      <4> HIDE DEF lines, D, suf
      <4> QED BY <1>2, <3>1, <3>2, <4>1
    <3>3. CASE suf # <<>>
      <4> HIDE DEF lines, D, suf
      <4> QED BY <2>3, <3>1, <3>3
    <3> QED BY <3>2, <3>3
  <2> HIDE DEF lines, D, suf
  <2>5. PICK pre \in Seq(D) : suf \in Seq(D) /\ lines = pre \o suf
    BY <2>4
  <2>6. LastOf(suf, MaxTail) = LastOf(pre \o suf, Len(LastOf(suf, MaxTail)))
    BY <1>1, <2>5, LastOfSuffix
  <2>7. ~(length <= Budget)
    BY <1>1, <1>4
  <2> QED BY <2>1, <2>5, <2>6, <2>7 DEF lines
<1> QED BY <1>1, <1>3, <1>4

-----------------------------------------------------------------------------
(* The file.                                                               *)

\* Division with remainder.
LEMMA DivMod ==
  ASSUME NEW W \in Nat \ {0}, NEW m \in Nat
  PROVE  m \div W \in Nat /\ m % W \in 0..(W - 1) /\ m = W * (m \div W) + (m % W)
OBVIOUS

\* A multiple with remainder that is below another is below it as a whole.
LEMMA Below ==
  ASSUME NEW W \in Nat \ {0}, NEW M \in Nat, NEW q \in Nat, NEW r \in 0..(W - 1), W * q + r < M * W
  PROVE  q + 1 <= M /\ W * q + W <= M * W
<1>1. q < M
  <2> SUFFICES ASSUME q >= M PROVE FALSE
    OBVIOUS
  <2>1. W * q >= W * M
    OBVIOUS
  <2>2. W * M = M * W
    OBVIOUS
  <2> QED BY <2>1, <2>2
<1>2. W * (q + 1) <= W * M
  BY <1>1
<1>3. W * (q + 1) = W * q + W /\ W * M = M * W
  OBVIOUS
<1> QED BY <1>1, <1>2, <1>3

\* The n-th character is one and says that it is the n-th.
LEMMA NthNumber ==
  ASSUME TailAssumption, NEW n \in Nat \ {0}
  PROVE  Number(Nth(n)) = n /\ (n <= MaxLines * Width => Nth(n) \in Char)
<1> DEFINE q == (n - 1) \div Width
           r == (n - 1) % Width
<1>1. Width \in Nat \ {0} /\ MaxLines \in Nat /\ n - 1 \in Nat
  BY DEF TailAssumption
<1>2. q \in Nat /\ r \in 0..(Width - 1) /\ n - 1 = Width * q + r
  BY <1>1, DivMod
<1>3. Nth(n) = [line |-> q + 1, part |-> r + 1]
  BY DEF Nth
<1> HIDE DEF q, r
<1>4. Number(Nth(n)) = ((q + 1) - 1) * Width + (r + 1)
  BY <1>3 DEF Number
<1>5. ((q + 1) - 1) * Width = Width * q
  BY <1>1, <1>2
<1>6. Width * q \in Int
  BY <1>1, <1>2
<1>7. Number(Nth(n)) = n
  <2> DEFINE z == Width * q
  <2>1. z \in Int /\ n - 1 = z + r /\ Number(Nth(n)) = z + (r + 1)
    BY <1>2, <1>4, <1>5, <1>6
  <2> HIDE DEF z
  <2> QED BY <1>2, <2>1
<1>8. ASSUME n <= MaxLines * Width PROVE Nth(n) \in Char
  <2>1. Width * q + r < MaxLines * Width
    <3> DEFINE z == Width * q
               y == MaxLines * Width
    <3>1. z \in Int /\ y \in Int
      BY <1>1, <1>6
    <3> HIDE DEF z, y
    <3>2. z + r < y
      BY <1>2, <1>8, <3>1 DEF z, y
    <3> QED BY <3>2 DEF z, y
  <2>2. q + 1 <= MaxLines
    BY <1>1, <1>2, <2>1, Below
  <2>3. q + 1 \in 1..MaxLines /\ r + 1 \in 1..Width
    BY <1>1, <1>2, <2>2
  <2> QED BY <1>3, <2>3 DEF Char
<1> QED BY <1>7, <1>8

\* What is written of a line ends before the bound.
LEMMA WriteFits ==
  ASSUME TailAssumption, NEW w \in Nat, w < MaxLines * Width,
         NEW n \in 1..(Width - (w % Width))
  PROVE  w + n \in 0..(MaxLines * Width)
<1> DEFINE q == w \div Width
           r == w % Width
           z == Width * q
           y == MaxLines * Width
<1>1. Width \in Nat \ {0} /\ MaxLines \in Nat
  BY DEF TailAssumption
<1>2. q \in Nat /\ r \in 0..(Width - 1) /\ w = Width * q + r
  BY <1>1, DivMod
<1>3. z \in Int /\ y \in Int
  BY <1>1, <1>2
<1>4. Width * q + Width <= MaxLines * Width
  <2> HIDE DEF q, r
  <2>1. Width * q + r < MaxLines * Width
    BY <1>2
  <2> QED BY <1>1, <1>2, <2>1, Below
<1>5. n \in 1..(Width - r)
  OBVIOUS
<1>6. w = z + r /\ z + Width <= y
  BY <1>2, <1>4
<1> HIDE DEF q, r, z, y
<1>7. w + n \in 0..y
  BY <1>1, <1>2, <1>3, <1>5, <1>6
<1> QED BY <1>7 DEF y

\* A file holds the last characters that were written.
FileShape ==
  file # None =>
    /\ Len(file) <= written
    /\ \A i \in 1..Len(file) : file[i] = Nth(written - Len(file) + i)

\* Follow reads when its stat found more than it has.
StepShape ==
  /\ pc = "start" => ~opened
  /\ pc = "read" => opened /\ pos < size

TailInv == TypeOK /\ FileShape /\ StepShape

\* What a read returns: nothing, or the file from the cursor to some place.
LEMMA ChunkShape ==
  ASSUME TypeOK, pos < size
  PROVE  /\ Chunk \in Seq(Char)
         /\ \/ Chunk = <<>>
            \/ /\ file # None
               /\ \E e \in (pos + 1)..Len(file) :
                    /\ e <= size
                    /\ Chunk = SubSeq(file, pos + 1, e) /\ Len(Chunk) = e - pos
                    /\ \A i \in 1..(e - pos) : Chunk[i] = file[pos + i]
<1>1. CASE file = None
  BY <1>1 DEF Chunk
<1>2. CASE file # None
  <2> DEFINE e == IF size <= Len(file) THEN size ELSE Len(file)
  <2>1. file \in Seq(Char) /\ pos \in Nat /\ size \in Nat
    BY <1>2 DEF TypeOK
  <2>2. Len(file) \in Nat /\ e \in Nat /\ e <= Len(file) /\ e <= size
    BY <2>1
  <2>3. Chunk = SubSeq(file, pos + 1, e)
    BY <1>2 DEF Chunk
  <2> HIDE DEF e
  <2>4. CASE e <= pos
    <3>1. Chunk = <<>>
      BY <2>1, <2>2, <2>3, <2>4, SubSeqEmpty
    <3> QED BY <3>1
  <2>5. CASE pos < e
    <3>1. \A i \in (pos + 1)..e : file[i] \in Char
      BY <2>1, <2>2, ElementOfSeq
    <3>2. pos + 1 \in Int /\ e \in Int /\ pos + 1 <= e /\ e - (pos + 1) + 1 = e - pos
      BY <2>1, <2>2, <2>5
    <3>3. /\ Chunk \in Seq(Char) /\ Len(Chunk) = e - (pos + 1) + 1
          /\ \A i \in 1..(e - (pos + 1) + 1) : Chunk[i] = file[(pos + 1) + i - 1]
      BY <2>3, <3>1, <3>2, SubSeqProperties
    <3>4. \A i \in 1..(e - pos) : (pos + 1) + i - 1 = pos + i
      BY <2>1, <2>2
    <3>5. e \in (pos + 1)..Len(file)
      BY <2>1, <2>2, <2>5
    <3> HIDE DEF Chunk
    <3>6. Len(Chunk) = e - pos /\ \A i \in 1..(e - pos) : Chunk[i] = file[pos + i]
      BY <3>2, <3>3, <3>4
    <3> QED BY <1>2, <2>2, <2>3, <3>3, <3>5, <3>6
  <2> QED BY <2>1, <2>2, <2>4, <2>5
<1> QED BY <1>1, <1>2

\* The invariant holds when the panel starts.
LEMMA TailInit ==
  ASSUME TailAssumption, Init
  PROVE  TailInv
<1>1. MaxLines * Width \in Nat
  BY DEF TailAssumption
<1>2. 0 \in 0..(MaxLines * Width)
  BY <1>1
<1>3. <<>> \in Seq(Char) /\ <<>> \in Seq(Seq(Char)) /\ <<>> \in Seq(Events) /\ Len(<<>>) = 0
  OBVIOUS
<1>4. file = None \/ file = <<>>
  BY DEF Init
<1>5. TypeOK
  BY <1>2, <1>3, <1>4 DEF Init, TypeOK
<1>6. FileShape
  BY <1>4 DEF Init, FileShape
<1> QED BY <1>5, <1>6 DEF Init, TailInv, StepShape

\* What xray writes.
LEMMA WriteShape ==
  ASSUME TailAssumption, TailInv, Write
  PROVE  /\ file' \in Seq(Char) /\ written' \in 0..(MaxLines * Width)
         /\ FileShape'
         /\ file \in Seq(Char) /\ Len(file') - written' = Len(file) - written
         /\ Len(file) <= Len(file')
         /\ \A i \in 1..Len(file) : file'[i] = file[i]
<1>1. PICK n \in 1..(Width - (written % Width)) :
        /\ file' = file \o [i \in 1..n |-> Nth(written + i)]
        /\ written' = written + n
  BY DEF Write
<1>2. /\ file \in Seq(Char) /\ written \in Nat /\ written < MaxLines * Width
      /\ Len(file) <= written
      /\ \A i \in 1..Len(file) : file[i] = Nth(written - Len(file) + i)
  <2>1. MaxLines * Width \in Nat
    BY DEF TailAssumption
  <2> QED BY <2>1 DEF Write, TailInv, TypeOK, FileShape
<1>3. Width \in Nat \ {0} /\ written % Width \in 0..(Width - 1)
  BY <1>2, DivMod DEF TailAssumption
<1>4. n \in Nat \ {0} /\ written + n \in 0..(MaxLines * Width)
  <2>1. written + n \in 0..(MaxLines * Width)
    BY <1>2, WriteFits
  <2>2. n \in Nat \ {0}
    OBVIOUS
  <2> QED BY <2>1, <2>2
<1> DEFINE new == [i \in 1..n |-> Nth(written + i)]
           y == MaxLines * Width
<1>5. \A i \in 1..n : Nth(written + i) \in Char
  <2> TAKE i \in 1..n
  <2>1. written + i \in Nat \ {0} /\ written + i <= written + n
    BY <1>2, <1>4
  <2>2. y \in Nat
    BY DEF TailAssumption
  <2>3. written + i <= y
    <3> HIDE DEF y
    <3>1. written + n \in 0..y
      BY <1>4 DEF y
    <3> QED BY <1>2, <1>4, <2>1, <2>2, <3>1
  <2> QED BY <2>1, <2>3, NthNumber
<1>6. new \in Seq(Char) /\ Len(new) = n
  <2> HIDE DEF Char
  <2> QED BY <1>4, <1>5
<1> HIDE DEF new
<1>7. /\ file' \in Seq(Char) /\ Len(file') = Len(file) + n
      /\ \A i \in 1..(Len(file) + n) :
           file'[i] = IF i <= Len(file) THEN file[i] ELSE new[i - Len(file)]
  <2>1. file' = file \o new
    BY <1>1 DEF new
  <2> QED BY <1>2, <1>6, <2>1, ConcatProperties
<1> DEFINE L == Len(file)
<1>8. L \in Nat /\ L <= written
  BY <1>2
<1>9. \A i \in 1..Len(file') : file'[i] = Nth(written' - Len(file') + i)
  <2> TAKE i \in 1..Len(file')
  <2>1. written' - Len(file') + i = written - L + i /\ i \in 1..(L + n)
    BY <1>1, <1>2, <1>4, <1>7, <1>8
  <2>2. CASE i <= L
    <3>1. i \in 1..L
      BY <1>8, <2>1, <2>2
    <3>2. file[i] = Nth(written - L + i)
      BY <1>2, <3>1
    <3> QED BY <1>7, <2>1, <2>2, <3>2
  <2>3. CASE ~(i <= L)
    <3>1. i - L \in 1..n /\ written + (i - L) = written - L + i
      BY <1>2, <1>4, <1>8, <2>1, <2>3
    <3>2. new[i - L] = Nth(written + (i - L))
      BY <3>1 DEF new
    <3> QED BY <1>7, <2>1, <2>3, <3>1, <3>2
  <2> QED BY <2>2, <2>3
<1>10. Len(file') <= written'
  BY <1>1, <1>2, <1>4, <1>7, <1>8
<1>11. \A i \in 1..Len(file) : file'[i] = file[i]
  BY <1>4, <1>7, <1>8
<1>12. Len(file) <= Len(file') /\ Len(file') - written' = Len(file) - written
  BY <1>1, <1>2, <1>4, <1>7, <1>8
<1> QED BY <1>1, <1>2, <1>4, <1>7, <1>9, <1>10, <1>11, <1>12 DEF FileShape

\* Every step keeps the types and what the file is.
LEMMA TailStep ==
  ASSUME TailAssumption, TailInv, [Next]_vars
  PROVE  TailInv'
<1> USE DEF TailInv
<1>1. CASE Write
  <2>1. file' \in Seq(Char) /\ written' \in 0..(MaxLines * Width) /\ FileShape'
    BY <1>1, WriteShape
  <2> QED BY <1>1, <2>1 DEF Write, seen, TypeOK, StepShape
<1>2. CASE Unlink
  <2>1. events' \in Seq(Events)
    BY <1>2 DEF Unlink, Disturb, TypeOK
  <2> QED BY <1>2, <2>1 DEF Unlink, Disturb, seen, TypeOK, StepShape, FileShape
<1>3. CASE Truncate
  <2>1. events' \in Seq(Events)
    BY <1>3 DEF Truncate, Disturb, TypeOK
  <2>2. file' = <<>> /\ written' = written
    BY <1>3 DEF Truncate, Disturb
  <2>3. FileShape' /\ file' \in Seq(Char)
    <3>1. written \in Nat
      <4>1. MaxLines * Width \in Nat
        BY DEF TailAssumption
      <4> QED BY <4>1 DEF TypeOK
    <3> QED BY <2>2, <3>1 DEF FileShape
  <2> QED BY <1>3, <2>1, <2>3 DEF Truncate, Disturb, seen, TypeOK, StepShape
<1>4. CASE Create
  <2>1. file' = <<>> /\ written' = written
    BY <1>4 DEF Create
  <2>3. FileShape' /\ file' \in Seq(Char)
    <3>1. written \in Nat
      <4>1. MaxLines * Width \in Nat
        BY DEF TailAssumption
      <4> QED BY <4>1 DEF TypeOK
    <3> QED BY <2>1, <3>1 DEF FileShape
  <2> QED BY <1>4, <2>3 DEF Create, seen, TypeOK, StepShape
<1>5. CASE SeekEnd
  <2>1. CASE file = None
    BY <1>5, <2>1 DEF SeekEnd, disk, TypeOK, StepShape, FileShape
  <2>2. CASE file # None
    <3>1. Len(file) \in Nat /\ written \in Nat
      <4>1. MaxLines * Width \in Nat
        BY DEF TailAssumption
      <4> QED BY <2>2, <4>1 DEF TypeOK
    <3> QED BY <1>5, <2>2, <3>1 DEF SeekEnd, disk, TypeOK, StepShape, FileShape
  <2> QED BY <2>1, <2>2
<1>6. CASE Gone
  <2>1. <<>> \in Seq(Char)
    OBVIOUS
  <2>2. pos' = 0 /\ carry' = <<>> /\ opened' = FALSE
        /\ UNCHANGED <<file, inode, written, events, pc, ino, size, out, skipped>> /\ pc = "tick"
    BY <1>6 DEF Gone, disk
  <2> QED BY <2>1, <2>2 DEF TypeOK, StepShape, FileShape
<1>7. CASE Stat
  <2>1. UNCHANGED disk /\ UNCHANGED <<out, skipped>> /\ opened' = TRUE /\ ino' = inode
        /\ size' = Len(file) /\ file \in Seq(Char) /\ size' \in Nat
    <3>1. UNCHANGED disk /\ UNCHANGED <<out, skipped>> /\ opened' = TRUE /\ ino' = inode
          /\ size' = Len(file) /\ file # None
      BY <1>7 DEF Stat
    <3>2. file \in Seq(Char)
      BY <3>1 DEF TypeOK
    <3>3. Len(file) \in Nat
      BY <3>2
    <3> QED BY <3>1, <3>2, <3>3
  <2>2. pos' \in Nat /\ carry' \in Seq(Char)
    <3>1. (pos' = 0 /\ carry' = <<>>) \/ (pos' = pos /\ carry' = carry)
      BY <1>7 DEF Stat
    <3>2. <<>> \in Seq(Char) /\ 0 \in Nat /\ pos \in Nat /\ carry \in Seq(Char)
      BY DEF TypeOK
    <3> QED BY <3>1, <3>2, Zenon
  <2>3. pc' \in {"tick", "read"} /\ (pc' = "read" => pos' < size')
    BY <1>7, <2>1, <2>2 DEF Stat
  <2> QED BY <2>1, <2>2, <2>3 DEF disk, TypeOK, StepShape, FileShape
<1>8. CASE ReadNew
  <2> DEFINE split == Split(carry, Chunk)
  <2>1. Chunk \in Seq(Char)
    BY <1>8, ChunkShape DEF ReadNew, StepShape
  <2>2. split.lines \in Seq(Seq(Char)) /\ split.carry \in Seq(Char)
    <3>1. carry \in Seq(Char)
      BY DEF TypeOK
    <3> QED BY <2>1, <3>1, SplitType DEF Acc
  <2>3. out' = out \o split.lines /\ carry' = split.carry
    BY <1>8 DEF ReadNew
  <2>4. out' \in Seq(Seq(Char)) /\ carry' \in Seq(Char)
    <3>1. out \in Seq(Seq(Char))
      BY DEF TypeOK
    <3> HIDE DEF split
    <3> QED BY <2>2, <2>3, <3>1, ConcatProperties
  <2>5. pos' \in Nat
    <3>1. Len(Chunk) \in Nat
      BY <2>1
    <3> QED BY <1>8, <3>1 DEF ReadNew, TypeOK
  <2>6. opened /\ pc' = "tick" /\ UNCHANGED <<disk, ino, opened, size, skipped>>
    BY <1>8 DEF ReadNew, StepShape
  <2> QED BY <2>4, <2>5, <2>6 DEF disk, TypeOK, StepShape, FileShape
<1>9. CASE UNCHANGED vars
  BY <1>9 DEF vars, TypeOK, StepShape, FileShape
<1> QED BY <1>1, <1>2, <1>3, <1>4, <1>5, <1>6, <1>7, <1>8, <1>9 DEF Next, FollowStep

\* The types, what the file holds and where Follow is, in every state.
THEOREM TailInvariant == TailAssumption => (Spec => []TailInv)
<1> SUFFICES ASSUME TailAssumption PROVE Spec => []TailInv
  OBVIOUS
<1>1. Init => TailInv
  BY TailInit
<1>2. TailInv /\ [Next]_vars => TailInv'
  BY TailStep
<1> QED BY <1>1, <1>2, PTL DEF Spec

\* Every variable keeps its type.
THEOREM TailTypeCorrect == TailAssumption => (Spec => []TypeOK)
<1>1. TailInv => TypeOK
  BY DEF TailInv
<1> QED BY <1>1, TailInvariant, PTL

\* Every snapshot is a run of the last lines.
THEOREM SnapshotsAreSuffixes == TailAssumption => (Spec => []SnapshotIsSuffix)
<1> SUFFICES ASSUME TailAssumption PROVE Spec => []SnapshotIsSuffix
  OBVIOUS
<1>1. TailInv => SnapshotIsSuffix
  <2> SUFFICES ASSUME TailInv, file # None, NEW length \in 0..(MaxLines * Width)
               PROVE  /\ Snapshot(file, length) = LastOf(Scanned(file), Len(Snapshot(file, length)))
                      /\ length <= Budget => Snapshot(file, length) = LastOf(Scanned(file), MaxTail)
    BY Zenon DEF SnapshotIsSuffix
  <2>1. file \in Seq(Char)
    BY DEF TailInv, TypeOK
  <2>2. length \in Nat
    <3>1. MaxLines * Width \in Nat
      BY DEF TailAssumption
    <3> QED BY <3>1
  <2> QED BY <2>1, <2>2, SnapshotLines
<1> QED BY <1>1, TailInvariant, PTL

-----------------------------------------------------------------------------
(* Chunks.                                                                 *)

\* As long as nothing happens to the file but that it grows, Follow is behind
\* its end, and sees one file.
Growing ==
  events = <<>> =>
    /\ file = None => written = 0 /\ ~opened
    /\ file # None => Len(file) = written /\ pos <= Len(file)
    /\ opened => ino = inode
    /\ ~opened => skipped = 0 /\ carry = <<>> /\ out = <<>>
    /\ skipped <= pos

\* What a list begins with is in each list that continues it.
LEMMA SubSeqOfLonger ==
  ASSUME NEW S, NEW s \in Seq(S), NEW t \in Seq(S), Len(s) <= Len(t),
         \A i \in 1..Len(s) : t[i] = s[i],
         NEW m \in Nat, NEW n \in Nat, m <= n, n <= Len(s)
  PROVE  SubSeq(t, m + 1, n) = SubSeq(s, m + 1, n)
<1>1. \A i \in (m + 1)..n : i \in 1..Len(s) /\ s[i] \in S /\ t[i] = s[i]
  BY ElementOfSeq
<1>2. /\ SubSeq(s, m + 1, n) \in Seq(S) /\ SubSeq(t, m + 1, n) \in Seq(S)
      /\ Len(SubSeq(s, m + 1, n)) = n - m /\ Len(SubSeq(t, m + 1, n)) = n - m
  BY <1>1
<1>3. \A i \in 1..(n - m) : SubSeq(s, m + 1, n)[i] = s[m + i] /\ SubSeq(t, m + 1, n)[i] = t[m + i]
                           /\ m + i \in (m + 1)..n
  BY <1>1
<1> DEFINE a == SubSeq(s, m + 1, n)
           b == SubSeq(t, m + 1, n)
<1>4. a \in Seq(S) /\ b \in Seq(S) /\ Len(a) = n - m /\ Len(b) = n - m
      /\ \A i \in 1..(n - m) : a[i] = b[i]
  BY <1>1, <1>2, <1>3
<1> HIDE DEF a, b
<1>5. a = b
  BY <1>4, SeqEqual
<1> QED BY <1>5 DEF a, b

\* Every step keeps Follow behind the end of a file that grows, with the lines of
\* one reading of it.
LEMMA ChunksStep ==
  ASSUME TailAssumption, TailInv, Growing, ChunksDoNotMatter, [Next]_vars
  PROVE  Growing' /\ ChunksDoNotMatter'
<1> SUFFICES ASSUME events' = <<>> PROVE Growing' /\ ChunksDoNotMatter'
  BY DEF Growing, ChunksDoNotMatter
<1> DEFINE Glued == LET read == Split(<<>>, SubSeq(file, skipped + 1, pos))
                    IN  out = read.lines /\ carry = read.carry
<1>0. /\ pos \in Nat /\ skipped \in Nat /\ size \in Nat /\ written \in Nat
      /\ file # None => file \in Seq(Char) /\ Len(file) \in Nat
      /\ carry \in Seq(Char) /\ out \in Seq(Seq(Char))
      /\ ~opened => pos = 0
  <2>1. MaxLines * Width \in Nat
    BY DEF TailAssumption
  <2> QED BY <2>1 DEF TailInv, TypeOK
<1>01. StepShape
  BY DEF TailInv
<1>02. ~Unlink /\ ~Truncate
  <2>1. ASSUME NEW e, Disturb(e) PROVE events' # <<>>
    <3>1. events \in Seq(Events) /\ e \in Events /\ events' = Append(events, e)
      BY <2>1 DEF Disturb, TailInv, TypeOK
    <3> QED BY <3>1, LenAppend
  <2> QED BY <2>1 DEF Unlink, Truncate
<1>03. events = <<>>
  BY <1>02 DEF Next, FollowStep, Write, Create, SeekEnd, Gone, Stat, ReadNew, disk, vars
<1>04. /\ file = None => written = 0 /\ ~opened
       /\ file # None => Len(file) = written /\ pos <= Len(file)
       /\ opened => ino = inode
       /\ ~opened => skipped = 0 /\ carry = <<>> /\ out = <<>>
       /\ skipped <= pos
  BY <1>03 DEF Growing
<1>05. file # None => Glued
  BY <1>03 DEF ChunksDoNotMatter
<1>06. Split(<<>>, <<>>).lines = <<>> /\ Split(<<>>, <<>>).carry = <<>>
  BY SplitEmpty
<1>1. CASE Write
  <2>1. /\ file' \in Seq(Char) /\ Len(file') - written' = Len(file) - written
        /\ Len(file) <= Len(file')
        /\ \A i \in 1..Len(file) : file'[i] = file[i]
        /\ written' \in Nat
    <3>1. MaxLines * Width \in Nat
      BY DEF TailAssumption
    <3> QED BY <1>1, <3>1, WriteShape
  <2>2. file # None /\ UNCHANGED <<inode, events, pc, pos, ino, opened, carry, size, out, skipped>>
    BY <1>1 DEF Write, seen
  <2>3. SubSeq(file', skipped + 1, pos) = SubSeq(file, skipped + 1, pos)
    <3> DEFINE f == file
               g == file'
    <3>1. /\ f \in Seq(Char) /\ g \in Seq(Char) /\ Len(f) <= Len(g)
          /\ \A i \in 1..Len(f) : g[i] = f[i]
          /\ skipped \in Nat /\ pos \in Nat /\ skipped <= pos /\ pos <= Len(f)
      BY <1>0, <1>04, <2>1, <2>2
    <3> HIDE DEF f, g
    <3>2. SubSeq(g, skipped + 1, pos) = SubSeq(f, skipped + 1, pos)
      BY <3>1, SubSeqOfLonger
    <3> QED BY <3>2 DEF f, g
  <2>4. file' # None
    BY <2>1 DEF TailAssumption
  <2>5. Len(file') = written' /\ pos <= Len(file')
    <3>1. Len(file') \in Nat
      BY <2>1
    <3> QED BY <1>0, <1>04, <2>1, <2>2, <3>1
  <2>6. Growing'
    BY <1>04, <2>2, <2>4, <2>5 DEF Growing
  <2>7. ChunksDoNotMatter'
    BY <1>05, <2>2, <2>3 DEF ChunksDoNotMatter
  <2> QED BY <2>6, <2>7
<1>2. CASE Create
  <2>1. file = None /\ file' = <<>> /\ UNCHANGED <<written, events, pc, pos, ino, opened, carry, size, out, skipped>>
    BY <1>2 DEF Create, seen
  <2>2. ~opened /\ pos = 0 /\ skipped = 0 /\ carry = <<>> /\ out = <<>> /\ written = 0
    BY <1>0, <1>04, <2>1
  <2>3. file' # None
    <3>1. <<>> \in Seq(Char)
      OBVIOUS
    <3> QED BY <2>1, <3>1 DEF TailAssumption
  <2>4. SubSeq(file', 0 + 1, 0) = <<>>
    BY <2>1, SubSeqEmpty
  <2>5. Growing'
    BY <2>1, <2>2, <2>3 DEF Growing
  <2>6. ChunksDoNotMatter'
    BY <1>06, <2>1, <2>2, <2>4 DEF ChunksDoNotMatter
  <2> QED BY <2>5, <2>6
<1>3. CASE SeekEnd
  <2>1. ~opened /\ UNCHANGED disk /\ UNCHANGED <<size, carry, out>>
    BY <1>01, <1>3 DEF SeekEnd, StepShape
  <2>2. CASE file = None
    BY <1>04, <1>3, <2>1, <2>2 DEF SeekEnd, disk, Growing, ChunksDoNotMatter
  <2>3. CASE file # None
    <3>1. pos' = Len(file) /\ ino' = inode /\ opened' = TRUE /\ skipped' = Len(file)
          /\ carry' = <<>> /\ out' = <<>>
      BY <1>04, <1>3, <2>1, <2>3 DEF SeekEnd
    <3>2. SubSeq(file, Len(file) + 1, Len(file)) = <<>>
      BY <1>0, <2>3, SubSeqEmpty
    <3>3. Growing'
      BY <1>0, <1>04, <2>1, <2>3, <3>1 DEF disk, Growing
    <3>4. ChunksDoNotMatter'
      BY <1>06, <2>1, <2>3, <3>1, <3>2 DEF disk, ChunksDoNotMatter
    <3> QED BY <3>3, <3>4
  <2> QED BY <2>2, <2>3
<1>4. CASE Gone
  <2>1. file = None /\ UNCHANGED disk /\ UNCHANGED <<out, skipped>> /\ pos' = 0 /\ carry' = <<>> /\ opened' = FALSE
    BY <1>4 DEF Gone
  <2>2. ~opened /\ skipped = 0 /\ out = <<>> /\ written = 0
    BY <1>04, <2>1
  <2> QED BY <2>1, <2>2 DEF disk, Growing, ChunksDoNotMatter
<1>5. CASE Stat
  <2>1. file # None /\ UNCHANGED disk /\ UNCHANGED <<out, skipped>> /\ opened' = TRUE /\ ino' = inode
    BY <1>5 DEF Stat
  <2>2. pos' = pos /\ carry' = carry
    <3>1. CASE opened
      <4>1. ~Rotated
        BY <1>0, <1>04, <2>1, <3>1 DEF Rotated
      <4> QED BY <1>5, <4>1 DEF Stat
    <3>2. CASE ~opened
      <4>1. Rotated
        BY <3>2 DEF Rotated
      <4> QED BY <1>0, <1>04, <1>5, <3>2, <4>1 DEF Stat
    <3> QED BY <3>1, <3>2
  <2>3. Growing'
    BY <1>04, <2>1, <2>2 DEF disk, Growing
  <2>4. ChunksDoNotMatter'
    BY <1>05, <2>1, <2>2 DEF disk, ChunksDoNotMatter
  <2> QED BY <2>3, <2>4
<1>6. CASE ReadNew
  <2>1. opened /\ pos < size /\ file # None
    BY <1>01, <1>04, <1>6 DEF ReadNew, StepShape
  <2>2. /\ pos' = pos + Len(Chunk) /\ UNCHANGED disk /\ UNCHANGED <<ino, opened, size, skipped>>
        /\ out' = out \o Split(carry, Chunk).lines /\ carry' = Split(carry, Chunk).carry
    BY <1>6 DEF ReadNew
  <2>3. CASE Chunk = <<>>
    <3>1. pos' = pos
      BY <1>0, <2>2, <2>3
    <3>2. Split(carry, <<>>).lines = <<>> /\ Split(carry, <<>>).carry = carry
      BY SplitEmpty
    <3>3. out' = out /\ carry' = carry
      BY <1>0, <2>2, <2>3, <3>2
    <3>4. Growing'
      BY <1>04, <2>2, <3>1, <3>3 DEF disk, Growing
    <3>5. ChunksDoNotMatter'
      BY <1>05, <2>2, <3>1, <3>3 DEF disk, ChunksDoNotMatter
    <3> QED BY <3>4, <3>5
  <2>4. CASE Chunk # <<>>
    <3>1. PICK e \in (pos + 1)..Len(file) :
            Chunk = SubSeq(file, pos + 1, e) /\ Len(Chunk) = e - pos /\ Chunk \in Seq(Char)
      <4>1. TypeOK
        BY DEF TailInv
      <4> QED BY <2>1, <2>4, <4>1, ChunkShape
    <3> DEFINE a == SubSeq(file, skipped + 1, pos)
               b == SubSeq(file, skipped + 1, e)
    <3>2. pos' = e
      BY <1>0, <2>2, <3>1
    <3>3. a \in Seq(Char) /\ Cat(a, Chunk) = b
      <4>1. \A i \in (skipped + 1)..pos : file[i] \in Char
        BY <1>0, <1>04, <2>1, ElementOfSeq
      <4>2. a \in Seq(Char)
        BY <1>0, <4>1, SubSeqProperties
      <4>3. /\ skipped + 1 \in 1..(Len(file) + 1) /\ pos \in ((skipped + 1) - 1)..Len(file)
            /\ e \in pos..Len(file)
        BY <1>0, <1>04, <2>1
      <4>4. SubSeq(file, skipped + 1, pos) \o SubSeq(file, pos + 1, e) = SubSeq(file, skipped + 1, e)
        <5> DEFINE m == skipped + 1
        <5>1. m \in 1..(Len(file) + 1) /\ pos \in (m - 1)..Len(file)
          BY <4>3
        <5> HIDE DEF m
        <5>2. SubSeq(file, m, pos) \o SubSeq(file, pos + 1, e) = SubSeq(file, m, e)
          BY <1>0, <2>1, <4>3, <5>1, ConcatAdjacentSubSeq
        <5> QED BY <5>2 DEF m
      <4> QED BY <3>1, <4>2, <4>4, Zenon DEF Cat
    <3>4. out = Split(<<>>, a).lines /\ carry = Split(<<>>, a).carry
      BY <1>05, <2>1
    <3> HIDE DEF a, b
    <3>5. Split(<<>>, b) = [lines |-> Cat(Split(<<>>, a).lines, Split(Split(<<>>, a).carry, Chunk).lines),
                           carry |-> Split(Split(<<>>, a).carry, Chunk).carry]
      <4> DEFINE none == <<>>
                 new == Chunk
      <4>1. none \in Seq(Char) /\ new \in Seq(Char)
        BY <3>1
      <4> HIDE DEF none, new
      <4>2. Split(none, Cat(a, new)) = [lines |-> Cat(Split(none, a).lines, Split(Split(none, a).carry, new).lines),
                                       carry |-> Split(Split(none, a).carry, new).carry]
        BY <3>3, <4>1, SplitConcat
      <4> QED BY <3>3, <4>2, Zenon DEF none, new
    <3>6. Split(<<>>, b).lines = out' /\ Split(<<>>, b).carry = carry'
      <4>1. Split(<<>>, b) = [lines |-> Cat(out, Split(carry, Chunk).lines),
                             carry |-> Split(carry, Chunk).carry]
        BY <3>4, <3>5, Zenon
      <4>2. Cat(out, Split(carry, Chunk).lines) = out'
        BY <2>2, Zenon DEF Cat
      <4> HIDE DEF Chunk
      <4> QED BY <2>2, <4>1, <4>2
    <3>7. Growing'
      BY <1>0, <1>04, <2>1, <2>2, <3>2 DEF disk, Growing
    <3>8. ChunksDoNotMatter'
      BY <2>2, <3>2, <3>6, Zenon DEF disk, ChunksDoNotMatter, b
    <3> QED BY <3>7, <3>8
  <2> QED BY <2>3, <2>4
<1>7. CASE UNCHANGED vars
  BY <1>7 DEF vars, Growing, ChunksDoNotMatter
<1> QED BY <1>02, <1>1, <1>2, <1>3, <1>4, <1>5, <1>6, <1>7 DEF Next, FollowStep

\* While the file only grows, Follow emits the lines of one reading of it.
THEOREM ChunksGlueTogether == TailAssumption => (Spec => []ChunksDoNotMatter)
<1> SUFFICES ASSUME TailAssumption PROVE Spec => []ChunksDoNotMatter
  OBVIOUS
<1>1. Init => Growing /\ ChunksDoNotMatter
  <2> SUFFICES ASSUME Init PROVE Growing /\ ChunksDoNotMatter
    OBVIOUS
  <2>1. Growing
    <3>1. file # None => file = <<>> /\ Len(file) = 0
      BY DEF Init
    <3> QED BY <3>1 DEF Init, Growing
  <2>2. Split(<<>>, <<>>).lines = <<>> /\ Split(<<>>, <<>>).carry = <<>>
    BY SplitEmpty
  <2>3. SubSeq(file, 0 + 1, 0) = <<>>
    BY SubSeqEmpty
  <2>4. ChunksDoNotMatter
    BY <2>2, <2>3 DEF Init, ChunksDoNotMatter
  <2> QED BY <2>1, <2>4
<1>2. TailInv /\ Growing /\ ChunksDoNotMatter /\ [Next]_vars => (Growing /\ ChunksDoNotMatter)'
  BY ChunksStep
<1> QED BY <1>1, <1>2, TailInvariant, PTL DEF Spec

-----------------------------------------------------------------------------
(* Order.                                                                  *)

\* No line shows a character behind the n-th.
UpTo(lines, n) ==
  \A i \in DOMAIN lines : \A a \in DOMAIN lines[i] : Number(lines[i][a]) <= n

\* A file that was never removed is the one Follow reads, and all it has shown
\* is before the cursor; or before the whole file, if that is shorter.
Behind ==
  "remove" \notin ToSet(events) =>
    /\ file = None => ~opened
    /\ opened => ino = inode
    /\ ~opened => carry = <<>> /\ out = <<>>
    /\ file # None => UpTo(Append(out, carry), written - Len(file) + (IF pos <= Len(file) THEN pos ELSE 0))

\* The number of a character is a number.
LEMMA NumberType ==
  ASSUME TailAssumption, NEW c \in Char
  PROVE  Number(c) \in Int
<1>1. c.line \in 1..MaxLines /\ c.part \in 1..Width /\ Width \in Nat /\ MaxLines \in Nat
  BY DEF Char, TailAssumption
<1>2. (c.line - 1) * Width \in Int
  BY <1>1
<1> QED BY <1>1, <1>2 DEF Number

\* The last line, and those before it.
LEMMA LastLine ==
  ASSUME NEW D, NEW ls \in Seq(D), NEW k \in D
  PROVE  /\ DOMAIN Append(ls, k) = 1..(Len(ls) + 1) /\ Len(ls) \in Nat
         /\ \A i \in 1..Len(ls) : Append(ls, k)[i] = ls[i]
         /\ Append(ls, k)[Len(ls) + 1] = k
OBVIOUS

\* An empty line in place of the last one, or behind it, changes nothing.
LEMMA OrderedDrop ==
  ASSUME NEW ls \in Seq(Seq(Char)), NEW k \in Seq(Char), NEW n
  PROVE  /\ Ordered(Append(ls, k)) => Ordered(Append(ls, <<>>))
         /\ UpTo(Append(ls, k), n) => UpTo(Append(ls, <<>>), n)
<1> DEFINE D == Seq(Char)
           p == Append(ls, k)
           q == Append(ls, <<>>)
<1>1. <<>> \in D /\ DOMAIN <<>> = {}
  OBVIOUS
<1>2. /\ DOMAIN p = 1..(Len(ls) + 1) /\ DOMAIN q = 1..(Len(ls) + 1) /\ Len(ls) \in Nat
      /\ \A i \in 1..Len(ls) : p[i] = ls[i] /\ q[i] = ls[i]
      /\ q[Len(ls) + 1] = <<>>
  <2> HIDE DEF D
  <2>1. ls \in Seq(D) /\ k \in D
    BY DEF D
  <2> QED BY <1>1, <2>1, LastLine
<1> HIDE DEF p, q
<1>3. \A i \in DOMAIN q : DOMAIN q[i] = {} \/ (i \in DOMAIN p /\ q[i] = p[i])
  <2> TAKE i \in DOMAIN q
  <2>1. i \in 1..Len(ls) \/ i = Len(ls) + 1
    BY <1>2
  <2> QED BY <1>1, <1>2, <2>1
<1>4. Ordered(p) => Ordered(q)
  BY <1>3 DEF Ordered
<1>5. UpTo(p, n) => UpTo(q, n)
  BY <1>3 DEF UpTo
<1> QED BY <1>4, <1>5 DEF p, q

\* Beginning a new line changes nothing.
LEMMA OrderedNewLine ==
  ASSUME NEW lines \in Seq(Seq(Char)), NEW n
  PROVE  /\ Ordered(lines) => Ordered(Append(lines, <<>>))
         /\ UpTo(lines, n) => UpTo(Append(lines, <<>>), n)
<1> DEFINE D == Seq(Char)
           q == Append(lines, <<>>)
<1>1. <<>> \in D /\ DOMAIN <<>> = {} /\ DOMAIN lines = 1..Len(lines)
  OBVIOUS
<1>2. /\ DOMAIN q = 1..(Len(lines) + 1) /\ Len(lines) \in Nat
      /\ \A i \in 1..Len(lines) : q[i] = lines[i]
      /\ q[Len(lines) + 1] = <<>>
  <2> HIDE DEF D
  <2>1. lines \in Seq(D)
    BY DEF D
  <2> QED BY <1>1, <2>1, LastLine
<1> HIDE DEF q
<1>3. \A i \in DOMAIN q : DOMAIN q[i] = {} \/ (i \in DOMAIN lines /\ q[i] = lines[i])
  <2> TAKE i \in DOMAIN q
  <2>1. i \in 1..Len(lines) \/ i = Len(lines) + 1
    BY <1>2
  <2> QED BY <1>1, <1>2, <2>1
<1>4. Ordered(lines) => Ordered(q)
  BY <1>3 DEF Ordered
<1>5. UpTo(lines, n) => UpTo(q, n)
  BY <1>3 DEF UpTo
<1> QED BY <1>4, <1>5 DEF q

\* The next character, at the end of the last line.
LEMMA OrderedExtend ==
  ASSUME TailAssumption, NEW ls \in Seq(Seq(Char)), NEW k \in Seq(Char), NEW c \in Char, NEW n \in Int,
         Number(c) = n + 1, Ordered(Append(ls, k)), UpTo(Append(ls, k), n)
  PROVE  Ordered(Append(ls, Append(k, c))) /\ UpTo(Append(ls, Append(k, c)), n + 1)
<1> DEFINE D == Seq(Char)
           l == Append(k, c)
           p == Append(ls, k)
           q == Append(ls, l)
           z == Len(ls) + 1
           y == Len(k) + 1
<1>1. l \in D /\ k \in D /\ ls \in Seq(D) /\ Len(k) \in Nat /\ DOMAIN k = 1..Len(k)
  OBVIOUS
<1>2. DOMAIN l = 1..y /\ (\A a \in 1..Len(k) : l[a] = k[a]) /\ l[y] = c
  <2> HIDE DEF Char
  <2> QED BY LastLine
<1>3. /\ DOMAIN p = 1..z /\ DOMAIN q = 1..z /\ Len(ls) \in Nat
      /\ \A i \in 1..Len(ls) : p[i] = ls[i] /\ q[i] = ls[i]
      /\ p[z] = k /\ q[z] = l
  <2> HIDE DEF D, l
  <2> QED BY <1>1, LastLine
<1>4. \A i \in 1..Len(ls) : ls[i] \in Seq(Char)
  <2> HIDE DEF Char
  <2> QED BY ElementOfSeq
<1> HIDE DEF p, q, l, D
<1>5. \A i \in DOMAIN q : \A a \in DOMAIN q[i] :
        \/ i \in DOMAIN p /\ a \in DOMAIN p[i] /\ q[i][a] = p[i][a] /\ Number(q[i][a]) \in Int
           /\ ~(i = z /\ a = y)
        \/ i = z /\ a = y /\ q[i][a] = c
  <2> TAKE i \in DOMAIN q
  <2> TAKE a \in DOMAIN q[i]
  <2>1. CASE i \in 1..Len(ls)
    <3>0. i \in 1..z /\ i # z
      BY <1>3, <2>1
    <3>1. i \in DOMAIN p /\ q[i] = p[i] /\ i # z /\ q[i] \in Seq(Char)
      <4> DEFINE w == ls[i]
      <4>1. p[i] = w /\ q[i] = w /\ w \in Seq(Char)
        BY <1>3, <1>4, <2>1
      <4> HIDE DEF w
      <4>2. i \in DOMAIN p
        BY <1>3, <3>0
      <4> QED BY <3>0, <4>1, <4>2
    <3>2. q[i][a] \in Char
      <4> HIDE DEF Char
      <4> QED BY <3>1
    <3> QED BY <3>1, <3>2, NumberType
  <2>2. CASE i = z
    <3>1. q[i] = l /\ p[i] = k /\ a \in 1..y /\ i \in DOMAIN p
      BY <1>2, <1>3, <2>2
    <3>2. CASE a = y
      BY <1>2, <2>2, <3>1, <3>2
    <3>3. CASE a # y
      <4>1. a \in 1..Len(k)
        BY <1>1, <3>1, <3>3
      <4>2. k[a] \in Char
        <5> HIDE DEF Char
        <5> QED BY <1>1, <4>1, ElementOfSeq
      <4> QED BY <1>1, <1>2, <3>1, <3>3, <4>1, <4>2, NumberType
    <3> QED BY <3>2, <3>3
  <2>3. i \in 1..Len(ls) \/ i = z
    BY <1>3
  <2> QED BY <2>1, <2>2, <2>3
<1>6. UpTo(q, n + 1)
  <2> SUFFICES ASSUME NEW i \in DOMAIN q, NEW a \in DOMAIN q[i] PROVE Number(q[i][a]) <= n + 1
    BY DEF UpTo
  <2>1. CASE i \in DOMAIN p /\ a \in DOMAIN p[i] /\ q[i][a] = p[i][a] /\ Number(q[i][a]) \in Int
    <3>1. Number(q[i][a]) <= n
      BY <2>1 DEF UpTo, p
    <3> QED BY <2>1, <3>1
  <2>2. CASE q[i][a] = c
    BY <2>2
  <2> QED BY <1>5, <2>1, <2>2
<1>7. Ordered(q)
  <2> SUFFICES ASSUME NEW i \in DOMAIN q, NEW j \in DOMAIN q, NEW a \in DOMAIN q[i], NEW b \in DOMAIN q[j],
                      i < j \/ (i = j /\ a < b)
               PROVE  Number(q[i][a]) < Number(q[j][b])
    BY Zenon DEF Ordered
  <2>1. CASE j = z /\ b = y /\ q[j][b] = c
    <3>1. i \in 1..z /\ z \in Nat /\ y \in Nat
      BY <1>1, <1>3
    <3>2. ~(i = z /\ a = y)
      BY <2>1, <3>1
    <3>3. Number(q[i][a]) <= n /\ Number(q[i][a]) \in Int
      BY <1>5, <3>2 DEF UpTo, p
    <3> QED BY <2>1, <3>3
  <2>2. CASE j \in DOMAIN p /\ b \in DOMAIN p[j] /\ q[j][b] = p[j][b] /\ ~(j = z /\ b = y)
    <3>1. i \in 1..z /\ j \in 1..z /\ z \in Nat /\ y \in Nat
      BY <1>1, <1>3
    <3>2. ~(i = z /\ a = y)
      <4> SUFFICES ASSUME i = z, a = y PROVE FALSE
        OBVIOUS
      <4>1. j = z /\ a < b
        BY <3>1
      <4>2. b \in 1..y
        BY <1>2, <1>3, <4>1
      <4> QED BY <3>1, <4>1, <4>2
    <3>3. i \in DOMAIN p /\ a \in DOMAIN p[i] /\ q[i][a] = p[i][a]
      BY <1>5, <3>2
    <3>4. Number(p[i][a]) < Number(p[j][b])
      BY <2>2, <3>3 DEF Ordered, p
    <3> QED BY <2>2, <3>3, <3>4
  <2> QED BY <1>5, <2>1, <2>2
<1> QED BY <1>6, <1>7 DEF q, l

\* Reading on keeps the order.
LEMMA SplitOrdered ==
  ASSUME TailAssumption, NEW o \in Seq(Seq(Char)), NEW p \in Seq(Char), NEW n \in Int,
         Ordered(Append(o, p)), UpTo(Append(o, p), n),
         NEW s \in Seq(Char), \A i \in 1..Len(s) : Number(s[i]) = n + i
  PROVE  /\ Ordered(Append(o \o Split(p, s).lines, Split(p, s).carry))
         /\ UpTo(Append(o \o Split(p, s).lines, Split(p, s).carry), n + Len(s))
<1> DEFINE Shown(t) == Append(Cat(o, Split(p, t).lines), Split(p, t).carry)
           Good(t) == Ordered(Shown(t)) /\ UpTo(Shown(t), n + Len(t))
           T == {m \in Nat : \A t \in Seq(Char) :
                   Len(t) = m /\ (\A i \in 1..Len(t) : Number(t[i]) = n + i) => Good(t)}
<1>1. 0 \in T
  <2>1. \A t \in Seq(Char) : Len(t) = 0 => t = <<>>
    OBVIOUS
  <2>2. Split(p, <<>>).lines = <<>> /\ Split(p, <<>>).carry = p
    BY SplitEmpty
  <2>3. Cat(o, <<>>) = o
    BY DEF Cat
  <2>4. Shown(<<>>) = Append(o, p)
    BY <2>2, <2>3, Zenon
  <2>5. n + Len(<<>>) = n
    OBVIOUS
  <2>6. Good(<<>>)
    BY <2>4, <2>5, Zenon
  <2> HIDE DEF Good
  <2> QED BY <2>1, <2>6
<1>2. ASSUME NEW m \in Nat, m \in T PROVE m + 1 \in T
  <2> SUFFICES ASSUME NEW t \in Seq(Char), Len(t) = m + 1, \A i \in 1..Len(t) : Number(t[i]) = n + i
               PROVE  Good(t)
    <3> HIDE DEF Good
    <3> QED OBVIOUS
  <2>1. PICK u \in Seq(Char), c \in Char : t = Append(u, c)
    <3>1. t # <<>>
      OBVIOUS
    <3> HIDE DEF Char
    <3> QED BY <3>1, SequenceEmptyOrAppend
  <2>2. Len(u) = m /\ (\A i \in 1..m : u[i] = t[i]) /\ t[m + 1] = c
    <3> HIDE DEF Char
    <3> QED BY <2>1
  <2>3. Good(u)
    <3>1. \A i \in 1..Len(u) : Number(u[i]) = n + i
      <4> TAKE i \in 1..Len(u)
      <4>1. i \in 1..m /\ i \in 1..Len(t)
        BY <2>2
      <4> QED BY <2>2, <4>1
    <3> HIDE DEF Good
    <3> QED BY <1>2, <2>2, <3>1
  <2>4. Number(c) = (n + m) + 1
    <3>1. m + 1 \in 1..Len(t) /\ n + (m + 1) = (n + m) + 1
      OBVIOUS
    <3> QED BY <2>2, <3>1
  <2> DEFINE x == Split(p, u)
             ls == Cat(o, x.lines)
  <2>5. Split(p, t) = Feed(x, c)
    <3> HIDE DEF Char
    <3> QED BY <2>1, SplitAppend
  <2>6. x \in Acc(Char) /\ x.lines \in Seq(Seq(Char)) /\ x.carry \in Seq(Char)
    <3> HIDE DEF Char
    <3> QED BY SplitType DEF Acc
  <2>7. ls \in Seq(Seq(Char))
    <3> HIDE DEF x, Char
    <3>1. o \o x.lines \in Seq(Seq(Char))
      BY <2>6, ConcatProperties
    <3> QED BY <3>1 DEF Cat
  <2>8. Ordered(Append(ls, x.carry)) /\ UpTo(Append(ls, x.carry), n + m)
    BY <2>2, <2>3, Zenon
  <2> HIDE DEF x
  <2>9. CASE c.part = Width
    <3>1. Feed(x, c).lines = Append(x.lines, x.carry) /\ Feed(x, c).carry = <<>>
      <4>1. Feed(x, c) = [lines |-> Append(x.lines, x.carry), carry |-> <<>>]
        BY <2>6, <2>9, FeedSimple, Zenon
      <4> QED BY <4>1
    <3> DEFINE D == Seq(Char)
               l == x.lines
               k == x.carry
    <3>2. Cat(o, Append(x.lines, x.carry)) = Append(ls, x.carry)
      <4>1. l \in Seq(D) /\ k \in D /\ o \in Seq(D)
        BY <2>6
      <4> HIDE DEF D, l, k
      <4>2. o \o Append(l, k) = Append(o \o l, k)
        BY <4>1, ConcatAppend
      <4> QED BY <4>2, Zenon DEF Cat, l, k
    <3>3. Shown(t) = Append(Append(ls, x.carry), <<>>)
      BY <2>5, <3>1, <3>2, Zenon
    <3> DEFINE lines == Append(ls, x.carry)
    <3>4. lines \in Seq(Seq(Char))
      <4> HIDE DEF ls
      <4>1. ls \in Seq(D) /\ k \in D
        BY <2>6, <2>7
      <4> HIDE DEF D, k
      <4>2. Append(ls, k) \in Seq(D)
        BY <4>1
      <4> QED BY <4>2 DEF D, k
    <3>5. UpTo(lines, n + (m + 1))
      <4>1. \A i \in DOMAIN lines : lines[i] \in Seq(Char)
        <5> DEFINE E == Seq(Char)
        <5>1. lines \in Seq(E)
          BY <3>4
        <5> HIDE DEF lines, E
        <5>2. \A i \in DOMAIN lines : lines[i] \in E
          BY <5>1
        <5> QED BY <5>2 DEF E
      <4> HIDE DEF lines
      <4>2. ASSUME NEW i \in DOMAIN lines, NEW a \in DOMAIN lines[i] PROVE Number(lines[i][a]) \in Int
        <5>1. lines[i][a] \in Char
          <6> DEFINE w == lines[i]
          <6>1. w \in Seq(Char) /\ a \in DOMAIN w
            BY <4>1
          <6> HIDE DEF w, Char
          <6>2. w[a] \in Char
            BY <6>1
          <6> QED BY <6>2 DEF w
        <5> QED BY <5>1, NumberType
      <4>3. UpTo(lines, n + m)
        BY <2>8 DEF lines
      <4> QED BY <4>2, <4>3 DEF UpTo
    <3>6. Ordered(Append(lines, <<>>)) /\ UpTo(Append(lines, <<>>), n + (m + 1))
      <4>1. Ordered(lines)
        BY <2>8
      <4> HIDE DEF lines
      <4> QED BY <3>4, <3>5, <4>1, OrderedNewLine
    <3> QED BY <3>3, <3>6, Zenon
  <2>10. CASE c.part # Width
    <3>1. Feed(x, c).lines = x.lines /\ Feed(x, c).carry = Append(x.carry, c)
      <4>1. Feed(x, c) = [lines |-> x.lines, carry |-> Append(x.carry, c)]
        BY <2>6, <2>10, FeedSimple, Zenon
      <4> QED BY <4>1
    <3>2. Shown(t) = Append(ls, Append(x.carry, c))
      BY <2>5, <3>1, Zenon
    <3>3. Ordered(Append(ls, Append(x.carry, c))) /\ UpTo(Append(ls, Append(x.carry, c)), (n + m) + 1)
      <4> DEFINE k == x.carry
                 q == n + m
      <4>1. k \in Seq(Char) /\ q \in Int /\ Number(c) = q + 1 /\ Ordered(Append(ls, k)) /\ UpTo(Append(ls, k), q)
        BY <2>4, <2>6, <2>8
      <4> HIDE DEF k, q, ls
      <4>2. Ordered(Append(ls, Append(k, c))) /\ UpTo(Append(ls, Append(k, c)), q + 1)
        BY <2>7, <4>1, OrderedExtend
      <4> QED BY <4>2 DEF k, q
    <3>4. (n + m) + 1 = n + (m + 1)
      OBVIOUS
    <3> HIDE DEF Shown
    <3> QED BY <3>2, <3>3, <3>4, Zenon
  <2> QED BY <2>9, <2>10
<1> HIDE DEF T
<1>3. Nat \subseteq T
  BY <1>1, <1>2, Induction
<1>4. Len(s) \in T
  BY <1>3
<1>5. Good(s)
  BY <1>4 DEF T
<1> QED BY <1>5, Zenon DEF Cat

\* Every step keeps what was shown behind the cursor and in order.
LEMMA OrderStep ==
  ASSUME TailAssumption, TailInv, Behind, InOrder, [Next]_vars
  PROVE  Behind' /\ InOrder'
<1> SUFFICES ASSUME "remove" \notin ToSet(events') PROVE Behind' /\ InOrder'
  BY DEF Behind, InOrder
<1> DEFINE base == written - Len(file)
           read == IF pos <= Len(file) THEN pos ELSE 0
           lines == Append(out, carry)
<1>0. /\ pos \in Nat /\ size \in Nat /\ written \in Nat
      /\ file # None => file \in Seq(Char) /\ Len(file) \in Nat
      /\ carry \in Seq(Char) /\ out \in Seq(Seq(Char))
      /\ events \in Seq(Events)
  <2>1. MaxLines * Width \in Nat
    BY DEF TailAssumption
  <2> QED BY <2>1 DEF TailInv, TypeOK
<1>01. StepShape /\ FileShape /\ TypeOK
  BY DEF TailInv
<1>02. ASSUME NEW e, Disturb(e)
       PROVE  e # "remove" /\ "remove" \notin ToSet(events)
  <2>1. e \in Events /\ events' = Append(events, e)
    BY <1>02 DEF Disturb
  <2>2. /\ DOMAIN events' = 1..(Len(events) + 1) /\ DOMAIN events = 1..Len(events)
        /\ Len(events) \in Nat
        /\ (\A i \in 1..Len(events) : events'[i] = events[i])
        /\ events'[Len(events) + 1] = e
    BY <1>0, <2>1
  <2>3. \A i \in DOMAIN events' : events'[i] # "remove"
    BY DEF ToSet
  <2>4. \A i \in DOMAIN events : events[i] # "remove"
    BY <2>2, <2>3
  <2>5. e # "remove"
    BY <2>2, <2>3
  <2> QED BY <2>4, <2>5 DEF ToSet
<1>03. ~Unlink
  BY <1>02 DEF Unlink
<1>04. "remove" \notin ToSet(events)
  BY <1>02, <1>03 DEF Next, FollowStep, Truncate, Write, Create, SeekEnd, Gone, Stat, ReadNew, disk, vars
<1>05. /\ file = None => ~opened
       /\ opened => ino = inode
       /\ ~opened => carry = <<>> /\ out = <<>>
       /\ file # None => UpTo(lines, base + read)
       /\ Ordered(lines)
  BY <1>04 DEF Behind, InOrder
<1>06. \A n : UpTo(<<<<>>>>, n) /\ Ordered(<<<<>>>>) /\ Append(<<>>, <<>>) = <<<<>>>>
  <2>1. DOMAIN <<<<>>>> = {1} /\ <<<<>>>>[1] = <<>> /\ DOMAIN <<>> = {} /\ Append(<<>>, <<>>) = <<<<>>>>
    OBVIOUS
  <2> QED BY <2>1 DEF UpTo, Ordered
<1>07. ASSUME NEW m \in Int, NEW n \in Int, m <= n, UpTo(lines, m) PROVE UpTo(lines, n)
  <2>1. lines \in Seq(Seq(Char))
    <3> DEFINE D == Seq(Char)
    <3>1. out \in Seq(D) /\ carry \in D
      BY <1>0
    <3> HIDE DEF D
    <3>2. lines \in Seq(D)
      BY <3>1
    <3> QED BY <3>2 DEF D
  <2>2. \A i \in DOMAIN lines : lines[i] \in Seq(Char)
    <3> DEFINE D == Seq(Char)
    <3>1. lines \in Seq(D)
      BY <2>1
    <3> HIDE DEF D, lines
    <3>2. \A i \in DOMAIN lines : lines[i] \in D
      BY <3>1
    <3> QED BY <3>2 DEF D
  <2> HIDE DEF lines
  <2>3. ASSUME NEW i \in DOMAIN lines, NEW a \in DOMAIN lines[i] PROVE Number(lines[i][a]) \in Int
    <3> DEFINE w == lines[i]
    <3>1. w \in Seq(Char) /\ a \in DOMAIN w
      BY <2>2
    <3> HIDE DEF w, Char
    <3>2. w[a] \in Char
      BY <3>1
    <3>3. Number(w[a]) \in Int
      BY <3>2, NumberType
    <3> QED BY <3>3 DEF w
  <2> QED BY <1>07, <2>3 DEF UpTo
<1>1. CASE Write
  <2>1. /\ file' \in Seq(Char) /\ Len(file') - written' = Len(file) - written
        /\ Len(file) <= Len(file') /\ Len(file') \in Nat
        /\ written' \in Nat
    <3>1. MaxLines * Width \in Nat
      BY DEF TailAssumption
    <3> QED BY <1>1, <3>1, WriteShape
  <2>2. file # None /\ UNCHANGED <<inode, events, pc, pos, ino, opened, carry, size, out, skipped>>
    BY <1>1 DEF Write, seen
  <2>3. file' # None
    BY <2>1 DEF TailAssumption
  <2> DEFINE there == written' - Len(file') + (IF pos <= Len(file') THEN pos ELSE 0)
  <2>4. base + read \in Int /\ there \in Int /\ base + read <= there
    BY <1>0, <2>1, <2>2
  <2>5. UpTo(lines, there)
    <3> HIDE DEF lines, there, base, read
    <3> QED BY <1>05, <1>07, <2>2, <2>4
  <2>6. Behind'
    BY <1>05, <2>2, <2>3, <2>5 DEF Behind
  <2> QED BY <1>05, <2>2, <2>6 DEF InOrder
<1>2. CASE Truncate
  <2>1. file' = <<>> /\ file # None /\ UNCHANGED <<inode, written, pc, pos, ino, opened, carry, size, out, skipped>>
    BY <1>2 DEF Truncate, Disturb, seen
  <2> DEFINE there == written' - Len(file') + (IF pos <= Len(file') THEN pos ELSE 0)
  <2>2. base + read \in Int /\ there \in Int /\ base + read <= there
    <3>1. Len(file') = 0
      BY <2>1
    <3>2. Len(file) <= written
      BY <1>01, <2>1 DEF FileShape
    <3> QED BY <1>0, <2>1, <3>1, <3>2
  <2>3. UpTo(lines, there)
    <3> HIDE DEF lines, there, base, read
    <3> QED BY <1>05, <1>07, <2>1, <2>2
  <2>4. file' # None
    <3>1. <<>> \in Seq(Char)
      OBVIOUS
    <3> QED BY <2>1, <3>1 DEF TailAssumption
  <2>5. Behind'
    BY <1>05, <2>1, <2>3, <2>4 DEF Behind
  <2> QED BY <1>05, <2>1, <2>5 DEF InOrder
<1>3. CASE Create
  <2>1. file = None /\ UNCHANGED <<written, events, pc, pos, ino, opened, carry, size, out, skipped>>
    BY <1>3 DEF Create, seen
  <2>2. ~opened /\ carry = <<>> /\ out = <<>>
    BY <1>05, <2>1
  <2> QED BY <1>06, <2>1, <2>2 DEF Behind, InOrder
<1>4. CASE SeekEnd
  <2>1. ~opened /\ UNCHANGED disk /\ UNCHANGED <<size, carry, out>>
    BY <1>01, <1>4 DEF SeekEnd, StepShape
  <2>2. carry = <<>> /\ out = <<>>
    BY <1>05, <2>1
  <2>3. (file = None => opened' = opened) /\ (opened' => ino' = inode)
    BY <1>4, <2>1 DEF SeekEnd
  <2> QED BY <1>05, <1>06, <2>1, <2>2, <2>3 DEF disk, Behind, InOrder
<1>5. CASE Gone
  <2>1. file = None /\ UNCHANGED disk /\ UNCHANGED <<out, skipped>> /\ carry' = <<>> /\ opened' = FALSE
    BY <1>5 DEF Gone
  <2>2. out = <<>>
    BY <1>05, <2>1
  <2> QED BY <1>06, <2>1, <2>2 DEF disk, Behind, InOrder
<1>6. CASE Stat
  <2>1. file # None /\ UNCHANGED disk /\ UNCHANGED <<out, skipped>> /\ opened' = TRUE /\ ino' = inode
    BY <1>6 DEF Stat
  <2>2. CASE Rotated
    <3>1. pos' = 0 /\ carry' = <<>>
      BY <1>6, <2>2 DEF Stat
    <3>2. ~opened \/ Len(file) < pos
      BY <1>05, <2>2 DEF Rotated
    <3>3. UpTo(Append(out, <<>>), base) /\ Ordered(Append(out, <<>>))
      <4>1. CASE ~opened
        BY <1>05, <1>06, <4>1
      <4>2. CASE Len(file) < pos
        <5>1. base + read = base
          BY <1>0, <2>1, <4>2
        <5>2. UpTo(Append(out, carry), base) /\ Ordered(Append(out, carry))
          BY <1>05, <2>1, <5>1
        <5> HIDE DEF base
        <5> QED BY <1>0, <5>2, OrderedDrop
      <4> QED BY <3>2, <4>1, <4>2
    <3>4. base + (IF 0 <= Len(file) THEN 0 ELSE 0) = base
      BY <1>0, <2>1
    <3>5. Behind'
      BY <2>1, <3>1, <3>3, <3>4 DEF disk, Behind
    <3> QED BY <2>1, <3>1, <3>3, <3>5 DEF disk, InOrder
  <2>3. CASE ~Rotated
    <3>1. pos' = pos /\ carry' = carry
      BY <1>6, <2>3 DEF Stat
    <3> QED BY <1>05, <2>1, <3>1 DEF disk, Behind, InOrder
  <2> QED BY <2>2, <2>3
<1>7. CASE ReadNew
  <2>1. opened /\ pos < size /\ file # None
    BY <1>01, <1>05, <1>7 DEF ReadNew, StepShape
  <2>2. /\ pos' = pos + Len(Chunk) /\ UNCHANGED disk /\ UNCHANGED <<ino, opened, size, skipped>>
        /\ out' = out \o Split(carry, Chunk).lines /\ carry' = Split(carry, Chunk).carry
    BY <1>7 DEF ReadNew
  <2>3. CASE Chunk = <<>>
    <3>1. pos' = pos
      BY <1>0, <2>2, <2>3
    <3>2. Split(carry, <<>>).lines = <<>> /\ Split(carry, <<>>).carry = carry
      BY SplitEmpty
    <3>3. out' = out /\ carry' = carry
      BY <1>0, <2>2, <2>3, <3>2
    <3> QED BY <1>05, <2>1, <2>2, <3>1, <3>3 DEF disk, Behind, InOrder
  <2>4. CASE Chunk # <<>>
    <3>1. PICK e \in (pos + 1)..Len(file) :
            /\ Len(Chunk) = e - pos /\ Chunk \in Seq(Char)
            /\ \A i \in 1..(e - pos) : Chunk[i] = file[pos + i]
      BY <1>01, <2>1, <2>4, ChunkShape
    <3> DEFINE n == base + pos
               s == Chunk
    <3>2. pos' = e /\ pos <= Len(file) /\ e <= Len(file) /\ e \in Nat /\ n \in Int
      BY <1>0, <2>1, <2>2, <3>1
    <3>3. UpTo(lines, n)
      BY <1>05, <2>1, <3>2
    <3>4. \A i \in 1..Len(s) : Number(s[i]) = n + i
      <4> TAKE i \in 1..Len(s)
      <4>1. i \in 1..(e - pos) /\ pos + i \in 1..Len(file) /\ i \in Nat
        BY <1>0, <3>1, <3>2
      <4>2. s[i] = Nth(written - Len(file) + (pos + i))
        <5>1. s[i] = file[pos + i]
          BY <3>1, <4>1
        <5> HIDE DEF s
        <5> QED BY <1>01, <2>1, <4>1, <5>1 DEF FileShape
      <4>3. written - Len(file) + (pos + i) = n + i /\ n + i \in Nat \ {0}
        <5>1. Len(file) <= written
          BY <1>01, <2>1 DEF FileShape
        <5> QED BY <1>0, <2>1, <4>1, <5>1
      <4> HIDE DEF s, n
      <4> QED BY <4>2, <4>3, NthNumber
    <3>5. s \in Seq(Char) /\ n + Len(s) = base + e
      BY <1>0, <2>1, <3>1, <3>2
    <3>6. /\ Ordered(Append(out \o Split(carry, s).lines, Split(carry, s).carry))
          /\ UpTo(Append(out \o Split(carry, s).lines, Split(carry, s).carry), n + Len(s))
      <4>1. Ordered(Append(out, carry)) /\ UpTo(Append(out, carry), n)
        BY <1>05, <3>3
      <4> HIDE DEF s, n, lines
      <4> QED BY <1>0, <3>2, <3>4, <3>5, <4>1, SplitOrdered
    <3>7. Ordered(Append(out', carry')) /\ UpTo(Append(out', carry'), base + e)
      BY <2>2, <3>5, <3>6, Zenon
    <3>8. Behind'
      BY <1>05, <2>1, <2>2, <3>2, <3>7 DEF disk, Behind
    <3> QED BY <2>2, <3>7, <3>8 DEF disk, InOrder
  <2> QED BY <2>3, <2>4
<1>8. CASE UNCHANGED vars
  BY <1>8 DEF vars, Behind, InOrder
<1> QED BY <1>03, <1>1, <1>2, <1>3, <1>4, <1>5, <1>6, <1>7, <1>8 DEF Next, FollowStep

\* Whatever happens to the file, as long as it is not removed: no character is
\* shown twice or behind a later one.
THEOREM LinesAreInOrder == TailAssumption => (Spec => []InOrder)
<1> SUFFICES ASSUME TailAssumption PROVE Spec => []InOrder
  OBVIOUS
<1>1. Init => Behind /\ InOrder
  <2> SUFFICES ASSUME Init PROVE Behind /\ InOrder
    OBVIOUS
  <2>1. DOMAIN <<<<>>>> = {1} /\ <<<<>>>>[1] = <<>> /\ DOMAIN <<>> = {} /\ Append(<<>>, <<>>) = <<<<>>>>
    OBVIOUS
  <2>2. \A n : UpTo(Append(<<>>, <<>>), n) /\ Ordered(Append(<<>>, <<>>))
    BY <2>1 DEF UpTo, Ordered
  <2> QED BY <2>2 DEF Init, Behind, InOrder
<1>2. TailInv /\ Behind /\ InOrder /\ [Next]_vars => (Behind /\ InOrder)'
  BY OrderStep
<1> QED BY <1>1, <1>2, TailInvariant, PTL DEF Spec
==============================================================================
