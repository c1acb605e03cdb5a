-------------------------- MODULE OrderedSequences --------------------------
(***************************************************************************)
(* Strictly increasing sequences of numbers: what queues of messages in    *)
(* the order of their numbers are, and what the operations on queues keep  *)
(* of it; and what the loops that erase elements (Erasing) leave.          *)
(***************************************************************************)
EXTENDS Erasing, Integers, Sequences, TLAPS, SequenceTheorems, WellFoundedInduction

(* A non-empty set of naturals has a least element: what makes the loops   *)
(* that stop at the first item that fits well defined (ct_load,            *)
(* permFIFO_ack, the ACK line in transport_client.c).                      *)
LEMMA LeastNatural ==
  ASSUME NEW T \in SUBSET Nat, T # {}
  PROVE  \E x \in T : \A y \in T : x <= y
<1> DEFINE R == OpToRel(<, Nat)
<1>1. IsWellFoundedOn(R, Nat)
  BY NatLessThanWellFounded
<1>2. \A a, b \in Nat : a < b => <<a, b>> \in R
  BY DEF OpToRel
<1> HIDE DEF R
<1>3. PICK x \in T : \A y \in T : ~ (<<y, x>> \in R)
  BY <1>1, WFMin
<1>4. ASSUME NEW y \in T
      PROVE  x <= y
  <2>1. x \in Nat /\ y \in Nat
    OBVIOUS
  <2>2. ~ (y < x)
    BY <1>2, <1>3, <2>1, Zenon
  <2> QED BY <2>1, <2>2
<1> QED BY <1>4

(* Induction, on a set: what holds of 0, and of n + 1 when it holds of n.  *)
LEMMA InductionOnNat ==
  ASSUME NEW T, 0 \in T, \A n \in Nat : n \in T => n + 1 \in T
  PROVE  \A n \in Nat : n \in T
<1> DEFINE Bad == {n \in Nat : n \notin T}
<1>1. ASSUME Bad # {} PROVE FALSE
  <2>1. PICK m \in Bad : \A k \in Bad : m <= k
    BY <1>1, LeastNatural
  <2>2. m - 1 \in Nat /\ (m - 1) + 1 = m
    BY <2>1
  <2>3. m - 1 \in T
    BY <2>1, <2>2
  <2> QED BY <2>1, <2>2, <2>3
<1> QED BY <1>1

Increasing(s) == \A i, j \in 1 .. Len(s) : i < j => s[i] < s[j]

(* All the elements of s are below n; above n; below all those of t.       *)
AllBelow(s, n)  == \A i \in 1 .. Len(s) : s[i] < n
AllAbove(n, s)  == \A i \in 1 .. Len(s) : n < s[i]
Precedes(s, t)  == \A i \in 1 .. Len(s) : AllAbove(s[i], t)

(* The empty sequence is in any order.                                     *)
LEMMA EmptyOrdered ==
  /\ Increasing(<<>>)
  /\ \A n : AllBelow(<<>>, n) /\ AllAbove(n, <<>>)
  /\ \A s : Precedes(<<>>, s) /\ Precedes(s, <<>>)
<1>1. 1 .. Len(<<>>) = {}
  OBVIOUS
<1> QED BY <1>1 DEF Increasing, AllBelow, AllAbove, Precedes

(* The elements of a sequence with one more.                               *)
LEMMA AppendElements ==
  ASSUME NEW s \in Seq(Nat), NEW x \in Nat
  PROVE  /\ Append(s, x) \in Seq(Nat) /\ Len(Append(s, x)) = Len(s) + 1
         /\ \A i \in 1 .. Len(s) : Append(s, x)[i] = s[i]
         /\ Append(s, x)[Len(s) + 1] = x
         /\ \A i \in 1 .. Len(Append(s, x)) : i \in 1 .. Len(s) \/ i = Len(s) + 1
OBVIOUS

(* A queue stays in order when what is put at its end is above the rest.   *)
LEMMA AppendIncreasing ==
  ASSUME NEW s \in Seq(Nat), NEW x \in Nat, Increasing(s), AllBelow(s, x)
  PROVE  Increasing(Append(s, x))
<1> DEFINE a == Append(s, x)
<1>1. /\ Len(s) \in Nat /\ Len(a) = Len(s) + 1 /\ a[Len(s) + 1] = x
      /\ \A i \in 1 .. Len(s) : a[i] = s[i]
      /\ \A i \in 1 .. Len(a) : i \in 1 .. Len(s) \/ i = Len(s) + 1
  BY AppendElements
<1> HIDE DEF a
<1> SUFFICES ASSUME NEW i \in 1 .. Len(a), NEW j \in 1 .. Len(a), i < j
             PROVE  a[i] < a[j]
  BY DEF Increasing, a
<1>2. i \in 1 .. Len(s)
  BY <1>1
<1>3. CASE j \in 1 .. Len(s)
  BY <1>1, <1>2, <1>3 DEF Increasing
<1>4. CASE j = Len(s) + 1
  BY <1>1, <1>2, <1>4 DEF AllBelow
<1> QED BY <1>1, <1>3, <1>4

(* The same for bounds, and for a queue before or after another.           *)
LEMMA AppendBounds ==
  ASSUME NEW s \in Seq(Nat), NEW x \in Nat
  PROVE  /\ \A n : AllBelow(s, n) /\ x < n => AllBelow(Append(s, x), n)
         /\ \A n : AllAbove(n, s) /\ n < x => AllAbove(n, Append(s, x))
         /\ \A t : Precedes(t, s) /\ AllBelow(t, x) => Precedes(t, Append(s, x))
         /\ \A t : Precedes(s, t) /\ AllAbove(x, t) => Precedes(Append(s, x), t)
<1> DEFINE a == Append(s, x)
<1>1. /\ Len(s) \in Nat /\ Len(a) = Len(s) + 1 /\ a[Len(s) + 1] = x
      /\ \A i \in 1 .. Len(s) : a[i] = s[i]
      /\ \A i \in 1 .. Len(a) : i \in 1 .. Len(s) \/ i = Len(s) + 1
  BY AppendElements
<1> HIDE DEF a
<1>2. \A n : AllBelow(s, n) /\ x < n => AllBelow(a, n)
  BY <1>1 DEF AllBelow
<1>3. \A n : AllAbove(n, s) /\ n < x => AllAbove(n, a)
  BY <1>1 DEF AllAbove
<1>4. \A t : Precedes(t, s) /\ AllBelow(t, x) => Precedes(t, a)
  BY <1>3 DEF Precedes, AllBelow
<1>5. \A t : Precedes(s, t) /\ AllAbove(x, t) => Precedes(a, t)
  BY <1>1 DEF Precedes
<1> QED BY <1>2, <1>3, <1>4, <1>5 DEF a

(* A queue loses its head, which was below the rest.                       *)
LEMMA TailOrdered ==
  ASSUME NEW s \in Seq(Nat), s # <<>>
  PROVE  /\ Tail(s) \in Seq(Nat) /\ Head(s) \in Nat
         /\ Increasing(s) => Increasing(Tail(s)) /\ AllAbove(Head(s), Tail(s))
         /\ \A n : AllBelow(s, n) => AllBelow(Tail(s), n) /\ Head(s) < n
         /\ \A n : AllAbove(n, s) => AllAbove(n, Tail(s)) /\ n < Head(s)
         /\ \A t : Precedes(t, s) => Precedes(t, Tail(s)) /\ AllBelow(t, Head(s))
         /\ \A t : Precedes(s, t) => Precedes(Tail(s), t) /\ AllAbove(Head(s), t)
<1> DEFINE r == Tail(s)
<1>1. /\ Len(s) \in Nat \ {0} /\ Head(s) = s[1] /\ s[1] \in Nat /\ r \in Seq(Nat)
      /\ Len(r) = Len(s) - 1
      /\ \A i \in 1 .. Len(r) : r[i] = s[i + 1]
  BY HeadTailProperties
<1> HIDE DEF r
<1>2. 1 \in 1 .. Len(s) /\ \A i \in 1 .. Len(r) : i + 1 \in 1 .. Len(s) /\ 1 < i + 1
  BY <1>1
<1>3. ASSUME Increasing(s) PROVE Increasing(r) /\ AllAbove(s[1], r)
  <2>1. ASSUME NEW i \in 1 .. Len(r), NEW j \in 1 .. Len(r), i < j
        PROVE  r[i] < r[j]
    <3>1. i + 1 < j + 1 /\ r[i] = s[i + 1] /\ r[j] = s[j + 1]
      BY <1>1, <2>1
    <3> QED BY <1>2, <1>3, <3>1 DEF Increasing
  <2>2. AllAbove(s[1], r)
    BY <1>1, <1>2, <1>3 DEF Increasing, AllAbove
  <2> QED BY <2>1, <2>2 DEF Increasing
<1>4. \A n : AllBelow(s, n) => AllBelow(r, n) /\ s[1] < n
  BY <1>1, <1>2 DEF AllBelow
<1>5. \A n : AllAbove(n, s) => AllAbove(n, r) /\ n < s[1]
  BY <1>1, <1>2 DEF AllAbove
<1>6. \A t : Precedes(t, s) => Precedes(t, r) /\ AllBelow(t, s[1])
  BY <1>5 DEF Precedes, AllBelow
<1>7. \A t : Precedes(s, t) => Precedes(r, t) /\ AllAbove(s[1], t)
  BY <1>1, <1>2 DEF Precedes
<1> QED BY <1>1, <1>3, <1>4, <1>5, <1>6, <1>7 DEF r

(* Two queues in order, one before the other, are one in order.            *)
LEMMA ConcatIncreasing ==
  ASSUME NEW s \in Seq(Nat), NEW t \in Seq(Nat),
         Increasing(s), Increasing(t), Precedes(s, t)
  PROVE  s \o t \in Seq(Nat) /\ Increasing(s \o t)
<1> DEFINE c == s \o t
<1>1. /\ Len(s) \in Nat /\ Len(t) \in Nat /\ c \in Seq(Nat)
      /\ Len(c) = Len(s) + Len(t)
      /\ \A i \in 1 .. Len(c) : IF i <= Len(s) THEN c[i] = s[i] ELSE c[i] = t[i - Len(s)]
  BY ConcatProperties
<1> HIDE DEF c
<1> SUFFICES ASSUME NEW i \in 1 .. Len(c), NEW j \in 1 .. Len(c), i < j
             PROVE  c[i] < c[j]
  BY <1>1 DEF Increasing, c
<1>2. CASE j <= Len(s)
  <2>1. i \in 1 .. Len(s) /\ j \in 1 .. Len(s) /\ c[i] = s[i] /\ c[j] = s[j]
    BY <1>1, <1>2
  <2> QED BY <2>1 DEF Increasing
<1>3. CASE i > Len(s)
  <2>1. /\ i - Len(s) \in 1 .. Len(t) /\ j - Len(s) \in 1 .. Len(t)
        /\ i - Len(s) < j - Len(s) /\ ~(i <= Len(s)) /\ ~(j <= Len(s))
    BY <1>1, <1>3, SMTT(30)
  <2>2. c[i] = t[i - Len(s)] /\ c[j] = t[j - Len(s)]
    BY <1>1, <2>1
  <2> QED BY <2>1, <2>2 DEF Increasing
<1>4. CASE i <= Len(s) /\ j > Len(s)
  <2>1. /\ i \in 1 .. Len(s) /\ j - Len(s) \in 1 .. Len(t)
        /\ c[i] = s[i] /\ c[j] = t[j - Len(s)]
    BY <1>1, <1>4
  <2> QED BY <2>1 DEF Precedes, AllAbove
<1> QED BY <1>1, <1>2, <1>3, <1>4

(* What comes after both comes after their concatenation.                  *)
LEMMA ConcatPrecedes ==
  ASSUME NEW s \in Seq(Nat), NEW t \in Seq(Nat), NEW u,
         Precedes(s, u), Precedes(t, u)
  PROVE  Precedes(s \o t, u)
<1> DEFINE c == s \o t
<1>1. /\ Len(s) \in Nat /\ Len(t) \in Nat
      /\ Len(c) = Len(s) + Len(t)
      /\ \A i \in 1 .. Len(c) : IF i <= Len(s) THEN c[i] = s[i] ELSE c[i] = t[i - Len(s)]
  BY ConcatProperties
<1> HIDE DEF c
<1>2. ASSUME NEW i \in 1 .. Len(c)
      PROVE  \/ i \in 1 .. Len(s) /\ c[i] = s[i]
             \/ i - Len(s) \in 1 .. Len(t) /\ c[i] = t[i - Len(s)]
  BY <1>1
<1> QED BY <1>2 DEF Precedes, c

-----------------------------------------------------------------------------
(* f gives what the loop has left of the first i elements, for i up to n.  *)
EraseLoop(s, gone, n, f) ==
  f = [i \in 0 .. n |->
         IF i = 0 THEN <<>>
         ELSE IF i \in gone THEN f[i - 1] ELSE Append(f[i - 1], s[i])]

(* It goes on to the next element.                                         *)
LEMMA EraseLoopGoesOn ==
  ASSUME NEW s, NEW gone, NEW n \in Nat, NEW f, EraseLoop(s, gone, n, f)
  PROVE  \E g : EraseLoop(s, gone, n + 1, g)
<1> DEFINE last == IF n + 1 \in gone THEN f[n] ELSE Append(f[n], s[n + 1])
           g == [i \in 0 .. n + 1 |-> IF i = n + 1 THEN last ELSE f[i]]
<1>1. \A i \in 0 .. n : f[i] = IF i = 0 THEN <<>>
                               ELSE IF i \in gone THEN f[i - 1] ELSE Append(f[i - 1], s[i])
  BY DEF EraseLoop
<1>2. g[n + 1] = last /\ \A i \in 0 .. n : g[i] = f[i]
  OBVIOUS
<1> DEFINE h(i) == IF i = 0 THEN <<>>
                   ELSE IF i \in gone THEN g[i - 1] ELSE Append(g[i - 1], s[i])
<1>3. ASSUME NEW i \in 0 .. n + 1 PROVE (IF i = n + 1 THEN last ELSE f[i]) = h(i)
  <2>1. CASE i = n + 1
    <3>1. i # 0 /\ i - 1 = n /\ n \in 0 .. n
      BY <2>1
    <3>2. g[i - 1] = f[n]
      BY <1>2, <3>1
    <3> HIDE DEF g
    <3> QED BY <2>1, <3>1, <3>2
  <2>2. CASE i # n + 1
    <3>1. i \in 0 .. n /\ (i # 0 => i - 1 \in 0 .. n)
      BY <2>2
    <3>2. i # 0 => g[i - 1] = f[i - 1]
      BY <1>2, <3>1
    <3>3. f[i] = h(i)
      <4> HIDE DEF g
      <4> QED BY <1>1, <3>1, <3>2
    <3> QED BY <2>2, <3>3
  <2> QED BY <2>1, <2>2
<1>4. g = [i \in 0 .. n + 1 |-> h(i)]
  BY <1>3
<1>5. EraseLoop(s, gone, n + 1, g)
  BY <1>4, Zenon DEF EraseLoop
<1> QED BY <1>5

(* So there is such a function, the one that the loop computes.            *)
LEMMA EraseLoopEnds ==
  ASSUME NEW s, NEW gone, NEW n \in Nat
  PROVE  \E f : EraseLoop(s, gone, n, f)
<1> DEFINE T == {m \in Nat : \E f : EraseLoop(s, gone, m, f)}
<1>1. 0 \in T
  <2> DEFINE f == [i \in 0 .. 0 |-> <<>>]
  <2>1. EraseLoop(s, gone, 0, f)
    BY DEF EraseLoop
  <2> QED BY <2>1
<1>2. \A m \in Nat : m \in T => m + 1 \in T
  BY EraseLoopGoesOn
<1> HIDE DEF T
<1>3. n \in T
  BY <1>1, <1>2, InductionOnNat
<1> QED BY <1>3 DEF T

(* And what is left at the end is its value for all of s.                  *)
LEMMA ErasedIs ==
  ASSUME NEW s, NEW gone, Len(s) \in Nat
  PROVE  \E f : EraseLoop(s, gone, Len(s), f) /\ Erased(s, gone) = f[Len(s)]
<1> DEFINE f == CHOOSE f : EraseLoop(s, gone, Len(s), f)
<1>1. EraseLoop(s, gone, Len(s), f)
  BY EraseLoopEnds
<1>2. Erased(s, gone) = f[Len(s)]
  BY DEF Erased, EraseLoop
<1> QED BY <1>1, <1>2

(* What is left is a sequence of the same kind.                            *)
LEMMA ErasedType ==
  ASSUME NEW S, NEW s \in Seq(S), NEW gone
  PROVE  Erased(s, gone) \in Seq(S)
<1>1. Len(s) \in Nat
  OBVIOUS
<1>2. PICK f : EraseLoop(s, gone, Len(s), f) /\ Erased(s, gone) = f[Len(s)]
  BY <1>1, ErasedIs
<1>3. \A i \in 0 .. Len(s) :
        f[i] = IF i = 0 THEN <<>>
               ELSE IF i \in gone THEN f[i - 1] ELSE Append(f[i - 1], s[i])
  BY <1>2 DEF EraseLoop
<1> DEFINE T == {i \in Nat : i <= Len(s) => f[i] \in Seq(S)}
<1>4. 0 \in T
  <2>1. f[0] = <<>>
    BY <1>1, <1>3
  <2>2. <<>> \in Seq(S)
    BY EmptySeq
  <2> QED BY <2>1, <2>2
<1>5. ASSUME NEW i \in Nat, i \in T PROVE i + 1 \in T
  <2> SUFFICES ASSUME i + 1 <= Len(s) PROVE f[i + 1] \in Seq(S)
    OBVIOUS
  <2>1. /\ i <= Len(s) /\ i + 1 \in 0 .. Len(s) /\ i + 1 # 0 /\ (i + 1) - 1 = i
        /\ i + 1 \in 1 .. Len(s)
    BY <1>1
  <2>2. f[i] \in Seq(S) /\ s[i + 1] \in S
    BY <1>5, <2>1
  <2>3. f[i + 1] = IF i + 1 \in gone THEN f[i] ELSE Append(f[i], s[i + 1])
    BY <1>3, <2>1
  <2> QED BY <2>2, <2>3, AppendProperties
<1> HIDE DEF T
<1>6. Len(s) \in T
  BY <1>1, <1>4, <1>5, InductionOnNat
<1> QED BY <1>1, <1>2, <1>6 DEF T

(* When the elements erased are the first k, the others are left; when     *)
(* there is none, all.                                                     *)
LEMMA ErasedFirst ==
  ASSUME NEW S, NEW s \in Seq(S), NEW gone, NEW k \in 0 .. Len(s),
         \A i \in 1 .. Len(s) : i \in gone <=> i <= k
  PROVE  Erased(s, gone) = SubSeq(s, k + 1, Len(s))
<1>1. Len(s) \in Nat /\ k \in Nat
  OBVIOUS
<1>2. PICK f : EraseLoop(s, gone, Len(s), f) /\ Erased(s, gone) = f[Len(s)]
  BY <1>1, ErasedIs
<1>3. \A i \in 0 .. Len(s) :
        f[i] = IF i = 0 THEN <<>>
               ELSE IF i \in gone THEN f[i - 1] ELSE Append(f[i - 1], s[i])
  BY <1>2 DEF EraseLoop
<1> DEFINE T == {i \in Nat : i <= Len(s) => f[i] = SubSeq(s, k + 1, i)}
<1>4. 0 \in T
  <2>1. SubSeq(s, k + 1, 0) = <<>>
    BY <1>1, SubSeqEmpty
  <2>2. f[0] = <<>>
    BY <1>1, <1>3
  <2> QED BY <2>1, <2>2
<1>5. ASSUME NEW i \in Nat, i \in T PROVE i + 1 \in T
  <2> SUFFICES ASSUME i + 1 <= Len(s) PROVE f[i + 1] = SubSeq(s, k + 1, i + 1)
    OBVIOUS
  <2>1. /\ i <= Len(s) /\ i + 1 \in 0 .. Len(s) /\ i + 1 # 0 /\ (i + 1) - 1 = i
        /\ i + 1 \in 1 .. Len(s)
    BY <1>1
  <2>2. f[i] = SubSeq(s, k + 1, i) /\ s[i + 1] \in S
    BY <1>5, <2>1
  <2>3. f[i + 1] = IF i + 1 \in gone THEN f[i] ELSE Append(f[i], s[i + 1])
    BY <1>3, <2>1
  <2>4. CASE i + 1 <= k
    <3>1. SubSeq(s, k + 1, i) = <<>> /\ SubSeq(s, k + 1, i + 1) = <<>>
      BY <1>1, <2>4, SubSeqEmpty
    <3> QED BY <2>1, <2>2, <2>3, <2>4, <3>1
  <2>5. CASE i + 1 > k
    <3>1. f[i + 1] = Append(SubSeq(s, k + 1, i), s[i + 1])
      BY <1>1, <2>1, <2>2, <2>3, <2>5
    <3>2. k + 1 \in 1 .. Len(s) /\ i + 1 \in k + 1 .. Len(s)
      BY <1>1, <2>1, <2>5
    <3>3. SubSeq(s, k + 1, i + 1) = SubSeq(s, k + 1, (i + 1) - 1) \o <<s[i + 1]>>
      BY <3>2, SubSeqRecursiveSecond
    <3>4. SubSeq(s, k + 1, i) \in Seq(S)
      BY <1>1, <2>1
    <3>5. Append(SubSeq(s, k + 1, i), s[i + 1]) = SubSeq(s, k + 1, i) \o <<s[i + 1]>>
      BY <2>2, <3>4, AppendIsConcat
    <3> QED BY <2>1, <3>1, <3>3, <3>5
  <2> QED BY <1>1, <2>4, <2>5
<1> HIDE DEF T
<1>6. Len(s) \in T
  BY <1>1, <1>4, <1>5, InductionOnNat
<1> QED BY <1>1, <1>2, <1>6 DEF T

(* The loop does the same on elements that are the same.                   *)
LEMMA EraseLoopUnique ==
  \A s, t, gone, lost, f, g : \A n \in Nat :
    EraseLoop(s, gone, n, f) /\ EraseLoop(t, lost, n, g)
      /\ (\A i \in 1 .. n : s[i] = t[i] /\ (i \in gone <=> i \in lost))
      => \A i \in 0 .. n : f[i] = g[i]
<1> SUFFICES ASSUME NEW s, NEW t, NEW gone, NEW lost, NEW f, NEW g, NEW n \in Nat,
                    EraseLoop(s, gone, n, f), EraseLoop(t, lost, n, g),
                    \A i \in 1 .. n : s[i] = t[i] /\ (i \in gone <=> i \in lost)
             PROVE  \A i \in 0 .. n : f[i] = g[i]
  OBVIOUS
<1>1. \A i \in 0 .. n :
        /\ f[i] = IF i = 0 THEN <<>>
                  ELSE IF i \in gone THEN f[i - 1] ELSE Append(f[i - 1], s[i])
        /\ g[i] = IF i = 0 THEN <<>>
                  ELSE IF i \in lost THEN g[i - 1] ELSE Append(g[i - 1], t[i])
  BY DEF EraseLoop
<1> DEFINE T == {i \in Nat : i <= n => f[i] = g[i]}
<1>2. 0 \in T
  <2>1. 0 \in 0 .. n
    OBVIOUS
  <2> QED BY <1>1, <2>1
<1>3. ASSUME NEW i \in Nat, i \in T PROVE i + 1 \in T
  <2> SUFFICES ASSUME i + 1 <= n PROVE f[i + 1] = g[i + 1]
    OBVIOUS
  <2>1. i + 1 \in 0 .. n /\ i + 1 # 0 /\ (i + 1) - 1 = i /\ i + 1 \in 1 .. n
    OBVIOUS
  <2>2. f[i] = g[i] /\ s[i + 1] = t[i + 1] /\ (i + 1 \in gone <=> i + 1 \in lost)
    BY <1>3, <2>1
  <2>3. /\ f[i + 1] = IF i + 1 \in gone THEN f[i] ELSE Append(f[i], s[i + 1])
        /\ g[i + 1] = IF i + 1 \in lost THEN g[i] ELSE Append(g[i], t[i + 1])
    BY <1>1, <2>1
  <2> QED BY <2>2, <2>3
<1> HIDE DEF T
<1>4. \A i \in Nat : i \in T
  BY <1>2, <1>3, InductionOnNat
<1> QED BY <1>4 DEF T

(* One more element is erased, or comes behind what is left.               *)
LEMMA ErasedAppend ==
  ASSUME NEW S, NEW s \in Seq(S), NEW x \in S, NEW gone, NEW lost,
         \A i \in 1 .. Len(s) : i \in lost <=> i \in gone
  PROVE  Erased(Append(s, x), lost)
           = IF Len(s) + 1 \in lost THEN Erased(s, gone) ELSE Append(Erased(s, gone), x)
<1> DEFINE t == Append(s, x)
           n == Len(s)
<1>1. /\ n \in Nat /\ Len(t) = n + 1 /\ t[n + 1] = x
      /\ \A i \in 1 .. n : t[i] = s[i]
  BY AppendProperties
<1> HIDE DEF t
<1>2. PICK f : EraseLoop(s, gone, n, f) /\ Erased(s, gone) = f[n]
  BY <1>1, ErasedIs
<1>3. PICK g : EraseLoop(t, lost, n + 1, g) /\ Erased(t, lost) = g[n + 1]
  BY <1>1, ErasedIs
<1>4. \A i \in 0 .. n + 1 :
        g[i] = IF i = 0 THEN <<>>
               ELSE IF i \in lost THEN g[i - 1] ELSE Append(g[i - 1], t[i])
  BY <1>3 DEF EraseLoop
<1> DEFINE h == [i \in 0 .. n |-> g[i]]
<1>5. EraseLoop(t, lost, n, h)
  <2> DEFINE v(i) == IF i = 0 THEN <<>>
                     ELSE IF i \in lost THEN h[i - 1] ELSE Append(h[i - 1], t[i])
  <2>1. ASSUME NEW i \in 0 .. n PROVE g[i] = v(i)
    <3>1. i \in 0 .. n + 1 /\ (i # 0 => i - 1 \in 0 .. n)
      BY <1>1
    <3>2. i # 0 => h[i - 1] = g[i - 1]
      BY <3>1
    <3> HIDE DEF h
    <3> QED BY <1>4, <3>1, <3>2
  <2>2. h = [i \in 0 .. n |-> v(i)]
    <3> HIDE DEF v
    <3> QED BY <2>1
  <2> QED BY <2>2, Zenon DEF EraseLoop
<1> HIDE DEF h, n
<1>6. n \in 0 .. n /\ n + 1 \in 0 .. n + 1 /\ n + 1 # 0 /\ (n + 1) - 1 = n
  BY <1>1
<1>7. h[n] = f[n]
  <2>1. \A i \in 1 .. n : t[i] = s[i] /\ (i \in lost <=> i \in gone)
    BY <1>1 DEF n
  <2>2. \A i \in 0 .. n : h[i] = f[i]
    BY <1>1, <1>2, <1>5, <2>1, EraseLoopUnique
  <2> QED BY <1>6, <2>2
<1>8. h[n] = g[n]
  BY <1>6 DEF h
<1>9. g[n + 1] = IF n + 1 \in lost THEN g[n] ELSE Append(g[n], x)
  BY <1>1, <1>4, <1>6
<1> QED BY <1>2, <1>3, <1>7, <1>8, <1>9 DEF t, n

(* The part from j to i, and one element more.                             *)
LEMMA PartAppend ==
  ASSUME NEW S, NEW s \in Seq(S), NEW i \in Nat, i < Len(s), NEW j \in 1 .. i + 1
  PROVE  /\ SubSeq(s, j, i) \in Seq(S)
         /\ SubSeq(s, j, i + 1) = Append(SubSeq(s, j, i), s[i + 1])
<1>1. Len(s) \in Nat /\ j \in 1 .. Len(s) /\ i + 1 \in j .. Len(s) /\ (i + 1) - 1 = i
      /\ j \in Int /\ i \in Int /\ i + 1 \in 1 .. Len(s)
  BY LenProperties
<1>2. SubSeq(s, j, i) \in Seq(S)
  <2>1. \A k \in j .. i : s[k] \in S
    BY <1>1, ElementOfSeq
  <2> QED BY <1>1, <2>1, SubSeqProperties
<1>3. SubSeq(s, j, i + 1) = SubSeq(s, j, (i + 1) - 1) \o <<s[i + 1]>>
  BY <1>1, SubSeqRecursiveSecond
<1>4. s[i + 1] \in S
  BY <1>1, ElementOfSeq
<1> DEFINE p == SubSeq(s, j, i)
           e == s[i + 1]
<1>5. p \in Seq(S) /\ e \in S
  BY <1>2, <1>4
<1> HIDE DEF p, e
<1>6. Append(p, e) = p \o <<e>>
  BY <1>5, AppendIsConcat
<1> QED BY <1>1, <1>2, <1>3, <1>6 DEF p, e

(* Each element left is one of s that was not erased, and they keep their  *)
(* order: at gives their places in s.                                      *)
Places(at, e, s, gone, n) ==
  /\ at \in [1 .. Len(e) -> 1 .. n]
  /\ \A k \in 1 .. Len(e) : at[k] \notin gone /\ e[k] = s[at[k]]
  /\ \A k, l \in 1 .. Len(e) : k < l => at[k] < at[l]

LEMMA ErasedPlaces ==
  ASSUME NEW S, NEW s \in Seq(S), NEW gone
  PROVE  \E at : Places(at, Erased(s, gone), s, gone, Len(s))
<1>1. Len(s) \in Nat
  OBVIOUS
<1>2. PICK f : EraseLoop(s, gone, Len(s), f) /\ Erased(s, gone) = f[Len(s)]
  BY <1>1, ErasedIs
<1>3. \A i \in 0 .. Len(s) :
        f[i] = IF i = 0 THEN <<>>
               ELSE IF i \in gone THEN f[i - 1] ELSE Append(f[i - 1], s[i])
  BY <1>2 DEF EraseLoop
<1> DEFINE T == {i \in Nat : i <= Len(s) =>
                   f[i] \in Seq(S) /\ \E at : Places(at, f[i], s, gone, i)}
<1>4. 0 \in T
  <2>1. f[0] = <<>>
    BY <1>1, <1>3
  <2>2. <<>> \in Seq(S) /\ Len(<<>>) = 0
    BY EmptySeq
  <2>3. Places([k \in 1 .. 0 |-> k], <<>>, s, gone, 0)
    BY <2>2 DEF Places
  <2> QED BY <2>1, <2>2, <2>3
<1>5. ASSUME NEW i \in Nat, i \in T PROVE i + 1 \in T
  <2> SUFFICES ASSUME i + 1 <= Len(s)
               PROVE  f[i + 1] \in Seq(S) /\ \E at : Places(at, f[i + 1], s, gone, i + 1)
    OBVIOUS
  <2>1. /\ i <= Len(s) /\ i + 1 \in 0 .. Len(s) /\ i + 1 # 0 /\ (i + 1) - 1 = i
        /\ i + 1 \in 1 .. Len(s)
    BY <1>1
  <2>2. f[i] \in Seq(S) /\ s[i + 1] \in S
    BY <1>5, <2>1
  <2>3. PICK at : Places(at, f[i], s, gone, i)
    BY <1>5, <2>1
  <2>4. f[i + 1] = IF i + 1 \in gone THEN f[i] ELSE Append(f[i], s[i + 1])
    BY <1>3, <2>1
  <2> DEFINE e == f[i]
             m == Len(e)
  <2>5. /\ e \in Seq(S) /\ m \in Nat /\ at \in [1 .. m -> 1 .. i]
        /\ \A k \in 1 .. m : at[k] \in 1 .. i /\ at[k] \notin gone /\ e[k] = s[at[k]]
        /\ \A k, l \in 1 .. m : k < l => at[k] < at[l]
    BY <2>2, <2>3 DEF Places
  <2>6. CASE i + 1 \in gone
    <3>1. at \in [1 .. m -> 1 .. i + 1]
      BY <2>5
    <3>2. Places(at, e, s, gone, i + 1)
      BY <2>5, <3>1 DEF Places
    <3> QED BY <2>2, <2>4, <2>6, <3>2
  <2>7. CASE i + 1 \notin gone
    <3> DEFINE d == Append(e, s[i + 1])
               to == [k \in 1 .. m + 1 |-> IF k = m + 1 THEN i + 1 ELSE at[k]]
    <3>1. /\ d \in Seq(S) /\ Len(d) = m + 1 /\ d[m + 1] = s[i + 1]
          /\ \A k \in 1 .. m : d[k] = e[k]
      BY <2>2, <2>5, AppendProperties
    <3>2. /\ to[m + 1] = i + 1 /\ (\A k \in 1 .. m : to[k] = at[k])
          /\ to \in [1 .. m + 1 -> 1 .. i + 1]
      BY <2>5
    <3> HIDE DEF d, to, e, m
    <3>3. \A k \in 1 .. m + 1 : k \in 1 .. m \/ k = m + 1
      BY <2>5
    <3>4. \A k \in 1 .. m + 1 : to[k] \notin gone /\ d[k] = s[to[k]]
      BY <2>5, <2>7, <3>1, <3>2, <3>3, SMTT(30)
    <3>5. ASSUME NEW k \in 1 .. m + 1, NEW l \in 1 .. m + 1, k < l
          PROVE  to[k] < to[l]
      <4>1. k \in 1 .. m
        BY <2>5, <3>5
      <4>2. to[k] = at[k] /\ at[k] < i + 1
        BY <2>5, <3>2, <4>1
      <4>3. CASE l = m + 1
        BY <3>2, <4>2, <4>3
      <4>4. CASE l \in 1 .. m
        BY <2>5, <3>2, <3>5, <4>1, <4>2, <4>4
      <4> QED BY <3>3, <4>3, <4>4
    <3>6. Places(to, d, s, gone, i + 1)
      BY <3>1, <3>2, <3>4, <3>5 DEF Places
    <3>7. f[i + 1] = d
      BY <2>4, <2>7 DEF d, e
    <3> QED BY <3>1, <3>6, <3>7
  <2> QED BY <2>6, <2>7
<1> HIDE DEF T
<1>6. Len(s) \in T
  BY <1>1, <1>4, <1>5, InductionOnNat
<1> QED BY <1>1, <1>2, <1>6 DEF T
=============================================================================
