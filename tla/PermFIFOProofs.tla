--------------------------- MODULE PermFIFOProofs ---------------------------
(***************************************************************************)
(* Proofs about the permanent FIFO, for any capacity, any number of        *)
(* messages and stops, and any set of points where a kill may fall.        *)
(***************************************************************************)
EXTENDS PermFIFO, OrderedSequences, TLAPS

(* The items of a table or a file are numbered from 1.                     *)
LEMMA ItemNumbers ==
  ASSUME NEW s \in Seq(Item), NEW i \in 1 .. Len(s)
  PROVE  s[i] \in Item /\ s[i].id \in Nat /\ s[i].id # 0
<1>1. s[i] \in Item
  OBVIOUS
<1>2. \A x \in Item : x.id \in Nat /\ x.id # 0
  BY DEF Item
<1> QED BY <1>1, <1>2

-----------------------------------------------------------------------------
(* Dropping the items up to a number leaves nothing, or what starts at the *)
(* first item above it (the loop of permFIFO_ack, the skipping in ct_load  *)
(* and permFIFO_file_clean).                                               *)
LEMMA AfterIsSuffix ==
  ASSUME NEW s \in Seq(Item), NEW id \in Nat
  PROVE  \/ /\ After(s, id) = <<>>
            /\ \A i \in 1 .. Len(s) : s[i].id <= id
         \/ \E k \in 1 .. Len(s) :
              /\ s[k].id > id
              /\ \A j \in 1 .. k - 1 : s[j].id <= id
              /\ After(s, id) = SubSeq(s, k, Len(s))
<1>0. \A i \in 1 .. Len(s) : s[i].id \in Nat
  BY ItemNumbers
<1>1. CASE ~ \E i \in 1 .. Len(s) : s[i].id > id
  BY <1>0, <1>1 DEF After
<1>2. CASE \E i \in 1 .. Len(s) : s[i].id > id
  <2> DEFINE Above == {i \in 1 .. Len(s) : s[i].id > id}
             First(i) == s[i].id > id /\ \A j \in 1 .. i - 1 : s[j].id <= id
  <2>1. Above \in SUBSET Nat /\ Above # {}
    BY <1>2
  <2>2. PICK x \in Above : \A y \in Above : x <= y
    BY <2>1, LeastNatural
  <2>3. x \in 1 .. Len(s) /\ First(x)
    <3>1. ASSUME NEW j \in 1 .. x - 1
          PROVE  s[j].id <= id
      <4>1. j \in 1 .. Len(s) /\ j \notin Above
        BY <2>2
      <4> QED BY <4>1, <1>0
    <3> QED BY <2>2, <3>1
  <2> DEFINE k == CHOOSE i \in 1 .. Len(s) : First(i)
  <2>4. k \in 1 .. Len(s) /\ First(k)
    <3> HIDE DEF First
    <3> QED BY <2>3
  <2>5. After(s, id) = SubSeq(s, k, Len(s))
    BY <1>2 DEF After
  <2> QED BY <2>4, <2>5
<1> QED BY <1>1, <1>2

(* The first torn record is one, with none before it.                      *)
LEMMA FirstTornFound ==
  ASSUME NEW recs \in Seq(Item), HasTorn(recs)
  PROVE  /\ FirstTorn(recs) \in 1 .. Len(recs)
         /\ recs[FirstTorn(recs)].msg = Torn
         /\ \A j \in 1 .. FirstTorn(recs) - 1 : recs[j].msg # Torn
<1> DEFINE T == {i \in 1 .. Len(recs) : recs[i].msg = Torn}
           First(i) == recs[i].msg = Torn /\ \A j \in 1 .. i - 1 : recs[j].msg # Torn
<1>1. T \in SUBSET Nat /\ T # {}
  BY DEF HasTorn
<1>2. PICK x \in T : \A y \in T : x <= y
  BY <1>1, LeastNatural
<1>3. x \in 1 .. Len(recs) /\ First(x)
  <2>1. ASSUME NEW j \in 1 .. x - 1
        PROVE  recs[j].msg # Torn
    <3>1. j \in 1 .. Len(recs) /\ j \notin T
      BY <1>2
    <3> QED BY <3>1
  <2> QED BY <1>2, <2>1
<1> DEFINE t == CHOOSE i \in 1 .. Len(recs) : First(i)
<1>4. t \in 1 .. Len(recs) /\ First(t)
  <2> HIDE DEF First
  <2> QED BY <1>3
<1>5. FirstTorn(recs) = t
  BY DEF FirstTorn
<1> QED BY <1>4, <1>5

(* Up to the first torn record, it included, there are the leading records *)
(* of the file, and all of them when none is torn.                         *)
LEMMA SoundIsPrefix ==
  ASSUME NEW recs \in Seq(Item)
  PROVE  /\ Sound(recs) \in Seq(Item) /\ Len(Sound(recs)) \in 0 .. Len(recs)
         /\ \A i \in 1 .. Len(Sound(recs)) : Sound(recs)[i] = recs[i]
         /\ recs # <<>> => Sound(recs) # <<>>
         /\ ~HasTorn(recs) => Sound(recs) = recs
         /\ HasTorn(recs) => Len(Sound(recs)) = FirstTorn(recs)
<1>1. CASE ~HasTorn(recs)
  BY <1>1 DEF Sound
<1>2. CASE HasTorn(recs)
  <2> DEFINE t == FirstTorn(recs)
  <2>1. t \in 1 .. Len(recs)
    BY <1>2, FirstTornFound
  <2>2. Sound(recs) = SubSeq(recs, 1, t)
    BY <1>2 DEF Sound
  <2> HIDE DEF t
  <2>3. /\ SubSeq(recs, 1, t) \in Seq(Item) /\ Len(SubSeq(recs, 1, t)) = t
        /\ \A i \in 1 .. t : SubSeq(recs, 1, t)[i] = recs[i]
    BY <2>1
  <2>4. SubSeq(recs, 1, t) # <<>>
    BY <2>1, <2>3
  <2> QED BY <1>2, <2>1, <2>2, <2>3, <2>4 DEF t
<1> QED BY <1>1, <1>2

(* ct_load gets no record behind the first torn one, and every record when *)
(* none is torn.                                                           *)
LEMMA LegibleInRange ==
  ASSUME NEW recs \in Seq(Item), NEW n \in Legible(recs)
  PROVE  /\ n \in 0 .. Len(Sound(recs))
         /\ ~HasTorn(recs) => n = Len(Sound(recs))
<1>1. CASE ~HasTorn(recs)
  BY <1>1, SoundIsPrefix DEF Legible
<1>2. CASE HasTorn(recs)
  <2>1. /\ FirstTorn(recs) \in 1 .. Len(recs)
        /\ n \in {FirstTorn(recs) - 1, FirstTorn(recs)}
        /\ Len(Sound(recs)) = FirstTorn(recs)
    BY <1>2, FirstTornFound, SoundIsPrefix DEF Legible
  <2> QED BY <1>2, <2>1
<1> QED BY <1>1, <1>2

(* Behind a torn record nothing that is appended counts; without one, all  *)
(* the records of the file still do.                                       *)
LEMMA SoundOfLonger ==
  ASSUME NEW r \in Seq(Item), NEW t \in Seq(Item)
  PROVE  /\ HasTorn(r) => Sound(r \o t) = Sound(r)
         /\ ~HasTorn(r) => Len(r) <= Len(Sound(r \o t))
<1> DEFINE c == r \o t
<1>1. /\ c \in Seq(Item) /\ Len(c) = Len(r) + Len(t)
      /\ Len(r) \in Nat /\ Len(t) \in Nat
      /\ \A i \in 1 .. Len(r) : c[i] = r[i]
  OBVIOUS
<1> HIDE DEF c
<1>2. ASSUME HasTorn(r) PROVE Sound(c) = Sound(r)
  <2>1. /\ FirstTorn(r) \in 1 .. Len(r) /\ r[FirstTorn(r)].msg = Torn
        /\ \A j \in 1 .. FirstTorn(r) - 1 : r[j].msg # Torn
    BY <1>2, FirstTornFound
  <2>2. FirstTorn(r) \in 1 .. Len(c) /\ c[FirstTorn(r)].msg = Torn
    BY <1>1, <2>1
  <2>3. HasTorn(c)
    BY <2>2 DEF HasTorn
  <2>4. /\ FirstTorn(c) \in 1 .. Len(c) /\ c[FirstTorn(c)].msg = Torn
        /\ \A j \in 1 .. FirstTorn(c) - 1 : c[j].msg # Torn
    BY <1>1, <2>3, FirstTornFound
  <2>5. FirstTorn(c) = FirstTorn(r)
    <3>1. ~(FirstTorn(r) < FirstTorn(c))
      <4> SUFFICES ASSUME FirstTorn(r) < FirstTorn(c) PROVE FALSE
        OBVIOUS
      <4>1. FirstTorn(r) \in 1 .. FirstTorn(c) - 1
        BY <2>1, <2>4
      <4> QED BY <2>2, <2>4, <4>1
    <3>2. ~(FirstTorn(c) < FirstTorn(r))
      <4> SUFFICES ASSUME FirstTorn(c) < FirstTorn(r) PROVE FALSE
        OBVIOUS
      <4>1. FirstTorn(c) \in 1 .. FirstTorn(r) - 1 /\ FirstTorn(c) \in 1 .. Len(r)
        BY <2>1, <2>4
      <4>2. c[FirstTorn(c)] = r[FirstTorn(c)]
        BY <1>1, <4>1
      <4> QED BY <2>1, <2>4, <4>1, <4>2
    <3> QED BY <2>1, <2>4, <3>1, <3>2
  <2>6. /\ Sound(c) \in Seq(Item) /\ Sound(r) \in Seq(Item)
        /\ Len(Sound(c)) = FirstTorn(r) /\ Len(Sound(r)) = FirstTorn(r)
        /\ \A i \in 1 .. FirstTorn(r) : Sound(c)[i] = c[i] /\ Sound(r)[i] = r[i]
    BY <1>1, <1>2, <2>3, <2>5, SoundIsPrefix
  <2>7. \A i \in 1 .. FirstTorn(r) : Sound(c)[i] = Sound(r)[i]
    <3>1. \A i \in 1 .. FirstTorn(r) : i \in 1 .. Len(r)
      BY <2>1
    <3> QED BY <1>1, <2>6, <3>1, Zenon
  <2> QED BY <2>6, <2>7
<1>3. ASSUME ~HasTorn(r) PROVE Len(r) <= Len(Sound(c))
  <2>1. CASE ~HasTorn(c)
    BY <1>1, <2>1, SoundIsPrefix
  <2>2. CASE HasTorn(c)
    <3>1. /\ FirstTorn(c) \in 1 .. Len(c) /\ c[FirstTorn(c)].msg = Torn
          /\ Len(Sound(c)) = FirstTorn(c)
      BY <1>1, <2>2, FirstTornFound, SoundIsPrefix
    <3>2. FirstTorn(c) \notin 1 .. Len(r)
      BY <1>1, <1>3, <3>1 DEF HasTorn
    <3> QED BY <1>1, <3>1, <3>2
  <2> QED BY <2>1, <2>2
<1> QED BY <1>2, <1>3 DEF c

-----------------------------------------------------------------------------
(* Runs of consecutive numbers are kept by cutting and joining.            *)
LEMMA ConsecutiveSubSeq ==
  ASSUME NEW s \in Seq(Item), Consecutive(s),
         NEW m \in 1 .. Len(s), NEW n \in m .. Len(s)
  PROVE  /\ SubSeq(s, m, n) \in Seq(Item)
         /\ Len(SubSeq(s, m, n)) = n - m + 1
         /\ Consecutive(SubSeq(s, m, n))
         /\ \A i \in 1 .. n - m + 1 : SubSeq(s, m, n)[i] = s[m + i - 1]
<1>1. \A i \in 1 .. Len(s) : s[i].id \in Nat
  BY ItemNumbers
<1>2. /\ SubSeq(s, m, n) \in Seq(Item)
      /\ Len(SubSeq(s, m, n)) = n - m + 1
      /\ \A i \in 1 .. n - m + 1 : SubSeq(s, m, n)[i] = s[m + i - 1]
  OBVIOUS
<1>3. Consecutive(SubSeq(s, m, n))
  <2> SUFFICES ASSUME NEW i \in 1 .. n - m + 1
               PROVE  SubSeq(s, m, n)[i].id = SubSeq(s, m, n)[1].id + i - 1
    BY <1>2 DEF Consecutive
  <2>1. SubSeq(s, m, n)[i] = s[m + i - 1] /\ SubSeq(s, m, n)[1] = s[m]
    BY <1>2
  <2>2. s[m + i - 1].id = s[1].id + (m + i - 1) - 1 /\ s[m].id = s[1].id + m - 1
    BY DEF Consecutive
  <2>3. s[1].id \in Nat
    BY <1>1
  <2> QED BY <2>1, <2>2, <2>3
<1> QED BY <1>2, <1>3

(* permFIFO_write and permFIFO_read add to the end of a table: an item     *)
(* with the next number keeps the numbers of the table in order.           *)
LEMMA ConsecutiveAppend ==
  ASSUME NEW s \in Seq(Item), Consecutive(s), NEW item \in Item,
         s # <<>> => item.id = s[Len(s)].id + 1
  PROVE  /\ Append(s, item) \in Seq(Item)
         /\ Len(Append(s, item)) = Len(s) + 1
         /\ Consecutive(Append(s, item))
<1>1. item.id \in Nat /\ \A i \in 1 .. Len(s) : s[i].id \in Nat
  BY ItemNumbers DEF Item
<1>2. \A i \in 1 .. Len(s) : Append(s, item)[i] = s[i]
  OBVIOUS
<1>3. Append(s, item)[Len(s) + 1] = item
  OBVIOUS
<1>4. CASE s = <<>>
  BY <1>1, <1>3, <1>4 DEF Consecutive
<1>5. CASE s # <<>>
  <2> SUFFICES ASSUME NEW i \in 1 .. Len(s) + 1
               PROVE  Append(s, item)[i].id = Append(s, item)[1].id + i - 1
    BY DEF Consecutive
  <2>1. Append(s, item)[1] = s[1] /\ s[1].id \in Nat
    BY <1>1, <1>2, <1>5
  <2>2. CASE i \in 1 .. Len(s)
    BY <1>2, <2>1, <2>2 DEF Consecutive
  <2>3. CASE i = Len(s) + 1
    <3>1. s[Len(s)].id = s[1].id + Len(s) - 1
      BY <1>5 DEF Consecutive
    <3> QED BY <1>3, <1>5, <2>1, <2>3, <3>1
  <2> QED BY <2>2, <2>3
<1> QED BY <1>4, <1>5

(* permFIFO_save_tabledisk puts a table after the records of the file: the *)
(* numbers stay in order when the table starts where the file ends.        *)
LEMMA ConsecutiveConcat ==
  ASSUME NEW s \in Seq(Item), Consecutive(s),
         NEW t \in Seq(Item), Consecutive(t),
         s # <<>> /\ t # <<>> => t[1].id = s[Len(s)].id + 1
  PROVE  /\ s \o t \in Seq(Item)
         /\ Len(s \o t) = Len(s) + Len(t)
         /\ Consecutive(s \o t)
         /\ \A i \in 1 .. Len(s) : (s \o t)[i] = s[i]
         /\ t # <<>> => (s \o t)[Len(s) + Len(t)] = t[Len(t)]
<1>1. /\ \A i \in 1 .. Len(s) : s[i].id \in Nat
      /\ \A i \in 1 .. Len(t) : t[i].id \in Nat
  BY ItemNumbers
<1>2. /\ s \o t \in Seq(Item)
      /\ Len(s \o t) = Len(s) + Len(t)
      /\ \A i \in 1 .. Len(s) : (s \o t)[i] = s[i]
      /\ \A i \in 1 .. Len(t) : (s \o t)[Len(s) + i] = t[i]
  OBVIOUS
<1>3. Consecutive(s \o t)
  <2> SUFFICES ASSUME NEW i \in 1 .. Len(s) + Len(t)
               PROVE  (s \o t)[i].id = (s \o t)[1].id + i - 1
    BY <1>2 DEF Consecutive
  <2>1. CASE s = <<>>
    BY <1>1, <1>2, <2>1 DEF Consecutive
  <2>2. CASE s # <<>> /\ i <= Len(s)
    BY <1>1, <1>2, <2>2 DEF Consecutive
  <2>3. CASE s # <<>> /\ i > Len(s)
    <3>1. i - Len(s) \in 1 .. Len(t) /\ i = Len(s) + (i - Len(s))
      BY <2>3, <1>2
    <3>2. (s \o t)[i] = t[i - Len(s)]
      BY <3>1, <1>2
    <3>3. t[i - Len(s)].id = t[1].id + (i - Len(s)) - 1
      BY <3>1 DEF Consecutive
    <3>4. t[1].id = s[Len(s)].id + 1 /\ s[Len(s)].id = s[1].id + Len(s) - 1
      BY <2>3, <3>1 DEF Consecutive
    <3>5. (s \o t)[1] = s[1]
      BY <1>2, <2>3
    <3>6. s[1].id \in Nat /\ Len(s) \in Nat /\ i \in Nat
      BY <1>1, <2>3
    <3>7. t[1].id = s[1].id + Len(s)
      BY <3>4, <3>6, SMTT(30)
    <3>8. t[i - Len(s)].id = s[1].id + Len(s) + (i - Len(s)) - 1
      BY <3>3, <3>7
    <3>9. s[1].id + Len(s) + (i - Len(s)) - 1 = s[1].id + i - 1
      BY <3>6, SMTT(30)
    <3> QED BY <3>2, <3>5, <3>8, <3>9
  <2> QED BY <2>1, <2>2, <2>3
<1> QED BY <1>2, <1>3

-----------------------------------------------------------------------------
(* t is the part of s from index k to index n, not empty.                  *)
Part(t, s, k, n) ==
  /\ k \in 1 .. Len(s) /\ n \in k .. Len(s)
  /\ t \in Seq(Item) /\ t # <<>> /\ Len(t) = n - k + 1
  /\ \A i \in 1 .. Len(t) : t[i] = s[k + i - 1]

(* A part of a list of items in order is in order, and its ends have the   *)
(* numbers that their places give them.                                    *)
LEMMA PartOfConsecutive ==
  ASSUME NEW s \in Seq(Item), Consecutive(s), NEW t, NEW k, NEW n, Part(t, s, k, n)
  PROVE  /\ Consecutive(t)
         /\ t[1] = s[k] /\ t[Len(t)] = s[n]
         /\ s[k].id = s[1].id + k - 1 /\ s[n].id = s[1].id + n - 1
         /\ s[1].id \in Nat
<1>1. /\ k \in 1 .. Len(s) /\ n \in k .. Len(s)
      /\ t \in Seq(Item) /\ t # <<>> /\ Len(t) = n - k + 1
      /\ \A i \in 1 .. Len(t) : t[i] = s[k + i - 1]
  BY DEF Part
<1>2. s[1].id \in Nat
  BY <1>1, ItemNumbers
<1>3. t[1] = s[k] /\ t[Len(t)] = s[n]
  BY <1>1
<1>4. s[k].id = s[1].id + k - 1 /\ s[n].id = s[1].id + n - 1
  BY <1>1 DEF Consecutive
<1>5. Consecutive(t)
  <2> SUFFICES ASSUME NEW i \in 1 .. Len(t)
               PROVE  t[i].id = t[1].id + i - 1
    BY DEF Consecutive
  <2>1. t[i] = s[k + i - 1] /\ k + i - 1 \in 1 .. Len(s)
    BY <1>1
  <2>2. s[k + i - 1].id = s[1].id + (k + i - 1) - 1
    BY <2>1 DEF Consecutive
  <2>3. s[k + i - 1].id = s[k].id + i - 1
    BY <1>1, <1>2, <1>4, <2>2
  <2> QED BY <1>3, <2>1, <2>3
<1> QED BY <1>2, <1>3, <1>4, <1>5

(* A list is a part of itself.                                             *)
LEMMA WholeIsPart ==
  ASSUME NEW s \in Seq(Item), s # <<>>
  PROVE  Part(s, s, 1, Len(s))
BY DEF Part

(* The number of the last item of a list in order is given by that of the  *)
(* first and the length.                                                   *)
LEMMA LastNumber ==
  ASSUME NEW s \in Seq(Item), s # <<>>, Consecutive(s)
  PROVE  /\ Len(s) \in Nat \ {0}
         /\ s[1].id \in Nat \ {0}
         /\ s[Len(s)].id = s[1].id + Len(s) - 1
         /\ s[1].id <= s[Len(s)].id
<1>1. Len(s) \in Nat \ {0} /\ 1 \in 1 .. Len(s) /\ Len(s) \in 1 .. Len(s)
  OBVIOUS
<1>2. s[1].id \in Nat \ {0}
  BY <1>1, ItemNumbers
<1>3. s[Len(s)].id = s[1].id + Len(s) - 1
  BY <1>1 DEF Consecutive
<1> QED BY <1>1, <1>2, <1>3

(* The leading records of a list in order are in order.                    *)
LEMMA SoundConsecutive ==
  ASSUME NEW recs \in Seq(Item), recs # <<>>, Consecutive(recs)
  PROVE  /\ Consecutive(Sound(recs))
         /\ Last(Sound(recs)).id <= Last(recs).id
<1> DEFINE s == Sound(recs)
<1>1. /\ s \in Seq(Item) /\ Len(s) \in 0 .. Len(recs) /\ s # <<>>
      /\ \A i \in 1 .. Len(s) : s[i] = recs[i]
  BY SoundIsPrefix
<1> HIDE DEF s
<1>2. Part(s, recs, 1, Len(s))
  BY <1>1 DEF Part
<1>3. /\ Consecutive(s) /\ s[Len(s)] = recs[Len(s)]
      /\ recs[Len(s)].id = recs[1].id + Len(s) - 1 /\ recs[1].id \in Nat
  BY <1>2, PartOfConsecutive
<1>4. recs[Len(recs)].id = recs[1].id + Len(recs) - 1
  BY LastNumber
<1>5. Len(s) \in Nat /\ Len(recs) \in Nat /\ Len(s) <= Len(recs)
  BY <1>1
<1>6. recs[Len(s)].id <= recs[Len(recs)].id
  BY <1>3, <1>4, <1>5
<1> QED BY <1>3, <1>6 DEF Last, s

(* The numbers of t follow those of the records of a file.                 *)
Continues(recs, t) ==
  recs # <<>> => /\ Last(Sound(recs)).id < t[1].id
                 /\ Sound(recs) = recs => t[1].id = Last(recs).id + 1

(* What is appended to a file keeps its numbers in order up to the first   *)
(* torn record, and does not lose any record before it.                    *)
LEMMA SoundAppended ==
  ASSUME NEW r \in Seq(Item), Consecutive(Sound(r)),
         NEW t \in Seq(Item), t # <<>>, Consecutive(t), Continues(r, t)
  PROVE  /\ r \o t \in Seq(Item) /\ r \o t # <<>>
         /\ Last(r \o t) = Last(t)
         /\ Consecutive(Sound(r \o t))
         /\ Last(Sound(r \o t)).id <= Last(t).id
         /\ Len(Sound(r)) <= Len(Sound(r \o t))
         /\ \A i \in 1 .. Len(Sound(r)) : Sound(r \o t)[i] = Sound(r)[i]
<1> DEFINE c == r \o t
<1>1. /\ c \in Seq(Item) /\ Len(c) = Len(r) + Len(t)
      /\ Len(r) \in Nat /\ Len(t) \in Nat \ {0}
      /\ \A i \in 1 .. Len(r) : c[i] = r[i]
      /\ c[Len(r) + Len(t)] = t[Len(t)]
  OBVIOUS
<1>2. /\ HasTorn(r) => Sound(c) = Sound(r)
      /\ ~HasTorn(r) => Len(r) <= Len(Sound(c))
  BY SoundOfLonger
<1>3. ~HasTorn(r) => Consecutive(c)
  <2> SUFFICES ASSUME ~HasTorn(r) PROVE Consecutive(c)
    OBVIOUS
  <2>1. Sound(r) = r
    BY SoundIsPrefix
  <2>2. r # <<>> => t[1].id = r[Len(r)].id + 1
    BY <2>1 DEF Continues, Last
  <2>3. Consecutive(r)
    BY <2>1
  <2> QED BY <2>2, <2>3, ConsecutiveConcat
<1> HIDE DEF c
<1>4. c # <<>> /\ Last(c) = Last(t)
  BY <1>1 DEF Last
<1>5. /\ Sound(c) \in Seq(Item) /\ Len(Sound(c)) \in 0 .. Len(c)
      /\ \A i \in 1 .. Len(Sound(c)) : Sound(c)[i] = c[i]
      /\ Sound(r) \in Seq(Item) /\ Len(Sound(r)) \in 0 .. Len(r)
      /\ r # <<>> => Sound(r) # <<>>
      /\ \A i \in 1 .. Len(Sound(r)) : Sound(r)[i] = r[i]
      /\ ~HasTorn(r) => Sound(r) = r
  BY <1>1, SoundIsPrefix
<1>6. CASE HasTorn(r)
  <2>1. Sound(c) = Sound(r)
    BY <1>2, <1>6
  <2>2. r # <<>>
    BY <1>1, <1>6 DEF HasTorn
  <2>3. /\ Last(Sound(r)).id < t[1].id /\ Last(Sound(r)).id \in Nat
        /\ t[1].id \in Nat /\ t[1].id <= Last(t).id /\ Last(t).id \in Nat
    <3>1. Sound(r) # <<>>
      BY <1>5, <2>2
    <3>2. Last(Sound(r)).id \in Nat
      BY <1>5, <3>1, ItemNumbers DEF Last
    <3>3. t[1].id \in Nat /\ t[1].id <= Last(t).id /\ Last(t).id \in Nat
      BY <1>1, LastNumber, ItemNumbers DEF Last
    <3> QED BY <2>2, <3>2, <3>3 DEF Continues
  <2>4. Last(Sound(c)).id <= Last(t).id
    BY <2>1, <2>3
  <2>5. /\ Len(Sound(r)) <= Len(Sound(c)) /\ Consecutive(Sound(c))
        /\ \A i \in 1 .. Len(Sound(r)) : Sound(c)[i] = Sound(r)[i]
    BY <1>5, <2>1
  <2> QED BY <1>1, <1>4, <2>4, <2>5 DEF c
<1>7. CASE ~HasTorn(r)
  <2>1. /\ Consecutive(Sound(c)) /\ Last(Sound(c)).id <= Last(c).id
    BY <1>1, <1>3, <1>4, <1>7, SoundConsecutive
  <2>2. Len(r) <= Len(Sound(c)) /\ Sound(r) = r
    BY <1>2, <1>5, <1>7
  <2>3. \A i \in 1 .. Len(r) : Sound(c)[i] = r[i]
    BY <1>1, <1>5, <2>2
  <2> QED BY <1>1, <1>4, <2>1, <2>2, <2>3 DEF c
<1> QED BY <1>6, <1>7

(* What permFIFO_read and permFIFO_ack do with table_disk, and ct_load     *)
(* with the file, to leave out the items up to id: either nothing is left, *)
(* or what is left is the end of the list from the first item above id.    *)
LEMMA AfterIsPart ==
  ASSUME NEW s \in Seq(Item), NEW id \in Nat
  PROVE  \/ /\ After(s, id) = <<>>
            /\ \A i \in 1 .. Len(s) : s[i].id <= id
         \/ \E k \in 1 .. Len(s) :
              /\ s[k].id > id
              /\ \A j \in 1 .. k - 1 : s[j].id <= id
              /\ Part(After(s, id), s, k, Len(s))
<1>1. ASSUME NEW k \in 1 .. Len(s), After(s, id) = SubSeq(s, k, Len(s))
      PROVE  Part(After(s, id), s, k, Len(s))
  <2>1. /\ SubSeq(s, k, Len(s)) \in Seq(Item)
        /\ Len(SubSeq(s, k, Len(s))) = Len(s) - k + 1
        /\ \A i \in 1 .. Len(s) - k + 1 : SubSeq(s, k, Len(s))[i] = s[k + i - 1]
    OBVIOUS
  <2>2. Len(SubSeq(s, k, Len(s))) \in Nat \ {0} /\ SubSeq(s, k, Len(s)) # <<>>
    BY <2>1
  <2>3. /\ Len(s) \in k .. Len(s)
        /\ \A i \in 1 .. Len(SubSeq(s, k, Len(s))) : SubSeq(s, k, Len(s))[i] = s[k + i - 1]
    BY <2>1
  <2> QED BY <1>1, <2>1, <2>2, <2>3, Zenon DEF Part
<1> QED BY <1>1, AfterIsSuffix

(* What ct_load brings to the consumer: nothing, or a run of at most Size  *)
(* records before or at the first torn one, that starts with the first one *)
(* above id and, when it does not fill the table and no record is torn,    *)
(* goes to the end of the file.                                            *)
LEMMA LoadedIsPart ==
  ASSUME NEW whole \in Seq(Item), NEW L \in Legible(whole),
         NEW recs, recs = Sound(whole),
         NEW offset \in 0 .. Len(recs), NEW id \in Nat
  PROVE  LET items == Loaded(whole, L, offset, id) IN
         \/ /\ items = <<>>
            /\ ~HasTorn(whole) => \A i \in offset + 1 .. Len(recs) : recs[i].id <= id
         \/ \E k \in offset + 1 .. Len(recs), n \in 1 .. Len(recs) :
              /\ Part(items, recs, k, n)
              /\ recs[k].id > id
              /\ \A j \in offset + 1 .. k - 1 : recs[j].id <= id
              /\ Len(items) <= Size
              /\ ~HasTorn(whole) /\ Len(items) < Size => n = Len(recs)
<1> DEFINE r == SubSeq(whole, offset + 1, L)
           rest == After(r, id)
           size == IF Len(rest) < Size THEN Len(rest) ELSE Size
           items == Loaded(whole, L, offset, id)
<1>1. L \in 0 .. Len(recs) /\ (~HasTorn(whole) => L = Len(recs))
  BY LegibleInRange
<1>2. items = SubSeq(rest, 1, size)
  BY DEF Loaded
<1> HIDE DEF items
<1>3. /\ r \in Seq(Item)
      /\ Len(r) = IF offset + 1 <= L THEN L - offset ELSE 0
      /\ \A i \in 1 .. Len(r) : r[i] = recs[offset + i]
  <2>1. /\ recs \in Seq(Item) /\ Len(recs) \in 0 .. Len(whole)
        /\ \A i \in 1 .. Len(recs) : recs[i] = whole[i]
    BY SoundIsPrefix
  <2>2. /\ r \in Seq(Item)
        /\ Len(r) = IF offset + 1 <= L THEN L - offset ELSE 0
        /\ \A i \in 1 .. Len(r) : r[i] = whole[offset + i]
    BY <1>1, <2>1
  <2> HIDE DEF r
  <2>3. ASSUME NEW i \in 1 .. Len(r) PROVE r[i] = recs[offset + i]
    <3>1. offset + i \in 1 .. Len(recs)
      BY <1>1, <2>2
    <3> QED BY <2>1, <2>2, <3>1
  <2> QED BY <2>2, <2>3
<1> HIDE DEF r
<1>4. CASE /\ rest = <<>>
           /\ \A i \in 1 .. Len(r) : r[i].id <= id
  <2>1. items = <<>>
    BY <1>2, <1>4, SizeAssumption
  <2>2. ASSUME ~HasTorn(whole), NEW i \in offset + 1 .. Len(recs)
        PROVE  recs[i].id <= id
    <3>1. Len(r) = Len(recs) - offset /\ i - offset \in 1 .. Len(r)
      BY <1>1, <1>3, <2>2
    <3>2. r[i - offset] = recs[i] /\ r[i - offset].id <= id
      BY <1>3, <1>4, <3>1
    <3> QED BY <3>2
  <2> QED BY <2>1, <2>2 DEF items
<1>5. ASSUME NEW k \in 1 .. Len(r),
             r[k].id > id,
             \A j \in 1 .. k - 1 : r[j].id <= id,
             Part(rest, r, k, Len(r))
      PROVE  \E kk \in offset + 1 .. Len(recs), n \in 1 .. Len(recs) :
              /\ Part(items, recs, kk, n)
              /\ recs[kk].id > id
              /\ \A j \in offset + 1 .. kk - 1 : recs[j].id <= id
              /\ Len(items) <= Size
              /\ ~HasTorn(whole) /\ Len(items) < Size => n = Len(recs)
  <2>1. /\ rest \in Seq(Item) /\ rest # <<>> /\ Len(rest) = Len(r) - k + 1
        /\ \A i \in 1 .. Len(rest) : rest[i] = r[k + i - 1]
    BY <1>5 DEF Part
  <2> HIDE DEF rest
  <2>2. size \in 1 .. Len(rest) /\ size <= Size
    BY <2>1, SizeAssumption
  <2>3. Size \in Nat /\ (size < Size => size = Len(rest))
    BY <2>1, SizeAssumption
  <2> HIDE DEF size
  <2>4. /\ items \in Seq(Item) /\ items # <<>> /\ Len(items) = size
        /\ \A i \in 1 .. size : items[i] = rest[i]
    <3>1. ASSUME NEW t \in Seq(Item), NEW z \in 1 .. Len(t)
          PROVE  /\ SubSeq(t, 1, z) \in Seq(Item) /\ Len(SubSeq(t, 1, z)) = z
                 /\ \A i \in 1 .. z : SubSeq(t, 1, z)[i] = t[i]
      OBVIOUS
    <3>2. /\ items \in Seq(Item) /\ Len(items) = size
          /\ \A i \in 1 .. size : items[i] = rest[i]
      BY <1>2, <2>1, <2>2, <3>1
    <3> QED BY <2>2, <3>2
  <2> DEFINE kk == offset + k
             n == kk + size - 1
  <2>5. kk \in offset + 1 .. Len(recs) /\ n \in kk .. Len(recs)
    BY <1>1, <1>3, <2>1, <2>2
  <2>6. \A i \in 1 .. size : items[i] = recs[kk + i - 1]
    <3> SUFFICES ASSUME NEW i \in 1 .. size PROVE items[i] = recs[kk + i - 1]
      OBVIOUS
    <3>1. items[i] = r[k + i - 1] /\ k + i - 1 \in 1 .. Len(r)
      BY <2>1, <2>2, <2>4
    <3>2. r[k + i - 1] = recs[offset + (k + i - 1)]
      BY <1>3, <3>1
    <3> QED BY <3>1, <3>2
  <2>7. Part(items, recs, kk, n)
    BY <2>2, <2>4, <2>5, <2>6 DEF Part
  <2>8. recs[kk].id > id
    BY <1>3, <1>5
  <2>9. ASSUME NEW j \in offset + 1 .. kk - 1
        PROVE  recs[j].id <= id
    <3>1. j - offset \in 1 .. k - 1 /\ j - offset \in 1 .. Len(r)
      OBVIOUS
    <3>2. r[j - offset] = recs[offset + (j - offset)] /\ r[j - offset].id <= id
      BY <1>3, <1>5, <3>1
    <3> QED BY <3>2
  <2>10. ASSUME ~HasTorn(whole), Len(items) < Size
         PROVE  n = Len(recs)
    <3>1. L = Len(recs)
      BY <1>1, <2>10
    <3>2. size = Len(rest)
      BY <2>3, <2>4, <2>10
    <3>3. Len(r) = Len(recs) - offset
      BY <1>3, <3>1
    <3> QED BY <2>1, <3>2, <3>3
  <2>11. n \in 1 .. Len(recs)
    BY <2>5
  <2>12. Len(items) <= Size
    BY <2>2, <2>4
  <2> HIDE DEF kk, n
  <2> QED BY <2>5, <2>7, <2>8, <2>9, <2>10, <2>11, <2>12, Zenon
<1>6. CASE \E k \in 1 .. Len(r) :
             /\ r[k].id > id
             /\ \A j \in 1 .. k - 1 : r[j].id <= id
             /\ Part(rest, r, k, Len(r))
  <2> HIDE DEF rest, size
  <2>1. PICK k \in 1 .. Len(r) : /\ r[k].id > id
                                 /\ \A j \in 1 .. k - 1 : r[j].id <= id
                                 /\ Part(rest, r, k, Len(r))
    BY <1>6
  <2> QED BY <1>5, <2>1 DEF items
<1>7. \/ /\ rest = <<>>
         /\ \A i \in 1 .. Len(r) : r[i].id <= id
      \/ \E k \in 1 .. Len(r) :
           /\ r[k].id > id
           /\ \A j \in 1 .. k - 1 : r[j].id <= id
           /\ Part(rest, r, k, Len(r))
  BY <1>3, AfterIsPart
<1> HIDE DEF rest, size
<1> QED BY <1>4, <1>6, <1>7, Zenon

-----------------------------------------------------------------------------
(* The inductive invariant.                                                *)
IInv == TypeOK /\ NumbersInOrder

(* The fields of a file have their types, and stay in File when ct_save or *)
(* permFIFO_ack replaces the records.                                      *)
LEMMA FileFields ==
  ASSUME NEW f \in File
  PROVE  /\ f.recs \in Seq(Item) /\ f.lastAckId \in Nat /\ f.currentId \in Nat
         /\ \A r \in Seq(Item) : /\ [f EXCEPT !.recs = r] \in File
                                 /\ [f EXCEPT !.recs = r].recs = r
BY DEF File

(* A header and records of the right types, as permFIFO_ack and the clean  *)
(* write them, make a file.                                                *)
LEMMA FileOfIsFile ==
  ASSUME NEW a \in Nat, NEW c \in Nat, NEW r \in Seq(Item)
  PROVE  FileOf(a, c, r) \in File /\ FileOf(a, c, r).recs = r
         /\ FileOf(a, c, r).currentId = c
BY DEF FileOf, File

(* A missing file, an empty one and one with only a header are files       *)
(* without records.                                                        *)
LEMMA SpecialFiles ==
  /\ NoFile \in File /\ NoFile.recs = <<>>
  /\ EmptyFile \in File /\ EmptyFile.recs = <<>>
  /\ NewFile \in File /\ NewFile.recs = <<>>
  /\ Consecutive(<<>>) /\ Sound(<<>>) = <<>>
<1>1. <<>> \in Seq(Item)
  OBVIOUS
<1>2. NoFile \in File /\ NoFile.recs = <<>>
  BY <1>1 DEF NoFile, FileOf, File
<1>3. EmptyFile \in File /\ EmptyFile.recs = <<>>
  BY <1>1 DEF EmptyFile, FileOf, File
<1>4. NewFile \in File /\ NewFile.recs = <<>>
  BY <1>1 DEF NewFile, FileOf, File
<1>5. Consecutive(<<>>)
  BY DEF Consecutive
<1>6. Sound(<<>>) = <<>>
  BY DEF Sound, HasTorn
<1> QED BY <1>2, <1>3, <1>4, <1>5, <1>6

(* What reaches the file, here the leading records of table_disk, continues *)
(* its numbers.                                                            *)
LEMMA SavedRecords ==
  ASSUME IInv, mode = "up", NEW t, NEW k, Part(t, table_disk, 1, k)
  PROVE  /\ file.recs \in Seq(Item) /\ t \in Seq(Item) /\ t # <<>>
         /\ Consecutive(t) /\ Continues(file.recs, t)
         /\ file.recs \o t \in Seq(Item) /\ file.recs \o t # <<>>
         /\ Last(file.recs \o t) = Last(t)
         /\ Consecutive(Sound(file.recs \o t))
         /\ Last(Sound(file.recs \o t)).id <= Last(t).id
         /\ Len(Sound(file.recs)) <= Len(Sound(file.recs \o t))
         /\ \A i \in 1 .. Len(Sound(file.recs)) :
              Sound(file.recs \o t)[i] = Sound(file.recs)[i]
<1>1. /\ table_disk \in Seq(Item) /\ file \in File /\ lastIdOnDisk \in Nat
      /\ Consecutive(table_disk) /\ Consecutive(Sound(file.recs))
  BY DEF IInv, TypeOK, NumbersInOrder, FilesNumbered, TablesNumbered
<1>2. /\ t \in Seq(Item) /\ t # <<>> /\ table_disk # <<>>
  BY DEF Part
<1>3. Consecutive(t) /\ t[1] = table_disk[1]
  BY <1>1, PartOfConsecutive
<1>4. file.recs \in Seq(Item)
  BY <1>1, FileFields
<1>5. Continues(file.recs, t)
  <2> SUFFICES ASSUME file.recs # <<>>
               PROVE  /\ Last(Sound(file.recs)).id < t[1].id
                      /\ Sound(file.recs) = file.recs => t[1].id = Last(file.recs).id + 1
    BY DEF Continues
  <2>1. /\ Last(Sound(file.recs)).id <= lastIdOnDisk
        /\ Sound(file.recs) = file.recs => Last(file.recs).id = lastIdOnDisk
        /\ table_disk[1].id = lastIdOnDisk + 1
    BY <1>2 DEF IInv, NumbersInOrder, TablesNumbered
  <2>2. Last(Sound(file.recs)).id \in Nat
    <3>1. Sound(file.recs) \in Seq(Item) /\ Sound(file.recs) # <<>>
      BY <1>4, SoundIsPrefix
    <3> QED BY <3>1, ItemNumbers DEF Last
  <2> QED BY <1>1, <1>3, <2>1, <2>2
<1> QED BY <1>1, <1>2, <1>3, <1>4, <1>5, SoundAppended

(* Saving table_disk keeps the file numbered up to lastIdOnDisk.           *)
LEMMA SaveTableDiskStep ==
  ASSUME IInv, mode = "up", SaveTableDisk
  PROVE  /\ file' \in File /\ lastIdOnDisk' \in Nat /\ ackOnDisk' \in BOOLEAN
         /\ Consecutive(Sound(file'.recs))
         /\ lastIdOnDisk' <= currentId
         /\ file'.recs # <<>> => /\ ackOnDisk'
                                 /\ Last(Sound(file'.recs)).id <= lastIdOnDisk'
                                 /\ lastIdOnDisk' = currentId
         /\ file'.recs # <<>> /\ Sound(file'.recs) = file'.recs =>
              Last(file'.recs).id = lastIdOnDisk'
         /\ lastOutOffset <= Len(Sound(file'.recs))
         /\ \A i \in 1 .. lastOutOffset :
              Sound(file'.recs)[i].id <= lastIdOut + Len(table_client)
<1>1. /\ table_disk \in Seq(Item) /\ file \in File /\ lastOutOffset \in Nat
      /\ lastIdOnDisk \in Nat /\ ackOnDisk \in BOOLEAN /\ currentId \in Nat
  BY DEF IInv, TypeOK
<1>2. /\ Consecutive(Sound(file.recs))
      /\ lastIdOnDisk <= currentId
      /\ file.recs # <<>> => ackOnDisk /\ Last(Sound(file.recs)).id <= lastIdOnDisk
      /\ file.recs # <<>> /\ Sound(file.recs) = file.recs =>
           Last(file.recs).id = lastIdOnDisk
      /\ table_disk # <<>> => Last(table_disk).id = currentId
      /\ file.recs # <<>> /\ table_disk = <<>> => lastIdOnDisk = currentId
      /\ lastOutOffset <= Len(Sound(file.recs))
      /\ \A i \in 1 .. lastOutOffset :
           Sound(file.recs)[i].id <= lastIdOut + Len(table_client)
  BY DEF IInv, NumbersInOrder, FilesNumbered, TablesNumbered
<1>3. CASE table_disk = <<>>
  BY <1>1, <1>2, <1>3 DEF SaveTableDisk
<1>4. CASE table_disk # <<>>
  <2> DEFINE r == file.recs \o table_disk
  <2>1. /\ r \in Seq(Item) /\ Consecutive(Sound(r)) /\ r # <<>>
        /\ Last(r) = Last(table_disk)
        /\ Last(Sound(r)).id <= Last(table_disk).id
        /\ Len(Sound(file.recs)) <= Len(Sound(r))
        /\ \A i \in 1 .. Len(Sound(file.recs)) : Sound(r)[i] = Sound(file.recs)[i]
    BY <1>1, <1>4, WholeIsPart, SavedRecords
  <2>2. /\ file' = [file EXCEPT !.recs = r] /\ ackOnDisk'
        /\ lastIdOnDisk' = Last(table_disk).id
    BY <1>4 DEF SaveTableDisk
  <2> HIDE DEF r
  <2>3. Len(Sound(file.recs)) \in Nat /\ Len(Sound(r)) \in Nat
    <3>1. Len(Sound(file.recs)) \in 0 .. Len(file.recs) /\ Len(Sound(r)) \in 0 .. Len(r)
      BY <1>1, <2>1, FileFields, SoundIsPrefix
    <3> QED BY <3>1
  <2>4. file' \in File /\ file'.recs = r
    BY <1>1, <2>1, <2>2, FileFields
  <2>5. lastOutOffset <= Len(Sound(r))
    BY <1>1, <1>2, <2>1, <2>3
  <2>6. \A i \in 1 .. lastOutOffset :
          Sound(r)[i].id <= lastIdOut + Len(table_client)
    <3> SUFFICES ASSUME NEW i \in 1 .. lastOutOffset
                 PROVE  Sound(r)[i].id <= lastIdOut + Len(table_client)
      OBVIOUS
    <3>1. i \in 1 .. Len(Sound(file.recs))
      BY <1>1, <1>2, <2>3
    <3> QED BY <1>2, <2>1, <3>1
  <2> QED BY <1>1, <1>2, <1>4, <2>1, <2>2, <2>4, <2>5, <2>6
<1> QED BY <1>3, <1>4

-----------------------------------------------------------------------------
(* Writing.                                                                *)
LEMMA WriteStep ==
  ASSUME IInv, Write
  PROVE  IInv'
<1> DEFINE item == [id |-> currentId + 1, msg |-> written + 1]
           full == (item.id = nextIdInClientTable /\ Len(table_client) = Size)
                     \/ Len(table_disk) = Size
<1>1. /\ table_disk \in Seq(Item) /\ table_client \in Seq(Item)
      /\ file \in File /\ lastOutOffset \in Nat /\ lastIdOut \in Nat
      /\ lastIdOnDisk \in Nat /\ ackOnDisk \in BOOLEAN /\ currentId \in Nat
      /\ nextIdInClientTable \in Nat /\ written \in 0 .. MaxMsg
      /\ MaxMsg \in Nat /\ Size \in Nat \ {0}
  BY BoundAssumption, SizeAssumption DEF IInv, TypeOK
<1>2. /\ mode = "up" /\ mode' = mode /\ written < MaxMsg
      /\ written' = written + 1 /\ currentId' = currentId + 1
      /\ UNCHANGED <<fileOld, fileNew, lastIdOut, lastOutOffset, taken,
                     acked, ends>>
  BY DEF Write
<1>3. /\ Len(table_client) <= Size /\ Len(table_disk) <= Size
      /\ Consecutive(table_client) /\ Consecutive(table_disk)
      /\ table_client # <<>> => table_client[1].id = lastIdOut + 1
      /\ nextIdInClientTable # 0 =>
           nextIdInClientTable = lastIdOut + Len(table_client) + 1
      /\ lastIdOut + Len(table_client) <= currentId
      /\ lastIdOnDisk <= currentId
      /\ file.recs # <<>> => ackOnDisk /\ Last(Sound(file.recs)).id <= lastIdOnDisk
      /\ file.recs # <<>> /\ Sound(file.recs) = file.recs =>
           Last(file.recs).id = lastIdOnDisk
      /\ table_disk # <<>> => /\ table_disk[1].id > lastIdOnDisk
                              /\ Last(table_disk).id = currentId
      /\ file.recs # <<>> /\ table_disk # <<>> =>
           table_disk[1].id = lastIdOnDisk + 1
      /\ file.recs # <<>> /\ table_disk = <<>> => lastIdOnDisk = currentId
      /\ lastOutOffset <= Len(Sound(file.recs))
      /\ \A i \in 1 .. lastOutOffset :
           Sound(file.recs)[i].id <= lastIdOut + Len(table_client)
  BY <1>2 DEF IInv, NumbersInOrder, TablesNumbered
<1>4. item \in Item /\ item.id = currentId + 1
  <2>1. written + 1 \in Message
    BY <1>1, <1>2 DEF Message
  <2> QED BY <1>1, <2>1 DEF Item
<1>5. /\ \/ /\ item.id = nextIdInClientTable /\ Len(table_client) # Size
            /\ table_client' = Append(table_client, item)
            /\ nextIdInClientTable' = nextIdInClientTable + 1
         \/ /\ table_client' = table_client
            /\ \/ nextIdInClientTable' = 0
               \/ nextIdInClientTable' = nextIdInClientTable
      /\ \/ /\ full /\ SaveTableDisk /\ table_disk' = <<item>>
         \/ /\ ~full /\ table_disk' = Append(table_disk, item)
            /\ UNCHANGED <<file, lastIdOnDisk, ackOnDisk>>
  BY <1>4 DEF Write
<1> HIDE DEF item
(* The consumer's table.                                                   *)
<1>6. /\ table_client' \in Seq(Item) /\ nextIdInClientTable' \in Nat
      /\ Len(table_client') <= Size /\ Consecutive(table_client')
      /\ table_client' # <<>> => table_client'[1].id = lastIdOut + 1
      /\ nextIdInClientTable' # 0 =>
           nextIdInClientTable' = lastIdOut + Len(table_client') + 1
      /\ lastIdOut + Len(table_client') <= currentId'
      /\ Len(table_client') >= Len(table_client)
  <2>1. CASE /\ table_client' = table_client
             /\ \/ nextIdInClientTable' = 0
                \/ nextIdInClientTable' = nextIdInClientTable
    BY <1>1, <1>2, <1>3, <2>1
  <2>2. CASE /\ item.id = nextIdInClientTable /\ Len(table_client) # Size
             /\ table_client' = Append(table_client, item)
             /\ nextIdInClientTable' = nextIdInClientTable + 1
    <3>1. table_client # <<>> =>
            table_client[Len(table_client)].id = lastIdOut + Len(table_client)
      BY <1>1, <1>3, LastNumber
    <3>2. item.id = lastIdOut + Len(table_client) + 1
      BY <1>1, <1>3, <1>4, <2>2
    <3>3. table_client # <<>> => item.id = table_client[Len(table_client)].id + 1
      BY <1>1, <3>1, <3>2
    <3>4. /\ Append(table_client, item) \in Seq(Item)
          /\ Len(Append(table_client, item)) = Len(table_client) + 1
          /\ Consecutive(Append(table_client, item))
      BY <1>1, <1>3, <1>4, <3>3, ConsecutiveAppend
    <3>5. Append(table_client, item)[1].id = lastIdOut + 1
      <4>1. CASE table_client = <<>>
        BY <1>1, <1>4, <3>2, <4>1
      <4>2. CASE table_client # <<>>
        BY <1>1, <1>3, <1>4, <4>2
      <4> QED BY <4>1, <4>2
    <3> QED BY <1>1, <1>2, <1>3, <1>4, <2>2, <3>2, <3>4, <3>5
  <2> QED BY <1>5, <2>1, <2>2
(* table_disk and the file.                                                *)
<1>7. /\ table_disk' \in Seq(Item)
      /\ Len(table_disk') <= Size /\ Consecutive(table_disk')
      /\ file' \in File /\ lastIdOnDisk' \in Nat /\ ackOnDisk' \in BOOLEAN
      /\ Consecutive(Sound(file'.recs))
      /\ lastIdOnDisk' <= currentId'
      /\ file'.recs # <<>> => ackOnDisk' /\ Last(Sound(file'.recs)).id <= lastIdOnDisk'
      /\ file'.recs # <<>> /\ Sound(file'.recs) = file'.recs =>
           Last(file'.recs).id = lastIdOnDisk'
      /\ table_disk' # <<>> /\ table_disk'[1].id > lastIdOnDisk'
      /\ Last(table_disk').id = currentId'
      /\ file'.recs # <<>> => table_disk'[1].id = lastIdOnDisk' + 1
      /\ lastOutOffset <= Len(Sound(file'.recs))
      /\ \A i \in 1 .. lastOutOffset :
           Sound(file'.recs)[i].id <= lastIdOut + Len(table_client)
  <2>1. CASE full /\ SaveTableDisk /\ table_disk' = <<item>>
    <3>1. /\ <<item>> \in Seq(Item) /\ Len(<<item>>) = 1 /\ <<item>>[1] = item
          /\ Last(<<item>>) = item
      BY <1>4 DEF Last
    <3>2. Consecutive(<<item>>)
      BY <1>1, <1>4, <3>1 DEF Consecutive
    <3> QED BY <1>1, <1>2, <1>4, <2>1, <3>1, <3>2, SaveTableDiskStep
  <2>2. CASE /\ ~full /\ table_disk' = Append(table_disk, item)
             /\ UNCHANGED <<file, lastIdOnDisk, ackOnDisk>>
    <3>1. table_disk # <<>> => item.id = table_disk[Len(table_disk)].id + 1
      BY <1>3, <1>4 DEF Last
    <3>2. /\ Append(table_disk, item) \in Seq(Item)
          /\ Len(Append(table_disk, item)) = Len(table_disk) + 1
          /\ Consecutive(Append(table_disk, item))
      BY <1>1, <1>3, <1>4, <3>1, ConsecutiveAppend
    <3>3. Append(table_disk, item)[Len(table_disk) + 1] = item
      BY <1>1, <1>4
    <3>4. Len(table_disk') <= Size
      BY <1>1, <1>3, <2>2, <3>2
    <3>5. Last(table_disk').id = currentId' /\ table_disk' # <<>>
      BY <1>1, <1>2, <1>4, <2>2, <3>2, <3>3 DEF Last
    <3>6. /\ table_disk'[1].id > lastIdOnDisk
          /\ file.recs # <<>> => table_disk'[1].id = lastIdOnDisk + 1
      <4>1. CASE table_disk = <<>>
        BY <1>1, <1>3, <1>4, <2>2, <3>3, <4>1
      <4>2. CASE table_disk # <<>>
        <5>1. Append(table_disk, item)[1] = table_disk[1]
          BY <1>1, <1>4, <4>2
        <5> QED BY <1>3, <2>2, <4>2, <5>1
      <4> QED BY <4>1, <4>2
    <3>7. Consecutive(Sound(file.recs))
      BY DEF IInv, NumbersInOrder, FilesNumbered
    <3> QED BY <1>1, <1>2, <1>3, <2>2, <3>2, <3>4, <3>5, <3>6, <3>7
  <2> QED BY <1>5, <2>1, <2>2
<1>8. TypeOK'
  <2>1. /\ written' \in 0 .. MaxMsg /\ currentId' \in Nat
    BY <1>1, <1>2
  <2>2. /\ mode' = "up" /\ lastIdOut' \in Nat /\ lastOutOffset' \in Nat
    BY <1>1, <1>2
  <2>3. /\ fileOld' \in File /\ fileNew' \in File /\ taken' \in Seq(Item)
        /\ ends' \in 0 .. MaxEnds /\ acked' \subseteq Message \union {Torn}
    BY <1>2 DEF IInv, TypeOK
  <2> QED BY <1>6, <1>7, <2>1, <2>2, <2>3 DEF TypeOK
<1>9. FilesNumbered'
  <2>1. Consecutive(Sound(fileOld.recs)) /\ Consecutive(Sound(fileNew.recs))
    BY DEF IInv, NumbersInOrder, FilesNumbered
  <2> QED BY <1>2, <1>7, <2>1 DEF FilesNumbered
<1>10. \A i \in 1 .. lastOutOffset' :
         Sound(file'.recs)[i].id <= lastIdOut' + Len(table_client')
  <2> SUFFICES ASSUME NEW i \in 1 .. lastOutOffset
               PROVE  Sound(file'.recs)[i].id <= lastIdOut + Len(table_client')
    BY <1>2
  <2>1. Sound(file'.recs) \in Seq(Item) /\ i \in 1 .. Len(Sound(file'.recs))
    <3>1. file'.recs \in Seq(Item)
      BY <1>7, FileFields
    <3>2. /\ Sound(file'.recs) \in Seq(Item)
          /\ Len(Sound(file'.recs)) \in 0 .. Len(file'.recs)
      BY <3>1, SoundIsPrefix
    <3> QED BY <1>1, <1>7, <3>2
  <2>2. Sound(file'.recs)[i].id \in Nat
    BY <2>1, ItemNumbers
  <2>3. Sound(file'.recs)[i].id <= lastIdOut + Len(table_client)
    BY <1>7
  <2> QED BY <1>1, <1>6, <2>2, <2>3
<1>11. TablesNumbered'
  BY <1>2, <1>6, <1>7, <1>10 DEF TablesNumbered
<1> QED BY <1>8, <1>9, <1>11 DEF IInv, NumbersInOrder

-----------------------------------------------------------------------------
(* Reading.  A read hands out the item numbered out and leaves behind it,  *)
(* in the consumer's table, the rest of a list of consecutive numbers.     *)
LEMMA TakenFromList ==
  ASSUME NEW s \in Seq(Item), s # <<>>, Consecutive(s), Len(s) <= Size,
         NEW out \in Nat, out = Head(s).id
  PROVE  /\ Head(s) \in Item /\ Head(s) = s[1]
         /\ Tail(s) \in Seq(Item) /\ Len(Tail(s)) <= Size
         /\ Len(Tail(s)) = Len(s) - 1
         /\ Consecutive(Tail(s))
         /\ Tail(s) # <<>> => Tail(s)[1].id = out + 1
         /\ Last(s).id + 1 = out + Len(Tail(s)) + 1
<1>1. /\ Head(s) = s[1] /\ Tail(s) \in Seq(Item)
      /\ Len(Tail(s)) = Len(s) - 1
      /\ \A i \in 1 .. Len(s) - 1 : Tail(s)[i] = s[i + 1]
  OBVIOUS
<1>2. /\ Len(s) \in Nat \ {0} /\ s[1].id \in Nat \ {0}
      /\ s[Len(s)].id = s[1].id + Len(s) - 1
  BY LastNumber
<1>3. \A i \in 1 .. Len(s) - 1 : Tail(s)[i].id = s[1].id + i
  <2> SUFFICES ASSUME NEW i \in 1 .. Len(s) - 1
               PROVE  Tail(s)[i].id = s[1].id + i
    OBVIOUS
  <2>1. Tail(s)[i] = s[i + 1] /\ i + 1 \in 1 .. Len(s)
    BY <1>1, <1>2
  <2>2. s[i + 1].id = s[1].id + (i + 1) - 1
    BY <2>1 DEF Consecutive
  <2> QED BY <1>2, <2>1, <2>2
<1>4. Consecutive(Tail(s))
  <2> SUFFICES ASSUME NEW i \in 1 .. Len(s) - 1
               PROVE  Tail(s)[i].id = Tail(s)[1].id + i - 1
    BY <1>1 DEF Consecutive
  <2>1. 1 \in 1 .. Len(s) - 1
    BY <1>2
  <2>2. Tail(s)[i].id = s[1].id + i /\ Tail(s)[1].id = s[1].id + 1
    BY <1>3, <2>1
  <2> QED BY <1>2, <2>2
<1>5. Tail(s) # <<>> => Tail(s)[1].id = out + 1
  <2>1. Tail(s) # <<>> => 1 \in 1 .. Len(s) - 1
    BY <1>1, <1>2
  <2> QED BY <1>1, <1>3, <2>1
<1>6. Head(s) \in Item
  OBVIOUS
<1>7. Size \in Nat
  BY SizeAssumption
<1> QED BY <1>1, <1>2, <1>4, <1>5, <1>6, <1>7 DEF Last

(* What a read must establish, besides leaving the file and table_disk as  *)
(* they are.                                                               *)
ReadEffect ==
  /\ mode = "up" /\ mode' = mode
  /\ UNCHANGED <<fileVars, table_disk, currentId, lastIdOnDisk, ackOnDisk,
                 historyVars>>
  /\ table_client' \in Seq(Item) /\ taken' \in Seq(Item)
  /\ lastIdOut' \in Nat /\ lastOutOffset' \in Nat
  /\ nextIdInClientTable' \in Nat
  /\ Len(table_client') <= Size /\ Consecutive(table_client')
  /\ table_client' # <<>> => table_client'[1].id = lastIdOut' + 1
  /\ nextIdInClientTable' # 0 =>
       nextIdInClientTable' = lastIdOut' + Len(table_client') + 1
  /\ lastIdOut' + Len(table_client') <= currentId
  /\ lastOutOffset' <= Len(Sound(file.recs))
  /\ \A i \in 1 .. lastOutOffset' :
       Sound(file.recs)[i].id <= lastIdOut' + Len(table_client')
  /\ lastIdOut <= lastIdOut'
  /\ ~Skips(Sound(file.recs)) /\ ~Skips(table_disk)

(* Whatever permFIFO_read does within ReadEffect preserves the invariant.  *)
LEMMA ReadEffectStep ==
  ASSUME IInv, ReadEffect
  PROVE  IInv'
<1>1. TypeOK'
  BY DEF IInv, TypeOK, ReadEffect, fileVars, historyVars
<1>2. FilesNumbered'
  BY DEF IInv, NumbersInOrder, FilesNumbered, ReadEffect, fileVars
<1>3. TablesNumbered'
  BY DEF IInv, NumbersInOrder, TablesNumbered, ReadEffect, fileVars
<1> QED BY <1>1, <1>2, <1>3 DEF IInv, NumbersInOrder

(* permFIFO_read starts from an open FIFO, and does not touch the file,    *)
(* table_disk or the numbers given to items.                               *)
LEMMA ReadUp ==
  ASSUME IInv, CanRead, ReadUnchanged
  PROVE  /\ mode = "up" /\ mode' = mode
         /\ UNCHANGED <<fileVars, table_disk, currentId, lastIdOnDisk, ackOnDisk,
                        historyVars>>
         /\ table_disk \in Seq(Item) /\ table_client \in Seq(Item)
         /\ taken \in Seq(Item)
         /\ file.recs \in Seq(Item) /\ Sound(file.recs) \in Seq(Item)
         /\ lastOutOffset \in Nat /\ lastIdOut \in Nat /\ currentId \in Nat
         /\ lastIdOnDisk \in Nat
         /\ nextIdInClientTable \in Nat /\ Size \in Nat \ {0}
         /\ Len(table_client) <= Size /\ Len(table_disk) <= Size
         /\ Consecutive(table_client) /\ Consecutive(table_disk)
         /\ Consecutive(Sound(file.recs))
         /\ table_client # <<>> => table_client[1].id = lastIdOut + 1
         /\ nextIdInClientTable # 0 =>
              nextIdInClientTable = lastIdOut + Len(table_client) + 1
         /\ lastIdOut < currentId
         /\ lastIdOut + Len(table_client) <= currentId
         /\ lastIdOnDisk <= currentId
         /\ file.recs # <<>> => Last(Sound(file.recs)).id <= lastIdOnDisk
         /\ table_disk # <<>> => /\ table_disk[1].id > lastIdOnDisk
                                 /\ Last(table_disk).id = currentId
         /\ lastOutOffset <= Len(Sound(file.recs))
         /\ \A i \in 1 .. lastOutOffset :
              Sound(file.recs)[i].id <= lastIdOut + Len(table_client)
<1>1. /\ mode = "up" /\ mode' = mode /\ lastIdOut < currentId
      /\ UNCHANGED <<fileVars, table_disk, currentId, lastIdOnDisk, ackOnDisk,
                     historyVars>>
  BY DEF CanRead, ReadUnchanged
<1>2. file.recs \in Seq(Item) /\ Sound(file.recs) \in Seq(Item)
  BY FileFields, SoundIsPrefix DEF IInv, TypeOK
<1> QED BY <1>1, <1>2, SizeAssumption
        DEF IInv, TypeOK, NumbersInOrder, FilesNumbered, TablesNumbered

(* An item with the next number cannot pass over another one.              *)
LEMMA NextIsNoSkip ==
  ASSUME lastIdOut \in Nat, lastIdOut' = lastIdOut + 1, NEW s \in Seq(Item)
  PROVE  ~Skips(s)
<1>1. \A i \in 1 .. Len(s) : s[i].id \in Nat
  BY ItemNumbers
<1> QED BY <1>1 DEF Skips

(* permFIFO_read from table_client is within ReadEffect.                   *)
LEMMA ReadClientTableStep ==
  ASSUME IInv, ReadClientTable
  PROVE  ReadEffect
<1>1. /\ CanRead /\ ReadUnchanged /\ table_client # <<>>
      /\ lastIdOut' = Head(table_client).id
      /\ taken' = Append(taken, Head(table_client))
      /\ table_client' = Tail(table_client)
      /\ UNCHANGED <<lastOutOffset, nextIdInClientTable>>
  BY DEF ReadClientTable, HandOut
<1>2. Head(table_client).id = lastIdOut + 1 /\ Head(table_client).id \in Nat
  <2>1. /\ table_client \in Seq(Item) /\ lastIdOut \in Nat
        /\ table_client # <<>> => table_client[1].id = lastIdOut + 1
    BY <1>1, ReadUp
  <2>2. Head(table_client) = table_client[1]
    BY <1>1, <2>1
  <2>3. table_client[1].id = lastIdOut + 1
    BY <1>1, <2>1
  <2> QED BY <2>1, <2>2, <2>3
<1>3. /\ Head(table_client) \in Item
      /\ Tail(table_client) \in Seq(Item) /\ Len(Tail(table_client)) <= Size
      /\ Len(Tail(table_client)) = Len(table_client) - 1
      /\ Consecutive(Tail(table_client))
      /\ Tail(table_client) # <<>> => Tail(table_client)[1].id = lastIdOut' + 1
  BY <1>1, <1>2, ReadUp, TakenFromList
<1>4. ~Skips(Sound(file.recs)) /\ ~Skips(table_disk)
  BY <1>1, <1>2, ReadUp, NextIsNoSkip
<1>5. /\ lastIdOut' = lastIdOut + 1 /\ Len(table_client) \in Nat
      /\ lastIdOut' + Len(table_client') = lastIdOut + Len(table_client)
      /\ Append(taken, Head(table_client)) \in Seq(Item)
  BY <1>1, <1>2, <1>3, ReadUp
<1>6. \A i \in 1 .. lastOutOffset' :
        Sound(file.recs)[i].id <= lastIdOut' + Len(table_client')
  BY <1>1, <1>5, ReadUp
<1>7. nextIdInClientTable' # 0 =>
        nextIdInClientTable' = lastIdOut' + Len(table_client') + 1
  BY <1>1, <1>5, ReadUp
<1>8. lastIdOut' \in Nat /\ lastIdOut <= lastIdOut'
  <2>1. lastIdOut \in Nat
    BY <1>1, ReadUp
  <2> QED BY <1>5, <2>1
<1> QED BY <1>1, <1>3, <1>4, <1>5, <1>6, <1>7, <1>8, ReadUp DEF ReadEffect

(* permFIFO_read from table_disk is within ReadEffect.                     *)
LEMMA ReadDiskTableStep ==
  ASSUME IInv, ReadDiskTable
  PROVE  ReadEffect
<1> DEFINE rest == After(table_disk, lastIdOut)
<1>1. /\ CanRead /\ ReadUnchanged /\ table_client = <<>>
      /\ rest # <<>> /\ Head(rest).id = lastIdOut + 1
      /\ lastIdOut' = Head(rest).id
      /\ taken' = Append(taken, Head(rest))
      /\ table_client' = Tail(rest)
      /\ nextIdInClientTable' = Last(rest).id + 1
      /\ lastOutOffset' = lastOutOffset
  BY DEF ReadDiskTable, HandOut, InDiskTable
<1>2. PICK k \in 1 .. Len(table_disk) : Part(rest, table_disk, k, Len(table_disk))
  BY <1>1, ReadUp, AfterIsPart
<1> HIDE DEF rest
<1>3. /\ rest \in Seq(Item) /\ Consecutive(rest) /\ Last(rest) = Last(table_disk)
      /\ table_disk # <<>> /\ Len(rest) = Len(table_disk) - k + 1
  <2>1. table_disk \in Seq(Item) /\ Consecutive(table_disk)
    BY <1>1, ReadUp
  <2>2. Consecutive(rest) /\ rest[Len(rest)] = table_disk[Len(table_disk)]
    BY <1>2, <2>1, PartOfConsecutive
  <2> QED BY <1>2, <2>1, <2>2 DEF Part, Last
<1>4. Len(rest) <= Size /\ Last(rest).id = currentId
  BY <1>1, <1>3, ReadUp
<1>5. lastIdOut' = lastIdOut + 1 /\ lastIdOut' \in Nat /\ lastIdOut <= lastIdOut'
  <2>1. lastIdOut \in Nat
    BY <1>1, ReadUp
  <2>2. lastIdOut' = lastIdOut + 1
    BY <1>1
  <2> QED BY <2>1, <2>2
<1>6. /\ Head(rest) \in Item
      /\ Tail(rest) \in Seq(Item) /\ Len(Tail(rest)) <= Size
      /\ Consecutive(Tail(rest))
      /\ Tail(rest) # <<>> => Tail(rest)[1].id = lastIdOut' + 1
      /\ Last(rest).id + 1 = lastIdOut' + Len(Tail(rest)) + 1
  BY <1>1, <1>3, <1>4, <1>5, TakenFromList
<1>7. ~Skips(Sound(file.recs)) /\ ~Skips(table_disk)
  BY <1>1, <1>5, ReadUp, NextIsNoSkip
<1>8. /\ Len(Tail(rest)) \in Nat /\ Append(taken, Head(rest)) \in Seq(Item)
      /\ currentId = lastIdOut' + Len(table_client')
      /\ nextIdInClientTable' = lastIdOut' + Len(table_client') + 1
      /\ nextIdInClientTable' \in Nat /\ currentId \in Nat
  <2>1. taken \in Seq(Item) /\ currentId \in Nat
    BY <1>1, ReadUp
  <2> QED BY <1>1, <1>4, <1>5, <1>6, <2>1
<1>9. \A i \in 1 .. lastOutOffset' :
        Sound(file.recs)[i].id <= lastIdOut' + Len(table_client')
  <2> SUFFICES ASSUME NEW i \in 1 .. lastOutOffset
               PROVE  Sound(file.recs)[i].id <= currentId
    BY <1>1, <1>8
  <2>1. /\ lastOutOffset \in Nat /\ lastOutOffset <= Len(Sound(file.recs))
        /\ Sound(file.recs) \in Seq(Item)
        /\ lastIdOut \in Nat /\ currentId \in Nat
        /\ lastIdOut < currentId /\ lastOutOffset' = lastOutOffset
        /\ \A x \in 1 .. lastOutOffset :
             Sound(file.recs)[x].id <= lastIdOut + Len(table_client)
    BY <1>1, ReadUp
  <2>2. i \in 1 .. Len(Sound(file.recs)) /\ i \in 1 .. lastOutOffset
    <3>1. Len(Sound(file.recs)) \in Nat
      BY <2>1
    <3> QED BY <2>1, <3>1
  <2>3. Sound(file.recs)[i].id \in Nat
    BY <2>1, <2>2, ItemNumbers
  <2>4. Len(table_client) = 0
    BY <1>1
  <2>5. Sound(file.recs)[i].id <= lastIdOut + Len(table_client)
    BY <2>1, <2>2
  <2> QED BY <2>1, <2>3, <2>4, <2>5
<1>10. /\ mode = "up" /\ mode' = mode
       /\ UNCHANGED <<fileVars, table_disk, currentId, lastIdOnDisk, ackOnDisk,
                      historyVars>>
       /\ lastOutOffset' \in Nat /\ lastOutOffset' <= Len(Sound(file.recs))
  BY <1>1, ReadUp
<1>11. lastIdOut' + Len(table_client') <= currentId
  BY <1>8
<1>12. taken' \in Seq(Item) /\ table_client' = Tail(rest)
  BY <1>1, <1>8
<1> QED BY <1>5, <1>6, <1>7, <1>8, <1>9, <1>10, <1>11, <1>12 DEF ReadEffect

(* permFIFO_read from the file is within ReadEffect: either ct_load finds  *)
(* nothing, or a part of the records that starts at the first one above    *)
(* lastIdOut.                                                              *)
LEMMA ReadFileStep ==
  ASSUME IInv, ReadFile
  PROVE  ReadEffect
<1> DEFINE recs == Sound(file.recs)
           torn == HasTorn(file.recs)
<1>0. PICK L \in Legible(file.recs) :
        LET items == Loaded(file.recs, L, lastOutOffset, lastIdOut) IN
        /\ lastOutOffset' = IF Len(items) < Size /\ ~torn
                            THEN Len(file.recs) ELSE lastOutOffset
        /\ \/ /\ items # <<>>
              /\ lastIdOut' = Head(items).id /\ taken' = Append(taken, Head(items))
              /\ table_client' = Tail(items)
              /\ nextIdInClientTable' = Last(items).id + 1
           \/ /\ items = <<>>
              /\ UNCHANGED <<lastIdOut, taken, table_client, nextIdInClientTable>>
  BY DEF ReadFile, HandOut
<1> DEFINE items == Loaded(file.recs, L, lastOutOffset, lastIdOut)
           atEnd == Len(items) < Size /\ ~torn
<1>1. /\ CanRead /\ ReadUnchanged /\ table_client = <<>>
      /\ lastOutOffset' = IF atEnd THEN Len(recs) ELSE lastOutOffset
      /\ \/ /\ items # <<>>
            /\ lastIdOut' = Head(items).id /\ taken' = Append(taken, Head(items))
            /\ table_client' = Tail(items)
            /\ nextIdInClientTable' = Last(items).id + 1
         \/ /\ items = <<>>
            /\ UNCHANGED <<lastIdOut, taken, table_client, nextIdInClientTable>>
  <2>1. CanRead /\ ReadUnchanged /\ table_client = <<>>
    BY DEF ReadFile
  <2>2. file.recs \in Seq(Item)
    BY <2>1, ReadUp
  <2>3. ~torn => recs = file.recs
    BY <2>2, SoundIsPrefix
  <2> QED BY <1>0, <2>1, <2>3
<1>2. /\ mode = "up" /\ mode' = mode
      /\ UNCHANGED <<fileVars, table_disk, currentId, lastIdOnDisk, ackOnDisk,
                     historyVars>>
      /\ recs \in Seq(Item) /\ Consecutive(recs) /\ taken \in Seq(Item)
      /\ table_disk \in Seq(Item) /\ Consecutive(table_disk)
      /\ lastIdOut \in Nat /\ currentId \in Nat /\ lastIdOnDisk \in Nat
      /\ nextIdInClientTable \in Nat /\ Size \in Nat
      /\ lastIdOut < currentId /\ lastIdOnDisk <= currentId
      /\ nextIdInClientTable # 0 =>
           nextIdInClientTable = lastIdOut + Len(table_client) + 1
      /\ recs # <<>> => Last(recs).id <= lastIdOnDisk
      /\ table_disk # <<>> => table_disk[1].id > lastIdOnDisk
  <2>1. recs # <<>> => file.recs # <<>>
    BY SpecialFiles
  <2> QED BY <1>1, <2>1, ReadUp
<1>3. lastOutOffset \in 0 .. Len(recs)
  BY <1>1, ReadUp
<1>4. \A i \in 1 .. lastOutOffset : recs[i].id <= lastIdOut
  BY <1>1, <1>2, ReadUp
<1>5. lastOutOffset' \in 0 .. Len(recs)
  BY <1>1, <1>2, <1>3
<1>6. \A i \in 1 .. Len(recs) : recs[i].id \in Nat
  BY <1>2, ItemNumbers
<1>7. \/ /\ items = <<>>
         /\ ~torn =>
              \A i \in lastOutOffset + 1 .. Len(recs) : recs[i].id <= lastIdOut
      \/ \E k \in lastOutOffset + 1 .. Len(recs), n \in 1 .. Len(recs) :
           /\ Part(items, recs, k, n)
           /\ recs[k].id > lastIdOut
           /\ \A j \in lastOutOffset + 1 .. k - 1 : recs[j].id <= lastIdOut
           /\ Len(items) <= Size
           /\ ~torn /\ Len(items) < Size => n = Len(recs)
  <2>1. file.recs \in Seq(Item)
    BY <1>1, ReadUp
  <2> QED BY <1>2, <1>3, <2>1, LoadedIsPart
<1> HIDE DEF recs, items, torn
(* Nothing was loaded.                                                     *)
<1>8. CASE /\ items = <<>>
           /\ ~torn =>
                \A i \in lastOutOffset + 1 .. Len(recs) : recs[i].id <= lastIdOut
  <2>1. /\ lastIdOut' = lastIdOut /\ taken' = taken /\ table_client' = <<>>
        /\ nextIdInClientTable' = nextIdInClientTable
        /\ Len(table_client') = 0 /\ table_client' \in Seq(Item)
        /\ Len(table_client) = 0
    BY <1>1, <1>8
  <2>2. \A i \in 1 .. lastOutOffset' :
          recs[i].id <= lastIdOut' + Len(table_client')
    <3>1. \A i \in 1 .. lastOutOffset' : recs[i].id <= lastIdOut
      BY <1>1, <1>3, <1>4, <1>8
    <3> QED BY <1>2, <2>1, <3>1
  <2>3. ~Skips(recs) /\ ~Skips(table_disk)
    <3>1. \A i \in 1 .. Len(table_disk) : table_disk[i].id \in Nat
      BY <1>2, ItemNumbers
    <3> QED BY <1>2, <1>6, <2>1, <3>1 DEF Skips
  <2>4. Consecutive(table_client')
    BY <2>1, SpecialFiles
  <2>5. lastIdOut' + Len(table_client') <= currentId
    BY <1>2, <2>1
  <2>6. nextIdInClientTable' # 0 =>
          nextIdInClientTable' = lastIdOut' + Len(table_client') + 1
    BY <1>2, <2>1
  <2> QED BY <1>2, <1>5, <2>1, <2>2, <2>3, <2>4, <2>5, <2>6 DEF ReadEffect, recs
(* Records k to n were loaded, k the first above lastIdOut.                *)
<1>9. ASSUME NEW k \in lastOutOffset + 1 .. Len(recs), NEW n \in 1 .. Len(recs),
             Part(items, recs, k, n),
             recs[k].id > lastIdOut,
             \A j \in lastOutOffset + 1 .. k - 1 : recs[j].id <= lastIdOut,
             Len(items) <= Size,
             ~torn /\ Len(items) < Size => n = Len(recs)
      PROVE  ReadEffect
  <2>1. /\ items \in Seq(Item) /\ items # <<>>
        /\ k \in 1 .. Len(recs) /\ n \in k .. Len(recs)
    BY <1>9 DEF Part
  <2>2. /\ Consecutive(items) /\ items[1] = recs[k] /\ items[Len(items)] = recs[n]
        /\ recs[k].id = recs[1].id + k - 1 /\ recs[n].id = recs[1].id + n - 1
        /\ recs[1].id \in Nat
    BY <1>2, <1>9, PartOfConsecutive
  <2>3. /\ lastIdOut' = Head(items).id /\ Head(items) = recs[k]
        /\ taken' = Append(taken, Head(items)) /\ table_client' = Tail(items)
        /\ nextIdInClientTable' = Last(items).id + 1
    <3>1. Head(items) = items[1]
      BY <2>1
    <3>2. /\ lastIdOut' = Head(items).id
          /\ taken' = Append(taken, Head(items)) /\ table_client' = Tail(items)
          /\ nextIdInClientTable' = Last(items).id + 1
      BY <1>1, <2>1, Zenon
    <3> QED BY <2>2, <3>1, <3>2
  <2>4. lastIdOut' \in Nat /\ lastIdOut < lastIdOut'
    BY <1>6, <1>9, <2>1, <2>3
  <2>5. /\ Head(items) \in Item
        /\ Tail(items) \in Seq(Item) /\ Len(Tail(items)) <= Size
        /\ Consecutive(Tail(items))
        /\ Tail(items) # <<>> => Tail(items)[1].id = lastIdOut' + 1
        /\ Last(items).id + 1 = lastIdOut' + Len(Tail(items)) + 1
    BY <1>9, <2>1, <2>2, <2>3, <2>4, TakenFromList
  <2>6. recs # <<>> /\ recs[Len(recs)].id <= lastIdOnDisk
    BY <1>2, <2>1 DEF Last
  <2>7. /\ Len(Tail(items)) \in Nat /\ Last(items).id = recs[n].id
        /\ recs[n].id \in Nat
        /\ lastIdOut' + Len(table_client') = recs[n].id
        /\ nextIdInClientTable' = lastIdOut' + Len(table_client') + 1
    <3>1. Last(items) = recs[n] /\ recs[n].id \in Nat
      BY <1>6, <2>2 DEF Last
    <3>2. Len(Tail(items)) \in Nat
      BY <2>5
    <3>3. Last(items).id = recs[n].id
      BY <3>1, Zenon
    <3>4. recs[n].id = lastIdOut' + Len(Tail(items))
      BY <2>4, <2>5, <3>1, <3>2, <3>3
    <3> QED BY <2>3, <2>5, <3>1, <3>2, <3>3, <3>4
  <2>8. \A i \in 1 .. Len(recs) : recs[i].id = recs[1].id + i - 1
    BY <1>2 DEF Consecutive
  <2>9. recs[n].id <= lastIdOnDisk
    <3>1. Len(recs) \in 1 .. Len(recs) /\ n <= Len(recs)
      BY <2>1
    <3>2. recs[Len(recs)].id = recs[1].id + Len(recs) - 1
      BY <2>8, <3>1
    <3>3. recs[n].id <= recs[Len(recs)].id
      BY <2>2, <3>1, <3>2
    <3>4. recs[n].id \in Nat /\ recs[Len(recs)].id \in Nat
      BY <1>6, <2>1, <3>1
    <3> QED BY <1>2, <2>6, <3>3, <3>4
  <2>10. \A i \in 1 .. lastOutOffset' :
           recs[i].id <= lastIdOut' + Len(table_client')
    <3> SUFFICES ASSUME NEW i \in 1 .. lastOutOffset'
                 PROVE  recs[i].id <= recs[n].id
      BY <2>7
    <3>0. i \in 1 .. Len(recs) /\ recs[i].id \in Nat
      BY <1>5, <1>6
    <3>1. CASE i \in 1 .. lastOutOffset
      <4>1. recs[i].id <= lastIdOut /\ recs[k].id \in Nat
        BY <1>4, <1>6, <2>1, <3>1
      <4>2. recs[k].id <= recs[n].id
        BY <2>1, <2>2
      <4>3. lastIdOut \in Nat /\ lastIdOut < recs[k].id
        BY <1>2, <1>9
      <4>4. recs[n].id \in Nat
        BY <2>7
      <4> QED BY <3>0, <4>1, <4>2, <4>3, <4>4
    <3>2. CASE i \notin 1 .. lastOutOffset
      <4>1. n = Len(recs)
        BY <1>1, <1>3, <1>9, <3>2
      <4>2. recs[i].id = recs[1].id + i - 1
        BY <2>8, <3>0
      <4> QED BY <2>2, <3>0, <4>1, <4>2
    <3> QED BY <3>1, <3>2
  <2>11. ~Skips(recs)
    <3> SUFFICES ASSUME NEW i \in 1 .. Len(recs),
                        lastIdOut < recs[i].id, recs[i].id < lastIdOut'
                 PROVE  FALSE
      BY DEF Skips
    <3>1. recs[i].id \in Nat /\ recs[i].id = recs[1].id + i - 1
      BY <1>6, <2>8
    <3>2. i < k
      <4>1. lastIdOut' = recs[1].id + k - 1
        BY <2>2, <2>3
      <4>2. recs[1].id + i - 1 < recs[1].id + k - 1
        BY <3>1, <4>1
      <4>3. recs[1].id \in Nat /\ i \in Int /\ k \in Int
        BY <2>1, <2>2
      <4> QED BY <4>2, <4>3
    <3>3. recs[i].id <= lastIdOut
      BY <1>3, <1>4, <1>9, <3>2
    <3> QED BY <1>2, <3>1, <3>3
  <2>12. ~Skips(table_disk)
    <3> SUFFICES ASSUME NEW i \in 1 .. Len(table_disk), table_disk[i].id < lastIdOut'
                 PROVE  FALSE
      BY DEF Skips
    <3>1. /\ table_disk # <<>> /\ 1 \in 1 .. Len(table_disk)
          /\ table_disk[i].id = table_disk[1].id + i - 1
      BY <1>2 DEF Consecutive
    <3>2. table_disk[1].id \in Nat /\ table_disk[1].id > lastIdOnDisk
      BY <1>2, <3>1, ItemNumbers
    <3>3. lastIdOut' <= lastIdOnDisk
      <4>1. lastIdOut' = recs[k].id
        BY <2>3
      <4>2. recs[k].id <= recs[n].id
        BY <2>1, <2>2
      <4>3. recs[n].id \in Nat /\ recs[k].id \in Nat /\ lastIdOnDisk \in Nat
        BY <1>2, <1>6, <2>1, <2>7
      <4> QED BY <2>9, <4>1, <4>2, <4>3
    <3>4. lastIdOut' \in Nat /\ lastIdOnDisk \in Nat
      BY <1>2, <2>4
    <3> QED BY <3>1, <3>2, <3>3, <3>4
  <2>13. lastIdOut' + Len(table_client') <= currentId
    BY <1>2, <2>7, <2>9
  <2>14. taken' \in Seq(Item) /\ nextIdInClientTable' \in Nat
    <3>1. nextIdInClientTable' = recs[n].id + 1
      BY <2>7
    <3>2. Append(taken, Head(items)) \in Seq(Item)
      BY <1>2, <2>5
    <3> QED BY <2>3, <2>7, <3>1, <3>2
  <2>15. lastIdOut <= lastIdOut'
    BY <1>2, <2>4
  <2>16. /\ table_client' = Tail(items)
         /\ lastOutOffset' \in Nat /\ lastOutOffset' <= Len(recs)
    BY <1>5, <2>3
  <2> QED BY <1>2, <2>4, <2>5, <2>7, <2>10, <2>11, <2>12, <2>13, <2>14, <2>15,
             <2>16 DEF ReadEffect, recs
<1> QED BY <1>7, <1>8, <1>9

(* permFIFO_read preserves the invariant, wherever it finds the item.      *)
LEMMA ReadStep ==
  ASSUME IInv, Read
  PROVE  IInv' /\ ReadEffect
BY ReadClientTableStep, ReadDiskTableStep, ReadFileStep, ReadEffectStep DEF Read

-----------------------------------------------------------------------------
(* Acknowledging.  The file is emptied only when the number acknowledged   *)
(* reaches lastIdOnDisk; otherwise table_disk, all above it, stays.        *)
LEMMA AckStep ==
  ASSUME IInv, Ack
  PROVE  IInv'
<1> DEFINE id == Head(taken).id
           drop == lastIdOnDisk <= id
           t == After(table_disk, id)
<1>1. /\ mode = "up" /\ mode' = mode /\ taken # <<>> /\ taken' = Tail(taken)
      /\ acked' = acked \union {Head(taken).msg}
      /\ table_disk' = t
      /\ \/ /\ ackOnDisk
            /\ file' = FileOf(id, lastIdOnDisk, IF drop THEN <<>> ELSE file.recs)
            /\ lastOutOffset' = IF drop THEN 0 ELSE lastOutOffset
            /\ ackOnDisk' = ~drop
         \/ /\ ~ackOnDisk
            /\ UNCHANGED <<file, lastOutOffset, ackOnDisk>>
      /\ UNCHANGED <<fileOld, fileNew, table_client, currentId, lastIdOut,
                     nextIdInClientTable, lastIdOnDisk, written, ends>>
  BY DEF Ack
<1>2. /\ table_disk \in Seq(Item) /\ table_client \in Seq(Item)
      /\ taken \in Seq(Item) /\ file \in File
      /\ lastOutOffset \in Nat /\ lastIdOut \in Nat
      /\ lastIdOnDisk \in Nat /\ ackOnDisk \in BOOLEAN /\ currentId \in Nat
      /\ acked \subseteq Message \union {Torn}
  BY DEF IInv, TypeOK
<1>3. file.recs \in Seq(Item) /\ Consecutive(Sound(file.recs))
  BY <1>2, FileFields DEF IInv, NumbersInOrder, FilesNumbered
<1>4. /\ Len(table_disk) <= Size /\ Consecutive(table_disk)
      /\ lastIdOut + Len(table_client) <= currentId
      /\ lastIdOnDisk <= currentId
      /\ file.recs # <<>> => ackOnDisk /\ Last(Sound(file.recs)).id <= lastIdOnDisk
      /\ file.recs # <<>> /\ Sound(file.recs) = file.recs =>
           Last(file.recs).id = lastIdOnDisk
      /\ table_disk # <<>> => /\ table_disk[1].id > lastIdOnDisk
                              /\ Last(table_disk).id = currentId
      /\ file.recs # <<>> /\ table_disk # <<>> =>
           table_disk[1].id = lastIdOnDisk + 1
      /\ file.recs # <<>> /\ table_disk = <<>> => lastIdOnDisk = currentId
      /\ lastOutOffset <= Len(Sound(file.recs))
      /\ \A i \in 1 .. lastOutOffset :
           Sound(file.recs)[i].id <= lastIdOut + Len(table_client)
  BY <1>1 DEF IInv, NumbersInOrder, TablesNumbered
<1>5. /\ Head(taken) \in Item /\ Tail(taken) \in Seq(Item)
      /\ id \in Nat /\ Head(taken).msg \in Message \union {Torn}
  <2>1. Head(taken) \in Item /\ Tail(taken) \in Seq(Item)
    BY <1>1, <1>2
  <2> QED BY <2>1 DEF Item
<1> HIDE DEF id
(* What is left of table_disk.                                             *)
<1> DEFINE Left == /\ t \in Seq(Item) /\ Len(t) <= Size /\ Consecutive(t)
                   /\ t # <<>> => /\ t[1].id > lastIdOnDisk
                                  /\ Last(t).id = currentId
                   /\ ~drop => t = table_disk
<1>6. Left
  <2>1. CASE t = <<>> /\ \A i \in 1 .. Len(table_disk) : table_disk[i].id <= id
    <3>1. ~drop => table_disk = <<>>
      <4> SUFFICES ASSUME ~drop, table_disk # <<>>
                   PROVE  FALSE
        OBVIOUS
      <4>1. table_disk[1].id \in Nat /\ table_disk[1].id <= id
        BY <1>2, <2>1, LastNumber, <1>4
      <4> QED BY <1>2, <1>4, <1>5, <4>1
    <3>2. t \in Seq(Item) /\ Len(t) <= Size /\ Consecutive(t)
      BY <2>1, SizeAssumption, SpecialFiles
    <3> QED BY <2>1, <3>1, <3>2
  <2>2. ASSUME NEW k \in 1 .. Len(table_disk),
               \A j \in 1 .. k - 1 : table_disk[j].id <= id,
               Part(t, table_disk, k, Len(table_disk))
        PROVE  Left
    <3> HIDE DEF t
    <3>1. /\ t \in Seq(Item) /\ Len(t) = Len(table_disk) - k + 1
          /\ table_disk # <<>> /\ Len(table_disk) \in Nat
          /\ \A i \in 1 .. Len(t) : t[i] = table_disk[k + i - 1]
      BY <1>2, <2>2 DEF Part
    <3>2. /\ Consecutive(t) /\ t[1] = table_disk[k]
          /\ t[Len(t)] = table_disk[Len(table_disk)]
          /\ table_disk[k].id = table_disk[1].id + k - 1
      BY <1>2, <1>4, <2>2, PartOfConsecutive
    <3>3. table_disk[1].id \in Nat /\ table_disk[1].id > lastIdOnDisk
      BY <1>2, <1>4, <3>1, LastNumber
    <3>4. t[1].id > lastIdOnDisk
      <4>1. table_disk[k].id > lastIdOnDisk
        BY <1>2, <3>2, <3>3
      <4> QED BY <3>2, <4>1
    <3>5. Last(t).id = currentId
      BY <1>4, <3>1, <3>2 DEF Last
    <3>6. Len(t) <= Size
      BY <1>4, <3>1, SizeAssumption
    <3>7. ASSUME ~drop
          PROVE  t = table_disk
      <4>1. k = 1
        <5> SUFFICES ASSUME k # 1 PROVE FALSE
          OBVIOUS
        <5>1. 1 \in 1 .. k - 1
          OBVIOUS
        <5>2. table_disk[1].id <= id
          BY <2>2, <5>1
        <5> QED BY <1>2, <1>5, <3>3, <3>7, <5>2, SMTT(30)
      <4>2. Len(t) = Len(table_disk) /\ \A i \in 1 .. Len(t) : t[i] = table_disk[i]
        BY <3>1, <4>1
      <4> QED BY <1>2, <3>1, <4>2
    <3> QED BY <3>1, <3>2, <3>4, <3>5, <3>6, <3>7
  <2> HIDE DEF Left
  <2> QED BY <1>2, <1>5, <2>1, <2>2, AfterIsPart
<1> HIDE DEF t
(* The file.                                                               *)
<1>7. /\ file' \in File /\ ackOnDisk' \in BOOLEAN /\ lastOutOffset' \in Nat
      /\ \/ file'.recs = <<>> /\ lastOutOffset' = 0
         \/ /\ ~drop \/ ~ackOnDisk
            /\ file'.recs = file.recs /\ ackOnDisk' = ackOnDisk
            /\ lastOutOffset' = lastOutOffset
  <2>1. CASE ackOnDisk
    <3>1. <<>> \in Seq(Item)
      OBVIOUS
    <3>2. CASE drop
      <4>1. /\ file' = FileOf(id, lastIdOnDisk, <<>>)
            /\ lastOutOffset' = 0 /\ ackOnDisk' = FALSE
        BY <1>1, <2>1, <3>2
      <4>2. file' \in File /\ file'.recs = <<>>
        <5>1. id \in Nat /\ lastIdOnDisk \in Nat
          BY <1>2, <1>5
        <5>2. /\ FileOf(id, lastIdOnDisk, <<>>) \in File
              /\ FileOf(id, lastIdOnDisk, <<>>).recs = <<>>
          BY <3>1, <5>1, FileOfIsFile
        <5> QED BY <4>1, <5>2
      <4> QED BY <4>1, <4>2
    <3>3. CASE ~drop
      <4>1. /\ file' = FileOf(id, lastIdOnDisk, file.recs)
            /\ lastOutOffset' = lastOutOffset /\ ackOnDisk' = TRUE
        BY <1>1, <2>1, <3>3
      <4>2. file' \in File /\ file'.recs = file.recs
        BY <1>2, <1>3, <1>5, <4>1, FileOfIsFile
      <4> QED BY <1>2, <2>1, <3>3, <4>1, <4>2
    <3> QED BY <3>2, <3>3
  <2>2. CASE ~ackOnDisk
    BY <1>1, <1>2, <2>2
  <2> QED BY <2>1, <2>2
<1>8. TypeOK'
  BY <1>1, <1>2, <1>5, <1>6, <1>7 DEF IInv, TypeOK
<1>9. FilesNumbered'
  <2>1. Consecutive(Sound(file'.recs))
    BY <1>3, <1>7, SpecialFiles
  <2> QED BY <1>1, <2>1 DEF IInv, NumbersInOrder, FilesNumbered
<1>10. /\ file'.recs # <<>> => ackOnDisk' /\ Last(Sound(file'.recs)).id <= lastIdOnDisk
       /\ file'.recs # <<>> /\ Sound(file'.recs) = file'.recs =>
            Last(file'.recs).id = lastIdOnDisk
       /\ file'.recs # <<>> /\ t # <<>> => t[1].id = lastIdOnDisk + 1
       /\ file'.recs # <<>> /\ t = <<>> => lastIdOnDisk = currentId
       /\ lastOutOffset' <= Len(Sound(file'.recs))
       /\ \A i \in 1 .. lastOutOffset' :
            Sound(file'.recs)[i].id <= lastIdOut + Len(table_client)
  <2>1. CASE file'.recs = <<>> /\ lastOutOffset' = 0
    BY <2>1, SpecialFiles
  <2>2. CASE file.recs = <<>> /\ file'.recs = file.recs /\ lastOutOffset' = lastOutOffset
    BY <1>4, <2>2
  <2>3. CASE /\ ~drop /\ file'.recs = file.recs /\ ackOnDisk' = ackOnDisk
             /\ lastOutOffset' = lastOutOffset
    <3>1. t = table_disk
      BY <1>6, <2>3
    <3> QED BY <1>4, <2>3, <3>1
  <2> QED BY <1>4, <1>7, <2>1, <2>2, <2>3
<1>11. TablesNumbered'
  BY <1>1, <1>6, <1>10 DEF IInv, NumbersInOrder, TablesNumbered
<1> QED BY <1>8, <1>9, <1>11 DEF IInv, NumbersInOrder

(* Flushing.                                                               *)
LEMMA FlushStep ==
  ASSUME IInv, Flush
  PROVE  IInv'
<1>1. /\ mode = "up" /\ SaveTableDisk /\ table_disk' = <<>>
      /\ UNCHANGED <<mode, fileOld, fileNew, table_client, currentId, lastIdOut,
                     lastOutOffset, nextIdInClientTable, taken, historyVars>>
  BY DEF Flush
<1>2. /\ file' \in File /\ lastIdOnDisk' \in Nat /\ ackOnDisk' \in BOOLEAN
      /\ Consecutive(Sound(file'.recs))
      /\ lastIdOnDisk' <= currentId
      /\ file'.recs # <<>> => /\ ackOnDisk'
                              /\ Last(Sound(file'.recs)).id <= lastIdOnDisk'
                              /\ lastIdOnDisk' = currentId
      /\ file'.recs # <<>> /\ Sound(file'.recs) = file'.recs =>
           Last(file'.recs).id = lastIdOnDisk'
      /\ lastOutOffset <= Len(Sound(file'.recs))
      /\ \A i \in 1 .. lastOutOffset :
           Sound(file'.recs)[i].id <= lastIdOut + Len(table_client)
  BY <1>1, SaveTableDiskStep
<1>3. /\ table_disk' \in Seq(Item) /\ Len(table_disk') = 0
      /\ Len(table_disk') <= Size /\ Consecutive(table_disk')
  BY <1>1, SizeAssumption, SpecialFiles
<1>4. TypeOK'
  BY <1>1, <1>2, <1>3 DEF IInv, TypeOK, historyVars
<1>5. FilesNumbered'
  BY <1>1, <1>2 DEF IInv, NumbersInOrder, FilesNumbered
<1>6. TablesNumbered'
  BY <1>1, <1>2, <1>3 DEF IInv, NumbersInOrder, TablesNumbered
<1> QED BY <1>4, <1>5, <1>6 DEF IInv, NumbersInOrder

-----------------------------------------------------------------------------
(* Stopping, killed or not: what matters is what the file is left with.    *)
LEMMA StopStep ==
  ASSUME IInv, Memory(0), mode' = "down", ends < MaxEnds, ends' = ends + 1,
         UNCHANGED <<fileOld, fileNew, written, acked>>,
         file' \in File, Consecutive(Sound(file'.recs))
  PROVE  IInv'
<1>1. <<>> \in Seq(Item)
  OBVIOUS
<1>2. /\ table_client' = <<>> /\ table_disk' = <<>> /\ taken' = <<>>
      /\ currentId' \in Nat /\ lastIdOut' \in Nat /\ lastOutOffset' \in Nat
      /\ nextIdInClientTable' \in Nat /\ lastIdOnDisk' \in Nat
      /\ ackOnDisk' \in BOOLEAN
  BY DEF Memory
<1>3. ends' \in 0 .. MaxEnds
  BY BoundAssumption DEF IInv, TypeOK
<1>4. TypeOK'
  BY <1>1, <1>2, <1>3 DEF IInv, TypeOK
<1>5. FilesNumbered'
  BY DEF IInv, NumbersInOrder, FilesNumbered
<1>6. TablesNumbered'
  BY DEF TablesNumbered
<1> QED BY <1>4, <1>5, <1>6 DEF IInv, NumbersInOrder

(* permFIFO_destroy preserves the invariant.                               *)
LEMMA DestroyStep ==
  ASSUME IInv, Destroy
  PROVE  IInv'
<1>1. /\ mode = "up" /\ ends < MaxEnds /\ ends' = ends + 1 /\ mode' = "down"
      /\ file' = [file EXCEPT !.recs = file.recs \o table_disk] /\ Memory(0)
      /\ UNCHANGED <<fileOld, fileNew, written, acked>>
  BY DEF Destroy
<1>2. /\ file \in File /\ file.recs \in Seq(Item) /\ table_disk \in Seq(Item)
      /\ Consecutive(Sound(file.recs))
  BY FileFields DEF IInv, TypeOK, NumbersInOrder, FilesNumbered
<1> DEFINE r == file.recs \o table_disk
<1>3. r \in Seq(Item) /\ Consecutive(Sound(r))
  <2>1. CASE table_disk = <<>>
    BY <1>2, <2>1
  <2>2. CASE table_disk # <<>>
    BY <1>1, <1>2, <2>2, WholeIsPart, SavedRecords
  <2> QED BY <2>1, <2>2
<1> HIDE DEF r
<1>4. file' \in File /\ file'.recs = r
  BY <1>1, <1>2, <1>3, FileFields DEF r
<1> QED BY <1>1, <1>3, <1>4, StopStep

(* The first records that ct_save appended before a kill are a part of the *)
(* table.                                                                  *)
LEMMA LeadingIsPart ==
  ASSUME NEW s \in Seq(Item), NEW k \in 1 .. Len(s)
  PROVE  Part(SubSeq(s, 1, k), s, 1, k)
<1>1. /\ SubSeq(s, 1, k) \in Seq(Item) /\ Len(SubSeq(s, 1, k)) = k
      /\ \A i \in 1 .. k : SubSeq(s, 1, k)[i] = s[i]
  OBVIOUS
<1> QED BY <1>1 DEF Part

(* A kill of the process preserves the invariant, wherever it falls.       *)
LEMMA KillStep ==
  ASSUME IInv, Kill
  PROVE  IInv'
<1>1. /\ file \in File /\ file.recs \in Seq(Item) /\ table_disk \in Seq(Item)
      /\ Consecutive(Sound(file.recs))
  BY FileFields DEF IInv, TypeOK, NumbersInOrder, FilesNumbered
<1>2. CASE KillIdle \/ KillClean
  BY <1>1, <1>2, StopStep DEF KillIdle, KillClean, Killed
<1>3. CASE KillInSave
  <2>1. PICK k \in 1 .. Len(table_disk) :
          file' = [file EXCEPT !.recs = file.recs \o SubSeq(table_disk, 1, k)]
    BY <1>3 DEF KillInSave
  <2> DEFINE r == file.recs \o SubSeq(table_disk, 1, k)
  <2>2. r \in Seq(Item) /\ Consecutive(Sound(r))
    <3>1. Part(SubSeq(table_disk, 1, k), table_disk, 1, k)
      BY <1>1, LeadingIsPart
    <3> QED BY <1>3, <3>1, SavedRecords DEF KillInSave
  <2> HIDE DEF r
  <2>3. file' \in File /\ file'.recs = r
    BY <1>1, <2>1, <2>2, FileFields DEF r
  <2> QED BY <1>3, <2>2, <2>3, StopStep DEF KillInSave, Killed
<1>4. CASE KillTorn
  <2>1. PICK k \in 1 .. Len(table_disk) :
          file' = [file EXCEPT !.recs =
                     file.recs \o SubSeq(table_disk, 1, k - 1)
                               \o <<[table_disk[k] EXCEPT !.msg = Torn]>>]
    BY <1>4 DEF KillTorn
  <2> DEFINE head == SubSeq(table_disk, 1, k - 1)
             torn == [table_disk[k] EXCEPT !.msg = Torn]
             s == file.recs \o head
             r == s \o <<torn>>
  <2>2. torn \in Item /\ torn.id = table_disk[k].id
    <3>1. table_disk[k] \in Item
      BY <1>1
    <3> QED BY <3>1 DEF Item
  <2>3. /\ table_disk # <<>> /\ Consecutive(table_disk) /\ mode = "up"
        /\ <<torn>> \in Seq(Item) /\ <<torn>> # <<>> /\ <<torn>>[1] = torn
        /\ Consecutive(<<torn>>)
    <3>1. /\ <<torn>> \in Seq(Item) /\ Len(<<torn>>) = 1 /\ <<torn>>[1] = torn
      BY <2>2
    <3>2. torn.id \in Nat
      BY <2>2 DEF Item
    <3>3. Consecutive(<<torn>>)
      <4>1. \A i \in 1 .. 1 : i = 1
        OBVIOUS
      <4>2. torn.id = torn.id + 1 - 1
        BY <3>2
      <4> HIDE DEF torn
      <4> QED BY <3>1, <4>1, <4>2, Zenon DEF Consecutive
    <3> QED BY <1>1, <1>4, <3>1, <3>3
            DEF KillTorn, IInv, NumbersInOrder, TablesNumbered
  <2>4. s \in Seq(Item) /\ Consecutive(Sound(s)) /\ Continues(s, <<torn>>)
    <3>1. CASE k = 1
      <4>1. head = <<>>
        BY <1>1, <3>1
      <4>2. s = file.recs
        <5>1. \A x \in Seq(Item) : x \o <<>> = x
          OBVIOUS
        <5> QED BY <1>1, <4>1, <5>1
      <4>3. Part(SubSeq(table_disk, 1, 1), table_disk, 1, 1)
        BY <1>1, <3>1, LeadingIsPart
      <4> DEFINE one == SubSeq(table_disk, 1, 1)
      <4>4. Continues(file.recs, one) /\ one[1] = table_disk[1]
        BY <1>1, <2>3, <4>3, SavedRecords, PartOfConsecutive
      <4> HIDE DEF one, torn, s
      <4>5. Continues(file.recs, <<torn>>)
        BY <2>2, <2>3, <3>1, <4>4 DEF Continues
      <4> QED BY <1>1, <4>2, <4>5
    <3>2. CASE k # 1
      <4>1. k - 1 \in 1 .. Len(table_disk)
        BY <1>1, <3>2
      <4>2. Part(head, table_disk, 1, k - 1)
        BY <1>1, <4>1, LeadingIsPart
      <4> HIDE DEF head, torn
      <4>3. /\ s \in Seq(Item) /\ Consecutive(Sound(s)) /\ Last(s) = Last(head)
            /\ Last(Sound(s)).id <= Last(head).id
        BY <2>3, <4>2, SavedRecords
      <4>4. /\ Last(head) = table_disk[k - 1]
            /\ table_disk[k - 1].id = table_disk[1].id + (k - 1) - 1
            /\ table_disk[1].id \in Nat
        BY <1>1, <2>3, <4>2, PartOfConsecutive DEF Last
      <4>5. table_disk[k].id = table_disk[1].id + k - 1
        BY <2>3 DEF Consecutive
      <4> HIDE DEF s, r
      <4>6. table_disk[k].id = table_disk[k - 1].id + 1
        <5>1. \A n \in Nat, x \in Int : n + x - 1 = (n + (x - 1) - 1) + 1
          OBVIOUS
        <5>2. table_disk[1].id \in Nat /\ k \in Int
          BY <4>4
        <5> QED BY <4>4, <4>5, <5>1, <5>2
      <4>7. table_disk[k - 1].id \in Nat /\ torn.id = table_disk[k - 1].id + 1
        BY <1>1, <2>2, <4>1, <4>6, ItemNumbers
      <4>8. s # <<>> => Last(Sound(s)).id \in Nat
        <5>1. Sound(s) \in Seq(Item) /\ (s # <<>> => Sound(s) # <<>>)
          BY <4>3, SoundIsPrefix
        <5> QED BY <5>1, ItemNumbers DEF Last
      <4>9. s # <<>> => /\ Last(Sound(s)).id < torn.id
                        /\ torn.id = Last(s).id + 1
        BY <4>3, <4>4, <4>7, <4>8
      <4>10. Continues(s, <<torn>>)
        BY <2>3, <4>9 DEF Continues
      <4> QED BY <4>3, <4>10
    <3> QED BY <3>1, <3>2
  <2> HIDE DEF torn, s
  <2>6. r \in Seq(Item) /\ Consecutive(Sound(r))
    BY <2>3, <2>4, SoundAppended
  <2> HIDE DEF r
  <2>7. file' \in File /\ file'.recs = r
    BY <1>1, <2>1, <2>6, FileFields DEF r, s, torn
  <2> QED BY <1>4, <2>6, <2>7, StopStep DEF KillTorn, Killed
<1>5. CASE KillInAck
  <2>1. file' = [file EXCEPT !.recs = <<>>] /\ <<>> \in Seq(Item)
    BY <1>5 DEF KillInAck
  <2>2. file' \in File /\ Consecutive(Sound(file'.recs))
    BY <1>1, <2>1, FileFields, SpecialFiles
  <2> QED BY <1>5, <2>2, StopStep DEF KillInAck, Killed
<1> QED BY <1>2, <1>3, <1>4, <1>5 DEF Kill

-----------------------------------------------------------------------------
(* Starting: only the files change, and each step leaves the header right. *)
LEMMA CleanStep ==
  ASSUME IInv, CleanUnchanged, mode' # "up",
         mode' \in {"down", "created", "copied", "renamed", "swapped", "cleaned"},
         file' \in File, fileOld' \in File, fileNew' \in File,
         Consecutive(Sound(file'.recs)), Consecutive(Sound(fileOld'.recs)),
         Consecutive(Sound(fileNew'.recs)),
         mode' \in {"copied", "renamed"} => HeaderRight(fileNew'),
         mode' \in {"swapped", "cleaned"} => HeaderRight(file')
  PROVE  IInv'
<1>1. TypeOK'
  BY DEF IInv, TypeOK, CleanUnchanged, memVars, historyVars
<1>2. FilesNumbered'
  BY DEF FilesNumbered, HeaderRight
<1>3. TablesNumbered'
  BY DEF TablesNumbered
<1> QED BY <1>1, <1>2, <1>3 DEF IInv, NumbersInOrder

(* The records that permFIFO_file_clean copies to the new file get numbers *)
(* in order, the last one being how many they are.                         *)
LEMMA RenumberedInOrder ==
  ASSUME NEW recs \in Seq(Item)
  PROVE  /\ Renumbered(recs) \in Seq(Item)
         /\ Len(Renumbered(recs)) = Len(recs)
         /\ Consecutive(Renumbered(recs))
         /\ recs # <<>> => Last(Renumbered(recs)).id = Len(recs)
<1> DEFINE r == Renumbered(recs)
<1>1. ASSUME NEW i \in 1 .. Len(recs)
      PROVE  [recs[i] EXCEPT !.id = i] \in Item /\ [recs[i] EXCEPT !.id = i].id = i
  <2>1. recs[i] \in Item
    OBVIOUS
  <2> QED BY <2>1 DEF Item
<1>2. r = [i \in 1 .. Len(recs) |-> [recs[i] EXCEPT !.id = i]]
  BY DEF Renumbered
<1> HIDE DEF r
<1>3. r \in Seq(Item) /\ Len(r) = Len(recs)
  BY <1>1, <1>2
<1>4. \A i \in 1 .. Len(recs) : r[i].id = i
  BY <1>1, <1>2
<1>5. Consecutive(r)
  BY <1>3, <1>4 DEF Consecutive
<1>6. recs # <<>> => Last(r).id = Len(recs)
  BY <1>3, <1>4 DEF Last
<1> QED BY <1>3, <1>5, <1>6 DEF r

(* What it copies of a file without a torn record has none either.         *)
LEMMA KeptWhole ==
  ASSUME NEW recs \in Seq(Item), ~HasTorn(recs), NEW id \in Nat,
         After(recs, id) \in Seq(Item)
  PROVE  ~HasTorn(Renumbered(After(recs, id)))
<1> DEFINE kept == After(recs, id)
           r == Renumbered(kept)
<1>1. \A i \in 1 .. Len(kept) : kept[i].msg # Torn
  <2>1. ASSUME NEW k \in 1 .. Len(recs), Part(kept, recs, k, Len(recs)),
               NEW i \in 1 .. Len(kept)
        PROVE  kept[i].msg # Torn
    <3>1. kept[i] = recs[k + i - 1] /\ k + i - 1 \in 1 .. Len(recs)
      BY <2>1 DEF Part
    <3> QED BY <3>1 DEF HasTorn
  <2>2. \/ kept = <<>>
        \/ \E k \in 1 .. Len(recs) : Part(kept, recs, k, Len(recs))
    BY AfterIsPart
  <2> QED BY <2>1, <2>2
<1> HIDE DEF kept
<1>2. /\ Len(r) = Len(kept)
      /\ \A i \in 1 .. Len(kept) : r[i] = [kept[i] EXCEPT !.id = i]
  <2>1. kept \in Seq(Item) /\ Len(r) = Len(kept)
    BY RenumberedInOrder DEF kept
  <2> QED BY <2>1 DEF Renumbered
<1>3. \A i \in 1 .. Len(kept) : r[i].msg # Torn
  <2> SUFFICES ASSUME NEW i \in 1 .. Len(kept) PROVE r[i].msg # Torn
    OBVIOUS
  <2>1. kept[i] \in Item
    BY DEF kept
  <2>2. [kept[i] EXCEPT !.id = i].msg = kept[i].msg
    BY <2>1 DEF Item
  <2> QED BY <1>1, <1>2, <2>2
<1> QED BY <1>2, <1>3 DEF HasTorn, kept

(* Every step of permFIFO_file_clean, and permFIFO_new, preserve the       *)
(* invariant.                                                              *)
LEMMA StartStep ==
  ASSUME IInv, Start
  PROVE  IInv'
<1>1. /\ file \in File /\ fileOld \in File /\ fileNew \in File
      /\ Consecutive(Sound(file.recs)) /\ Consecutive(Sound(fileOld.recs))
      /\ Consecutive(Sound(fileNew.recs))
      /\ mode \in {"copied", "renamed"} => HeaderRight(fileNew)
      /\ mode \in {"swapped", "cleaned"} => HeaderRight(file)
      /\ file.recs \in Seq(Item) /\ file.lastAckId \in Nat
  BY FileFields DEF IInv, TypeOK, NumbersInOrder, FilesNumbered
<1>2. CASE CleanRecoverOld \/ CleanRemoveEmpty \/ CleanBackup
  BY <1>1, <1>2, CleanStep, SpecialFiles
     DEF CleanRecoverOld, CleanRemoveEmpty, CleanBackup
<1>3. CASE CleanCreate \/ CleanCreateHeader
  BY <1>1, <1>3, CleanStep, SpecialFiles
     DEF CleanCreate, CleanCreateHeader, HeaderRight
<1>4. CASE CleanScan
  <2>1. /\ mode' = "cleaned" /\ CleanUnchanged
        /\ file' = IF file.recs = <<>> THEN file
                   ELSE [file EXCEPT !.currentId = Last(Sound(file.recs)).id]
        /\ fileOld' = NoFile /\ fileNew' = NoFile
    BY <1>4 DEF CleanScan
  <2>2. /\ file' \in File /\ file'.recs = file.recs
        /\ file.recs # <<>> => file'.currentId = Last(Sound(file.recs)).id
    <3>1. CASE file.recs = <<>>
      BY <1>1, <2>1, <3>1
    <3>2. CASE file.recs # <<>>
      <4>1. Last(Sound(file.recs)).id \in Nat
        <5>1. Sound(file.recs) \in Seq(Item) /\ Sound(file.recs) # <<>>
          BY <1>1, <3>2, SoundIsPrefix
        <5> QED BY <5>1, ItemNumbers DEF Last
      <4> QED BY <1>1, <2>1, <3>2, <4>1 DEF File
    <3> QED BY <3>1, <3>2
  <2> QED BY <1>1, <2>1, <2>2, CleanStep, SpecialFiles DEF HeaderRight
<1>5. CASE CleanCopy
  <2> DEFINE kept == After(file.recs, file.lastAckId)
  <2>1. /\ mode' = "copied" /\ CleanUnchanged
        /\ fileOld' = NoFile /\ file' = file
        /\ fileNew' = FileOf(0, Len(kept), Renumbered(kept))
    BY <1>5 DEF CleanCopy
  <2>2. kept \in Seq(Item)
    <3>1. kept = <<>> => kept \in Seq(Item)
      OBVIOUS
    <3> QED BY <1>1, <3>1, AfterIsPart DEF Part
  <2> HIDE DEF kept
  <2>3. /\ Renumbered(kept) \in Seq(Item) /\ Len(kept) \in Nat
        /\ Consecutive(Renumbered(kept))
        /\ Renumbered(kept) # <<>> => Last(Renumbered(kept)).id = Len(kept)
        /\ Sound(Renumbered(kept)) = Renumbered(kept)
    <3>1. /\ Renumbered(kept) \in Seq(Item) /\ Len(kept) \in Nat
          /\ Consecutive(Renumbered(kept))
          /\ Renumbered(kept) # <<>> => Last(Renumbered(kept)).id = Len(kept)
      BY <2>2, RenumberedInOrder
    <3>2. ~HasTorn(Renumbered(kept))
      BY <1>1, <1>5, <2>2, KeptWhole DEF CleanCopy, kept
    <3> QED BY <3>1, <3>2, SoundIsPrefix
  <2>4. /\ fileNew' \in File /\ fileNew'.recs = Renumbered(kept)
        /\ fileNew'.currentId = Len(kept)
    BY <2>1, <2>3, FileOfIsFile
  <2> QED BY <1>1, <2>1, <2>3, <2>4, CleanStep, SpecialFiles DEF HeaderRight
<1>6. CASE CleanRenameOld \/ CleanRenameNew \/ CleanUnlinkOld
  BY <1>1, <1>6, CleanStep, SpecialFiles
     DEF CleanRenameOld, CleanRenameNew, CleanUnlinkOld
<1>7. CASE Open
  <2>1. /\ mode = "cleaned" /\ mode' = "up" /\ Memory(file.currentId)
        /\ UNCHANGED <<fileVars, historyVars>>
    BY <1>7 DEF Open
  <2>2. file.currentId \in Nat
    BY <1>1, FileFields
  <2>3. /\ table_client' = <<>> /\ table_disk' = <<>> /\ taken' = <<>>
        /\ currentId' = file.currentId /\ lastIdOnDisk' = file.currentId
        /\ ackOnDisk' = (file.currentId # 0)
        /\ lastIdOut' = 0 /\ lastOutOffset' = 0 /\ nextIdInClientTable' = 1
        /\ ackOnDisk' \in BOOLEAN
    BY <2>1 DEF Memory
  <2>4. /\ <<>> \in Seq(Item) /\ Len(<<>>) = 0
        /\ Len(Sound(file.recs)) \in Nat /\ Size \in Nat
    BY <1>1, SoundIsPrefix, SizeAssumption
  <2>5. file.recs # <<>> => /\ file.currentId # 0
                            /\ Last(Sound(file.recs)).id = file.currentId
    <3> SUFFICES ASSUME file.recs # <<>>
                 PROVE  /\ file.currentId # 0
                        /\ Last(Sound(file.recs)).id = file.currentId
      OBVIOUS
    <3>1. Sound(file.recs) \in Seq(Item) /\ Sound(file.recs) # <<>>
      BY <1>1, SoundIsPrefix
    <3>2. Last(Sound(file.recs)).id # 0
      BY <3>1, ItemNumbers DEF Last
    <3> QED BY <1>1, <2>1, <3>2 DEF HeaderRight
  <2>6. TypeOK'
    BY <2>1, <2>2, <2>3, <2>4 DEF IInv, TypeOK, fileVars, historyVars
  <2>7. FilesNumbered'
    BY <1>1, <2>1 DEF FilesNumbered, fileVars
  <2>8. TablesNumbered'
    <3>1. file.recs # <<>> => ackOnDisk'
      BY <2>3, <2>5, Zenon
    <3>2. /\ file' = file /\ table_client' = <<>> /\ table_disk' = <<>>
          /\ Consecutive(<<>>)
      BY <2>1, <2>3, SpecialFiles DEF fileVars
    <3>3. /\ currentId' = file.currentId /\ lastIdOnDisk' = file.currentId
          /\ lastIdOut' = 0 /\ lastOutOffset' = 0 /\ nextIdInClientTable' = 1
      BY <2>3
    <3> QED BY <2>2, <2>4, <2>5, <3>1, <3>2, <3>3, SizeAssumption
            DEF TablesNumbered
  <2> QED BY <2>6, <2>7, <2>8 DEF IInv, NumbersInOrder
<1> QED BY <1>2, <1>3, <1>4, <1>5, <1>6, <1>7 DEF Start

-----------------------------------------------------------------------------
(* The invariant holds before the first start, with no file.               *)
LEMMA InitIInv == Init => IInv
<1> SUFFICES ASSUME Init PROVE IInv
  OBVIOUS
<1>1. <<>> \in Seq(Item)
  OBVIOUS
<1>2. TypeOK
  <2>1. ackOnDisk \in BOOLEAN /\ acked \subseteq Message \union {Torn}
    BY DEF Init
  <2>2. written \in 0 .. MaxMsg /\ ends \in 0 .. MaxEnds
    BY BoundAssumption DEF Init
  <2>3. /\ currentId \in Nat /\ lastIdOut \in Nat /\ lastOutOffset \in Nat
        /\ nextIdInClientTable \in Nat /\ lastIdOnDisk \in Nat
    BY DEF Init
  <2> QED BY <1>1, <2>1, <2>2, <2>3, SpecialFiles DEF Init, TypeOK
<1>3. FilesNumbered /\ TablesNumbered
  BY SpecialFiles DEF Init, FilesNumbered, TablesNumbered
<1> QED BY <1>2, <1>3 DEF IInv, NumbersInOrder

(* The invariant does not depend on anything but the variables of the      *)
(* FIFO.                                                                   *)
LEMMA StutterStep ==
  ASSUME IInv, UNCHANGED vars
  PROVE  IInv'
BY DEF IInv, TypeOK, NumbersInOrder, FilesNumbered, TablesNumbered,
       vars, fileVars, memVars, historyVars

(* Every function of the FIFO, every step of its start-up and every kill   *)
(* preserves the invariant.                                                *)
LEMMA NextIInv == IInv /\ [Next]_vars => IInv'
<1> SUFFICES ASSUME IInv, [Next]_vars PROVE IInv'
  OBVIOUS
<1>1. CASE Write        BY <1>1, WriteStep
<1>2. CASE Read         BY <1>2, ReadStep
<1>3. CASE Ack          BY <1>3, AckStep
<1>4. CASE Flush        BY <1>4, FlushStep
<1>5. CASE Destroy      BY <1>5, DestroyStep
<1>6. CASE Start        BY <1>6, StartStep
<1>7. CASE Kill         BY <1>7, KillStep
<1>8. CASE UNCHANGED vars BY <1>8, StutterStep
<1> QED BY <1>1, <1>2, <1>3, <1>4, <1>5, <1>6, <1>7, <1>8 DEF Next

(* The inductive invariant: types, the order of the numbers in the files,  *)
(* and how the tables and the file follow each other.                      *)
THEOREM InvariantHolds == Spec => []IInv
BY InitIInv, NextIInv, PTL DEF Spec

(* The tables and files always hold what their types say.                  *)
THEOREM TypeCorrect == Spec => []TypeOK
<1>1. IInv => TypeOK
  BY DEF IInv
<1> QED BY <1>1, InvariantHolds, PTL

(* Whatever was written, read, acknowledged, flushed, or lost with a kill  *)
(* at any point, the numbers in the two tables and the file stay in the    *)
(* order that permFIFO_read and permFIFO_ack take for granted.             *)
THEOREM NumbersCorrect == Spec => []NumbersInOrder
<1>1. IInv => NumbersInOrder
  BY DEF IInv
<1> QED BY <1>1, InvariantHolds, PTL

-----------------------------------------------------------------------------
(* Between two starts no number is handed out twice, nor one while an      *)
(* earlier one is still waiting in the file or in table_disk.              *)
NoSkipStep ==
  mode = "up" /\ mode' = "up" =>
    /\ lastIdOut <= lastIdOut'
    /\ ~Skips(Sound(file.recs)) /\ ~Skips(table_disk)

(* No function of the FIFO lets the consumer pass over an item.            *)
LEMMA NextNoSkip == IInv /\ [Next]_vars => NoSkipStep
<1> SUFFICES ASSUME IInv, [Next]_vars, mode = "up", mode' = "up"
             PROVE  /\ lastIdOut <= lastIdOut'
                    /\ ~Skips(Sound(file.recs)) /\ ~Skips(table_disk)
  BY DEF NoSkipStep
<1>1. /\ lastIdOut \in Nat /\ table_disk \in Seq(Item)
      /\ Sound(file.recs) \in Seq(Item)
  BY FileFields, SoundIsPrefix DEF IInv, TypeOK
<1>2. CASE Read
  BY <1>2, ReadStep DEF ReadEffect
<1>3. CASE lastIdOut' = lastIdOut
  <2>1. ASSUME NEW s \in Seq(Item)
        PROVE  ~Skips(s)
    <3>1. \A i \in 1 .. Len(s) : s[i].id \in Nat
      BY ItemNumbers
    <3> QED BY <1>1, <1>3, <3>1 DEF Skips
  <2> QED BY <1>1, <1>3, <2>1
<1>4. CASE Write \/ Ack \/ Flush \/ UNCHANGED vars
  BY <1>3, <1>4 DEF Write, Ack, Flush, vars, memVars
<1>5. ~Destroy /\ ~Kill /\ ~Start
  <2>1. ~Destroy /\ ~Kill
    BY DEF Destroy, Kill, KillIdle, KillClean, KillInSave, KillTorn, KillInAck, Killed
  <2>2. ~Start
    BY DEF Start, CleanRecoverOld, CleanCreate, CleanCreateHeader,
           CleanRemoveEmpty, CleanBackup, CleanScan, CleanCopy, CleanRenameOld,
           CleanRenameNew, CleanUnlinkOld, Open
  <2> QED BY <2>1, <2>2
<1> QED BY <1>2, <1>4, <1>5 DEF Next

(* Between two starts permFIFO_read hands out the items in the order of    *)
(* their numbers, none twice, and never one while an earlier one that was  *)
(* not handed out is still in the file or in table_disk.                   *)
THEOREM NothingIsSkipped == Spec => NothingSkipped
<1>1. IInv /\ [Next]_vars =>
        [mode = "up" /\ mode' = "up" =>
           /\ lastIdOut <= lastIdOut'
           /\ ~Skips(Sound(file.recs)) /\ ~Skips(table_disk)]_vars
  BY NextNoSkip DEF NoSkipStep
<1> QED BY <1>1, InvariantHolds, PTL DEF Spec, NothingSkipped

=============================================================================
