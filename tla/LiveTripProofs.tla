--------------------------- MODULE LiveTripProofs ---------------------------
(***************************************************************************)
(* Proofs about LiveTrip, for any number of trips, controllers, fixes and  *)
(* kills and any maximum of entries: the types, and, with one screen at a  *)
(* time, that the queue is in the order of capture, loses none but the     *)
(* oldest, sends a frame once more for each kill, and counts what it has.  *)
(***************************************************************************)
EXTENDS LiveTrip, FiniteSetTheorems, WellFoundedInduction, TLAPS

Op == {"put", "evict", "drain"}
Writing == [by : Ctl, op : Op, entries : SUBSET (Key \X Fix)]

-----------------------------------------------------------------------------
(* The file: what becomes of FileInv when a write gets there and when one  *)
(* is added.                                                               *)

\* The places of a queue of writes and of the one without its first.
LEMMA Places ==
  ASSUME NEW ws \in Seq(Writing)
  PROVE  /\ Len(ws) \in Nat /\ \A i \in 1..Len(ws) : ws[i] \in Writing
         /\ ws # <<>> => /\ Tail(ws) \in Seq(Writing) /\ Len(ws) >= 1
                         /\ Len(Tail(ws)) = Len(ws) - 1 /\ Head(ws) = ws[1]
                         /\ \A i \in 1..Len(ws) - 1 : Tail(ws)[i] = ws[i + 1]
         /\ \A w \in Writing :
              /\ Append(ws, w) \in Seq(Writing) /\ Len(Append(ws, w)) = Len(ws) + 1
              /\ Append(ws, w)[Len(ws) + 1] = w
              /\ \A i \in 1..Len(ws) : Append(ws, w)[i] = ws[i]
OBVIOUS

\* An entry comes from one place.
LEMMA OneBirth ==
  ASSUME NEW d, NEW ws \in Seq(Writing), Ordered(d, ws),
         NEW i \in 0..Len(ws), NEW j \in 0..Len(ws),
         NEW k \in Key, NEW l \in Key, NEW f \in Fix,
         Born(d, ws, i, k, f), Born(d, ws, j, l, f)
  PROVE  i = j
<1>1. \A x, y \in 0..Len(ws) : x < y =>
        \A m \in Key, g \in Fix : Born(d, ws, x, m, g) =>
          \A n \in Key, h \in Fix : Born(d, ws, y, n, h) => g < h
  BY DEF Ordered
<1>2. ~(i < j)
  BY <1>1, LiveTripConstants DEF Fix
<1>3. ~(j < i)
  BY <1>1, LiveTripConstants DEF Fix
<1> QED
  BY <1>2, <1>3, Places

\* An entry is not deleted before place j if no place before deletes it.
LEMMA GoneStep ==
  ASSUME NEW ws \in Seq(Writing), NEW j \in Nat, NEW k, NEW f
  PROVE  /\ Gone(ws, j, k, f) => Gone(ws, Len(ws) + 1, k, f)
         /\ j \in 1..Len(ws) =>
              (Gone(ws, j + 1, k, f) <=> Gone(ws, j, k, f) \/ Deletes(ws, j, k, f))
         /\ ~Gone(ws, 0, k, f) /\ ~Gone(ws, 1, k, f)
BY Places DEF Gone

\* What is deleted is there and newer places do not bring it: the tail of the
\* writes, as seen from the writes.
LEMMA TailGone ==
  ASSUME NEW ws \in Seq(Writing), ws # <<>>, NEW j \in Nat, NEW k, NEW f
  PROVE  Gone(ws, j + 1, k, f)
           <=> Gone(Tail(ws), j, k, f) \/ (j # 0 /\ Deletes(ws, 1, k, f))
<1>1. /\ Len(Tail(ws)) = Len(ws) - 1 /\ Len(ws) >= 1 /\ Len(ws) \in Nat
      /\ \A i \in 1..Len(ws) - 1 : Tail(ws)[i] = ws[i + 1]
  BY Places
<1>2. \A i \in 1..Len(ws) - 1 : Deletes(Tail(ws), i, k, f) <=> Deletes(ws, i + 1, k, f)
  BY <1>1 DEF Deletes
<1>3. ASSUME Gone(ws, j + 1, k, f)
      PROVE  Gone(Tail(ws), j, k, f) \/ (j # 0 /\ Deletes(ws, 1, k, f))
  <2>1. PICK i \in 1..Len(ws) : i < j + 1 /\ Deletes(ws, i, k, f)
    BY <1>3 DEF Gone
  <2>2. CASE i = 1
    BY <2>1, <2>2
  <2>3. CASE i # 1
    <3>1. i - 1 \in 1..Len(Tail(ws)) /\ i - 1 < j /\ (i - 1) + 1 = i
      BY <2>1, <2>3, <1>1
    <3>2. Deletes(Tail(ws), i - 1, k, f)
      BY <2>1, <3>1, <1>1, <1>2
    <3> QED
      BY <3>1, <3>2 DEF Gone
  <2> QED
    BY <2>2, <2>3
<1>4. ASSUME Gone(Tail(ws), j, k, f)
      PROVE  Gone(ws, j + 1, k, f)
  <2>1. PICK i \in 1..Len(Tail(ws)) : i < j /\ Deletes(Tail(ws), i, k, f)
    BY <1>4 DEF Gone
  <2>2. i + 1 \in 1..Len(ws) /\ i + 1 < j + 1 /\ Deletes(ws, i + 1, k, f)
    BY <2>1, <1>1, <1>2
  <2> QED
    BY <2>2 DEF Gone
<1>5. ASSUME j # 0, Deletes(ws, 1, k, f)
      PROVE  Gone(ws, j + 1, k, f)
  BY <1>1, <1>5 DEF Gone
<1> QED
  BY <1>3, <1>4, <1>5

\* So the entries that the writes bring.
LEMMA TailBorn ==
  ASSUME NEW d, NEW n, NEW ws \in Seq(Writing), ws # <<>>,
         NEW i \in 1..Len(Tail(ws)), NEW k, NEW f
  PROVE  /\ i + 1 \in 2..Len(ws)
         /\ Born(n, Tail(ws), i, k, f) <=> Born(d, ws, i + 1, k, f)
         /\ Deletes(Tail(ws), i, k, f) <=> Deletes(ws, i + 1, k, f)
<1>1. /\ i \in 1..Len(ws) - 1 /\ i + 1 \in 2..Len(ws) /\ i # 0 /\ i + 1 # 0
      /\ Tail(ws)[i] = ws[i + 1] /\ i + 1 \in 1..Len(ws)
  BY Places
<1> QED
  BY <1>1 DEF Born, Deletes

\* A put gets to the file.
LEMMA PutApplies ==
  ASSUME NEW d, NEW b, NEW ws \in Seq(Writing), ws # <<>>,
         DOMAIN d \subseteq Key, d \in [DOMAIN d -> Fix],
         NEW k0 \in Key, NEW f0 \in Fix,
         ws[1].op = "put", ws[1].entries = {<<k0, f0>>},
         FileInv(d, ws, b)
  PROVE  FileInv(With(d, <<k0, f0>>), Tail(ws), b)
<1> DEFINE n == With(d, <<k0, f0>>)
           vs == Tail(ws)
<1>1. /\ Len(vs) = Len(ws) - 1 /\ Len(ws) >= 1 /\ Len(ws) \in Nat /\ vs \in Seq(Writing)
      /\ Len(vs) \in Nat
  BY Places
<1>2. /\ DOMAIN n = DOMAIN d \cup {k0} /\ n[k0] = f0
      /\ \A k \in DOMAIN d : k # k0 => n[k] = d[k]
  BY DEF With
<1>3. /\ Born(d, ws, 1, k0, f0)
      /\ \A k, f : Born(d, ws, 1, k, f) => k = k0 /\ f = f0
      /\ \A k, f : ~Deletes(ws, 1, k, f)
  BY <1>1 DEF Born, Deletes
\* The key is new, and greater than those in the file.
<1>4. ASSUME NEW k \in DOMAIN d
      PROVE  k < k0 /\ d[k] < f0
  <2>1. Born(d, ws, 0, k, d[k]) /\ 0 \in 0..Len(ws) /\ 1 \in 0..Len(ws) /\ k \in Key
        /\ d[k] \in Fix
    BY <1>1 DEF Born
  <2>2. d[k] < f0 /\ (k < k0 \/ Gone(ws, 1, k, d[k]))
    BY <2>1, <1>3 DEF FileInv, Ordered
  <2> QED
    BY <2>2, GoneStep
<1>5. k0 \notin DOMAIN d
  BY <1>4, LiveTripConstants DEF Key
<1>6. \A k, f : Born(n, vs, 0, k, f) <=> Born(d, ws, 0, k, f) \/ Born(d, ws, 1, k, f)
  BY <1>2, <1>3, <1>5 DEF Born
<1>7. \A j \in Nat : \A k, f : Gone(ws, j + 1, k, f) <=> Gone(vs, j, k, f)
  BY <1>3, TailGone
<1> HIDE DEF n, vs
<1>8. \A i \in 1..Len(vs) : \A k, f :
        /\ Born(n, vs, i, k, f) <=> Born(d, ws, i + 1, k, f)
        /\ Deletes(vs, i, k, f) <=> Deletes(ws, i + 1, k, f)
  BY TailBorn DEF vs
\* Where an entry of the new state comes from in the old.
<1>9. ASSUME NEW i \in 0..Len(vs), NEW k, NEW f, Born(n, vs, i, k, f)
      PROVE  \E x \in 0..Len(ws) : Born(d, ws, x, k, f) /\ x <= i + 1 /\ (i >= 1 => x = i + 1)
  <2>1. CASE i = 0
    BY <2>1, <1>1, <1>6, <1>9
  <2>2. CASE i # 0
    BY <2>2, <1>1, <1>8, <1>9
  <2> QED
    BY <2>1, <2>2
<1>10. Ordered(n, vs)
  <2>1. ASSUME NEW k \in DOMAIN n, NEW l \in DOMAIN n, k < l
        PROVE  n[k] < n[l]
    <3>1. k # k0
      BY <1>2, <1>4, <2>1, LiveTripConstants DEF Key
    <3>2. CASE l = k0
      BY <3>1, <3>2, <1>2, <1>4
    <3>3. CASE l # k0
      BY <3>1, <3>3, <1>2, <2>1 DEF FileInv, Ordered
    <3> QED
      BY <3>2, <3>3
  <2>2. ASSUME NEW i \in 0..Len(vs), NEW j \in 0..Len(vs), i < j,
               NEW k \in Key, NEW f \in Fix, Born(n, vs, i, k, f),
               NEW l \in Key, NEW g \in Fix, Born(n, vs, j, l, g)
        PROVE  f < g /\ (k < l \/ Gone(vs, j, k, f))
    <3>1. PICK x \in 0..Len(ws) : Born(d, ws, x, k, f) /\ x <= i + 1
      BY <1>9, <2>2
    <3>2. x < j + 1 /\ j + 1 \in 0..Len(ws) /\ j \in 1..Len(vs) /\ j \in Nat
      BY <3>1, <2>2, <1>1
    <3>3. Born(d, ws, j + 1, l, g)
      BY <3>2, <1>8, <2>2
    <3>4. f < g /\ (k < l \/ Gone(ws, j + 1, k, f))
      BY <3>1, <3>2, <3>3 DEF FileInv, Ordered
    <3> QED
      BY <3>2, <3>4, <1>7
  <2> QED
    BY <2>1, <2>2 DEF Ordered
<1>11. DeletesOnce(n, vs)
  <2> SUFFICES ASSUME NEW i \in 1..Len(vs), NEW k \in Key, NEW f \in Fix, Deletes(vs, i, k, f)
               PROVE  /\ \E j \in 0..Len(vs) : j < i /\ Born(n, vs, j, k, f)
                      /\ ~Gone(vs, i, k, f)
    BY DEF DeletesOnce
  <2>1. Deletes(ws, i + 1, k, f) /\ i + 1 \in 1..Len(ws) /\ i \in Nat
    BY <1>1, <1>8
  <2>2. PICK j \in 0..Len(ws) : j < i + 1 /\ Born(d, ws, j, k, f)
    BY <2>1 DEF FileInv, DeletesOnce
  <2>3. ~Gone(vs, i, k, f)
    BY <2>1, <1>7 DEF FileInv, DeletesOnce
  <2>4. CASE j \in {0, 1}
    BY <2>2, <2>4, <1>1, <1>6, <2>3
  <2>5. CASE j \notin {0, 1}
    <3>1. j - 1 \in 1..Len(vs) /\ j - 1 < i /\ (j - 1) + 1 = j
      BY <2>2, <2>5, <1>1
    <3>2. Born(n, vs, j - 1, k, f)
      BY <3>1, <2>2, <1>8
    <3> QED
      BY <3>1, <3>2, <2>3
  <2> QED
    BY <2>4, <2>5
<1>12. Catches(n, vs, b)
  <2> SUFFICES ASSUME NEW k \in Key, NEW f \in Fix
               PROVE  (k \in DOMAIN b /\ b[k] = f)
                        <=> /\ \E i \in 0..Len(vs) : Born(n, vs, i, k, f)
                            /\ ~Gone(vs, Len(vs) + 1, k, f)
    BY DEF Catches
  <2>1. (k \in DOMAIN b /\ b[k] = f)
          <=> /\ \E i \in 0..Len(ws) : Born(d, ws, i, k, f)
              /\ ~Gone(ws, Len(ws) + 1, k, f)
    BY DEF FileInv, Catches
  <2>2. Gone(ws, Len(ws) + 1, k, f) <=> Gone(vs, Len(vs) + 1, k, f)
    BY <1>1, <1>7
  <2>3. ASSUME NEW i \in 0..Len(ws), Born(d, ws, i, k, f)
        PROVE  \E j \in 0..Len(vs) : Born(n, vs, j, k, f)
    <3>1. CASE i \in {0, 1}
      BY <2>3, <3>1, <1>1, <1>6
    <3>2. CASE i \notin {0, 1}
      <4>1. i - 1 \in 1..Len(vs) /\ (i - 1) + 1 = i
        BY <3>2, <1>1
      <4> QED
        BY <4>1, <2>3, <1>8
    <3> QED
      BY <3>1, <3>2
  <2>4. (\E i \in 0..Len(ws) : Born(d, ws, i, k, f))
          <=> \E j \in 0..Len(vs) : Born(n, vs, j, k, f)
    BY <2>3, <1>9
  <2> QED
    BY <2>1, <2>2, <2>4
<1> QED
  BY <1>10, <1>11, <1>12 DEF FileInv, n, vs

\* The deletes of one write get to the file.
LEMMA DeletesApply ==
  ASSUME NEW d, NEW b, NEW ws \in Seq(Writing), ws # <<>>,
         DOMAIN d \subseteq Key, d \in [DOMAIN d -> Fix],
         ws[1].op # "put", FileInv(d, ws, b)
  PROVE  FileInv(Without(d, {e[1] : e \in ws[1].entries}), Tail(ws), b)
<1> DEFINE K == {e[1] : e \in ws[1].entries}
           n == Without(d, K)
           vs == Tail(ws)
<1>1. /\ Len(vs) = Len(ws) - 1 /\ Len(ws) >= 1 /\ Len(ws) \in Nat /\ vs \in Seq(Writing)
      /\ Len(vs) \in Nat /\ ws[1].entries \subseteq Key \X Fix
  <2>1. /\ Len(vs) = Len(ws) - 1 /\ Len(ws) >= 1 /\ Len(ws) \in Nat /\ vs \in Seq(Writing)
        /\ Len(vs) \in Nat
    BY Places
  <2>2. ws[1] \in Writing
    BY <2>1, Places
  <2>3. ws[1].entries \subseteq Key \X Fix
    BY <2>2 DEF Writing
  <2> QED
    BY <2>1, <2>3
<1>2. /\ DOMAIN n = DOMAIN d \ K
      /\ \A k \in DOMAIN n : n[k] = d[k]
  BY DEF Without
\* What is deleted is in the file.
<1>3. ASSUME NEW k \in Key, NEW f \in Fix, Deletes(ws, 1, k, f)
      PROVE  Born(d, ws, 0, k, f)
  <2>1. \E j \in 0..Len(ws) : j < 1 /\ Born(d, ws, j, k, f)
    BY <1>1, <1>3 DEF FileInv, DeletesOnce
  <2>2. PICK j \in 0..Len(ws) : j < 1 /\ Born(d, ws, j, k, f)
    BY <2>1
  <2>3. j = 0
    BY <2>2, <1>1
  <2> QED
    BY <2>2, <2>3
<1>4. ASSUME NEW k \in Key, NEW f \in Fix
      PROVE  Born(n, vs, 0, k, f) <=> Born(d, ws, 0, k, f) /\ ~Deletes(ws, 1, k, f)
  <2>1. ASSUME k \in DOMAIN d, d[k] = f
        PROVE  k \in K <=> Deletes(ws, 1, k, f)
    <3>1. ASSUME k \in K
          PROVE  Deletes(ws, 1, k, f)
      <4>1. PICK e \in ws[1].entries : e[1] = k
        BY <3>1
      <4>2. e = <<k, e[2]>> /\ e[2] \in Fix
        BY <4>1, <1>1
      <4>3. Deletes(ws, 1, k, e[2])
        BY <4>1, <4>2 DEF Deletes
      <4>4. e[2] = f
        BY <4>2, <4>3, <1>3, <2>1 DEF Born
      <4> QED
        BY <4>3, <4>4
    <3>2. ASSUME Deletes(ws, 1, k, f)
          PROVE  k \in K
      <4>1. <<k, f>> \in ws[1].entries /\ <<k, f>>[1] = k
        BY <3>2 DEF Deletes
      <4> QED
        BY <4>1
    <3> QED
      BY <3>1, <3>2
  <2> QED
    BY <2>1, <1>1, <1>2 DEF Born
<1> HIDE DEF K, n, vs
<1>5. \A i \in 1..Len(vs) : \A k, f :
        /\ Born(n, vs, i, k, f) <=> Born(d, ws, i + 1, k, f)
        /\ Deletes(vs, i, k, f) <=> Deletes(ws, i + 1, k, f)
  BY TailBorn DEF vs
\* What is left comes from the place before, and is not deleted.
<1>6. ASSUME NEW i \in 0..Len(vs), NEW k \in Key, NEW f \in Fix, Born(n, vs, i, k, f)
      PROVE  /\ ~Deletes(ws, 1, k, f)
             /\ \E x \in 0..Len(ws) : Born(d, ws, x, k, f) /\ x <= i + 1 /\ (i >= 1 => x = i + 1)
  <2>1. CASE i = 0
    BY <2>1, <1>1, <1>4, <1>6
  <2>2. CASE i # 0
    <3>1. i + 1 \in 0..Len(ws) /\ Born(d, ws, i + 1, k, f) /\ 0 \in 0..Len(ws) /\ i + 1 # 0
      BY <2>2, <1>1, <1>5, <1>6
    <3>2. ~Born(d, ws, 0, k, f)
      BY <3>1, OneBirth DEF FileInv
    <3> QED
      BY <3>1, <3>2, <1>3, <1>1
  <2> QED
    BY <2>1, <2>2
<1>7. ASSUME NEW x \in 0..Len(ws), NEW k \in Key, NEW f \in Fix, Born(d, ws, x, k, f),
             ~Deletes(ws, 1, k, f)
      PROVE  \E i \in 0..Len(vs) : Born(n, vs, i, k, f) /\ (x = 0 => i = 0) /\ (x # 0 => i = x - 1)
  <2>1. CASE x = 0
    BY <2>1, <1>1, <1>4, <1>7
  <2>2. CASE x = 1
    BY <2>2, <1>7, <1>1 DEF Born
  <2>3. CASE x \notin {0, 1}
    <3>1. x - 1 \in 1..Len(vs) /\ (x - 1) + 1 = x
      BY <2>3, <1>1
    <3> QED
      BY <3>1, <1>5, <1>7
  <2> QED
    BY <2>1, <2>2, <2>3
<1>8. ASSUME NEW j \in Nat, NEW k, NEW f, ~Deletes(ws, 1, k, f)
      PROVE  Gone(ws, j + 1, k, f) <=> Gone(vs, j, k, f)
  BY <1>8, TailGone DEF vs
<1>9. Ordered(n, vs)
  <2>1. ASSUME NEW k \in DOMAIN n, NEW l \in DOMAIN n, k < l
        PROVE  n[k] < n[l]
    BY <1>2, <2>1 DEF FileInv, Ordered, n
  <2>2. ASSUME NEW i \in 0..Len(vs), NEW j \in 0..Len(vs), i < j,
               NEW k \in Key, NEW f \in Fix, Born(n, vs, i, k, f),
               NEW l \in Key, NEW g \in Fix, Born(n, vs, j, l, g)
        PROVE  f < g /\ (k < l \/ Gone(vs, j, k, f))
    <3>1. ~Deletes(ws, 1, k, f)
      BY <1>6, <2>2
    <3>2. PICK x \in 0..Len(ws) : Born(d, ws, x, k, f) /\ x <= i + 1
      BY <1>6, <2>2
    <3>3. x < j + 1 /\ j + 1 \in 0..Len(ws) /\ j \in 1..Len(vs) /\ j \in Nat
      BY <3>2, <2>2, <1>1
    <3>4. Born(d, ws, j + 1, l, g)
      BY <3>3, <1>5, <2>2
    <3>5. f < g /\ (k < l \/ Gone(ws, j + 1, k, f))
      BY <3>2, <3>3, <3>4 DEF FileInv, Ordered
    <3> QED
      BY <3>1, <3>3, <3>5, <1>8
  <2> QED
    BY <2>1, <2>2 DEF Ordered
<1>10. DeletesOnce(n, vs)
  <2> SUFFICES ASSUME NEW i \in 1..Len(vs), NEW k \in Key, NEW f \in Fix, Deletes(vs, i, k, f)
               PROVE  /\ \E j \in 0..Len(vs) : j < i /\ Born(n, vs, j, k, f)
                      /\ ~Gone(vs, i, k, f)
    BY DEF DeletesOnce
  <2>1. Deletes(ws, i + 1, k, f) /\ i + 1 \in 1..Len(ws) /\ i \in Nat /\ i # 0
    BY <1>1, <1>5
  <2>2. PICK j \in 0..Len(ws) : j < i + 1 /\ Born(d, ws, j, k, f)
    BY <2>1 DEF FileInv, DeletesOnce
  <2>3. ~Gone(ws, i + 1, k, f)
    BY <2>1 DEF FileInv, DeletesOnce
  <2>4. ~Deletes(ws, 1, k, f) /\ ~Gone(vs, i, k, f)
    BY <2>1, <2>3, TailGone DEF vs
  <2>5. PICK x \in 0..Len(vs) : Born(n, vs, x, k, f) /\ (j = 0 => x = 0) /\ (j # 0 => x = j - 1)
    BY <2>2, <2>4, <1>7
  <2>6. x < i
    BY <2>5, <2>2, <2>1, <1>1
  <2> QED
    BY <2>4, <2>5, <2>6
<1>11. Catches(n, vs, b)
  <2> SUFFICES ASSUME NEW k \in Key, NEW f \in Fix
               PROVE  (k \in DOMAIN b /\ b[k] = f)
                        <=> /\ \E i \in 0..Len(vs) : Born(n, vs, i, k, f)
                            /\ ~Gone(vs, Len(vs) + 1, k, f)
    BY DEF Catches
  <2>1. (k \in DOMAIN b /\ b[k] = f)
          <=> /\ \E i \in 0..Len(ws) : Born(d, ws, i, k, f)
              /\ ~Gone(ws, Len(ws) + 1, k, f)
    BY DEF FileInv, Catches
  <2>2. Gone(ws, Len(ws) + 1, k, f)
          <=> Gone(vs, Len(vs) + 1, k, f) \/ Deletes(ws, 1, k, f)
    <3>1. Len(vs) + 1 \in Nat /\ Len(vs) + 1 # 0 /\ (Len(vs) + 1) + 1 = Len(ws) + 1
      BY <1>1
    <3> QED
      BY <3>1, TailGone DEF vs
  <2>3. (\E i \in 0..Len(vs) : Born(n, vs, i, k, f))
          <=> (\E i \in 0..Len(ws) : Born(d, ws, i, k, f)) /\ ~Deletes(ws, 1, k, f)
    BY <1>6, <1>7
  <2> QED
    BY <2>1, <2>2, <2>3
<1> QED
  BY <1>9, <1>10, <1>11 DEF FileInv, n, vs, K

\* What the writes bring and delete is as before when one is added.
LEMMA AddedPlaces ==
  ASSUME NEW d, NEW ws \in Seq(Writing), NEW w \in Writing, NEW k, NEW f
  PROVE  /\ \A i \in 0..Len(ws) : Born(d, Append(ws, w), i, k, f) <=> Born(d, ws, i, k, f)
         /\ \A i \in 1..Len(ws) : Deletes(Append(ws, w), i, k, f) <=> Deletes(ws, i, k, f)
         /\ \A j \in 0..Len(ws) + 1 : Gone(Append(ws, w), j, k, f) <=> Gone(ws, j, k, f)
         /\ Born(d, Append(ws, w), Len(ws) + 1, k, f)
              <=> w.op = "put" /\ <<k, f>> \in w.entries
         /\ Gone(Append(ws, w), Len(ws) + 2, k, f)
              <=> Gone(ws, Len(ws) + 1, k, f) \/ (w.op # "put" /\ <<k, f>> \in w.entries)
<1> DEFINE vs == Append(ws, w)
<1>1. /\ vs \in Seq(Writing) /\ Len(vs) = Len(ws) + 1 /\ Len(ws) \in Nat
      /\ vs[Len(ws) + 1] = w /\ \A i \in 1..Len(ws) : vs[i] = ws[i]
  BY Places
<1> HIDE DEF vs
<1>2. \A i \in 0..Len(ws) : Born(d, vs, i, k, f) <=> Born(d, ws, i, k, f)
  BY <1>1 DEF Born
<1>3. \A i \in 1..Len(ws) : Deletes(vs, i, k, f) <=> Deletes(ws, i, k, f)
  BY <1>1 DEF Deletes
<1>4. \A j \in 0..Len(ws) + 1 : Gone(vs, j, k, f) <=> Gone(ws, j, k, f)
  BY <1>1, <1>3 DEF Gone
<1>5. Born(d, vs, Len(ws) + 1, k, f) <=> w.op = "put" /\ <<k, f>> \in w.entries
  BY <1>1 DEF Born
<1>6. Deletes(vs, Len(ws) + 1, k, f) <=> w.op # "put" /\ <<k, f>> \in w.entries
  BY <1>1 DEF Deletes
<1>7. Gone(vs, Len(ws) + 2, k, f)
        <=> Gone(vs, Len(ws) + 1, k, f) \/ Deletes(vs, Len(ws) + 1, k, f)
  <2>1. Len(ws) + 1 \in 1..Len(vs) /\ Len(ws) + 1 \in Nat /\ (Len(ws) + 1) + 1 = Len(ws) + 2
    BY <1>1
  <2> QED
    BY <2>1, <1>1, GoneStep
<1>8. Len(ws) + 1 \in 0..Len(ws) + 1
  BY <1>1
<1> QED
  BY <1>2, <1>3, <1>4, <1>5, <1>6, <1>7, <1>8 DEF vs

\* Entries of the box are deleted: their deletes are written last.
LEMMA DeletesAdded ==
  ASSUME NEW d, NEW b, NEW ws \in Seq(Writing), NEW w \in Writing,
         NEW K \in SUBSET DOMAIN b, w.op # "put",
         w.entries = {<<k, b[k]>> : k \in K}, FileInv(d, ws, b)
  PROVE  FileInv(d, Append(ws, w), Without(b, K))
<1> DEFINE vs == Append(ws, w)
           a == Without(b, K)
<1>1. Len(vs) = Len(ws) + 1 /\ Len(ws) \in Nat
  BY Places
<1>2. /\ \A k \in DOMAIN a : k \in DOMAIN b /\ k \notin K /\ a[k] = b[k]
      /\ \A k \in DOMAIN b : k \notin K => k \in DOMAIN a
  BY DEF Without
<1>3. \A k, f : <<k, f>> \in w.entries <=> k \in K /\ b[k] = f
  BY Zenon
<1>4. ASSUME NEW k, NEW f
      PROVE  \A i \in 0..Len(ws) : Born(d, vs, i, k, f) <=> Born(d, ws, i, k, f)
  BY AddedPlaces
<1>5. ASSUME NEW k, NEW f
      PROVE  \A i \in 1..Len(ws) : Deletes(vs, i, k, f) <=> Deletes(ws, i, k, f)
  BY AddedPlaces
<1>6. ASSUME NEW k, NEW f
      PROVE  \A j \in 0..Len(ws) + 1 : Gone(vs, j, k, f) <=> Gone(ws, j, k, f)
  BY AddedPlaces
<1>7. ASSUME NEW k, NEW f
      PROVE  ~Born(d, vs, Len(ws) + 1, k, f)
  <2>1. Born(d, vs, Len(ws) + 1, k, f) <=> w.op = "put" /\ <<k, f>> \in w.entries
    BY AddedPlaces
  <2> QED
    BY <2>1, <1>3
<1>8. ASSUME NEW k, NEW f
      PROVE  Gone(vs, Len(ws) + 2, k, f) <=> Gone(ws, Len(ws) + 1, k, f) \/ (k \in K /\ b[k] = f)
  <2>1. Gone(vs, Len(ws) + 2, k, f)
          <=> Gone(ws, Len(ws) + 1, k, f) \/ (w.op # "put" /\ <<k, f>> \in w.entries)
    BY AddedPlaces
  <2> QED
    BY <2>1, <1>3
<1> HIDE DEF vs, a
<1>9. Ordered(d, vs)
  <2>1. \A k, l \in DOMAIN d : k < l => d[k] < d[l]
    BY DEF FileInv, Ordered
  <2>2. ASSUME NEW i \in 0..Len(vs), NEW j \in 0..Len(vs), i < j,
               NEW k \in Key, NEW f \in Fix, Born(d, vs, i, k, f),
               NEW l \in Key, NEW g \in Fix, Born(d, vs, j, l, g)
        PROVE  f < g /\ (k < l \/ Gone(vs, j, k, f))
    <3>1. j # Len(ws) + 1
      BY <1>7, <2>2
    <3>2. i \in 0..Len(ws) /\ j \in 0..Len(ws) /\ j \in 0..Len(ws) + 1
      BY <3>1, <2>2, <1>1
    <3>3. Born(d, ws, i, k, f) /\ Born(d, ws, j, l, g)
      BY <3>2, <1>4, <2>2
    <3>4. f < g /\ (k < l \/ Gone(ws, j, k, f))
      BY <3>2, <3>3, <2>2 DEF FileInv, Ordered
    <3> QED
      BY <3>2, <3>4, <1>6
  <2> QED
    BY <2>1, <2>2 DEF Ordered
<1>10. DeletesOnce(d, vs)
  <2> SUFFICES ASSUME NEW i \in 1..Len(vs), NEW k \in Key, NEW f \in Fix, Deletes(vs, i, k, f)
               PROVE  /\ \E j \in 0..Len(vs) : j < i /\ Born(d, vs, j, k, f)
                      /\ ~Gone(vs, i, k, f)
    BY DEF DeletesOnce
  <2>1. CASE i \in 1..Len(ws)
    <3>1. Deletes(ws, i, k, f) /\ i \in 0..Len(ws) + 1
      BY <2>1, <1>1, <1>5
    <3>2. (\E j \in 0..Len(ws) : j < i /\ Born(d, ws, j, k, f)) /\ ~Gone(ws, i, k, f)
      BY <3>1, <2>1 DEF FileInv, DeletesOnce
    <3> QED
      BY <3>1, <3>2, <1>1, <1>4, <1>6
  <2>2. CASE i = Len(ws) + 1
    <3>1. k \in DOMAIN b /\ b[k] = f
      <4>1. vs[i] = w
        BY <2>2, Places DEF vs
      <4> QED
        BY <4>1, <1>3 DEF Deletes
    <3>2. (\E j \in 0..Len(ws) : Born(d, ws, j, k, f)) /\ ~Gone(ws, Len(ws) + 1, k, f)
      BY <3>1 DEF FileInv, Catches
    <3>3. i \in 0..Len(ws) + 1
      BY <2>2, <1>1
    <3>4. ~Gone(vs, i, k, f)
      BY <3>2, <3>3, <2>2, <1>6
    <3> QED
      BY <3>2, <3>4, <2>2, <1>1, <1>4
  <2> QED
    BY <2>1, <2>2, <1>1
<1>11. Catches(d, vs, a)
  <2> SUFFICES ASSUME NEW k \in Key, NEW f \in Fix
               PROVE  (k \in DOMAIN a /\ a[k] = f)
                        <=> /\ \E i \in 0..Len(vs) : Born(d, vs, i, k, f)
                            /\ ~Gone(vs, Len(vs) + 1, k, f)
    BY DEF Catches
  <2>1. (k \in DOMAIN b /\ b[k] = f)
          <=> /\ \E i \in 0..Len(ws) : Born(d, ws, i, k, f)
              /\ ~Gone(ws, Len(ws) + 1, k, f)
    BY DEF FileInv, Catches
  <2>2. Gone(vs, Len(vs) + 1, k, f)
          <=> Gone(ws, Len(ws) + 1, k, f) \/ (k \in K /\ b[k] = f)
    <3>1. Len(vs) + 1 = Len(ws) + 2
      BY <1>1
    <3> QED
      BY <3>1, <1>8
  <2>3. (\E i \in 0..Len(vs) : Born(d, vs, i, k, f))
          <=> \E i \in 0..Len(ws) : Born(d, ws, i, k, f)
    BY <1>1, <1>4, <1>7
  <2>4. (k \in DOMAIN a /\ a[k] = f) <=> (k \in DOMAIN b /\ b[k] = f) /\ ~(k \in K /\ b[k] = f)
    BY <1>2
  <2> QED
    BY <2>1, <2>2, <2>3, <2>4
<1> QED
  BY <1>9, <1>10, <1>11 DEF FileInv, vs, a

\* An entry is put under a key greater than those in the box, with a fix newer
\* than all there are.
LEMMA PutAdded ==
  ASSUME NEW d, NEW b, NEW ws \in Seq(Writing), NEW w \in Writing,
         NEW k0 \in Key, NEW f0 \in Fix, w.op = "put", w.entries = {<<k0, f0>>},
         \A k \in DOMAIN b : k < k0,
         \A i \in 0..Len(ws), k \in Key, f \in Fix : Born(d, ws, i, k, f) => f < f0,
         FileInv(d, ws, b)
  PROVE  FileInv(d, Append(ws, w), With(b, <<k0, f0>>))
<1> DEFINE vs == Append(ws, w)
           a == With(b, <<k0, f0>>)
<1>1. Len(vs) = Len(ws) + 1 /\ Len(ws) \in Nat
  BY Places
<1>2. k0 \notin DOMAIN b
  BY LiveTripConstants DEF Key
<1>3. /\ DOMAIN a = DOMAIN b \cup {k0} /\ a[k0] = f0
      /\ \A k \in DOMAIN b : a[k] = b[k]
  BY <1>2 DEF With
<1>4. ASSUME NEW k, NEW f
      PROVE  \A i \in 0..Len(ws) : Born(d, vs, i, k, f) <=> Born(d, ws, i, k, f)
  BY AddedPlaces
<1>5. ASSUME NEW k, NEW f
      PROVE  \A i \in 1..Len(ws) : Deletes(vs, i, k, f) <=> Deletes(ws, i, k, f)
  BY AddedPlaces
<1>6. ASSUME NEW k, NEW f
      PROVE  \A j \in 0..Len(ws) + 1 : Gone(vs, j, k, f) <=> Gone(ws, j, k, f)
  BY AddedPlaces
<1>7. ASSUME NEW k, NEW f
      PROVE  Born(d, vs, Len(ws) + 1, k, f) <=> k = k0 /\ f = f0
  <2>1. Born(d, vs, Len(ws) + 1, k, f) <=> w.op = "put" /\ <<k, f>> \in w.entries
    BY AddedPlaces
  <2> QED
    BY <2>1
<1>8. ASSUME NEW k, NEW f
      PROVE  Gone(vs, Len(ws) + 2, k, f) <=> Gone(ws, Len(ws) + 1, k, f)
  <2>1. Gone(vs, Len(ws) + 2, k, f)
          <=> Gone(ws, Len(ws) + 1, k, f) \/ (w.op # "put" /\ <<k, f>> \in w.entries)
    BY AddedPlaces
  <2> QED
    BY <2>1
<1> HIDE DEF vs, a
<1>9. Ordered(d, vs)
  <2>1. \A k, l \in DOMAIN d : k < l => d[k] < d[l]
    BY DEF FileInv, Ordered
  <2>2. ASSUME NEW i \in 0..Len(vs), NEW j \in 0..Len(vs), i < j,
               NEW k \in Key, NEW f \in Fix, Born(d, vs, i, k, f),
               NEW l \in Key, NEW g \in Fix, Born(d, vs, j, l, g)
        PROVE  f < g /\ (k < l \/ Gone(vs, j, k, f))
    <3>1. i \in 0..Len(ws) /\ j \in 0..Len(ws) + 1 /\ Born(d, ws, i, k, f)
      BY <2>2, <1>1, <1>4
    <3>2. CASE j = Len(ws) + 1
      <4>1. l = k0 /\ g = f0 /\ f < f0
        BY <3>1, <3>2, <1>7, <2>2
      <4>2. ~Gone(vs, j, k, f) => k \in DOMAIN b
        BY <3>1, <3>2, <1>6 DEF FileInv, Catches
      <4> QED
        BY <4>1, <4>2
    <3>3. CASE j \in 0..Len(ws)
      BY <3>1, <3>3, <1>4, <1>6, <2>2 DEF FileInv, Ordered
    <3> QED
      BY <3>1, <3>2, <3>3, <1>1
  <2> QED
    BY <2>1, <2>2 DEF Ordered
<1>10. DeletesOnce(d, vs)
  <2> SUFFICES ASSUME NEW i \in 1..Len(vs), NEW k \in Key, NEW f \in Fix, Deletes(vs, i, k, f)
               PROVE  /\ \E j \in 0..Len(vs) : j < i /\ Born(d, vs, j, k, f)
                      /\ ~Gone(vs, i, k, f)
    BY DEF DeletesOnce
  <2>1. i # Len(ws) + 1
    <3>1. vs[Len(ws) + 1] = w
      BY Places DEF vs
    <3> QED
      BY <3>1 DEF Deletes
  <2>2. i \in 1..Len(ws) /\ i \in 0..Len(ws) + 1
    BY <2>1, <1>1
  <2>3. (\E j \in 0..Len(ws) : j < i /\ Born(d, ws, j, k, f)) /\ ~Gone(ws, i, k, f)
    BY <2>2, <1>5 DEF FileInv, DeletesOnce
  <2> QED
    BY <2>2, <2>3, <1>1, <1>4, <1>6
<1>11. Catches(d, vs, a)
  <2> SUFFICES ASSUME NEW k \in Key, NEW f \in Fix
               PROVE  (k \in DOMAIN a /\ a[k] = f)
                        <=> /\ \E i \in 0..Len(vs) : Born(d, vs, i, k, f)
                            /\ ~Gone(vs, Len(vs) + 1, k, f)
    BY DEF Catches
  <2>1. (k \in DOMAIN b /\ b[k] = f)
          <=> /\ \E i \in 0..Len(ws) : Born(d, ws, i, k, f)
              /\ ~Gone(ws, Len(ws) + 1, k, f)
    BY DEF FileInv, Catches
  <2>2. Gone(vs, Len(vs) + 1, k, f) <=> Gone(ws, Len(ws) + 1, k, f)
    <3>1. Len(vs) + 1 = Len(ws) + 2
      BY <1>1
    <3> QED
      BY <3>1, <1>8
  <2>3. (\E i \in 0..Len(vs) : Born(d, vs, i, k, f))
          <=> (\E i \in 0..Len(ws) : Born(d, ws, i, k, f)) \/ (k = k0 /\ f = f0)
    BY <1>1, <1>4, <1>7
  <2>4. (k \in DOMAIN a /\ a[k] = f) <=> (k \in DOMAIN b /\ b[k] = f) \/ (k = k0 /\ f = f0)
    BY <1>2, <1>3
  <2>5. k = k0 /\ f = f0 => ~Gone(ws, Len(ws) + 1, k, f)
    <3> SUFFICES ASSUME k = k0, f = f0, Gone(ws, Len(ws) + 1, k, f)
                 PROVE  FALSE
      OBVIOUS
    <3>1. PICK i \in 1..Len(ws) : Deletes(ws, i, k, f)
      BY DEF Gone
    <3>2. PICK j \in 0..Len(ws) : Born(d, ws, j, k, f)
      BY <3>1 DEF FileInv, DeletesOnce
    <3>3. f0 < f0
      BY <3>2
    <3> QED
      BY <3>3, LiveTripConstants DEF Fix
  <2> QED
    BY <2>1, <2>2, <2>3, <2>4, <2>5
<1> QED
  BY <1>9, <1>10, <1>11 DEF FileInv, vs, a

\* After a kill the box is the file.
LEMMA Reloaded ==
  ASSUME NEW d, NEW ws \in Seq(Writing), NEW b, FileInv(d, ws, b)
  PROVE  FileInv(d, <<>>, d)
<1>1. \A k, f : Born(d, <<>>, 0, k, f) <=> k \in DOMAIN d /\ d[k] = f
  BY DEF Born
<1>2. \A j, k, f : ~Gone(<<>>, j, k, f)
  BY DEF Gone
<1>3. Ordered(d, <<>>)
  BY DEF FileInv, Ordered
<1>4. DeletesOnce(d, <<>>)
  BY DEF DeletesOnce
<1>5. Catches(d, <<>>, d)
  BY <1>1, <1>2 DEF Catches
<1> QED
  BY <1>3, <1>4, <1>5 DEF FileInv

\* The box is in the order of capture.
LEMMA InOrder ==
  ASSUME NEW d, NEW b, NEW ws \in Seq(Writing), Singles(ws), FileInv(d, ws, b),
         DOMAIN b \subseteq Key, b \in [DOMAIN b -> Fix],
         NEW k \in DOMAIN b, NEW l \in DOMAIN b, k < l
  PROVE  b[k] < b[l]
<1> DEFINE f == b[k]
           g == b[l]
<1>1. f \in Fix /\ g \in Fix /\ k \in Key /\ l \in Key
  OBVIOUS
<1> HIDE DEF f, g
<1>2. PICK i \in 0..Len(ws) : Born(d, ws, i, k, f)
  BY <1>1 DEF FileInv, Catches, f
<1>3. PICK j \in 0..Len(ws) : Born(d, ws, j, l, g)
  BY <1>1 DEF FileInv, Catches, g
<1>4. ~Gone(ws, Len(ws) + 1, l, g)
  BY <1>1 DEF FileInv, Catches, g
<1>5. CASE i < j
  BY <1>1, <1>2, <1>3, <1>5 DEF FileInv, Ordered, f, g
<1>6. CASE j < i
  <2>1. l < k \/ Gone(ws, i, l, g)
    BY <1>1, <1>2, <1>3, <1>6 DEF FileInv, Ordered
  <2>2. i \in Nat /\ ~(l < k)
    BY <1>1, Places, LiveTripConstants DEF Key
  <2> QED
    BY <2>1, <2>2, <1>4, GoneStep
<1>7. CASE i = j
  <2>1. CASE i = 0
    BY <2>1, <1>2, <1>3, <1>7, Places DEF Born, FileInv, Ordered, f, g
  <2>2. CASE i # 0
    <3>1. i \in 1..Len(ws) /\ ws[i].op = "put"
          /\ <<k, f>> \in ws[i].entries /\ <<l, g>> \in ws[i].entries
      BY <2>2, <1>2, <1>3, <1>7 DEF Born
    <3>2. k = l
      BY <3>1 DEF Singles
    <3> QED
      BY <3>2, <1>1, LiveTripConstants DEF Key
  <2> QED
    BY <2>1, <2>2
<1> QED
  BY <1>5, <1>6, <1>7, Places

-----------------------------------------------------------------------------
(* The invariant by the variables it is about, n being the number of fixes. *)

BoxOK(b, n) ==
  /\ b \in [DOMAIN b -> Fix]
  /\ \A k \in DOMAIN b : k \in Key /\ k < b[k] /\ b[k] <= n

Numbered(entries, n) == \A e \in entries : e[1] < e[2] /\ e[2] <= n
WritesOK(ws, n) ==
  /\ ws \in Seq(Writing) /\ Singles(ws)
  /\ \A i \in 1..Len(ws) : Numbered(ws[i].entries, n)

\* A controller with record q.
OneOK(q, n) ==
  /\ q \in ControllerType /\ q.next <= n
  /\ q.life # "none" => q.trip \in Trip
  /\ q.socket # "none" \/ q.gps # "off" => q.life # "none"

WireOK(w, s, n) ==
  /\ w \in [Ctl -> Seq(Fix)] /\ s \subseteq 1..n
  /\ \A c \in Ctl : \A i \in 1..Len(w[c]) : w[c][i] <= n

FileOK == BoxOK(box, Count) /\ BoxOK(disk, Count) /\ WritesOK(writes, Count)
CtlOK == DOMAIN ctl = Ctl /\ ctl = [c \in Ctl |-> ctl[c]]
         /\ \A c \in Ctl : OneOK(ctl[c], Count)
NetOK == WireOK(wire, sunk, Count)
PastOK ==
  /\ Count \in 0..MaxFix /\ Fixes = 1..Count
  /\ trip \in [Fixes -> Trip]
  /\ saved \subseteq Fixes /\ evicted \subseteq Fixes
  /\ stored \in [Trip -> SUBSET Fixes]
  /\ copies \in [Fix -> Nat] /\ kills \in 0..MaxKills

TInv == FileOK /\ CtlOK /\ NetOK /\ PastOK

Inductive ==
  /\ TInv
  /\ InTurn => /\ TurnInv /\ FileInv(disk, writes, box)
               /\ KeptInv /\ NoFrameLost
               /\ KeepsNewest
               /\ OnceInv /\ CopiesBounded
               /\ LeavingInv /\ LeftoverInv /\ BadgeInv

\* They are what IInv says of a behaviour with any screens.
LEMMA Parts == TInv => TypeOK /\ Singles(writes) /\ NumberInv /\ LifeInv
<1>1. ASSUME TInv PROVE TypeOK
  <2>1. Keys \subseteq Key /\ box \in [Keys -> Fix]
        /\ DOMAIN disk \subseteq Key /\ disk \in [DOMAIN disk -> Fix]
    BY <1>1 DEF TInv, FileOK, BoxOK, Keys
  <2>2. writes \in Seq([by : Ctl, op : {"put", "evict", "drain"},
                        entries : SUBSET (Key \X Fix)])
    BY <1>1 DEF TInv, FileOK, WritesOK, Writing, Op
  <2>3. ctl \in [Ctl -> ControllerType]
    BY <1>1 DEF TInv, CtlOK, OneOK
  <2>4. wire \in [Ctl -> Seq(Fix)] /\ sunk \in SUBSET Fixes
    BY <1>1 DEF TInv, NetOK, WireOK, PastOK
  <2>5. Fixes \in SUBSET Fix
    BY <1>1, LiveTripConstants DEF TInv, PastOK, Fix
  <2> QED
    BY <1>1, <2>1, <2>2, <2>3, <2>4, <2>5 DEF TInv, PastOK, TypeOK
<1>2. ASSUME TInv PROVE Singles(writes) /\ NumberInv /\ LifeInv
  <2>1. Singles(writes)
    BY <1>2 DEF TInv, FileOK, WritesOK
  <2>2. LifeInv
    BY <1>2 DEF TInv, CtlOK, OneOK, LifeInv
  <2>3. /\ \A k \in Keys : Below(k, box[k])
        /\ \A k \in DOMAIN disk : Below(k, disk[k])
        /\ \A i \in 1..Len(writes) : \A e \in writes[i].entries : Below(e[1], e[2])
    BY <1>2 DEF TInv, FileOK, BoxOK, WritesOK, Numbered, Below, Keys
  <2>4. /\ \A c \in Ctl : ctl[c].next <= Count
        /\ \A c \in Ctl : \A i \in 1..Len(wire[c]) : wire[c][i] <= Count
    BY <1>2 DEF TInv, CtlOK, OneOK, NetOK, WireOK
  <2>5. Count \in 0..MaxFix /\ Fixes = 1..Count
    BY <1>2 DEF TInv, PastOK
  <2> QED
    BY <2>1, <2>2, <2>3, <2>4, <2>5 DEF NumberInv
<1> QED
  BY <1>1, <1>2

-----------------------------------------------------------------------------
(* What the operators on the box, the writes, the records and the wires keep. *)

\* Deleting from the box.
LEMMA WithoutOK ==
  ASSUME NEW b, NEW n, NEW K, BoxOK(b, n)
  PROVE  /\ BoxOK(Without(b, K), n) /\ DOMAIN Without(b, K) = DOMAIN b \ K
         /\ \A k \in DOMAIN b \ K : Without(b, K)[k] = b[k]
         /\ Without(b, {}) = b
<1>1. /\ DOMAIN Without(b, K) = DOMAIN b \ K
      /\ \A k \in DOMAIN b \ K : Without(b, K)[k] = b[k]
      /\ Without(b, K) = [k \in DOMAIN b \ K |-> b[k]]
  BY DEF Without
<1>2. Without(b, K) \in [DOMAIN Without(b, K) -> Fix]
  BY <1>1 DEF BoxOK
<1>3. Without(b, {}) = b
  BY DEF Without, BoxOK
<1> QED
  BY <1>1, <1>2, <1>3 DEF BoxOK

\* Putting to it.
LEMMA WithOK ==
  ASSUME NEW b, NEW m \in Nat, BoxOK(b, m), NEW k \in Key, NEW f \in Fix, k < f, f <= m
  PROVE  /\ BoxOK(With(b, <<k, f>>), m) /\ DOMAIN With(b, <<k, f>>) = DOMAIN b \cup {k}
         /\ With(b, <<k, f>>)[k] = f
         /\ \A l \in DOMAIN b : l # k => With(b, <<k, f>>)[l] = b[l]
<1> DEFINE a == With(b, <<k, f>>)
<1>1. /\ DOMAIN a = DOMAIN b \cup {k} /\ a[k] = f
      /\ \A l \in DOMAIN b : l # k => a[l] = b[l]
      /\ a = [l \in DOMAIN b \cup {k} |-> IF l = k THEN f ELSE b[l]]
  BY DEF With
<1>2. \A l \in DOMAIN b : b[l] \in Fix /\ b[l] \in Nat
  BY LiveTripConstants DEF BoxOK, Fix
<1>3. a \in [DOMAIN a -> Fix]
  BY <1>1, <1>2
<1> HIDE DEF a
<1>4. ASSUME NEW l \in DOMAIN a
      PROVE  l \in Key /\ l < a[l] /\ a[l] <= m
  <2>1. CASE l = k
    BY <2>1, <1>1
  <2>2. CASE l # k
    BY <2>2, <1>1, <1>2 DEF BoxOK
  <2> QED
    BY <2>1, <2>2
<1> QED
  BY <1>1, <1>3, <1>4 DEF BoxOK, a

\* A fix more.
LEMMA MoreOK ==
  ASSUME NEW n \in Nat, NEW m \in Nat, n <= m
  PROVE  /\ \A b : BoxOK(b, n) => BoxOK(b, m)
         /\ \A ws : WritesOK(ws, n) => WritesOK(ws, m)
         /\ \A q : OneOK(q, n) => OneOK(q, m)
         /\ \A w, s : WireOK(w, s, n) => WireOK(w, s, m)
<1>1. ASSUME NEW b, BoxOK(b, n) PROVE BoxOK(b, m)
  BY <1>1, LiveTripConstants DEF BoxOK, Fix
<1>2. ASSUME NEW ws, WritesOK(ws, n) PROVE WritesOK(ws, m)
  <2>1. ASSUME NEW i \in 1..Len(ws), NEW e \in ws[i].entries
        PROVE  e[1] < e[2] /\ e[2] <= m
    <3>1. ws[i] \in Writing
      BY <1>2, Places DEF WritesOK
    <3>2. e[2] \in Fix
      BY <3>1 DEF Writing
    <3>3. e[1] < e[2] /\ e[2] <= n
      BY <1>2 DEF WritesOK, Numbered
    <3> QED
      BY <3>2, <3>3, LiveTripConstants DEF Fix
  <2> QED
    BY <1>2, <2>1 DEF WritesOK, Numbered
<1>3. ASSUME NEW q, OneOK(q, n) PROVE OneOK(q, m)
  <2>1. q.next \in Key
    BY <1>3 DEF OneOK, ControllerType
  <2>2. q.next <= m
    BY <2>1, <1>3, LiveTripConstants DEF OneOK, Key
  <2> QED
    BY <2>2, <1>3 DEF OneOK
<1>4. ASSUME NEW w, NEW s, WireOK(w, s, n) PROVE WireOK(w, s, m)
  <2>1. ASSUME NEW c \in Ctl, NEW i \in 1..Len(w[c])
        PROVE  w[c][i] <= m
    <3>1. w[c] \in Seq(Fix)
      BY <1>4 DEF WireOK
    <3>2. w[c][i] \in Fix
      BY <3>1
    <3>3. w[c][i] <= n
      BY <1>4 DEF WireOK
    <3> QED
      BY <3>2, <3>3, LiveTripConstants DEF Fix
  <2> QED
    BY <1>4, <2>1 DEF WireOK
<1> QED
  BY <1>1, <1>2, <1>3, <1>4

\* The first write is done.
LEMMA TailOK ==
  ASSUME NEW ws, NEW n, WritesOK(ws, n), ws # <<>>
  PROVE  /\ WritesOK(Tail(ws), n) /\ Head(ws) = ws[1] /\ ws[1] \in Writing
         /\ Numbered(ws[1].entries, n)
         /\ ws[1].op = "put" => \E k \in Key, f \in Fix : ws[1].entries = {<<k, f>>}
<1>1. /\ ws \in Seq(Writing) /\ Tail(ws) \in Seq(Writing) /\ Len(ws) >= 1 /\ Len(ws) \in Nat
      /\ Len(Tail(ws)) = Len(ws) - 1 /\ Head(ws) = ws[1]
      /\ \A i \in 1..Len(ws) - 1 : Tail(ws)[i] = ws[i + 1]
  BY Places DEF WritesOK
<1>2. ws[1] \in Writing /\ 1 \in 1..Len(ws)
  BY <1>1, Places
<1>3. \A i \in 1..Len(Tail(ws)) : i + 1 \in 1..Len(ws) /\ Tail(ws)[i] = ws[i + 1]
  BY <1>1
<1>4. Singles(Tail(ws))
  BY <1>3 DEF WritesOK, Singles
<1>5. \A i \in 1..Len(Tail(ws)) : Numbered(Tail(ws)[i].entries, n)
  BY <1>3 DEF WritesOK
<1> QED
  BY <1>1, <1>2, <1>4, <1>5 DEF WritesOK, Singles

\* One is added.
LEMMA AppendOK ==
  ASSUME NEW ws, NEW n, WritesOK(ws, n), NEW w \in Writing, Numbered(w.entries, n),
         w.op = "put" => \E k \in Key, f \in Fix : w.entries = {<<k, f>>}
  PROVE  WritesOK(Append(ws, w), n)
<1>1. /\ ws \in Seq(Writing) /\ Append(ws, w) \in Seq(Writing) /\ Len(ws) \in Nat
      /\ Len(Append(ws, w)) = Len(ws) + 1 /\ Append(ws, w)[Len(ws) + 1] = w
      /\ \A i \in 1..Len(ws) : Append(ws, w)[i] = ws[i]
  BY Places DEF WritesOK
<1>2. Singles(Append(ws, w))
  BY <1>1 DEF WritesOK, Singles
<1>3. \A i \in 1..Len(ws) + 1 : Numbered(Append(ws, w)[i].entries, n)
  BY <1>1 DEF WritesOK
<1> QED
  BY <1>1, <1>2, <1>3 DEF WritesOK

\* A put.
LEMMA PutType ==
  ASSUME NEW c \in Ctl, NEW k \in Key, NEW f \in Fix
  PROVE  /\ Write(c, "put", {<<k, f>>}) \in Writing
         /\ Write(c, "put", {<<k, f>>}).op = "put"
         /\ Write(c, "put", {<<k, f>>}).entries = {<<k, f>>}
         /\ Write(c, "put", {<<k, f>>}).by = c
BY DEF Write, Writing, Op

\* Deletes of entries of the box.
LEMMA DeleteType ==
  ASSUME NEW c \in Ctl, NEW op \in {"evict", "drain"}, NEW K \in SUBSET Keys, NEW n,
         BoxOK(box, n)
  PROVE  /\ Write(c, op, Entries(K)) \in Writing
         /\ Write(c, op, Entries(K)).op = op
         /\ Write(c, op, Entries(K)).entries = {<<k, box[k]>> : k \in K}
         /\ Numbered({<<k, box[k]>> : k \in K}, n)
<1>1. Entries(K) = {<<k, box[k]>> : k \in K}
  BY DEF Entries
<1>2. \A k \in K : k \in Key /\ box[k] \in Fix /\ k < box[k] /\ box[k] <= n
  BY DEF BoxOK, Keys
<1>3. Entries(K) \in SUBSET (Key \X Fix)
  BY <1>1, <1>2
<1>4. Numbered({<<k, box[k]>> : k \in K}, n)
  BY <1>2 DEF Numbered
<1> QED
  BY <1>1, <1>3, <1>4 DEF Write, Writing, Op

\* Dead.
LEMMA DeadOK == \A n \in Nat : OneOK(Dead, n) /\ Dead.life = "none" /\ Dead.gps = "off"
<1>1. Dead \in ControllerType
  BY LiveTripConstants DEF Dead, ControllerType, Key
<1> QED
  BY <1>1 DEF OneOK, Dead

\* The records that the actions make of a controller's record.
LEMMA CreateType ==
  ASSUME NEW t \in Trip, NEW n \in Nat
  PROVE  LET q == [Dead EXCEPT !.trip = t, !.life = "opening"]
         IN  OneOK(q, n) /\ q.life = "opening" /\ q.gps = "off"
<1> DEFINE q == [Dead EXCEPT !.trip = t, !.life = "opening"]
<1>1. Dead \in ControllerType /\ Dead.gps = "off" /\ Dead.next = 0 /\ Dead.socket = "none"
  BY LiveTripConstants DEF Dead, ControllerType, Key
<1>2. /\ q \in ControllerType /\ q.life = "opening" /\ q.trip = t
      /\ q.gps = "off" /\ q.next = 0 /\ q.socket = "none"
  BY <1>1 DEF ControllerType
<1> HIDE DEF q
<1>3. OneOK(q, n)
  BY <1>1, <1>2 DEF OneOK
<1> QED
  BY <1>2, <1>3 DEF q

\* Bootstrap.
LEMMA BootstrapType ==
  ASSUME NEW n, NEW q, OneOK(q, n), q.life # "none", NEW b \in BOOLEAN, NEW K \in SUBSET Key,
         NEW k \in Key, k <= n, NEW m \in 0..MaxFix
  PROVE  LET r == [q EXCEPT !.life = "live", !.gps = "starting", !.socket = "handshake",
                            !.connected = TRUE, !.draining = b, !.todo = K,
                            !.next = k, !.queued = m]
         IN  OneOK(r, n) /\ r.life = "live" /\ r.next = k
<1> DEFINE r == [q EXCEPT !.life = "live", !.gps = "starting", !.socket = "handshake",
                          !.connected = TRUE, !.draining = b, !.todo = K,
                          !.next = k, !.queued = m]
<1>1. r \in ControllerType
  BY DEF OneOK, ControllerType
<1>2. r.life = "live" /\ r.trip = q.trip /\ r.next = k
  BY DEF OneOK, ControllerType
<1> QED
  BY <1>1, <1>2 DEF OneOK

\* Dispose.
LEMMA DisposeType ==
  ASSUME NEW n, NEW q, OneOK(q, n), q.life # "none", NEW g \in {"off", "starting", "on"}
  PROVE  LET r == [q EXCEPT !.life = "disposed", !.socket = "closed", !.gps = g]
         IN  OneOK(r, n) /\ r.life = "disposed" /\ r.gps = g
<1> DEFINE r == [q EXCEPT !.life = "disposed", !.socket = "closed", !.gps = g]
<1>1. r \in ControllerType
  BY DEF OneOK, ControllerType
<1>2. r.life = "disposed" /\ r.trip = q.trip /\ r.next = q.next /\ r.gps = g
  BY DEF OneOK, ControllerType
<1> QED
  BY <1>1, <1>2 DEF OneOK

\* StartGps.
LEMMA GpsType ==
  ASSUME NEW n, NEW q, OneOK(q, n), q.gps # "off", NEW g \in {"off", "starting", "on"}
  PROVE  LET r == [q EXCEPT !.gps = g]
         IN  OneOK(r, n) /\ r.life = q.life /\ r.next = q.next
<1> DEFINE r == [q EXCEPT !.gps = g]
<1>1. r \in ControllerType
  BY DEF OneOK, ControllerType
<1>2. r.life = q.life /\ r.trip = q.trip /\ r.next = q.next /\ q.life # "none"
  BY DEF OneOK, ControllerType
<1> QED
  BY <1>1, <1>2 DEF OneOK

\* HandshakeDone, Break and NoticeDown.
LEMMA SocketType ==
  ASSUME NEW n, NEW q, OneOK(q, n), q.socket # "none",
         NEW s \in {"open", "dead", "gone"}, NEW b \in BOOLEAN
  PROVE  LET r == [q EXCEPT !.socket = s]
             p == [q EXCEPT !.socket = s, !.connected = b]
         IN  /\ OneOK(r, n) /\ r.life = q.life /\ r.next = q.next /\ r.gps = q.gps
             /\ OneOK(p, n) /\ p.life = q.life /\ p.next = q.next /\ p.gps = q.gps
<1> DEFINE r == [q EXCEPT !.socket = s]
           p == [q EXCEPT !.socket = s, !.connected = b]
<1>1. r \in ControllerType /\ p \in ControllerType
  BY DEF OneOK, ControllerType
<1>2. /\ r.life = q.life /\ r.trip = q.trip /\ r.next = q.next /\ r.gps = q.gps
      /\ p.life = q.life /\ p.trip = q.trip /\ p.next = q.next /\ p.gps = q.gps
  BY DEF OneOK, ControllerType
<1> QED
  BY <1>1, <1>2 DEF OneOK

\* Enqueue, Shows, DrainNext and DrainDone.
LEMMA QueueType ==
  ASSUME NEW n, NEW q, OneOK(q, n), NEW k \in Key, NEW m \in Nat, k <= m,
         NEW K \in SUBSET Key, NEW b \in BOOLEAN, NEW size \in 0..MaxFix
  PROVE  LET r == [q EXCEPT !.next = k]
             s == [q EXCEPT !.queued = size]
             t == [q EXCEPT !.todo = K]
             u == [q EXCEPT !.draining = b, !.queued = size]
         IN  /\ OneOK(r, m) /\ r.life = q.life /\ r.gps = q.gps /\ r.next = k
             /\ OneOK(s, n) /\ s.life = q.life /\ s.gps = q.gps /\ s.next = q.next
             /\ OneOK(t, n) /\ t.life = q.life /\ t.gps = q.gps /\ t.next = q.next
             /\ OneOK(u, n) /\ u.life = q.life /\ u.gps = q.gps /\ u.next = q.next
<1>1. LET r == [q EXCEPT !.next = k]
      IN  OneOK(r, m) /\ r.life = q.life /\ r.gps = q.gps /\ r.next = k
  BY DEF OneOK, ControllerType
<1>2. LET s == [q EXCEPT !.queued = size]
      IN  OneOK(s, n) /\ s.life = q.life /\ s.gps = q.gps /\ s.next = q.next
  BY DEF OneOK, ControllerType
<1>3. LET t == [q EXCEPT !.todo = K]
      IN  OneOK(t, n) /\ t.life = q.life /\ t.gps = q.gps /\ t.next = q.next
  BY DEF OneOK, ControllerType
<1>4. LET u == [q EXCEPT !.draining = b, !.queued = size]
      IN  OneOK(u, n) /\ u.life = q.life /\ u.gps = q.gps /\ u.next = q.next
  BY DEF OneOK, ControllerType
<1> QED
  BY <1>1, <1>2, <1>3, <1>4

\* There is a greatest key.
LEMMA Greatest ==
  ASSUME NEW n \in Nat, NEW K \in SUBSET (0..n), K # {}
  PROVE  Last(K) \in K /\ \A j \in K : j <= Last(K)
<1> DEFINE T == {n - k : k \in K}
           R == OpToRel(<, Nat)
<1>1. T \subseteq Nat /\ T # {}
  OBVIOUS
<1>2. PICK x \in T : \A y \in T : ~(<<y, x>> \in R)
  <2> HIDE DEF T, R
  <2>1. IsWellFoundedOn(R, Nat)
    BY NatLessThanWellFounded DEF R
  <2> QED
    BY <1>1, <2>1, WFMin
<1>3. \A y \in T : ~(y < x)
  BY <1>1, <1>2 DEF OpToRel
<1>4. PICK k \in K : x = n - k
  BY <1>2
<1>5. \A j \in K : j <= k
  <2> SUFFICES ASSUME NEW j \in K PROVE j <= k
    OBVIOUS
  <2>1. ~(n - j < n - k)
    BY <1>3, <1>4
  <2> QED
    BY <2>1
<1>6. \E m \in K : \A j \in K : j <= m
  BY <1>5
<1> QED
  BY <1>6 DEF Last

\* The box has no more entries than there are fixes, and keys less than that.
LEMMA BoxSize ==
  ASSUME NEW b, NEW n \in 0..MaxFix, BoxOK(b, n)
  PROVE  /\ DOMAIN b \in SUBSET Key /\ Cardinality(DOMAIN b) \in 0..MaxFix
         /\ DOMAIN b # {} => Last(DOMAIN b) + 1 \in Key /\ Last(DOMAIN b) + 1 <= n
                             /\ \A k \in DOMAIN b : k < Last(DOMAIN b) + 1
         /\ 0 \in Key /\ 0 <= n
<1>1. n \in Nat /\ MaxFix \in Nat /\ n <= MaxFix
  BY LiveTripConstants
<1>2. \A k \in DOMAIN b : k \in 0..n - 1
  <2> SUFFICES ASSUME NEW k \in DOMAIN b PROVE k \in 0..n - 1
    OBVIOUS
  <2>1. k \in Nat /\ b[k] \in Nat /\ k < b[k] /\ b[k] <= n
    BY LiveTripConstants DEF BoxOK, Key, Fix
  <2> QED
    BY <2>1, <1>1
<1>3. IsFiniteSet(0..n - 1) /\ Cardinality(0..n - 1) = n
  <2>1. /\ IsFiniteSet(0..n - 1)
        /\ Cardinality(0..n - 1) = IF 0 > n - 1 THEN 0 ELSE (n - 1) - 0 + 1
    BY <1>1, FS_Interval
  <2> QED
    BY <2>1, <1>1
<1>4. IsFiniteSet(DOMAIN b) /\ Cardinality(DOMAIN b) <= n
  BY <1>2, <1>3, FS_Subset
<1>5. Cardinality(DOMAIN b) \in Nat
  BY <1>4, FS_CardinalityType
<1>6. ASSUME DOMAIN b # {}
      PROVE  Last(DOMAIN b) \in 0..n - 1 /\ \A k \in DOMAIN b : k <= Last(DOMAIN b)
  <2>1. DOMAIN b \in SUBSET (0..n)
    BY <1>1, <1>2
  <2>2. Last(DOMAIN b) \in DOMAIN b /\ \A k \in DOMAIN b : k <= Last(DOMAIN b)
    BY <1>1, <1>6, <2>1, Greatest
  <2> QED
    BY <1>2, <2>2
<1>7. DOMAIN b # {} => /\ Last(DOMAIN b) + 1 \in Key /\ Last(DOMAIN b) + 1 <= n
                       /\ \A k \in DOMAIN b : k < Last(DOMAIN b) + 1
  BY <1>1, <1>2, <1>6 DEF Key
<1> QED
  BY <1>1, <1>2, <1>4, <1>5, <1>7 DEF BoxOK, Key

\* A fix is captured: its number is the next.
LEMMA Capture ==
  ASSUME PastOK, NEW c \in Ctl, ctl[c].trip \in Trip, Count < MaxFix, Captured(c)
  PROVE  /\ Count \in Nat /\ Count + 1 \in Fix /\ Cardinality(Fixes) = Count
         /\ Count' = Count + 1 /\ Fixes' = 1..Count + 1
         /\ trip' \in [Fixes' -> Trip] /\ Count' \in 0..MaxFix
<1>1. Count \in Nat /\ MaxFix \in Nat /\ Fixes = 1..Count /\ Cardinality(Fixes) = Count
  BY LiveTripConstants DEF PastOK, Count
<1>2. trip' = [f \in Fixes \cup {Count + 1} |-> IF f \in Fixes THEN trip[f] ELSE ctl[c].trip]
  BY DEF Captured, Count
<1>3. Fixes' = 1..Count + 1
  BY <1>1, <1>2 DEF Fixes
<1>4. Cardinality(1..Count + 1) = Count + 1
  <2>1. Cardinality(1..Count + 1) = IF 1 > Count + 1 THEN 0 ELSE (Count + 1) - 1 + 1
    BY <1>1, FS_Interval
  <2> QED
    BY <2>1, <1>1
<1>5. Count' = Count + 1
  BY <1>3, <1>4 DEF Count
<1>6. trip' \in [Fixes' -> Trip]
  BY <1>1, <1>2, <1>3 DEF PastOK
<1> QED
  BY <1>1, <1>3, <1>5, <1>6 DEF Fix

\* Otherwise the fixes are as before.
LEMMA SameCount == UNCHANGED trip => Count' = Count /\ Fixes' = Fixes
BY DEF Count, Fixes

\* What is in the sinks and wires of all controllers.
Flying(w, s) == s \cup {f \in Fix : \E c \in Ctl : \E i \in 1..Len(w[c]) : w[c][i] = f}

\* A frame is added to a sink.
LEMMA SendsOK ==
  ASSUME NEW n \in Nat, NEW m \in Nat, n <= m, WireOK(wire, sunk, n),
         NEW c \in Ctl, NEW f \in Fix, f <= m, Sends(c, f)
  PROVE  /\ WireOK(wire', sunk', m)
         /\ Flying(wire, sunk) \cup {f} \subseteq Flying(wire', sunk')
<1>1. WireOK(wire, sunk, m)
  BY MoreOK
<1>2. CASE wire' = [wire EXCEPT ![c] = Append(@, f)] /\ sunk' = sunk
  <2>1. /\ wire' \in [Ctl -> Seq(Fix)] /\ wire'[c] = Append(wire[c], f)
        /\ \A d \in Ctl : d # c => wire'[d] = wire[d]
    BY <1>2 DEF WireOK
  <2>2. /\ wire[c] \in Seq(Fix) /\ Len(wire'[c]) = Len(wire[c]) + 1 /\ Len(wire[c]) \in Nat
        /\ wire'[c][Len(wire[c]) + 1] = f
        /\ \A i \in 1..Len(wire[c]) : wire'[c][i] = wire[c][i]
    BY <2>1 DEF WireOK
  <2>3. ASSUME NEW d \in Ctl, NEW i \in 1..Len(wire'[d])
        PROVE  wire'[d][i] <= m
    <3>1. CASE d # c
      BY <1>1, <2>1, <3>1 DEF WireOK
    <3>2. CASE d = c /\ i = Len(wire[c]) + 1
      BY <2>2, <3>2
    <3>3. CASE d = c /\ i # Len(wire[c]) + 1
      <4>1. i \in 1..Len(wire[c])
        BY <2>2, <3>3
      <4> QED
        BY <4>1, <3>3, <2>2, <1>1 DEF WireOK
    <3> QED
      BY <3>1, <3>2, <3>3
  <2>4. ASSUME NEW d \in Ctl, NEW i \in 1..Len(wire[d])
        PROVE  i \in 1..Len(wire'[d]) /\ wire'[d][i] = wire[d][i]
    <3>1. CASE d # c
      BY <2>1, <3>1
    <3>2. CASE d = c
      BY <2>2, <3>2
    <3> QED
      BY <3>1, <3>2
  <2>5. \E i \in 1..Len(wire'[c]) : wire'[c][i] = f
    BY <2>2
  <2> QED
    BY <1>1, <1>2, <2>1, <2>3, <2>4, <2>5 DEF WireOK, Flying
<1>3. CASE sunk' = sunk \cup {f} /\ wire' = wire
  <2>1. f \in 1..m
    BY LiveTripConstants DEF Fix
  <2> QED
    BY <1>1, <1>3, <2>1 DEF WireOK, Flying
<1> QED
  BY <1>2, <1>3 DEF Sends

\* What is under way is lost.
LEMMA LosesOK ==
  ASSUME NEW n \in Nat, WireOK(wire, sunk, n), NEW C \in SUBSET Ctl, Loses(C)
  PROVE  /\ WireOK(wire', sunk', n) /\ Flying(wire, sunk) \subseteq Flying(wire', sunk')
<1>1. /\ wire' = [c \in Ctl |-> IF c \in C THEN <<>> ELSE wire[c]]
      /\ sunk' = sunk \cup UNION {{wire[c][i] : i \in 1..Len(wire[c])} : c \in C}
  BY DEF Loses
<1>2. \A c \in Ctl : wire[c] \in Seq(Fix)
  BY DEF WireOK
<1>3. wire' \in [Ctl -> Seq(Fix)]
  BY <1>1, <1>2
<1>4. /\ \A c \in C : wire'[c] = <<>>
      /\ \A c \in Ctl : c \notin C => wire'[c] = wire[c]
  BY <1>1
<1>5. ASSUME NEW c \in C, NEW i \in 1..Len(wire[c])
      PROVE  wire[c][i] \in sunk' /\ wire[c][i] \in 1..n
  <2>1. wire[c][i] \in Fix /\ wire[c][i] <= n
    BY <1>2 DEF WireOK
  <2>2. wire[c][i] \in sunk'
    BY <1>1
  <2> QED
    BY <2>1, <2>2, LiveTripConstants DEF Fix
<1>6. sunk' \subseteq 1..n /\ sunk \subseteq sunk'
  <2>1. ASSUME NEW f \in sunk' PROVE f \in 1..n
    <3>1. CASE f \in sunk
      BY <3>1 DEF WireOK
    <3>2. CASE f \notin sunk
      <4>1. PICK c \in C : f \in {wire[c][i] : i \in 1..Len(wire[c])}
        BY <1>1, <2>1, <3>2
      <4>2. PICK i \in 1..Len(wire[c]) : f = wire[c][i]
        BY <4>1
      <4> QED
        BY <4>2, <1>5
    <3> QED
      BY <3>1, <3>2
  <2> QED
    BY <2>1, <1>1
<1>7. \A c \in Ctl : \A i \in 1..Len(wire'[c]) : wire'[c][i] <= n
  BY <1>4 DEF WireOK
<1>8. ASSUME NEW f \in Flying(wire, sunk) PROVE f \in Flying(wire', sunk')
  <2>1. CASE f \in sunk
    BY <2>1, <1>6 DEF Flying
  <2>2. CASE f \notin sunk
    <3>1. PICK c \in Ctl : f \in Fix /\ \E i \in 1..Len(wire[c]) : wire[c][i] = f
      BY <1>8, <2>2 DEF Flying
    <3>2. PICK i \in 1..Len(wire[c]) : wire[c][i] = f
      BY <3>1
    <3>3. CASE c \in C
      BY <3>2, <3>3, <1>5 DEF Flying
    <3>4. CASE c \notin C
      BY <3>1, <3>2, <3>4, <1>4 DEF Flying
    <3> QED
      BY <3>3, <3>4
  <2> QED
    BY <2>1, <2>2
<1> QED
  BY <1>3, <1>6, <1>7, <1>8 DEF WireOK

-----------------------------------------------------------------------------
(* The types and the numbers, step by step.                                *)

\* The steps by what they change.
LEMMA Steps ==
  ASSUME [Next]_vars
  PROVE  \/ UNCHANGED vars \/ Added \/ Evicted \/ Deleted \/ Kill
         \/ \E c \in Ctl, t \in Trip : Create(c, t)
         \/ \E c \in Ctl : \/ Bootstrap(c) \/ StartGps(c) \/ Dispose(c) \/ Collect(c)
                           \/ HandshakeDone(c) \/ Break(c) \/ NoticeDown(c) \/ Deliver(c)
                           \/ PublishLive(c) \/ Enqueue(c) \/ DrainNext(c) \/ DrainDone(c)
BY DEF Next, Life, Connection, Queue

\* Only a capture changes the fixes.
LEMMA FixStep ==
  ASSUME TInv, [Next]_vars
  PROVE  \/ UNCHANGED trip
         \/ \E c \in Ctl : /\ ctl[c].trip \in Trip /\ Count < MaxFix /\ Captured(c)
                           /\ PublishLive(c) \/ Enqueue(c)
<1>1. CASE UNCHANGED vars
  BY <1>1 DEF vars
<1>2. CASE Added \/ Evicted \/ Deleted \/ Kill
  BY <1>2 DEF Added, Evicted, Deleted, Kill, History
<1>3. CASE \E c \in Ctl, t \in Trip : Create(c, t)
  BY <1>3 DEF Create, History
<1>4. ASSUME NEW c \in Ctl,
             \/ Bootstrap(c) \/ StartGps(c) \/ Dispose(c) \/ Collect(c)
             \/ HandshakeDone(c) \/ Break(c) \/ NoticeDown(c) \/ Deliver(c)
             \/ DrainNext(c) \/ DrainDone(c)
      PROVE  UNCHANGED trip
  BY <1>4 DEF Bootstrap, StartGps, Dispose, Collect, HandshakeDone, Break, NoticeDown,
              Deliver, DrainNext, DrainDone, History
<1>5. ASSUME NEW c \in Ctl, PublishLive(c) \/ Enqueue(c)
      PROVE  ctl[c].trip \in Trip /\ Count < MaxFix /\ Captured(c)
  <2>1. ctl[c].gps = "on" /\ Count < MaxFix /\ Captured(c)
    BY <1>5 DEF PublishLive, Enqueue, Count
  <2>2. OneOK(ctl[c], Count)
    BY DEF TInv, CtlOK
  <2> QED
    BY <2>1, <2>2 DEF OneOK
<1> QED
  BY <1>1, <1>2, <1>3, <1>4, <1>5, Steps

\* There are no fewer fixes after a step.
LEMMA CountGrows ==
  ASSUME TInv, [Next]_vars
  PROVE  /\ Count \in Nat /\ Count' \in 0..MaxFix /\ Count' \in Nat /\ Count <= Count'
         /\ Fixes' = 1..Count' /\ Fixes \subseteq Fixes' /\ trip' \in [Fixes' -> Trip]
<1>1. Count \in 0..MaxFix /\ Count \in Nat /\ Fixes = 1..Count /\ trip \in [Fixes -> Trip]
      /\ PastOK
  BY LiveTripConstants DEF TInv, PastOK
<1>2. CASE UNCHANGED trip
  BY <1>1, <1>2, SameCount
<1>3. ASSUME NEW c \in Ctl, ctl[c].trip \in Trip, Count < MaxFix, Captured(c)
      PROVE  /\ Count' = Count + 1 /\ Fixes' = 1..Count + 1 /\ trip' \in [Fixes' -> Trip]
             /\ Count' \in 0..MaxFix
  BY <1>1, <1>3, Capture
<1> QED
  BY <1>1, <1>2, <1>3, FixStep, LiveTripConstants

\* The box, the file and the writes.
LEMMA FileStep ==
  ASSUME TInv, [Next]_vars
  PROVE  FileOK'
<1> DEFINE n == Count
           m == Count'
<1>1. /\ n \in Nat /\ m \in Nat /\ n <= m /\ m \in 0..MaxFix /\ n \in 0..MaxFix
      /\ BoxOK(box, n) /\ BoxOK(disk, n) /\ WritesOK(writes, n)
  BY CountGrows DEF TInv, FileOK, PastOK
<1>2. /\ BoxOK(box, m) /\ BoxOK(disk, m) /\ WritesOK(writes, m)
  BY <1>1, MoreOK
<1>3. SUFFICES BoxOK(box', m) /\ BoxOK(disk', m) /\ WritesOK(writes', m)
  BY DEF FileOK
<1> HIDE DEF n, m
<1>4. CASE UNCHANGED <<box, disk, writes>>
  BY <1>2, <1>4
<1>5. ASSUME NEW c \in Ctl, Enqueue(c)
      PROVE  BoxOK(box', m) /\ BoxOK(disk', m) /\ WritesOK(writes', m)
  <2> DEFINE k == ctl[c].next
             f == Count + 1
             w == Write(c, "put", {<<k, f>>})
  <2>1. OneOK(ctl[c], n) /\ PastOK
    BY DEF TInv, CtlOK, n
  <2>2. ctl[c].gps = "on" /\ Count < MaxFix /\ Captured(c) /\ Cardinality(Fixes) = Count
    BY <1>5 DEF Enqueue, Count
  <2>3. ctl[c].trip \in Trip /\ k \in Key /\ k <= n
    BY <2>1, <2>2 DEF OneOK, ControllerType
  <2>4. f \in Fix /\ m = f /\ k < f /\ n \in Nat /\ f = n + 1
    BY <2>1, <2>2, <2>3, Capture, LiveTripConstants DEF n, m, Key
  <2>5. box' = With(box, <<k, f>>) /\ writes' = Append(writes, w) /\ disk' = disk
    BY <1>5, <2>2 DEF Enqueue
  <2> HIDE DEF k, f
  <2>6. BoxOK(box', m)
    <3>1. f <= m
      BY <2>4
    <3>2. BoxOK(With(box, <<k, f>>), m)
      BY <1>1, <1>2, <2>3, <2>4, <3>1, WithOK
    <3> QED
      BY <3>2, <2>5
  <2>7. w \in Writing /\ w.op = "put" /\ w.entries = {<<k, f>>}
    BY <2>3, <2>4, PutType
  <2> HIDE DEF w
  <2>8. Numbered(w.entries, m)
    BY <2>4, <2>7, <1>1 DEF Numbered
  <2>9. WritesOK(writes', m)
    BY <1>2, <2>3, <2>4, <2>5, <2>7, <2>8, AppendOK
  <2> QED
    BY <1>2, <2>5, <2>6, <2>9
<1>6. CASE Added
  <2> DEFINE w == Head(writes)
             K == Oldest(Cardinality(Keys) - MaxEntries)
             v == Write(w.by, "evict", Entries(K))
  <2>1. /\ writes # <<>> /\ w.op = "put" /\ box' = Without(box, K)
        /\ disk' = With(disk, CHOOSE e \in w.entries : TRUE)
        /\ writes' = IF K = {} THEN Tail(writes) ELSE Append(Tail(writes), v)
    BY <1>6 DEF Added
  <2>2. K \in SUBSET Keys
    BY DEF Oldest
  <2>3. /\ WritesOK(Tail(writes), m) /\ w \in Writing /\ Numbered(w.entries, m)
        /\ \E k \in Key, f \in Fix : w.entries = {<<k, f>>}
    BY <1>2, <2>1, TailOK
  <2> HIDE DEF w, K
  <2>4. PICK k \in Key, f \in Fix : w.entries = {<<k, f>>}
    BY <2>3
  <2>5. (CHOOSE e \in w.entries : TRUE) = <<k, f>> /\ k < f /\ f <= m
    BY <2>3, <2>4 DEF Numbered
  <2>6. BoxOK(disk', m)
    <3>1. BoxOK(With(disk, <<k, f>>), m)
      BY <1>1, <1>2, <2>5, WithOK
    <3> QED
      BY <3>1, <2>1, <2>5
  <2>7. BoxOK(box', m)
    BY <1>2, <2>1, WithoutOK
  <2>8. w.by \in Ctl
    BY <2>3 DEF Writing
  <2>9. v \in Writing /\ v.op = "evict" /\ Numbered(v.entries, m)
    BY <1>2, <2>2, <2>8, DeleteType
  <2> HIDE DEF v
  <2>10. WritesOK(Append(Tail(writes), v), m)
    BY <2>3, <2>9, AppendOK
  <2> QED
    BY <2>1, <2>3, <2>6, <2>7, <2>10
<1>7. CASE Evicted \/ Deleted
  <2>1. /\ writes # <<>> /\ writes' = Tail(writes) /\ box' = box
        /\ \E K : disk' = Without(disk, K)
    BY <1>7 DEF Evicted, Deleted
  <2>2. PICK K : disk' = Without(disk, K)
    BY <2>1
  <2>3. BoxOK(Without(disk, K), m)
    BY <1>2, WithoutOK
  <2>4. WritesOK(Tail(writes), m)
    BY <1>2, <2>1, TailOK
  <2> QED
    BY <1>2, <2>1, <2>2, <2>3, <2>4
<1>8. ASSUME NEW c \in Ctl, DrainNext(c)
      PROVE  BoxOK(box', m) /\ BoxOK(disk', m) /\ WritesOK(writes', m)
  <2> DEFINE k == First(ctl[c].todo)
             w == Write(c, "drain", Entries({k}))
  <2>1. \/ UNCHANGED <<box, disk, writes>>
        \/ /\ k \in Keys /\ box' = Without(box, {k}) /\ disk' = disk
           /\ writes' = Append(writes, w)
    BY <1>8 DEF DrainNext
  <2> HIDE DEF k
  <2>2. ASSUME k \in Keys PROVE w \in Writing /\ w.op = "drain" /\ Numbered(w.entries, m)
    <3>1. {k} \in SUBSET Keys
      BY <2>2
    <3> QED
      BY <1>2, <3>1, DeleteType
  <2> HIDE DEF w
  <2>3. ASSUME k \in Keys PROVE WritesOK(Append(writes, w), m)
    BY <1>2, <2>2, <2>3, AppendOK
  <2>4. BoxOK(Without(box, {k}), m)
    BY <1>2, WithoutOK
  <2> QED
    BY <1>2, <2>1, <2>3, <2>4
<1>9. CASE Kill
  <2>1. box' = disk /\ disk' = disk /\ writes' = <<>>
    BY <1>9 DEF Kill
  <2>2. WritesOK(<<>>, m)
    BY DEF WritesOK, Singles
  <2> QED
    BY <1>2, <2>1, <2>2
<1>10. CASE UNCHANGED vars
  BY <1>4, <1>10 DEF vars
<1>11. CASE \E c \in Ctl, t \in Trip : Create(c, t)
  BY <1>4, <1>11 DEF Create, File
<1>12. ASSUME NEW c \in Ctl,
              \/ Bootstrap(c) \/ StartGps(c) \/ Dispose(c) \/ Collect(c)
              \/ HandshakeDone(c) \/ Break(c) \/ NoticeDown(c) \/ Deliver(c)
              \/ PublishLive(c) \/ DrainDone(c)
      PROVE  UNCHANGED <<box, disk, writes>>
  BY <1>12 DEF Bootstrap, StartGps, Dispose, Collect, HandshakeDone, Break, NoticeDown,
               Deliver, PublishLive, DrainDone, File
<1> QED
  BY <1>4, <1>5, <1>6, <1>7, <1>8, <1>9, <1>10, <1>11, <1>12, Steps

\* The wires.
LEMMA NetStep ==
  ASSUME TInv, [Next]_vars
  PROVE  NetOK'
<1> DEFINE n == Count
           m == Count'
<1>1. n \in Nat /\ m \in Nat /\ n <= m /\ WireOK(wire, sunk, n) /\ n \in 0..MaxFix
  BY CountGrows DEF TInv, NetOK, PastOK
<1>2. WireOK(wire, sunk, m)
  BY <1>1, MoreOK
<1>3. SUFFICES WireOK(wire', sunk', m)
  BY DEF NetOK
<1>4. CASE UNCHANGED <<wire, sunk>>
  BY <1>2, <1>4
<1>5. ASSUME NEW c \in Ctl, PublishLive(c)
      PROVE  WireOK(wire', sunk', m)
  <2>1. ctl[c].gps = "on" /\ Count < MaxFix /\ Captured(c) /\ Sends(c, Count + 1)
    BY <1>5 DEF PublishLive, Count
  <2>2. PastOK /\ ctl[c].trip \in Trip
    BY <2>1 DEF TInv, CtlOK, OneOK
  <2>3. m = n + 1 /\ n + 1 \in Fix
    BY <2>1, <2>2, Capture
  <2>4. Sends(c, n + 1)
    BY <2>1
  <2> HIDE DEF n, m
  <2>5. n + 1 <= m
    BY <1>1, <2>3
  <2> QED
    BY <1>1, <2>3, <2>4, <2>5, SendsOK
<1>6. ASSUME NEW c \in Ctl, DrainNext(c)
      PROVE  WireOK(wire', sunk', m)
  <2> DEFINE k == First(ctl[c].todo)
  <2>1. \/ UNCHANGED <<wire, sunk>>
        \/ k \in Keys /\ Sends(c, box[k])
    BY <1>6 DEF DrainNext, Net
  <2> HIDE DEF k
  <2>2. ASSUME k \in Keys
        PROVE  box[k] \in Fix /\ box[k] <= n
    BY <2>2 DEF TInv, FileOK, BoxOK, Keys
  <2>3. ASSUME k \in Keys, Sends(c, box[k])
        PROVE  WireOK(wire', sunk', m)
    <3>1. box[k] \in Fix /\ box[k] <= m
      BY <1>1, <2>2, <2>3, LiveTripConstants DEF Fix
    <3> HIDE DEF n, m
    <3> QED
      BY <1>1, <2>3, <3>1, SendsOK
  <2> QED
    BY <1>4, <2>1, <2>3
<1>7. ASSUME NEW C \in SUBSET Ctl, Loses(C)
      PROVE  WireOK(wire', sunk', m)
  <2> HIDE DEF m
  <2> QED
    BY <1>1, <1>2, <1>7, LosesOK
<1>8. CASE Kill
  BY <1>7, <1>8 DEF Kill
<1>9. ASSUME NEW c \in Ctl, Dispose(c) \/ Break(c)
      PROVE  WireOK(wire', sunk', m)
  <2>1. \E C \in SUBSET Ctl : Loses(C)
    BY <1>9 DEF Dispose, Break
  <2> QED
    BY <1>7, <2>1
<1>10. ASSUME NEW c \in Ctl, Deliver(c)
       PROVE  WireOK(wire', sunk', m)
  <2>1. wire[c] # <<>> /\ wire' = [wire EXCEPT ![c] = Tail(@)] /\ sunk' = sunk
    BY <1>10 DEF Deliver
  <2>2. wire \in [Ctl -> Seq(Fix)] /\ wire[c] \in Seq(Fix)
    BY <1>2 DEF WireOK
  <2>3. /\ wire' \in [Ctl -> Seq(Fix)] /\ wire'[c] = Tail(wire[c])
        /\ \A d \in Ctl : d # c => wire'[d] = wire[d]
    BY <2>1, <2>2
  <2>4. \A i \in 1..Len(wire'[c]) : i + 1 \in 1..Len(wire[c]) /\ wire'[c][i] = wire[c][i + 1]
    BY <2>1, <2>2, <2>3
  <2>5. ASSUME NEW d \in Ctl, NEW i \in 1..Len(wire'[d])
        PROVE  wire'[d][i] <= m
    BY <1>2, <2>3, <2>4 DEF WireOK
  <2> QED
    BY <1>2, <2>1, <2>3, <2>5 DEF WireOK
<1>11. CASE UNCHANGED vars
  BY <1>4, <1>11 DEF vars
<1>12. CASE Added \/ Evicted \/ Deleted
  BY <1>4, <1>12 DEF Added, Evicted, Deleted, Net
<1>13. CASE \E c \in Ctl, t \in Trip : Create(c, t)
  BY <1>4, <1>13 DEF Create, Net
<1>14. ASSUME NEW c \in Ctl,
              \/ Bootstrap(c) \/ StartGps(c) \/ Collect(c)
              \/ HandshakeDone(c) \/ NoticeDown(c) \/ Enqueue(c) \/ DrainDone(c)
       PROVE  UNCHANGED <<wire, sunk>>
  BY <1>14 DEF Bootstrap, StartGps, Collect, HandshakeDone, NoticeDown, Enqueue,
               DrainDone, Net
<1> QED
  BY <1>4, <1>5, <1>6, <1>8, <1>9, <1>10, <1>11, <1>12, <1>13, <1>14, Steps

\* The controllers.
LEMMA CtlStep ==
  ASSUME TInv, [Next]_vars
  PROVE  CtlOK'
<1> DEFINE n == Count
           m == Count'
           Good == DOMAIN ctl' = Ctl /\ ctl' = [c \in Ctl |-> ctl'[c]]
                   /\ \A c \in Ctl : OneOK(ctl'[c], m)
<1>1. /\ n \in Nat /\ m \in Nat /\ n <= m /\ n \in 0..MaxFix /\ CtlOK /\ BoxOK(box, n)
      /\ \A c \in Ctl : OneOK(ctl[c], n)
  BY CountGrows DEF TInv, CtlOK, FileOK, PastOK
<1>2. \A c \in Ctl : OneOK(ctl[c], m)
  BY <1>1, MoreOK
<1>3. SUFFICES Good
  BY DEF CtlOK
<1>4. CASE UNCHANGED ctl
  BY <1>1, <1>2, <1>4 DEF CtlOK
<1>5. ASSUME NEW c \in Ctl, NEW r, OneOK(r, m), ctl' = [ctl EXCEPT ![c] = r]
      PROVE  Good
  <2>1. /\ DOMAIN ctl' = Ctl /\ ctl' = [d \in Ctl |-> ctl'[d]]
        /\ ctl'[c] = r /\ \A d \in Ctl : d # c => ctl'[d] = ctl[d]
    BY <1>1, <1>5 DEF CtlOK
  <2> QED
    BY <2>1, <1>2, <1>5
<1>6. ASSUME NEW q, OneOK(q, n) PROVE OneOK(q, m)
  BY <1>1, <1>6, MoreOK
<1>7. /\ Cardinality(Keys) \in 0..MaxFix /\ Keys \in SUBSET Key
      /\ (IF Keys = {} THEN 0 ELSE Last(Keys) + 1) \in Key
      /\ (IF Keys = {} THEN 0 ELSE Last(Keys) + 1) <= n
  BY <1>1, BoxSize DEF Keys
<1> HIDE DEF Good, n, m
<1>8. ASSUME NEW c \in Ctl, NEW t \in Trip, Create(c, t)
      PROVE  Good
  BY <1>1, <1>5, <1>8, CreateType DEF Create
<1>9. ASSUME NEW c \in Ctl, Bootstrap(c)
      PROVE  Good
  <2> DEFINE k == IF Keys = {} THEN 0 ELSE Last(Keys) + 1
             r == [ctl[c] EXCEPT !.life = "live", !.gps = "starting", !.socket = "handshake",
                                 !.connected = TRUE, !.draining = Keys # {}, !.todo = Keys,
                                 !.next = k, !.queued = Cardinality(Keys)]
  <2>1. ctl' = [ctl EXCEPT ![c] = r] /\ ctl[c].life # "none"
    BY <1>9 DEF Bootstrap
  <2>2. OneOK(r, n)
    <3>1. (Keys # {}) \in BOOLEAN /\ k \in Key /\ k <= n
      BY <1>7
    <3> HIDE DEF k
    <3> QED
      BY <1>1, <1>7, <2>1, <3>1, BootstrapType
  <2> HIDE DEF r
  <2> QED
    BY <2>1, <2>2, <1>5, <1>6
<1>10. ASSUME NEW c \in Ctl, StartGps(c)
       PROVE  Good
  <2>1. PICK g \in {"on", "off"} : ctl' = [ctl EXCEPT ![c].gps = g] /\ ctl[c].gps = "starting"
    BY <1>10 DEF StartGps
  <2> DEFINE r == [ctl[c] EXCEPT !.gps = g]
  <2>2. ctl' = [ctl EXCEPT ![c] = r]
    BY <2>1
  <2>3. OneOK(r, n)
    BY <1>1, <2>1, GpsType
  <2> HIDE DEF r
  <2> QED
    BY <2>2, <2>3, <1>5, <1>6
<1>11. ASSUME NEW c \in Ctl, Dispose(c)
       PROVE  Good
  <2> DEFINE g == IF ctl[c].gps = "starting" THEN "starting" ELSE "off"
             r == [ctl[c] EXCEPT !.life = "disposed", !.socket = "closed", !.gps = g]
  <2>1. ctl' = [ctl EXCEPT ![c] = r] /\ ctl[c].life # "none"
    BY <1>11 DEF Dispose
  <2>2. g \in {"off", "starting", "on"}
    OBVIOUS
  <2> HIDE DEF g
  <2>3. OneOK(r, n)
    BY <1>1, <2>1, <2>2, DisposeType
  <2> HIDE DEF r
  <2> QED
    BY <2>1, <2>3, <1>5, <1>6
<1>12. ASSUME NEW c \in Ctl, Collect(c)
       PROVE  Good
  BY <1>1, <1>5, <1>12, DeadOK DEF Collect
<1>13. ASSUME NEW c \in Ctl, HandshakeDone(c) \/ Break(c)
       PROVE  Good
  <2>1. PICK s \in {"open", "dead", "gone"} :
          ctl' = [ctl EXCEPT ![c].socket = s] /\ ctl[c].socket # "none"
    BY <1>13 DEF HandshakeDone, Break
  <2> DEFINE r == [ctl[c] EXCEPT !.socket = s]
  <2>2. ctl' = [ctl EXCEPT ![c] = r]
    BY <2>1
  <2>3. OneOK(r, n)
    BY <1>1, <2>1, SocketType
  <2> HIDE DEF r
  <2> QED
    BY <2>2, <2>3, <1>5, <1>6
<1>14. ASSUME NEW c \in Ctl, NoticeDown(c)
       PROVE  Good
  <2> DEFINE r == [ctl[c] EXCEPT !.socket = "gone", !.connected = FALSE]
  <2>1. ctl' = [ctl EXCEPT ![c] = r] /\ ctl[c].socket # "none"
    BY <1>14 DEF NoticeDown
  <2>2. OneOK(r, n)
    BY <1>1, <2>1, SocketType
  <2> HIDE DEF r
  <2> QED
    BY <2>1, <2>2, <1>5, <1>6
<1>15. ASSUME NEW c \in Ctl, Enqueue(c)
       PROVE  Good
  <2> DEFINE k == ctl[c].next
             r == [ctl[c] EXCEPT !.next = k + 1]
  <2>1. /\ ctl' = [ctl EXCEPT ![c] = r]
        /\ ctl[c].gps = "on" /\ Count < MaxFix /\ Captured(c) /\ OneOK(ctl[c], n)
    BY <1>1, <1>15 DEF Enqueue, Count
  <2>2. PastOK /\ ctl[c].trip \in Trip /\ k \in Key /\ k <= n
    BY <2>1 DEF TInv, OneOK, ControllerType
  <2>3. m = n + 1 /\ n < MaxFix
    BY <2>1, <2>2, Capture DEF n, m
  <2> HIDE DEF k
  <2>4. k + 1 \in Key /\ k + 1 <= m
    BY <1>1, <2>2, <2>3, LiveTripConstants DEF Key
  <2>5. OneOK(r, m)
    BY <1>1, <2>1, <2>4, <1>7, QueueType
  <2> HIDE DEF r
  <2> QED
    BY <2>1, <2>5, <1>5
<1>16. ASSUME NEW c \in Ctl, Shows(c, box)
       PROVE  Good
  <2> DEFINE r == [ctl[c] EXCEPT !.queued = Cardinality(Keys)]
  <2>1. ctl' = [ctl EXCEPT ![c] = r]
    BY <1>16 DEF Shows, Keys
  <2>2. OneOK(r, n)
    BY <1>1, <1>7, QueueType
  <2> HIDE DEF r
  <2> QED
    BY <2>1, <2>2, <1>5, <1>6
<1>17. CASE Added \/ Evicted
  <2>1. /\ writes # <<>>
        /\ Shows(Head(writes).by, box) \/ UNCHANGED ctl
    BY <1>17 DEF Added, Evicted
  <2>2. Head(writes) \in Writing
    BY <2>1, TailOK DEF TInv, FileOK
  <2>3. Head(writes).by \in Ctl
    BY <2>2 DEF Writing
  <2> QED
    BY <2>1, <2>3, <1>4, <1>16
<1>18. ASSUME NEW c \in Ctl, DrainNext(c)
       PROVE  Good
  <2>1. OneOK(ctl[c], n) /\ ctl[c].todo \in SUBSET Key
    BY <1>1 DEF OneOK, ControllerType
  <2>2. PICK K \in SUBSET Key : ctl' = [ctl EXCEPT ![c].todo = K]
    <3>1. \/ ctl' = [ctl EXCEPT ![c].todo = @ \ {First(ctl[c].todo)}]
          \/ ctl' = [ctl EXCEPT ![c].todo = {}]
      BY <1>18 DEF DrainNext
    <3>2. \/ ctl' = [ctl EXCEPT ![c].todo = ctl[c].todo \ {First(ctl[c].todo)}]
          \/ ctl' = [ctl EXCEPT ![c].todo = {}]
      BY <3>1
    <3> QED
      BY <2>1, <3>2
  <2> DEFINE r == [ctl[c] EXCEPT !.todo = K]
  <2>3. ctl' = [ctl EXCEPT ![c] = r]
    BY <2>2
  <2>4. OneOK(r, n)
    BY <1>1, <2>1, <1>7, QueueType
  <2> HIDE DEF r
  <2> QED
    BY <2>3, <2>4, <1>5, <1>6
<1>19. ASSUME NEW c \in Ctl, DrainDone(c)
       PROVE  Good
  <2> DEFINE r == [ctl[c] EXCEPT !.draining = FALSE, !.queued = Cardinality(Keys)]
  <2>1. ctl' = [ctl EXCEPT ![c] = r]
    BY <1>19 DEF DrainDone
  <2>2. OneOK(r, n)
    BY <1>1, <1>7, QueueType
  <2> HIDE DEF r
  <2> QED
    BY <2>1, <2>2, <1>5, <1>6
<1>20. CASE Kill
  BY <1>20, <1>1, DeadOK DEF Kill, Good
<1>21. CASE Deleted \/ UNCHANGED vars
  BY <1>4, <1>21 DEF Deleted, vars
<1>22. ASSUME NEW c \in Ctl, Deliver(c) \/ PublishLive(c)
       PROVE  Good
  BY <1>4, <1>22 DEF Deliver, PublishLive
<1> QED
  BY <1>8, <1>9, <1>10, <1>11, <1>12, <1>13, <1>14, <1>15, <1>17, <1>18, <1>19,
     <1>20, <1>21, <1>22, Steps

\* The rest.
LEMMA PastStep ==
  ASSUME TInv, [Next]_vars
  PROVE  PastOK'
<1>1. /\ Count' \in 0..MaxFix /\ Fixes' = 1..Count' /\ Fixes \subseteq Fixes'
      /\ trip' \in [Fixes' -> Trip]
  BY CountGrows
<1>2. PastOK /\ FileOK /\ NetOK /\ CtlOK
  BY DEF TInv
<1>3. SUFFICES /\ saved' \subseteq Fixes' /\ evicted' \subseteq Fixes'
               /\ stored' \in [Trip -> SUBSET Fixes']
               /\ copies' \in [Fix -> Nat] /\ kills' \in 0..MaxKills
  BY <1>1 DEF PastOK
<1>4. /\ saved \subseteq Fixes' /\ evicted \subseteq Fixes'
      /\ stored \in [Trip -> SUBSET Fixes']
      /\ copies \in [Fix -> Nat] /\ kills \in 0..MaxKills
  <2>1. stored \in [Trip -> SUBSET Fixes']
    BY <1>1, <1>2 DEF PastOK
  <2> QED
    BY <1>1, <1>2, <2>1 DEF PastOK
<1>5. CASE UNCHANGED <<saved, evicted, stored, copies, kills>>
  BY <1>4, <1>5
<1>6. ASSUME NEW f \in Fix, f <= Count PROVE f \in Fixes'
  <2>1. f \in Nat /\ f >= 1 /\ Count \in Nat /\ Fixes = 1..Count
    BY <1>2, LiveTripConstants DEF Fix, PastOK
  <2>2. f \in Fixes
    BY <1>6, <2>1
  <2> QED
    BY <1>1, <2>2
<1>7. CASE Added
  <2> DEFINE w == Head(writes)
             K == Oldest(Cardinality(Keys) - MaxEntries)
  <2>1. /\ writes # <<>> /\ w.op = "put" /\ saved' = saved \cup {e[2] : e \in w.entries}
        /\ evicted' = evicted \cup {box[k] : k \in K}
        /\ UNCHANGED <<stored, copies, kills>>
    BY <1>7 DEF Added, Backend
  <2>2. Numbered(w.entries, Count) /\ w \in Writing
    BY <1>2, <2>1, TailOK DEF FileOK
  <2>3. ASSUME NEW e \in w.entries PROVE e[2] \in Fixes'
    <3>1. e[2] \in Fix /\ e[2] <= Count
      BY <2>2 DEF Numbered, Writing
    <3> QED
      BY <3>1, <1>6
  <2>4. ASSUME NEW k \in K PROVE box[k] \in Fixes'
    <3>1. k \in Keys
      BY DEF Oldest
    <3>2. box[k] \in Fix /\ box[k] <= Count
      BY <1>2, <3>1 DEF FileOK, BoxOK, Keys
    <3> QED
      BY <3>2, <1>6
  <2> HIDE DEF w, K
  <2>5. saved' \subseteq Fixes'
    BY <1>4, <2>1, <2>3
  <2>6. evicted' \subseteq Fixes'
    BY <1>4, <2>1, <2>4
  <2> QED
    BY <1>4, <2>1, <2>5, <2>6
<1>8. ASSUME NEW c \in Ctl, Deliver(c)
      PROVE  /\ UNCHANGED <<saved, evicted, kills>>
             /\ stored' \in [Trip -> SUBSET Fixes'] /\ copies' \in [Fix -> Nat]
  <2> DEFINE f == Head(wire[c])
             t == ctl[c].trip
  <2>1. /\ wire[c] # <<>> /\ stored' = [stored EXCEPT ![t] = @ \cup {f}]
        /\ copies' = [copies EXCEPT ![f] = @ + 1] /\ UNCHANGED <<saved, evicted, kills>>
    BY <1>8 DEF Deliver, History
  <2>2. wire[c] \in Seq(Fix) /\ \A i \in 1..Len(wire[c]) : wire[c][i] <= Count
    BY <1>2 DEF NetOK, WireOK
  <2>3. f \in Fix /\ f <= Count
    BY <2>1, <2>2
  <2>4. f \in Fixes'
    BY <2>3, <1>6
  <2> HIDE DEF f, t
  <2>5. stored' \in [Trip -> SUBSET Fixes']
    BY <1>4, <2>1, <2>4
  <2>6. copies' \in [Fix -> Nat]
    BY <1>4, <2>1, <2>3
  <2> QED
    BY <2>1, <2>5, <2>6
<1>9. CASE Kill
  <2>1. kills < MaxKills /\ kills' = kills + 1
        /\ UNCHANGED <<saved, evicted, stored, copies>>
    BY <1>9 DEF Kill, History, Backend
  <2> QED
    BY <1>4, <2>1, LiveTripConstants
<1>10. CASE UNCHANGED vars
  BY <1>5, <1>10 DEF vars
<1>11. CASE Evicted \/ Deleted
  BY <1>5, <1>11 DEF Evicted, Deleted, History, Backend
<1>12. CASE \E c \in Ctl, t \in Trip : Create(c, t)
  BY <1>5, <1>12 DEF Create, History, Backend
<1>13. ASSUME NEW c \in Ctl,
              \/ Bootstrap(c) \/ StartGps(c) \/ Dispose(c) \/ Collect(c)
              \/ HandshakeDone(c) \/ Break(c) \/ NoticeDown(c)
              \/ PublishLive(c) \/ Enqueue(c) \/ DrainNext(c) \/ DrainDone(c)
       PROVE  UNCHANGED <<saved, evicted, stored, copies, kills>>
  BY <1>13 DEF Bootstrap, StartGps, Dispose, Collect, HandshakeDone, Break, NoticeDown,
               PublishLive, Enqueue, DrainNext, DrainDone, History, Backend
<1> QED
  BY <1>4, <1>5, <1>7, <1>8, <1>9, <1>10, <1>11, <1>12, <1>13, Steps

\* The first state.
LEMMA TypeInit == ASSUME Init PROVE TInv
<1>1. Count = 0 /\ Fixes = {} /\ {} = 1..0
  BY FS_EmptySet DEF Init, Count, Fixes
<1>2. BoxOK(box, 0) /\ BoxOK(disk, 0)
  BY DEF Init, BoxOK
<1>3. WritesOK(writes, 0)
  BY DEF Init, WritesOK, Singles
<1>4. CtlOK
  BY <1>1, DeadOK DEF Init, CtlOK
<1>5. WireOK(wire, sunk, 0)
  BY DEF Init, WireOK
<1>6. PastOK
  BY <1>1, LiveTripConstants DEF Init, PastOK
<1> QED
  BY <1>1, <1>2, <1>3, <1>4, <1>5, <1>6 DEF TInv, FileOK, NetOK

\* All of it.
LEMMA TypeStep == ASSUME TInv, [Next]_vars PROVE TInv'
BY FileStep, NetStep, CtlStep, PastStep DEF TInv

-----------------------------------------------------------------------------
(* One screen at a time.                                                   *)

\* It alone is opened or live, has a GPS and a next key that is free.
LEMMA TurnStep ==
  ASSUME TInv, InTurn, TurnInv, [Next]_vars
  PROVE  TurnInv'
<1> DEFINE Up(q) == q.life \in {"opening", "live"}
           Fine(q, d) == /\ q.gps # "off" => q.life = "live"
                         /\ q.life = "live" => \A k \in d : k < q.next
<1>1. /\ \A c, d \in Ctl : Up(ctl[c]) /\ Up(ctl[d]) => c = d
      /\ \A c \in Ctl : Fine(ctl[c], Keys)
  BY DEF TurnInv
<1>2. /\ CtlOK /\ BoxOK(box, Count) /\ Count \in 0..MaxFix /\ DOMAIN ctl = Ctl
      /\ \A c \in Ctl : OneOK(ctl[c], Count) /\ Keys \in SUBSET Key
  BY DEF TInv, CtlOK, FileOK, PastOK, BoxOK, Keys
<1>3. SUFFICES /\ \A c, d \in Ctl : Up(ctl'[c]) /\ Up(ctl'[d]) => c = d
               /\ \A c \in Ctl : Fine(ctl'[c], Keys')
  BY DEF TurnInv
<1> HIDE DEF Up, Fine
\* A step that leaves the box, or deletes from it, and brings nobody up.
<1>4. ASSUME Keys' \subseteq Keys,
             \A c \in Ctl :
               \/ ctl'[c].life = ctl[c].life /\ ctl'[c].next = ctl[c].next
                  /\ (ctl'[c].gps # "off" => ctl[c].gps # "off")
               \/ ctl'[c].life \notin {"opening", "live"} /\ ctl'[c].gps = "off"
      PROVE  /\ \A c, d \in Ctl : Up(ctl'[c]) /\ Up(ctl'[d]) => c = d
             /\ \A c \in Ctl : Fine(ctl'[c], Keys')
  <2>1. \A c \in Ctl : Up(ctl'[c]) => Up(ctl[c])
    BY <1>4 DEF Up
  <2>2. ASSUME NEW c \in Ctl PROVE Fine(ctl'[c], Keys')
    <3>1. Fine(ctl[c], Keys)
      BY <1>1
    <3>2. CASE ctl'[c].life = ctl[c].life /\ ctl'[c].next = ctl[c].next
               /\ (ctl'[c].gps # "off" => ctl[c].gps # "off")
      BY <1>4, <3>1, <3>2 DEF Fine
    <3>3. CASE ctl'[c].life \notin {"opening", "live"} /\ ctl'[c].gps = "off"
      BY <3>3 DEF Fine
    <3> QED
      BY <1>4, <3>2, <3>3
  <2> QED
    BY <1>1, <2>1, <2>2
<1>5. ASSUME NEW c \in Ctl, NEW r, ctl' = [ctl EXCEPT ![c] = r]
      PROVE  ctl'[c] = r /\ \A d \in Ctl : d # c => ctl'[d] = ctl[d]
  BY <1>2, <1>5
\* The record of one controller changes and it stays as it is here.
<1>6. ASSUME Keys' \subseteq Keys, NEW c \in Ctl, NEW r, ctl' = [ctl EXCEPT ![c] = r],
             \/ r.life = ctl[c].life /\ r.next = ctl[c].next
                /\ (r.gps # "off" => ctl[c].gps # "off")
             \/ r.life \notin {"opening", "live"} /\ r.gps = "off"
      PROVE  /\ \A d, e \in Ctl : Up(ctl'[d]) /\ Up(ctl'[e]) => d = e
             /\ \A d \in Ctl : Fine(ctl'[d], Keys')
  BY <1>4, <1>5, <1>6
<1>7. ASSUME NEW c \in Ctl, NEW t \in Trip, Create(c, t)
      PROVE  /\ \A d, e \in Ctl : Up(ctl'[d]) /\ Up(ctl'[e]) => d = e
             /\ \A d \in Ctl : Fine(ctl'[d], Keys')
  <2> DEFINE r == [Dead EXCEPT !.trip = t, !.life = "opening"]
  <2>1. ctl' = [ctl EXCEPT ![c] = r] /\ box' = box
        /\ \A d \in Ctl : ~Up(ctl[d])
    BY <1>7 DEF Create, InTurn, Up
  <2>2. r.life = "opening" /\ r.gps = "off"
    BY <1>2, CreateType
  <2> HIDE DEF r
  <2>3. ctl'[c] = r /\ (\A d \in Ctl : d # c => ctl'[d] = ctl[d]) /\ Keys' = Keys
    BY <2>1, <1>5 DEF Keys
  <2>4. Fine(ctl'[c], Keys')
    BY <2>2, <2>3 DEF Fine
  <2> QED
    BY <2>1, <2>3, <2>4, <1>1
<1>8. ASSUME NEW c \in Ctl, Bootstrap(c)
      PROVE  /\ \A d, e \in Ctl : Up(ctl'[d]) /\ Up(ctl'[e]) => d = e
             /\ \A d \in Ctl : Fine(ctl'[d], Keys')
  <2> DEFINE k == IF Keys = {} THEN 0 ELSE Last(Keys) + 1
             r == [ctl[c] EXCEPT !.life = "live", !.gps = "starting", !.socket = "handshake",
                                 !.connected = TRUE, !.draining = Keys # {}, !.todo = Keys,
                                 !.next = k, !.queued = Cardinality(Keys)]
  <2>1. ctl' = [ctl EXCEPT ![c] = r] /\ ctl[c].life = "opening" /\ box' = box
    BY <1>8 DEF Bootstrap
  <2>2. /\ k \in Key /\ k <= Count /\ Cardinality(Keys) \in 0..MaxFix
        /\ \A j \in Keys : j < k
    BY <1>2, BoxSize DEF Keys
  <2> HIDE DEF k
  <2>3. r.life = "live" /\ r.next = k
    BY <1>2 DEF OneOK, ControllerType
  <2> HIDE DEF r
  <2>4. ctl'[c] = r /\ (\A d \in Ctl : d # c => ctl'[d] = ctl[d]) /\ Keys' = Keys
    BY <2>1, <1>5 DEF Keys
  <2>5. Fine(ctl'[c], Keys')
    BY <2>2, <2>3, <2>4 DEF Fine
  <2>6. \A d \in Ctl : Up(ctl'[d]) => Up(ctl[d])
    BY <2>1, <2>4 DEF Up
  <2> QED
    BY <2>4, <2>5, <2>6, <1>1
<1>9. ASSUME NEW c \in Ctl, Enqueue(c)
      PROVE  /\ \A d, e \in Ctl : Up(ctl'[d]) /\ Up(ctl'[e]) => d = e
             /\ \A d \in Ctl : Fine(ctl'[d], Keys')
  <2> DEFINE k == ctl[c].next
             r == [ctl[c] EXCEPT !.next = k + 1]
  <2>1. /\ ctl' = [ctl EXCEPT ![c] = r] /\ ctl[c].gps = "on"
        /\ box' = With(box, <<k, Cardinality(Fixes) + 1>>)
    BY <1>9 DEF Enqueue
  <2>2. k \in Nat /\ r.life = ctl[c].life /\ r.next = k + 1
    BY <1>2, LiveTripConstants DEF OneOK, ControllerType, Key
  <2> HIDE DEF k, r
  <2>3. ctl[c].life = "live" /\ Up(ctl[c]) /\ \A j \in Keys : j < k
    BY <1>1, <2>1 DEF Fine, Up, k
  <2>4. Keys' = Keys \cup {k}
    BY <2>1 DEF With, Keys
  <2>5. ctl'[c] = r /\ \A d \in Ctl : d # c => ctl'[d] = ctl[d]
    BY <2>1, <1>5
  <2>6. \A j \in Keys' : j < k + 1
    BY <1>2, <2>2, <2>3, <2>4, LiveTripConstants DEF Key
  <2>7. Fine(ctl'[c], Keys')
    BY <2>2, <2>3, <2>5, <2>6 DEF Fine
  <2>8. \A d \in Ctl : Up(ctl'[d]) => Up(ctl[d])
    BY <2>2, <2>5 DEF Up
  <2>9. ASSUME NEW d \in Ctl, d # c PROVE Fine(ctl'[d], Keys')
    <3>1. ~Up(ctl[d]) /\ Fine(ctl[d], Keys) /\ ctl'[d] = ctl[d]
      BY <1>1, <2>3, <2>5, <2>9
    <3> QED
      BY <3>1 DEF Up, Fine
  <2> QED
    BY <2>7, <2>8, <2>9, <1>1
<1>10. CASE Kill
  <2>1. ctl' = [c \in Ctl |-> Dead]
    BY <1>10 DEF Kill
  <2>2. \A c \in Ctl : ctl'[c].life = "none" /\ ctl'[c].gps = "off"
    BY <2>1, DeadOK
  <2> QED
    BY <2>2 DEF Up, Fine
<1>11. ASSUME NEW c \in Ctl, Collect(c)
       PROVE  /\ \A d, e \in Ctl : Up(ctl'[d]) /\ Up(ctl'[e]) => d = e
              /\ \A d \in Ctl : Fine(ctl'[d], Keys')
  BY <1>6, <1>11, DeadOK DEF Collect, Keys
<1>12. ASSUME NEW c \in Ctl, Dispose(c)
       PROVE  /\ \A d, e \in Ctl : Up(ctl'[d]) /\ Up(ctl'[e]) => d = e
              /\ \A d \in Ctl : Fine(ctl'[d], Keys')
  <2> DEFINE g == IF ctl[c].gps = "starting" THEN "starting" ELSE "off"
             r == [ctl[c] EXCEPT !.life = "disposed", !.socket = "closed", !.gps = g]
  <2>1. /\ ctl' = [ctl EXCEPT ![c] = r] /\ ctl[c].life = "live" /\ box' = box
        /\ ctl[c].gps # "starting"
    BY <1>12 DEF Dispose, InTurn
  <2>2. g = "off"
    BY <2>1
  <2> HIDE DEF g
  <2>3. r.life = "disposed" /\ r.gps = "off"
    BY <1>2, <2>2 DEF OneOK, ControllerType
  <2> HIDE DEF r
  <2> QED
    BY <2>1, <2>3, <1>6 DEF Keys
<1>13. ASSUME NEW c \in Ctl, StartGps(c)
       PROVE  /\ \A d, e \in Ctl : Up(ctl'[d]) /\ Up(ctl'[e]) => d = e
              /\ \A d \in Ctl : Fine(ctl'[d], Keys')
  <2>1. PICK g \in {"on", "off"} : ctl' = [ctl EXCEPT ![c].gps = g] /\ ctl[c].gps = "starting"
    BY <1>13 DEF StartGps
  <2> DEFINE r == [ctl[c] EXCEPT !.gps = g]
  <2>2. ctl' = [ctl EXCEPT ![c] = r] /\ Keys' = Keys
    BY <1>13, <2>1 DEF StartGps, Keys
  <2>3. r.life = ctl[c].life /\ r.next = ctl[c].next
    BY <1>2, <2>1, GpsType
  <2> HIDE DEF r
  <2> QED
    BY <2>1, <2>2, <2>3, <1>6
<1>14. ASSUME NEW c \in Ctl, HandshakeDone(c) \/ Break(c) \/ NoticeDown(c)
       PROVE  /\ \A d, e \in Ctl : Up(ctl'[d]) /\ Up(ctl'[e]) => d = e
              /\ \A d \in Ctl : Fine(ctl'[d], Keys')
  <2>1. PICK s \in {"open", "dead", "gone"} :
          /\ \/ ctl' = [ctl EXCEPT ![c].socket = s]
             \/ ctl' = [ctl EXCEPT ![c].socket = s, ![c].connected = FALSE]
          /\ ctl[c].socket # "none" /\ box' = box
    BY <1>14 DEF HandshakeDone, Break, NoticeDown
  <2> DEFINE r == [ctl[c] EXCEPT !.socket = s]
             p == [ctl[c] EXCEPT !.socket = s, !.connected = FALSE]
  <2>2. /\ ctl' = [ctl EXCEPT ![c] = r] \/ ctl' = [ctl EXCEPT ![c] = p]
        /\ Keys' = Keys
    BY <2>1 DEF Keys
  <2>3. /\ r.life = ctl[c].life /\ r.next = ctl[c].next /\ r.gps = ctl[c].gps
        /\ p.life = ctl[c].life /\ p.next = ctl[c].next /\ p.gps = ctl[c].gps
    BY <1>2 DEF OneOK, ControllerType
  <2> HIDE DEF r, p
  <2> QED
    BY <2>2, <2>3, <1>6
<1>15. ASSUME NEW c \in Ctl, NEW r, ctl' = [ctl EXCEPT ![c] = r], Keys' \subseteq Keys,
              r.life = ctl[c].life, r.next = ctl[c].next, r.gps = ctl[c].gps
       PROVE  /\ \A d, e \in Ctl : Up(ctl'[d]) /\ Up(ctl'[e]) => d = e
              /\ \A d \in Ctl : Fine(ctl'[d], Keys')
  BY <1>6, <1>15
<1>16. CASE UNCHANGED ctl /\ Keys' \subseteq Keys
  BY <1>4, <1>16
<1>17. Cardinality(Keys) \in 0..MaxFix
  BY <1>2, BoxSize DEF Keys
<1>18. CASE Added \/ Evicted
  <2>1. /\ writes # <<>> /\ Keys' \subseteq Keys
        /\ Shows(Head(writes).by, box) \/ UNCHANGED ctl
    BY <1>18 DEF Added, Evicted, Without, Keys
  <2>2. Head(writes) \in Writing
    BY <2>1, TailOK DEF TInv, FileOK
  <2> DEFINE c == Head(writes).by
             r == [ctl[c] EXCEPT !.queued = Cardinality(Keys)]
  <2>3. c \in Ctl
    BY <2>2 DEF Writing
  <2> HIDE DEF c
  <2>4. CASE Shows(c, box)
    <3>1. ctl' = [ctl EXCEPT ![c] = r]
      BY <2>4 DEF Shows, Keys
    <3>2. r.life = ctl[c].life /\ r.next = ctl[c].next /\ r.gps = ctl[c].gps
      BY <2>3, <1>2 DEF OneOK, ControllerType
    <3> HIDE DEF r
    <3> QED
      BY <2>1, <2>3, <3>1, <3>2, <1>15
  <2> QED
    BY <2>1, <2>4, <1>16 DEF c
<1>19. ASSUME NEW c \in Ctl, DrainNext(c)
       PROVE  /\ \A d, e \in Ctl : Up(ctl'[d]) /\ Up(ctl'[e]) => d = e
              /\ \A d \in Ctl : Fine(ctl'[d], Keys')
  <2>1. Keys' \subseteq Keys
    BY <1>19 DEF DrainNext, Without, Keys
  <2>2. \/ ctl' = [ctl EXCEPT ![c].todo = @ \ {First(ctl[c].todo)}]
        \/ ctl' = [ctl EXCEPT ![c].todo = {}]
    BY <1>19 DEF DrainNext
  <2>3. PICK K : ctl' = [ctl EXCEPT ![c].todo = K]
    BY <2>2
  <2> DEFINE r == [ctl[c] EXCEPT !.todo = K]
  <2>4. ctl' = [ctl EXCEPT ![c] = r]
    BY <2>3
  <2>5. r.life = ctl[c].life /\ r.next = ctl[c].next /\ r.gps = ctl[c].gps
    BY <1>2 DEF OneOK, ControllerType
  <2> HIDE DEF r
  <2> QED
    BY <2>1, <2>4, <2>5, <1>15
<1>20. ASSUME NEW c \in Ctl, DrainDone(c)
       PROVE  /\ \A d, e \in Ctl : Up(ctl'[d]) /\ Up(ctl'[e]) => d = e
              /\ \A d \in Ctl : Fine(ctl'[d], Keys')
  <2> DEFINE r == [ctl[c] EXCEPT !.draining = FALSE, !.queued = Cardinality(Keys)]
  <2>1. ctl' = [ctl EXCEPT ![c] = r] /\ Keys' = Keys
    BY <1>20 DEF DrainDone, Keys
  <2>2. r.life = ctl[c].life /\ r.next = ctl[c].next /\ r.gps = ctl[c].gps
    BY <1>2 DEF OneOK, ControllerType
  <2> HIDE DEF r
  <2> QED
    BY <2>1, <2>2, <1>15
<1>21. CASE Deleted \/ UNCHANGED vars
  <2>1. UNCHANGED ctl /\ Keys' \subseteq Keys
    BY <1>21 DEF Deleted, vars, Keys
  <2> QED
    BY <2>1, <1>16
<1>22. ASSUME NEW c \in Ctl, Deliver(c) \/ PublishLive(c)
       PROVE  UNCHANGED ctl /\ Keys' \subseteq Keys
  BY <1>22 DEF Deliver, PublishLive, Keys
<1> QED
  BY <1>7, <1>8, <1>9, <1>10, <1>11, <1>12, <1>13, <1>14, <1>16, <1>18, <1>19, <1>20,
     <1>21, <1>22, Steps

\* The box is what the file will be when all is written.
LEMMA CatchesStep ==
  ASSUME TInv, InTurn, TurnInv, FileInv(disk, writes, box), [Next]_vars
  PROVE  FileInv(disk', writes', box')
<1>1. /\ writes \in Seq(Writing) /\ WritesOK(writes, Count) /\ BoxOK(box, Count)
      /\ BoxOK(disk, Count) /\ Count \in Nat /\ Keys \in SUBSET Key
      /\ DOMAIN disk \subseteq Key /\ disk \in [DOMAIN disk -> Fix]
  BY CountGrows DEF TInv, FileOK, WritesOK, BoxOK, Keys
<1>2. CASE UNCHANGED <<box, disk, writes>>
  BY <1>2
<1>3. ASSUME NEW c \in Ctl, Enqueue(c)
      PROVE  FileInv(disk', writes', box')
  <2> DEFINE k == ctl[c].next
             f == Count + 1
             w == Write(c, "put", {<<k, f>>})
  <2>1. /\ ctl[c].gps = "on" /\ Captured(c) /\ disk' = disk /\ Count < MaxFix
        /\ box' = With(box, <<k, f>>) /\ writes' = Append(writes, w)
    BY <1>3 DEF Enqueue, Count
  <2>2. OneOK(ctl[c], Count) /\ PastOK
    BY DEF TInv, CtlOK
  <2>3. k \in Key /\ f \in Fix
    BY <2>1, <2>2, Capture DEF OneOK, ControllerType
  <2>4. \A j \in DOMAIN box : j < k
    BY <2>1 DEF TurnInv, Keys
  <2>5. ASSUME NEW i \in 0..Len(writes), NEW j \in Key, NEW g \in Fix,
               Born(disk, writes, i, j, g)
        PROVE  g < f
    <3>1. g <= Count
      <4>1. CASE i = 0
        BY <4>1, <2>5, <1>1, Places DEF Born, BoxOK
      <4>2. CASE i # 0
        <5>1. i \in 1..Len(writes) /\ <<j, g>> \in writes[i].entries
          BY <4>2, <2>5 DEF Born
        <5>2. Numbered(writes[i].entries, Count)
          BY <1>1, <5>1 DEF WritesOK
        <5> QED
          BY <5>1, <5>2 DEF Numbered
      <4> QED
        BY <4>1, <4>2
    <3> QED
      BY <3>1, <1>1, LiveTripConstants DEF Fix
  <2>6. w \in Writing /\ w.op = "put" /\ w.entries = {<<k, f>>}
    BY <2>3, PutType
  <2> HIDE DEF k, f, w
  <2>7. FileInv(disk, Append(writes, w), With(box, <<k, f>>))
    BY <1>1, <2>3, <2>4, <2>5, <2>6, PutAdded
  <2> QED
    BY <2>1, <2>7
<1>4. CASE Added
  <2> DEFINE w == Head(writes)
             K == Oldest(Cardinality(Keys) - MaxEntries)
             v == Write(w.by, "evict", Entries(K))
  <2>1. /\ writes # <<>> /\ w.op = "put" /\ box' = Without(box, K)
        /\ disk' = With(disk, CHOOSE e \in w.entries : TRUE)
        /\ writes' = IF K = {} THEN Tail(writes) ELSE Append(Tail(writes), v)
    BY <1>4 DEF Added
  <2>2. K \in SUBSET Keys
    BY DEF Oldest
  <2>3. /\ w = writes[1] /\ w \in Writing
        /\ \E k \in Key, f \in Fix : w.entries = {<<k, f>>}
    BY <1>1, <2>1, TailOK
  <2>4. Tail(writes) \in Seq(Writing)
    BY <1>1, <2>1, Places
  <2> HIDE DEF w, K
  <2>5. PICK k \in Key, f \in Fix : w.entries = {<<k, f>>}
    BY <2>3
  <2>6. disk' = With(disk, <<k, f>>)
    BY <2>1, <2>5
  <2>7. FileInv(disk', Tail(writes), box)
    BY <1>1, <2>1, <2>3, <2>5, <2>6, PutApplies
  <2>8. w.by \in Ctl
    BY <2>3 DEF Writing
  <2>9. v \in Writing /\ v.op = "evict" /\ v.entries = {<<j, box[j]>> : j \in K}
    BY <1>1, <2>2, <2>8, DeleteType
  <2> HIDE DEF v
  <2>10. FileInv(disk', Append(Tail(writes), v), Without(box, K))
    <3>1. v.op # "put" /\ K \in SUBSET DOMAIN box
      BY <2>2, <2>9 DEF Keys
    <3> QED
      BY <2>4, <2>7, <2>9, <3>1, DeletesAdded
  <2>11. K = {} => box' = box
    BY <1>1, <2>1, WithoutOK
  <2> QED
    BY <2>1, <2>7, <2>10, <2>11
<1>5. CASE Evicted \/ Deleted
  <2>1. /\ writes # <<>> /\ writes' = Tail(writes) /\ box' = box
        /\ Head(writes).op # "put"
        /\ disk' = Without(disk, {e[1] : e \in Head(writes).entries})
    BY <1>5 DEF Evicted, Deleted
  <2>2. Head(writes) = writes[1]
    BY <1>1, <2>1, Places
  <2>3. FileInv(Without(disk, {e[1] : e \in writes[1].entries}), Tail(writes), box)
    BY <1>1, <2>1, <2>2, DeletesApply
  <2> QED
    BY <2>1, <2>2, <2>3
<1>6. ASSUME NEW c \in Ctl, DrainNext(c)
      PROVE  FileInv(disk', writes', box')
  <2> DEFINE k == First(ctl[c].todo)
             w == Write(c, "drain", Entries({k}))
  <2>1. \/ UNCHANGED <<box, disk, writes>>
        \/ /\ k \in Keys /\ box' = Without(box, {k}) /\ disk' = disk
           /\ writes' = Append(writes, w)
    BY <1>6 DEF DrainNext
  <2> HIDE DEF k
  <2>2. ASSUME k \in Keys
        PROVE  FileInv(disk, Append(writes, w), Without(box, {k}))
    <3>1. {k} \in SUBSET Keys /\ {k} \in SUBSET DOMAIN box
      BY <2>2 DEF Keys
    <3>2. w \in Writing /\ w.op = "drain" /\ w.entries = {<<j, box[j]>> : j \in {k}}
      BY <1>1, <3>1, DeleteType
    <3> HIDE DEF w
    <3>3. w.op # "put"
      BY <3>2
    <3> QED
      BY <1>1, <3>1, <3>2, <3>3, DeletesAdded
  <2> HIDE DEF w
  <2> QED
    BY <1>2, <2>1, <2>2
<1>7. CASE Kill
  <2>1. box' = disk /\ disk' = disk /\ writes' = <<>>
    BY <1>7 DEF Kill
  <2>2. FileInv(disk, <<>>, disk)
    BY <1>1, Reloaded
  <2> QED
    BY <2>1, <2>2
<1>8. CASE UNCHANGED vars
  BY <1>2, <1>8 DEF vars
<1>9. CASE \E c \in Ctl, t \in Trip : Create(c, t)
  BY <1>2, <1>9 DEF Create, File
<1>10. ASSUME NEW c \in Ctl,
              \/ Bootstrap(c) \/ StartGps(c) \/ Dispose(c) \/ Collect(c)
              \/ HandshakeDone(c) \/ Break(c) \/ NoticeDown(c) \/ Deliver(c)
              \/ PublishLive(c) \/ DrainDone(c)
       PROVE  UNCHANGED <<box, disk, writes>>
  BY <1>10 DEF Bootstrap, StartGps, Dispose, Collect, HandshakeDone, Break, NoticeDown,
               Deliver, PublishLive, DrainDone, File
<1> QED
  BY <1>2, <1>3, <1>4, <1>5, <1>6, <1>7, <1>8, <1>9, <1>10, Steps

-----------------------------------------------------------------------------
(* No frame is lost.                                                       *)

\* Frames of which a put is to be written.
Pending(ws) ==
  {f \in Fix : \E i \in 1..Len(ws) : ws[i].op = "put" /\ \E e \in ws[i].entries : e[2] = f}

\* KeptInv in terms of it.
LEMMA KeptPending ==
  ASSUME writes \in Seq(Writing)
  PROVE  KeptInv <=> \A f \in Pending(writes) : f \in Kept /\ f \notin saved
<1>1. ASSUME KeptInv, NEW f \in Pending(writes) PROVE f \in Kept /\ f \notin saved
  BY <1>1 DEF KeptInv, Pending
<1>2. ASSUME \A f \in Pending(writes) : f \in Kept /\ f \notin saved,
             NEW i \in 1..Len(writes), writes[i].op = "put", NEW e \in writes[i].entries
      PROVE  e[2] \in Kept /\ e[2] \notin saved
  <2>1. writes[i] \in Writing
    BY Places
  <2>2. e[2] \in Fix
    BY <2>1 DEF Writing
  <2>3. e[2] \in Pending(writes)
    BY <2>2, <1>2 DEF Pending
  <2> QED
    BY <2>3, <1>2
<1> QED
  BY <1>1, <1>2 DEF KeptInv

\* The same of the next state.
LEMMA KeptPendingNext ==
  ASSUME writes' \in Seq(Writing), \A f \in Pending(writes') : f \in Kept' /\ f \notin saved'
  PROVE  KeptInv'
<1>1. ASSUME NEW i \in 1..Len(writes'), writes'[i].op = "put", NEW e \in writes'[i].entries
      PROVE  e[2] \in Kept' /\ e[2] \notin saved'
  <2>1. writes'[i] \in Writing
    BY Places
  <2>2. e[2] \in Fix
    BY <2>1 DEF Writing
  <2>3. e[2] \in Pending(writes')
    BY <2>2, <1>1 DEF Pending
  <2> QED
    BY <2>3
<1> QED
  BY <1>1 DEF KeptInv

\* A write is done.
LEMMA PendingTail ==
  ASSUME NEW ws \in Seq(Writing), ws # <<>>
  PROVE  Pending(Tail(ws)) \subseteq Pending(ws)
<1>1. \A i \in 1..Len(Tail(ws)) : i + 1 \in 1..Len(ws) /\ Tail(ws)[i] = ws[i + 1]
  BY Places
<1> QED
  BY <1>1 DEF Pending

\* One is added.
LEMMA PendingAppend ==
  ASSUME NEW ws \in Seq(Writing), NEW w \in Writing, NEW f \in Pending(Append(ws, w))
  PROVE  f \in Pending(ws) \/ (w.op = "put" /\ \E e \in w.entries : e[2] = f)
<1> DEFINE vs == Append(ws, w)
<1>1. /\ Len(vs) = Len(ws) + 1 /\ Len(ws) \in Nat /\ vs[Len(ws) + 1] = w
      /\ \A i \in 1..Len(ws) : vs[i] = ws[i]
  BY Places
<1> HIDE DEF vs
<1>2. PICK i \in 1..Len(vs) : vs[i].op = "put" /\ \E e \in vs[i].entries : e[2] = f
  BY DEF Pending, vs
<1>3. f \in Fix
  BY DEF Pending
<1>4. CASE i = Len(ws) + 1
  BY <1>1, <1>2, <1>4
<1>5. CASE i # Len(ws) + 1
  <2>1. i \in 1..Len(ws)
    BY <1>1, <1>5
  <2> QED
    BY <2>1, <1>1, <1>2, <1>3 DEF Pending
<1> QED
  BY <1>4, <1>5

\* The frame of a put that is done is not in another.
LEMMA PendingOnce ==
  ASSUME NEW d, NEW ws \in Seq(Writing), ws # <<>>, Ordered(d, ws), Singles(ws),
         NEW k \in Key, NEW f \in Fix, ws[1].op = "put", ws[1].entries = {<<k, f>>}
  PROVE  f \notin Pending(Tail(ws))
<1> SUFFICES ASSUME f \in Pending(Tail(ws)) PROVE FALSE
  OBVIOUS
<1>1. /\ Len(ws) >= 1 /\ Len(ws) \in Nat /\ Len(Tail(ws)) = Len(ws) - 1
      /\ \A i \in 1..Len(ws) - 1 : Tail(ws)[i] = ws[i + 1]
  BY Places
<1>2. PICK i \in 1..Len(Tail(ws)) :
        Tail(ws)[i].op = "put" /\ \E e \in Tail(ws)[i].entries : e[2] = f
  BY DEF Pending
<1>3. i + 1 \in 0..Len(ws) /\ i + 1 \in 1..Len(ws) /\ 1 < i + 1 /\ ws[i + 1].op = "put"
      /\ \E e \in ws[i + 1].entries : e[2] = f
  BY <1>1, <1>2
<1>4. PICK l \in Key, g \in Fix : ws[i + 1].entries = {<<l, g>>}
  BY <1>3 DEF Singles
<1>5. g = f /\ <<l, f>> \in ws[i + 1].entries
  BY <1>3, <1>4
<1>6. 1 \in 0..Len(ws) /\ Born(d, ws, 1, k, f) /\ Born(d, ws, i + 1, l, f)
  BY <1>1, <1>3, <1>5 DEF Born
<1>7. 1 = i + 1
  BY <1>3, <1>6, OneBirth
<1> QED
  BY <1>3, <1>7

\* What is evicted, under way, sunk, in the box or stored.
LEMMA KeptIs ==
  /\ Kept = evicted \cup Flying(wire, sunk) \cup InBox \cup Reached
  /\ Kept' = evicted' \cup Flying(wire', sunk') \cup InBox' \cup Reached'
BY DEF Kept, Carried, Flying

\* But for a kill, no step loses what is kept.
LEMMA KeptGrows ==
  ASSUME TInv, InTurn, TurnInv, [Next]_vars, ~Kill
  PROVE  Kept \subseteq Kept'
<1>1. /\ Count \in Nat /\ WireOK(wire, sunk, Count) /\ BoxOK(box, Count)
      /\ \A c \in Ctl : OneOK(ctl[c], Count)
      /\ stored \in [Trip -> SUBSET Fixes]
  BY CountGrows DEF TInv, NetOK, FileOK, CtlOK, PastOK
<1>2. ASSUME evicted \subseteq evicted', Flying(wire, sunk) \subseteq Flying(wire', sunk'),
             InBox \subseteq InBox' \cup evicted' \cup Flying(wire', sunk'), stored' = stored
      PROVE  Kept \subseteq Kept'
  <2>1. Reached' = Reached
    BY <1>2 DEF Reached
  <2> QED
    BY <1>2, <2>1, KeptIs
<1>3. CASE UNCHANGED <<evicted, wire, sunk, box, stored>>
  BY <1>3, <1>2 DEF InBox, Keys
<1>4. ASSUME NEW C \in SUBSET Ctl, Loses(C), UNCHANGED <<evicted, box, stored>>
      PROVE  Kept \subseteq Kept'
  <2>1. Flying(wire, sunk) \subseteq Flying(wire', sunk')
    BY <1>1, <1>4, LosesOK
  <2> QED
    BY <1>2, <1>4, <2>1 DEF InBox, Keys
<1>5. ASSUME NEW c \in Ctl, Dispose(c) \/ Break(c)
      PROVE  Kept \subseteq Kept'
  <2>1. \E C \in SUBSET Ctl : Loses(C)
    BY <1>5 DEF Dispose, Break
  <2>2. UNCHANGED <<evicted, box, stored>>
    BY <1>5 DEF Dispose, Break, History, Backend
  <2> QED
    BY <1>4, <2>1, <2>2
<1>6. ASSUME NEW c \in Ctl, Deliver(c)
      PROVE  Kept \subseteq Kept'
  <2> DEFINE f == Head(wire[c])
             t == ctl[c].trip
  <2>1. /\ wire[c] # <<>> /\ wire' = [wire EXCEPT ![c] = Tail(@)] /\ ctl[c].socket # "none"
        /\ stored' = [stored EXCEPT ![t] = @ \cup {f}] /\ UNCHANGED <<evicted, sunk, box>>
    BY <1>6 DEF Deliver, History
  <2>2. t \in Trip /\ wire[c] \in Seq(Fix)
    BY <1>1, <2>1 DEF OneOK, WireOK
  <2> HIDE DEF f, t
  <2>3. /\ f \in stored'[t] /\ DOMAIN stored = Trip /\ DOMAIN stored' = Trip
        /\ \A u \in Trip : stored[u] \subseteq stored'[u]
    BY <1>1, <2>1, <2>2
  <2>4. f \in Reached' /\ Reached \subseteq Reached'
    BY <2>2, <2>3 DEF Reached
  <2>5. /\ wire'[c] = Tail(wire[c]) /\ \A d \in Ctl : d # c => wire'[d] = wire[d]
    BY <1>1, <2>1 DEF WireOK
  <2>6. ASSUME NEW g \in Flying(wire, sunk) PROVE g \in Flying(wire', sunk') \cup {f}
    <3>1. CASE g \in sunk
      BY <3>1, <2>1 DEF Flying
    <3>2. CASE g \notin sunk
      <4>1. g \in Fix /\ \E d \in Ctl : \E i \in 1..Len(wire[d]) : wire[d][i] = g
        BY <2>6, <3>2 DEF Flying
      <4>2. PICK d \in Ctl : \E i \in 1..Len(wire[d]) : wire[d][i] = g
        BY <4>1
      <4>3. PICK i \in 1..Len(wire[d]) : wire[d][i] = g
        BY <4>2
      <4>4. CASE d # c
        BY <4>1, <4>3, <4>4, <2>5 DEF Flying
      <4>5. CASE d = c /\ i = 1
        BY <4>3, <4>5, <2>1, <2>2 DEF f
      <4>6. CASE d = c /\ i # 1
        <5>1. i - 1 \in 1..Len(wire'[c]) /\ wire'[c][i - 1] = g
          <6>1. wire'[c] = Tail(wire[c]) /\ i \in 2..Len(wire[c]) /\ wire[c][i] = g
            BY <4>3, <4>6, <2>5
          <6> QED
            BY <6>1, <2>1, <2>2
        <5> QED
          BY <4>1, <5>1 DEF Flying
      <4> QED
        BY <4>4, <4>5, <4>6
    <3> QED
      BY <3>1, <3>2
  <2>7. InBox' = InBox
    BY <2>1 DEF InBox, Keys
  <2> QED
    BY <2>1, <2>4, <2>6, <2>7, KeptIs
<1>7. ASSUME NEW c \in Ctl, PublishLive(c)
      PROVE  Kept \subseteq Kept'
  <2>1. /\ ctl[c].gps = "on" /\ Count < MaxFix /\ Captured(c) /\ Sends(c, Count + 1)
        /\ UNCHANGED <<box, evicted, stored>>
    BY <1>7 DEF PublishLive, Count, Backend
  <2>2. PastOK /\ ctl[c].trip \in Trip
    BY <1>1, <2>1 DEF TInv, OneOK
  <2>3. Count + 1 \in Fix
    BY <2>1, <2>2, Capture
  <2>4. Flying(wire, sunk) \subseteq Flying(wire', sunk')
    <3>1. Count + 1 \in Nat /\ Count <= Count + 1 /\ Count + 1 <= Count + 1
      BY <1>1
    <3> QED
      BY <1>1, <2>1, <2>3, <3>1, SendsOK
  <2> QED
    BY <1>2, <2>1, <2>4 DEF InBox, Keys
<1>8. ASSUME NEW c \in Ctl, Enqueue(c)
      PROVE  Kept \subseteq Kept'
  <2> DEFINE k == ctl[c].next
  <2>1. /\ ctl[c].gps = "on" /\ box' = With(box, <<k, Cardinality(Fixes) + 1>>)
        /\ UNCHANGED <<evicted, wire, sunk, stored>>
    BY <1>8 DEF Enqueue, Net, Backend
  <2>2. k \notin Keys
    <3>1. \A j \in Keys : j < k
      BY <2>1 DEF TurnInv
    <3>2. k \in Key
      BY <1>1 DEF OneOK, ControllerType
    <3> QED
      BY <3>1, <3>2, LiveTripConstants DEF Key
  <2>3. \A j \in Keys : j \in Keys' /\ box'[j] = box[j]
    BY <2>1, <2>2 DEF With, Keys
  <2>4. InBox \subseteq InBox'
    BY <2>3 DEF InBox
  <2> QED
    BY <1>2, <2>1, <2>4
<1>9. CASE Added
  <2> DEFINE K == Oldest(Cardinality(Keys) - MaxEntries)
  <2>1. /\ box' = Without(box, K) /\ evicted' = evicted \cup {box[k] : k \in K}
        /\ UNCHANGED <<wire, sunk, stored>>
    BY <1>9 DEF Added, Net, Backend
  <2> HIDE DEF K
  <2>2. \A j \in Keys : j \notin K => j \in Keys' /\ box'[j] = box[j]
    BY <2>1 DEF Without, Keys
  <2>3. InBox \subseteq InBox' \cup evicted'
    BY <2>1, <2>2 DEF InBox
  <2> QED
    BY <1>2, <2>1, <2>3
<1>10. ASSUME NEW c \in Ctl, DrainNext(c)
       PROVE  Kept \subseteq Kept'
  <2> DEFINE k == First(ctl[c].todo)
  <2>1. /\ \/ UNCHANGED <<wire, sunk, box>>
           \/ k \in Keys /\ Sends(c, box[k]) /\ box' = Without(box, {k})
        /\ UNCHANGED <<evicted, stored>>
    BY <1>10 DEF DrainNext, Net, History, Backend
  <2> HIDE DEF k
  <2>2. CASE UNCHANGED <<wire, sunk, box>>
    BY <2>1, <2>2, <1>3
  <2>3. CASE k \in Keys /\ Sends(c, box[k]) /\ box' = Without(box, {k})
    <3>1. box[k] \in Fix /\ box[k] <= Count
      BY <1>1, <2>3 DEF BoxOK, Keys
    <3>2. Flying(wire, sunk) \cup {box[k]} \subseteq Flying(wire', sunk')
      <4>1. Count <= Count
        BY <1>1
      <4> QED
        BY <1>1, <2>3, <3>1, <4>1, SendsOK
    <3>3. \A j \in Keys : j # k => j \in Keys' /\ box'[j] = box[j]
      BY <2>3 DEF Without, Keys
    <3>4. InBox \subseteq InBox' \cup {box[k]}
      BY <3>3 DEF InBox
    <3> QED
      BY <1>2, <2>1, <3>2, <3>4
  <2> QED
    BY <2>1, <2>2, <2>3
<1>11. CASE UNCHANGED vars
  BY <1>3, <1>11 DEF vars
<1>12. CASE Evicted \/ Deleted
  BY <1>3, <1>12 DEF Evicted, Deleted, Net, History, Backend
<1>13. CASE \E c \in Ctl, t \in Trip : Create(c, t)
  BY <1>3, <1>13 DEF Create, Net, History, Backend
<1>14. ASSUME NEW c \in Ctl,
              \/ Bootstrap(c) \/ StartGps(c) \/ Collect(c)
              \/ HandshakeDone(c) \/ NoticeDown(c) \/ DrainDone(c)
       PROVE  UNCHANGED <<evicted, wire, sunk, box, stored>>
  BY <1>14 DEF Bootstrap, StartGps, Collect, HandshakeDone, NoticeDown, DrainDone,
               Net, History, Backend
<1> QED
  BY <1>3, <1>5, <1>6, <1>7, <1>8, <1>9, <1>10, <1>11, <1>12, <1>13, <1>14, Steps

\* A kill loses no frame that is saved: in the file it is in the box again.
LEMMA KeptByKill ==
  ASSUME TInv, FileInv(disk, writes, box), KeptInv, NoFrameLost, Kill
  PROVE  saved \subseteq Kept'
<1>1. /\ box' = disk /\ Loses(Ctl) /\ UNCHANGED <<evicted, stored>>
  BY DEF Kill, History, Backend
<1>2. /\ writes \in Seq(Writing) /\ BoxOK(box, Count) /\ BoxOK(disk, Count)
      /\ WireOK(wire, sunk, Count) /\ Count \in Nat
  BY LiveTripConstants DEF TInv, FileOK, WritesOK, NetOK, PastOK
<1>3. Flying(wire, sunk) \subseteq Flying(wire', sunk')
  <2>1. Ctl \in SUBSET Ctl
    OBVIOUS
  <2> QED
    BY <1>1, <1>2, <2>1, LosesOK
<1>4. evicted' = evicted /\ Reached' = Reached
  BY <1>1 DEF Reached
<1>5. ASSUME NEW f \in saved, f \in InBox PROVE f \in InBox'
  <2>1. PICK k \in Keys : box[k] = f
    BY <1>5 DEF InBox
  <2>2. k \in Key /\ f \in Fix /\ k \in DOMAIN box
    BY <1>2, <2>1 DEF BoxOK, Keys
  <2>3. PICK i \in 0..Len(writes) : Born(disk, writes, i, k, f)
    BY <2>1, <2>2 DEF FileInv, Catches
  <2>4. CASE i = 0
    BY <2>3, <2>4, <1>1, Places, <1>2 DEF Born, InBox, Keys
  <2>5. CASE i # 0
    <3>1. i \in 1..Len(writes) /\ writes[i].op = "put" /\ <<k, f>> \in writes[i].entries
      BY <2>3, <2>5 DEF Born
    <3>2. <<k, f>>[2] \notin saved
      BY <3>1 DEF KeptInv
    <3> QED
      BY <3>2, <1>5
  <2> QED
    BY <2>4, <2>5
<1> QED
  BY <1>3, <1>4, <1>5, KeptIs DEF NoFrameLost, Kept

\* The frames that are saved and those to be written are kept.
LEMMA KeptStep ==
  ASSUME TInv, InTurn, TurnInv, FileInv(disk, writes, box), KeptInv, NoFrameLost,
         [Next]_vars
  PROVE  KeptInv' /\ NoFrameLost'
<1>1. /\ writes \in Seq(Writing) /\ WritesOK(writes, Count) /\ BoxOK(box, Count)
      /\ writes' \in Seq(Writing) /\ Count \in Nat /\ saved \subseteq Fixes
      /\ Fixes = 1..Count
  BY CountGrows, FileStep DEF TInv, FileOK, WritesOK, PastOK
<1>2. /\ \A f \in Pending(writes) : f \in Kept /\ f \notin saved
      /\ saved \subseteq Kept
  BY <1>1, KeptPending DEF NoFrameLost, Kept
<1>3. ~Kill => Kept \subseteq Kept'
  BY KeptGrows
<1>4. ASSUME \A f \in Pending(writes') : f \in Kept' /\ f \notin saved', saved' \subseteq Kept'
      PROVE  KeptInv' /\ NoFrameLost'
  <2>1. KeptInv'
    BY <1>1, <1>4, KeptPendingNext
  <2>2. NoFrameLost'
    BY <1>4 DEF NoFrameLost, Kept
  <2> QED
    BY <2>1, <2>2
<1>5. CASE Kill
  <2>1. writes' = <<>> /\ saved' = saved
    BY <1>5 DEF Kill, History
  <2>2. Pending(writes') = {}
    BY <2>1 DEF Pending
  <2>3. saved' \subseteq Kept'
    BY <1>5, <2>1, KeptByKill
  <2> QED
    BY <1>4, <2>2, <2>3
<1>6. CASE ~Kill /\ saved' = saved /\ Pending(writes') \subseteq Pending(writes)
  BY <1>2, <1>3, <1>4, <1>6
<1>7. ASSUME ~Kill, NEW c \in Ctl, Enqueue(c)
      PROVE  KeptInv' /\ NoFrameLost'
  <2> DEFINE k == ctl[c].next
             f == Count + 1
             w == Write(c, "put", {<<k, f>>})
  <2>1. /\ ctl[c].gps = "on" /\ Captured(c) /\ Count < MaxFix /\ saved' = saved
        /\ box' = With(box, <<k, f>>) /\ writes' = Append(writes, w)
    BY <1>7 DEF Enqueue, Count
  <2>2. OneOK(ctl[c], Count) /\ PastOK
    BY DEF TInv, CtlOK
  <2>3. k \in Key /\ f \in Fix
    BY <2>1, <2>2, Capture DEF OneOK, ControllerType
  <2>4. w \in Writing /\ w.op = "put" /\ w.entries = {<<k, f>>}
    BY <2>3, PutType
  <2>5. f \notin saved
    BY <1>1
  <2> HIDE DEF k, f, w
  <2>6. k \in Keys' /\ box'[k] = f
    BY <2>1 DEF With, Keys
  <2>7. f \in Kept'
    BY <2>6 DEF Kept, InBox
  <2>8. ASSUME NEW g \in Pending(writes') PROVE g \in Pending(writes) \/ g = f
    BY <1>1, <2>1, <2>4, <2>8, PendingAppend
  <2>9. saved' \subseteq Kept' /\ \A g \in Pending(writes') : g \in Kept' /\ g \notin saved'
    BY <1>2, <1>3, <1>7, <2>1, <2>5, <2>7, <2>8
  <2> QED
    BY <1>4, <2>9
<1>8. ASSUME ~Kill, Added
      PROVE  KeptInv' /\ NoFrameLost'
  <2> DEFINE w == Head(writes)
             K == Oldest(Cardinality(Keys) - MaxEntries)
             v == Write(w.by, "evict", Entries(K))
  <2>1. /\ writes # <<>> /\ w.op = "put" /\ saved' = saved \cup {e[2] : e \in w.entries}
        /\ writes' = IF K = {} THEN Tail(writes) ELSE Append(Tail(writes), v)
    BY <1>8 DEF Added
  <2>2. K \in SUBSET Keys
    BY DEF Oldest
  <2>3. /\ w = writes[1] /\ w \in Writing /\ Tail(writes) \in Seq(Writing) /\ 1 \in 1..Len(writes)
        /\ \E k \in Key, f \in Fix : w.entries = {<<k, f>>}
    <3>1. /\ w = writes[1] /\ w \in Writing
          /\ \E k \in Key, f \in Fix : w.entries = {<<k, f>>}
      BY <1>1, <2>1, TailOK
    <3>2. Tail(writes) \in Seq(Writing) /\ Len(writes) >= 1 /\ Len(writes) \in Nat
      BY <1>1, <2>1, Places
    <3> QED
      BY <3>1, <3>2
  <2> HIDE DEF w, K
  <2>4. PICK k \in Key, f \in Fix : w.entries = {<<k, f>>}
    BY <2>3
  <2>5. w.by \in Ctl
    BY <2>3 DEF Writing
  <2>6. v \in Writing /\ v.op = "evict"
    BY <1>1, <2>2, <2>5, DeleteType
  <2> HIDE DEF v
  <2>7. saved' = saved \cup {f}
    BY <2>1, <2>4
  <2>8. f \in Pending(writes)
    <3>1. writes[1].op = "put" /\ <<k, f>> \in writes[1].entries /\ <<k, f>>[2] = f
      BY <2>1, <2>3, <2>4
    <3> QED
      BY <2>3, <3>1 DEF Pending
  <2>9. f \notin Pending(Tail(writes))
    BY <1>1, <2>1, <2>3, <2>4, PendingOnce DEF FileInv, WritesOK
  <2>10. ASSUME NEW g \in Pending(writes')
         PROVE  g \in Pending(writes) /\ g # f
    <3>1. g \in Pending(Tail(writes))
      <4>1. ASSUME writes' = Append(Tail(writes), v)
            PROVE  g \in Pending(Tail(writes))
        <5>1. g \in Pending(Append(Tail(writes), v))
          BY <4>1, <2>10
        <5>2. v.op # "put"
          BY <2>6
        <5> QED
          BY <5>1, <5>2, <2>3, <2>6, PendingAppend
      <4> QED
        BY <4>1, <2>1, <2>10
    <3> QED
      BY <1>1, <2>1, <2>9, <3>1, PendingTail
  <2>11. saved' \subseteq Kept' /\ \A g \in Pending(writes') : g \in Kept' /\ g \notin saved'
    BY <1>2, <1>3, <1>8, <2>7, <2>8, <2>10
  <2> QED
    BY <1>4, <2>11
<1>9. ASSUME ~Kill, Evicted \/ Deleted
      PROVE  KeptInv' /\ NoFrameLost'
  <2>1. writes # <<>> /\ writes' = Tail(writes) /\ saved' = saved
    BY <1>9 DEF Evicted, Deleted, History
  <2>2. Pending(writes') \subseteq Pending(writes)
    BY <1>1, <2>1, PendingTail
  <2> QED
    BY <1>6, <1>9, <2>1, <2>2
<1>10. ASSUME ~Kill, NEW c \in Ctl, DrainNext(c)
       PROVE  KeptInv' /\ NoFrameLost'
  <2> DEFINE k == First(ctl[c].todo)
             w == Write(c, "drain", Entries({k}))
  <2>1. /\ saved' = saved
        /\ writes' = writes \/ (k \in Keys /\ writes' = Append(writes, w))
    BY <1>10 DEF DrainNext, History
  <2> HIDE DEF k
  <2>2. ASSUME k \in Keys, NEW g \in Pending(Append(writes, w)) PROVE g \in Pending(writes)
    <3>1. {k} \in SUBSET Keys
      BY <2>2
    <3>2. w \in Writing /\ w.op = "drain"
      BY <1>1, <3>1, DeleteType
    <3> HIDE DEF w
    <3>3. w.op # "put"
      BY <3>2
    <3> QED
      BY <1>1, <2>2, <3>2, <3>3, PendingAppend
  <2> HIDE DEF w
  <2>3. Pending(writes') \subseteq Pending(writes)
    BY <2>1, <2>2
  <2> QED
    BY <1>6, <1>10, <2>1, <2>3
<1>11. ASSUME UNCHANGED <<saved, writes>>, ~Kill
       PROVE  KeptInv' /\ NoFrameLost'
  BY <1>6, <1>11
<1>12. CASE UNCHANGED vars
  <2>1. UNCHANGED <<saved, writes>>
    BY <1>12 DEF vars
  <2> QED
    BY <2>1, <1>5, <1>11
<1>13. ASSUME NEW c \in Ctl, NEW t \in Trip, Create(c, t)
       PROVE  UNCHANGED <<saved, writes>>
  BY <1>13 DEF Create, History, File
<1>14. ASSUME NEW c \in Ctl,
              \/ Bootstrap(c) \/ StartGps(c) \/ Dispose(c) \/ Collect(c)
              \/ HandshakeDone(c) \/ Break(c) \/ NoticeDown(c) \/ Deliver(c)
              \/ PublishLive(c) \/ DrainDone(c)
       PROVE  UNCHANGED <<saved, writes>>
  BY <1>14 DEF Bootstrap, StartGps, Dispose, Collect, HandshakeDone, Break, NoticeDown,
               Deliver, PublishLive, DrainDone, File, History
<1> QED
  BY <1>5, <1>7, <1>8, <1>9, <1>10, <1>11, <1>12, <1>13, <1>14, Steps

-----------------------------------------------------------------------------
(* The queue keeps its newest frames.                                      *)

\* The box is in the order of capture.
LEMMA InboxOrder ==
  ASSUME TInv, FileInv(disk, writes, box)
  PROVE  KeyOrder
<1>1. Singles(writes) /\ BoxOK(box, Count) /\ writes \in Seq(Writing)
  BY DEF TInv, FileOK, WritesOK
<1>2. DOMAIN box \subseteq Key /\ box \in [DOMAIN box -> Fix]
  BY <1>1 DEF BoxOK
<1> QED
  BY <1>1, <1>2, InOrder DEF KeyOrder, Keys

\* The places of the puts.
PutsOf(ws) == {i \in 1..Len(ws) : ws[i].op = "put"}

\* There is a least key.
LEMMA Least ==
  ASSUME NEW K \in SUBSET Nat, K # {}
  PROVE  \E k \in K : \A j \in K : k <= j
<1> DEFINE R == OpToRel(<, Nat)
<1>1. IsWellFoundedOn(R, Nat)
  BY NatLessThanWellFounded DEF R
<1> HIDE DEF R
<1>2. PICK k \in K : \A j \in K : ~(<<j, k>> \in R)
  BY <1>1, WFMin
<1>3. \A j \in K : ~(j < k)
  BY <1>2 DEF R, OpToRel
<1> QED
  BY <1>3

\* A frame older than one of the oldest n is one of them, and there are n if the
\* box has so many.
LEMMA OldestOnes ==
  ASSUME BoxOK(box, Count), Count \in 0..MaxFix, NEW n \in Int
  PROVE  /\ IsFiniteSet(Keys) /\ Cardinality(Keys) \in Nat /\ Oldest(n) \in SUBSET Keys
         /\ \A k \in Oldest(n), j \in Keys : j < k => j \in Oldest(n)
         /\ n <= 0 => Oldest(n) = {}
         /\ n <= Cardinality(Keys) => n <= Cardinality(Oldest(n))
<1> DEFINE Under(k) == {j \in Keys : j < k}
<1>1. Keys \in SUBSET Nat /\ Keys \subseteq 0..MaxFix /\ MaxFix \in Nat
  BY BoxSize, LiveTripConstants DEF Keys, Key
<1>2. IsFiniteSet(Keys) /\ Cardinality(Keys) \in Nat
  <2>1. IsFiniteSet(0..MaxFix)
    BY <1>1, FS_Interval
  <2>2. IsFiniteSet(Keys)
    BY <1>1, <2>1, FS_Subset
  <2> QED
    BY <2>2, FS_CardinalityType
<1>3. \A k : IsFiniteSet(Under(k)) /\ Cardinality(Under(k)) \in Nat
  <2> TAKE k
  <2>1. Under(k) \in SUBSET Keys
    OBVIOUS
  <2>2. IsFiniteSet(Under(k))
    BY <1>2, <2>1, FS_Subset
  <2> QED
    BY <2>2, FS_CardinalityType
<1>4. \A k : k \in Oldest(n) <=> k \in Keys /\ Cardinality(Under(k)) < n
  BY DEF Oldest
<1>5. ASSUME NEW k \in Oldest(n), NEW j \in Keys, j < k PROVE j \in Oldest(n)
  <2>1. k \in Keys
    BY <1>4
  <2>2. \A i \in Keys : i < j => i < k
    BY <1>1, <1>5, <2>1
  <2>3. Under(j) \in SUBSET Under(k)
    BY <2>2
  <2> HIDE DEF Under
  <2>4. Cardinality(Under(j)) <= Cardinality(Under(k))
    BY <1>3, <2>3, FS_Subset
  <2> QED
    BY <1>3, <1>4, <2>4
<1>6. n <= 0 => Oldest(n) = {}
  <2> HIDE DEF Under
  <2> QED
    BY <1>3, <1>4
<1>7. Oldest(n) \in SUBSET Keys
  BY <1>4
<1>8. IsFiniteSet(Oldest(n)) /\ Cardinality(Oldest(n)) \in Nat
  <2>1. IsFiniteSet(Oldest(n))
    BY <1>2, <1>7, FS_Subset
  <2> QED
    BY <2>1, FS_CardinalityType
<1>9. ASSUME n <= Cardinality(Keys), Cardinality(Oldest(n)) < n PROVE FALSE
  <2> DEFINE K == Keys \ Oldest(n)
  <2>1. K # {}
    <3>1. Oldest(n) # Keys
      BY <1>2, <1>9
    <3> QED
      BY <3>1, <1>7
  <2>2. K \in SUBSET Nat
    BY <1>1
  <2>3. PICK k \in K : \A j \in K : k <= j
    <3> HIDE DEF K
    <3> QED
      BY <2>1, <2>2, Least
  <2>4. \A i \in Keys : i < k => i \in Oldest(n)
    BY <1>1, <2>3
  <2>5. Under(k) \in SUBSET Oldest(n)
    BY <2>4
  <2> HIDE DEF Under
  <2>6. Cardinality(Under(k)) <= Cardinality(Oldest(n))
    BY <1>8, <2>5, FS_Subset
  <2> QED
    BY <1>3, <1>4, <1>8, <1>9, <2>3, <2>6
<1> QED
  BY <1>2, <1>5, <1>6, <1>7, <1>8, <1>9

\* How the puts are counted.
LEMMA PutCount ==
  ASSUME NEW ws \in Seq(Writing)
  PROVE  /\ IsFiniteSet(PutsOf(ws)) /\ Cardinality(PutsOf(ws)) \in Nat
         /\ \A w \in Writing : PutsOf(Append(ws, w)) =
              IF w.op = "put" THEN PutsOf(ws) \cup {Len(ws) + 1} ELSE PutsOf(ws)
         /\ Len(ws) + 1 \notin PutsOf(ws)
         /\ ws # <<>> /\ ws[1].op # "put" =>
              Cardinality(PutsOf(ws)) <= Cardinality(PutsOf(Tail(ws)))
<1>1. \A s \in Seq(Writing) : IsFiniteSet(PutsOf(s)) /\ Cardinality(PutsOf(s)) \in Nat
  <2> TAKE s \in Seq(Writing)
  <2>1. IsFiniteSet(1..Len(s))
    BY FS_Interval
  <2>2. PutsOf(s) \in SUBSET (1..Len(s))
    BY DEF PutsOf
  <2>3. IsFiniteSet(PutsOf(s))
    BY <2>1, <2>2, FS_Subset
  <2> QED
    BY <2>3, FS_CardinalityType
<1>2. ASSUME NEW w \in Writing
      PROVE  PutsOf(Append(ws, w)) =
               IF w.op = "put" THEN PutsOf(ws) \cup {Len(ws) + 1} ELSE PutsOf(ws)
  <2>1. /\ Len(ws) \in Nat /\ Len(Append(ws, w)) = Len(ws) + 1
        /\ Append(ws, w)[Len(ws) + 1] = w
        /\ \A i \in 1..Len(ws) : Append(ws, w)[i] = ws[i]
    BY Places
  <2>2. \A i : i \in 1..Len(ws) + 1 <=> i \in 1..Len(ws) \/ i = Len(ws) + 1
    BY <2>1
  <2> QED
    BY <2>1, <2>2 DEF PutsOf
<1>3. Len(ws) + 1 \notin PutsOf(ws)
  BY Places DEF PutsOf
<1>4. ASSUME ws # <<>>, ws[1].op # "put"
      PROVE  Cardinality(PutsOf(ws)) <= Cardinality(PutsOf(Tail(ws)))
  <2>1. /\ Tail(ws) \in Seq(Writing) /\ Len(ws) \in Nat /\ Len(Tail(ws)) = Len(ws) - 1
        /\ \A i \in 1..Len(ws) - 1 : Tail(ws)[i] = ws[i + 1]
    BY <1>4, Places
  <2> DEFINE f == [i \in PutsOf(Tail(ws)) |-> i + 1]
  <2>2. \A i \in PutsOf(Tail(ws)) : f[i] = i + 1 /\ i + 1 \in PutsOf(ws)
    BY <2>1 DEF PutsOf
  <2>3. f \in [PutsOf(Tail(ws)) -> PutsOf(ws)]
    BY <2>2
  <2>4. ASSUME NEW j \in PutsOf(ws)
        PROVE  \E i \in PutsOf(Tail(ws)) : f[i] = j
    <3>1. j \in 2..Len(ws) /\ ws[j].op = "put"
      BY <1>4, <2>1 DEF PutsOf
    <3>2. j - 1 \in PutsOf(Tail(ws))
      BY <3>1, <2>1 DEF PutsOf
    <3> QED
      BY <3>1, <3>2, <2>2
  <2> HIDE DEF f
  <2>5. f \in Surjection(PutsOf(Tail(ws)), PutsOf(ws))
    BY <2>3, <2>4 DEF Surjection
  <2>6. IsFiniteSet(PutsOf(Tail(ws)))
    BY <1>1, <2>1
  <2> QED
    BY <2>5, <2>6, FS_Surjection
<1> QED
  BY <1>1, <1>2, <1>3, <1>4

\* What is evicted is older than what is left, and only puts exceed the maximum.
LEMMA NewestStep ==
  ASSUME TInv, KeyOrder, KeepsNewest, [Next]_vars
  PROVE  KeepsNewest'
<1> DEFINE n == Cardinality(Keys)
           p == Cardinality(PutsOf(writes))
<1>1. /\ Count \in Nat /\ Count \in 0..MaxFix /\ MaxFix \in Nat /\ MaxEntries \in Nat
      /\ BoxOK(box, Count) /\ writes \in Seq(Writing) /\ WritesOK(writes, Count)
      /\ kills \in Nat /\ evicted \subseteq 1..Count
  BY LiveTripConstants DEF TInv, FileOK, PastOK, WritesOK
<1>2. /\ IsFiniteSet(Keys) /\ n \in Nat /\ IsFiniteSet(PutsOf(writes)) /\ p \in Nat
  BY <1>1, OldestOnes, PutCount
<1>3. kills = 0 => /\ \A f \in evicted, g \in InBox : f < g
                   /\ n <= MaxEntries + p
  BY DEF KeepsNewest, PutsOf
<1>4. SUFFICES ASSUME kills' = 0
               PROVE  /\ \A f \in evicted', g \in InBox' : f < g
                      /\ Cardinality(Keys') <= MaxEntries + Cardinality(PutsOf(writes'))
  BY DEF KeepsNewest, PutsOf
<1> HIDE DEF n, p
<1>5. ~Kill
  BY <1>1, <1>4 DEF Kill
\* The box has no more, and no fewer puts are to come.
<1>6. ASSUME UNCHANGED kills, evicted' = evicted, Keys' \subseteq Keys, InBox' \subseteq InBox,
             p <= Cardinality(PutsOf(writes'))
      PROVE  /\ \A f \in evicted', g \in InBox' : f < g
             /\ Cardinality(Keys') <= MaxEntries + Cardinality(PutsOf(writes'))
  <2>1. kills = 0
    BY <1>4, <1>6
  <2>2. IsFiniteSet(Keys') /\ Cardinality(Keys') <= n
    BY <1>2, <1>6, FS_Subset DEF n
  <2>3. Cardinality(Keys') \in Nat
    BY <2>2, FS_CardinalityType
  <2>4. TInv'
    BY TypeStep
  <2>5. writes' \in Seq(Writing)
    BY <2>4 DEF TInv, FileOK, WritesOK
  <2>6. Cardinality(PutsOf(writes')) \in Nat
    BY <2>5, PutCount
  <2> QED
    BY <1>1, <1>2, <1>3, <1>6, <2>1, <2>2, <2>3, <2>6
<1>7. CASE UNCHANGED <<kills, evicted, box, writes>>
  <2>1. Keys' = Keys /\ InBox' = InBox /\ p = Cardinality(PutsOf(writes'))
    BY <1>7 DEF Keys, InBox, p
  <2> QED
    BY <1>2, <1>6, <1>7, <2>1
<1>8. ASSUME NEW c \in Ctl, Enqueue(c)
      PROVE  /\ \A f \in evicted', g \in InBox' : f < g
             /\ Cardinality(Keys') <= MaxEntries + Cardinality(PutsOf(writes'))
  <2> DEFINE k == ctl[c].next
             f == Count + 1
             w == Write(c, "put", {<<k, f>>})
  <2>1. OneOK(ctl[c], Count) /\ PastOK
    BY DEF TInv, CtlOK
  <2>2. ctl[c].gps = "on" /\ Count < MaxFix /\ Captured(c) /\ Cardinality(Fixes) = Count
        /\ kills = 0 /\ evicted' = evicted
    BY <1>4, <1>8 DEF Enqueue, Count
  <2>3. ctl[c].trip \in Trip /\ k \in Key
    BY <2>1, <2>2 DEF OneOK, ControllerType
  <2>4. f \in Fix
    BY <2>1, <2>2, <2>3, Capture
  <2>5. box' = With(box, <<k, f>>) /\ writes' = Append(writes, w)
    BY <1>8, <2>2 DEF Enqueue
  <2>6. w \in Writing /\ w.op = "put"
    BY <2>3, <2>4, PutType
  <2> HIDE DEF w
  <2>7. PutsOf(writes') = PutsOf(writes) \cup {Len(writes) + 1}
        /\ Len(writes) + 1 \notin PutsOf(writes)
    BY <1>1, <2>5, <2>6, PutCount
  <2>8. Cardinality(PutsOf(writes')) = p + 1
    BY <1>2, <2>7, FS_AddElement DEF p
  <2>9. Keys' = Keys \cup {k} /\ \A j \in Keys' : box'[j] = f \/ (j \in Keys /\ box'[j] = box[j])
    <3> HIDE DEF k, f
    <3>1. box' = [j \in Keys \cup {k} |-> IF j = k THEN f ELSE box[j]]
      BY <2>5 DEF With, Keys
    <3>2. Keys' = Keys \cup {k}
      BY <3>1 DEF Keys
    <3>3. \A j \in Keys \cup {k} : box'[j] = IF j = k THEN f ELSE box[j]
      BY <3>1
    <3> QED
      BY <3>2, <3>3
  <2>10. Cardinality(Keys') <= n + 1
    <3>1. Cardinality(Keys') = IF k \in Keys THEN n ELSE n + 1
      BY <1>2, <2>9, FS_AddElement DEF n
    <3> QED
      BY <1>2, <3>1
  <2>11. \A g \in InBox' : g = f \/ g \in InBox
    BY <2>9 DEF InBox
  <2>12. \A e \in evicted : e < f
    BY <1>1
  <2>13. \A e \in evicted', g \in InBox' : e < g
    BY <1>3, <2>2, <2>11, <2>12
  <2>14. Cardinality(Keys') \in Nat
    BY <2>9, <1>2, FS_AddElement, FS_CardinalityType
  <2> HIDE DEF k, f
  <2> QED
    BY <1>1, <1>2, <1>3, <2>2, <2>8, <2>10, <2>13, <2>14
<1>9. CASE Added
  <2> DEFINE m == n - MaxEntries
             K == Oldest(m)
  <2>1. /\ evicted' = evicted \cup {box[k] : k \in K} /\ box' = Without(box, K) /\ kills = 0
    BY <1>4, <1>9 DEF Added, n
  <2>2. m \in Int
    BY <1>1, <1>2
  <2> HIDE DEF m
  <2>3. /\ K \in SUBSET Keys /\ \A k \in K, j \in Keys : j < k => j \in K
        /\ m <= n => m <= Cardinality(K)
    BY <1>1, <2>2, OldestOnes DEF n
  <2> HIDE DEF K
  <2>4. Keys' = Keys \ K /\ \A k \in Keys' : box'[k] = box[k]
    BY <2>1 DEF Without, Keys
  <2>5. ASSUME NEW e \in evicted', NEW g \in InBox' PROVE e < g
    <3>1. PICK l \in Keys \ K : g = box[l]
      BY <2>4 DEF InBox
    <3>2. CASE e \in evicted
      BY <1>3, <2>1, <3>1, <3>2 DEF InBox
    <3>3. CASE e \notin evicted
      <4>1. PICK k \in K : e = box[k]
        BY <2>1, <3>3
      <4>2. k \in Nat /\ l \in Nat /\ k \in Keys
        BY <1>1, <2>3, <3>1, BoxSize, LiveTripConstants DEF Keys, Key
      <4>3. k < l
        BY <2>3, <3>1, <4>2
      <4> QED
        BY <3>1, <4>1, <4>2, <4>3 DEF KeyOrder
    <3> QED
      BY <3>2, <3>3
  <2>6. Cardinality(Keys') <= MaxEntries
    <3>1. Cardinality(Keys \ K) = n - Cardinality(Keys \cap K)
      BY <1>2, FS_Difference DEF n
    <3>2. Keys \cap K = K
      BY <2>3
    <3>3. IsFiniteSet(K)
      BY <1>2, <2>3, FS_Subset
    <3>4. Cardinality(K) \in Nat
      BY <3>3, FS_CardinalityType
    <3>5. m <= Cardinality(K)
      BY <1>1, <1>2, <2>3 DEF m
    <3>6. Cardinality(Keys') = n - Cardinality(K)
      BY <2>4, <3>1, <3>2
    <3> QED
      BY <1>1, <1>2, <3>4, <3>5, <3>6 DEF m
  <2>7. TInv'
    BY TypeStep
  <2>8. writes' \in Seq(Writing)
    BY <2>7 DEF TInv, FileOK, WritesOK
  <2>9. Cardinality(PutsOf(writes')) \in Nat
    BY <2>8, PutCount
  <2>10. IsFiniteSet(Keys')
    BY <1>2, <2>4, FS_Difference
  <2>11. Cardinality(Keys') \in Nat
    BY <2>10, FS_CardinalityType
  <2> QED
    BY <1>1, <2>5, <2>6, <2>9, <2>11
<1>10. CASE Evicted \/ Deleted
  <2>1. writes # <<>> /\ Head(writes).op # "put" /\ writes' = Tail(writes)
        /\ UNCHANGED <<kills, evicted, box>>
    BY <1>10 DEF Evicted, Deleted, History
  <2>2. writes[1].op # "put"
    BY <1>1, <2>1, Places
  <2>3. p <= Cardinality(PutsOf(writes'))
    BY <1>1, <2>1, <2>2, PutCount DEF p
  <2>4. Keys' = Keys /\ InBox' = InBox
    BY <2>1 DEF Keys, InBox
  <2> QED
    BY <1>6, <2>1, <2>3, <2>4
<1>11. ASSUME NEW c \in Ctl, DrainNext(c)
       PROVE  /\ \A f \in evicted', g \in InBox' : f < g
              /\ Cardinality(Keys') <= MaxEntries + Cardinality(PutsOf(writes'))
  <2> DEFINE k == First(ctl[c].todo)
             w == Write(c, "drain", Entries({k}))
  <2>1. \/ UNCHANGED <<kills, evicted, box, writes>>
        \/ /\ k \in Keys /\ box' = Without(box, {k})
           /\ writes' = Append(writes, w) /\ UNCHANGED <<kills, evicted>>
    BY <1>11 DEF DrainNext, History
  <2> HIDE DEF k
  <2>2. CASE k \in Keys /\ box' = Without(box, {k})
             /\ writes' = Append(writes, w) /\ UNCHANGED <<kills, evicted>>
    <3>1. {k} \in SUBSET Keys
      BY <2>2
    <3>2. w \in Writing /\ w.op = "drain"
      BY <1>1, <3>1, DeleteType
    <3> HIDE DEF w
    <3>3. PutsOf(writes') = PutsOf(writes)
      BY <1>1, <2>2, <3>2, PutCount
    <3>4. Keys' \subseteq Keys /\ InBox' \subseteq InBox
      BY <2>2 DEF Without, Keys, InBox
    <3>5. p <= Cardinality(PutsOf(writes'))
      BY <1>2, <3>3 DEF p
    <3> QED
      BY <1>6, <2>2, <3>4, <3>5
  <2> QED
    BY <1>7, <2>1, <2>2
<1>12. CASE UNCHANGED vars
  BY <1>7, <1>12 DEF vars
<1>13. CASE \E c \in Ctl, t \in Trip : Create(c, t)
  BY <1>7, <1>13 DEF Create, File, History
<1>14. ASSUME NEW c \in Ctl,
              \/ Bootstrap(c) \/ StartGps(c) \/ Dispose(c) \/ Collect(c)
              \/ HandshakeDone(c) \/ Break(c) \/ NoticeDown(c) \/ Deliver(c)
              \/ PublishLive(c) \/ DrainDone(c)
       PROVE  UNCHANGED <<kills, evicted, box, writes>>
  BY <1>14 DEF Bootstrap, StartGps, Dispose, Collect, HandshakeDone, Break, NoticeDown,
               Deliver, PublishLive, DrainDone, File, History
<1> QED
  BY <1>5, <1>7, <1>8, <1>9, <1>10, <1>11, <1>12, <1>13, <1>14, Steps

-----------------------------------------------------------------------------
(* A frame is in one place.                                                *)

\* No frame is twice on the wires.
OnceOn(w) ==
  \A c, d \in Ctl : \A i \in 1..Len(w[c]), j \in 1..Len(w[d]) :
    w[c][i] = w[d][j] => c = d /\ i = j

\* The places of wires: what a step leaves on them was there or is the frame added.
LEMMA OnceSent ==
  ASSUME wire \in [Ctl -> Seq(Fix)], OnceOn(wire),
         NEW c \in Ctl, NEW f \in Fix, f \notin Carried, Sends(c, f)
  PROVE  OnceOn(wire') /\ Carried' \subseteq Carried \cup {f}
<1>1. CASE wire' = wire
  BY <1>1 DEF OnceOn, Carried
<1>2. CASE wire' = [wire EXCEPT ![c] = Append(@, f)]
  <2> DEFINE n == Len(wire[c])
  <2>1. /\ wire[c] \in Seq(Fix) /\ n \in Nat /\ Len(wire'[c]) = n + 1
        /\ wire'[c][n + 1] = f
        /\ \A i \in 1..n : wire'[c][i] = wire[c][i]
        /\ \A d \in Ctl : d # c => wire'[d] = wire[d]
    BY <1>2
  <2>2. \A d \in Ctl : \A i \in 1..Len(wire[d]) : wire[d][i] \in Fix /\ wire[d][i] # f
    BY DEF Carried
  <2> HIDE DEF n
  <2>3. ASSUME NEW d \in Ctl, NEW i \in 1..Len(wire'[d])
        PROVE  \/ d = c /\ i = n + 1 /\ wire'[d][i] = f
               \/ i \in 1..Len(wire[d]) /\ wire'[d][i] = wire[d][i] /\ wire'[d][i] # f
    <3>1. CASE d # c
      BY <2>1, <2>2, <3>1
    <3>2. CASE d = c
      BY <2>1, <2>2, <3>2 DEF n
    <3> QED
      BY <3>1, <3>2
  <2>4. OnceOn(wire')
    <3> SUFFICES ASSUME NEW d \in Ctl, NEW e \in Ctl, NEW i \in 1..Len(wire'[d]),
                        NEW j \in 1..Len(wire'[e]), wire'[d][i] = wire'[e][j]
                 PROVE  d = e /\ i = j
      BY DEF OnceOn
    <3>1. CASE (d = c /\ i = n + 1) /\ (e = c /\ j = n + 1)
      BY <3>1
    <3>2. CASE ~(d = c /\ i = n + 1) /\ ~(e = c /\ j = n + 1)
      <4>1. /\ i \in 1..Len(wire[d]) /\ wire'[d][i] = wire[d][i]
            /\ j \in 1..Len(wire[e]) /\ wire'[e][j] = wire[e][j]
        BY <2>3, <3>2
      <4>2. wire[d][i] = wire[e][j]
        BY <4>1
      <4>3. \A b \in Ctl : \A x \in 1..Len(wire[d]), y \in 1..Len(wire[b]) :
              wire[d][x] = wire[b][y] => d = b /\ x = y
        BY DEF OnceOn
      <4> QED
        BY <4>1, <4>2, <4>3
    <3>3. CASE (d = c /\ i = n + 1) # (e = c /\ j = n + 1)
      BY <2>1, <2>3, <3>3
    <3> QED
      BY <3>1, <3>2, <3>3
  <2>5. Carried' \subseteq Carried \cup {f}
    BY <2>3 DEF Carried
  <2> QED
    BY <2>4, <2>5
<1> QED
  BY <1>1, <1>2 DEF Sends

\* The first frame of a wire comes in.
LEMMA OnceDelivered ==
  ASSUME wire \in [Ctl -> Seq(Fix)], OnceOn(wire),
         NEW c \in Ctl, wire[c] # <<>>, wire' = [wire EXCEPT ![c] = Tail(@)]
  PROVE  /\ OnceOn(wire') /\ Head(wire[c]) \in Carried
         /\ Carried' \subseteq Carried \ {Head(wire[c])}
<1> DEFINE n == Len(wire[c])
<1>1. /\ wire[c] \in Seq(Fix) /\ n \in Nat /\ n >= 1 /\ Len(wire'[c]) = n - 1
      /\ \A i \in 1..n - 1 : wire'[c][i] = wire[c][i + 1]
      /\ \A d \in Ctl : d # c => wire'[d] = wire[d]
      /\ Head(wire[c]) = wire[c][1] /\ 1 \in 1..Len(wire[c]) /\ wire[c][1] \in Fix
  BY DEF OnceOn
<1>2. \A d \in Ctl : \A i : i \in 1..Len(wire'[d]) =>
        \/ d # c /\ i \in 1..Len(wire[d]) /\ wire'[d][i] = wire[d][i]
        \/ d = c /\ i \in Nat /\ i + 1 \in 1..Len(wire[d]) /\ i + 1 # 1
           /\ wire'[d][i] = wire[d][i + 1]
  BY <1>1
<1> HIDE DEF n
<1>3. OnceOn(wire')
  <2> SUFFICES ASSUME NEW d \in Ctl, NEW e \in Ctl, NEW i \in 1..Len(wire'[d]),
                      NEW j \in 1..Len(wire'[e]), wire'[d][i] = wire'[e][j]
               PROVE  d = e /\ i = j
    BY DEF OnceOn
  <2>1. CASE d = c /\ e = c
    <3>1. /\ i + 1 \in 1..Len(wire[c]) /\ j + 1 \in 1..Len(wire[c]) /\ i \in Nat /\ j \in Nat
          /\ wire[c][i + 1] = wire[c][j + 1]
      BY <1>2, <2>1
    <3>2. i + 1 = j + 1
      BY <3>1 DEF OnceOn
    <3> QED
      BY <2>1, <3>1, <3>2
  <2>2. CASE d # c /\ e # c
    BY <1>2, <2>2 DEF OnceOn
  <2>3. CASE d = c /\ e # c
    BY <1>2, <2>3 DEF OnceOn
  <2>4. CASE d # c /\ e = c
    BY <1>2, <2>4 DEF OnceOn
  <2> QED
    BY <2>1, <2>2, <2>3, <2>4
<1>4. Head(wire[c]) \in Carried
  BY <1>1 DEF Carried
<1>5. ASSUME NEW f \in Carried' PROVE f \in Carried /\ f # Head(wire[c])
  <2>1. PICK d \in Ctl : f \in Fix /\ \E i \in 1..Len(wire'[d]) : wire'[d][i] = f
    BY <1>5 DEF Carried
  <2>2. PICK i \in 1..Len(wire'[d]) : wire'[d][i] = f
    BY <2>1
  <2>3. PICK j \in 1..Len(wire[d]) : wire[d][j] = f /\ (d # c \/ j # 1)
    BY <1>2, <2>2
  <2>4. f \in Carried
    BY <2>1, <2>3 DEF Carried
  <2>5. f # wire[c][1]
    BY <1>1, <2>3 DEF OnceOn
  <2> QED
    BY <1>1, <2>4, <2>5
<1> QED
  BY <1>3, <1>4, <1>5

\* What is under way is lost.
LEMMA OnceLost ==
  ASSUME OnceOn(wire), NEW C, Loses(C)
  PROVE  OnceOn(wire') /\ Carried' \subseteq Carried
         /\ (C = Ctl => Carried' = {})
<1>1. \A c \in Ctl : wire'[c] = IF c \in C THEN <<>> ELSE wire[c]
  BY DEF Loses
<1>2. \A c \in Ctl : \A i : i \in 1..Len(wire'[c]) =>
        i \in 1..Len(wire[c]) /\ wire'[c][i] = wire[c][i] /\ c \notin C
  BY <1>1
<1>3. OnceOn(wire')
  BY <1>2 DEF OnceOn
<1>4. Carried' \subseteq Carried /\ (C = Ctl => Carried' = {})
  BY <1>2 DEF Carried
<1> QED
  BY <1>3, <1>4

\* A frame is in one place, and has not come in more often than it may.
LEMMA OnceStep ==
  ASSUME TInv, KeyOrder, OnceInv, CopiesBounded, [Next]_vars
  PROVE  OnceInv' /\ CopiesBounded'
<1> DEFINE Free(f) == f \in Fix /\ f \notin InBox /\ f \notin Carried /\ copies[f] <= kills
<1>1. /\ Count \in Nat /\ Count' \in Nat /\ Count <= Count'
      /\ BoxOK(box, Count) /\ BoxOK(disk, Count) /\ WireOK(wire, sunk, Count)
      /\ copies \in [Fix -> Nat] /\ kills \in Nat /\ wire \in [Ctl -> Seq(Fix)]
  BY CountGrows, LiveTripConstants DEF TInv, FileOK, NetOK, WireOK, PastOK
<1>2. /\ OnceOn(wire) /\ Carried \cap InBox = {}
      /\ \A f \in InBox \cup Carried : copies[f] <= kills
      /\ \A f \in Fix : f > Count => copies[f] = 0
      /\ \A f \in Fix : copies[f] <= 1 + kills
  BY DEF OnceInv, OnceOn, CopiesBounded
<1>3. SUFFICES /\ OnceOn(wire') /\ Carried' \cap InBox' = {}
               /\ \A f \in InBox' \cup Carried' : copies'[f] <= kills'
               /\ \A f \in Fix : f > Count' => copies'[f] = 0
               /\ \A f \in Fix : copies'[f] <= 1 + kills'
  BY DEF OnceInv, OnceOn, CopiesBounded
<1>4. \A f \in InBox \cup Carried : f \in Fix /\ f <= Count
  BY <1>1 DEF InBox, Keys, BoxOK, Carried, WireOK
<1>5. \A f \in Fix : f \in Nat /\ (f > Count' => f > Count)
  BY <1>1, LiveTripConstants DEF Fix
\* The frames are where they were, but for one at most that is put somewhere.
<1>6. ASSUME UNCHANGED <<copies, kills>>, OnceOn(wire'), Carried' \cap InBox' = {},
             \A f \in InBox' \cup Carried' : f \in InBox \cup Carried \/ Free(f)
      PROVE  /\ OnceOn(wire') /\ Carried' \cap InBox' = {}
             /\ \A f \in InBox' \cup Carried' : copies'[f] <= kills'
             /\ \A f \in Fix : f > Count' => copies'[f] = 0
             /\ \A f \in Fix : copies'[f] <= 1 + kills'
  BY <1>2, <1>5, <1>6
<1>7. ASSUME Count < MaxFix PROVE Free(Count + 1)
  <2>1. Count + 1 \in Fix
    BY <1>1, <1>7, LiveTripConstants DEF Fix
  <2>2. Count + 1 \notin InBox /\ Count + 1 \notin Carried
    BY <1>1, <1>4
  <2> QED
    BY <1>1, <1>2, <2>1, <2>2
<1> DEFINE Goal == /\ OnceOn(wire') /\ Carried' \cap InBox' = {}
                   /\ \A f \in InBox' \cup Carried' : copies'[f] <= kills'
                   /\ \A f \in Fix : f > Count' => copies'[f] = 0
                   /\ \A f \in Fix : copies'[f] <= 1 + kills'
\* Nothing is added.
<1>8. ASSUME UNCHANGED <<copies, kills>>, OnceOn(wire'), Carried' \subseteq Carried,
             InBox' \subseteq InBox
      PROVE  Goal
  <2>1. Carried' \cap InBox' = {}
    BY <1>2, <1>8
  <2>2. \A f \in InBox' \cup Carried' : f \in InBox \cup Carried
    BY <1>8
  <2> HIDE DEF Free
  <2> QED
    BY <1>6, <1>8, <2>1, <2>2
\* A frame is sent.
<1>9. ASSUME UNCHANGED <<copies, kills>>, NEW c \in Ctl, NEW f \in Fix, Sends(c, f),
             f \notin Carried, copies[f] <= kills, InBox' \subseteq InBox \ {f}
      PROVE  Goal
  <2>1. OnceOn(wire') /\ Carried' \subseteq Carried \cup {f}
    BY <1>1, <1>2, <1>9, OnceSent
  <2>2. Carried' \cap InBox' = {}
    BY <1>2, <1>9, <2>1
  <2>3. \A g \in InBox' \cup Carried' : g \in InBox \cup Carried \/ Free(g)
    BY <1>9, <2>1
  <2> HIDE DEF Free
  <2> QED
    BY <1>6, <1>9, <2>1, <2>2, <2>3
<1>10. CASE UNCHANGED <<copies, kills, wire, box>>
  <2>1. /\ Carried' \subseteq Carried /\ InBox' \subseteq InBox /\ OnceOn(wire')
        /\ UNCHANGED <<copies, kills>>
    BY <1>2, <1>10 DEF Carried, InBox, Keys, OnceOn
  <2> HIDE DEF Free
  <2> QED
    BY <1>8, <2>1
<1>11. ASSUME NEW c \in Ctl, Dispose(c) \/ Break(c) PROVE Goal
  <2>1. PICK C : Loses(C) /\ UNCHANGED <<copies, kills, box>>
    BY <1>11 DEF Dispose, Break, Backend
  <2>2. OnceOn(wire') /\ Carried' \subseteq Carried /\ InBox' = InBox
    BY <1>2, <2>1, OnceLost DEF InBox, Keys
  <2> HIDE DEF Free, Goal
  <2> QED
    BY <1>8, <2>1, <2>2
<1>12. CASE Kill
  <2>1. Loses(Ctl) /\ box' = disk /\ kills' = kills + 1 /\ copies' = copies
    BY <1>12 DEF Kill, Backend
  <2>2. OnceOn(wire') /\ Carried' = {}
    BY <1>2, <2>1, OnceLost
  <2>3. \A f \in InBox' : f \in Fix
    BY <1>1, <2>1 DEF InBox, Keys, BoxOK
  <2> QED
    BY <1>1, <1>2, <1>5, <2>1, <2>2, <2>3
<1>13. ASSUME NEW c \in Ctl, Deliver(c) PROVE Goal
  <2> DEFINE f == Head(wire[c])
  <2>1. /\ wire[c] # <<>> /\ wire' = [wire EXCEPT ![c] = Tail(@)]
        /\ copies' = [copies EXCEPT ![f] = @ + 1] /\ box' = box /\ kills' = kills
    BY <1>13 DEF Deliver
  <2>2. OnceOn(wire') /\ f \in Carried /\ Carried' \subseteq Carried \ {f}
    BY <1>1, <1>2, <2>1, OnceDelivered
  <2> HIDE DEF f
  <2>3. InBox' = InBox /\ f \notin InBox /\ f \in Fix /\ f <= Count /\ copies[f] <= kills
    BY <1>2, <1>4, <2>1, <2>2 DEF InBox, Keys
  <2>4. /\ copies'[f] = copies[f] + 1 /\ copies[f] \in Nat
        /\ \A g \in Fix : g # f => copies'[g] = copies[g]
    BY <1>1, <2>1, <2>3
  <2>5. Carried' \cap InBox' = {}
    BY <1>2, <2>2, <2>3
  <2>6. \A g \in InBox' \cup Carried' : copies'[g] <= kills'
    BY <1>2, <1>4, <2>1, <2>2, <2>3, <2>4
  <2>7. \A g \in Fix : g > Count' => copies'[g] = 0
    BY <1>1, <1>2, <1>5, <2>3, <2>4
  <2>8. \A g \in Fix : copies'[g] <= 1 + kills'
    BY <1>1, <1>2, <2>1, <2>3, <2>4
  <2> QED
    BY <2>2, <2>5, <2>6, <2>7, <2>8
<1>14. ASSUME NEW c \in Ctl, PublishLive(c) PROVE Goal
  <2>1. Count < MaxFix /\ Sends(c, Count + 1) /\ UNCHANGED <<box, copies, kills>>
    BY <1>14 DEF PublishLive, Count, Backend
  <2>2. Free(Count + 1)
    BY <1>7, <2>1
  <2>3. InBox' \subseteq InBox \ {Count + 1}
    BY <2>1, <2>2 DEF InBox, Keys
  <2>4. Count + 1 \in Fix /\ Count + 1 \notin Carried /\ copies[Count + 1] <= kills
    BY <2>2
  <2> HIDE DEF Free, Goal
  <2> QED
    BY <1>9, <2>1, <2>3, <2>4
<1>15. ASSUME NEW c \in Ctl, Enqueue(c) PROVE Goal
  <2> DEFINE k == ctl[c].next
             f == Count + 1
  <2>1. Count < MaxFix /\ box' = With(box, <<k, f>>) /\ UNCHANGED <<wire, copies, kills>>
    BY <1>15 DEF Enqueue, Count, Backend, Net
  <2>2. Free(f)
    BY <1>7, <2>1
  <2> HIDE DEF k, f
  <2>3. box' = [j \in Keys \cup {k} |-> IF j = k THEN f ELSE box[j]]
    BY <2>1 DEF With, Keys
  <2>4. InBox' \subseteq InBox \cup {f}
    BY <2>3 DEF InBox, Keys
  <2>5. Carried' = Carried /\ OnceOn(wire')
    BY <1>2, <2>1 DEF Carried, OnceOn
  <2>6. Carried' \cap InBox' = {}
    BY <1>2, <2>2, <2>4, <2>5
  <2>7. \A g \in InBox' \cup Carried' : g \in InBox \cup Carried \/ Free(g)
    BY <2>2, <2>4, <2>5
  <2> HIDE DEF Free
  <2> QED
    BY <1>6, <2>1, <2>5, <2>6, <2>7
<1>16. ASSUME UNCHANGED <<wire, copies, kills>>, NEW K, box' = Without(box, K) PROVE Goal
  <2>1. InBox' \subseteq InBox
    BY <1>16 DEF Without, InBox, Keys
  <2>2. Carried' = Carried /\ OnceOn(wire')
    BY <1>2, <1>16 DEF Carried, OnceOn
  <2> HIDE DEF Free, Goal
  <2> QED
    BY <1>8, <1>16, <2>1, <2>2
<1>17. CASE Added
  <2>1. PICK K : UNCHANGED <<wire, copies, kills>> /\ box' = Without(box, K)
    BY <1>17 DEF Added, Net, Backend
  <2> HIDE DEF Free
  <2> QED
    BY <1>16, <2>1
<1>18. ASSUME NEW c \in Ctl, DrainNext(c) PROVE Goal
  <2> DEFINE k == First(ctl[c].todo)
  <2>1. \/ UNCHANGED <<copies, kills, wire, box>>
        \/ /\ k \in Keys /\ Sends(c, box[k]) /\ box' = Without(box, {k})
           /\ UNCHANGED <<copies, kills>>
    BY <1>18 DEF DrainNext, Net, Backend
  <2> HIDE DEF k
  <2>2. CASE k \in Keys /\ Sends(c, box[k]) /\ box' = Without(box, {k})
             /\ UNCHANGED <<copies, kills>>
    <3>1. box[k] \in InBox
      BY <2>2 DEF InBox
    <3>2. box[k] \in Fix /\ box[k] \notin Carried /\ copies[box[k]] <= kills
      BY <1>2, <1>4, <3>1
    <3>3. \A j \in Keys : j # k => box[j] # box[k]
      <4>1. \A j \in Keys : j \in Nat /\ box[j] \in Nat
        BY <1>1, LiveTripConstants DEF BoxOK, Keys, Key, Fix
      <4>2. \A j \in Keys : j < k \/ k < j \/ j = k
        BY <2>2, <4>1
      <4> QED
        BY <2>2, <4>1, <4>2 DEF KeyOrder
    <3>4. Keys' = Keys \ {k} /\ \A j \in Keys' : box'[j] = box[j]
      BY <2>2 DEF Without, Keys
    <3>5. InBox' \subseteq InBox \ {box[k]}
      BY <3>3, <3>4 DEF InBox
    <3> HIDE DEF Free, Goal
    <3> QED
      BY <1>9, <2>2, <3>2, <3>5
  <2> QED
    BY <1>10, <2>1, <2>2
<1>19. CASE UNCHANGED vars
  BY <1>10, <1>19 DEF vars
<1>20. CASE Evicted \/ Deleted
  BY <1>10, <1>20 DEF Evicted, Deleted, Net, Backend
<1>21. CASE \E c \in Ctl, t \in Trip : Create(c, t)
  BY <1>10, <1>21 DEF Create, Net, Backend
<1>22. ASSUME NEW c \in Ctl,
              \/ Bootstrap(c) \/ StartGps(c) \/ Collect(c)
              \/ HandshakeDone(c) \/ NoticeDown(c) \/ DrainDone(c)
       PROVE  UNCHANGED <<copies, kills, wire, box>>
  BY <1>22 DEF Bootstrap, StartGps, Collect, HandshakeDone, NoticeDown, DrainDone, Net,
               Backend
<1> QED
  BY <1>10, <1>11, <1>12, <1>13, <1>14, <1>15, <1>17, <1>18, <1>19, <1>20, <1>21, <1>22,
     Steps

-----------------------------------------------------------------------------
(* The badge.                                                              *)

PutsBy(ws, c) == {i \in 1..Len(ws) : ws[i].op = "put" /\ ws[i].by = c}
Waits(ws, c, op) == \E i \in 1..Len(ws) : ws[i].by = c /\ ws[i].op = op

\* What LeavingInv, LeftoverInv and BadgeInv say of the controller c with record q,
\* in three parts: who it is, its writes and those of others, and its badge.
Placed(q, ws, c) ==
  /\ q.draining \/ (\E i \in 1..Len(ws) : ws[i].by = c) => q.life \in {"live", "disposed"}
  /\ Waits(ws, c, "drain") \/ q.todo # {} => q.draining
  /\ q.life = "live" => q.socket # "closed"
  /\ q.life = "disposed" => q.socket = "closed"
Heir(q, ws, K, c) ==
  q.life = "live" =>
    \A d \in Ctl : d # c =>
      /\ \A i \in PutsBy(ws, c), j \in PutsBy(ws, d) : j < i
      /\ PutsBy(ws, d) # {} => K \subseteq q.todo \/ PutsBy(ws, c) # {}
Badge(q, ws, K, c) ==
  q.life = "live" /\ ~q.draining =>
    q.queued = Cardinality(K) \/ PutsBy(ws, c) # {} \/ Waits(ws, c, "evict")
Screen(q, ws, K, c) == Placed(q, ws, c) /\ Heir(q, ws, K, c) /\ Badge(q, ws, K, c)

LEMMA Screens ==
  /\ LeavingInv /\ LeftoverInv /\ BadgeInv
       <=> \A c \in Ctl : Screen(ctl[c], writes, Keys, c)
  /\ (LeavingInv /\ LeftoverInv /\ BadgeInv)'
       <=> \A c \in Ctl : Screen(ctl'[c], writes', Keys', c)
<1>1. /\ LeavingInv <=> \A c \in Ctl : Placed(ctl[c], writes, c)
      /\ LeavingInv' <=> \A c \in Ctl : Placed(ctl'[c], writes', c)
  BY DEF LeavingInv, Placed, Waits, Awaits
<1>2. /\ LeftoverInv <=> \A c \in Ctl : Heir(ctl[c], writes, Keys, c)
      /\ LeftoverInv' <=> \A c \in Ctl : Heir(ctl'[c], writes', Keys', c)
  BY DEF LeftoverInv, Heir, Puts, PutsBy
<1>3. /\ BadgeInv <=> \A c \in Ctl : Badge(ctl[c], writes, Keys, c)
      /\ BadgeInv' <=> \A c \in Ctl : Badge(ctl'[c], writes', Keys', c)
  BY DEF BadgeInv, Badge, Puts, PutsBy, Waits, Awaits
<1> QED
  BY <1>1, <1>2, <1>3 DEF Screen

\* What the writes of a controller become when the first is done.
LEMMA TailWaits ==
  ASSUME NEW ws \in Seq(Writing), ws # <<>>, NEW c
  PROVE  /\ \A i \in PutsBy(Tail(ws), c) : i \in Nat /\ i + 1 \in PutsBy(ws, c)
         /\ ~(ws[1].op = "put" /\ ws[1].by = c) /\ PutsBy(ws, c) # {}
              => PutsBy(Tail(ws), c) # {}
         /\ \A op : Waits(Tail(ws), c, op) => Waits(ws, c, op)
         /\ \A op : ~(ws[1].op = op /\ ws[1].by = c) /\ Waits(ws, c, op)
              => Waits(Tail(ws), c, op)
         /\ (\E i \in 1..Len(Tail(ws)) : Tail(ws)[i].by = c) => \E i \in 1..Len(ws) : ws[i].by = c
<1>1. /\ Len(ws) \in Nat /\ Len(ws) >= 1 /\ Len(Tail(ws)) = Len(ws) - 1
      /\ \A i \in 1..Len(ws) - 1 : Tail(ws)[i] = ws[i + 1]
  BY Places
<1>2. \A i \in 1..Len(Tail(ws)) : i \in Nat /\ i + 1 \in 1..Len(ws) /\ Tail(ws)[i] = ws[i + 1]
  BY <1>1
<1>3. \A i \in 1..Len(ws) : i # 1 => i - 1 \in 1..Len(Tail(ws)) /\ Tail(ws)[i - 1] = ws[i]
  BY <1>1
<1>4. \A i \in PutsBy(Tail(ws), c) : i \in Nat /\ i + 1 \in PutsBy(ws, c)
  BY <1>2 DEF PutsBy
<1>5. ~(ws[1].op = "put" /\ ws[1].by = c) /\ PutsBy(ws, c) # {} => PutsBy(Tail(ws), c) # {}
  BY <1>3 DEF PutsBy
<1>6. \A op : Waits(Tail(ws), c, op) => Waits(ws, c, op)
  BY <1>2 DEF Waits
<1>7. \A op : ~(ws[1].op = op /\ ws[1].by = c) /\ Waits(ws, c, op) => Waits(Tail(ws), c, op)
  BY <1>3 DEF Waits
<1>8. (\E i \in 1..Len(Tail(ws)) : Tail(ws)[i].by = c) => \E i \in 1..Len(ws) : ws[i].by = c
  BY <1>2
<1> QED
  BY <1>4, <1>5, <1>6, <1>7, <1>8

\* And when one is added.
LEMMA AppendWaits ==
  ASSUME NEW ws \in Seq(Writing), NEW w \in Writing, NEW c
  PROVE  /\ PutsBy(Append(ws, w), c) =
              IF w.op = "put" /\ w.by = c THEN PutsBy(ws, c) \cup {Len(ws) + 1}
              ELSE PutsBy(ws, c)
         /\ \A i \in PutsBy(ws, c) : i \in Nat /\ i < Len(ws) + 1
         /\ \A op : Waits(Append(ws, w), c, op) <=> Waits(ws, c, op) \/ (w.op = op /\ w.by = c)
         /\ (\E i \in 1..Len(Append(ws, w)) : Append(ws, w)[i].by = c)
              <=> (\E i \in 1..Len(ws) : ws[i].by = c) \/ w.by = c
<1>1. /\ Len(ws) \in Nat /\ Len(Append(ws, w)) = Len(ws) + 1
      /\ Append(ws, w)[Len(ws) + 1] = w
      /\ \A i \in 1..Len(ws) : Append(ws, w)[i] = ws[i]
  BY Places
<1>2. \A i : i \in 1..Len(ws) + 1 <=> i \in 1..Len(ws) \/ i = Len(ws) + 1
  BY <1>1
<1> QED
  BY <1>1, <1>2 DEF PutsBy, Waits

\* The record of a controller changes, and the box and the writes do not.
LEMMA RecordStep ==
  ASSUME NEW ws, NEW K, NEW c \in Ctl, NEW q, NEW r, Screen(q, ws, K, c),
         r.todo = q.todo, r.queued = q.queued, r.draining = q.draining,
         \/ r.life = q.life /\ (r.socket = q.socket \/ {q.socket, r.socket} \cap {"closed"} = {})
         \/ r.life = "disposed" /\ q.life = "live" /\ r.socket = "closed"
  PROVE  Screen(r, ws, K, c)
<1>1. Placed(r, ws, c)
  BY DEF Screen, Placed
<1>2. Heir(r, ws, K, c)
  BY DEF Screen, Heir
<1>3. Badge(r, ws, K, c)
  BY DEF Screen, Badge
<1> QED
  BY <1>1, <1>2, <1>3 DEF Screen

\* A write that is no put is added by a controller that is there.
LEMMA ScreenAppend ==
  ASSUME NEW ws \in Seq(Writing), NEW w \in Writing, NEW K, NEW c \in Ctl, NEW q,
         Screen(q, ws, K, c), w.op # "put",
         w.by = c => /\ q.life \in {"live", "disposed"}
                     /\ w.op = "drain" => q.draining
  PROVE  Screen(q, Append(ws, w), K, c)
<1>1. \A d : PutsBy(Append(ws, w), d) = PutsBy(ws, d)
  BY AppendWaits
<1>2. Placed(q, Append(ws, w), c)
  BY AppendWaits DEF Screen, Placed
<1>3. Heir(q, Append(ws, w), K, c)
  BY <1>1 DEF Screen, Heir
<1>4. Badge(q, Append(ws, w), K, c)
  BY <1>1, AppendWaits DEF Screen, Badge
<1> QED
  BY <1>2, <1>3, <1>4 DEF Screen

\* The first write is done: if it was of another controller, or if the badge is set.
LEMMA ScreenTail ==
  ASSUME NEW ws \in Seq(Writing), ws # <<>>, NEW K, NEW c \in Ctl, NEW q,
         Screen(q, ws, K, c)
  PROVE  /\ Placed(q, Tail(ws), c) /\ Heir(q, Tail(ws), K, c)
         /\ ws[1].by # c \/ ws[1].op = "drain" => Screen(q, Tail(ws), K, c)
<1>1. Placed(q, Tail(ws), c)
  BY TailWaits DEF Screen, Placed
<1>2. Heir(q, Tail(ws), K, c)
  <2> SUFFICES ASSUME q.life = "live", NEW d \in Ctl, d # c
               PROVE  /\ \A i \in PutsBy(Tail(ws), c), j \in PutsBy(Tail(ws), d) : j < i
                      /\ PutsBy(Tail(ws), d) # {} =>
                           K \subseteq q.todo \/ PutsBy(Tail(ws), c) # {}
    BY DEF Heir
  <2>1. /\ \A i \in PutsBy(ws, c), j \in PutsBy(ws, d) : j < i
        /\ PutsBy(ws, d) # {} => K \subseteq q.todo \/ PutsBy(ws, c) # {}
    BY DEF Screen, Heir
  <2>2. \A i \in PutsBy(Tail(ws), c), j \in PutsBy(Tail(ws), d) :
          i \in Nat /\ j \in Nat /\ i + 1 \in PutsBy(ws, c) /\ j + 1 \in PutsBy(ws, d)
    BY TailWaits
  <2>3. \A i \in PutsBy(Tail(ws), c), j \in PutsBy(Tail(ws), d) : j < i
    <3> TAKE i \in PutsBy(Tail(ws), c), j \in PutsBy(Tail(ws), d)
    <3>1. i \in Nat /\ j \in Nat /\ j + 1 < i + 1
      BY <2>1, <2>2
    <3> QED
      BY <3>1
  <2>4. ASSUME PutsBy(Tail(ws), d) # {}, PutsBy(ws, c) # {}
        PROVE  PutsBy(Tail(ws), c) # {}
    <3>1. PICK j \in PutsBy(Tail(ws), d) : j \in Nat /\ j \in 1..Len(Tail(ws)) /\ j + 1 \in PutsBy(ws, d)
      BY <2>4, TailWaits DEF PutsBy
    <3>2. CASE ws[1].op = "put" /\ ws[1].by = c
      <4>1. 1 \in PutsBy(ws, c)
        BY <3>2, Places DEF PutsBy
      <4>2. j + 1 < 1
        BY <2>1, <3>1, <4>1
      <4> QED
        BY <3>1, <4>2
    <3> QED
      BY <2>4, <3>2, TailWaits
  <2>5. PutsBy(Tail(ws), d) # {} => PutsBy(ws, d) # {}
    BY TailWaits
  <2> QED
    BY <2>1, <2>3, <2>4, <2>5
<1>3. ASSUME ws[1].by # c \/ ws[1].op = "drain"
      PROVE  Badge(q, Tail(ws), K, c)
  <2>1. ~(ws[1].op = "put" /\ ws[1].by = c) /\ ~(ws[1].op = "evict" /\ ws[1].by = c)
    BY <1>3
  <2> QED
    BY <2>1, TailWaits DEF Screen, Badge
<1> QED
  BY <1>1, <1>2, <1>3 DEF Screen

\* Every controller, after every step.
LEMMA ScreenStep ==
  ASSUME TInv, InTurn, TurnInv, LeavingInv, LeftoverInv, BadgeInv, [Next]_vars
  PROVE  LeavingInv' /\ LeftoverInv' /\ BadgeInv'
<1>1. /\ DOMAIN ctl = Ctl /\ writes \in Seq(Writing) /\ BoxOK(box, Count)
      /\ \A c \in Ctl : ctl[c] \in ControllerType
  BY DEF TInv, FileOK, WritesOK, CtlOK, OneOK
<1>2. /\ \A c, d \in Ctl : ctl[c].life \in {"opening", "live"} /\ ctl[d].life \in {"opening", "live"}
                             => c = d
      /\ \A c \in Ctl : ctl[c].gps # "off" => ctl[c].life = "live"
  BY DEF TurnInv
<1>3. \A c \in Ctl : Screen(ctl[c], writes, Keys, c)
  BY Screens
<1>4. SUFFICES \A c \in Ctl : Screen(ctl'[c], writes', Keys', c)
  BY Screens
<1>5. ASSUME NEW c \in Ctl, NEW r, ctl' = [ctl EXCEPT ![c] = r]
      PROVE  ctl'[c] = r /\ \A d \in Ctl : d # c => ctl'[d] = ctl[d]
  BY <1>1, <1>5
<1>6. \A c \in Ctl : Placed(ctl[c], writes, c) /\ Heir(ctl[c], writes, Keys, c)
                     /\ Badge(ctl[c], writes, Keys, c)
  BY <1>3 DEF Screen
\* The record of one controller changes, and nothing else.
<1>7. ASSUME UNCHANGED <<box, writes>>, NEW c \in Ctl, NEW r, ctl' = [ctl EXCEPT ![c] = r],
             Screen(r, writes, Keys, c)
      PROVE  \A d \in Ctl : Screen(ctl'[d], writes', Keys', d)
  <2>1. Keys' = Keys /\ writes' = writes
    BY <1>7 DEF Keys
  <2> QED
    BY <1>3, <1>5, <1>7, <2>1
<1>8. ASSUME UNCHANGED <<box, writes>>, NEW c \in Ctl, NEW r, ctl' = [ctl EXCEPT ![c] = r],
             r.todo = ctl[c].todo, r.queued = ctl[c].queued, r.draining = ctl[c].draining,
             \/ r.life = ctl[c].life
                /\ (r.socket = ctl[c].socket \/ {ctl[c].socket, r.socket} \cap {"closed"} = {})
             \/ r.life = "disposed" /\ ctl[c].life = "live" /\ r.socket = "closed"
      PROVE  \A d \in Ctl : Screen(ctl'[d], writes', Keys', d)
  <2>1. Screen(r, writes, Keys, c)
    BY <1>3, <1>8, RecordStep
  <2> QED
    BY <1>7, <1>8, <2>1
<1>9. CASE UNCHANGED <<box, writes, ctl>>
  BY <1>3, <1>9 DEF Keys
\* One that is gone or opening has no writes.
<1>10. ASSUME NEW c \in Ctl, NEW r, r.life \in {"none", "opening"}, ~r.draining, r.todo = {},
              \A i \in 1..Len(writes) : writes[i].by # c
       PROVE  Screen(r, writes, Keys, c)
  BY <1>10 DEF Screen, Placed, Heir, Badge, Waits
<1>11. Dead.life = "none" /\ ~Dead.draining /\ Dead.todo = {}
  BY DEF Dead
<1>12. ASSUME NEW c \in Ctl, NEW t \in Trip, Create(c, t)
       PROVE  \A d \in Ctl : Screen(ctl'[d], writes', Keys', d)
  <2> DEFINE r == [Dead EXCEPT !.trip = t, !.life = "opening"]
  <2>1. ctl' = [ctl EXCEPT ![c] = r] /\ UNCHANGED <<box, writes>> /\ ctl[c].life = "none"
    BY <1>12 DEF Create, File
  <2>2. r.life = "opening" /\ ~r.draining /\ r.todo = {}
    BY DEF Dead
  <2> HIDE DEF r
  <2>3. \A i \in 1..Len(writes) : writes[i].by # c
    BY <1>6, <2>1 DEF Placed
  <2>4. Screen(r, writes, Keys, c)
    BY <1>10, <2>2, <2>3
  <2> QED
    BY <1>7, <2>1, <2>4
<1>13. ASSUME NEW c \in Ctl, Bootstrap(c)
       PROVE  \A d \in Ctl : Screen(ctl'[d], writes', Keys', d)
  <2> DEFINE k == IF Keys = {} THEN 0 ELSE Last(Keys) + 1
             r == [ctl[c] EXCEPT !.life = "live", !.gps = "starting", !.socket = "handshake",
                                 !.connected = TRUE, !.draining = Keys # {}, !.todo = Keys,
                                 !.next = k, !.queued = Cardinality(Keys)]
  <2>1. ctl' = [ctl EXCEPT ![c] = r] /\ UNCHANGED <<box, writes>> /\ ctl[c].life = "opening"
    BY <1>13 DEF Bootstrap, File
  <2> HIDE DEF k
  <2>2. /\ r.life = "live" /\ r.socket = "handshake" /\ r.todo = Keys
        /\ r.queued = Cardinality(Keys) /\ (r.draining <=> Keys # {})
    BY <1>1 DEF ControllerType
  <2> HIDE DEF r
  <2>3. \A i \in 1..Len(writes) : writes[i].by # c
    BY <1>6, <2>1 DEF Placed
  <2>4. PutsBy(writes, c) = {} /\ ~Waits(writes, c, "drain")
    BY <2>3 DEF PutsBy, Waits
  <2>5. Placed(r, writes, c)
    BY <2>2, <2>4 DEF Placed
  <2>6. Heir(r, writes, Keys, c)
    BY <2>2, <2>4 DEF Heir
  <2>7. Badge(r, writes, Keys, c)
    BY <2>2 DEF Badge
  <2> QED
    BY <1>7, <2>1, <2>5, <2>6, <2>7 DEF Screen
<1>14. ASSUME NEW c \in Ctl, StartGps(c)
       PROVE  \A d \in Ctl : Screen(ctl'[d], writes', Keys', d)
  <2>1. PICK g \in {"on", "off"} : ctl' = [ctl EXCEPT ![c].gps = g] /\ UNCHANGED <<box, writes>>
    BY <1>14 DEF StartGps, File
  <2> DEFINE r == [ctl[c] EXCEPT !.gps = g]
  <2>2. ctl' = [ctl EXCEPT ![c] = r]
    BY <2>1
  <2>3. /\ r.todo = ctl[c].todo /\ r.queued = ctl[c].queued /\ r.draining = ctl[c].draining
        /\ r.life = ctl[c].life /\ r.socket = ctl[c].socket
    BY <1>1 DEF ControllerType
  <2> HIDE DEF r
  <2> QED
    BY <1>8, <2>1, <2>2, <2>3
<1>15. ASSUME NEW c \in Ctl, HandshakeDone(c) \/ Break(c) \/ NoticeDown(c)
       PROVE  \A d \in Ctl : Screen(ctl'[d], writes', Keys', d)
  <2>1. PICK s \in {"open", "dead", "gone"} :
          /\ \/ ctl' = [ctl EXCEPT ![c].socket = s]
             \/ ctl' = [ctl EXCEPT ![c].socket = s, ![c].connected = FALSE]
          /\ ctl[c].socket # "closed" /\ UNCHANGED <<box, writes>>
    BY <1>15 DEF HandshakeDone, Break, NoticeDown, File
  <2> DEFINE r == [ctl[c] EXCEPT !.socket = s]
             p == [ctl[c] EXCEPT !.socket = s, !.connected = FALSE]
  <2>2. ctl' = [ctl EXCEPT ![c] = r] \/ ctl' = [ctl EXCEPT ![c] = p]
    BY <2>1
  <2>3. /\ r.todo = ctl[c].todo /\ r.queued = ctl[c].queued /\ r.draining = ctl[c].draining
        /\ r.life = ctl[c].life /\ r.socket = s
        /\ p.todo = ctl[c].todo /\ p.queued = ctl[c].queued /\ p.draining = ctl[c].draining
        /\ p.life = ctl[c].life /\ p.socket = s
    BY <1>1 DEF ControllerType
  <2>4. {ctl[c].socket, s} \cap {"closed"} = {}
    BY <2>1
  <2> HIDE DEF r, p
  <2> QED
    BY <1>8, <2>1, <2>2, <2>3, <2>4
<1>16. ASSUME NEW c \in Ctl, Dispose(c)
       PROVE  \A d \in Ctl : Screen(ctl'[d], writes', Keys', d)
  <2> DEFINE g == IF ctl[c].gps = "starting" THEN "starting" ELSE "off"
             r == [ctl[c] EXCEPT !.life = "disposed", !.socket = "closed", !.gps = g]
  <2>1. ctl' = [ctl EXCEPT ![c] = r] /\ ctl[c].life = "live" /\ UNCHANGED <<box, writes>>
    BY <1>16 DEF Dispose, File
  <2> HIDE DEF g
  <2>2. /\ r.todo = ctl[c].todo /\ r.queued = ctl[c].queued /\ r.draining = ctl[c].draining
        /\ r.life = "disposed" /\ r.socket = "closed"
    BY <1>1 DEF ControllerType
  <2> HIDE DEF r
  <2> QED
    BY <1>8, <2>1, <2>2
<1>17. ASSUME NEW c \in Ctl, Collect(c)
       PROVE  \A d \in Ctl : Screen(ctl'[d], writes', Keys', d)
  <2>1. /\ ctl' = [ctl EXCEPT ![c] = Dead] /\ UNCHANGED <<box, writes>>
        /\ ~ctl[c].draining /\ ~Waits(writes, c, "put") /\ ~Waits(writes, c, "evict")
    BY <1>17 DEF Collect, File, Awaits, Waits
  <2>2. ~Waits(writes, c, "drain")
    BY <1>6, <2>1 DEF Placed
  <2>3. \A i \in 1..Len(writes) : writes[i].op \in Op
    BY <1>1, Places DEF Writing
  <2>4. \A i \in 1..Len(writes) : writes[i].by # c
    BY <2>1, <2>2, <2>3 DEF Waits, Op
  <2>5. Screen(Dead, writes, Keys, c)
    BY <1>10, <1>11, <2>4
  <2> QED
    BY <1>7, <2>1, <2>5
<1>18. CASE Kill
  <2>1. ctl' = [c \in Ctl |-> Dead] /\ writes' = <<>>
    BY <1>18 DEF Kill
  <2>2. ASSUME NEW c \in Ctl PROVE Screen(ctl'[c], <<>>, Keys', c)
    <3>1. ctl'[c] = Dead
      BY <2>1
    <3> QED
      BY <1>11, <3>1 DEF Screen, Placed, Heir, Badge, Waits
  <2> QED
    BY <2>1, <2>2
<1>19. ASSUME NEW c \in Ctl, Enqueue(c)
       PROVE  \A d \in Ctl : Screen(ctl'[d], writes', Keys', d)
  <2> DEFINE k == ctl[c].next
             f == Count + 1
             w == Write(c, "put", {<<k, f>>})
             r == [ctl[c] EXCEPT !.next = k + 1]
             n == Len(writes) + 1
  <2>1. OneOK(ctl[c], Count) /\ PastOK
    BY DEF TInv, CtlOK
  <2>2. ctl[c].gps = "on" /\ Count < MaxFix /\ Captured(c) /\ Cardinality(Fixes) = Count
    BY <1>19 DEF Enqueue, Count
  <2>3. ctl[c].trip \in Trip /\ k \in Key /\ ctl[c].life = "live"
    BY <1>2, <2>1, <2>2 DEF OneOK, ControllerType
  <2>4. f \in Fix
    BY <2>1, <2>2, <2>3, Capture
  <2>5. writes' = Append(writes, w) /\ ctl' = [ctl EXCEPT ![c] = r]
    BY <1>19, <2>2 DEF Enqueue
  <2>6. w \in Writing /\ w.op = "put" /\ w.by = c
    BY <2>3, <2>4, PutType
  <2>7. /\ r.todo = ctl[c].todo /\ r.queued = ctl[c].queued /\ r.draining = ctl[c].draining
        /\ r.life = ctl[c].life /\ r.socket = ctl[c].socket
    BY <1>1 DEF ControllerType
  <2> HIDE DEF w, r
  <2>8. /\ PutsBy(writes', c) = PutsBy(writes, c) \cup {n}
        /\ \A d \in Ctl : d # c => PutsBy(writes', d) = PutsBy(writes, d)
        /\ \A d \in Ctl : \A i \in PutsBy(writes, d) : i \in Nat /\ i < n
        /\ \A d \in Ctl : \A op : op # "put" => (Waits(writes', d, op) <=> Waits(writes, d, op))
        /\ \A d \in Ctl : (\E i \in 1..Len(writes') : writes'[i].by = d)
                            <=> (\E i \in 1..Len(writes) : writes[i].by = d) \/ c = d
    <3>1. /\ \A d : PutsBy(writes', d) =
                     IF d = c THEN PutsBy(writes, d) \cup {n} ELSE PutsBy(writes, d)
          /\ \A d : \A i \in PutsBy(writes, d) : i \in Nat /\ i < n
      BY <1>1, <2>5, <2>6, AppendWaits
    <3>2. \A d, op : op # "put" => (Waits(writes', d, op) <=> Waits(writes, d, op))
      BY <1>1, <2>5, <2>6, AppendWaits
    <3>3. \A d : (\E i \in 1..Len(writes') : writes'[i].by = d)
                   <=> (\E i \in 1..Len(writes) : writes[i].by = d) \/ c = d
      BY <1>1, <2>5, <2>6, AppendWaits
    <3> QED
      BY <3>1, <3>2, <3>3
  <2>9. ctl'[c] = r /\ \A d \in Ctl : d # c => ctl'[d] = ctl[d]
    BY <1>5, <2>5
  <2>10. \A d \in Ctl : Placed(ctl'[d], writes', d)
    BY <1>6, <2>3, <2>7, <2>8, <2>9 DEF Placed
  <2>11. Heir(r, writes', Keys', c)
    <3> SUFFICES ASSUME NEW d \in Ctl, d # c
                 PROVE  /\ \A i \in PutsBy(writes', c), j \in PutsBy(writes', d) : j < i
                        /\ PutsBy(writes', c) # {}
      BY DEF Heir
    <3>1. \A i \in PutsBy(writes, c), j \in PutsBy(writes, d) : j < i
      BY <1>6, <2>3 DEF Heir
    <3> QED
      BY <2>8, <3>1
  <2>12. Badge(r, writes', Keys', c)
    BY <2>8 DEF Badge
  <2>13. ASSUME NEW d \in Ctl, d # c
         PROVE  Heir(ctl'[d], writes', Keys', d) /\ Badge(ctl'[d], writes', Keys', d)
    <3>1. ctl'[d].life # "live"
      BY <1>2, <2>3, <2>9, <2>13
    <3> QED
      BY <3>1 DEF Heir, Badge
  <2> QED
    BY <2>9, <2>10, <2>11, <2>12, <2>13 DEF Screen
<1>20. ASSUME writes # <<>>, NEW n,
              ctl' = [ctl EXCEPT ![Head(writes).by] = [@ EXCEPT !.queued = n]]
       PROVE  /\ Head(writes) = writes[1] /\ writes[1] \in Writing /\ writes[1].by \in Ctl
              /\ ctl'[writes[1].by] = [ctl[writes[1].by] EXCEPT !.queued = n]
              /\ ctl'[writes[1].by].queued = n
              /\ \A c \in Ctl : /\ c # writes[1].by => ctl'[c] = ctl[c]
                                /\ ctl'[c].todo = ctl[c].todo /\ ctl'[c].life = ctl[c].life
                                /\ ctl'[c].draining = ctl[c].draining
                                /\ ctl'[c].socket = ctl[c].socket
  <2>1. Head(writes) = writes[1] /\ 1 \in 1..Len(writes) /\ writes[1] \in Writing
    BY <1>1, <1>20, Places
  <2> DEFINE c == writes[1].by
             r == [ctl[c] EXCEPT !.queued = n]
  <2>2. c \in Ctl
    BY <2>1 DEF Writing
  <2>3. ctl' = [ctl EXCEPT ![c] = r]
    BY <1>20, <2>1
  <2>4. /\ r.todo = ctl[c].todo /\ r.queued = n /\ r.draining = ctl[c].draining
        /\ r.life = ctl[c].life /\ r.socket = ctl[c].socket
    BY <1>1, <2>2 DEF ControllerType
  <2> HIDE DEF r
  <2>5. ctl'[c] = r /\ \A d \in Ctl : d # c => ctl'[d] = ctl[d]
    BY <1>5, <2>2, <2>3
  <2> QED
    BY <2>1, <2>2, <2>4, <2>5 DEF r
\* The first write is done and the badge of its controller set.
<1>21. ASSUME writes # <<>>, writes' = Tail(writes), Keys' = Keys,
              ctl' = [ctl EXCEPT ![Head(writes).by] = [@ EXCEPT !.queued = Cardinality(Keys)]]
       PROVE  \A c \in Ctl : Screen(ctl'[c], writes', Keys', c)
  <2> TAKE c \in Ctl
  <2> DEFINE n == Cardinality(Keys)
  <2>1. /\ c # writes[1].by => ctl'[c] = ctl[c]
        /\ c = writes[1].by => ctl'[c].queued = n
        /\ ctl'[c].todo = ctl[c].todo /\ ctl'[c].life = ctl[c].life
        /\ ctl'[c].draining = ctl[c].draining /\ ctl'[c].socket = ctl[c].socket
    BY <1>20, <1>21
  <2>2. /\ Placed(ctl[c], writes', c) /\ Heir(ctl[c], writes', Keys, c)
        /\ writes[1].by # c => Screen(ctl[c], writes', Keys, c)
    BY <1>1, <1>3, <1>21, ScreenTail
  <2>3. CASE writes[1].by # c
    BY <1>21, <2>1, <2>2, <2>3
  <2>4. CASE writes[1].by = c
    <3>1. Placed(ctl'[c], writes', c)
      BY <2>1, <2>2 DEF Placed
    <3>2. Heir(ctl'[c], writes', Keys', c)
      BY <1>21, <2>1, <2>2 DEF Heir
    <3>3. Badge(ctl'[c], writes', Keys', c)
      BY <1>21, <2>1, <2>4 DEF Badge
    <3> QED
      BY <3>1, <3>2, <3>3 DEF Screen
  <2> QED
    BY <2>3, <2>4
<1>22. CASE Evicted
  <2>1. /\ writes # <<>> /\ writes' = Tail(writes) /\ Keys' = Keys
        /\ ctl' = [ctl EXCEPT ![Head(writes).by] = [@ EXCEPT !.queued = Cardinality(Keys)]]
    BY <1>22 DEF Evicted, Shows, Keys
  <2> QED
    BY <1>21, <2>1
<1>23. CASE Added
  <2> DEFINE K == Oldest(Cardinality(Keys) - MaxEntries)
             d == Head(writes).by
             v == Write(d, "evict", Entries(K))
  <2>1. /\ writes # <<>> /\ Head(writes).op = "put" /\ box' = Without(box, K)
        /\ writes' = IF K = {} THEN Tail(writes) ELSE Append(Tail(writes), v)
        /\ IF K = {} THEN ctl' = [ctl EXCEPT ![d] = [@ EXCEPT !.queued = Cardinality(Keys)]]
           ELSE UNCHANGED ctl
    BY <1>23 DEF Added, Shows, Keys
  <2>2. K \in SUBSET Keys
    BY DEF Oldest
  <2> HIDE DEF K
  <2>3. CASE K = {}
    <3>1. Keys' = Keys
      BY <2>1, <2>3 DEF Without, Keys
    <3> QED
      BY <1>21, <2>1, <2>3, <3>1
  <2>4. CASE K # {}
    <3>1. /\ d = writes[1].by /\ writes[1].op = "put" /\ writes[1] \in Writing
          /\ Tail(writes) \in Seq(Writing) /\ 1 \in 1..Len(writes)
      BY <1>1, <2>1, Places
    <3>2. d \in Ctl /\ 1 \in PutsBy(writes, d)
      BY <3>1 DEF Writing, PutsBy
    <3> HIDE DEF d
    <3>3. v \in Writing /\ v.op = "evict" /\ v.by = d
      <4>1. v \in Writing /\ v.op = "evict"
        BY <1>1, <2>2, <3>2, DeleteType
      <4> QED
        BY <4>1 DEF Write
    <3>4. writes' = Append(Tail(writes), v) /\ ctl' = ctl /\ Keys' \subseteq Keys
      BY <2>1, <2>4 DEF Without, Keys
    <3> HIDE DEF v
    <3>5. ctl[d].life \in {"live", "disposed"}
      BY <1>6, <3>1, <3>2 DEF Placed
    <3> SUFFICES ASSUME NEW c \in Ctl PROVE Screen(ctl'[c], writes', Keys', c)
      OBVIOUS
    <3>6. Placed(ctl[c], Tail(writes), c) /\ Heir(ctl[c], Tail(writes), Keys, c)
      BY <1>1, <1>3, <2>1, ScreenTail
    <3>7. /\ \A e : PutsBy(writes', e) = PutsBy(Tail(writes), e)
          /\ \A op : Waits(writes', c, op) <=> Waits(Tail(writes), c, op) \/ (op = "evict" /\ c = d)
          /\ (\E i \in 1..Len(writes') : writes'[i].by = c)
               <=> (\E i \in 1..Len(Tail(writes)) : Tail(writes)[i].by = c) \/ c = d
      <4>1. ASSUME NEW ws \in Seq(Writing), NEW w \in Writing, w.op = "evict", w.by = d
            PROVE  /\ \A e : PutsBy(Append(ws, w), e) = PutsBy(ws, e)
                   /\ \A op : Waits(Append(ws, w), c, op)
                                <=> Waits(ws, c, op) \/ (op = "evict" /\ c = d)
                   /\ (\E i \in 1..Len(Append(ws, w)) : Append(ws, w)[i].by = c)
                        <=> (\E i \in 1..Len(ws) : ws[i].by = c) \/ c = d
        BY <4>1, AppendWaits
      <4> QED
        BY <3>1, <3>3, <3>4, <4>1
    <3>8. Placed(ctl'[c], writes', c)
      BY <3>4, <3>5, <3>6, <3>7 DEF Placed
    <3>9. Heir(ctl'[c], writes', Keys', c)
      BY <3>4, <3>6, <3>7 DEF Heir
    <3>10. Badge(ctl'[c], writes', Keys', c)
      <4>1. CASE c = d
        BY <3>7, <4>1 DEF Badge
      <4>2. CASE c # d
        <5> SUFFICES ASSUME ctl[c].life = "live", ~ctl[c].draining
                     PROVE  PutsBy(writes', c) # {}
          BY <3>4 DEF Badge
        <5>1. ctl[c].todo = {}
          BY <1>6 DEF Placed
        <5>2. PutsBy(writes, c) # {}
          BY <1>6, <2>2, <2>4, <3>2, <4>2, <5>1 DEF Heir
        <5>3. PutsBy(Tail(writes), c) # {}
          BY <1>1, <2>1, <3>1, <4>2, <5>2, TailWaits
        <5> QED
          BY <3>7, <5>3
      <4> QED
        BY <4>1, <4>2
    <3> QED
      BY <3>8, <3>9, <3>10 DEF Screen
  <2> QED
    BY <2>3, <2>4
<1>24. CASE Deleted
  <2>1. /\ writes # <<>> /\ Head(writes).op = "drain" /\ writes' = Tail(writes)
        /\ ctl' = ctl /\ Keys' = Keys
    BY <1>24 DEF Deleted, Keys
  <2>2. writes[1].op = "drain"
    BY <1>1, <2>1, Places
  <2> QED
    BY <1>1, <1>3, <2>1, <2>2, ScreenTail
<1>25. ASSUME NEW c \in Ctl, DrainNext(c)
       PROVE  \A d \in Ctl : Screen(ctl'[d], writes', Keys', d)
  <2> DEFINE k == First(ctl[c].todo)
             w == Write(c, "drain", Entries({k}))
             Taken(K) == [ctl[c] EXCEPT !.todo = K]
  <2>1. ctl[c].draining
    BY <1>25 DEF DrainNext
  <2>2. ASSUME NEW K
        PROVE  /\ Taken(K).todo = K /\ Taken(K).queued = ctl[c].queued
               /\ Taken(K).draining = ctl[c].draining
               /\ Taken(K).life = ctl[c].life /\ Taken(K).socket = ctl[c].socket
    BY <1>1 DEF ControllerType
  <2>3. ASSUME NEW K PROVE Placed(Taken(K), writes, c) /\ Badge(Taken(K), writes, Keys, c)
    <3>1. Placed(Taken(K), writes, c)
      BY <1>6, <2>1, <2>2 DEF Placed
    <3>2. Badge(Taken(K), writes, Keys, c)
      BY <2>1, <2>2 DEF Badge
    <3> QED
      BY <3>1, <3>2
  <2>4. CASE k \notin Keys /\ ctl' = [ctl EXCEPT ![c].todo = @ \ {k}] /\ UNCHANGED <<box, writes>>
    <3> DEFINE r == Taken(ctl[c].todo \ {k})
    <3>1. ctl' = [ctl EXCEPT ![c] = r]
      BY <2>4
    <3>2. Heir(r, writes, Keys, c)
      BY <1>6, <2>2, <2>4 DEF Heir
    <3>3. Screen(r, writes, Keys, c)
      BY <2>3, <3>2 DEF Screen
    <3> HIDE DEF r
    <3> QED
      BY <1>7, <2>4, <3>1, <3>3
  <2>5. CASE ctl[c].socket = "closed" /\ ctl' = [ctl EXCEPT ![c].todo = {}]
             /\ UNCHANGED <<box, writes>>
    <3> DEFINE r == Taken({})
    <3>1. ctl' = [ctl EXCEPT ![c] = r]
      BY <2>5
    <3>2. ctl[c].life # "live"
      BY <1>6, <2>5 DEF Placed
    <3>3. Heir(r, writes, Keys, c)
      BY <2>2, <3>2 DEF Heir
    <3>4. Screen(r, writes, Keys, c)
      BY <2>3, <3>3 DEF Screen
    <3> HIDE DEF r
    <3> QED
      BY <1>7, <2>5, <3>1, <3>4
  <2>6. CASE /\ k \in Keys /\ ctl[c].socket # "closed"
             /\ box' = Without(box, {k}) /\ writes' = Append(writes, w)
             /\ ctl' = [ctl EXCEPT ![c].todo = @ \ {k}]
    <3> DEFINE r == Taken(ctl[c].todo \ {k})
    <3>1. ctl' = [ctl EXCEPT ![c] = r] /\ Keys' = Keys \ {k}
      BY <2>6 DEF Without, Keys
    <3>2. ctl[c].life = "live"
      BY <1>6, <2>1, <2>6 DEF Placed
    <3>3. {k} \in SUBSET Keys
      BY <2>6
    <3>4. w \in Writing /\ w.op = "drain" /\ w.by = c
      <4>1. w \in Writing /\ w.op = "drain"
        BY <1>1, <3>3, DeleteType
      <4> QED
        BY <4>1 DEF Write
    <3> HIDE DEF w
    <3>5. Heir(r, writes, Keys', c)
      BY <1>6, <2>2, <3>1 DEF Heir
    <3>6. Screen(r, writes, Keys', c)
      <4>1. Badge(r, writes, Keys', c)
        BY <2>1, <2>2 DEF Badge
      <4> QED
        BY <2>3, <3>5, <4>1 DEF Screen
    <3>7. r.life = "live" /\ r.draining
      BY <2>1, <2>2, <3>2
    <3> HIDE DEF r
    <3>8. Screen(r, writes', Keys', c)
      BY <1>1, <2>6, <3>4, <3>6, <3>7, ScreenAppend
    <3>9. ASSUME NEW d \in Ctl, d # c PROVE Screen(ctl[d], writes', Keys', d)
      <4>1. ctl[d].life # "live"
        BY <1>2, <3>2, <3>9
      <4>2. Screen(ctl[d], writes, Keys', d)
        BY <1>6, <4>1 DEF Screen, Heir, Badge
      <4> QED
        BY <1>1, <2>6, <3>4, <3>9, <4>2, ScreenAppend
    <3> QED
      BY <1>5, <3>1, <3>8, <3>9
  <2> HIDE DEF k, w, Taken
  <2> QED
    BY <1>25, <2>4, <2>5, <2>6 DEF DrainNext, k, w
<1>26. ASSUME NEW c \in Ctl, DrainDone(c)
       PROVE  \A d \in Ctl : Screen(ctl'[d], writes', Keys', d)
  <2> DEFINE r == [ctl[c] EXCEPT !.draining = FALSE, !.queued = Cardinality(Keys)]
  <2>1. /\ ctl' = [ctl EXCEPT ![c] = r] /\ UNCHANGED <<box, writes>>
        /\ ctl[c].draining /\ ~Waits(writes, c, "drain") /\ ctl[c].todo = {}
    BY <1>26 DEF DrainDone, File, Awaits, Waits
  <2>2. /\ r.todo = ctl[c].todo /\ r.queued = Cardinality(Keys) /\ ~r.draining
        /\ r.life = ctl[c].life /\ r.socket = ctl[c].socket
    BY <1>1 DEF ControllerType
  <2> HIDE DEF r
  <2>3. Placed(r, writes, c)
    BY <1>6, <2>1, <2>2 DEF Placed
  <2>4. Heir(r, writes, Keys, c)
    BY <1>6, <2>2 DEF Heir
  <2>5. Badge(r, writes, Keys, c)
    BY <2>2 DEF Badge
  <2> QED
    BY <1>7, <2>1, <2>3, <2>4, <2>5 DEF Screen
<1>27. ASSUME NEW c \in Ctl, Deliver(c) \/ PublishLive(c)
       PROVE  UNCHANGED <<box, writes, ctl>>
  BY <1>27 DEF Deliver, PublishLive, File
<1>28. CASE UNCHANGED vars
  BY <1>9, <1>28 DEF vars
<1> QED
  BY <1>9, <1>12, <1>13, <1>14, <1>15, <1>16, <1>17, <1>18, <1>19, <1>22, <1>23, <1>24,
     <1>25, <1>26, <1>27, <1>28, Steps

-----------------------------------------------------------------------------
(* Theorems                                                                *)

\* The first state.
LEMMA Initially == ASSUME Init PROVE Inductive
<1>1. TInv
  BY TypeInit
<1>2. TurnInv
  <2>1. \A c \in Ctl : ctl[c].life = "none" /\ ctl[c].gps = "off"
    BY DeadOK DEF Init
  <2> QED
    BY <2>1 DEF TurnInv
<1>3. FileInv(disk, writes, box)
  <2>1. writes = <<>> /\ disk = box /\ DOMAIN disk = {}
    BY DEF Init
  <2>2. \A k, l \in DOMAIN disk : k < l => disk[k] < disk[l]
    BY <2>1
  <2>3. Ordered(disk, <<>>)
    BY <2>2 DEF Ordered
  <2>4. DeletesOnce(disk, <<>>)
    BY DEF DeletesOnce
  <2>5. Catches(disk, <<>>, disk)
    <3>1. \A k, f : Born(disk, <<>>, 0, k, f) <=> k \in DOMAIN disk /\ disk[k] = f
      BY DEF Born
    <3>2. \A j, k, f : ~Gone(<<>>, j, k, f)
      BY DEF Gone
    <3> QED
      BY <3>1, <3>2 DEF Catches
  <2> QED
    BY <2>1, <2>3, <2>4, <2>5 DEF FileInv
<1>4. KeptInv /\ NoFrameLost
  BY DEF Init, KeptInv, NoFrameLost
<1>5. KeepsNewest
  <2>1. evicted = {} /\ Keys = {} /\ writes = <<>>
    BY DEF Init, Keys
  <2>2. PutsOf(writes) = {} /\ Cardinality(Keys) = 0
    BY <2>1, FS_EmptySet DEF PutsOf
  <2>3. Cardinality({i \in 1..Len(writes) : writes[i].op = "put"}) = 0
    BY <2>2, FS_EmptySet DEF PutsOf
  <2> QED
    BY <2>1, <2>2, <2>3, LiveTripConstants DEF KeepsNewest
<1>6. OnceInv /\ CopiesBounded
  <2>1. /\ InBox = {} /\ kills = 0 /\ \A f \in Fix : copies[f] = 0
        /\ \A c \in Ctl : wire[c] = <<>>
    BY DEF Init, InBox, Keys
  <2>2. Carried = {}
    BY <2>1 DEF Carried
  <2> QED
    BY <2>1, <2>2 DEF OnceInv, CopiesBounded
<1>7. LeavingInv /\ LeftoverInv /\ BadgeInv
  <2>1. ASSUME NEW c \in Ctl PROVE Screen(ctl[c], writes, Keys, c)
    <3>1. /\ ctl[c].life = "none" /\ ~ctl[c].draining /\ ctl[c].todo = {}
          /\ writes = <<>>
      BY DEF Init, Dead
    <3> QED
      BY <3>1 DEF Screen, Placed, Heir, Badge, Waits
  <2> QED
    BY <2>1, Screens
<1> QED
  BY <1>1, <1>2, <1>3, <1>4, <1>5, <1>6, <1>7 DEF Inductive

\* Every step.
LEMMA Inductively == ASSUME Inductive, [Next]_vars PROVE Inductive'
<1>1. TInv /\ TInv'
  BY TypeStep DEF Inductive
<1>2. ASSUME InTurn
      PROVE  /\ TurnInv' /\ FileInv(disk', writes', box') /\ KeptInv' /\ NoFrameLost'
             /\ KeepsNewest' /\ OnceInv' /\ CopiesBounded'
             /\ LeavingInv' /\ LeftoverInv' /\ BadgeInv'
  <2>1. /\ TurnInv /\ FileInv(disk, writes, box) /\ KeptInv /\ NoFrameLost
        /\ KeepsNewest /\ OnceInv /\ CopiesBounded
        /\ LeavingInv /\ LeftoverInv /\ BadgeInv
    BY <1>2 DEF Inductive
  <2>2. TurnInv' /\ FileInv(disk', writes', box') /\ KeptInv' /\ NoFrameLost'
    BY <1>1, <1>2, <2>1, TurnStep, CatchesStep, KeptStep
  <2>3. KeyOrder
    BY <1>1, <2>1, InboxOrder
  <2>4. KeepsNewest' /\ OnceInv' /\ CopiesBounded'
    BY <1>1, <2>1, <2>3, NewestStep, OnceStep
  <2>5. LeavingInv' /\ LeftoverInv' /\ BadgeInv'
    BY <1>1, <1>2, <2>1, ScreenStep
  <2> QED
    BY <2>2, <2>4, <2>5
<1>3. InTurn' = InTurn
  BY DEF InTurn
<1> QED
  BY <1>1, <1>2, <1>3 DEF Inductive

\* So it holds always.
LEMMA Always == Spec => []Inductive
BY Initially, Inductively, PTL DEF Spec

\* OutboundQueue and LiveTripController: the inductive invariant.
THEOREM Invariance == Spec => []IInv
<1>1. Inductive => IInv
  BY Parts DEF Inductive, IInv
<1> QED
  BY <1>1, Always, PTL

\* The state of controllers, box, file and connections has its types, with any
\* number of screens at a time.
THEOREM TypeCorrect == Spec => []TypeOK
<1>1. IInv => TypeOK
  BY DEF IInv
<1> QED
  BY <1>1, Invariance, PTL

\* "keyed by an auto-incrementing int so order is preserved" (OutboundQueue): one
\* screen at a time, the keys of the queue are in the order of capture, through
\* any kills, evictions and drains.
THEOREM KeysInOrder == InTurn => (Spec => []KeyOrder)
<1> SUFFICES ASSUME InTurn PROVE Spec => []KeyOrder
  OBVIOUS
<1>1. Inductive => KeyOrder
  BY InboxOrder DEF Inductive
<1> QED
  BY <1>1, Always, PTL

\* A frame whose put has completed is not lost but on the way to the backend or
\* to make room (OutboundQueue.add and drain, LiveTripController.dispose).
THEOREM NothingQueuedIsLost == InTurn => (Spec => []NoFrameLost)
<1> SUFFICES ASSUME InTurn PROVE Spec => []NoFrameLost
  OBVIOUS
<1>1. IInv => NoFrameLost
  BY DEF IInv
<1> QED
  BY <1>1, Invariance, PTL

\* "Cap the queue at the most recent" frames (OutboundQueue.add): with one screen
\* at a time and until the app is killed, what was evicted is older than all that
\* is left, and only puts under way exceed the maximum.
THEOREM NewestAreKept == InTurn => (Spec => []KeepsNewest)
<1> SUFFICES ASSUME InTurn PROVE Spec => []KeepsNewest
  OBVIOUS
<1>1. IInv => KeepsNewest
  BY DEF IInv
<1> QED
  BY <1>1, Invariance, PTL

\* A frame comes in at most once more than the app was killed, whatever breaks
\* (OutboundQueue.drain deletes what it has sent).
THEOREM SentOnceAKill == InTurn => (Spec => []CopiesBounded)
<1> SUFFICES ASSUME InTurn PROVE Spec => []CopiesBounded
  OBVIOUS
<1>1. IInv => CopiesBounded
  BY DEF IInv
<1> QED
  BY <1>1, Invariance, PTL

\* The badge of the live screen tells the length of the queue when nothing is being
\* drained or written, though puts of an earlier screen may have been left over
\* (LiveTripController._publish and the end of drain).
THEOREM BadgeIsTrue == InTurn => (Spec => []BadgeAgrees)
<1> SUFFICES ASSUME InTurn PROVE Spec => []BadgeAgrees
  OBVIOUS
<1>1. IInv => BadgeAgrees
  <2>1. writes = <<>> => \A c, op : Puts(c) = {} /\ ~Awaits(c, op)
    BY DEF Puts, Awaits
  <2> QED
    BY <2>1 DEF IInv, BadgeInv, BadgeAgrees
<1> QED
  BY <1>1, Invariance, PTL
=============================================================================
