-------------------------- MODULE SchemaRunsProofs ---------------------------
(***************************************************************************)
(* Proofs about Schema, from the invariant of FeedAndSchemaProofs: that    *)
(* the tables of the head have what the backend counts on, and that a run  *)
(* of alembic by itself is refused only for the roles, for any number of   *)
(* runs at a time between any revisions, and whatever words the handlers   *)
(* write.                                                                  *)
(***************************************************************************)
EXTENDS FeedAndSchemaProofs

-----------------------------------------------------------------------------
(* What a table has along its course.                                      *)

LEMMA CourseSteps ==
  ASSUME NEW ss, IsSeq(ss), NEW t, NEW o
  PROVE  /\ Len(ss) \in Nat
         /\ Course(t, o, ss)[0] = o
         /\ \A k \in 1..Len(ss) :
              Course(t, o, ss)[k] = StepOn(t, Course(t, o, ss)[k - 1], ss[k])
<1>1. Len(ss) \in Nat /\ IsCourse(Course(t, o, ss), t, o, ss)
  BY CourseExists DEF IsSeq
<1> QED
  BY <1>1 DEF IsCourse, Follows

\* The table is there, with the object a.
Keep(o, a) == o # {} /\ \A x \in o : a \in x
\* The statement s gives the table t the object a.
Gives(s, t, a) == s.on = t /\ s.do \in {"create", "add"} /\ a \in s.shape

\* On the way up no table and nothing but a CHECK goes.
LEMMA StepKeeps ==
  ASSUME NEW s, UpOnly(s), NEW t, NEW o, o # {}
  PROVE  /\ StepOn(t, o, s) # {}
         /\ \A a : a.is # "check" /\ Keep(o, a) => Keep(StepOn(t, o, s), a)
<1>1. CASE s.on # t
  BY <1>1 DEF StepOn
<1>2. CASE s.on = t /\ s.do = "create"
  BY <1>2 DEF StepOn
<1>3. CASE s.on = t /\ s.do \in {"add", "drop"}
  <2>1. StepOn(t, o, s) = {Altered(x, s) : x \in o}
    BY <1>3 DEF StepOn
  <2>2. StepOn(t, o, s) # {}
    BY <2>1
  <2>3. ASSUME NEW a, a.is # "check", Keep(o, a), NEW x \in o
        PROVE  a \in Altered(x, s)
    <3>1. a \in x
      BY <2>3 DEF Keep
    <3>2. CASE s.do = "add"
      BY <3>1, <3>2 DEF Altered
    <3>3. CASE s.do = "drop"
      <4>1. s.is = "check"
        BY <3>3 DEF UpOnly
      <4> QED
        BY <2>3, <3>1, <3>3, <4>1 DEF Altered
    <3> QED
      BY <1>3, <3>2, <3>3
  <2> QED
    BY <2>1, <2>2, <2>3 DEF Keep
<1> QED
  BY <1>1, <1>2, <1>3 DEF UpOnly

LEMMA CourseKeeps ==
  ASSUME NEW ss, GoesUp(ss), NEW t, NEW o, NEW n \in 0..Len(ss), NEW m \in 0..n,
         Course(t, o, ss)[m] # {}
  PROVE  /\ Course(t, o, ss)[n] # {}
         /\ \A a : a.is # "check" /\ Keep(Course(t, o, ss)[m], a)
                     => Keep(Course(t, o, ss)[n], a)
<1> DEFINE h == Course(t, o, ss)
           T == {k \in m..n : /\ h[k] # {}
                              /\ \A a : a.is # "check" /\ Keep(h[m], a) => Keep(h[k], a)}
<1>1. Len(ss) \in Nat /\ \A k \in 1..Len(ss) : h[k] = StepOn(t, h[k - 1], ss[k]) /\ UpOnly(ss[k])
  BY CourseSteps DEF GoesUp
<1> HIDE DEF h
<1>2. m \in T
  BY <1>1 DEF h
<1>3. ASSUME NEW k \in m..(n - 1), k \in T PROVE k + 1 \in T
  <2>1. k + 1 \in 1..Len(ss) /\ (k + 1) - 1 = k /\ k + 1 \in m..n
    BY <1>1
  <2>2. h[k + 1] = StepOn(t, h[k], ss[k + 1]) /\ UpOnly(ss[k + 1])
    BY <1>1, <2>1
  <2>3. h[k] # {}
    BY <1>3
  <2>4. /\ h[k + 1] # {}
        /\ \A a : a.is # "check" /\ Keep(h[k], a) => Keep(h[k + 1], a)
    BY <2>2, <2>3, StepKeeps
  <2> QED
    BY <1>3, <2>1, <2>4
<1>4. \A k \in m..n : k \in T
  <2> HIDE DEF T
  <2>1. m \in Nat /\ n \in Nat
    BY <1>1
  <2> QED
    BY <1>2, <1>3, <2>1, Upwards
<1>5. n \in m..n
  BY <1>1
<1> QED
  BY <1>4, <1>5 DEF h

\* What a table has it has had from the start or been given.
LEMMA StepOrigin ==
  ASSUME NEW s, UpOnly(s) \/ DownOnly(s) \/ IsStamp(s), NEW t, NEW o,
         NEW x \in StepOn(t, o, s), NEW a \in x
  PROVE  (\E y \in o : a \in y) \/ Gives(s, t, a)
<1>1. CASE s.on # t
  BY <1>1 DEF StepOn
<1>2. CASE s.on = t /\ s.do = "create"
  BY <1>2 DEF StepOn, Gives
<1>3. CASE s.on = t /\ s.do \in {"add", "drop"}
  <2>1. PICK y \in o : x = Altered(y, s)
    BY <1>3 DEF StepOn
  <2>2. CASE s.do = "add"
    BY <1>3, <2>1, <2>2 DEF Altered, Gives
  <2>3. CASE s.do = "drop"
    BY <2>1, <2>3 DEF Altered
  <2> QED
    BY <1>3, <2>2, <2>3
<1>4. CASE s.on = t /\ s.do = "droptable"
  BY <1>4 DEF StepOn
<1>5. CASE s.on = t /\ s.do = "stamp"
  BY <1>5 DEF StepOn
<1> QED
  BY <1>1, <1>2, <1>3, <1>4, <1>5 DEF UpOnly, DownOnly, IsStamp

LEMMA CourseOrigin ==
  ASSUME NEW ss, IsSeq(ss), \A i \in 1..Len(ss) : UpOnly(ss[i]) \/ DownOnly(ss[i]) \/ IsStamp(ss[i]),
         NEW t, NEW o, NEW n \in 0..Len(ss), NEW x \in Course(t, o, ss)[n], NEW a \in x
  PROVE  (\E y \in o : a \in y) \/ (\E i \in 1..n : Gives(ss[i], t, a))
<1> DEFINE h == Course(t, o, ss)
           From(k) == (\E y \in o : a \in y) \/ (\E i \in 1..k : Gives(ss[i], t, a))
           T == {k \in 0..n : (\E z \in h[k] : a \in z) => From(k)}
<1>1. /\ Len(ss) \in Nat /\ h[0] = o
      /\ \A k \in 1..Len(ss) : h[k] = StepOn(t, h[k - 1], ss[k])
  BY CourseSteps
<1> HIDE DEF h
<1>2. 0 \in T
  BY <1>1
<1>3. ASSUME NEW k \in 0..(n - 1), k \in T PROVE k + 1 \in T
  <2>1. k + 1 \in 1..Len(ss) /\ (k + 1) - 1 = k /\ k + 1 \in 0..n
    BY <1>1
  <2>2. h[k + 1] = StepOn(t, h[k], ss[k + 1])
    BY <1>1, <2>1
  <2>3. ASSUME NEW z \in h[k + 1], a \in z PROVE From(k + 1)
    <3>1. (\E y \in h[k] : a \in y) \/ Gives(ss[k + 1], t, a)
      <4>1. UpOnly(ss[k + 1]) \/ DownOnly(ss[k + 1]) \/ IsStamp(ss[k + 1])
        BY <2>1
      <4>2. z \in StepOn(t, h[k], ss[k + 1])
        BY <2>2
      <4> QED
        BY <2>3, <4>1, <4>2, StepOrigin
    <3>2. CASE \E y \in h[k] : a \in y
      <4>1. From(k)
        BY <1>3, <3>2
      <4>2. 1..k \subseteq 1..(k + 1)
        BY <1>1
      <4> QED
        BY <4>1, <4>2
    <3>3. CASE Gives(ss[k + 1], t, a)
      <4>1. k + 1 \in 1..(k + 1)
        BY <1>1
      <4> QED
        BY <3>3, <4>1
    <3> QED
      BY <3>1, <3>2, <3>3
  <2> HIDE DEF From
  <2> QED
    BY <2>1, <2>3
<1>4. \A k \in 0..n : k \in T
  <2> HIDE DEF T
  <2>1. 0 \in Nat /\ n \in Nat
    BY <1>1
  <2> QED
    BY <1>2, <1>3, <2>1, Upwards
<1>5. n \in 0..n
  BY <1>1
<1>6. From(n)
  <2> HIDE DEF From
  <2> QED
    BY <1>4, <1>5 DEF h
<1> QED
  BY <1>6

-----------------------------------------------------------------------------
(* When no statement of a script is refused for what it finds, or does not *)
(* find, among the tables.                                                 *)

Tables == FirstTables \cup NewTables \cup {"alembic_version"}

\* The tables, as sets of at most one shape, are such that s is not refused.
Passes(g, s) ==
  /\ s.on \in Tables
  /\ s.do = "create" => g[s.on] = {}
  /\ s.do \in {"create", "add"} =>
       \A to \in Targets(s.shape) \ {s.on} : to \in Tables /\ g[to] # {}
  /\ s.do = "add" =>
       g[s.on] # {} /\ \A x \in g[s.on], a \in s.shape : ~Exists(x, a.is, a.name)
  /\ s.do = "drop" => g[s.on] # {} /\ \A x \in g[s.on] : Exists(x, s.is, s.name)
  /\ s.do = "droptable" /\ ~s.cascade =>
       g[s.on] # {} /\ \A t \in Tables \ {s.on} : \A x \in g[t] : s.on \notin Targets(x)

Here(f, ss, n) == [t \in Tables |-> Course(t, f[t], ss)[n]]
After(f, ss) == [t \in Tables |-> End(t, f[t], ss)]
Smooth(f, ss) == \A n \in 1..Len(ss) : Passes(Here(f, ss, n - 1), ss[n])

LEMMA SmoothJoin ==
  ASSUME NEW f, NEW a, NEW b, IsSeq(a), IsSeq(b), Smooth(f, a), Smooth(After(f, a), b)
  PROVE  Smooth(f, a \o b)
<1>1. PICK V, W : a \in Seq(V) /\ b \in Seq(W)
  BY DEF IsSeq
<1> DEFINE U == V \cup W
           ab == a \o b
<1>2. a \in Seq(U) /\ b \in Seq(U)
  BY <1>1
<1>3. /\ Len(ab) = Len(a) + Len(b) /\ Len(a) \in Nat /\ Len(b) \in Nat
      /\ \A i \in 1..Len(a) : ab[i] = a[i]
      /\ \A i \in 1..Len(b) : ab[Len(a) + i] = b[i]
  BY Joined
<1>4. ASSUME NEW t, NEW o
      PROVE  /\ \A k \in 0..Len(a) : Course(t, o, ab)[k] = Course(t, o, a)[k]
             /\ \A k \in 0..Len(b) :
                  Course(t, o, ab)[Len(a) + k] = Course(t, End(t, o, a), b)[k]
  BY <1>2, CourseJoin
<1> HIDE DEF ab, U
<1>5. ASSUME NEW n \in 1..Len(a) PROVE Passes(Here(f, ab, n - 1), ab[n])
  <2>1. n - 1 \in 0..Len(a)
    BY <1>3
  <2>2. Here(f, ab, n - 1) = Here(f, a, n - 1)
    BY <1>4, <2>1 DEF Here
  <2> QED
    BY <1>3, <2>2 DEF Smooth
<1>6. ASSUME NEW n \in 1..Len(b) PROVE Passes(Here(f, ab, Len(a) + n - 1), ab[Len(a) + n])
  <2>1. n - 1 \in 0..Len(b) /\ Len(a) + n - 1 = Len(a) + (n - 1)
    BY <1>3
  <2>2. Here(f, ab, Len(a) + n - 1) = Here(After(f, a), b, n - 1)
    BY <1>4, <2>1 DEF Here, After
  <2> QED
    BY <1>3, <2>2 DEF Smooth
<1>7. ASSUME NEW n \in 1..Len(ab) PROVE Passes(Here(f, ab, n - 1), ab[n])
  <2>1. CASE n <= Len(a)
    BY <1>3, <1>5, <2>1
  <2>2. CASE n > Len(a)
    <3> DEFINE k == n - Len(a)
    <3>1. k \in 1..Len(b) /\ n = Len(a) + k
      BY <1>3, <2>2
    <3> HIDE DEF k
    <3>2. Passes(Here(f, ab, Len(a) + k - 1), ab[Len(a) + k])
      BY <1>6, <3>1
    <3> QED
      BY <3>1, <3>2
  <2> QED
    BY <1>3, <2>1, <2>2
<1> QED
  BY <1>7 DEF Smooth, ab

\* Before the statement i the table t is there, or has been created.
Present(f, ss, i, t) == f[t] # {} \/ \E j \in 1..(i - 1) : ss[j].on = t /\ ss[j].do = "create"
\* No statement before i was about its table, which was not there.
Clear(f, ss, i) == f[ss[i].on] = {} /\ \A j \in 1..(i - 1) : ss[j].on # ss[i].on
\* Neither the table, nor a statement before i, has anything like what i adds.
Novel(f, ss, i) ==
  \A a \in ss[i].shape :
    /\ \A x \in f[ss[i].on] : ~Exists(x, a.is, a.name)
    /\ \A j \in 1..(i - 1) : \A b :
         Gives(ss[j], ss[i].on, b) => b.is # a.is \/ b.name # a.name

LEMMA PresentThere ==
  ASSUME NEW ss, GoesUp(ss), NEW i \in 1..Len(ss), NEW f, NEW t, Present(f, ss, i, t)
  PROVE  Course(t, f[t], ss)[i - 1] # {}
<1> DEFINE h == Course(t, f[t], ss)
<1>1. /\ IsSeq(ss) /\ Len(ss) \in Nat /\ h[0] = f[t]
      /\ \A k \in 1..Len(ss) : h[k] = StepOn(t, h[k - 1], ss[k])
  BY CourseSteps DEF GoesUp
<1> HIDE DEF h
<1>2. PICK m \in 0..(i - 1) : h[m] # {}
  <2>1. CASE f[t] # {}
    BY <1>1, <2>1
  <2>2. CASE \E j \in 1..(i - 1) : ss[j].on = t /\ ss[j].do = "create"
    <3>1. PICK j \in 1..(i - 1) : ss[j].on = t /\ ss[j].do = "create"
      BY <2>2
    <3>2. j \in 1..Len(ss) /\ j \in 0..(i - 1)
      BY <1>1
    <3>3. h[j] = StepOn(t, h[j - 1], ss[j])
      BY <1>1, <3>2
    <3>4. h[j] # {}
      BY <3>1, <3>3 DEF StepOn
    <3> QED
      BY <3>2, <3>4
  <2> QED
    BY <2>1, <2>2 DEF Present
<1>3. i - 1 \in 0..Len(ss)
  BY <1>1
<1>4. h[i - 1] # {}
  BY <1>2, <1>3, CourseKeeps DEF h
<1> QED
  BY <1>4 DEF h

\* What a statement on the way up has to find.
LEMMA UpPasses ==
  ASSUME NEW ss, GoesUp(ss), NEW i \in 1..Len(ss), NEW f, ss[i].on \in Tables,
         ss[i].do \in {"create", "add"},
         ss[i].do = "create" => Clear(f, ss, i),
         ss[i].do = "add" => Present(f, ss, i, ss[i].on) /\ Novel(f, ss, i),
         \A to \in Targets(ss[i].shape) \ {ss[i].on} : to \in Tables /\ Present(f, ss, i, to)
  PROVE  Passes(Here(f, ss, i - 1), ss[i])
<1> DEFINE s == ss[i]
           g == Here(f, ss, i - 1)
<1>1. IsSeq(ss) /\ Len(ss) \in Nat /\ i - 1 \in 0..Len(ss)
  BY CourseSteps DEF GoesUp
<1>2. \A t \in Tables : g[t] = Course(t, f[t], ss)[i - 1]
  BY DEF Here
<1> HIDE DEF g
<1>3. ASSUME s.do = "create" PROVE g[s.on] = {}
  <2>1. Clear(f, ss, i)
    BY <1>3
  <2>2. f[s.on] = {} /\ \A j \in 1..(i - 1) : ss[j].on # s.on
    BY <2>1 DEF Clear
  <2>3. Course(s.on, f[s.on], ss)[i - 1] = f[s.on]
    BY <1>1, <2>2, CourseRests
  <2> QED
    BY <1>2, <2>2, <2>3
<1>4. ASSUME NEW to \in Targets(s.shape) \ {s.on} PROVE to \in Tables /\ g[to] # {}
  BY <1>2, PresentThere
<1>5. ASSUME s.do = "add" PROVE g[s.on] # {}
  BY <1>2, <1>5, PresentThere
<1>6. ASSUME s.do = "add", NEW x \in g[s.on], NEW a \in s.shape PROVE ~Exists(x, a.is, a.name)
  <2>1. x \in Course(s.on, f[s.on], ss)[i - 1]
    BY <1>2, <1>6
  <2>2. SUFFICES ASSUME NEW b \in x, b.is = a.is, b.name = a.name PROVE FALSE
    BY DEF Exists
  <2>3. \A k \in 1..Len(ss) : UpOnly(ss[k]) \/ DownOnly(ss[k]) \/ IsStamp(ss[k])
    BY DEF GoesUp
  <2>4. (\E y \in f[s.on] : b \in y) \/ (\E j \in 1..(i - 1) : Gives(ss[j], s.on, b))
    BY <1>1, <2>1, <2>3, CourseOrigin
  <2>5. Novel(f, ss, i)
    BY <1>6
  <2>6. ~(\E y \in f[s.on] : b \in y)
    BY <2>2, <2>5 DEF Novel, Exists
  <2>7. ~(\E j \in 1..(i - 1) : Gives(ss[j], s.on, b))
    BY <2>2, <2>5 DEF Novel
  <2> QED
    BY <2>4, <2>6, <2>7
<1> QED
  BY <1>3, <1>4, <1>5, <1>6 DEF Passes, g

\* The statement s, about its table, leaves the object a of it.
Spares(s, a) ==
  \/ s.do = "add"
  \/ s.do = "drop" /\ (a.name # s.name \/ (a.is # s.is /\ s.is # "column"))
\* The statement s takes the key a from the table t, or all of the table.
Removes(s, t, a) ==
  /\ s.on = t
  /\ s.do = "droptable" \/ (s.do = "drop" /\ s.is = "fk" /\ s.name = a.name)

LEMMA CourseSpares ==
  ASSUME NEW ss, IsSeq(ss), NEW t, NEW o, NEW n \in 0..Len(ss), NEW a, Keep(o, a),
         \A j \in 1..n : ss[j].on = t => Spares(ss[j], a)
  PROVE  Keep(Course(t, o, ss)[n], a)
<1> DEFINE h == Course(t, o, ss)
           T == {k \in 0..n : Keep(h[k], a)}
<1>1. /\ Len(ss) \in Nat /\ h[0] = o
      /\ \A k \in 1..Len(ss) : h[k] = StepOn(t, h[k - 1], ss[k])
  BY CourseSteps
<1> HIDE DEF h
<1>2. 0 \in T
  BY <1>1
<1>3. ASSUME NEW k \in 0..(n - 1), k \in T PROVE k + 1 \in T
  <2>1. k + 1 \in 1..Len(ss) /\ k + 1 \in 1..n /\ (k + 1) - 1 = k /\ k + 1 \in 0..n
    BY <1>1
  <2> DEFINE s == ss[k + 1]
  <2>2. h[k + 1] = StepOn(t, h[k], s) /\ (s.on = t => Spares(s, a))
    BY <1>1, <2>1
  <2>3. Keep(h[k], a)
    BY <1>3
  <2> HIDE DEF s
  <2>4. CASE s.on # t
    BY <2>1, <2>2, <2>3, <2>4 DEF StepOn
  <2>5. CASE s.on = t
    <3>1. StepOn(t, h[k], s) = {Altered(x, s) : x \in h[k]}
      BY <2>2, <2>5 DEF StepOn, Spares
    <3>2. ASSUME NEW x \in h[k] PROVE a \in Altered(x, s)
      BY <2>2, <2>3, <2>5 DEF Altered, Spares, Keep
    <3>3. Keep(StepOn(t, h[k], s), a)
      BY <2>3, <3>1, <3>2 DEF Keep
    <3> QED
      BY <2>1, <2>2, <3>3
  <2> QED
    BY <2>4, <2>5
<1>4. \A k \in 0..n : k \in T
  <2> HIDE DEF T
  <2>1. 0 \in Nat /\ n \in Nat
    BY <1>1
  <2> QED
    BY <1>2, <1>3, <2>1, Upwards
<1>5. n \in 0..n
  BY <1>1
<1> QED
  BY <1>4, <1>5 DEF h

\* On the way down a table is there until a statement drops it.
LEMMA CourseStays ==
  ASSUME NEW ss, IsSeq(ss), NEW t, NEW o, NEW n \in 0..Len(ss), o # {},
         \A j \in 1..n : ss[j].on = t => ss[j].do \in {"add", "drop"}
  PROVE  Course(t, o, ss)[n] # {}
<1> DEFINE h == Course(t, o, ss)
           T == {k \in 0..n : h[k] # {}}
<1>1. /\ Len(ss) \in Nat /\ h[0] = o
      /\ \A k \in 1..Len(ss) : h[k] = StepOn(t, h[k - 1], ss[k])
  BY CourseSteps
<1> HIDE DEF h
<1>2. 0 \in T
  BY <1>1
<1>3. ASSUME NEW k \in 0..(n - 1), k \in T PROVE k + 1 \in T
  <2>1. k + 1 \in 1..Len(ss) /\ k + 1 \in 1..n /\ (k + 1) - 1 = k /\ k + 1 \in 0..n
    BY <1>1
  <2>2. h[k + 1] = StepOn(t, h[k], ss[k + 1])
    BY <1>1, <2>1
  <2>3. ss[k + 1].on = t => ss[k + 1].do \in {"add", "drop"}
    BY <2>1
  <2>4. h[k] # {}
    BY <1>3
  <2>5. h[k + 1] # {}
    BY <2>2, <2>3, <2>4 DEF StepOn
  <2> QED
    BY <2>1, <2>5
<1>4. \A k \in 0..n : k \in T
  <2> HIDE DEF T
  <2>1. 0 \in Nat /\ n \in Nat
    BY <1>1
  <2> QED
    BY <1>2, <1>3, <2>1, Upwards
<1>5. n \in 0..n
  BY <1>1
<1> QED
  BY <1>4, <1>5 DEF h

\* A key that has been taken does not come back.
LEMMA KeyGone ==
  ASSUME NEW ss, GoesDown(ss), NEW t, NEW o, NEW n \in 0..Len(ss), NEW a, a.is = "fk",
         \E j \in 1..n : Removes(ss[j], t, a)
  PROVE  \A x \in Course(t, o, ss)[n] : a \notin x
<1> DEFINE h == Course(t, o, ss)
<1>1. /\ IsSeq(ss) /\ Len(ss) \in Nat
      /\ \A k \in 1..Len(ss) : h[k] = StepOn(t, h[k - 1], ss[k]) /\ DownOnly(ss[k])
  BY CourseSteps DEF GoesDown
<1> HIDE DEF h
<1>2. PICK m \in 1..n : Removes(ss[m], t, a)
  OBVIOUS
<1> DEFINE T == {k \in m..n : \A x \in h[k] : a \notin x}
<1>3. m \in T
  <2>1. m \in 1..Len(ss) /\ m \in m..n
    BY <1>1
  <2>2. h[m] = StepOn(t, h[m - 1], ss[m])
    BY <1>1, <2>1
  <2>3. CASE ss[m].do = "droptable"
    BY <1>2, <2>1, <2>2, <2>3 DEF Removes, StepOn
  <2>4. CASE ss[m].do = "drop" /\ ss[m].is = "fk" /\ ss[m].name = a.name
    <3>1. h[m] = {Altered(x, ss[m]) : x \in h[m - 1]}
      BY <1>2, <2>2, <2>4 DEF Removes, StepOn
    <3>2. \A x : a \notin Altered(x, ss[m])
      BY <2>4 DEF Altered
    <3> QED
      BY <2>1, <3>1, <3>2
  <2> QED
    BY <1>2, <2>3, <2>4 DEF Removes
<1>4. ASSUME NEW k \in m..(n - 1), k \in T PROVE k + 1 \in T
  <2>1. k + 1 \in 1..Len(ss) /\ (k + 1) - 1 = k /\ k + 1 \in m..n
    BY <1>1
  <2>2. h[k + 1] = StepOn(t, h[k], ss[k + 1]) /\ DownOnly(ss[k + 1])
    BY <1>1, <2>1
  <2>3. ASSUME NEW x \in h[k + 1], a \in x PROVE FALSE
    <3>1. (\E y \in h[k] : a \in y) \/ Gives(ss[k + 1], t, a)
      BY <2>2, <2>3, StepOrigin
    <3>2. ~Gives(ss[k + 1], t, a)
      BY <2>2 DEF Gives, DownOnly
    <3> QED
      BY <1>4, <3>1, <3>2
  <2> QED
    BY <2>1, <2>3
<1>5. \A k \in m..n : k \in T
  <2> HIDE DEF T
  <2>1. m \in Nat /\ n \in Nat
    BY <1>1
  <2> QED
    BY <1>3, <1>4, <2>1, Upwards
<1>6. n \in m..n
  BY <1>1
<1> QED
  BY <1>5, <1>6 DEF h

\* What statement i drops is there, and no statement before i has taken it.
Spared(f, ss, i) ==
  \E a : /\ a.is = ss[i].is /\ a.name = ss[i].name /\ Keep(f[ss[i].on], a)
         /\ \A j \in 1..(i - 1) : ss[j].on = ss[i].on => Spares(ss[j], a)
\* Every key to the table that statement i drops has gone before.
Unbound(f, ss, i) ==
  \A t \in Tables \ {ss[i].on} : \A x \in f[t] : \A a \in x :
    a.is = "fk" /\ a.to = ss[i].on => \E j \in 1..(i - 1) : Removes(ss[j], t, a)

\* What a statement on the way down has to find.
LEMMA DownPasses ==
  ASSUME NEW ss, GoesDown(ss), NEW i \in 1..Len(ss), NEW f, ss[i].on \in Tables,
         ss[i].do \in {"drop", "droptable"},
         ss[i].do = "drop" => Spared(f, ss, i),
         ss[i].do = "droptable" /\ ~ss[i].cascade =>
           /\ f[ss[i].on] # {}
           /\ \A j \in 1..(i - 1) : ss[j].on = ss[i].on => ss[j].do # "droptable"
           /\ Unbound(f, ss, i)
  PROVE  Passes(Here(f, ss, i - 1), ss[i])
<1> DEFINE s == ss[i]
           g == Here(f, ss, i - 1)
<1>1. IsSeq(ss) /\ Len(ss) \in Nat /\ i - 1 \in 0..Len(ss)
  BY CourseSteps DEF GoesDown
<1>2. \A t \in Tables : g[t] = Course(t, f[t], ss)[i - 1]
  BY DEF Here
<1> HIDE DEF g
<1>3. ASSUME s.do = "drop" PROVE g[s.on] # {} /\ \A x \in g[s.on] : Exists(x, s.is, s.name)
  <2>1. PICK a : /\ a.is = s.is /\ a.name = s.name /\ Keep(f[s.on], a)
                 /\ \A j \in 1..(i - 1) : ss[j].on = s.on => Spares(ss[j], a)
    BY <1>3 DEF Spared
  <2>2. Keep(Course(s.on, f[s.on], ss)[i - 1], a)
    BY <1>1, <2>1, CourseSpares
  <2> QED
    BY <1>2, <2>1, <2>2 DEF Keep, Exists
<1>4. ASSUME s.do = "droptable", ~s.cascade
      PROVE  g[s.on] # {} /\ \A t \in Tables \ {s.on} : \A x \in g[t] : s.on \notin Targets(x)
  <2>1. /\ f[s.on] # {} /\ \A j \in 1..(i - 1) : ss[j].on = s.on => ss[j].do # "droptable"
        /\ Unbound(f, ss, i)
    BY <1>4
  <2>2. \A k \in 1..Len(ss) : DownOnly(ss[k])
    BY DEF GoesDown
  <2>3. \A j \in 1..(i - 1) : ss[j].on = s.on => ss[j].do \in {"add", "drop"}
    BY <2>1, <2>2 DEF DownOnly
  <2>4. g[s.on] # {}
    BY <1>1, <1>2, <2>1, <2>3, CourseStays
  <2>5. ASSUME NEW t \in Tables \ {s.on}, NEW x \in g[t], NEW a \in x, a.is = "fk", a.to = s.on
        PROVE  FALSE
    <3>1. x \in Course(t, f[t], ss)[i - 1]
      BY <1>2, <2>5
    <3>2. (\E y \in f[t] : a \in y) \/ (\E j \in 1..(i - 1) : Gives(ss[j], t, a))
      <4>1. \A k \in 1..Len(ss) : UpOnly(ss[k]) \/ DownOnly(ss[k]) \/ IsStamp(ss[k])
        BY <2>2
      <4> QED
        BY <1>1, <2>5, <3>1, <4>1, CourseOrigin
    <3>3. ASSUME NEW j \in 1..(i - 1) PROVE ~Gives(ss[j], t, a)
      <4>1. DownOnly(ss[j])
        BY <1>1, <2>2
      <4> QED
        BY <2>5, <4>1 DEF Gives, DownOnly
    <3>4. \E j \in 1..(i - 1) : Removes(ss[j], t, a)
      BY <2>1, <2>5, <3>2, <3>3 DEF Unbound
    <3> QED
      BY <1>1, <2>5, <3>1, <3>4, KeyGone
  <2> QED
    BY <2>4, <2>5 DEF Targets
<1> QED
  BY <1>3, <1>4 DEF Passes, g

-----------------------------------------------------------------------------
(* What the statements of each part of a script do.                        *)

Makes(s, t, others) ==
  /\ s.on = t /\ s.do = "create" /\ Targets(s.shape) \subseteq others
  /\ \A a \in s.shape : a.is # "index"
Adds(s, t, a) == s.on = t /\ s.do = "add" /\ s.shape = {a}
Discards(s, t, is, n) == s.on = t /\ s.do = "drop" /\ s.is = is /\ s.name = n
Ends(s, t, cascade) == s.on = t /\ s.do = "droptable" /\ s.cascade = cascade

LEMMA CreateMakes ==
  ASSUME NEW t, NEW plain, NEW text, NEW keys, NEW allowed, NEW others,
         \A c \in DOMAIN keys : keys[c] \in others
  PROVE  Makes(Create(t, plain, text, keys, allowed), t, others)
<1> DEFINE s == Create(t, plain, text, keys, allowed)
<1>1. /\ s.on = t /\ s.do = "create"
      /\ s.shape = Columns(plain, text) \cup {Reference(c, keys[c]) : c \in DOMAIN keys}
                     \cup {Check(c, allowed[c]) : c \in DOMAIN allowed}
  BY DEF Create
<1>2. \A a \in Columns(plain, text) : a.is = "column"
  BY DEF Columns, Column
<1>3. \A a \in {Reference(c, keys[c]) : c \in DOMAIN keys} : a.is = "fk" /\ a.to \in others
  BY DEF Reference
<1>4. \A a \in {Check(c, allowed[c]) : c \in DOMAIN allowed} : a.is = "check"
  BY DEF Check
<1> HIDE DEF s
<1>5. \A a \in s.shape : a.is # "index" /\ (a.is = "fk" => a.to \in others)
  BY <1>1, <1>2, <1>3, <1>4
<1>6. Targets(s.shape) \subseteq others
  BY <1>5 DEF Targets
<1> QED
  BY <1>1, <1>5, <1>6 DEF Makes, s

LEMMA AddAdds ==
  ASSUME NEW t, NEW a, NEW how
  PROVE  Adds(Add(t, a, how), t, a)
BY DEF Adds, Add

LEMMA DropDiscards ==
  ASSUME NEW t, NEW is, NEW n
  PROVE  Discards(Drop(is, t, n), t, is, n)
BY DEF Discards, Drop

LEMMA DropTableEnds ==
  ASSUME NEW t, NEW cascade
  PROVE  Ends(DropTable(t, cascade), t, cascade)
BY DEF Ends, DropTable

LEMMA KeysAre ==
  /\ \A c \in DOMAIN None : None[c] \in {}
  /\ \A c \in DOMAIN TripKey : TripKey[c] \in {"trips"}
  /\ \A c \in DOMAIN UserKey : UserKey[c] \in {"users"}
  /\ \A c \in DOMAIN TripUserKeys : TripUserKeys[c] \in {"trips", "users"}
BY DEF None, TripKey, UserKey, TripUserKeys

LEMMA Initial_TripsReads ==
  /\ Len(Initial_Trips) = 5
  /\ Makes(Initial_Trips[1], "users", {})
  /\ Makes(Initial_Trips[2], "trips", {"users"})
  /\ Adds(Initial_Trips[3], "trips", Index("ix_trips_owner_id"))
  /\ Makes(Initial_Trips[4], "trip_members", {"trips", "users"})
  /\ Adds(Initial_Trips[5], "trip_members", Index("ix_trip_members_user_id"))
<1>0. Len(Initial_Trips) = 5
  BY Tuple5 DEF Initial_Trips
<1>1. Makes(Initial_Trips[1], "users", {})
  BY CreateMakes, KeysAre DEF Initial_Trips
<1>2. Makes(Initial_Trips[2], "trips", {"users"})
  <2> DEFINE keys == [owner_id |-> "users"]
  <2>1. \A c \in DOMAIN keys : keys[c] \in {"users"}
    OBVIOUS
  <2>2. Initial_Trips[2] = Create("trips", {"id", "owner_id", "start_at", "end_at", "created_at"}, [name |-> 120, status |-> 20, join_code |-> 6], keys, [status |-> {"planned", "active", "ended", "cancelled"}])
    BY DEF Initial_Trips
  <2> HIDE DEF keys
  <2> QED
    BY <2>1, <2>2, CreateMakes
<1>3. Adds(Initial_Trips[3], "trips", Index("ix_trips_owner_id"))
  BY AddAdds DEF Initial_Trips
<1>4. Makes(Initial_Trips[4], "trip_members", {"trips", "users"})
  BY CreateMakes, KeysAre DEF Initial_Trips
<1>5. Adds(Initial_Trips[5], "trip_members", Index("ix_trip_members_user_id"))
  BY AddAdds DEF Initial_Trips
<1> QED
  BY <1>0, <1>1, <1>2, <1>3, <1>4, <1>5

LEMMA Initial_RestReads ==
  /\ Len(Initial_Rest) = 10
  /\ Makes(Initial_Rest[1], "waypoints", {"trips"})
  /\ Adds(Initial_Rest[2], "waypoints", Column("geom", 0))
  /\ Adds(Initial_Rest[3], "waypoints", Index("ix_waypoints_geom"))
  /\ Adds(Initial_Rest[4], "waypoints", Index("ix_waypoints_trip_id"))
  /\ Makes(Initial_Rest[5], "messages", {"trips", "users"})
  /\ Adds(Initial_Rest[6], "messages", Index("ix_messages_trip_sent"))
  /\ Makes(Initial_Rest[7], "devices", {"users"})
  /\ Makes(Initial_Rest[8], "locations", {"trips", "users"})
  /\ Adds(Initial_Rest[9], "locations", Index("ix_locations_trip_time"))
  /\ Adds(Initial_Rest[10], "locations", Index("ix_locations_geom"))
<1>0. Len(Initial_Rest) = 10
  BY Tuple10 DEF Initial_Rest
<1>1. Makes(Initial_Rest[1], "waypoints", {"trips"})
  BY CreateMakes, KeysAre DEF Initial_Rest
<1>2. Adds(Initial_Rest[2], "waypoints", Column("geom", 0))
  BY AddAdds DEF Initial_Rest
<1>3. Adds(Initial_Rest[3], "waypoints", Index("ix_waypoints_geom"))
  BY AddAdds DEF Initial_Rest
<1>4. Adds(Initial_Rest[4], "waypoints", Index("ix_waypoints_trip_id"))
  BY AddAdds DEF Initial_Rest
<1>5. Makes(Initial_Rest[5], "messages", {"trips", "users"})
  BY CreateMakes, KeysAre DEF Initial_Rest
<1>6. Adds(Initial_Rest[6], "messages", Index("ix_messages_trip_sent"))
  BY AddAdds DEF Initial_Rest
<1>7. Makes(Initial_Rest[7], "devices", {"users"})
  BY CreateMakes, KeysAre DEF Initial_Rest
<1>8. Makes(Initial_Rest[8], "locations", {"trips", "users"})
  BY CreateMakes, KeysAre DEF Initial_Rest
<1>9. Adds(Initial_Rest[9], "locations", Index("ix_locations_trip_time"))
  BY AddAdds DEF Initial_Rest
<1>10. Adds(Initial_Rest[10], "locations", Index("ix_locations_geom"))
  BY AddAdds DEF Initial_Rest
<1> QED
  BY <1>0, <1>1, <1>2, <1>3, <1>4, <1>5, <1>6, <1>7, <1>8, <1>9, <1>10

LEMMA Advanced_MembersReads ==
  /\ Len(Advanced_Members) = 5
  /\ Adds(Advanced_Members[1], "trip_members", Column("visibility_scope", 0))
  /\ Adds(Advanced_Members[2], "trip_members", Column("share_until", 0))
  /\ Adds(Advanced_Members[3], "trip_members", Column("is_ready", 0))
  /\ Adds(Advanced_Members[4], "trip_members", Column("vehicle_label", 40))
  /\ Adds(Advanced_Members[5], "trip_members", Column("subgroup_id", 0))
<1>0. Len(Advanced_Members) = 5
  BY Tuple5 DEF Advanced_Members
<1>1. Adds(Advanced_Members[1], "trip_members", Column("visibility_scope", 0))
  BY AddAdds DEF Advanced_Members
<1>2. Adds(Advanced_Members[2], "trip_members", Column("share_until", 0))
  BY AddAdds DEF Advanced_Members
<1>3. Adds(Advanced_Members[3], "trip_members", Column("is_ready", 0))
  BY AddAdds DEF Advanced_Members
<1>4. Adds(Advanced_Members[4], "trip_members", Column("vehicle_label", 40))
  BY AddAdds DEF Advanced_Members
<1>5. Adds(Advanced_Members[5], "trip_members", Column("subgroup_id", 0))
  BY AddAdds DEF Advanced_Members
<1> QED
  BY <1>0, <1>1, <1>2, <1>3, <1>4, <1>5

LEMMA Advanced_RolesReads ==
  /\ Len(Advanced_Roles) = 2
  /\ Discards(Advanced_Roles[1], "trip_members", "check", "role")
  /\ Adds(Advanced_Roles[2], "trip_members", Check("role", AllRoles))
<1>0. Len(Advanced_Roles) = 2
  BY Tuple2 DEF Advanced_Roles
<1>1. Discards(Advanced_Roles[1], "trip_members", "check", "role")
  BY DropDiscards DEF Advanced_Roles
<1>2. Adds(Advanced_Roles[2], "trip_members", Check("role", AllRoles))
  BY AddAdds DEF Advanced_Roles
<1> QED
  BY <1>0, <1>1, <1>2

LEMMA Advanced_TripsReads ==
  /\ Len(Advanced_Trips) = 2
  /\ Adds(Advanced_Trips[1], "trips", Column("template", 40))
  /\ Adds(Advanced_Trips[2], "trips", Column("cover_color", 9))
<1>0. Len(Advanced_Trips) = 2
  BY Tuple2 DEF Advanced_Trips
<1>1. Adds(Advanced_Trips[1], "trips", Column("template", 40))
  BY AddAdds DEF Advanced_Trips
<1>2. Adds(Advanced_Trips[2], "trips", Column("cover_color", 9))
  BY AddAdds DEF Advanced_Trips
<1> QED
  BY <1>0, <1>1, <1>2

LEMMA Advanced_SafetyReads ==
  /\ Len(Advanced_Safety) = 7
  /\ Makes(Advanced_Safety[1], "safety_alerts", {"trips", "users"})
  /\ Adds(Advanced_Safety[2], "safety_alerts", Index("ix_safety_alerts_trip_created"))
  /\ Makes(Advanced_Safety[3], "audit_logs", {"trips", "users"})
  /\ Adds(Advanced_Safety[4], "audit_logs", Index("ix_audit_logs_subject_created"))
  /\ Makes(Advanced_Safety[5], "subgroups", {"trips"})
  /\ Adds(Advanced_Safety[6], "subgroups", Index("ix_subgroups_trip"))
  /\ Adds(Advanced_Safety[7], "trip_members", Reference("subgroup_id", "subgroups"))
<1>0. Len(Advanced_Safety) = 7
  BY Tuple7 DEF Advanced_Safety
<1>1. Makes(Advanced_Safety[1], "safety_alerts", {"trips", "users"})
  BY CreateMakes, KeysAre DEF Advanced_Safety
<1>2. Adds(Advanced_Safety[2], "safety_alerts", Index("ix_safety_alerts_trip_created"))
  BY AddAdds DEF Advanced_Safety
<1>3. Makes(Advanced_Safety[3], "audit_logs", {"trips", "users"})
  <2> DEFINE keys == [subject_user_id |-> "users", actor_user_id |-> "users", trip_id |-> "trips"]
  <2>1. \A c \in DOMAIN keys : keys[c] \in {"trips", "users"}
    OBVIOUS
  <2>2. Advanced_Safety[3] = Create("audit_logs", {"id", "subject_user_id", "actor_user_id", "trip_id", "details", "created_at"}, [action |-> 40], keys, None)
    BY DEF Advanced_Safety
  <2> HIDE DEF keys
  <2> QED
    BY <2>1, <2>2, CreateMakes
<1>4. Adds(Advanced_Safety[4], "audit_logs", Index("ix_audit_logs_subject_created"))
  BY AddAdds DEF Advanced_Safety
<1>5. Makes(Advanced_Safety[5], "subgroups", {"trips"})
  BY CreateMakes, KeysAre DEF Advanced_Safety
<1>6. Adds(Advanced_Safety[6], "subgroups", Index("ix_subgroups_trip"))
  BY AddAdds DEF Advanced_Safety
<1>7. Adds(Advanced_Safety[7], "trip_members", Reference("subgroup_id", "subgroups"))
  BY AddAdds DEF Advanced_Safety
<1> QED
  BY <1>0, <1>1, <1>2, <1>3, <1>4, <1>5, <1>6, <1>7

LEMMA Advanced_MoneyReads ==
  /\ Len(Advanced_Money) = 7
  /\ Makes(Advanced_Money[1], "expenses", {"trips", "users"})
  /\ Adds(Advanced_Money[2], "expenses", Index("ix_expenses_trip"))
  /\ Makes(Advanced_Money[3], "expense_shares", {"expenses", "users"})
  /\ Makes(Advanced_Money[4], "subscriptions", {"users"})
  /\ Adds(Advanced_Money[5], "subscriptions", Index("ix_subscriptions_user"))
  /\ Makes(Advanced_Money[6], "reminders", {"trips"})
  /\ Adds(Advanced_Money[7], "reminders", Index("ix_reminders_fire_at"))
<1>0. Len(Advanced_Money) = 7
  BY Tuple7 DEF Advanced_Money
<1>1. Makes(Advanced_Money[1], "expenses", {"trips", "users"})
  <2> DEFINE keys == [trip_id |-> "trips", paid_by |-> "users"]
  <2>1. \A c \in DOMAIN keys : keys[c] \in {"trips", "users"}
    OBVIOUS
  <2>2. Advanced_Money[1] = Create("expenses", {"id", "trip_id", "paid_by", "amount_cents", "created_at"}, [description |-> 200, currency |-> 3, category |-> 20], keys, None)
    BY DEF Advanced_Money
  <2> HIDE DEF keys
  <2> QED
    BY <2>1, <2>2, CreateMakes
<1>2. Adds(Advanced_Money[2], "expenses", Index("ix_expenses_trip"))
  BY AddAdds DEF Advanced_Money
<1>3. Makes(Advanced_Money[3], "expense_shares", {"expenses", "users"})
  <2> DEFINE keys == [expense_id |-> "expenses", user_id |-> "users"]
  <2>1. \A c \in DOMAIN keys : keys[c] \in {"expenses", "users"}
    OBVIOUS
  <2>2. Advanced_Money[3] = Create("expense_shares", {"expense_id", "user_id", "share_cents"}, None, keys, None)
    BY DEF Advanced_Money
  <2> HIDE DEF keys
  <2> QED
    BY <2>1, <2>2, CreateMakes
<1>4. Makes(Advanced_Money[4], "subscriptions", {"users"})
  BY CreateMakes, KeysAre DEF Advanced_Money
<1>5. Adds(Advanced_Money[5], "subscriptions", Index("ix_subscriptions_user"))
  BY AddAdds DEF Advanced_Money
<1>6. Makes(Advanced_Money[6], "reminders", {"trips"})
  BY CreateMakes, KeysAre DEF Advanced_Money
<1>7. Adds(Advanced_Money[7], "reminders", Index("ix_reminders_fire_at"))
  BY AddAdds DEF Advanced_Money
<1> QED
  BY <1>0, <1>1, <1>2, <1>3, <1>4, <1>5, <1>6, <1>7

LEMMA Advanced_TelemetryReads ==
  /\ Len(Advanced_Telemetry) = 5
  /\ Makes(Advanced_Telemetry[1], "events", {"trips", "users"})
  /\ Adds(Advanced_Telemetry[2], "events", Index("ix_events_name_time"))
  /\ Adds(Advanced_Telemetry[3], "events", Index("ix_events_user_time"))
  /\ Makes(Advanced_Telemetry[4], "maps_provider_calls", {})
  /\ Adds(Advanced_Telemetry[5], "maps_provider_calls", Index("ix_maps_calls_provider_time"))
<1>0. Len(Advanced_Telemetry) = 5
  BY Tuple5 DEF Advanced_Telemetry
<1>1. Makes(Advanced_Telemetry[1], "events", {"trips", "users"})
  BY CreateMakes, KeysAre DEF Advanced_Telemetry
<1>2. Adds(Advanced_Telemetry[2], "events", Index("ix_events_name_time"))
  BY AddAdds DEF Advanced_Telemetry
<1>3. Adds(Advanced_Telemetry[3], "events", Index("ix_events_user_time"))
  BY AddAdds DEF Advanced_Telemetry
<1>4. Makes(Advanced_Telemetry[4], "maps_provider_calls", {})
  BY CreateMakes, KeysAre DEF Advanced_Telemetry
<1>5. Adds(Advanced_Telemetry[5], "maps_provider_calls", Index("ix_maps_calls_provider_time"))
  BY AddAdds DEF Advanced_Telemetry
<1> QED
  BY <1>0, <1>1, <1>2, <1>3, <1>4, <1>5

LEMMA IsAdminReads ==
  /\ Len(IsAdmin) = 1
  /\ Adds(IsAdmin[1], "users", Column("is_admin", 0))
<1>0. Len(IsAdmin) = 1
  BY Tuple1 DEF IsAdmin
<1>1. Adds(IsAdmin[1], "users", Column("is_admin", 0))
  BY AddAdds DEF IsAdmin
<1> QED
  BY <1>0, <1>1

LEMMA InitialDownReads ==
  /\ Len(InitialDown) = 12
  /\ Ends(InitialDown[1], "locations", TRUE)
  /\ Ends(InitialDown[2], "devices", FALSE)
  /\ Discards(InitialDown[3], "messages", "index", "ix_messages_trip_sent")
  /\ Ends(InitialDown[4], "messages", FALSE)
  /\ Discards(InitialDown[5], "waypoints", "index", "ix_waypoints_trip_id")
  /\ Discards(InitialDown[6], "waypoints", "index", "ix_waypoints_geom")
  /\ Ends(InitialDown[7], "waypoints", FALSE)
  /\ Discards(InitialDown[8], "trip_members", "index", "ix_trip_members_user_id")
  /\ Ends(InitialDown[9], "trip_members", FALSE)
  /\ Discards(InitialDown[10], "trips", "index", "ix_trips_owner_id")
  /\ Ends(InitialDown[11], "trips", FALSE)
  /\ Ends(InitialDown[12], "users", FALSE)
<1>0. Len(InitialDown) = 12
  BY Tuple12 DEF InitialDown
<1>1. Ends(InitialDown[1], "locations", TRUE)
  BY DropTableEnds DEF InitialDown
<1>2. Ends(InitialDown[2], "devices", FALSE)
  BY DropTableEnds DEF InitialDown
<1>3. Discards(InitialDown[3], "messages", "index", "ix_messages_trip_sent")
  BY DropDiscards DEF InitialDown
<1>4. Ends(InitialDown[4], "messages", FALSE)
  BY DropTableEnds DEF InitialDown
<1>5. Discards(InitialDown[5], "waypoints", "index", "ix_waypoints_trip_id")
  BY DropDiscards DEF InitialDown
<1>6. Discards(InitialDown[6], "waypoints", "index", "ix_waypoints_geom")
  BY DropDiscards DEF InitialDown
<1>7. Ends(InitialDown[7], "waypoints", FALSE)
  BY DropTableEnds DEF InitialDown
<1>8. Discards(InitialDown[8], "trip_members", "index", "ix_trip_members_user_id")
  BY DropDiscards DEF InitialDown
<1>9. Ends(InitialDown[9], "trip_members", FALSE)
  BY DropTableEnds DEF InitialDown
<1>10. Discards(InitialDown[10], "trips", "index", "ix_trips_owner_id")
  BY DropDiscards DEF InitialDown
<1>11. Ends(InitialDown[11], "trips", FALSE)
  BY DropTableEnds DEF InitialDown
<1>12. Ends(InitialDown[12], "users", FALSE)
  BY DropTableEnds DEF InitialDown
<1> QED
  BY <1>0, <1>1, <1>2, <1>3, <1>4, <1>5, <1>6, <1>7, <1>8, <1>9, <1>10, <1>11, <1>12

LEMMA AdvancedDown_MoneyReads ==
  /\ Len(AdvancedDown_Money) = 9
  /\ Ends(AdvancedDown_Money[1], "maps_provider_calls", TRUE)
  /\ Ends(AdvancedDown_Money[2], "events", TRUE)
  /\ Discards(AdvancedDown_Money[3], "reminders", "index", "ix_reminders_fire_at")
  /\ Ends(AdvancedDown_Money[4], "reminders", FALSE)
  /\ Discards(AdvancedDown_Money[5], "subscriptions", "index", "ix_subscriptions_user")
  /\ Ends(AdvancedDown_Money[6], "subscriptions", FALSE)
  /\ Ends(AdvancedDown_Money[7], "expense_shares", FALSE)
  /\ Discards(AdvancedDown_Money[8], "expenses", "index", "ix_expenses_trip")
  /\ Ends(AdvancedDown_Money[9], "expenses", FALSE)
<1>0. Len(AdvancedDown_Money) = 9
  BY Tuple9 DEF AdvancedDown_Money
<1>1. Ends(AdvancedDown_Money[1], "maps_provider_calls", TRUE)
  BY DropTableEnds DEF AdvancedDown_Money
<1>2. Ends(AdvancedDown_Money[2], "events", TRUE)
  BY DropTableEnds DEF AdvancedDown_Money
<1>3. Discards(AdvancedDown_Money[3], "reminders", "index", "ix_reminders_fire_at")
  BY DropDiscards DEF AdvancedDown_Money
<1>4. Ends(AdvancedDown_Money[4], "reminders", FALSE)
  BY DropTableEnds DEF AdvancedDown_Money
<1>5. Discards(AdvancedDown_Money[5], "subscriptions", "index", "ix_subscriptions_user")
  BY DropDiscards DEF AdvancedDown_Money
<1>6. Ends(AdvancedDown_Money[6], "subscriptions", FALSE)
  BY DropTableEnds DEF AdvancedDown_Money
<1>7. Ends(AdvancedDown_Money[7], "expense_shares", FALSE)
  BY DropTableEnds DEF AdvancedDown_Money
<1>8. Discards(AdvancedDown_Money[8], "expenses", "index", "ix_expenses_trip")
  BY DropDiscards DEF AdvancedDown_Money
<1>9. Ends(AdvancedDown_Money[9], "expenses", FALSE)
  BY DropTableEnds DEF AdvancedDown_Money
<1> QED
  BY <1>0, <1>1, <1>2, <1>3, <1>4, <1>5, <1>6, <1>7, <1>8, <1>9

LEMMA AdvancedDown_SubgroupsReads ==
  /\ Len(AdvancedDown_Subgroups) = 3
  /\ Discards(AdvancedDown_Subgroups[1], "trip_members", "fk", "subgroup_id")
  /\ Discards(AdvancedDown_Subgroups[2], "subgroups", "index", "ix_subgroups_trip")
  /\ Ends(AdvancedDown_Subgroups[3], "subgroups", FALSE)
<1>0. Len(AdvancedDown_Subgroups) = 3
  BY Tuple3 DEF AdvancedDown_Subgroups
<1>1. Discards(AdvancedDown_Subgroups[1], "trip_members", "fk", "subgroup_id")
  BY DropDiscards DEF AdvancedDown_Subgroups
<1>2. Discards(AdvancedDown_Subgroups[2], "subgroups", "index", "ix_subgroups_trip")
  BY DropDiscards DEF AdvancedDown_Subgroups
<1>3. Ends(AdvancedDown_Subgroups[3], "subgroups", FALSE)
  BY DropTableEnds DEF AdvancedDown_Subgroups
<1> QED
  BY <1>0, <1>1, <1>2, <1>3

LEMMA AdvancedDown_SafetyReads ==
  /\ Len(AdvancedDown_Safety) = 4
  /\ Discards(AdvancedDown_Safety[1], "audit_logs", "index", "ix_audit_logs_subject_created")
  /\ Ends(AdvancedDown_Safety[2], "audit_logs", FALSE)
  /\ Discards(AdvancedDown_Safety[3], "safety_alerts", "index", "ix_safety_alerts_trip_created")
  /\ Ends(AdvancedDown_Safety[4], "safety_alerts", FALSE)
<1>0. Len(AdvancedDown_Safety) = 4
  BY Tuple4 DEF AdvancedDown_Safety
<1>1. Discards(AdvancedDown_Safety[1], "audit_logs", "index", "ix_audit_logs_subject_created")
  BY DropDiscards DEF AdvancedDown_Safety
<1>2. Ends(AdvancedDown_Safety[2], "audit_logs", FALSE)
  BY DropTableEnds DEF AdvancedDown_Safety
<1>3. Discards(AdvancedDown_Safety[3], "safety_alerts", "index", "ix_safety_alerts_trip_created")
  BY DropDiscards DEF AdvancedDown_Safety
<1>4. Ends(AdvancedDown_Safety[4], "safety_alerts", FALSE)
  BY DropTableEnds DEF AdvancedDown_Safety
<1> QED
  BY <1>0, <1>1, <1>2, <1>3, <1>4

LEMMA AdvancedDown_RolesReads ==
  /\ Len(AdvancedDown_Roles) = 4
  /\ Discards(AdvancedDown_Roles[1], "trips", "column", "cover_color")
  /\ Discards(AdvancedDown_Roles[2], "trips", "column", "template")
  /\ Discards(AdvancedDown_Roles[3], "trip_members", "check", "role")
  /\ Adds(AdvancedDown_Roles[4], "trip_members", Check("role", PlainRoles))
<1>0. Len(AdvancedDown_Roles) = 4
  BY Tuple4 DEF AdvancedDown_Roles
<1>1. Discards(AdvancedDown_Roles[1], "trips", "column", "cover_color")
  BY DropDiscards DEF AdvancedDown_Roles
<1>2. Discards(AdvancedDown_Roles[2], "trips", "column", "template")
  BY DropDiscards DEF AdvancedDown_Roles
<1>3. Discards(AdvancedDown_Roles[3], "trip_members", "check", "role")
  BY DropDiscards DEF AdvancedDown_Roles
<1>4. Adds(AdvancedDown_Roles[4], "trip_members", Check("role", PlainRoles))
  BY AddAdds DEF AdvancedDown_Roles
<1> QED
  BY <1>0, <1>1, <1>2, <1>3, <1>4

LEMMA AdvancedDown_MembersReads ==
  /\ Len(AdvancedDown_Members) = 5
  /\ Discards(AdvancedDown_Members[1], "trip_members", "column", "subgroup_id")
  /\ Discards(AdvancedDown_Members[2], "trip_members", "column", "vehicle_label")
  /\ Discards(AdvancedDown_Members[3], "trip_members", "column", "is_ready")
  /\ Discards(AdvancedDown_Members[4], "trip_members", "column", "share_until")
  /\ Discards(AdvancedDown_Members[5], "trip_members", "column", "visibility_scope")
<1>0. Len(AdvancedDown_Members) = 5
  BY Tuple5 DEF AdvancedDown_Members
<1>1. Discards(AdvancedDown_Members[1], "trip_members", "column", "subgroup_id")
  BY DropDiscards DEF AdvancedDown_Members
<1>2. Discards(AdvancedDown_Members[2], "trip_members", "column", "vehicle_label")
  BY DropDiscards DEF AdvancedDown_Members
<1>3. Discards(AdvancedDown_Members[3], "trip_members", "column", "is_ready")
  BY DropDiscards DEF AdvancedDown_Members
<1>4. Discards(AdvancedDown_Members[4], "trip_members", "column", "share_until")
  BY DropDiscards DEF AdvancedDown_Members
<1>5. Discards(AdvancedDown_Members[5], "trip_members", "column", "visibility_scope")
  BY DropDiscards DEF AdvancedDown_Members
<1> QED
  BY <1>0, <1>1, <1>2, <1>3, <1>4, <1>5

LEMMA IsAdminDownReads ==
  /\ Len(IsAdminDown) = 1
  /\ Discards(IsAdminDown[1], "users", "column", "is_admin")
<1>0. Len(IsAdminDown) = 1
  BY Tuple1 DEF IsAdminDown
<1>1. Discards(IsAdminDown[1], "users", "column", "is_admin")
  BY DropDiscards DEF IsAdminDown
<1> QED
  BY <1>0, <1>1

-----------------------------------------------------------------------------
(* No statement on the way up finds what it makes, or misses what it needs. *)

LEMMA TablesHave ==
  /\ FirstTables \subseteq Tables /\ NewTables \subseteq Tables
  /\ "users" \in Tables
  /\ "trips" \in Tables
  /\ "trip_members" \in Tables
  /\ "waypoints" \in Tables
  /\ "messages" \in Tables
  /\ "devices" \in Tables
  /\ "locations" \in Tables
  /\ "safety_alerts" \in Tables
  /\ "audit_logs" \in Tables
  /\ "subgroups" \in Tables
  /\ "expenses" \in Tables
  /\ "expense_shares" \in Tables
  /\ "subscriptions" \in Tables
  /\ "reminders" \in Tables
  /\ "events" \in Tables
  /\ "maps_provider_calls" \in Tables
BY DEF Tables, FirstTables, NewTables

LEMMA CreatePasses ==
  ASSUME NEW ss, GoesUp(ss), NEW i \in 1..Len(ss), NEW f, NEW t \in Tables, NEW others,
         Makes(ss[i], t, others), f[t] = {}, \A j \in 1..(i - 1) : ss[j].on # t,
         \A to \in others : to \in Tables /\ Present(f, ss, i, to)
  PROVE  Passes(Here(f, ss, i - 1), ss[i])
<1>1. ss[i].on = t /\ ss[i].do = "create" /\ Targets(ss[i].shape) \subseteq others
  BY DEF Makes
<1>2. Clear(f, ss, i)
  BY <1>1 DEF Clear
<1> QED
  BY <1>1, <1>2, UpPasses

LEMMA AddPasses ==
  ASSUME NEW ss, GoesUp(ss), NEW i \in 1..Len(ss), NEW f, NEW t \in Tables, NEW a,
         Adds(ss[i], t, a), Present(f, ss, i, t),
         \A x \in f[t] : ~Exists(x, a.is, a.name),
         \A j \in 1..(i - 1) : \A b : Gives(ss[j], t, b) => b.is # a.is \/ b.name # a.name,
         a.is = "fk" => a.to \in Tables /\ Present(f, ss, i, a.to)
  PROVE  Passes(Here(f, ss, i - 1), ss[i])
<1>1. ss[i].on = t /\ ss[i].do = "add" /\ ss[i].shape = {a}
  BY DEF Adds
<1>2. Novel(f, ss, i)
  BY <1>1 DEF Novel
<1>3. \A to \in Targets(ss[i].shape) : to \in Tables /\ Present(f, ss, i, to)
  BY <1>1 DEF Targets
<1> QED
  BY <1>1, <1>2, <1>3, UpPasses

\* An index on a table that has been created before.
LEMMA IndexPasses ==
  ASSUME NEW ss, GoesUp(ss), NEW i \in 1..Len(ss), NEW f, NEW t \in Tables, NEW n,
         Adds(ss[i], t, Index(n)), f[t] = {},
         \E j \in 1..(i - 1) : ss[j].on = t /\ ss[j].do = "create",
         \A j \in 1..(i - 1) : ~Gives(ss[j], t, Index(n)),
         \A j \in 1..(i - 1) : \A b : Gives(ss[j], t, b) /\ b.is = "index" => b = Index(b.name)
  PROVE  Passes(Here(f, ss, i - 1), ss[i])
<1>1. Index(n).is = "index" /\ Index(n).name = n
  BY DEF Index
<1>2. Present(f, ss, i, t)
  BY DEF Present
<1>3. \A j \in 1..(i - 1) : \A b : Gives(ss[j], t, b) => b.is # "index" \/ b.name # n
  OBVIOUS
<1> DEFINE a == Index(n)
<1> HIDE DEF a
<1>4. a.is = "index" /\ a.name = n
  BY <1>1 DEF a
<1>5. Adds(ss[i], t, a)
  BY DEF a
<1> QED
  BY <1>2, <1>3, <1>4, <1>5, AddPasses

LEMMA MakesNoIndex ==
  ASSUME NEW s, NEW u, NEW others, Makes(s, u, others), NEW t, NEW n
  PROVE  ~Gives(s, t, Index(n)) /\ \A b : Gives(s, t, b) => b.is # "index"
BY DEF Makes, Gives, Index

LEMMA AddsIndex ==
  ASSUME NEW s, NEW u, NEW m, Adds(s, u, Index(m)), NEW t
  PROVE  /\ \A n : n # m => ~Gives(s, t, Index(n))
         /\ \A b : Gives(s, t, b) => b = Index(b.name)
<1>1. \A b : Gives(s, t, b) => b = Index(m)
  BY DEF Adds, Gives
<1>2. Index(m).name = m /\ \A n : Index(n).name = n
  BY DEF Index
<1> QED
  BY <1>1, <1>2

LEMMA AddsColumn ==
  ASSUME NEW s, NEW u, NEW m, NEW w, Adds(s, u, Column(m, w)), NEW t
  PROVE  /\ \A n : ~Gives(s, t, Index(n))
         /\ \A b : Gives(s, t, b) => b = Column(m, w) /\ b.is # "index"
<1>1. \A b : Gives(s, t, b) => b = Column(m, w)
  BY DEF Adds, Gives
<1>2. Column(m, w).is = "column" /\ \A n : Index(n).is = "index"
  BY DEF Column, Index
<1> QED
  BY <1>1, <1>2

LEMMA NoGeom ==
  ASSUME NEW t
  PROVE  \A b : Gives(Initial_Rest[1], t, b) => b.is # "column" \/ b.name # "geom"
<1> DEFINE plain == {"id", "trip_id", "position", "arrival_radius_m", "created_at"}
           text == [name |-> 120]
           keys == TripKey
<1>1. DOMAIN text = {"name"} /\ DOMAIN keys = {"trip_id"} /\ DOMAIN None = {}
  BY DEF TripKey, None
<1>2. Initial_Rest[1] = Create("waypoints", plain, text, keys, None)
  BY DEF Initial_Rest
<1>3. \A c \in plain \cup DOMAIN text \cup DOMAIN keys \cup DOMAIN None : c # "geom"
  BY <1>1
<1> HIDE DEF plain, text, keys
<1>4. \A b \in Initial_Rest[1].shape : b.name # "geom"
  BY <1>2, <1>3, CreatedNames
<1> QED
  BY <1>4 DEF Gives

LEMMA Initial_TripsSmooth ==
  ASSUME NEW f,
         \A t \in {"users", "trips", "trip_members"} : f[t] = {}
  PROVE  Smooth(f, Initial_Trips)
<1>0. GoesUp(Initial_Trips) /\ Len(Initial_Trips) = 5
  BY Initial_TripsIs, Initial_TripsReads
<1>1. Passes(Here(f, Initial_Trips, 1 - 1), Initial_Trips[1])
  <2>1. \A j \in 1..(1 - 1) : Initial_Trips[j].on # "users"
    BY Initial_TripsReads DEF Makes, Adds
  <2>3. Makes(Initial_Trips[1], "users", {})
    BY Initial_TripsReads
  <2>4. 1 \in 1..Len(Initial_Trips) /\ f["users"] = {}
    BY <1>0
  <2> DEFINE t == "users"
             others == {}
             i == 1
  <2>5. /\ t \in Tables /\ i \in 1..Len(Initial_Trips) /\ f[t] = {} /\ Makes(Initial_Trips[i], t, others)
        /\ \A j \in 1..(i - 1) : Initial_Trips[j].on # t
    BY <2>1, <2>3, <2>4, TablesHave
  <2>6. \A to \in others : to \in Tables /\ Present(f, Initial_Trips, i, to)
    BY TablesHave
  <2> HIDE DEF t, others, i
  <2>7. Passes(Here(f, Initial_Trips, i - 1), Initial_Trips[i])
    BY <1>0, <2>5, <2>6, CreatePasses
  <2> QED
    BY <2>7 DEF i
<1>2. Passes(Here(f, Initial_Trips, 2 - 1), Initial_Trips[2])
  <2>1. \A j \in 1..(2 - 1) : Initial_Trips[j].on # "trips"
    BY Initial_TripsReads DEF Makes, Adds
  <2>2. \A to \in {"users"} : Present(f, Initial_Trips, 2, to)
    BY Initial_TripsReads DEF Makes, Present
  <2>3. Makes(Initial_Trips[2], "trips", {"users"})
    BY Initial_TripsReads
  <2>4. 2 \in 1..Len(Initial_Trips) /\ f["trips"] = {}
    BY <1>0
  <2> DEFINE t == "trips"
             others == {"users"}
             i == 2
  <2>5. /\ t \in Tables /\ i \in 1..Len(Initial_Trips) /\ f[t] = {} /\ Makes(Initial_Trips[i], t, others)
        /\ \A j \in 1..(i - 1) : Initial_Trips[j].on # t
    BY <2>1, <2>3, <2>4, TablesHave
  <2>6. \A to \in others : to \in Tables /\ Present(f, Initial_Trips, i, to)
    BY <2>2, TablesHave
  <2> HIDE DEF t, others, i
  <2>7. Passes(Here(f, Initial_Trips, i - 1), Initial_Trips[i])
    BY <1>0, <2>5, <2>6, CreatePasses
  <2> QED
    BY <2>7 DEF i
<1>3. Passes(Here(f, Initial_Trips, 3 - 1), Initial_Trips[3])
  <2>1. \A j \in 1..(3 - 1) : Initial_Trips[j].on = "trips" => j \in {2}
    BY Initial_TripsReads DEF Makes, Adds
  <2>2. /\ \A j \in {2} : ~Gives(Initial_Trips[j], "trips", Index("ix_trips_owner_id"))
        /\ \A j \in {2} : \A b : Gives(Initial_Trips[j], "trips", b) /\ b.is = "index" => b = Index(b.name)
    <3>1. /\ ~Gives(Initial_Trips[2], "trips", Index("ix_trips_owner_id"))
          /\ \A b : Gives(Initial_Trips[2], "trips", b) /\ b.is = "index" => b = Index(b.name)
      <4>1. Makes(Initial_Trips[2], "trips", {"users"})
        BY Initial_TripsReads
      <4> QED
        BY <4>1, MakesNoIndex
    <3> QED
      BY <3>1
  <2>3. /\ \A j \in 1..(3 - 1) : ~Gives(Initial_Trips[j], "trips", Index("ix_trips_owner_id"))
        /\ \A j \in 1..(3 - 1) : \A b : Gives(Initial_Trips[j], "trips", b) /\ b.is = "index" => b = Index(b.name)
    BY <2>1, <2>2 DEF Gives
  <2>4. \E j \in 1..(3 - 1) : Initial_Trips[j].on = "trips" /\ Initial_Trips[j].do = "create"
    <3>1. 2 \in 1..(3 - 1)
      OBVIOUS
    <3> QED
      BY <3>1, Initial_TripsReads DEF Makes
  <2>5. Adds(Initial_Trips[3], "trips", Index("ix_trips_owner_id"))
    BY Initial_TripsReads
  <2>6. 3 \in 1..Len(Initial_Trips) /\ f["trips"] = {}
    BY <1>0
  <2> QED
    BY <1>0, <2>3, <2>4, <2>5, <2>6, TablesHave, IndexPasses
<1>4. Passes(Here(f, Initial_Trips, 4 - 1), Initial_Trips[4])
  <2>1. \A j \in 1..(4 - 1) : Initial_Trips[j].on # "trip_members"
    BY Initial_TripsReads DEF Makes, Adds
  <2>2. \A to \in {"trips", "users"} : Present(f, Initial_Trips, 4, to)
    BY Initial_TripsReads DEF Makes, Present
  <2>3. Makes(Initial_Trips[4], "trip_members", {"trips", "users"})
    BY Initial_TripsReads
  <2>4. 4 \in 1..Len(Initial_Trips) /\ f["trip_members"] = {}
    BY <1>0
  <2> DEFINE t == "trip_members"
             others == {"trips", "users"}
             i == 4
  <2>5. /\ t \in Tables /\ i \in 1..Len(Initial_Trips) /\ f[t] = {} /\ Makes(Initial_Trips[i], t, others)
        /\ \A j \in 1..(i - 1) : Initial_Trips[j].on # t
    BY <2>1, <2>3, <2>4, TablesHave
  <2>6. \A to \in others : to \in Tables /\ Present(f, Initial_Trips, i, to)
    BY <2>2, TablesHave
  <2> HIDE DEF t, others, i
  <2>7. Passes(Here(f, Initial_Trips, i - 1), Initial_Trips[i])
    BY <1>0, <2>5, <2>6, CreatePasses
  <2> QED
    BY <2>7 DEF i
<1>5. Passes(Here(f, Initial_Trips, 5 - 1), Initial_Trips[5])
  <2>1. \A j \in 1..(5 - 1) : Initial_Trips[j].on = "trip_members" => j \in {4}
    BY Initial_TripsReads DEF Makes, Adds
  <2>2. /\ \A j \in {4} : ~Gives(Initial_Trips[j], "trip_members", Index("ix_trip_members_user_id"))
        /\ \A j \in {4} : \A b : Gives(Initial_Trips[j], "trip_members", b) /\ b.is = "index" => b = Index(b.name)
    <3>1. /\ ~Gives(Initial_Trips[4], "trip_members", Index("ix_trip_members_user_id"))
          /\ \A b : Gives(Initial_Trips[4], "trip_members", b) /\ b.is = "index" => b = Index(b.name)
      <4>1. Makes(Initial_Trips[4], "trip_members", {"trips", "users"})
        BY Initial_TripsReads
      <4> QED
        BY <4>1, MakesNoIndex
    <3> QED
      BY <3>1
  <2>3. /\ \A j \in 1..(5 - 1) : ~Gives(Initial_Trips[j], "trip_members", Index("ix_trip_members_user_id"))
        /\ \A j \in 1..(5 - 1) : \A b : Gives(Initial_Trips[j], "trip_members", b) /\ b.is = "index" => b = Index(b.name)
    BY <2>1, <2>2 DEF Gives
  <2>4. \E j \in 1..(5 - 1) : Initial_Trips[j].on = "trip_members" /\ Initial_Trips[j].do = "create"
    <3>1. 4 \in 1..(5 - 1)
      OBVIOUS
    <3> QED
      BY <3>1, Initial_TripsReads DEF Makes
  <2>5. Adds(Initial_Trips[5], "trip_members", Index("ix_trip_members_user_id"))
    BY Initial_TripsReads
  <2>6. 5 \in 1..Len(Initial_Trips) /\ f["trip_members"] = {}
    BY <1>0
  <2> QED
    BY <1>0, <2>3, <2>4, <2>5, <2>6, TablesHave, IndexPasses
<1>6. ASSUME NEW n \in 1..5 PROVE Passes(Here(f, Initial_Trips, n - 1), Initial_Trips[n])
  BY <1>1, <1>2, <1>3, <1>4, <1>5
<1> QED
  BY <1>0, <1>6 DEF Smooth

LEMMA Initial_RestSmooth ==
  ASSUME NEW f, f["trips"] # {}, f["users"] # {},
         \A t \in {"waypoints", "messages", "devices", "locations"} : f[t] = {}
  PROVE  Smooth(f, Initial_Rest)
<1>0. GoesUp(Initial_Rest) /\ Len(Initial_Rest) = 10
  BY Initial_RestIs, Initial_RestReads
<1>1. Passes(Here(f, Initial_Rest, 1 - 1), Initial_Rest[1])
  <2>1. \A j \in 1..(1 - 1) : Initial_Rest[j].on # "waypoints"
    BY Initial_RestReads DEF Makes, Adds
  <2>2. \A to \in {"trips"} : Present(f, Initial_Rest, 1, to)
    BY Initial_RestReads DEF Makes, Present
  <2>3. Makes(Initial_Rest[1], "waypoints", {"trips"})
    BY Initial_RestReads
  <2>4. 1 \in 1..Len(Initial_Rest) /\ f["waypoints"] = {}
    BY <1>0
  <2> DEFINE t == "waypoints"
             others == {"trips"}
             i == 1
  <2>5. /\ t \in Tables /\ i \in 1..Len(Initial_Rest) /\ f[t] = {} /\ Makes(Initial_Rest[i], t, others)
        /\ \A j \in 1..(i - 1) : Initial_Rest[j].on # t
    BY <2>1, <2>3, <2>4, TablesHave
  <2>6. \A to \in others : to \in Tables /\ Present(f, Initial_Rest, i, to)
    BY <2>2, TablesHave
  <2> HIDE DEF t, others, i
  <2>7. Passes(Here(f, Initial_Rest, i - 1), Initial_Rest[i])
    BY <1>0, <2>5, <2>6, CreatePasses
  <2> QED
    BY <2>7 DEF i
<1>2. Passes(Here(f, Initial_Rest, 2 - 1), Initial_Rest[2])
  <2> DEFINE t == "waypoints"
             a == Column("geom", 0)
             i == 2
  <2>1. a.is = "column" /\ a.name = "geom"
    BY DEF Column
  <2>2. \A j \in 1..(i - 1) : Initial_Rest[j].on = t => j \in {1}
    BY Initial_RestReads DEF Makes, Adds
  <2>3a. \A b : Gives(Initial_Rest[1], t, b) => b.is # "column" \/ b.name # "geom"
    BY NoGeom
  <2>4. \A j \in 1..(i - 1) : \A b : Gives(Initial_Rest[j], t, b) => b.is # a.is \/ b.name # a.name
    BY <2>1, <2>2, <2>3a DEF Gives
  <2>5. Present(f, Initial_Rest, i, t)
    <3>1. 1 \in 1..(i - 1)
      OBVIOUS
    <3> QED
      BY <3>1, Initial_RestReads DEF Makes, Present
  <2>6. \A x \in f[t] : ~Exists(x, a.is, a.name)
    BY <1>0
  <2>7. a.is # "fk"
    BY <2>1
  <2>8. Adds(Initial_Rest[i], t, a) /\ t \in Tables /\ i \in 1..Len(Initial_Rest)
    BY <1>0, Initial_RestReads, TablesHave
  <2> HIDE DEF t, a, i
  <2>9. Passes(Here(f, Initial_Rest, i - 1), Initial_Rest[i])
    BY <1>0, <2>4, <2>5, <2>6, <2>7, <2>8, AddPasses
  <2> QED
    BY <2>9 DEF i
<1>3. Passes(Here(f, Initial_Rest, 3 - 1), Initial_Rest[3])
  <2>1. \A j \in 1..(3 - 1) : Initial_Rest[j].on = "waypoints" => j \in {1, 2}
    BY Initial_RestReads DEF Makes, Adds
  <2>2. /\ \A j \in {1, 2} : ~Gives(Initial_Rest[j], "waypoints", Index("ix_waypoints_geom"))
        /\ \A j \in {1, 2} : \A b : Gives(Initial_Rest[j], "waypoints", b) /\ b.is = "index" => b = Index(b.name)
    <3>1. /\ ~Gives(Initial_Rest[1], "waypoints", Index("ix_waypoints_geom"))
          /\ \A b : Gives(Initial_Rest[1], "waypoints", b) /\ b.is = "index" => b = Index(b.name)
      <4>1. Makes(Initial_Rest[1], "waypoints", {"trips"})
        BY Initial_RestReads
      <4> QED
        BY <4>1, MakesNoIndex
    <3>2. /\ ~Gives(Initial_Rest[2], "waypoints", Index("ix_waypoints_geom"))
          /\ \A b : Gives(Initial_Rest[2], "waypoints", b) /\ b.is = "index" => b = Index(b.name)
      <4>1. Adds(Initial_Rest[2], "waypoints", Column("geom", 0))
        BY Initial_RestReads
      <4> QED
        BY <4>1, AddsColumn
    <3> QED
      BY <3>1, <3>2
  <2>3. /\ \A j \in 1..(3 - 1) : ~Gives(Initial_Rest[j], "waypoints", Index("ix_waypoints_geom"))
        /\ \A j \in 1..(3 - 1) : \A b : Gives(Initial_Rest[j], "waypoints", b) /\ b.is = "index" => b = Index(b.name)
    BY <2>1, <2>2 DEF Gives
  <2>4. \E j \in 1..(3 - 1) : Initial_Rest[j].on = "waypoints" /\ Initial_Rest[j].do = "create"
    <3>1. 1 \in 1..(3 - 1)
      OBVIOUS
    <3> QED
      BY <3>1, Initial_RestReads DEF Makes
  <2>5. Adds(Initial_Rest[3], "waypoints", Index("ix_waypoints_geom"))
    BY Initial_RestReads
  <2>6. 3 \in 1..Len(Initial_Rest) /\ f["waypoints"] = {}
    BY <1>0
  <2> QED
    BY <1>0, <2>3, <2>4, <2>5, <2>6, TablesHave, IndexPasses
<1>4. Passes(Here(f, Initial_Rest, 4 - 1), Initial_Rest[4])
  <2>1. \A j \in 1..(4 - 1) : Initial_Rest[j].on = "waypoints" => j \in {1, 2, 3}
    BY Initial_RestReads DEF Makes, Adds
  <2>2. /\ \A j \in {1, 2, 3} : ~Gives(Initial_Rest[j], "waypoints", Index("ix_waypoints_trip_id"))
        /\ \A j \in {1, 2, 3} : \A b : Gives(Initial_Rest[j], "waypoints", b) /\ b.is = "index" => b = Index(b.name)
    <3>1. /\ ~Gives(Initial_Rest[1], "waypoints", Index("ix_waypoints_trip_id"))
          /\ \A b : Gives(Initial_Rest[1], "waypoints", b) /\ b.is = "index" => b = Index(b.name)
      <4>1. Makes(Initial_Rest[1], "waypoints", {"trips"})
        BY Initial_RestReads
      <4> QED
        BY <4>1, MakesNoIndex
    <3>2. /\ ~Gives(Initial_Rest[2], "waypoints", Index("ix_waypoints_trip_id"))
          /\ \A b : Gives(Initial_Rest[2], "waypoints", b) /\ b.is = "index" => b = Index(b.name)
      <4>1. Adds(Initial_Rest[2], "waypoints", Column("geom", 0))
        BY Initial_RestReads
      <4> QED
        BY <4>1, AddsColumn
    <3>3. /\ ~Gives(Initial_Rest[3], "waypoints", Index("ix_waypoints_trip_id"))
          /\ \A b : Gives(Initial_Rest[3], "waypoints", b) /\ b.is = "index" => b = Index(b.name)
      <4>1. Adds(Initial_Rest[3], "waypoints", Index("ix_waypoints_geom"))
        BY Initial_RestReads
      <4> QED
        BY <4>1, AddsIndex
    <3> QED
      BY <3>1, <3>2, <3>3
  <2>3. /\ \A j \in 1..(4 - 1) : ~Gives(Initial_Rest[j], "waypoints", Index("ix_waypoints_trip_id"))
        /\ \A j \in 1..(4 - 1) : \A b : Gives(Initial_Rest[j], "waypoints", b) /\ b.is = "index" => b = Index(b.name)
    BY <2>1, <2>2 DEF Gives
  <2>4. \E j \in 1..(4 - 1) : Initial_Rest[j].on = "waypoints" /\ Initial_Rest[j].do = "create"
    <3>1. 1 \in 1..(4 - 1)
      OBVIOUS
    <3> QED
      BY <3>1, Initial_RestReads DEF Makes
  <2>5. Adds(Initial_Rest[4], "waypoints", Index("ix_waypoints_trip_id"))
    BY Initial_RestReads
  <2>6. 4 \in 1..Len(Initial_Rest) /\ f["waypoints"] = {}
    BY <1>0
  <2> QED
    BY <1>0, <2>3, <2>4, <2>5, <2>6, TablesHave, IndexPasses
<1>5. Passes(Here(f, Initial_Rest, 5 - 1), Initial_Rest[5])
  <2>1. \A j \in 1..(5 - 1) : Initial_Rest[j].on # "messages"
    BY Initial_RestReads DEF Makes, Adds
  <2>2. \A to \in {"trips", "users"} : Present(f, Initial_Rest, 5, to)
    BY Initial_RestReads DEF Makes, Present
  <2>3. Makes(Initial_Rest[5], "messages", {"trips", "users"})
    BY Initial_RestReads
  <2>4. 5 \in 1..Len(Initial_Rest) /\ f["messages"] = {}
    BY <1>0
  <2> DEFINE t == "messages"
             others == {"trips", "users"}
             i == 5
  <2>5. /\ t \in Tables /\ i \in 1..Len(Initial_Rest) /\ f[t] = {} /\ Makes(Initial_Rest[i], t, others)
        /\ \A j \in 1..(i - 1) : Initial_Rest[j].on # t
    BY <2>1, <2>3, <2>4, TablesHave
  <2>6. \A to \in others : to \in Tables /\ Present(f, Initial_Rest, i, to)
    BY <2>2, TablesHave
  <2> HIDE DEF t, others, i
  <2>7. Passes(Here(f, Initial_Rest, i - 1), Initial_Rest[i])
    BY <1>0, <2>5, <2>6, CreatePasses
  <2> QED
    BY <2>7 DEF i
<1>6. Passes(Here(f, Initial_Rest, 6 - 1), Initial_Rest[6])
  <2>1. \A j \in 1..(6 - 1) : Initial_Rest[j].on = "messages" => j \in {5}
    BY Initial_RestReads DEF Makes, Adds
  <2>2. /\ \A j \in {5} : ~Gives(Initial_Rest[j], "messages", Index("ix_messages_trip_sent"))
        /\ \A j \in {5} : \A b : Gives(Initial_Rest[j], "messages", b) /\ b.is = "index" => b = Index(b.name)
    <3>1. /\ ~Gives(Initial_Rest[5], "messages", Index("ix_messages_trip_sent"))
          /\ \A b : Gives(Initial_Rest[5], "messages", b) /\ b.is = "index" => b = Index(b.name)
      <4>1. Makes(Initial_Rest[5], "messages", {"trips", "users"})
        BY Initial_RestReads
      <4> QED
        BY <4>1, MakesNoIndex
    <3> QED
      BY <3>1
  <2>3. /\ \A j \in 1..(6 - 1) : ~Gives(Initial_Rest[j], "messages", Index("ix_messages_trip_sent"))
        /\ \A j \in 1..(6 - 1) : \A b : Gives(Initial_Rest[j], "messages", b) /\ b.is = "index" => b = Index(b.name)
    BY <2>1, <2>2 DEF Gives
  <2>4. \E j \in 1..(6 - 1) : Initial_Rest[j].on = "messages" /\ Initial_Rest[j].do = "create"
    <3>1. 5 \in 1..(6 - 1)
      OBVIOUS
    <3> QED
      BY <3>1, Initial_RestReads DEF Makes
  <2>5. Adds(Initial_Rest[6], "messages", Index("ix_messages_trip_sent"))
    BY Initial_RestReads
  <2>6. 6 \in 1..Len(Initial_Rest) /\ f["messages"] = {}
    BY <1>0
  <2> QED
    BY <1>0, <2>3, <2>4, <2>5, <2>6, TablesHave, IndexPasses
<1>7. Passes(Here(f, Initial_Rest, 7 - 1), Initial_Rest[7])
  <2>1. \A j \in 1..(7 - 1) : Initial_Rest[j].on # "devices"
    BY Initial_RestReads DEF Makes, Adds
  <2>2. \A to \in {"users"} : Present(f, Initial_Rest, 7, to)
    BY Initial_RestReads DEF Makes, Present
  <2>3. Makes(Initial_Rest[7], "devices", {"users"})
    BY Initial_RestReads
  <2>4. 7 \in 1..Len(Initial_Rest) /\ f["devices"] = {}
    BY <1>0
  <2> DEFINE t == "devices"
             others == {"users"}
             i == 7
  <2>5. /\ t \in Tables /\ i \in 1..Len(Initial_Rest) /\ f[t] = {} /\ Makes(Initial_Rest[i], t, others)
        /\ \A j \in 1..(i - 1) : Initial_Rest[j].on # t
    BY <2>1, <2>3, <2>4, TablesHave
  <2>6. \A to \in others : to \in Tables /\ Present(f, Initial_Rest, i, to)
    BY <2>2, TablesHave
  <2> HIDE DEF t, others, i
  <2>7. Passes(Here(f, Initial_Rest, i - 1), Initial_Rest[i])
    BY <1>0, <2>5, <2>6, CreatePasses
  <2> QED
    BY <2>7 DEF i
<1>8. Passes(Here(f, Initial_Rest, 8 - 1), Initial_Rest[8])
  <2>1. \A j \in 1..(8 - 1) : Initial_Rest[j].on # "locations"
    BY Initial_RestReads DEF Makes, Adds
  <2>2. \A to \in {"trips", "users"} : Present(f, Initial_Rest, 8, to)
    BY Initial_RestReads DEF Makes, Present
  <2>3. Makes(Initial_Rest[8], "locations", {"trips", "users"})
    BY Initial_RestReads
  <2>4. 8 \in 1..Len(Initial_Rest) /\ f["locations"] = {}
    BY <1>0
  <2> DEFINE t == "locations"
             others == {"trips", "users"}
             i == 8
  <2>5. /\ t \in Tables /\ i \in 1..Len(Initial_Rest) /\ f[t] = {} /\ Makes(Initial_Rest[i], t, others)
        /\ \A j \in 1..(i - 1) : Initial_Rest[j].on # t
    BY <2>1, <2>3, <2>4, TablesHave
  <2>6. \A to \in others : to \in Tables /\ Present(f, Initial_Rest, i, to)
    BY <2>2, TablesHave
  <2> HIDE DEF t, others, i
  <2>7. Passes(Here(f, Initial_Rest, i - 1), Initial_Rest[i])
    BY <1>0, <2>5, <2>6, CreatePasses
  <2> QED
    BY <2>7 DEF i
<1>9. Passes(Here(f, Initial_Rest, 9 - 1), Initial_Rest[9])
  <2>1. \A j \in 1..(9 - 1) : Initial_Rest[j].on = "locations" => j \in {8}
    BY Initial_RestReads DEF Makes, Adds
  <2>2. /\ \A j \in {8} : ~Gives(Initial_Rest[j], "locations", Index("ix_locations_trip_time"))
        /\ \A j \in {8} : \A b : Gives(Initial_Rest[j], "locations", b) /\ b.is = "index" => b = Index(b.name)
    <3>1. /\ ~Gives(Initial_Rest[8], "locations", Index("ix_locations_trip_time"))
          /\ \A b : Gives(Initial_Rest[8], "locations", b) /\ b.is = "index" => b = Index(b.name)
      <4>1. Makes(Initial_Rest[8], "locations", {"trips", "users"})
        BY Initial_RestReads
      <4> QED
        BY <4>1, MakesNoIndex
    <3> QED
      BY <3>1
  <2>3. /\ \A j \in 1..(9 - 1) : ~Gives(Initial_Rest[j], "locations", Index("ix_locations_trip_time"))
        /\ \A j \in 1..(9 - 1) : \A b : Gives(Initial_Rest[j], "locations", b) /\ b.is = "index" => b = Index(b.name)
    BY <2>1, <2>2 DEF Gives
  <2>4. \E j \in 1..(9 - 1) : Initial_Rest[j].on = "locations" /\ Initial_Rest[j].do = "create"
    <3>1. 8 \in 1..(9 - 1)
      OBVIOUS
    <3> QED
      BY <3>1, Initial_RestReads DEF Makes
  <2>5. Adds(Initial_Rest[9], "locations", Index("ix_locations_trip_time"))
    BY Initial_RestReads
  <2>6. 9 \in 1..Len(Initial_Rest) /\ f["locations"] = {}
    BY <1>0
  <2> QED
    BY <1>0, <2>3, <2>4, <2>5, <2>6, TablesHave, IndexPasses
<1>10. Passes(Here(f, Initial_Rest, 10 - 1), Initial_Rest[10])
  <2>1. \A j \in 1..(10 - 1) : Initial_Rest[j].on = "locations" => j \in {8, 9}
    BY Initial_RestReads DEF Makes, Adds
  <2>2. /\ \A j \in {8, 9} : ~Gives(Initial_Rest[j], "locations", Index("ix_locations_geom"))
        /\ \A j \in {8, 9} : \A b : Gives(Initial_Rest[j], "locations", b) /\ b.is = "index" => b = Index(b.name)
    <3>1. /\ ~Gives(Initial_Rest[8], "locations", Index("ix_locations_geom"))
          /\ \A b : Gives(Initial_Rest[8], "locations", b) /\ b.is = "index" => b = Index(b.name)
      <4>1. Makes(Initial_Rest[8], "locations", {"trips", "users"})
        BY Initial_RestReads
      <4> QED
        BY <4>1, MakesNoIndex
    <3>2. /\ ~Gives(Initial_Rest[9], "locations", Index("ix_locations_geom"))
          /\ \A b : Gives(Initial_Rest[9], "locations", b) /\ b.is = "index" => b = Index(b.name)
      <4>1. Adds(Initial_Rest[9], "locations", Index("ix_locations_trip_time"))
        BY Initial_RestReads
      <4> QED
        BY <4>1, AddsIndex
    <3> QED
      BY <3>1, <3>2
  <2>3. /\ \A j \in 1..(10 - 1) : ~Gives(Initial_Rest[j], "locations", Index("ix_locations_geom"))
        /\ \A j \in 1..(10 - 1) : \A b : Gives(Initial_Rest[j], "locations", b) /\ b.is = "index" => b = Index(b.name)
    BY <2>1, <2>2 DEF Gives
  <2>4. \E j \in 1..(10 - 1) : Initial_Rest[j].on = "locations" /\ Initial_Rest[j].do = "create"
    <3>1. 8 \in 1..(10 - 1)
      OBVIOUS
    <3> QED
      BY <3>1, Initial_RestReads DEF Makes
  <2>5. Adds(Initial_Rest[10], "locations", Index("ix_locations_geom"))
    BY Initial_RestReads
  <2>6. 10 \in 1..Len(Initial_Rest) /\ f["locations"] = {}
    BY <1>0
  <2> QED
    BY <1>0, <2>3, <2>4, <2>5, <2>6, TablesHave, IndexPasses
<1>11. ASSUME NEW n \in 1..10 PROVE Passes(Here(f, Initial_Rest, n - 1), Initial_Rest[n])
  BY <1>1, <1>2, <1>3, <1>4, <1>5, <1>6, <1>7, <1>8, <1>9, <1>10
<1> QED
  BY <1>0, <1>11 DEF Smooth

LEMMA Advanced_MembersSmooth ==
  ASSUME NEW f,
         f["trip_members"] # {}, \A x \in f["trip_members"] : Lacks(x, NewMembers)
  PROVE  Smooth(f, Advanced_Members)
<1>0. GoesUp(Advanced_Members) /\ Len(Advanced_Members) = 5
  BY Advanced_MembersIs, Advanced_MembersReads
<1>1. Passes(Here(f, Advanced_Members, 1 - 1), Advanced_Members[1])
  <2> DEFINE t == "trip_members"
             a == Column("visibility_scope", 0)
             i == 1
  <2>1. a.is = "column" /\ a.name = "visibility_scope"
    BY DEF Column
  <2>2. \A j \in 1..(i - 1) : Advanced_Members[j].on # t
    BY Advanced_MembersReads DEF Makes, Adds
  <2>4. \A j \in 1..(i - 1) : \A b : Gives(Advanced_Members[j], t, b) => b.is # a.is \/ b.name # a.name
    BY <2>1, <2>2 DEF Gives
  <2>5. Present(f, Advanced_Members, i, t)
    BY DEF Present
  <2>6. \A x \in f[t] : ~Exists(x, a.is, a.name)
    <3>1. "visibility_scope" \in NewMembers
      BY DEF NewMembers
    <3> HIDE DEF a
    <3>2. \A x \in f[t] : Lacks(x, NewMembers)
      OBVIOUS
    <3> QED
      BY <2>1, <3>1, <3>2 DEF Lacks, Exists
  <2>7. a.is # "fk"
    BY <2>1
  <2>8. Adds(Advanced_Members[i], t, a) /\ t \in Tables /\ i \in 1..Len(Advanced_Members)
    BY <1>0, Advanced_MembersReads, TablesHave
  <2> HIDE DEF t, a, i
  <2>9. Passes(Here(f, Advanced_Members, i - 1), Advanced_Members[i])
    BY <1>0, <2>4, <2>5, <2>6, <2>7, <2>8, AddPasses
  <2> QED
    BY <2>9 DEF i
<1>2. Passes(Here(f, Advanced_Members, 2 - 1), Advanced_Members[2])
  <2> DEFINE t == "trip_members"
             a == Column("share_until", 0)
             i == 2
  <2>1. a.is = "column" /\ a.name = "share_until"
    BY DEF Column
  <2>2. \A j \in 1..(i - 1) : Advanced_Members[j].on = t => j \in {1}
    BY Advanced_MembersReads DEF Makes, Adds
  <2>3a. \A b : Gives(Advanced_Members[1], t, b) => b.is # "column" \/ b.name # "share_until"
    <3>1. Adds(Advanced_Members[1], "trip_members", Column("visibility_scope", 0))
      BY Advanced_MembersReads
    <3>2. \A b : Gives(Advanced_Members[1], t, b) => b = Column("visibility_scope", 0)
      BY <3>1, AddsColumn
    <3>3. Column("visibility_scope", 0).name = "visibility_scope"
      BY DEF Column
    <3> QED
      BY <3>2, <3>3
  <2>4. \A j \in 1..(i - 1) : \A b : Gives(Advanced_Members[j], t, b) => b.is # a.is \/ b.name # a.name
    BY <2>1, <2>2, <2>3a DEF Gives
  <2>5. Present(f, Advanced_Members, i, t)
    BY DEF Present
  <2>6. \A x \in f[t] : ~Exists(x, a.is, a.name)
    <3>1. "share_until" \in NewMembers
      BY DEF NewMembers
    <3> HIDE DEF a
    <3>2. \A x \in f[t] : Lacks(x, NewMembers)
      OBVIOUS
    <3> QED
      BY <2>1, <3>1, <3>2 DEF Lacks, Exists
  <2>7. a.is # "fk"
    BY <2>1
  <2>8. Adds(Advanced_Members[i], t, a) /\ t \in Tables /\ i \in 1..Len(Advanced_Members)
    BY <1>0, Advanced_MembersReads, TablesHave
  <2> HIDE DEF t, a, i
  <2>9. Passes(Here(f, Advanced_Members, i - 1), Advanced_Members[i])
    BY <1>0, <2>4, <2>5, <2>6, <2>7, <2>8, AddPasses
  <2> QED
    BY <2>9 DEF i
<1>3. Passes(Here(f, Advanced_Members, 3 - 1), Advanced_Members[3])
  <2> DEFINE t == "trip_members"
             a == Column("is_ready", 0)
             i == 3
  <2>1. a.is = "column" /\ a.name = "is_ready"
    BY DEF Column
  <2>2. \A j \in 1..(i - 1) : Advanced_Members[j].on = t => j \in {1, 2}
    BY Advanced_MembersReads DEF Makes, Adds
  <2>3a. \A b : Gives(Advanced_Members[1], t, b) => b.is # "column" \/ b.name # "is_ready"
    <3>1. Adds(Advanced_Members[1], "trip_members", Column("visibility_scope", 0))
      BY Advanced_MembersReads
    <3>2. \A b : Gives(Advanced_Members[1], t, b) => b = Column("visibility_scope", 0)
      BY <3>1, AddsColumn
    <3>3. Column("visibility_scope", 0).name = "visibility_scope"
      BY DEF Column
    <3> QED
      BY <3>2, <3>3
  <2>3b. \A b : Gives(Advanced_Members[2], t, b) => b.is # "column" \/ b.name # "is_ready"
    <3>1. Adds(Advanced_Members[2], "trip_members", Column("share_until", 0))
      BY Advanced_MembersReads
    <3>2. \A b : Gives(Advanced_Members[2], t, b) => b = Column("share_until", 0)
      BY <3>1, AddsColumn
    <3>3. Column("share_until", 0).name = "share_until"
      BY DEF Column
    <3> QED
      BY <3>2, <3>3
  <2>4. \A j \in 1..(i - 1) : \A b : Gives(Advanced_Members[j], t, b) => b.is # a.is \/ b.name # a.name
    BY <2>1, <2>2, <2>3a, <2>3b DEF Gives
  <2>5. Present(f, Advanced_Members, i, t)
    BY DEF Present
  <2>6. \A x \in f[t] : ~Exists(x, a.is, a.name)
    <3>1. "is_ready" \in NewMembers
      BY DEF NewMembers
    <3> HIDE DEF a
    <3>2. \A x \in f[t] : Lacks(x, NewMembers)
      OBVIOUS
    <3> QED
      BY <2>1, <3>1, <3>2 DEF Lacks, Exists
  <2>7. a.is # "fk"
    BY <2>1
  <2>8. Adds(Advanced_Members[i], t, a) /\ t \in Tables /\ i \in 1..Len(Advanced_Members)
    BY <1>0, Advanced_MembersReads, TablesHave
  <2> HIDE DEF t, a, i
  <2>9. Passes(Here(f, Advanced_Members, i - 1), Advanced_Members[i])
    BY <1>0, <2>4, <2>5, <2>6, <2>7, <2>8, AddPasses
  <2> QED
    BY <2>9 DEF i
<1>4. Passes(Here(f, Advanced_Members, 4 - 1), Advanced_Members[4])
  <2> DEFINE t == "trip_members"
             a == Column("vehicle_label", 40)
             i == 4
  <2>1. a.is = "column" /\ a.name = "vehicle_label"
    BY DEF Column
  <2>2. \A j \in 1..(i - 1) : Advanced_Members[j].on = t => j \in {1, 2, 3}
    BY Advanced_MembersReads DEF Makes, Adds
  <2>3a. \A b : Gives(Advanced_Members[1], t, b) => b.is # "column" \/ b.name # "vehicle_label"
    <3>1. Adds(Advanced_Members[1], "trip_members", Column("visibility_scope", 0))
      BY Advanced_MembersReads
    <3>2. \A b : Gives(Advanced_Members[1], t, b) => b = Column("visibility_scope", 0)
      BY <3>1, AddsColumn
    <3>3. Column("visibility_scope", 0).name = "visibility_scope"
      BY DEF Column
    <3> QED
      BY <3>2, <3>3
  <2>3b. \A b : Gives(Advanced_Members[2], t, b) => b.is # "column" \/ b.name # "vehicle_label"
    <3>1. Adds(Advanced_Members[2], "trip_members", Column("share_until", 0))
      BY Advanced_MembersReads
    <3>2. \A b : Gives(Advanced_Members[2], t, b) => b = Column("share_until", 0)
      BY <3>1, AddsColumn
    <3>3. Column("share_until", 0).name = "share_until"
      BY DEF Column
    <3> QED
      BY <3>2, <3>3
  <2>3c. \A b : Gives(Advanced_Members[3], t, b) => b.is # "column" \/ b.name # "vehicle_label"
    <3>1. Adds(Advanced_Members[3], "trip_members", Column("is_ready", 0))
      BY Advanced_MembersReads
    <3>2. \A b : Gives(Advanced_Members[3], t, b) => b = Column("is_ready", 0)
      BY <3>1, AddsColumn
    <3>3. Column("is_ready", 0).name = "is_ready"
      BY DEF Column
    <3> QED
      BY <3>2, <3>3
  <2>4. \A j \in 1..(i - 1) : \A b : Gives(Advanced_Members[j], t, b) => b.is # a.is \/ b.name # a.name
    BY <2>1, <2>2, <2>3a, <2>3b, <2>3c DEF Gives
  <2>5. Present(f, Advanced_Members, i, t)
    BY DEF Present
  <2>6. \A x \in f[t] : ~Exists(x, a.is, a.name)
    <3>1. "vehicle_label" \in NewMembers
      BY DEF NewMembers
    <3> HIDE DEF a
    <3>2. \A x \in f[t] : Lacks(x, NewMembers)
      OBVIOUS
    <3> QED
      BY <2>1, <3>1, <3>2 DEF Lacks, Exists
  <2>7. a.is # "fk"
    BY <2>1
  <2>8. Adds(Advanced_Members[i], t, a) /\ t \in Tables /\ i \in 1..Len(Advanced_Members)
    BY <1>0, Advanced_MembersReads, TablesHave
  <2> HIDE DEF t, a, i
  <2>9. Passes(Here(f, Advanced_Members, i - 1), Advanced_Members[i])
    BY <1>0, <2>4, <2>5, <2>6, <2>7, <2>8, AddPasses
  <2> QED
    BY <2>9 DEF i
<1>5. Passes(Here(f, Advanced_Members, 5 - 1), Advanced_Members[5])
  <2> DEFINE t == "trip_members"
             a == Column("subgroup_id", 0)
             i == 5
  <2>1. a.is = "column" /\ a.name = "subgroup_id"
    BY DEF Column
  <2>2. \A j \in 1..(i - 1) : Advanced_Members[j].on = t => j \in {1, 2, 3, 4}
    BY Advanced_MembersReads DEF Makes, Adds
  <2>3a. \A b : Gives(Advanced_Members[1], t, b) => b.is # "column" \/ b.name # "subgroup_id"
    <3>1. Adds(Advanced_Members[1], "trip_members", Column("visibility_scope", 0))
      BY Advanced_MembersReads
    <3>2. \A b : Gives(Advanced_Members[1], t, b) => b = Column("visibility_scope", 0)
      BY <3>1, AddsColumn
    <3>3. Column("visibility_scope", 0).name = "visibility_scope"
      BY DEF Column
    <3> QED
      BY <3>2, <3>3
  <2>3b. \A b : Gives(Advanced_Members[2], t, b) => b.is # "column" \/ b.name # "subgroup_id"
    <3>1. Adds(Advanced_Members[2], "trip_members", Column("share_until", 0))
      BY Advanced_MembersReads
    <3>2. \A b : Gives(Advanced_Members[2], t, b) => b = Column("share_until", 0)
      BY <3>1, AddsColumn
    <3>3. Column("share_until", 0).name = "share_until"
      BY DEF Column
    <3> QED
      BY <3>2, <3>3
  <2>3c. \A b : Gives(Advanced_Members[3], t, b) => b.is # "column" \/ b.name # "subgroup_id"
    <3>1. Adds(Advanced_Members[3], "trip_members", Column("is_ready", 0))
      BY Advanced_MembersReads
    <3>2. \A b : Gives(Advanced_Members[3], t, b) => b = Column("is_ready", 0)
      BY <3>1, AddsColumn
    <3>3. Column("is_ready", 0).name = "is_ready"
      BY DEF Column
    <3> QED
      BY <3>2, <3>3
  <2>3d. \A b : Gives(Advanced_Members[4], t, b) => b.is # "column" \/ b.name # "subgroup_id"
    <3>1. Adds(Advanced_Members[4], "trip_members", Column("vehicle_label", 40))
      BY Advanced_MembersReads
    <3>2. \A b : Gives(Advanced_Members[4], t, b) => b = Column("vehicle_label", 40)
      BY <3>1, AddsColumn
    <3>3. Column("vehicle_label", 40).name = "vehicle_label"
      BY DEF Column
    <3> QED
      BY <3>2, <3>3
  <2>4. \A j \in 1..(i - 1) : \A b : Gives(Advanced_Members[j], t, b) => b.is # a.is \/ b.name # a.name
    BY <2>1, <2>2, <2>3a, <2>3b, <2>3c, <2>3d DEF Gives
  <2>5. Present(f, Advanced_Members, i, t)
    BY DEF Present
  <2>6. \A x \in f[t] : ~Exists(x, a.is, a.name)
    <3>1. "subgroup_id" \in NewMembers
      BY DEF NewMembers
    <3> HIDE DEF a
    <3>2. \A x \in f[t] : Lacks(x, NewMembers)
      OBVIOUS
    <3> QED
      BY <2>1, <3>1, <3>2 DEF Lacks, Exists
  <2>7. a.is # "fk"
    BY <2>1
  <2>8. Adds(Advanced_Members[i], t, a) /\ t \in Tables /\ i \in 1..Len(Advanced_Members)
    BY <1>0, Advanced_MembersReads, TablesHave
  <2> HIDE DEF t, a, i
  <2>9. Passes(Here(f, Advanced_Members, i - 1), Advanced_Members[i])
    BY <1>0, <2>4, <2>5, <2>6, <2>7, <2>8, AddPasses
  <2> QED
    BY <2>9 DEF i
<1>6. ASSUME NEW n \in 1..5 PROVE Passes(Here(f, Advanced_Members, n - 1), Advanced_Members[n])
  BY <1>1, <1>2, <1>3, <1>4, <1>5
<1> QED
  BY <1>0, <1>6 DEF Smooth

LEMMA Advanced_TripsSmooth ==
  ASSUME NEW f, f["trips"] # {},
         \A x \in f["trips"] : Lacks(x, {"template", "cover_color"})
  PROVE  Smooth(f, Advanced_Trips)
<1>0. GoesUp(Advanced_Trips) /\ Len(Advanced_Trips) = 2
  BY Advanced_TripsIs, Advanced_TripsReads
<1>1. Passes(Here(f, Advanced_Trips, 1 - 1), Advanced_Trips[1])
  <2> DEFINE t == "trips"
             a == Column("template", 40)
             i == 1
  <2>1. a.is = "column" /\ a.name = "template"
    BY DEF Column
  <2>2. \A j \in 1..(i - 1) : Advanced_Trips[j].on # t
    BY Advanced_TripsReads DEF Makes, Adds
  <2>4. \A j \in 1..(i - 1) : \A b : Gives(Advanced_Trips[j], t, b) => b.is # a.is \/ b.name # a.name
    BY <2>1, <2>2 DEF Gives
  <2>5. Present(f, Advanced_Trips, i, t)
    BY DEF Present
  <2>6. \A x \in f[t] : ~Exists(x, a.is, a.name)
    <3>1. "template" \in {"template", "cover_color"}
      BY DEF NewMembers
    <3> HIDE DEF a
    <3>2. \A x \in f[t] : Lacks(x, {"template", "cover_color"})
      OBVIOUS
    <3> QED
      BY <2>1, <3>1, <3>2 DEF Lacks, Exists
  <2>7. a.is # "fk"
    BY <2>1
  <2>8. Adds(Advanced_Trips[i], t, a) /\ t \in Tables /\ i \in 1..Len(Advanced_Trips)
    BY <1>0, Advanced_TripsReads, TablesHave
  <2> HIDE DEF t, a, i
  <2>9. Passes(Here(f, Advanced_Trips, i - 1), Advanced_Trips[i])
    BY <1>0, <2>4, <2>5, <2>6, <2>7, <2>8, AddPasses
  <2> QED
    BY <2>9 DEF i
<1>2. Passes(Here(f, Advanced_Trips, 2 - 1), Advanced_Trips[2])
  <2> DEFINE t == "trips"
             a == Column("cover_color", 9)
             i == 2
  <2>1. a.is = "column" /\ a.name = "cover_color"
    BY DEF Column
  <2>2. \A j \in 1..(i - 1) : Advanced_Trips[j].on = t => j \in {1}
    BY Advanced_TripsReads DEF Makes, Adds
  <2>3a. \A b : Gives(Advanced_Trips[1], t, b) => b.is # "column" \/ b.name # "cover_color"
    <3>1. Adds(Advanced_Trips[1], "trips", Column("template", 40))
      BY Advanced_TripsReads
    <3>2. \A b : Gives(Advanced_Trips[1], t, b) => b = Column("template", 40)
      BY <3>1, AddsColumn
    <3>3. Column("template", 40).name = "template"
      BY DEF Column
    <3> QED
      BY <3>2, <3>3
  <2>4. \A j \in 1..(i - 1) : \A b : Gives(Advanced_Trips[j], t, b) => b.is # a.is \/ b.name # a.name
    BY <2>1, <2>2, <2>3a DEF Gives
  <2>5. Present(f, Advanced_Trips, i, t)
    BY DEF Present
  <2>6. \A x \in f[t] : ~Exists(x, a.is, a.name)
    <3>1. "cover_color" \in {"template", "cover_color"}
      BY DEF NewMembers
    <3> HIDE DEF a
    <3>2. \A x \in f[t] : Lacks(x, {"template", "cover_color"})
      OBVIOUS
    <3> QED
      BY <2>1, <3>1, <3>2 DEF Lacks, Exists
  <2>7. a.is # "fk"
    BY <2>1
  <2>8. Adds(Advanced_Trips[i], t, a) /\ t \in Tables /\ i \in 1..Len(Advanced_Trips)
    BY <1>0, Advanced_TripsReads, TablesHave
  <2> HIDE DEF t, a, i
  <2>9. Passes(Here(f, Advanced_Trips, i - 1), Advanced_Trips[i])
    BY <1>0, <2>4, <2>5, <2>6, <2>7, <2>8, AddPasses
  <2> QED
    BY <2>9 DEF i
<1>3. ASSUME NEW n \in 1..2 PROVE Passes(Here(f, Advanced_Trips, n - 1), Advanced_Trips[n])
  BY <1>1, <1>2
<1> QED
  BY <1>0, <1>3 DEF Smooth

LEMMA Advanced_SafetySmooth ==
  ASSUME NEW f, f["trips"] # {}, f["users"] # {},
         \A t \in {"safety_alerts", "audit_logs", "subgroups"} : f[t] = {}, f["trip_members"] # {},
         \A x \in f["trip_members"] : ~Exists(x, "fk", "subgroup_id")
  PROVE  Smooth(f, Advanced_Safety)
<1>0. GoesUp(Advanced_Safety) /\ Len(Advanced_Safety) = 7
  BY Advanced_SafetyIs, Advanced_SafetyReads
<1>1. Passes(Here(f, Advanced_Safety, 1 - 1), Advanced_Safety[1])
  <2>1. \A j \in 1..(1 - 1) : Advanced_Safety[j].on # "safety_alerts"
    BY Advanced_SafetyReads DEF Makes, Adds
  <2>2. \A to \in {"trips", "users"} : Present(f, Advanced_Safety, 1, to)
    BY Advanced_SafetyReads DEF Makes, Present
  <2>3. Makes(Advanced_Safety[1], "safety_alerts", {"trips", "users"})
    BY Advanced_SafetyReads
  <2>4. 1 \in 1..Len(Advanced_Safety) /\ f["safety_alerts"] = {}
    BY <1>0
  <2> DEFINE t == "safety_alerts"
             others == {"trips", "users"}
             i == 1
  <2>5. /\ t \in Tables /\ i \in 1..Len(Advanced_Safety) /\ f[t] = {} /\ Makes(Advanced_Safety[i], t, others)
        /\ \A j \in 1..(i - 1) : Advanced_Safety[j].on # t
    BY <2>1, <2>3, <2>4, TablesHave
  <2>6. \A to \in others : to \in Tables /\ Present(f, Advanced_Safety, i, to)
    BY <2>2, TablesHave
  <2> HIDE DEF t, others, i
  <2>7. Passes(Here(f, Advanced_Safety, i - 1), Advanced_Safety[i])
    BY <1>0, <2>5, <2>6, CreatePasses
  <2> QED
    BY <2>7 DEF i
<1>2. Passes(Here(f, Advanced_Safety, 2 - 1), Advanced_Safety[2])
  <2>1. \A j \in 1..(2 - 1) : Advanced_Safety[j].on = "safety_alerts" => j \in {1}
    BY Advanced_SafetyReads DEF Makes, Adds
  <2>2. /\ \A j \in {1} : ~Gives(Advanced_Safety[j], "safety_alerts", Index("ix_safety_alerts_trip_created"))
        /\ \A j \in {1} : \A b : Gives(Advanced_Safety[j], "safety_alerts", b) /\ b.is = "index" => b = Index(b.name)
    <3>1. /\ ~Gives(Advanced_Safety[1], "safety_alerts", Index("ix_safety_alerts_trip_created"))
          /\ \A b : Gives(Advanced_Safety[1], "safety_alerts", b) /\ b.is = "index" => b = Index(b.name)
      <4>1. Makes(Advanced_Safety[1], "safety_alerts", {"trips", "users"})
        BY Advanced_SafetyReads
      <4> QED
        BY <4>1, MakesNoIndex
    <3> QED
      BY <3>1
  <2>3. /\ \A j \in 1..(2 - 1) : ~Gives(Advanced_Safety[j], "safety_alerts", Index("ix_safety_alerts_trip_created"))
        /\ \A j \in 1..(2 - 1) : \A b : Gives(Advanced_Safety[j], "safety_alerts", b) /\ b.is = "index" => b = Index(b.name)
    BY <2>1, <2>2 DEF Gives
  <2>4. \E j \in 1..(2 - 1) : Advanced_Safety[j].on = "safety_alerts" /\ Advanced_Safety[j].do = "create"
    <3>1. 1 \in 1..(2 - 1)
      OBVIOUS
    <3> QED
      BY <3>1, Advanced_SafetyReads DEF Makes
  <2>5. Adds(Advanced_Safety[2], "safety_alerts", Index("ix_safety_alerts_trip_created"))
    BY Advanced_SafetyReads
  <2>6. 2 \in 1..Len(Advanced_Safety) /\ f["safety_alerts"] = {}
    BY <1>0
  <2> QED
    BY <1>0, <2>3, <2>4, <2>5, <2>6, TablesHave, IndexPasses
<1>3. Passes(Here(f, Advanced_Safety, 3 - 1), Advanced_Safety[3])
  <2>1. \A j \in 1..(3 - 1) : Advanced_Safety[j].on # "audit_logs"
    BY Advanced_SafetyReads DEF Makes, Adds
  <2>2. \A to \in {"trips", "users"} : Present(f, Advanced_Safety, 3, to)
    BY Advanced_SafetyReads DEF Makes, Present
  <2>3. Makes(Advanced_Safety[3], "audit_logs", {"trips", "users"})
    BY Advanced_SafetyReads
  <2>4. 3 \in 1..Len(Advanced_Safety) /\ f["audit_logs"] = {}
    BY <1>0
  <2> DEFINE t == "audit_logs"
             others == {"trips", "users"}
             i == 3
  <2>5. /\ t \in Tables /\ i \in 1..Len(Advanced_Safety) /\ f[t] = {} /\ Makes(Advanced_Safety[i], t, others)
        /\ \A j \in 1..(i - 1) : Advanced_Safety[j].on # t
    BY <2>1, <2>3, <2>4, TablesHave
  <2>6. \A to \in others : to \in Tables /\ Present(f, Advanced_Safety, i, to)
    BY <2>2, TablesHave
  <2> HIDE DEF t, others, i
  <2>7. Passes(Here(f, Advanced_Safety, i - 1), Advanced_Safety[i])
    BY <1>0, <2>5, <2>6, CreatePasses
  <2> QED
    BY <2>7 DEF i
<1>4. Passes(Here(f, Advanced_Safety, 4 - 1), Advanced_Safety[4])
  <2>1. \A j \in 1..(4 - 1) : Advanced_Safety[j].on = "audit_logs" => j \in {3}
    BY Advanced_SafetyReads DEF Makes, Adds
  <2>2. /\ \A j \in {3} : ~Gives(Advanced_Safety[j], "audit_logs", Index("ix_audit_logs_subject_created"))
        /\ \A j \in {3} : \A b : Gives(Advanced_Safety[j], "audit_logs", b) /\ b.is = "index" => b = Index(b.name)
    <3>1. /\ ~Gives(Advanced_Safety[3], "audit_logs", Index("ix_audit_logs_subject_created"))
          /\ \A b : Gives(Advanced_Safety[3], "audit_logs", b) /\ b.is = "index" => b = Index(b.name)
      <4>1. Makes(Advanced_Safety[3], "audit_logs", {"trips", "users"})
        BY Advanced_SafetyReads
      <4> QED
        BY <4>1, MakesNoIndex
    <3> QED
      BY <3>1
  <2>3. /\ \A j \in 1..(4 - 1) : ~Gives(Advanced_Safety[j], "audit_logs", Index("ix_audit_logs_subject_created"))
        /\ \A j \in 1..(4 - 1) : \A b : Gives(Advanced_Safety[j], "audit_logs", b) /\ b.is = "index" => b = Index(b.name)
    BY <2>1, <2>2 DEF Gives
  <2>4. \E j \in 1..(4 - 1) : Advanced_Safety[j].on = "audit_logs" /\ Advanced_Safety[j].do = "create"
    <3>1. 3 \in 1..(4 - 1)
      OBVIOUS
    <3> QED
      BY <3>1, Advanced_SafetyReads DEF Makes
  <2>5. Adds(Advanced_Safety[4], "audit_logs", Index("ix_audit_logs_subject_created"))
    BY Advanced_SafetyReads
  <2>6. 4 \in 1..Len(Advanced_Safety) /\ f["audit_logs"] = {}
    BY <1>0
  <2> QED
    BY <1>0, <2>3, <2>4, <2>5, <2>6, TablesHave, IndexPasses
<1>5. Passes(Here(f, Advanced_Safety, 5 - 1), Advanced_Safety[5])
  <2>1. \A j \in 1..(5 - 1) : Advanced_Safety[j].on # "subgroups"
    BY Advanced_SafetyReads DEF Makes, Adds
  <2>2. \A to \in {"trips"} : Present(f, Advanced_Safety, 5, to)
    BY Advanced_SafetyReads DEF Makes, Present
  <2>3. Makes(Advanced_Safety[5], "subgroups", {"trips"})
    BY Advanced_SafetyReads
  <2>4. 5 \in 1..Len(Advanced_Safety) /\ f["subgroups"] = {}
    BY <1>0
  <2> DEFINE t == "subgroups"
             others == {"trips"}
             i == 5
  <2>5. /\ t \in Tables /\ i \in 1..Len(Advanced_Safety) /\ f[t] = {} /\ Makes(Advanced_Safety[i], t, others)
        /\ \A j \in 1..(i - 1) : Advanced_Safety[j].on # t
    BY <2>1, <2>3, <2>4, TablesHave
  <2>6. \A to \in others : to \in Tables /\ Present(f, Advanced_Safety, i, to)
    BY <2>2, TablesHave
  <2> HIDE DEF t, others, i
  <2>7. Passes(Here(f, Advanced_Safety, i - 1), Advanced_Safety[i])
    BY <1>0, <2>5, <2>6, CreatePasses
  <2> QED
    BY <2>7 DEF i
<1>6. Passes(Here(f, Advanced_Safety, 6 - 1), Advanced_Safety[6])
  <2>1. \A j \in 1..(6 - 1) : Advanced_Safety[j].on = "subgroups" => j \in {5}
    BY Advanced_SafetyReads DEF Makes, Adds
  <2>2. /\ \A j \in {5} : ~Gives(Advanced_Safety[j], "subgroups", Index("ix_subgroups_trip"))
        /\ \A j \in {5} : \A b : Gives(Advanced_Safety[j], "subgroups", b) /\ b.is = "index" => b = Index(b.name)
    <3>1. /\ ~Gives(Advanced_Safety[5], "subgroups", Index("ix_subgroups_trip"))
          /\ \A b : Gives(Advanced_Safety[5], "subgroups", b) /\ b.is = "index" => b = Index(b.name)
      <4>1. Makes(Advanced_Safety[5], "subgroups", {"trips"})
        BY Advanced_SafetyReads
      <4> QED
        BY <4>1, MakesNoIndex
    <3> QED
      BY <3>1
  <2>3. /\ \A j \in 1..(6 - 1) : ~Gives(Advanced_Safety[j], "subgroups", Index("ix_subgroups_trip"))
        /\ \A j \in 1..(6 - 1) : \A b : Gives(Advanced_Safety[j], "subgroups", b) /\ b.is = "index" => b = Index(b.name)
    BY <2>1, <2>2 DEF Gives
  <2>4. \E j \in 1..(6 - 1) : Advanced_Safety[j].on = "subgroups" /\ Advanced_Safety[j].do = "create"
    <3>1. 5 \in 1..(6 - 1)
      OBVIOUS
    <3> QED
      BY <3>1, Advanced_SafetyReads DEF Makes
  <2>5. Adds(Advanced_Safety[6], "subgroups", Index("ix_subgroups_trip"))
    BY Advanced_SafetyReads
  <2>6. 6 \in 1..Len(Advanced_Safety) /\ f["subgroups"] = {}
    BY <1>0
  <2> QED
    BY <1>0, <2>3, <2>4, <2>5, <2>6, TablesHave, IndexPasses
<1>7. Passes(Here(f, Advanced_Safety, 7 - 1), Advanced_Safety[7])
  <2> DEFINE t == "trip_members"
             a == Reference("subgroup_id", "subgroups")
             i == 7
  <2>1. a.is = "fk" /\ a.name = "subgroup_id" /\ a.to = "subgroups"
    BY DEF Reference
  <2>2. \A j \in 1..(i - 1) : Advanced_Safety[j].on # t
    BY Advanced_SafetyReads DEF Makes, Adds
  <2>4. \A j \in 1..(i - 1) : \A b : Gives(Advanced_Safety[j], t, b) => b.is # a.is \/ b.name # a.name
    BY <2>1, <2>2 DEF Gives
  <2>5. Present(f, Advanced_Safety, i, t)
    BY DEF Present
  <2>6. \A x \in f[t] : ~Exists(x, a.is, a.name)
    BY <2>1
  <2>7. a.to \in Tables /\ Present(f, Advanced_Safety, i, a.to)
    <3>1. 5 \in 1..(i - 1) /\ Advanced_Safety[5].on = "subgroups" /\ Advanced_Safety[5].do = "create"
      BY Advanced_SafetyReads DEF Makes
    <3> QED
      BY <2>1, <3>1, TablesHave DEF Present
  <2>8. Adds(Advanced_Safety[i], t, a) /\ t \in Tables /\ i \in 1..Len(Advanced_Safety)
    BY <1>0, Advanced_SafetyReads, TablesHave
  <2> HIDE DEF t, a, i
  <2>9. Passes(Here(f, Advanced_Safety, i - 1), Advanced_Safety[i])
    BY <1>0, <2>4, <2>5, <2>6, <2>7, <2>8, AddPasses
  <2> QED
    BY <2>9 DEF i
<1>8. ASSUME NEW n \in 1..7 PROVE Passes(Here(f, Advanced_Safety, n - 1), Advanced_Safety[n])
  BY <1>1, <1>2, <1>3, <1>4, <1>5, <1>6, <1>7
<1> QED
  BY <1>0, <1>8 DEF Smooth

LEMMA Advanced_MoneySmooth ==
  ASSUME NEW f, f["trips"] # {}, f["users"] # {},
         \A t \in {"expenses", "expense_shares", "subscriptions", "reminders"} : f[t] = {}
  PROVE  Smooth(f, Advanced_Money)
<1>0. GoesUp(Advanced_Money) /\ Len(Advanced_Money) = 7
  BY Advanced_MoneyIs, Advanced_MoneyReads
<1>1. Passes(Here(f, Advanced_Money, 1 - 1), Advanced_Money[1])
  <2>1. \A j \in 1..(1 - 1) : Advanced_Money[j].on # "expenses"
    BY Advanced_MoneyReads DEF Makes, Adds
  <2>2. \A to \in {"trips", "users"} : Present(f, Advanced_Money, 1, to)
    BY Advanced_MoneyReads DEF Makes, Present
  <2>3. Makes(Advanced_Money[1], "expenses", {"trips", "users"})
    BY Advanced_MoneyReads
  <2>4. 1 \in 1..Len(Advanced_Money) /\ f["expenses"] = {}
    BY <1>0
  <2> DEFINE t == "expenses"
             others == {"trips", "users"}
             i == 1
  <2>5. /\ t \in Tables /\ i \in 1..Len(Advanced_Money) /\ f[t] = {} /\ Makes(Advanced_Money[i], t, others)
        /\ \A j \in 1..(i - 1) : Advanced_Money[j].on # t
    BY <2>1, <2>3, <2>4, TablesHave
  <2>6. \A to \in others : to \in Tables /\ Present(f, Advanced_Money, i, to)
    BY <2>2, TablesHave
  <2> HIDE DEF t, others, i
  <2>7. Passes(Here(f, Advanced_Money, i - 1), Advanced_Money[i])
    BY <1>0, <2>5, <2>6, CreatePasses
  <2> QED
    BY <2>7 DEF i
<1>2. Passes(Here(f, Advanced_Money, 2 - 1), Advanced_Money[2])
  <2>1. \A j \in 1..(2 - 1) : Advanced_Money[j].on = "expenses" => j \in {1}
    BY Advanced_MoneyReads DEF Makes, Adds
  <2>2. /\ \A j \in {1} : ~Gives(Advanced_Money[j], "expenses", Index("ix_expenses_trip"))
        /\ \A j \in {1} : \A b : Gives(Advanced_Money[j], "expenses", b) /\ b.is = "index" => b = Index(b.name)
    <3>1. /\ ~Gives(Advanced_Money[1], "expenses", Index("ix_expenses_trip"))
          /\ \A b : Gives(Advanced_Money[1], "expenses", b) /\ b.is = "index" => b = Index(b.name)
      <4>1. Makes(Advanced_Money[1], "expenses", {"trips", "users"})
        BY Advanced_MoneyReads
      <4> QED
        BY <4>1, MakesNoIndex
    <3> QED
      BY <3>1
  <2>3. /\ \A j \in 1..(2 - 1) : ~Gives(Advanced_Money[j], "expenses", Index("ix_expenses_trip"))
        /\ \A j \in 1..(2 - 1) : \A b : Gives(Advanced_Money[j], "expenses", b) /\ b.is = "index" => b = Index(b.name)
    BY <2>1, <2>2 DEF Gives
  <2>4. \E j \in 1..(2 - 1) : Advanced_Money[j].on = "expenses" /\ Advanced_Money[j].do = "create"
    <3>1. 1 \in 1..(2 - 1)
      OBVIOUS
    <3> QED
      BY <3>1, Advanced_MoneyReads DEF Makes
  <2>5. Adds(Advanced_Money[2], "expenses", Index("ix_expenses_trip"))
    BY Advanced_MoneyReads
  <2>6. 2 \in 1..Len(Advanced_Money) /\ f["expenses"] = {}
    BY <1>0
  <2> QED
    BY <1>0, <2>3, <2>4, <2>5, <2>6, TablesHave, IndexPasses
<1>3. Passes(Here(f, Advanced_Money, 3 - 1), Advanced_Money[3])
  <2>1. \A j \in 1..(3 - 1) : Advanced_Money[j].on # "expense_shares"
    BY Advanced_MoneyReads DEF Makes, Adds
  <2>2. \A to \in {"expenses", "users"} : Present(f, Advanced_Money, 3, to)
    BY Advanced_MoneyReads DEF Makes, Present
  <2>3. Makes(Advanced_Money[3], "expense_shares", {"expenses", "users"})
    BY Advanced_MoneyReads
  <2>4. 3 \in 1..Len(Advanced_Money) /\ f["expense_shares"] = {}
    BY <1>0
  <2> DEFINE t == "expense_shares"
             others == {"expenses", "users"}
             i == 3
  <2>5. /\ t \in Tables /\ i \in 1..Len(Advanced_Money) /\ f[t] = {} /\ Makes(Advanced_Money[i], t, others)
        /\ \A j \in 1..(i - 1) : Advanced_Money[j].on # t
    BY <2>1, <2>3, <2>4, TablesHave
  <2>6. \A to \in others : to \in Tables /\ Present(f, Advanced_Money, i, to)
    BY <2>2, TablesHave
  <2> HIDE DEF t, others, i
  <2>7. Passes(Here(f, Advanced_Money, i - 1), Advanced_Money[i])
    BY <1>0, <2>5, <2>6, CreatePasses
  <2> QED
    BY <2>7 DEF i
<1>4. Passes(Here(f, Advanced_Money, 4 - 1), Advanced_Money[4])
  <2>1. \A j \in 1..(4 - 1) : Advanced_Money[j].on # "subscriptions"
    BY Advanced_MoneyReads DEF Makes, Adds
  <2>2. \A to \in {"users"} : Present(f, Advanced_Money, 4, to)
    BY Advanced_MoneyReads DEF Makes, Present
  <2>3. Makes(Advanced_Money[4], "subscriptions", {"users"})
    BY Advanced_MoneyReads
  <2>4. 4 \in 1..Len(Advanced_Money) /\ f["subscriptions"] = {}
    BY <1>0
  <2> DEFINE t == "subscriptions"
             others == {"users"}
             i == 4
  <2>5. /\ t \in Tables /\ i \in 1..Len(Advanced_Money) /\ f[t] = {} /\ Makes(Advanced_Money[i], t, others)
        /\ \A j \in 1..(i - 1) : Advanced_Money[j].on # t
    BY <2>1, <2>3, <2>4, TablesHave
  <2>6. \A to \in others : to \in Tables /\ Present(f, Advanced_Money, i, to)
    BY <2>2, TablesHave
  <2> HIDE DEF t, others, i
  <2>7. Passes(Here(f, Advanced_Money, i - 1), Advanced_Money[i])
    BY <1>0, <2>5, <2>6, CreatePasses
  <2> QED
    BY <2>7 DEF i
<1>5. Passes(Here(f, Advanced_Money, 5 - 1), Advanced_Money[5])
  <2>1. \A j \in 1..(5 - 1) : Advanced_Money[j].on = "subscriptions" => j \in {4}
    BY Advanced_MoneyReads DEF Makes, Adds
  <2>2. /\ \A j \in {4} : ~Gives(Advanced_Money[j], "subscriptions", Index("ix_subscriptions_user"))
        /\ \A j \in {4} : \A b : Gives(Advanced_Money[j], "subscriptions", b) /\ b.is = "index" => b = Index(b.name)
    <3>1. /\ ~Gives(Advanced_Money[4], "subscriptions", Index("ix_subscriptions_user"))
          /\ \A b : Gives(Advanced_Money[4], "subscriptions", b) /\ b.is = "index" => b = Index(b.name)
      <4>1. Makes(Advanced_Money[4], "subscriptions", {"users"})
        BY Advanced_MoneyReads
      <4> QED
        BY <4>1, MakesNoIndex
    <3> QED
      BY <3>1
  <2>3. /\ \A j \in 1..(5 - 1) : ~Gives(Advanced_Money[j], "subscriptions", Index("ix_subscriptions_user"))
        /\ \A j \in 1..(5 - 1) : \A b : Gives(Advanced_Money[j], "subscriptions", b) /\ b.is = "index" => b = Index(b.name)
    BY <2>1, <2>2 DEF Gives
  <2>4. \E j \in 1..(5 - 1) : Advanced_Money[j].on = "subscriptions" /\ Advanced_Money[j].do = "create"
    <3>1. 4 \in 1..(5 - 1)
      OBVIOUS
    <3> QED
      BY <3>1, Advanced_MoneyReads DEF Makes
  <2>5. Adds(Advanced_Money[5], "subscriptions", Index("ix_subscriptions_user"))
    BY Advanced_MoneyReads
  <2>6. 5 \in 1..Len(Advanced_Money) /\ f["subscriptions"] = {}
    BY <1>0
  <2> QED
    BY <1>0, <2>3, <2>4, <2>5, <2>6, TablesHave, IndexPasses
<1>6. Passes(Here(f, Advanced_Money, 6 - 1), Advanced_Money[6])
  <2>1. \A j \in 1..(6 - 1) : Advanced_Money[j].on # "reminders"
    BY Advanced_MoneyReads DEF Makes, Adds
  <2>2. \A to \in {"trips"} : Present(f, Advanced_Money, 6, to)
    BY Advanced_MoneyReads DEF Makes, Present
  <2>3. Makes(Advanced_Money[6], "reminders", {"trips"})
    BY Advanced_MoneyReads
  <2>4. 6 \in 1..Len(Advanced_Money) /\ f["reminders"] = {}
    BY <1>0
  <2> DEFINE t == "reminders"
             others == {"trips"}
             i == 6
  <2>5. /\ t \in Tables /\ i \in 1..Len(Advanced_Money) /\ f[t] = {} /\ Makes(Advanced_Money[i], t, others)
        /\ \A j \in 1..(i - 1) : Advanced_Money[j].on # t
    BY <2>1, <2>3, <2>4, TablesHave
  <2>6. \A to \in others : to \in Tables /\ Present(f, Advanced_Money, i, to)
    BY <2>2, TablesHave
  <2> HIDE DEF t, others, i
  <2>7. Passes(Here(f, Advanced_Money, i - 1), Advanced_Money[i])
    BY <1>0, <2>5, <2>6, CreatePasses
  <2> QED
    BY <2>7 DEF i
<1>7. Passes(Here(f, Advanced_Money, 7 - 1), Advanced_Money[7])
  <2>1. \A j \in 1..(7 - 1) : Advanced_Money[j].on = "reminders" => j \in {6}
    BY Advanced_MoneyReads DEF Makes, Adds
  <2>2. /\ \A j \in {6} : ~Gives(Advanced_Money[j], "reminders", Index("ix_reminders_fire_at"))
        /\ \A j \in {6} : \A b : Gives(Advanced_Money[j], "reminders", b) /\ b.is = "index" => b = Index(b.name)
    <3>1. /\ ~Gives(Advanced_Money[6], "reminders", Index("ix_reminders_fire_at"))
          /\ \A b : Gives(Advanced_Money[6], "reminders", b) /\ b.is = "index" => b = Index(b.name)
      <4>1. Makes(Advanced_Money[6], "reminders", {"trips"})
        BY Advanced_MoneyReads
      <4> QED
        BY <4>1, MakesNoIndex
    <3> QED
      BY <3>1
  <2>3. /\ \A j \in 1..(7 - 1) : ~Gives(Advanced_Money[j], "reminders", Index("ix_reminders_fire_at"))
        /\ \A j \in 1..(7 - 1) : \A b : Gives(Advanced_Money[j], "reminders", b) /\ b.is = "index" => b = Index(b.name)
    BY <2>1, <2>2 DEF Gives
  <2>4. \E j \in 1..(7 - 1) : Advanced_Money[j].on = "reminders" /\ Advanced_Money[j].do = "create"
    <3>1. 6 \in 1..(7 - 1)
      OBVIOUS
    <3> QED
      BY <3>1, Advanced_MoneyReads DEF Makes
  <2>5. Adds(Advanced_Money[7], "reminders", Index("ix_reminders_fire_at"))
    BY Advanced_MoneyReads
  <2>6. 7 \in 1..Len(Advanced_Money) /\ f["reminders"] = {}
    BY <1>0
  <2> QED
    BY <1>0, <2>3, <2>4, <2>5, <2>6, TablesHave, IndexPasses
<1>8. ASSUME NEW n \in 1..7 PROVE Passes(Here(f, Advanced_Money, n - 1), Advanced_Money[n])
  BY <1>1, <1>2, <1>3, <1>4, <1>5, <1>6, <1>7
<1> QED
  BY <1>0, <1>8 DEF Smooth

LEMMA Advanced_TelemetrySmooth ==
  ASSUME NEW f, f["trips"] # {}, f["users"] # {},
         \A t \in {"events", "maps_provider_calls"} : f[t] = {}
  PROVE  Smooth(f, Advanced_Telemetry)
<1>0. GoesUp(Advanced_Telemetry) /\ Len(Advanced_Telemetry) = 5
  BY Advanced_TelemetryIs, Advanced_TelemetryReads
<1>1. Passes(Here(f, Advanced_Telemetry, 1 - 1), Advanced_Telemetry[1])
  <2>1. \A j \in 1..(1 - 1) : Advanced_Telemetry[j].on # "events"
    BY Advanced_TelemetryReads DEF Makes, Adds
  <2>2. \A to \in {"trips", "users"} : Present(f, Advanced_Telemetry, 1, to)
    BY Advanced_TelemetryReads DEF Makes, Present
  <2>3. Makes(Advanced_Telemetry[1], "events", {"trips", "users"})
    BY Advanced_TelemetryReads
  <2>4. 1 \in 1..Len(Advanced_Telemetry) /\ f["events"] = {}
    BY <1>0
  <2> DEFINE t == "events"
             others == {"trips", "users"}
             i == 1
  <2>5. /\ t \in Tables /\ i \in 1..Len(Advanced_Telemetry) /\ f[t] = {} /\ Makes(Advanced_Telemetry[i], t, others)
        /\ \A j \in 1..(i - 1) : Advanced_Telemetry[j].on # t
    BY <2>1, <2>3, <2>4, TablesHave
  <2>6. \A to \in others : to \in Tables /\ Present(f, Advanced_Telemetry, i, to)
    BY <2>2, TablesHave
  <2> HIDE DEF t, others, i
  <2>7. Passes(Here(f, Advanced_Telemetry, i - 1), Advanced_Telemetry[i])
    BY <1>0, <2>5, <2>6, CreatePasses
  <2> QED
    BY <2>7 DEF i
<1>2. Passes(Here(f, Advanced_Telemetry, 2 - 1), Advanced_Telemetry[2])
  <2>1. \A j \in 1..(2 - 1) : Advanced_Telemetry[j].on = "events" => j \in {1}
    BY Advanced_TelemetryReads DEF Makes, Adds
  <2>2. /\ \A j \in {1} : ~Gives(Advanced_Telemetry[j], "events", Index("ix_events_name_time"))
        /\ \A j \in {1} : \A b : Gives(Advanced_Telemetry[j], "events", b) /\ b.is = "index" => b = Index(b.name)
    <3>1. /\ ~Gives(Advanced_Telemetry[1], "events", Index("ix_events_name_time"))
          /\ \A b : Gives(Advanced_Telemetry[1], "events", b) /\ b.is = "index" => b = Index(b.name)
      <4>1. Makes(Advanced_Telemetry[1], "events", {"trips", "users"})
        BY Advanced_TelemetryReads
      <4> QED
        BY <4>1, MakesNoIndex
    <3> QED
      BY <3>1
  <2>3. /\ \A j \in 1..(2 - 1) : ~Gives(Advanced_Telemetry[j], "events", Index("ix_events_name_time"))
        /\ \A j \in 1..(2 - 1) : \A b : Gives(Advanced_Telemetry[j], "events", b) /\ b.is = "index" => b = Index(b.name)
    BY <2>1, <2>2 DEF Gives
  <2>4. \E j \in 1..(2 - 1) : Advanced_Telemetry[j].on = "events" /\ Advanced_Telemetry[j].do = "create"
    <3>1. 1 \in 1..(2 - 1)
      OBVIOUS
    <3> QED
      BY <3>1, Advanced_TelemetryReads DEF Makes
  <2>5. Adds(Advanced_Telemetry[2], "events", Index("ix_events_name_time"))
    BY Advanced_TelemetryReads
  <2>6. 2 \in 1..Len(Advanced_Telemetry) /\ f["events"] = {}
    BY <1>0
  <2> QED
    BY <1>0, <2>3, <2>4, <2>5, <2>6, TablesHave, IndexPasses
<1>3. Passes(Here(f, Advanced_Telemetry, 3 - 1), Advanced_Telemetry[3])
  <2>1. \A j \in 1..(3 - 1) : Advanced_Telemetry[j].on = "events" => j \in {1, 2}
    BY Advanced_TelemetryReads DEF Makes, Adds
  <2>2. /\ \A j \in {1, 2} : ~Gives(Advanced_Telemetry[j], "events", Index("ix_events_user_time"))
        /\ \A j \in {1, 2} : \A b : Gives(Advanced_Telemetry[j], "events", b) /\ b.is = "index" => b = Index(b.name)
    <3>1. /\ ~Gives(Advanced_Telemetry[1], "events", Index("ix_events_user_time"))
          /\ \A b : Gives(Advanced_Telemetry[1], "events", b) /\ b.is = "index" => b = Index(b.name)
      <4>1. Makes(Advanced_Telemetry[1], "events", {"trips", "users"})
        BY Advanced_TelemetryReads
      <4> QED
        BY <4>1, MakesNoIndex
    <3>2. /\ ~Gives(Advanced_Telemetry[2], "events", Index("ix_events_user_time"))
          /\ \A b : Gives(Advanced_Telemetry[2], "events", b) /\ b.is = "index" => b = Index(b.name)
      <4>1. Adds(Advanced_Telemetry[2], "events", Index("ix_events_name_time"))
        BY Advanced_TelemetryReads
      <4> QED
        BY <4>1, AddsIndex
    <3> QED
      BY <3>1, <3>2
  <2>3. /\ \A j \in 1..(3 - 1) : ~Gives(Advanced_Telemetry[j], "events", Index("ix_events_user_time"))
        /\ \A j \in 1..(3 - 1) : \A b : Gives(Advanced_Telemetry[j], "events", b) /\ b.is = "index" => b = Index(b.name)
    BY <2>1, <2>2 DEF Gives
  <2>4. \E j \in 1..(3 - 1) : Advanced_Telemetry[j].on = "events" /\ Advanced_Telemetry[j].do = "create"
    <3>1. 1 \in 1..(3 - 1)
      OBVIOUS
    <3> QED
      BY <3>1, Advanced_TelemetryReads DEF Makes
  <2>5. Adds(Advanced_Telemetry[3], "events", Index("ix_events_user_time"))
    BY Advanced_TelemetryReads
  <2>6. 3 \in 1..Len(Advanced_Telemetry) /\ f["events"] = {}
    BY <1>0
  <2> QED
    BY <1>0, <2>3, <2>4, <2>5, <2>6, TablesHave, IndexPasses
<1>4. Passes(Here(f, Advanced_Telemetry, 4 - 1), Advanced_Telemetry[4])
  <2>1. \A j \in 1..(4 - 1) : Advanced_Telemetry[j].on # "maps_provider_calls"
    BY Advanced_TelemetryReads DEF Makes, Adds
  <2>3. Makes(Advanced_Telemetry[4], "maps_provider_calls", {})
    BY Advanced_TelemetryReads
  <2>4. 4 \in 1..Len(Advanced_Telemetry) /\ f["maps_provider_calls"] = {}
    BY <1>0
  <2> DEFINE t == "maps_provider_calls"
             others == {}
             i == 4
  <2>5. /\ t \in Tables /\ i \in 1..Len(Advanced_Telemetry) /\ f[t] = {} /\ Makes(Advanced_Telemetry[i], t, others)
        /\ \A j \in 1..(i - 1) : Advanced_Telemetry[j].on # t
    BY <2>1, <2>3, <2>4, TablesHave
  <2>6. \A to \in others : to \in Tables /\ Present(f, Advanced_Telemetry, i, to)
    BY TablesHave
  <2> HIDE DEF t, others, i
  <2>7. Passes(Here(f, Advanced_Telemetry, i - 1), Advanced_Telemetry[i])
    BY <1>0, <2>5, <2>6, CreatePasses
  <2> QED
    BY <2>7 DEF i
<1>5. Passes(Here(f, Advanced_Telemetry, 5 - 1), Advanced_Telemetry[5])
  <2>1. \A j \in 1..(5 - 1) : Advanced_Telemetry[j].on = "maps_provider_calls" => j \in {4}
    BY Advanced_TelemetryReads DEF Makes, Adds
  <2>2. /\ \A j \in {4} : ~Gives(Advanced_Telemetry[j], "maps_provider_calls", Index("ix_maps_calls_provider_time"))
        /\ \A j \in {4} : \A b : Gives(Advanced_Telemetry[j], "maps_provider_calls", b) /\ b.is = "index" => b = Index(b.name)
    <3>1. /\ ~Gives(Advanced_Telemetry[4], "maps_provider_calls", Index("ix_maps_calls_provider_time"))
          /\ \A b : Gives(Advanced_Telemetry[4], "maps_provider_calls", b) /\ b.is = "index" => b = Index(b.name)
      <4>1. Makes(Advanced_Telemetry[4], "maps_provider_calls", {})
        BY Advanced_TelemetryReads
      <4> QED
        BY <4>1, MakesNoIndex
    <3> QED
      BY <3>1
  <2>3. /\ \A j \in 1..(5 - 1) : ~Gives(Advanced_Telemetry[j], "maps_provider_calls", Index("ix_maps_calls_provider_time"))
        /\ \A j \in 1..(5 - 1) : \A b : Gives(Advanced_Telemetry[j], "maps_provider_calls", b) /\ b.is = "index" => b = Index(b.name)
    BY <2>1, <2>2 DEF Gives
  <2>4. \E j \in 1..(5 - 1) : Advanced_Telemetry[j].on = "maps_provider_calls" /\ Advanced_Telemetry[j].do = "create"
    <3>1. 4 \in 1..(5 - 1)
      OBVIOUS
    <3> QED
      BY <3>1, Advanced_TelemetryReads DEF Makes
  <2>5. Adds(Advanced_Telemetry[5], "maps_provider_calls", Index("ix_maps_calls_provider_time"))
    BY Advanced_TelemetryReads
  <2>6. 5 \in 1..Len(Advanced_Telemetry) /\ f["maps_provider_calls"] = {}
    BY <1>0
  <2> QED
    BY <1>0, <2>3, <2>4, <2>5, <2>6, TablesHave, IndexPasses
<1>6. ASSUME NEW n \in 1..5 PROVE Passes(Here(f, Advanced_Telemetry, n - 1), Advanced_Telemetry[n])
  BY <1>1, <1>2, <1>3, <1>4, <1>5
<1> QED
  BY <1>0, <1>6 DEF Smooth

LEMMA IsAdminSmooth ==
  ASSUME NEW f, f["users"] # {}, \A x \in f["users"] : Lacks(x, {"is_admin"})
  PROVE  Smooth(f, IsAdmin)
<1>0. GoesUp(IsAdmin) /\ Len(IsAdmin) = 1
  BY IsAdminIs, IsAdminReads
<1>1. Passes(Here(f, IsAdmin, 1 - 1), IsAdmin[1])
  <2> DEFINE t == "users"
             a == Column("is_admin", 0)
             i == 1
  <2>1. a.is = "column" /\ a.name = "is_admin"
    BY DEF Column
  <2>2. \A j \in 1..(i - 1) : IsAdmin[j].on # t
    BY IsAdminReads DEF Makes, Adds
  <2>4. \A j \in 1..(i - 1) : \A b : Gives(IsAdmin[j], t, b) => b.is # a.is \/ b.name # a.name
    BY <2>1, <2>2 DEF Gives
  <2>5. Present(f, IsAdmin, i, t)
    BY DEF Present
  <2>6. \A x \in f[t] : ~Exists(x, a.is, a.name)
    <3>1. "is_admin" \in {"is_admin"}
      BY DEF NewMembers
    <3> HIDE DEF a
    <3>2. \A x \in f[t] : Lacks(x, {"is_admin"})
      OBVIOUS
    <3> QED
      BY <2>1, <3>1, <3>2 DEF Lacks, Exists
  <2>7. a.is # "fk"
    BY <2>1
  <2>8. Adds(IsAdmin[i], t, a) /\ t \in Tables /\ i \in 1..Len(IsAdmin)
    BY <1>0, IsAdminReads, TablesHave
  <2> HIDE DEF t, a, i
  <2>9. Passes(Here(f, IsAdmin, i - 1), IsAdmin[i])
    BY <1>0, <2>4, <2>5, <2>6, <2>7, <2>8, AddPasses
  <2> QED
    BY <2>9 DEF i
<1>2. ASSUME NEW n \in 1..1 PROVE Passes(Here(f, IsAdmin, n - 1), IsAdmin[n])
  BY <1>1
<1> QED
  BY <1>0, <1>2 DEF Smooth

-----------------------------------------------------------------------------
(* Every upgrade goes through from the revision before.                    *)

LEMMA AfterRests ==
  ASSUME NEW ss, NEW X, IsSeq(ss), About(ss, X), NEW f, NEW t \in Tables, t \notin X
  PROVE  After(f, ss)[t] = f[t]
BY EndRests DEF After

LEMMA EndThere ==
  ASSUME NEW ss, GoesUp(ss), NEW t, NEW o,
         o # {} \/ \E i \in 1..Len(ss) : ss[i].on = t /\ ss[i].do = "create"
  PROVE  End(t, o, ss) # {}
<1> DEFINE h == Course(t, o, ss)
           n == Len(ss)
<1>1. /\ n \in Nat /\ h[0] = o /\ \A k \in 1..n : h[k] = StepOn(t, h[k - 1], ss[k])
  BY CourseSteps DEF GoesUp
<1> HIDE DEF h
<1>2. PICK m \in 0..n : h[m] # {}
  <2>1. CASE o # {}
    BY <1>1, <2>1
  <2>2. CASE \E i \in 1..n : ss[i].on = t /\ ss[i].do = "create"
    <3>1. PICK i \in 1..n : ss[i].on = t /\ ss[i].do = "create"
      BY <2>2
    <3>2. h[i] = StepOn(t, h[i - 1], ss[i]) /\ i \in 0..n
      BY <1>1, <3>1
    <3>3. h[i] # {}
      BY <3>1, <3>2 DEF StepOn
    <3> QED
      BY <3>2, <3>3
  <2> QED
    BY <2>1, <2>2
<1>3. n \in 0..Len(ss) /\ m \in 0..n
  BY <1>1
<1>4. Course(t, o, ss)[m] # {}
  BY <1>2 DEF h
<1> HIDE DEF n
<1>5. Course(t, o, ss)[n] # {}
  BY <1>3, <1>4, CourseKeeps
<1> QED
  BY <1>5 DEF End, n

LEMMA AfterThere ==
  ASSUME NEW ss, GoesUp(ss), NEW f, NEW t \in Tables,
         f[t] # {} \/ \E i \in 1..Len(ss) : ss[i].on = t /\ ss[i].do = "create"
  PROVE  After(f, ss)[t] # {}
BY EndThere DEF After

LEMMA AfterJoin ==
  ASSUME NEW f, NEW a, NEW b, IsSeq(a), IsSeq(b)
  PROVE  After(f, a \o b) = After(After(f, a), b)
<1>1. ASSUME NEW t \in Tables PROVE End(t, f[t], a \o b) = End(t, After(f, a)[t], b)
  BY EndOn DEF After
<1> QED
  BY <1>1 DEF After

\* a takes the tables f to the tables g, and none of it is refused on the way.
Leaves(f, a, g) == IsSeq(a) /\ Smooth(f, a) /\ After(f, a) = g

LEMMA LeavesOn ==
  ASSUME NEW f, NEW g, NEW h, NEW a, NEW b, Leaves(f, a, g), Leaves(g, b, h)
  PROVE  Leaves(f, a \o b, h)
<1>1. IsSeq(a \o b)
  BY Joined DEF Leaves
<1>2. Smooth(f, a \o b)
  BY SmoothJoin DEF Leaves
<1>3. After(f, a \o b) = h
  BY AfterJoin DEF Leaves
<1> QED
  BY <1>1, <1>2, <1>3 DEF Leaves

LEMMA Advanced_RolesSmooth ==
  ASSUME NEW f, f["trip_members"] = {Grouped}
  PROVE  Smooth(f, Advanced_Roles)
<1> DEFINE t == "trip_members"
           ss == Advanced_Roles
           s1 == Drop("check", "trip_members", "role")
           s2 == Add("trip_members", RichCheck, "plain")
<1>1. IsSeq(ss) /\ Len(ss) = 2 /\ ss[1] = s1 /\ ss[2] = s2
  BY Tuple2 DEF Advanced_Roles, RichCheck
<1>2. /\ s1.on = t /\ s1.do = "drop" /\ s1.is = "check" /\ s1.name = "role"
      /\ s2.on = t /\ s2.do = "add" /\ s2.shape = {RichCheck}
  BY DEF Add, Drop
<1>3. Altered(Grouped, s1) = Unchecked
  BY CheckSwapped
<1>4. /\ PlainCheck.is = "check" /\ PlainCheck.name = "role"
      /\ RichCheck.is = "check" /\ RichCheck.name = "role"
  BY DEF PlainCheck, RichCheck, Check
<1>5. t \in Tables /\ f[t] = {Grouped}
  BY TablesHave
<1>6. Exists(Grouped, "check", "role")
  BY <1>4, GroupedHas DEF Exists
<1>7. ~Exists(Unchecked, "check", "role")
  BY GroupedHas DEF Exists, Unchecked
<1> HIDE DEF t, ss, s1, s2
<1>8. /\ Course(t, f[t], ss)[0] = {Grouped}
      /\ Course(t, f[t], ss)[1] = {Unchecked}
  <2>1. /\ Course(t, f[t], ss)[0] = f[t]
        /\ \A k \in 1..2 : Course(t, f[t], ss)[k] = StepOn(t, Course(t, f[t], ss)[k - 1], ss[k])
    BY <1>1, CourseSteps
  <2>2. 1 \in 1..2 /\ 1 - 1 = 0
    OBVIOUS
  <2>3. Course(t, f[t], ss)[1] = StepOn(t, {Grouped}, s1)
    BY <1>1, <1>5, <2>1, <2>2
  <2>4. StepOn(t, {Grouped}, s1) = {Unchecked}
    BY <1>2, <1>3, StepAlter
  <2> QED
    BY <1>5, <2>1, <2>3, <2>4
<1>9. Here(f, ss, 0)[t] = {Grouped} /\ Here(f, ss, 1)[t] = {Unchecked}
  BY <1>5, <1>8 DEF Here
<1>10. Passes(Here(f, ss, 0), s1)
  <2>1. \A x \in Here(f, ss, 0)[t] : Exists(x, "check", "role")
    BY <1>6, <1>9
  <2> QED
    BY <1>2, <1>5, <1>9, <2>1 DEF Passes
<1>11. Passes(Here(f, ss, 1), s2)
  <2>1. Targets(s2.shape) = {}
    BY <1>2, <1>4 DEF Targets
  <2>2. \A x \in Here(f, ss, 1)[t], a \in s2.shape : ~Exists(x, a.is, a.name)
    BY <1>2, <1>4, <1>7, <1>9
  <2> QED
    BY <1>2, <1>5, <1>9, <2>1, <2>2 DEF Passes
<1>12. ASSUME NEW n \in 1..2 PROVE Passes(Here(f, ss, n - 1), ss[n])
  <2>1. CASE n = 1
    BY <1>1, <1>10, <2>1
  <2>2. CASE n = 2
    BY <1>1, <1>11, <2>2
  <2> QED
    BY <2>1, <2>2
<1> QED
  BY <1>1, <1>12 DEF Smooth, ss

\* The tables of a revision, each as a set of at most one shape.
Rev(v) == [t \in Tables |-> At(Revision[v], t)]

LEMMA RevAfter ==
  ASSUME NEW v \in 1..3
  PROVE  After(Rev(v - 1), Up(v)) = Rev(v) /\ After(Rev(v), Down(v)) = Rev(v - 1)
<1>1. ASSUME NEW t \in Tables
      PROVE  /\ End(t, Rev(v - 1)[t], Up(v)) = At(Revision[v], t)
             /\ End(t, Rev(v)[t], Down(v)) = At(Revision[v - 1], t)
  BY RevisionUp, RevisionDown DEF Rev
<1> QED
  BY <1>1 DEF After, Rev

LEMMA UpOneSmooth == Smooth(Rev(0), Up(1))
<1> DEFINE f == Rev(0)
           g == After(f, Initial_Trips)
           X == {"trip_members", "trips", "users"}
<1>1. \A t \in Tables : f[t] = {}
  BY RevisionNone DEF Rev
<1>2. /\ GoesUp(Initial_Trips) /\ IsSeq(Initial_Trips) /\ IsSeq(Initial_Rest)
      /\ About(Initial_Trips, X)
  BY Initial_TripsIs, Initial_RestIs DEF GoesUp
<1>3. Smooth(f, Initial_Trips)
  BY <1>1, TablesHave, Initial_TripsSmooth
<1>4. g["trips"] # {} /\ g["users"] # {}
  <2> DEFINE n == Len(Initial_Trips)
  <2>1. 1 \in 1..n /\ 2 \in 1..n
    BY Initial_TripsReads
  <2>2. /\ Initial_Trips[1].on = "users" /\ Initial_Trips[1].do = "create"
        /\ Initial_Trips[2].on = "trips" /\ Initial_Trips[2].do = "create"
    BY Initial_TripsReads DEF Makes
  <2> QED
    BY <1>2, <2>1, <2>2, TablesHave, AfterThere
<1>5. \A t \in {"waypoints", "messages", "devices", "locations"} : g[t] = {}
  <2>1. ASSUME NEW t \in {"waypoints", "messages", "devices", "locations"} PROVE g[t] = {}
    <3>1. t \in Tables /\ t \notin X
      BY TablesHave
    <3> HIDE DEF X, f
    <3> QED
      BY <1>1, <1>2, <3>1, AfterRests
  <2> QED
    BY <2>1
<1> HIDE DEF f, g
<1>6. Smooth(g, Initial_Rest)
  BY <1>4, <1>5, Initial_RestSmooth
<1>7. Smooth(f, Initial_Trips \o Initial_Rest)
  BY <1>2, <1>3, <1>6, SmoothJoin DEF g
<1> QED
  BY <1>7 DEF Up, f

\* What Rev(1) has of the tables that 0002 works on.
LEMMA FirstRev ==
  /\ Rev(1)["users"] = {UsersShape} /\ Rev(1)["trips"] = {TripsShape}
  /\ Rev(1)["trip_members"] = {MembersShape}
  /\ \A t \in NewTables : Rev(1)[t] = {}
<1>1. /\ Rev(1)["users"] = {UsersShape} /\ Rev(1)["trips"] = {TripsShape}
      /\ Rev(1)["trip_members"] = {MembersShape}
  BY FirstShapes, TablesHave DEF Rev
<1>2. ASSUME NEW t \in NewTables PROVE Rev(1)[t] = {}
  <2>1. 1 \in 1..3 /\ 1 - 1 = 0
    OBVIOUS
  <2>2. About(Up(1), FirstTables) /\ t \notin FirstTables /\ t \in Tables
    BY UpIs, TablesHave DEF UpPart, FirstTables, NewTables
  <2>3. IsSeq(Up(1))
    BY <2>1, DownSeq
  <2>4. End(t, {}, Up(1)) = {}
    BY <2>2, <2>3, EndRests
  <2>5. At(Revision[1], t) = {}
    BY <2>1, <2>4, RevisionUp, RevisionNone
  <2> QED
    BY <2>2, <2>5 DEF Rev
<1> QED
  BY <1>1, <1>2

LEMMA UpTwoSmooth == Smooth(Rev(1), Up(2))
<1> DEFINE m == Advanced_Members
           r == Advanced_Roles
           p == Advanced_Trips
           s == Advanced_Safety
           y == Advanced_Money
           z == Advanced_Telemetry
           f0 == Rev(1)
           f1 == After(f0, m)
           f2 == After(f1, r)
           f3 == After(f2, p)
           f4 == After(f3, s)
           f5 == After(f4, y)
           XM == {"trip_members"}
           XT == {"trips"}
           XS == {"audit_logs", "safety_alerts", "subgroups", "trip_members"}
           XY == {"expense_shares", "expenses", "reminders", "subscriptions"}
           NS == {"safety_alerts", "audit_logs", "subgroups"}
           NY == {"expenses", "expense_shares", "subscriptions", "reminders"}
           NZ == {"events", "maps_provider_calls"}
<1>1. /\ GoesUp(m) /\ GoesUp(r) /\ GoesUp(p) /\ GoesUp(s) /\ GoesUp(y) /\ GoesUp(z)
  BY Advanced_MembersIs, Advanced_RolesIs, Advanced_TripsIs, Advanced_SafetyIs,
     Advanced_MoneyIs, Advanced_TelemetryIs
<1>2. /\ IsSeq(m) /\ IsSeq(r) /\ IsSeq(p) /\ IsSeq(s) /\ IsSeq(y) /\ IsSeq(z)
  BY <1>1 DEF GoesUp
<1>3. /\ About(m, XM) /\ About(r, XM) /\ About(p, XT) /\ About(s, XS) /\ About(y, XY)
  BY Advanced_MembersIs, Advanced_RolesIs, Advanced_TripsIs, Advanced_SafetyIs,
     Advanced_MoneyIs
<1>4. /\ "users" \in Tables /\ "trips" \in Tables /\ "trip_members" \in Tables
      /\ NS \subseteq NewTables /\ NY \subseteq NewTables /\ NZ \subseteq NewTables
      /\ NewTables \subseteq Tables
  BY TablesHave DEF NewTables
<1>5. /\ "trip_members" \notin XT /\ "trips" \notin XM
      /\ \A t \in NewTables : t \notin XM /\ t \notin XT
      /\ \A t \in NY : t \notin XS
      /\ \A t \in NZ : t \notin XS /\ t \notin XY
  BY DEF NewTables
<1>6. /\ f0["users"] # {} /\ f0["trips"] = {TripsShape} /\ f0["trip_members"] = {MembersShape}
      /\ \A t \in NewTables : f0[t] = {}
  BY FirstRev
<1>7. Lacks(MembersShape, NewMembers) /\ Lacks(TripsShape, {"template", "cover_color"})
  BY MembersHave, TripsLack
<1>8. Smooth(f0, m)
  BY <1>6, <1>7, Advanced_MembersSmooth
<1>9. f1["trip_members"] = {Grouped}
  BY <1>4, <1>6, MembersGrouped DEF After
<1> HIDE DEF f0, XM, XT, XS, XY, NS, NY, NZ
<1>10. /\ f1["users"] # {} /\ f1["trips"] = {TripsShape} /\ \A t \in NewTables : f1[t] = {}
  BY <1>1, <1>2, <1>3, <1>4, <1>5, <1>6, AfterRests, AfterThere
<1> HIDE DEF f1
<1>11. Smooth(f1, r)
  BY <1>9, Advanced_RolesSmooth
<1>12. f2["trip_members"] = {Enriched}
  BY <1>4, <1>9, RolesEnriched DEF After
<1>13. /\ f2["users"] # {} /\ f2["trips"] = {TripsShape} /\ \A t \in NewTables : f2[t] = {}
  BY <1>1, <1>2, <1>3, <1>4, <1>5, <1>10, AfterRests, AfterThere
<1> HIDE DEF f2
<1>14. Smooth(f2, p)
  BY <1>7, <1>13, Advanced_TripsSmooth
<1>15. /\ f3["trip_members"] = {Enriched} /\ f3["users"] # {} /\ f3["trips"] # {}
       /\ \A t \in NewTables : f3[t] = {}
  BY <1>1, <1>2, <1>3, <1>4, <1>5, <1>12, <1>13, AfterRests, AfterThere
<1> HIDE DEF f3
<1>16. Smooth(f3, s)
  <2>1. ~Exists(Enriched, "fk", "subgroup_id")
    BY GroupedHas DEF Exists, Enriched, Unchecked, RichCheck, Check
  <2>2. \A t \in {"safety_alerts", "audit_logs", "subgroups"} : f3[t] = {}
    BY <1>4, <1>15 DEF NS
  <2> QED
    BY <1>15, <2>1, <2>2, Advanced_SafetySmooth
<1>17. /\ f4["users"] # {} /\ f4["trips"] # {} /\ \A t \in NY : f4[t] = {}
       /\ \A t \in NZ : f4[t] = {}
  BY <1>1, <1>2, <1>3, <1>4, <1>5, <1>15, AfterRests, AfterThere
<1> HIDE DEF f4
<1>18. Smooth(f4, y)
  BY <1>17, Advanced_MoneySmooth DEF NY
<1>19. /\ f5["users"] # {} /\ f5["trips"] # {} /\ \A t \in NZ : f5[t] = {}
  BY <1>1, <1>2, <1>3, <1>4, <1>5, <1>17, AfterRests, AfterThere
<1> HIDE DEF f5
<1>20. Smooth(f5, z)
  BY <1>19, Advanced_TelemetrySmooth DEF NZ
<1>21. Leaves(f0, m, f1) /\ Leaves(f1, r, f2) /\ Leaves(f2, p, f3) /\ Leaves(f3, s, f4)
       /\ Leaves(f4, y, f5) /\ Leaves(f5, z, After(f5, z))
  BY <1>2, <1>8, <1>11, <1>14, <1>16, <1>18, <1>20 DEF Leaves, f1, f2, f3, f4, f5
<1>22. Up(2) = m \o r \o p \o s \o y \o z
  BY DEF Up
<1> HIDE DEF m, r, p, s, y, z
<1>23. Leaves(f0, m \o r \o p \o s \o y \o z, After(f5, z))
  <2>1. Leaves(f0, m \o r, f2)
    BY <1>21, LeavesOn
  <2>2. Leaves(f0, m \o r \o p, f3)
    BY <1>21, <2>1, LeavesOn
  <2>3. Leaves(f0, m \o r \o p \o s, f4)
    BY <1>21, <2>2, LeavesOn
  <2>4. Leaves(f0, m \o r \o p \o s \o y, f5)
    BY <1>21, <2>3, LeavesOn
  <2> QED
    BY <1>21, <2>4, LeavesOn
<1> QED
  BY <1>22, <1>23 DEF Leaves, f0

LEMMA UpThreeSmooth == Smooth(Rev(2), Up(3))
<1> DEFINE t == "users"
           X == NewTables \cup {"trips", "trip_members"}
<1>1. 2 \in 1..3 /\ 2 - 1 = 1
  OBVIOUS
<1>2. About(Up(2), X) /\ t \notin X /\ IsSeq(Up(2)) /\ t \in Tables
  BY <1>1, UpIs, DownSeq, TablesHave DEF UpPart, NewTables
<1>3. After(Rev(1), Up(2)) = Rev(2)
  BY <1>1, RevAfter
<1> HIDE DEF t, X
<1>4. Rev(2)[t] = Rev(1)[t]
  BY <1>2, <1>3, AfterRests
<1>5. Rev(2)["users"] = {UsersShape}
  BY <1>4, FirstRev DEF t
<1>6. Smooth(Rev(2), IsAdmin)
  BY <1>5, UsersLack, IsAdminSmooth
<1> QED
  BY <1>6 DEF Up

\* No statement of an upgrade is refused for what it finds of the revision before.
LEMMA UpSmooth ==
  ASSUME NEW v \in 1..3
  PROVE  Smooth(Rev(v - 1), Up(v))
<1>1. CASE v = 1
  BY <1>1, UpOneSmooth
<1>2. CASE v = 2
  BY <1>2, UpTwoSmooth
<1>3. CASE v = 3
  BY <1>3, UpThreeSmooth
<1> QED
  BY <1>1, <1>2, <1>3

-----------------------------------------------------------------------------
(* What the revisions have.                                                *)

\* What an upgrade gives a table, but for a CHECK, is there at its end.
LEMMA Given ==
  ASSUME NEW f, NEW ss, GoesUp(ss), Smooth(f, ss), NEW i \in 1..Len(ss), NEW t \in Tables,
         NEW a, Gives(ss[i], t, a), a.is # "check"
  PROVE  Keep(After(f, ss)[t], a)
<1> DEFINE h == Course(t, f[t], ss)
           n == Len(ss)
           s == ss[i]
<1>1. /\ n \in Nat /\ \A k \in 1..n : h[k] = StepOn(t, h[k - 1], ss[k])
  BY CourseSteps DEF GoesUp
<1>2. Passes(Here(f, ss, i - 1), s) /\ s.on = t
  BY DEF Smooth, Gives
<1>3. Here(f, ss, i - 1)[t] = h[i - 1]
  BY DEF Here
<1>4. h[i] = StepOn(t, h[i - 1], s)
  BY <1>1
<1> HIDE DEF h, s
<1>5. Keep(h[i], a)
  <2>1. s.on = t /\ s.do \in {"create", "add"} /\ a \in s.shape
    BY DEF Gives, s
  <2>2. CASE s.do = "create"
    <3>1. h[i - 1] = {}
      BY <1>2, <1>3, <2>2 DEF Passes
    <3>2. h[i] = {s.shape}
      BY <1>4, <2>1, <2>2, <3>1, StepCreate
    <3> QED
      BY <2>1, <3>2 DEF Keep
  <2>3. CASE s.do = "add"
    <3>1. h[i - 1] # {}
      BY <1>2, <1>3, <2>3 DEF Passes
    <3>2. h[i] = {Altered(x, s) : x \in h[i - 1]}
      BY <1>4, <2>1, <2>3 DEF StepOn
    <3>3. \A x : a \in Altered(x, s)
      BY <2>1, <2>3 DEF Altered
    <3> QED
      BY <3>1, <3>2, <3>3 DEF Keep
  <2> QED
    BY <2>1, <2>2, <2>3
<1>6. n \in 0..Len(ss) /\ i \in 0..n
  BY <1>1
<1> HIDE DEF n
<1>7. Keep(h[n], a)
  <2>1. Course(t, f[t], ss)[i] # {} /\ Keep(Course(t, f[t], ss)[i], a)
    BY <1>5 DEF h, Keep
  <2> QED
    BY <1>6, <2>1, CourseKeeps DEF h
<1> QED
  BY <1>7 DEF After, End, h, n

\* It stays with every further upgrade.
LEMMA KeepUp ==
  ASSUME NEW v \in 1..3, NEW t \in Tables, NEW a, a.is # "check", Keep(Rev(v - 1)[t], a)
  PROVE  Keep(Rev(v)[t], a)
<1> DEFINE ss == Up(v)
           o == Rev(v - 1)[t]
           n == Len(ss)
<1>1. /\ n \in Nat /\ Course(t, o, ss)[0] = o /\ GoesUp(ss)
  BY DownSeq, CourseSteps
<1>2. Rev(v)[t] = Course(t, o, ss)[n]
  BY RevAfter DEF After, End
<1>3. n \in 0..Len(ss) /\ 0 \in 0..n /\ o # {}
  BY <1>1 DEF Keep
<1> HIDE DEF ss, o, n
<1>4. Keep(Course(t, o, ss)[n], a)
  <2> DEFINE m == 0
  <2>1. m \in 0..n /\ Course(t, o, ss)[m] # {} /\ Keep(Course(t, o, ss)[m], a)
    BY <1>1, <1>3 DEF o
  <2> HIDE DEF m
  <2> QED
    BY <1>1, <1>3, <2>1, CourseKeeps
<1> QED
  BY <1>2, <1>4

Gets(ss, t, a) == \E i \in 1..Len(ss) : Gives(ss[i], t, a)

LEMMA GetsJoin ==
  ASSUME NEW a, NEW b, IsSeq(a), IsSeq(b), NEW t, NEW x, Gets(a, t, x) \/ Gets(b, t, x)
  PROVE  Gets(a \o b, t, x)
<1> DEFINE m == Len(a)
           n == Len(b)
           ab == a \o b
<1>1. m \in Nat /\ n \in Nat /\ Len(ab) = m + n
      /\ (\A i \in 1..m : ab[i] = a[i]) /\ (\A i \in 1..n : ab[m + i] = b[i])
  BY Joined
<1> HIDE DEF ab
<1>2. CASE Gets(a, t, x)
  <2>1. PICK i \in 1..m : Gives(a[i], t, x)
    BY <1>2 DEF Gets
  <2>2. i \in 1..Len(ab)
    BY <1>1
  <2> QED
    BY <1>1, <2>1, <2>2 DEF Gets, ab
<1>3. CASE Gets(b, t, x)
  <2>1. PICK i \in 1..n : Gives(b[i], t, x)
    BY <1>3 DEF Gets
  <2>2. m + i \in 1..Len(ab)
    BY <1>1
  <2> QED
    BY <1>1, <2>1, <2>2 DEF Gets, ab
<1> QED
  BY <1>2, <1>3

LEMMA RevisionHas ==
  ASSUME NEW v \in 1..3, NEW t \in Tables, NEW a, a.is # "check", Gets(Up(v), t, a)
  PROVE  \A w \in v..3 : Keep(Rev(w)[t], a)
<1>1. Keep(Rev(v)[t], a)
  <2>1. PICK i \in 1..Len(Up(v)) : Gives(Up(v)[i], t, a)
    BY DEF Gets
  <2>2. GoesUp(Up(v)) /\ Smooth(Rev(v - 1), Up(v)) /\ After(Rev(v - 1), Up(v)) = Rev(v)
    BY DownSeq, UpSmooth, RevAfter
  <2>3. Keep(After(Rev(v - 1), Up(v))[t], a)
    BY <2>1, <2>2, Given
  <2> QED
    BY <2>2, <2>3
<1>2. \A w \in 2..3 : Keep(Rev(w - 1)[t], a) => Keep(Rev(w)[t], a)
  BY KeepUp
<1>3. /\ Keep(Rev(1)[t], a) => Keep(Rev(2)[t], a)
      /\ Keep(Rev(2)[t], a) => Keep(Rev(3)[t], a)
  <2>1. 2 \in 2..3 /\ 3 \in 2..3 /\ 2 - 1 = 1 /\ 3 - 1 = 2
    OBVIOUS
  <2> QED
    BY <1>2, <2>1
<1>4. CASE v = 1
  BY <1>1, <1>3, <1>4
<1>5. CASE v = 2
  BY <1>1, <1>3, <1>5
<1>6. CASE v = 3
  BY <1>1, <1>6
<1> QED
  BY <1>4, <1>5, <1>6

\* The part ss of the upgrade to v.
PartOf(ss, v) == \A t, a : Gets(ss, t, a) => Gets(Up(v), t, a)

LEMMA UpParts ==
  /\ PartOf(Initial_Trips, 1) /\ PartOf(Initial_Rest, 1)
  /\ PartOf(Advanced_Members, 2) /\ PartOf(Advanced_Trips, 2) /\ PartOf(Advanced_Safety, 2)
  /\ PartOf(Advanced_Money, 2) /\ PartOf(Advanced_Telemetry, 2)
  /\ PartOf(IsAdmin, 3)
<1> DEFINE m == Advanced_Members
           r == Advanced_Roles
           p == Advanced_Trips
           s == Advanced_Safety
           y == Advanced_Money
           z == Advanced_Telemetry
<1>1. /\ IsSeq(m) /\ IsSeq(r) /\ IsSeq(p) /\ IsSeq(s) /\ IsSeq(y) /\ IsSeq(z)
      /\ IsSeq(Initial_Trips) /\ IsSeq(Initial_Rest)
  BY Advanced_MembersIs, Advanced_RolesIs, Advanced_TripsIs, Advanced_SafetyIs,
     Advanced_MoneyIs, Advanced_TelemetryIs, Initial_TripsIs, Initial_RestIs DEF GoesUp
<1>2. PartOf(Initial_Trips, 1) /\ PartOf(Initial_Rest, 1)
  <2>1. Up(1) = Initial_Trips \o Initial_Rest
    BY DEF Up
  <2> QED
    BY <1>1, <2>1, GetsJoin DEF PartOf
<1>3. Up(2) = m \o r \o p \o s \o y \o z
  BY DEF Up
<1>4. PartOf(IsAdmin, 3)
  BY DEF PartOf, Up
<1> HIDE DEF m, r, p, s, y, z
<1>5. IsSeq(m \o r) /\ IsSeq(m \o r \o p) /\ IsSeq(m \o r \o p \o s)
      /\ IsSeq(m \o r \o p \o s \o y)
  <2>1. IsSeq(m \o r)
    BY <1>1, Joined
  <2>2. IsSeq(m \o r \o p)
    BY <1>1, <2>1, Joined
  <2>3. IsSeq(m \o r \o p \o s)
    BY <1>1, <2>2, Joined
  <2>4. IsSeq(m \o r \o p \o s \o y)
    BY <1>1, <2>3, Joined
  <2> QED
    BY <2>1, <2>2, <2>3, <2>4
<1>6. ASSUME NEW t, NEW a
      PROVE  /\ Gets(m, t, a) => Gets(m \o r, t, a)
             /\ Gets(m \o r, t, a) \/ Gets(p, t, a) => Gets(m \o r \o p, t, a)
             /\ Gets(m \o r \o p, t, a) \/ Gets(s, t, a) => Gets(m \o r \o p \o s, t, a)
             /\ Gets(m \o r \o p \o s, t, a) \/ Gets(y, t, a)
                  => Gets(m \o r \o p \o s \o y, t, a)
             /\ Gets(m \o r \o p \o s \o y, t, a) \/ Gets(z, t, a) => Gets(Up(2), t, a)
  <2>1. Gets(m, t, a) => Gets(m \o r, t, a)
    BY <1>1, GetsJoin
  <2>2. Gets(m \o r, t, a) \/ Gets(p, t, a) => Gets(m \o r \o p, t, a)
    BY <1>1, <1>5, GetsJoin
  <2>3. Gets(m \o r \o p, t, a) \/ Gets(s, t, a) => Gets(m \o r \o p \o s, t, a)
    BY <1>1, <1>5, GetsJoin
  <2>4. Gets(m \o r \o p \o s, t, a) \/ Gets(y, t, a) => Gets(m \o r \o p \o s \o y, t, a)
    BY <1>1, <1>5, GetsJoin
  <2>5. Gets(m \o r \o p \o s \o y, t, a) \/ Gets(z, t, a) => Gets(Up(2), t, a)
    BY <1>1, <1>3, <1>5, GetsJoin
  <2> QED
    BY <2>1, <2>2, <2>3, <2>4, <2>5
<1>7. PartOf(m, 2) /\ PartOf(p, 2) /\ PartOf(s, 2) /\ PartOf(y, 2) /\ PartOf(z, 2)
  BY <1>6 DEF PartOf
<1> QED
  BY <1>2, <1>4, <1>7 DEF m, p, s, y, z

LEMMA Created ==
  ASSUME NEW v \in 1..3, NEW ss, PartOf(ss, v), NEW i \in 1..Len(ss), NEW t \in Tables,
         NEW plain, NEW text, NEW keys, NEW allowed,
         ss[i] = Create(t, plain, text, keys, allowed)
  PROVE  \A w \in v..3 : \A o \in Columns(plain, text) : Keep(Rev(w)[t], o)
<1>1. ASSUME NEW o \in Columns(plain, text) PROVE \A w \in v..3 : Keep(Rev(w)[t], o)
  <2>1. o.is = "column"
    BY DEF Columns, Column
  <2>2. Gives(ss[i], t, o)
    BY DEF Gives, Create
  <2>3. Gets(Up(v), t, o)
    BY <2>2 DEF Gets, PartOf
  <2> QED
    BY <2>1, <2>3, RevisionHas
<1> QED
  BY <1>1

LEMMA Added ==
  ASSUME NEW v \in 1..3, NEW ss, PartOf(ss, v), NEW i \in 1..Len(ss), NEW t \in Tables,
         NEW a, a.is # "check", Adds(ss[i], t, a)
  PROVE  \A w \in v..3 : Keep(Rev(w)[t], a)
<1>1. Gives(ss[i], t, a)
  BY DEF Gives, Adds
<1>2. Gets(Up(v), t, a)
  BY <1>1 DEF Gets, PartOf
<1> QED
  BY <1>2, RevisionHas

\* The table t has a column of each name at the head.
Named(t, names) == \A n \in names : \E w : Keep(Rev(3)[t], Column(n, w))

LEMMA ColumnsNamed ==
  ASSUME NEW t, NEW plain, NEW text, \A o \in Columns(plain, text) : Keep(Rev(3)[t], o)
  PROVE  /\ Named(t, plain \cup DOMAIN text)
         /\ \A n \in DOMAIN text : Keep(Rev(3)[t], Column(n, text[n]))
<1>1. \A n \in plain : Keep(Rev(3)[t], Column(n, 0))
  BY DEF Columns
<1>2. \A n \in DOMAIN text : Keep(Rev(3)[t], Column(n, text[n]))
  BY DEF Columns
<1> QED
  BY <1>1, <1>2 DEF Named

-----------------------------------------------------------------------------
(* The columns of every table at the head.                                 *)

LEMMA UsersHead ==
  /\ Named("users", {"id", "created_at", "phone", "display_name", "avatar_url", "is_admin"})
  /\ Keep(Rev(3)["users"], Column("phone", 20))
  /\ Keep(Rev(3)["users"], Column("display_name", 80))
  /\ Keep(Rev(3)["users"], Column("avatar_url", 500))
  /\ Keep(Rev(3)["users"], Column("is_admin", 0))
<1> DEFINE t == "users"
           v == 1
           i == 1
           plain == {"id", "created_at"}
           text == [phone |-> 20, display_name |-> 80, avatar_url |-> 500]
           keys == None
           checks == None
<1>1. Initial_Trips[i] = Create(t, plain, text, keys, checks)
  BY DEF Initial_Trips
<1>2. i \in 1..Len(Initial_Trips) /\ t \in Tables /\ PartOf(Initial_Trips, v) /\ v \in 1..3 /\ 3 \in v..3
  BY Initial_TripsReads, TablesHave, UpParts
<1>3. DOMAIN text = {"phone", "display_name", "avatar_url"}
  OBVIOUS
<1>4. /\ text["phone"] = 20
      /\ text["display_name"] = 80
      /\ text["avatar_url"] = 500
  OBVIOUS
<1> HIDE DEF i, plain, text, keys, checks, v
<1>5. /\ Named(t, plain \cup DOMAIN text)
      /\ \A n \in DOMAIN text : Keep(Rev(3)[t], Column(n, text[n]))
  <2>1. \A w \in v..3 : \A o \in Columns(plain, text) : Keep(Rev(w)[t], o)
    BY <1>1, <1>2, Created
  <2>2. \A o \in Columns(plain, text) : Keep(Rev(3)[t], o)
    BY <1>2, <2>1
  <2> QED
    BY <2>2, ColumnsNamed
<1>6. /\ Keep(Rev(3)[t], Column("phone", 20))
      /\ Keep(Rev(3)[t], Column("display_name", 80))
      /\ Keep(Rev(3)[t], Column("avatar_url", 500))
  BY <1>3, <1>4, <1>5
<1>7. Keep(Rev(3)[t], Column("is_admin", 0))
  <2> DEFINE u == 3
             j == 1
             c == Column("is_admin", 0)
  <2>1. /\ u \in 1..3 /\ 3 \in u..3 /\ j \in 1..Len(IsAdmin) /\ t \in Tables
        /\ PartOf(IsAdmin, u) /\ Adds(IsAdmin[j], t, c)
    BY IsAdminReads, TablesHave, UpParts
  <2>2. c.is # "check"
    BY DEF Column
  <2> HIDE DEF u, j, c, t
  <2>3. \A w \in u..3 : Keep(Rev(w)[t], c)
    BY <2>1, <2>2, Added
  <2> QED
    BY <2>1, <2>3 DEF c
<1>8. Named(t, {"id", "created_at", "phone", "display_name", "avatar_url", "is_admin"})
  BY <1>3, <1>5, <1>7 DEF Named, plain
<1> QED
  BY <1>6, <1>7, <1>8

LEMMA TripsHead ==
  /\ Named("trips", {"id", "owner_id", "start_at", "end_at", "created_at", "name",
                      "status", "join_code", "template", "cover_color"})
  /\ Keep(Rev(3)["trips"], Column("name", 120))
  /\ Keep(Rev(3)["trips"], Column("status", 20))
  /\ Keep(Rev(3)["trips"], Column("join_code", 6))
  /\ Keep(Rev(3)["trips"], Column("template", 40))
  /\ Keep(Rev(3)["trips"], Column("cover_color", 9))
<1> DEFINE t == "trips"
           v == 1
           i == 2
           plain == {"id", "owner_id", "start_at", "end_at", "created_at"}
           text == [name |-> 120, status |-> 20, join_code |-> 6]
           keys == [owner_id |-> "users"]
           checks == [status |-> {"planned", "active", "ended", "cancelled"}]
<1>1. Initial_Trips[i] = Create(t, plain, text, keys, checks)
  BY DEF Initial_Trips
<1>2. i \in 1..Len(Initial_Trips) /\ t \in Tables /\ PartOf(Initial_Trips, v) /\ v \in 1..3 /\ 3 \in v..3
  BY Initial_TripsReads, TablesHave, UpParts
<1>3. DOMAIN text = {"name", "status", "join_code"}
  OBVIOUS
<1>4. /\ text["name"] = 120
      /\ text["status"] = 20
      /\ text["join_code"] = 6
  OBVIOUS
<1> HIDE DEF i, plain, text, keys, checks, v
<1>5. /\ Named(t, plain \cup DOMAIN text)
      /\ \A n \in DOMAIN text : Keep(Rev(3)[t], Column(n, text[n]))
  <2>1. \A w \in v..3 : \A o \in Columns(plain, text) : Keep(Rev(w)[t], o)
    BY <1>1, <1>2, Created
  <2>2. \A o \in Columns(plain, text) : Keep(Rev(3)[t], o)
    BY <1>2, <2>1
  <2> QED
    BY <2>2, ColumnsNamed
<1>6. /\ Keep(Rev(3)[t], Column("name", 120))
      /\ Keep(Rev(3)[t], Column("status", 20))
      /\ Keep(Rev(3)[t], Column("join_code", 6))
  BY <1>3, <1>4, <1>5
<1>7. Keep(Rev(3)[t], Column("template", 40))
  <2> DEFINE u == 2
             j == 1
             c == Column("template", 40)
  <2>1. /\ u \in 1..3 /\ 3 \in u..3 /\ j \in 1..Len(Advanced_Trips) /\ t \in Tables
        /\ PartOf(Advanced_Trips, u) /\ Adds(Advanced_Trips[j], t, c)
    BY Advanced_TripsReads, TablesHave, UpParts
  <2>2. c.is # "check"
    BY DEF Column
  <2> HIDE DEF u, j, c, t
  <2>3. \A w \in u..3 : Keep(Rev(w)[t], c)
    BY <2>1, <2>2, Added
  <2> QED
    BY <2>1, <2>3 DEF c
<1>8. Keep(Rev(3)[t], Column("cover_color", 9))
  <2> DEFINE u == 2
             j == 2
             c == Column("cover_color", 9)
  <2>1. /\ u \in 1..3 /\ 3 \in u..3 /\ j \in 1..Len(Advanced_Trips) /\ t \in Tables
        /\ PartOf(Advanced_Trips, u) /\ Adds(Advanced_Trips[j], t, c)
    BY Advanced_TripsReads, TablesHave, UpParts
  <2>2. c.is # "check"
    BY DEF Column
  <2> HIDE DEF u, j, c, t
  <2>3. \A w \in u..3 : Keep(Rev(w)[t], c)
    BY <2>1, <2>2, Added
  <2> QED
    BY <2>1, <2>3 DEF c
<1>9. Named(t, {"id", "owner_id", "start_at", "end_at", "created_at", "name",
                   "status", "join_code", "template", "cover_color"})
  BY <1>3, <1>5, <1>7, <1>8 DEF Named, plain
<1> QED
  BY <1>6, <1>7, <1>8, <1>9

LEMMA MembersHead ==
  /\ Named("trip_members", {"trip_id", "user_id", "joined_at", "left_at", "ghost_mode", "role",
                             "color", "visibility_scope", "share_until", "is_ready",
                             "vehicle_label", "subgroup_id"})
  /\ Keep(Rev(3)["trip_members"], Column("role", 10))
  /\ Keep(Rev(3)["trip_members"], Column("color", 9))
  /\ Keep(Rev(3)["trip_members"], Column("visibility_scope", 0))
  /\ Keep(Rev(3)["trip_members"], Column("share_until", 0))
  /\ Keep(Rev(3)["trip_members"], Column("is_ready", 0))
  /\ Keep(Rev(3)["trip_members"], Column("vehicle_label", 40))
  /\ Keep(Rev(3)["trip_members"], Column("subgroup_id", 0))
<1> DEFINE t == "trip_members"
           v == 1
           i == 4
           plain == {"trip_id", "user_id", "joined_at", "left_at", "ghost_mode"}
           text == [role |-> 10, color |-> 9]
           keys == TripUserKeys
           checks == [role |-> PlainRoles]
<1>1. Initial_Trips[i] = Create(t, plain, text, keys, checks)
  BY DEF Initial_Trips
<1>2. i \in 1..Len(Initial_Trips) /\ t \in Tables /\ PartOf(Initial_Trips, v) /\ v \in 1..3 /\ 3 \in v..3
  BY Initial_TripsReads, TablesHave, UpParts
<1>3. DOMAIN text = {"role", "color"}
  OBVIOUS
<1>4. /\ text["role"] = 10
      /\ text["color"] = 9
  OBVIOUS
<1> HIDE DEF i, plain, text, keys, checks, v
<1>5. /\ Named(t, plain \cup DOMAIN text)
      /\ \A n \in DOMAIN text : Keep(Rev(3)[t], Column(n, text[n]))
  <2>1. \A w \in v..3 : \A o \in Columns(plain, text) : Keep(Rev(w)[t], o)
    BY <1>1, <1>2, Created
  <2>2. \A o \in Columns(plain, text) : Keep(Rev(3)[t], o)
    BY <1>2, <2>1
  <2> QED
    BY <2>2, ColumnsNamed
<1>6. /\ Keep(Rev(3)[t], Column("role", 10))
      /\ Keep(Rev(3)[t], Column("color", 9))
  BY <1>3, <1>4, <1>5
<1>7. Keep(Rev(3)[t], Column("visibility_scope", 0))
  <2> DEFINE u == 2
             j == 1
             c == Column("visibility_scope", 0)
  <2>1. /\ u \in 1..3 /\ 3 \in u..3 /\ j \in 1..Len(Advanced_Members) /\ t \in Tables
        /\ PartOf(Advanced_Members, u) /\ Adds(Advanced_Members[j], t, c)
    BY Advanced_MembersReads, TablesHave, UpParts
  <2>2. c.is # "check"
    BY DEF Column
  <2> HIDE DEF u, j, c, t
  <2>3. \A w \in u..3 : Keep(Rev(w)[t], c)
    BY <2>1, <2>2, Added
  <2> QED
    BY <2>1, <2>3 DEF c
<1>8. Keep(Rev(3)[t], Column("share_until", 0))
  <2> DEFINE u == 2
             j == 2
             c == Column("share_until", 0)
  <2>1. /\ u \in 1..3 /\ 3 \in u..3 /\ j \in 1..Len(Advanced_Members) /\ t \in Tables
        /\ PartOf(Advanced_Members, u) /\ Adds(Advanced_Members[j], t, c)
    BY Advanced_MembersReads, TablesHave, UpParts
  <2>2. c.is # "check"
    BY DEF Column
  <2> HIDE DEF u, j, c, t
  <2>3. \A w \in u..3 : Keep(Rev(w)[t], c)
    BY <2>1, <2>2, Added
  <2> QED
    BY <2>1, <2>3 DEF c
<1>9. Keep(Rev(3)[t], Column("is_ready", 0))
  <2> DEFINE u == 2
             j == 3
             c == Column("is_ready", 0)
  <2>1. /\ u \in 1..3 /\ 3 \in u..3 /\ j \in 1..Len(Advanced_Members) /\ t \in Tables
        /\ PartOf(Advanced_Members, u) /\ Adds(Advanced_Members[j], t, c)
    BY Advanced_MembersReads, TablesHave, UpParts
  <2>2. c.is # "check"
    BY DEF Column
  <2> HIDE DEF u, j, c, t
  <2>3. \A w \in u..3 : Keep(Rev(w)[t], c)
    BY <2>1, <2>2, Added
  <2> QED
    BY <2>1, <2>3 DEF c
<1>10. Keep(Rev(3)[t], Column("vehicle_label", 40))
  <2> DEFINE u == 2
             j == 4
             c == Column("vehicle_label", 40)
  <2>1. /\ u \in 1..3 /\ 3 \in u..3 /\ j \in 1..Len(Advanced_Members) /\ t \in Tables
        /\ PartOf(Advanced_Members, u) /\ Adds(Advanced_Members[j], t, c)
    BY Advanced_MembersReads, TablesHave, UpParts
  <2>2. c.is # "check"
    BY DEF Column
  <2> HIDE DEF u, j, c, t
  <2>3. \A w \in u..3 : Keep(Rev(w)[t], c)
    BY <2>1, <2>2, Added
  <2> QED
    BY <2>1, <2>3 DEF c
<1>11. Keep(Rev(3)[t], Column("subgroup_id", 0))
  <2> DEFINE u == 2
             j == 5
             c == Column("subgroup_id", 0)
  <2>1. /\ u \in 1..3 /\ 3 \in u..3 /\ j \in 1..Len(Advanced_Members) /\ t \in Tables
        /\ PartOf(Advanced_Members, u) /\ Adds(Advanced_Members[j], t, c)
    BY Advanced_MembersReads, TablesHave, UpParts
  <2>2. c.is # "check"
    BY DEF Column
  <2> HIDE DEF u, j, c, t
  <2>3. \A w \in u..3 : Keep(Rev(w)[t], c)
    BY <2>1, <2>2, Added
  <2> QED
    BY <2>1, <2>3 DEF c
<1>12. Named(t, {"trip_id", "user_id", "joined_at", "left_at", "ghost_mode", "role",
                    "color", "visibility_scope", "share_until", "is_ready",
                    "vehicle_label", "subgroup_id"})
  BY <1>3, <1>5, <1>7, <1>8, <1>9, <1>10, <1>11 DEF Named, plain
<1> QED
  BY <1>6, <1>7, <1>8, <1>9, <1>10, <1>11, <1>12

LEMMA WaypointsHead ==
  /\ Named("waypoints", {"id", "trip_id", "position", "arrival_radius_m", "created_at",
                          "name", "geom"})
  /\ Keep(Rev(3)["waypoints"], Column("name", 120))
  /\ Keep(Rev(3)["waypoints"], Column("geom", 0))
<1> DEFINE t == "waypoints"
           v == 1
           i == 1
           plain == {"id", "trip_id", "position", "arrival_radius_m", "created_at"}
           text == [name |-> 120]
           keys == TripKey
           checks == None
<1>1. Initial_Rest[i] = Create(t, plain, text, keys, checks)
  BY DEF Initial_Rest
<1>2. i \in 1..Len(Initial_Rest) /\ t \in Tables /\ PartOf(Initial_Rest, v) /\ v \in 1..3 /\ 3 \in v..3
  BY Initial_RestReads, TablesHave, UpParts
<1>3. DOMAIN text = {"name"}
  OBVIOUS
<1>4. /\ text["name"] = 120
  OBVIOUS
<1> HIDE DEF i, plain, text, keys, checks, v
<1>5. /\ Named(t, plain \cup DOMAIN text)
      /\ \A n \in DOMAIN text : Keep(Rev(3)[t], Column(n, text[n]))
  <2>1. \A w \in v..3 : \A o \in Columns(plain, text) : Keep(Rev(w)[t], o)
    BY <1>1, <1>2, Created
  <2>2. \A o \in Columns(plain, text) : Keep(Rev(3)[t], o)
    BY <1>2, <2>1
  <2> QED
    BY <2>2, ColumnsNamed
<1>6. /\ Keep(Rev(3)[t], Column("name", 120))
  BY <1>3, <1>4, <1>5
<1>7. Keep(Rev(3)[t], Column("geom", 0))
  <2> DEFINE u == 1
             j == 2
             c == Column("geom", 0)
  <2>1. /\ u \in 1..3 /\ 3 \in u..3 /\ j \in 1..Len(Initial_Rest) /\ t \in Tables
        /\ PartOf(Initial_Rest, u) /\ Adds(Initial_Rest[j], t, c)
    BY Initial_RestReads, TablesHave, UpParts
  <2>2. c.is # "check"
    BY DEF Column
  <2> HIDE DEF u, j, c, t
  <2>3. \A w \in u..3 : Keep(Rev(w)[t], c)
    BY <2>1, <2>2, Added
  <2> QED
    BY <2>1, <2>3 DEF c
<1>8. Named(t, {"id", "trip_id", "position", "arrival_radius_m", "created_at",
                   "name", "geom"})
  BY <1>3, <1>5, <1>7 DEF Named, plain
<1> QED
  BY <1>6, <1>7, <1>8

LEMMA MessagesHead ==
  /\ Named("messages", {"id", "trip_id", "user_id", "body", "sent_at", "kind"})
  /\ Keep(Rev(3)["messages"], Column("kind", 20))
<1> DEFINE t == "messages"
           v == 1
           i == 5
           plain == {"id", "trip_id", "user_id", "body", "sent_at"}
           text == [kind |-> 20]
           keys == TripUserKeys
           checks == [kind |-> {"text", "system", "arrival", "leave", "join"}]
<1>1. Initial_Rest[i] = Create(t, plain, text, keys, checks)
  BY DEF Initial_Rest
<1>2. i \in 1..Len(Initial_Rest) /\ t \in Tables /\ PartOf(Initial_Rest, v) /\ v \in 1..3 /\ 3 \in v..3
  BY Initial_RestReads, TablesHave, UpParts
<1>3. DOMAIN text = {"kind"}
  OBVIOUS
<1>4. /\ text["kind"] = 20
  OBVIOUS
<1> HIDE DEF i, plain, text, keys, checks, v
<1>5. /\ Named(t, plain \cup DOMAIN text)
      /\ \A n \in DOMAIN text : Keep(Rev(3)[t], Column(n, text[n]))
  <2>1. \A w \in v..3 : \A o \in Columns(plain, text) : Keep(Rev(w)[t], o)
    BY <1>1, <1>2, Created
  <2>2. \A o \in Columns(plain, text) : Keep(Rev(3)[t], o)
    BY <1>2, <2>1
  <2> QED
    BY <2>2, ColumnsNamed
<1>6. /\ Keep(Rev(3)[t], Column("kind", 20))
  BY <1>3, <1>4, <1>5
<1>7. Named(t, {"id", "trip_id", "user_id", "body", "sent_at", "kind"})
  BY <1>3, <1>5 DEF Named, plain
<1> QED
  BY <1>6, <1>7

LEMMA DevicesHead ==
  /\ Named("devices", {"id", "user_id", "last_seen_at", "fcm_token", "platform"})
  /\ Keep(Rev(3)["devices"], Column("fcm_token", 500))
  /\ Keep(Rev(3)["devices"], Column("platform", 10))
<1> DEFINE t == "devices"
           v == 1
           i == 7
           plain == {"id", "user_id", "last_seen_at"}
           text == [fcm_token |-> 500, platform |-> 10]
           keys == UserKey
           checks == None
<1>1. Initial_Rest[i] = Create(t, plain, text, keys, checks)
  BY DEF Initial_Rest
<1>2. i \in 1..Len(Initial_Rest) /\ t \in Tables /\ PartOf(Initial_Rest, v) /\ v \in 1..3 /\ 3 \in v..3
  BY Initial_RestReads, TablesHave, UpParts
<1>3. DOMAIN text = {"fcm_token", "platform"}
  OBVIOUS
<1>4. /\ text["fcm_token"] = 500
      /\ text["platform"] = 10
  OBVIOUS
<1> HIDE DEF i, plain, text, keys, checks, v
<1>5. /\ Named(t, plain \cup DOMAIN text)
      /\ \A n \in DOMAIN text : Keep(Rev(3)[t], Column(n, text[n]))
  <2>1. \A w \in v..3 : \A o \in Columns(plain, text) : Keep(Rev(w)[t], o)
    BY <1>1, <1>2, Created
  <2>2. \A o \in Columns(plain, text) : Keep(Rev(3)[t], o)
    BY <1>2, <2>1
  <2> QED
    BY <2>2, ColumnsNamed
<1>6. /\ Keep(Rev(3)[t], Column("fcm_token", 500))
      /\ Keep(Rev(3)[t], Column("platform", 10))
  BY <1>3, <1>4, <1>5
<1>7. Named(t, {"id", "user_id", "last_seen_at", "fcm_token", "platform"})
  BY <1>3, <1>5 DEF Named, plain
<1> QED
  BY <1>6, <1>7

LEMMA LocationsHead ==
  /\ Named("locations", {"user_id", "trip_id", "geom", "heading", "speed_mps", "battery_pct",
                          "recorded_at"})
<1> DEFINE t == "locations"
           v == 1
           i == 8
           plain == {"user_id", "trip_id", "geom", "heading", "speed_mps", "battery_pct",
                    "recorded_at"}
           text == None
           keys == TripUserKeys
           checks == None
<1>1. Initial_Rest[i] = Create(t, plain, text, keys, checks)
  BY DEF Initial_Rest
<1>2. i \in 1..Len(Initial_Rest) /\ t \in Tables /\ PartOf(Initial_Rest, v) /\ v \in 1..3 /\ 3 \in v..3
  BY Initial_RestReads, TablesHave, UpParts
<1>3. DOMAIN text = {}
  BY DEF None
<1> HIDE DEF i, plain, text, keys, checks, v
<1>5. /\ Named(t, plain \cup DOMAIN text)
      /\ \A n \in DOMAIN text : Keep(Rev(3)[t], Column(n, text[n]))
  <2>1. \A w \in v..3 : \A o \in Columns(plain, text) : Keep(Rev(w)[t], o)
    BY <1>1, <1>2, Created
  <2>2. \A o \in Columns(plain, text) : Keep(Rev(3)[t], o)
    BY <1>2, <2>1
  <2> QED
    BY <2>2, ColumnsNamed
<1>7. Named(t, {"user_id", "trip_id", "geom", "heading", "speed_mps", "battery_pct",
                   "recorded_at"})
  BY <1>3, <1>5 DEF Named, plain
<1> QED
  BY <1>7

LEMMA AlertsHead ==
  /\ Named("safety_alerts", {"id", "trip_id", "user_id", "details", "created_at",
                              "acknowledged_at", "kind", "severity"})
  /\ Keep(Rev(3)["safety_alerts"], Column("kind", 20))
  /\ Keep(Rev(3)["safety_alerts"], Column("severity", 20))
<1> DEFINE t == "safety_alerts"
           v == 2
           i == 1
           plain == {"id", "trip_id", "user_id", "details", "created_at",
                    "acknowledged_at"}
           text == [kind |-> 20, severity |-> 20]
           keys == TripUserKeys
           checks == [kind |-> {"sos", "crash", "stranded", "speed", "fatigue"}, severity |-> {"info", "warning", "critical"}]
<1>1. Advanced_Safety[i] = Create(t, plain, text, keys, checks)
  BY DEF Advanced_Safety
<1>2. i \in 1..Len(Advanced_Safety) /\ t \in Tables /\ PartOf(Advanced_Safety, v) /\ v \in 1..3 /\ 3 \in v..3
  BY Advanced_SafetyReads, TablesHave, UpParts
<1>3. DOMAIN text = {"kind", "severity"}
  OBVIOUS
<1>4. /\ text["kind"] = 20
      /\ text["severity"] = 20
  OBVIOUS
<1> HIDE DEF i, plain, text, keys, checks, v
<1>5. /\ Named(t, plain \cup DOMAIN text)
      /\ \A n \in DOMAIN text : Keep(Rev(3)[t], Column(n, text[n]))
  <2>1. \A w \in v..3 : \A o \in Columns(plain, text) : Keep(Rev(w)[t], o)
    BY <1>1, <1>2, Created
  <2>2. \A o \in Columns(plain, text) : Keep(Rev(3)[t], o)
    BY <1>2, <2>1
  <2> QED
    BY <2>2, ColumnsNamed
<1>6. /\ Keep(Rev(3)[t], Column("kind", 20))
      /\ Keep(Rev(3)[t], Column("severity", 20))
  BY <1>3, <1>4, <1>5
<1>7. Named(t, {"id", "trip_id", "user_id", "details", "created_at",
                   "acknowledged_at", "kind", "severity"})
  BY <1>3, <1>5 DEF Named, plain
<1> QED
  BY <1>6, <1>7

LEMMA AuditHead ==
  /\ Named("audit_logs", {"id", "subject_user_id", "actor_user_id", "trip_id", "details",
                           "created_at", "action"})
  /\ Keep(Rev(3)["audit_logs"], Column("action", 40))
<1> DEFINE t == "audit_logs"
           v == 2
           i == 3
           plain == {"id", "subject_user_id", "actor_user_id", "trip_id", "details",
                    "created_at"}
           text == [action |-> 40]
           keys == [subject_user_id |-> "users", actor_user_id |-> "users", trip_id |-> "trips"]
           checks == None
<1>1. Advanced_Safety[i] = Create(t, plain, text, keys, checks)
  BY DEF Advanced_Safety
<1>2. i \in 1..Len(Advanced_Safety) /\ t \in Tables /\ PartOf(Advanced_Safety, v) /\ v \in 1..3 /\ 3 \in v..3
  BY Advanced_SafetyReads, TablesHave, UpParts
<1>3. DOMAIN text = {"action"}
  OBVIOUS
<1>4. /\ text["action"] = 40
  OBVIOUS
<1> HIDE DEF i, plain, text, keys, checks, v
<1>5. /\ Named(t, plain \cup DOMAIN text)
      /\ \A n \in DOMAIN text : Keep(Rev(3)[t], Column(n, text[n]))
  <2>1. \A w \in v..3 : \A o \in Columns(plain, text) : Keep(Rev(w)[t], o)
    BY <1>1, <1>2, Created
  <2>2. \A o \in Columns(plain, text) : Keep(Rev(3)[t], o)
    BY <1>2, <2>1
  <2> QED
    BY <2>2, ColumnsNamed
<1>6. /\ Keep(Rev(3)[t], Column("action", 40))
  BY <1>3, <1>4, <1>5
<1>7. Named(t, {"id", "subject_user_id", "actor_user_id", "trip_id", "details",
                   "created_at", "action"})
  BY <1>3, <1>5 DEF Named, plain
<1> QED
  BY <1>6, <1>7

LEMMA SubgroupsHead ==
  /\ Named("subgroups", {"id", "trip_id", "created_at", "name", "color"})
  /\ Keep(Rev(3)["subgroups"], Column("name", 60))
  /\ Keep(Rev(3)["subgroups"], Column("color", 9))
<1> DEFINE t == "subgroups"
           v == 2
           i == 5
           plain == {"id", "trip_id", "created_at"}
           text == [name |-> 60, color |-> 9]
           keys == TripKey
           checks == None
<1>1. Advanced_Safety[i] = Create(t, plain, text, keys, checks)
  BY DEF Advanced_Safety
<1>2. i \in 1..Len(Advanced_Safety) /\ t \in Tables /\ PartOf(Advanced_Safety, v) /\ v \in 1..3 /\ 3 \in v..3
  BY Advanced_SafetyReads, TablesHave, UpParts
<1>3. DOMAIN text = {"name", "color"}
  OBVIOUS
<1>4. /\ text["name"] = 60
      /\ text["color"] = 9
  OBVIOUS
<1> HIDE DEF i, plain, text, keys, checks, v
<1>5. /\ Named(t, plain \cup DOMAIN text)
      /\ \A n \in DOMAIN text : Keep(Rev(3)[t], Column(n, text[n]))
  <2>1. \A w \in v..3 : \A o \in Columns(plain, text) : Keep(Rev(w)[t], o)
    BY <1>1, <1>2, Created
  <2>2. \A o \in Columns(plain, text) : Keep(Rev(3)[t], o)
    BY <1>2, <2>1
  <2> QED
    BY <2>2, ColumnsNamed
<1>6. /\ Keep(Rev(3)[t], Column("name", 60))
      /\ Keep(Rev(3)[t], Column("color", 9))
  BY <1>3, <1>4, <1>5
<1>7. Named(t, {"id", "trip_id", "created_at", "name", "color"})
  BY <1>3, <1>5 DEF Named, plain
<1> QED
  BY <1>6, <1>7

LEMMA ExpensesHead ==
  /\ Named("expenses", {"id", "trip_id", "paid_by", "amount_cents", "created_at",
                         "description", "currency", "category"})
  /\ Keep(Rev(3)["expenses"], Column("description", 200))
  /\ Keep(Rev(3)["expenses"], Column("currency", 3))
  /\ Keep(Rev(3)["expenses"], Column("category", 20))
<1> DEFINE t == "expenses"
           v == 2
           i == 1
           plain == {"id", "trip_id", "paid_by", "amount_cents", "created_at"}
           text == [description |-> 200, currency |-> 3, category |-> 20]
           keys == [trip_id |-> "trips", paid_by |-> "users"]
           checks == None
<1>1. Advanced_Money[i] = Create(t, plain, text, keys, checks)
  BY DEF Advanced_Money
<1>2. i \in 1..Len(Advanced_Money) /\ t \in Tables /\ PartOf(Advanced_Money, v) /\ v \in 1..3 /\ 3 \in v..3
  BY Advanced_MoneyReads, TablesHave, UpParts
<1>3. DOMAIN text = {"description", "currency", "category"}
  OBVIOUS
<1>4. /\ text["description"] = 200
      /\ text["currency"] = 3
      /\ text["category"] = 20
  OBVIOUS
<1> HIDE DEF i, plain, text, keys, checks, v
<1>5. /\ Named(t, plain \cup DOMAIN text)
      /\ \A n \in DOMAIN text : Keep(Rev(3)[t], Column(n, text[n]))
  <2>1. \A w \in v..3 : \A o \in Columns(plain, text) : Keep(Rev(w)[t], o)
    BY <1>1, <1>2, Created
  <2>2. \A o \in Columns(plain, text) : Keep(Rev(3)[t], o)
    BY <1>2, <2>1
  <2> QED
    BY <2>2, ColumnsNamed
<1>6. /\ Keep(Rev(3)[t], Column("description", 200))
      /\ Keep(Rev(3)[t], Column("currency", 3))
      /\ Keep(Rev(3)[t], Column("category", 20))
  BY <1>3, <1>4, <1>5
<1>7. Named(t, {"id", "trip_id", "paid_by", "amount_cents", "created_at",
                   "description", "currency", "category"})
  BY <1>3, <1>5 DEF Named, plain
<1> QED
  BY <1>6, <1>7

LEMMA SharesHead ==
  /\ Named("expense_shares", {"expense_id", "user_id", "share_cents"})
<1> DEFINE t == "expense_shares"
           v == 2
           i == 3
           plain == {"expense_id", "user_id", "share_cents"}
           text == None
           keys == [expense_id |-> "expenses", user_id |-> "users"]
           checks == None
<1>1. Advanced_Money[i] = Create(t, plain, text, keys, checks)
  BY DEF Advanced_Money
<1>2. i \in 1..Len(Advanced_Money) /\ t \in Tables /\ PartOf(Advanced_Money, v) /\ v \in 1..3 /\ 3 \in v..3
  BY Advanced_MoneyReads, TablesHave, UpParts
<1>3. DOMAIN text = {}
  BY DEF None
<1> HIDE DEF i, plain, text, keys, checks, v
<1>5. /\ Named(t, plain \cup DOMAIN text)
      /\ \A n \in DOMAIN text : Keep(Rev(3)[t], Column(n, text[n]))
  <2>1. \A w \in v..3 : \A o \in Columns(plain, text) : Keep(Rev(w)[t], o)
    BY <1>1, <1>2, Created
  <2>2. \A o \in Columns(plain, text) : Keep(Rev(3)[t], o)
    BY <1>2, <2>1
  <2> QED
    BY <2>2, ColumnsNamed
<1>7. Named(t, {"expense_id", "user_id", "share_cents"})
  BY <1>3, <1>5 DEF Named, plain
<1> QED
  BY <1>7

LEMMA SubscriptionsHead ==
  /\ Named("subscriptions", {"id", "user_id", "monthly_amount_cents", "started_at", "renewed_at",
                              "cancelled_at", "provider", "plan", "status", "currency",
                              "paywall_source"})
  /\ Keep(Rev(3)["subscriptions"], Column("provider", 20))
  /\ Keep(Rev(3)["subscriptions"], Column("plan", 20))
  /\ Keep(Rev(3)["subscriptions"], Column("status", 20))
  /\ Keep(Rev(3)["subscriptions"], Column("currency", 3))
  /\ Keep(Rev(3)["subscriptions"], Column("paywall_source", 40))
<1> DEFINE t == "subscriptions"
           v == 2
           i == 4
           plain == {"id", "user_id", "monthly_amount_cents", "started_at", "renewed_at",
                    "cancelled_at"}
           text == [provider |-> 20, plan |-> 20, status |-> 20, currency |-> 3, paywall_source |-> 40]
           keys == UserKey
           checks == [provider |-> {"razorpay", "stripe"}, plan |-> {"free", "pro", "family"}, status |-> {"trialing", "active", "past_due", "cancelled", "expired"}]
<1>1. Advanced_Money[i] = Create(t, plain, text, keys, checks)
  BY DEF Advanced_Money
<1>2. i \in 1..Len(Advanced_Money) /\ t \in Tables /\ PartOf(Advanced_Money, v) /\ v \in 1..3 /\ 3 \in v..3
  BY Advanced_MoneyReads, TablesHave, UpParts
<1>3. DOMAIN text = {"provider", "plan", "status", "currency", "paywall_source"}
  OBVIOUS
<1>4. /\ text["provider"] = 20
      /\ text["plan"] = 20
      /\ text["status"] = 20
      /\ text["currency"] = 3
      /\ text["paywall_source"] = 40
  OBVIOUS
<1> HIDE DEF i, plain, text, keys, checks, v
<1>5. /\ Named(t, plain \cup DOMAIN text)
      /\ \A n \in DOMAIN text : Keep(Rev(3)[t], Column(n, text[n]))
  <2>1. \A w \in v..3 : \A o \in Columns(plain, text) : Keep(Rev(w)[t], o)
    BY <1>1, <1>2, Created
  <2>2. \A o \in Columns(plain, text) : Keep(Rev(3)[t], o)
    BY <1>2, <2>1
  <2> QED
    BY <2>2, ColumnsNamed
<1>6. /\ Keep(Rev(3)[t], Column("provider", 20))
      /\ Keep(Rev(3)[t], Column("plan", 20))
      /\ Keep(Rev(3)[t], Column("status", 20))
      /\ Keep(Rev(3)[t], Column("currency", 3))
      /\ Keep(Rev(3)[t], Column("paywall_source", 40))
  BY <1>3, <1>4, <1>5
<1>7. Named(t, {"id", "user_id", "monthly_amount_cents", "started_at", "renewed_at",
                   "cancelled_at", "provider", "plan", "status", "currency",
                   "paywall_source"})
  BY <1>3, <1>5 DEF Named, plain
<1> QED
  BY <1>6, <1>7

LEMMA RemindersHead ==
  /\ Named("reminders", {"id", "trip_id", "body", "fire_at", "created_at", "fired_at",
                          "title", "kind"})
  /\ Keep(Rev(3)["reminders"], Column("title", 120))
  /\ Keep(Rev(3)["reminders"], Column("kind", 20))
<1> DEFINE t == "reminders"
           v == 2
           i == 6
           plain == {"id", "trip_id", "body", "fire_at", "created_at", "fired_at"}
           text == [title |-> 120, kind |-> 20]
           keys == TripKey
           checks == None
<1>1. Advanced_Money[i] = Create(t, plain, text, keys, checks)
  BY DEF Advanced_Money
<1>2. i \in 1..Len(Advanced_Money) /\ t \in Tables /\ PartOf(Advanced_Money, v) /\ v \in 1..3 /\ 3 \in v..3
  BY Advanced_MoneyReads, TablesHave, UpParts
<1>3. DOMAIN text = {"title", "kind"}
  OBVIOUS
<1>4. /\ text["title"] = 120
      /\ text["kind"] = 20
  OBVIOUS
<1> HIDE DEF i, plain, text, keys, checks, v
<1>5. /\ Named(t, plain \cup DOMAIN text)
      /\ \A n \in DOMAIN text : Keep(Rev(3)[t], Column(n, text[n]))
  <2>1. \A w \in v..3 : \A o \in Columns(plain, text) : Keep(Rev(w)[t], o)
    BY <1>1, <1>2, Created
  <2>2. \A o \in Columns(plain, text) : Keep(Rev(3)[t], o)
    BY <1>2, <2>1
  <2> QED
    BY <2>2, ColumnsNamed
<1>6. /\ Keep(Rev(3)[t], Column("title", 120))
      /\ Keep(Rev(3)[t], Column("kind", 20))
  BY <1>3, <1>4, <1>5
<1>7. Named(t, {"id", "trip_id", "body", "fire_at", "created_at", "fired_at",
                   "title", "kind"})
  BY <1>3, <1>5 DEF Named, plain
<1> QED
  BY <1>6, <1>7

LEMMA EventsHead ==
  /\ Named("events", {"user_id", "name", "properties", "created_at", "session_id",
                       "trip_id"})
<1> DEFINE t == "events"
           v == 2
           i == 1
           plain == {"user_id", "name", "properties", "created_at", "session_id",
                    "trip_id"}
           text == None
           keys == TripUserKeys
           checks == None
<1>1. Advanced_Telemetry[i] = Create(t, plain, text, keys, checks)
  BY DEF Advanced_Telemetry
<1>2. i \in 1..Len(Advanced_Telemetry) /\ t \in Tables /\ PartOf(Advanced_Telemetry, v) /\ v \in 1..3 /\ 3 \in v..3
  BY Advanced_TelemetryReads, TablesHave, UpParts
<1>3. DOMAIN text = {}
  BY DEF None
<1> HIDE DEF i, plain, text, keys, checks, v
<1>5. /\ Named(t, plain \cup DOMAIN text)
      /\ \A n \in DOMAIN text : Keep(Rev(3)[t], Column(n, text[n]))
  <2>1. \A w \in v..3 : \A o \in Columns(plain, text) : Keep(Rev(w)[t], o)
    BY <1>1, <1>2, Created
  <2>2. \A o \in Columns(plain, text) : Keep(Rev(3)[t], o)
    BY <1>2, <2>1
  <2> QED
    BY <2>2, ColumnsNamed
<1>7. Named(t, {"user_id", "name", "properties", "created_at", "session_id",
                   "trip_id"})
  BY <1>3, <1>5 DEF Named, plain
<1> QED
  BY <1>7

LEMMA CallsHead ==
  /\ Named("maps_provider_calls", {"provider", "endpoint", "duration_ms", "status", "created_at"})
<1> DEFINE t == "maps_provider_calls"
           v == 2
           i == 4
           plain == {"provider", "endpoint", "duration_ms", "status", "created_at"}
           text == None
           keys == None
           checks == None
<1>1. Advanced_Telemetry[i] = Create(t, plain, text, keys, checks)
  BY DEF Advanced_Telemetry
<1>2. i \in 1..Len(Advanced_Telemetry) /\ t \in Tables /\ PartOf(Advanced_Telemetry, v) /\ v \in 1..3 /\ 3 \in v..3
  BY Advanced_TelemetryReads, TablesHave, UpParts
<1>3. DOMAIN text = {}
  BY DEF None
<1> HIDE DEF i, plain, text, keys, checks, v
<1>5. /\ Named(t, plain \cup DOMAIN text)
      /\ \A n \in DOMAIN text : Keep(Rev(3)[t], Column(n, text[n]))
  <2>1. \A w \in v..3 : \A o \in Columns(plain, text) : Keep(Rev(w)[t], o)
    BY <1>1, <1>2, Created
  <2>2. \A o \in Columns(plain, text) : Keep(Rev(3)[t], o)
    BY <1>2, <2>1
  <2> QED
    BY <2>2, ColumnsNamed
<1>7. Named(t, {"provider", "endpoint", "duration_ms", "status", "created_at"})
  BY <1>3, <1>5 DEF Named, plain
<1> QED
  BY <1>7

-----------------------------------------------------------------------------
(* The CHECKs of the head.                                                 *)

\* The check a is one the upgrades give the table t.
Guard(t, a) ==
  /\ t = "trips" => a = Check("status", {"planned", "active", "ended", "cancelled"})
  /\ t = "messages" => a = Check("kind", {"text", "system", "arrival", "leave", "join"})
  /\ t = "safety_alerts" =>
       \/ a = Check("kind", {"sos", "crash", "stranded", "speed", "fatigue"})
       \/ a = Check("severity", {"info", "warning", "critical"})
  /\ t = "subscriptions" =>
       \/ a = Check("provider", {"razorpay", "stripe"})
       \/ a = Check("plan", {"free", "pro", "family"})
       \/ a = Check("status", {"trialing", "active", "past_due", "cancelled", "expired"})
Guards(s) == \A t, a : Gives(s, t, a) /\ a.is = "check" => Guard(t, a)
Guarded(ss) == \A i \in 1..Len(ss) : Guards(ss[i])

LEMMA ElsewhereGuards ==
  ASSUME NEW s, s.on \notin {"trips", "messages", "safety_alerts", "subscriptions"}
  PROVE  Guards(s)
BY DEF Guards, Gives, Guard

LEMMA ElsewhereGuarded ==
  ASSUME NEW ss, NEW X, About(ss, X),
         X \cap {"trips", "messages", "safety_alerts", "subscriptions"} = {}
  PROVE  Guarded(ss)
BY ElsewhereGuards DEF Guarded, About

LEMMA AddsGuards ==
  ASSUME NEW s, NEW t, NEW a, Adds(s, t, a), a.is # "check"
  PROVE  Guards(s)
BY DEF Guards, Gives, Adds

LEMMA CreateGuards ==
  ASSUME NEW t, NEW plain, NEW text, NEW keys, NEW allowed,
         \A c \in DOMAIN allowed : Guard(t, Check(c, allowed[c]))
  PROVE  Guards(Create(t, plain, text, keys, allowed))
<1> DEFINE s == Create(t, plain, text, keys, allowed)
<1>1. /\ s.on = t
      /\ s.shape = Columns(plain, text) \cup {Reference(c, keys[c]) : c \in DOMAIN keys}
                     \cup {Check(c, allowed[c]) : c \in DOMAIN allowed}
  BY DEF Create
<1>2. \A a \in Columns(plain, text) : a.is = "column"
  BY DEF Columns, Column
<1>3. \A a \in {Reference(c, keys[c]) : c \in DOMAIN keys} : a.is = "fk"
  BY DEF Reference
<1>4. \A a \in {Check(c, allowed[c]) : c \in DOMAIN allowed} : Guard(t, a)
  OBVIOUS
<1> HIDE DEF s
<1>5. \A a \in s.shape : a.is = "check" => Guard(t, a)
  BY <1>1, <1>2, <1>3, <1>4
<1> QED
  BY <1>1, <1>5 DEF Guards, Gives, s

LEMMA GuardedJoin ==
  ASSUME NEW a, NEW b, IsSeq(a), IsSeq(b), Guarded(a), Guarded(b)
  PROVE  Guarded(a \o b)
<1>1. ASSUME NEW i \in 1..Len(a \o b) PROVE Guards((a \o b)[i])
  <2> DEFINE x == (a \o b)[i]
  <2>1. \/ i \in 1..Len(a) /\ x = a[i]
        \/ \E j \in 1..Len(b) : i = Len(a) + j /\ x = b[j]
    BY JoinedAt
  <2> HIDE DEF x
  <2> QED
    BY <2>1 DEF Guarded, x
<1> QED
  BY <1>1 DEF Guarded

LEMMA IndexIs ==
  /\ \A n : Index(n).is # "check"
  /\ \A n, w : Column(n, w).is # "check"
BY DEF Index, Column

LEMMA Initial_TripsGuarded == Guarded(Initial_Trips)
<1> DEFINE ss == Initial_Trips
           keys == [owner_id |-> "users"]
           checks == [status |-> {"planned", "active", "ended", "cancelled"}]
<1>1. Guards(ss[2])
  <2>1. ss[2] = Create("trips", {"id", "owner_id", "start_at", "end_at", "created_at"},
                       [name |-> 120, status |-> 20, join_code |-> 6], keys, checks)
    BY DEF Initial_Trips
  <2>2. \A c \in DOMAIN checks : Guard("trips", Check(c, checks[c]))
    BY DEF Guard
  <2> HIDE DEF keys, checks, ss
  <2> QED
    BY <2>1, <2>2, CreateGuards
<1>2. /\ Len(ss) = 5 /\ ss[1].on = "users" /\ ss[4].on = "trip_members"
      /\ ss[5].on = "trip_members" /\ Adds(ss[3], "trips", Index("ix_trips_owner_id"))
  BY Initial_TripsReads DEF Makes, Adds
<1> HIDE DEF ss
<1>3. Guards(ss[1]) /\ Guards(ss[4]) /\ Guards(ss[5])
  BY <1>2, ElsewhereGuards
<1>4. Guards(ss[3])
  BY <1>2, AddsGuards, IndexIs
<1>5. \A i \in 1..5 : i \in {1, 2, 3, 4, 5}
  OBVIOUS
<1> QED
  BY <1>1, <1>2, <1>3, <1>4, <1>5 DEF Guarded, ss

LEMMA Initial_RestGuarded == Guarded(Initial_Rest)
<1> DEFINE ss == Initial_Rest
           checks == [kind |-> {"text", "system", "arrival", "leave", "join"}]
<1>1. Guards(ss[5])
  <2>1. ss[5] = Create("messages", {"id", "trip_id", "user_id", "body", "sent_at"},
                       [kind |-> 20], TripUserKeys, checks)
    BY DEF Initial_Rest
  <2>2. \A c \in DOMAIN checks : Guard("messages", Check(c, checks[c]))
    BY DEF Guard
  <2> HIDE DEF checks, ss
  <2> QED
    BY <2>1, <2>2, CreateGuards
<1>2. /\ Len(ss) = 10
      /\ \A i \in {1, 2, 3, 4, 7, 8, 9, 10} : ss[i].on \in {"waypoints", "devices", "locations"}
      /\ Adds(ss[6], "messages", Index("ix_messages_trip_sent"))
  BY Initial_RestReads DEF Makes, Adds
<1> HIDE DEF ss
<1>3. \A i \in {1, 2, 3, 4, 7, 8, 9, 10} : Guards(ss[i])
  BY <1>2, ElsewhereGuards
<1>4. Guards(ss[6])
  BY <1>2, AddsGuards, IndexIs
<1>5. \A i \in 1..10 : i \in {1, 2, 3, 4, 7, 8, 9, 10} \/ i = 5 \/ i = 6
  OBVIOUS
<1> QED
  BY <1>1, <1>2, <1>3, <1>4, <1>5 DEF Guarded, ss

LEMMA Advanced_TripsGuarded == Guarded(Advanced_Trips)
<1>1. \A i \in 1..2 : i \in {1, 2}
  OBVIOUS
<1> QED
  BY <1>1, Advanced_TripsReads, AddsGuards, IndexIs DEF Guarded

LEMMA Advanced_SafetyGuarded == Guarded(Advanced_Safety)
<1> DEFINE ss == Advanced_Safety
           checks == [kind |-> {"sos", "crash", "stranded", "speed", "fatigue"},
                      severity |-> {"info", "warning", "critical"}]
<1>1. Guards(ss[1])
  <2>1. ss[1] = Create("safety_alerts", {"id", "trip_id", "user_id", "details", "created_at",
                                         "acknowledged_at"}, [kind |-> 20, severity |-> 20],
                       TripUserKeys, checks)
    BY DEF Advanced_Safety
  <2>2. \A c \in DOMAIN checks : Guard("safety_alerts", Check(c, checks[c]))
    BY DEF Guard
  <2> HIDE DEF checks, ss
  <2> QED
    BY <2>1, <2>2, CreateGuards
<1>2. /\ Len(ss) = 7
      /\ \A i \in {3, 4, 5, 6, 7} : ss[i].on \in {"audit_logs", "subgroups", "trip_members"}
      /\ Adds(ss[2], "safety_alerts", Index("ix_safety_alerts_trip_created"))
  BY Advanced_SafetyReads DEF Makes, Adds
<1> HIDE DEF ss
<1>3. \A i \in {3, 4, 5, 6, 7} : Guards(ss[i])
  BY <1>2, ElsewhereGuards
<1>4. Guards(ss[2])
  BY <1>2, AddsGuards, IndexIs
<1>5. \A i \in 1..7 : i \in {3, 4, 5, 6, 7} \/ i = 1 \/ i = 2
  OBVIOUS
<1> QED
  BY <1>1, <1>2, <1>3, <1>4, <1>5 DEF Guarded, ss

LEMMA Advanced_MoneyGuarded == Guarded(Advanced_Money)
<1> DEFINE ss == Advanced_Money
           checks == [provider |-> {"razorpay", "stripe"}, plan |-> {"free", "pro", "family"},
                      status |-> {"trialing", "active", "past_due", "cancelled", "expired"}]
<1>1. Guards(ss[4])
  <2>1. ss[4] = Create("subscriptions", {"id", "user_id", "monthly_amount_cents", "started_at",
                                         "renewed_at", "cancelled_at"},
                       [provider |-> 20, plan |-> 20, status |-> 20, currency |-> 3,
                        paywall_source |-> 40], UserKey, checks)
    BY DEF Advanced_Money
  <2>2. \A c \in DOMAIN checks : Guard("subscriptions", Check(c, checks[c]))
    BY DEF Guard
  <2> HIDE DEF checks, ss
  <2> QED
    BY <2>1, <2>2, CreateGuards
<1>2. /\ Len(ss) = 7
      /\ \A i \in {1, 2, 3, 6, 7} : ss[i].on \in {"expenses", "expense_shares", "reminders"}
      /\ Adds(ss[5], "subscriptions", Index("ix_subscriptions_user"))
  BY Advanced_MoneyReads DEF Makes, Adds
<1> HIDE DEF ss
<1>3. \A i \in {1, 2, 3, 6, 7} : Guards(ss[i])
  BY <1>2, ElsewhereGuards
<1>4. Guards(ss[5])
  BY <1>2, AddsGuards, IndexIs
<1>5. \A i \in 1..7 : i \in {1, 2, 3, 6, 7} \/ i = 4 \/ i = 5
  OBVIOUS
<1> QED
  BY <1>1, <1>2, <1>3, <1>4, <1>5 DEF Guarded, ss

LEMMA UpGuarded ==
  ASSUME NEW v \in 1..3
  PROVE  Guarded(Up(v))
<1>1. CASE v = 1
  <2>1. Guarded(Initial_Trips \o Initial_Rest)
    BY Initial_TripsGuarded, Initial_RestGuarded, GuardedJoin, Initial_TripsIs,
       Initial_RestIs DEF GoesUp
  <2> QED
    BY <1>1, <2>1 DEF Up
<1>2. CASE v = 2
  <2> DEFINE m == Advanced_Members
             r == Advanced_Roles
             p == Advanced_Trips
             s == Advanced_Safety
             y == Advanced_Money
             z == Advanced_Telemetry
             G(ss) == IsSeq(ss) /\ Guarded(ss)
  <2>1. /\ IsSeq(m) /\ IsSeq(r) /\ IsSeq(p) /\ IsSeq(s) /\ IsSeq(y) /\ IsSeq(z)
    BY Advanced_MembersIs, Advanced_RolesIs, Advanced_TripsIs, Advanced_SafetyIs,
       Advanced_MoneyIs, Advanced_TelemetryIs DEF GoesUp
  <2>2. Guarded(m) /\ Guarded(r) /\ Guarded(z)
    <3>1. /\ About(m, {"trip_members"}) /\ About(r, {"trip_members"})
          /\ About(z, {"events", "maps_provider_calls"})
      BY Advanced_MembersIs, Advanced_RolesIs, Advanced_TelemetryIs
    <3>2. Guarded(m) /\ Guarded(r)
      <4> DEFINE X == {"trip_members"}
      <4>1. X \cap {"trips", "messages", "safety_alerts", "subscriptions"} = {}
        OBVIOUS
      <4> HIDE DEF X
      <4> QED
        BY <3>1, <4>1, ElsewhereGuarded DEF X
    <3>3. Guarded(z)
      <4> DEFINE X == {"events", "maps_provider_calls"}
      <4>1. X \cap {"trips", "messages", "safety_alerts", "subscriptions"} = {}
        OBVIOUS
      <4> HIDE DEF X
      <4> QED
        BY <3>1, <4>1, ElsewhereGuarded DEF X
    <3> QED
      BY <3>2, <3>3
  <2>3. Guarded(p) /\ Guarded(s) /\ Guarded(y)
    BY Advanced_TripsGuarded, Advanced_SafetyGuarded, Advanced_MoneyGuarded
  <2>4. Up(v) = m \o r \o p \o s \o y \o z
    BY <1>2 DEF Up
  <2>5. G(m) /\ G(r) /\ G(p) /\ G(s) /\ G(y) /\ G(z)
    BY <2>1, <2>2, <2>3
  <2>6. \A a, b : G(a) /\ G(b) => G(a \o b)
    BY GuardedJoin, Joined
  <2> HIDE DEF m, r, p, s, y, z, G
  <2>7. G(m \o r \o p \o s \o y \o z)
    BY <2>5, <2>6
  <2> QED
    BY <2>4, <2>7 DEF G
<1>3. CASE v = 3
  <2> DEFINE X == {"users"}
             ss == IsAdmin
  <2>1. X \cap {"trips", "messages", "safety_alerts", "subscriptions"} = {} /\ About(ss, X)
    BY IsAdminReads DEF About, Adds
  <2> HIDE DEF X, ss
  <2>2. Guarded(ss)
    BY <2>1, ElsewhereGuarded
  <2> QED
    BY <1>3, <2>2 DEF Up, ss
<1> QED
  BY <1>1, <1>2, <1>3

\* Every CHECK of the head is one an upgrade gave its table.
LEMMA HeadGuards ==
  ASSUME NEW t \in Tables, NEW x \in Rev(3)[t], NEW a \in x, a.is = "check"
  PROVE  Guard(t, a)
<1> DEFINE Checked(v) == \A y \in Rev(v)[t] : \A b \in y : b.is = "check" => Guard(t, b)
<1>1. Checked(0)
  <2>1. Rev(0)[t] = {}
    BY RevisionNone DEF Rev
  <2> QED
    BY <2>1
<1>2. ASSUME NEW v \in 1..3, Checked(v - 1)
      PROVE  Checked(v)
  <2> DEFINE ss == Up(v)
             o == Rev(v - 1)[t]
             n == Len(ss)
  <2>1. GoesUp(ss) /\ IsSeq(ss) /\ Guarded(ss)
    BY DownSeq, UpGuarded
  <2>2. Rev(v)[t] = Course(t, o, ss)[n]
    BY RevAfter DEF After, End
  <2>3. n \in 0..Len(ss) /\ \A i \in 1..Len(ss) : UpOnly(ss[i])
    <3>1. Len(ss) \in Nat
      BY <2>1, CourseSteps
    <3> QED
      BY <2>1, <3>1 DEF GoesUp
  <2>4. ASSUME NEW y \in Rev(v)[t], NEW b \in y, b.is = "check"
        PROVE  Guard(t, b)
    <3> HIDE DEF ss, o, n
    <3>1. (\E z \in o : b \in z) \/ (\E i \in 1..n : Gives(ss[i], t, b))
      BY <2>1, <2>2, <2>3, <2>4, CourseOrigin
    <3>2. CASE \E z \in o : b \in z
      BY <1>2, <2>4, <3>2 DEF o
    <3>3. CASE \E i \in 1..n : Gives(ss[i], t, b)
      BY <2>1, <2>4, <3>3 DEF Guarded, Guards, n
    <3> QED
      BY <3>1, <3>2, <3>3
  <2> QED
    BY <2>4
<1> HIDE DEF Checked
<1>3. Checked(3)
  <2>1. 1 \in 1..3 /\ 2 \in 1..3 /\ 3 \in 1..3 /\ 1 - 1 = 0 /\ 2 - 1 = 1 /\ 3 - 1 = 2
    OBVIOUS
  <2>2. Checked(1)
    BY <1>1, <1>2, <2>1
  <2>3. Checked(2)
    BY <1>2, <2>1, <2>2
  <2> QED
    BY <1>2, <2>1, <2>3
<1> QED
  BY <1>3 DEF Checked

-----------------------------------------------------------------------------
(* What the head serves.                                                   *)

\* At the head the table t has a column n, of length w or without bound when w is 0.
HeadHas(t, n) == \E w : Keep(Rev(3)[t], Column(n, w))
\* It has one of at least the length k.
HeadHolds(t, n, k) == \E w : Keep(Rev(3)[t], Column(n, w)) /\ k <= w

LEMMA InIs ==
  ASSUME NEW t, NEW plain, NEW text, NEW c \in In(t, plain, text)
  PROVE  /\ c.on = t
         /\ \/ c.name \in plain /\ c.width = 0
            \/ c.name \in DOMAIN text /\ c.width = text[c.name]
BY DEF In, Columns, Column

LEMMA InServed ==
  ASSUME NEW t \in Tables, NEW plain, NEW text, NEW names, Named(t, names),
         plain \subseteq names, DOMAIN text \subseteq names
  PROVE  \A c \in In(t, plain, text) : c.on \in Tables /\ HeadHas(c.on, c.name)
<1>1. ASSUME NEW c \in In(t, plain, text) PROVE c.on \in Tables /\ HeadHas(c.on, c.name)
  <2>1. c.on = t /\ c.name \in names
    BY InIs
  <2> QED
    BY <2>1 DEF Named, HeadHas
<1> QED
  BY <1>1

LEMMA LimitServed ==
  ASSUME NEW t \in Tables, NEW text, \A n \in DOMAIN text : HeadHolds(t, n, text[n])
  PROVE  \A c \in Limits(t, text) : c.on \in Tables /\ HeadHolds(c.on, c.name, c.width)
BY InIs DEF Limits

LEMMA OrmServed == \A c \in Orm : c.on \in Tables /\ HeadHas(c.on, c.name)
<1> DEFINE Served(C) == \A c \in C : c.on \in Tables /\ HeadHas(c.on, c.name)
<1>1. Served(OrmUser)
  <2> DEFINE t == "users"
             plain == {"id", "is_admin", "created_at"}
             text == [phone |-> 20, display_name |-> 80, avatar_url |-> 500]
             names == {"id", "created_at", "phone", "display_name", "avatar_url",
                       "is_admin"}
  <2>1. t \in Tables /\ Named(t, names) /\ plain \subseteq names /\ DOMAIN text \subseteq names
    <3>1. t \in Tables /\ Named(t, names)
      BY TablesHave, UsersHead
    <3>2. plain \subseteq names /\ DOMAIN text \subseteq names
      BY DEF None
    <3> QED
      BY <3>1, <3>2
  <2>2. OrmUser = In(t, plain, text)
    BY DEF OrmUser
  <2> HIDE DEF t, plain, text, names
  <2> QED
    BY <2>1, <2>2, InServed
<1>2. Served(OrmTrip)
  <2> DEFINE t == "trips"
             plain == {"id", "owner_id", "start_at", "end_at", "created_at"}
             text == [name |-> 120, status |-> 20, join_code |-> 6, template |-> 40,
                     cover_color |-> 9]
             names == {"id", "owner_id", "start_at", "end_at", "created_at", "name",
                       "status", "join_code", "template", "cover_color"}
  <2>1. t \in Tables /\ Named(t, names) /\ plain \subseteq names /\ DOMAIN text \subseteq names
    <3>1. t \in Tables /\ Named(t, names)
      BY TablesHave, TripsHead
    <3>2. plain \subseteq names /\ DOMAIN text \subseteq names
      BY DEF None
    <3> QED
      BY <3>1, <3>2
  <2>2. OrmTrip = In(t, plain, text)
    BY DEF OrmTrip
  <2> HIDE DEF t, plain, text, names
  <2> QED
    BY <2>1, <2>2, InServed
<1>3. Served(OrmTripMember)
  <2> DEFINE t == "trip_members"
             plain == {"trip_id", "user_id", "joined_at", "left_at", "ghost_mode",
                      "is_ready", "visibility_scope", "share_until", "subgroup_id"}
             text == [role |-> 20, color |-> 9, vehicle_label |-> 40]
             names == {"trip_id", "user_id", "joined_at", "left_at", "ghost_mode", "role",
                       "color", "visibility_scope", "share_until", "is_ready",
                       "vehicle_label", "subgroup_id"}
  <2>1. t \in Tables /\ Named(t, names) /\ plain \subseteq names /\ DOMAIN text \subseteq names
    <3>1. t \in Tables /\ Named(t, names)
      BY TablesHave, MembersHead
    <3>2. plain \subseteq names /\ DOMAIN text \subseteq names
      BY DEF None
    <3> QED
      BY <3>1, <3>2
  <2>2. OrmTripMember = In(t, plain, text)
    BY DEF OrmTripMember
  <2> HIDE DEF t, plain, text, names
  <2> QED
    BY <2>1, <2>2, InServed
<1>4. Served(OrmWaypoint)
  <2> DEFINE t == "waypoints"
             plain == {"id", "trip_id", "position", "geom", "arrival_radius_m",
                      "created_at"}
             text == [name |-> 120]
             names == {"id", "trip_id", "position", "arrival_radius_m", "created_at",
                       "name", "geom"}
  <2>1. t \in Tables /\ Named(t, names) /\ plain \subseteq names /\ DOMAIN text \subseteq names
    <3>1. t \in Tables /\ Named(t, names)
      BY TablesHave, WaypointsHead
    <3>2. plain \subseteq names /\ DOMAIN text \subseteq names
      BY DEF None
    <3> QED
      BY <3>1, <3>2
  <2>2. OrmWaypoint = In(t, plain, text)
    BY DEF OrmWaypoint
  <2> HIDE DEF t, plain, text, names
  <2> QED
    BY <2>1, <2>2, InServed
<1>5. Served(OrmMessage)
  <2> DEFINE t == "messages"
             plain == {"id", "trip_id", "user_id", "body", "sent_at"}
             text == [kind |-> 20]
             names == {"id", "trip_id", "user_id", "body", "sent_at", "kind"}
  <2>1. t \in Tables /\ Named(t, names) /\ plain \subseteq names /\ DOMAIN text \subseteq names
    <3>1. t \in Tables /\ Named(t, names)
      BY TablesHave, MessagesHead
    <3>2. plain \subseteq names /\ DOMAIN text \subseteq names
      BY DEF None
    <3> QED
      BY <3>1, <3>2
  <2>2. OrmMessage = In(t, plain, text)
    BY DEF OrmMessage
  <2> HIDE DEF t, plain, text, names
  <2> QED
    BY <2>1, <2>2, InServed
<1>6. Served(OrmDevice)
  <2> DEFINE t == "devices"
             plain == {"id", "user_id", "last_seen_at"}
             text == [fcm_token |-> 500, platform |-> 10]
             names == {"id", "user_id", "last_seen_at", "fcm_token", "platform"}
  <2>1. t \in Tables /\ Named(t, names) /\ plain \subseteq names /\ DOMAIN text \subseteq names
    <3>1. t \in Tables /\ Named(t, names)
      BY TablesHave, DevicesHead
    <3>2. plain \subseteq names /\ DOMAIN text \subseteq names
      BY DEF None
    <3> QED
      BY <3>1, <3>2
  <2>2. OrmDevice = In(t, plain, text)
    BY DEF OrmDevice
  <2> HIDE DEF t, plain, text, names
  <2> QED
    BY <2>1, <2>2, InServed
<1>7. Served(OrmSafety)
  <2> DEFINE t == "safety_alerts"
             plain == {"id", "trip_id", "user_id", "details", "created_at",
                      "acknowledged_at"}
             text == [kind |-> 20, severity |-> 20]
             names == {"id", "trip_id", "user_id", "details", "created_at",
                       "acknowledged_at", "kind", "severity"}
  <2>1. t \in Tables /\ Named(t, names) /\ plain \subseteq names /\ DOMAIN text \subseteq names
    <3>1. t \in Tables /\ Named(t, names)
      BY TablesHave, AlertsHead
    <3>2. plain \subseteq names /\ DOMAIN text \subseteq names
      BY DEF None
    <3> QED
      BY <3>1, <3>2
  <2>2. OrmSafety = In(t, plain, text)
    BY DEF OrmSafety
  <2> HIDE DEF t, plain, text, names
  <2> QED
    BY <2>1, <2>2, InServed
<1>8. Served(OrmAudit)
  <2> DEFINE t == "audit_logs"
             plain == {"id", "subject_user_id", "actor_user_id", "trip_id", "details",
                      "created_at"}
             text == [action |-> 40]
             names == {"id", "subject_user_id", "actor_user_id", "trip_id", "details",
                       "created_at", "action"}
  <2>1. t \in Tables /\ Named(t, names) /\ plain \subseteq names /\ DOMAIN text \subseteq names
    <3>1. t \in Tables /\ Named(t, names)
      BY TablesHave, AuditHead
    <3>2. plain \subseteq names /\ DOMAIN text \subseteq names
      BY DEF None
    <3> QED
      BY <3>1, <3>2
  <2>2. OrmAudit = In(t, plain, text)
    BY DEF OrmAudit
  <2> HIDE DEF t, plain, text, names
  <2> QED
    BY <2>1, <2>2, InServed
<1>9. Served(OrmSubgroup)
  <2> DEFINE t == "subgroups"
             plain == {"id", "trip_id", "created_at"}
             text == [name |-> 60, color |-> 9]
             names == {"id", "trip_id", "created_at", "name", "color"}
  <2>1. t \in Tables /\ Named(t, names) /\ plain \subseteq names /\ DOMAIN text \subseteq names
    <3>1. t \in Tables /\ Named(t, names)
      BY TablesHave, SubgroupsHead
    <3>2. plain \subseteq names /\ DOMAIN text \subseteq names
      BY DEF None
    <3> QED
      BY <3>1, <3>2
  <2>2. OrmSubgroup = In(t, plain, text)
    BY DEF OrmSubgroup
  <2> HIDE DEF t, plain, text, names
  <2> QED
    BY <2>1, <2>2, InServed
<1>10. Served(In("expenses", {"id", "trip_id", "paid_by", "amount_cents", "created_at"},
                  [description |-> 200, currency |-> 3, category |-> 20]))
  <2> DEFINE t == "expenses"
             plain == {"id", "trip_id", "paid_by", "amount_cents", "created_at"}
             text == [description |-> 200, currency |-> 3, category |-> 20]
             names == {"id", "trip_id", "paid_by", "amount_cents", "created_at",
                       "description", "currency", "category"}
  <2>1. t \in Tables /\ Named(t, names) /\ plain \subseteq names /\ DOMAIN text \subseteq names
    <3>1. t \in Tables /\ Named(t, names)
      BY TablesHave, ExpensesHead
    <3>2. plain \subseteq names /\ DOMAIN text \subseteq names
      BY DEF None
    <3> QED
      BY <3>1, <3>2
  <2> HIDE DEF t, plain, text, names
  <2> QED
    BY <2>1, InServed DEF t, plain, text
<1>11. Served(In("expense_shares", {"expense_id", "user_id", "share_cents"}, None))
  <2> DEFINE t == "expense_shares"
             plain == {"expense_id", "user_id", "share_cents"}
             text == None
             names == {"expense_id", "user_id", "share_cents"}
  <2>1. t \in Tables /\ Named(t, names) /\ plain \subseteq names /\ DOMAIN text \subseteq names
    <3>1. t \in Tables /\ Named(t, names)
      BY TablesHave, SharesHead
    <3>2. plain \subseteq names /\ DOMAIN text \subseteq names
      BY DEF None
    <3> QED
      BY <3>1, <3>2
  <2> HIDE DEF t, plain, text, names
  <2> QED
    BY <2>1, InServed DEF t, plain, text
<1>12. Served(OrmSubscription)
  <2> DEFINE t == "subscriptions"
             plain == {"id", "user_id", "monthly_amount_cents", "started_at", "renewed_at",
                      "cancelled_at"}
             text == [provider |-> 20, plan |-> 20, status |-> 20, currency |-> 3,
                     paywall_source |-> 40]
             names == {"id", "user_id", "monthly_amount_cents", "started_at", "renewed_at",
                       "cancelled_at", "provider", "plan", "status", "currency",
                       "paywall_source"}
  <2>1. t \in Tables /\ Named(t, names) /\ plain \subseteq names /\ DOMAIN text \subseteq names
    <3>1. t \in Tables /\ Named(t, names)
      BY TablesHave, SubscriptionsHead
    <3>2. plain \subseteq names /\ DOMAIN text \subseteq names
      BY DEF None
    <3> QED
      BY <3>1, <3>2
  <2>2. OrmSubscription = In(t, plain, text)
    BY DEF OrmSubscription
  <2> HIDE DEF t, plain, text, names
  <2> QED
    BY <2>1, <2>2, InServed
<1>13. Served(OrmReminder)
  <2> DEFINE t == "reminders"
             plain == {"id", "trip_id", "body", "fire_at", "created_at", "fired_at"}
             text == [title |-> 120, kind |-> 20]
             names == {"id", "trip_id", "body", "fire_at", "created_at", "fired_at",
                       "title", "kind"}
  <2>1. t \in Tables /\ Named(t, names) /\ plain \subseteq names /\ DOMAIN text \subseteq names
    <3>1. t \in Tables /\ Named(t, names)
      BY TablesHave, RemindersHead
    <3>2. plain \subseteq names /\ DOMAIN text \subseteq names
      BY DEF None
    <3> QED
      BY <3>1, <3>2
  <2>2. OrmReminder = In(t, plain, text)
    BY DEF OrmReminder
  <2> HIDE DEF t, plain, text, names
  <2> QED
    BY <2>1, <2>2, InServed
<1> HIDE DEF Served
<1>90. Served(OrmExpense)
  BY <1>10, <1>11 DEF OrmExpense, Served
<1>91. Served(Orm)
  BY <1>1, <1>2, <1>3, <1>4, <1>5, <1>6, <1>7, <1>8, <1>9, <1>12, <1>13, <1>90
  DEF Orm, Served
<1> QED
  BY <1>91 DEF Served

LEMMA SqlServed ==
  \A c \in SqlLocations \cup SqlEvents \cup SqlMapsHealth :
    c.on \in Tables /\ HeadHas(c.on, c.name)
<1> DEFINE Served(C) == \A c \in C : c.on \in Tables /\ HeadHas(c.on, c.name)
<1>1. Served(SqlLocations)
  <2> DEFINE t == "locations"
             plain == {"user_id", "trip_id", "geom", "heading", "speed_mps", "battery_pct",
                      "recorded_at"}
             text == None
             names == {"user_id", "trip_id", "geom", "heading", "speed_mps", "battery_pct",
                       "recorded_at"}
  <2>1. t \in Tables /\ Named(t, names) /\ plain \subseteq names /\ DOMAIN text \subseteq names
    <3>1. t \in Tables /\ Named(t, names)
      BY TablesHave, LocationsHead
    <3>2. plain \subseteq names /\ DOMAIN text \subseteq names
      BY DEF None
    <3> QED
      BY <3>1, <3>2
  <2>2. SqlLocations = In(t, plain, text)
    BY DEF SqlLocations
  <2> HIDE DEF t, plain, text, names
  <2> QED
    BY <2>1, <2>2, InServed
<1>2. Served(SqlEvents)
  <2> DEFINE t == "events"
             plain == {"user_id", "name", "properties", "created_at", "session_id",
                      "trip_id"}
             text == None
             names == {"user_id", "name", "properties", "created_at", "session_id",
                       "trip_id"}
  <2>1. t \in Tables /\ Named(t, names) /\ plain \subseteq names /\ DOMAIN text \subseteq names
    <3>1. t \in Tables /\ Named(t, names)
      BY TablesHave, EventsHead
    <3>2. plain \subseteq names /\ DOMAIN text \subseteq names
      BY DEF None
    <3> QED
      BY <3>1, <3>2
  <2>2. SqlEvents = In(t, plain, text)
    BY DEF SqlEvents
  <2> HIDE DEF t, plain, text, names
  <2> QED
    BY <2>1, <2>2, InServed
<1>3. Served(SqlMapsHealth)
  <2> DEFINE t == "maps_provider_calls"
             plain == {"provider", "duration_ms", "status", "created_at"}
             text == None
             names == {"provider", "endpoint", "duration_ms", "status", "created_at"}
  <2>1. t \in Tables /\ Named(t, names) /\ plain \subseteq names /\ DOMAIN text \subseteq names
    <3>1. t \in Tables /\ Named(t, names)
      BY TablesHave, CallsHead
    <3>2. plain \subseteq names /\ DOMAIN text \subseteq names
      BY DEF None
    <3> QED
      BY <3>1, <3>2
  <2>2. SqlMapsHealth = In(t, plain, text)
    BY DEF SqlMapsHealth
  <2> HIDE DEF t, plain, text, names
  <2> QED
    BY <2>1, <2>2, InServed
<1> QED
  BY <1>1, <1>2, <1>3

LEMMA LimitsServed ==
  \A c \in RequestLimits : c.on \in Tables /\ HeadHolds(c.on, c.name, c.width)
<1> DEFINE Held(C) == \A c \in C : c.on \in Tables /\ HeadHolds(c.on, c.name, c.width)
<1>1. Held(PhoneLimits)
  <2> DEFINE t == "users"
             text == [phone |-> 20]
  <2>1. PhoneLimits = Limits(t, text)
    BY DEF PhoneLimits
  <2>2. t \in Tables /\ DOMAIN text = {"phone"}
    BY TablesHave
  <2>3. Keep(Rev(3)[t], Column("phone", 20)) /\ text["phone"] = 20
    BY UsersHead
  <2>4. \A n \in DOMAIN text : HeadHolds(t, n, text[n])
    <3> HIDE DEF t, text
    <3> QED
      BY <2>2, <2>3 DEF HeadHolds
  <2> HIDE DEF t, text
  <2> QED
    BY <2>1, <2>2, <2>4, LimitServed
<1>2. Held(ProfileLimits)
  <2> DEFINE t == "users"
             text == [display_name |-> 80, avatar_url |-> 500]
  <2>1. ProfileLimits = Limits(t, text)
    BY DEF ProfileLimits
  <2>2. t \in Tables /\ DOMAIN text = {"display_name", "avatar_url"}
    BY TablesHave
  <2>3. Keep(Rev(3)[t], Column("display_name", 80)) /\ text["display_name"] = 80
    BY UsersHead
  <2>4. Keep(Rev(3)[t], Column("avatar_url", 500)) /\ text["avatar_url"] = 500
    BY UsersHead
  <2>5. \A n \in DOMAIN text : HeadHolds(t, n, text[n])
    <3> HIDE DEF t, text
    <3> QED
      BY <2>2, <2>3, <2>4 DEF HeadHolds
  <2> HIDE DEF t, text
  <2> QED
    BY <2>1, <2>2, <2>5, LimitServed
<1>3. Held(TripLimits)
  <2> DEFINE t == "trips"
             text == [name |-> 120]
  <2>1. TripLimits = Limits(t, text)
    BY DEF TripLimits
  <2>2. t \in Tables /\ DOMAIN text = {"name"}
    BY TablesHave
  <2>3. Keep(Rev(3)[t], Column("name", 120)) /\ text["name"] = 120
    BY TripsHead
  <2>4. \A n \in DOMAIN text : HeadHolds(t, n, text[n])
    <3> HIDE DEF t, text
    <3> QED
      BY <2>2, <2>3 DEF HeadHolds
  <2> HIDE DEF t, text
  <2> QED
    BY <2>1, <2>2, <2>4, LimitServed
<1>4. Held(JoinCodeLimits)
  <2> DEFINE t == "trips"
             text == [join_code |-> 6]
  <2>1. JoinCodeLimits = Limits(t, text)
    BY DEF JoinCodeLimits
  <2>2. t \in Tables /\ DOMAIN text = {"join_code"}
    BY TablesHave
  <2>3. Keep(Rev(3)[t], Column("join_code", 6)) /\ text["join_code"] = 6
    BY TripsHead
  <2>4. \A n \in DOMAIN text : HeadHolds(t, n, text[n])
    <3> HIDE DEF t, text
    <3> QED
      BY <2>2, <2>3 DEF HeadHolds
  <2> HIDE DEF t, text
  <2> QED
    BY <2>1, <2>2, <2>4, LimitServed
<1>5. Held(WaypointLimits)
  <2> DEFINE t == "waypoints"
             text == [name |-> 120]
  <2>1. WaypointLimits = Limits(t, text)
    BY DEF WaypointLimits
  <2>2. t \in Tables /\ DOMAIN text = {"name"}
    BY TablesHave
  <2>3. Keep(Rev(3)[t], Column("name", 120)) /\ text["name"] = 120
    BY WaypointsHead
  <2>4. \A n \in DOMAIN text : HeadHolds(t, n, text[n])
    <3> HIDE DEF t, text
    <3> QED
      BY <2>2, <2>3 DEF HeadHolds
  <2> HIDE DEF t, text
  <2> QED
    BY <2>1, <2>2, <2>4, LimitServed
<1>6. Held(DeviceLimits)
  <2> DEFINE t == "devices"
             text == [fcm_token |-> 500, platform |-> 7]
  <2>1. DeviceLimits = Limits(t, text)
    BY DEF DeviceLimits
  <2>2. t \in Tables /\ DOMAIN text = {"fcm_token", "platform"}
    BY TablesHave
  <2>3. Keep(Rev(3)[t], Column("fcm_token", 500)) /\ text["fcm_token"] = 500
    BY DevicesHead
  <2>4. Keep(Rev(3)[t], Column("platform", 10)) /\ text["platform"] = 7
    BY DevicesHead
  <2>5. \A n \in DOMAIN text : HeadHolds(t, n, text[n])
    <3> HIDE DEF t, text
    <3> QED
      BY <2>2, <2>3, <2>4 DEF HeadHolds
  <2> HIDE DEF t, text
  <2> QED
    BY <2>1, <2>2, <2>5, LimitServed
<1>7. Held(ExpenseLimits)
  <2> DEFINE t == "expenses"
             text == [description |-> 200, currency |-> 3, category |-> 20]
  <2>1. ExpenseLimits = Limits(t, text)
    BY DEF ExpenseLimits
  <2>2. t \in Tables /\ DOMAIN text = {"description", "currency", "category"}
    BY TablesHave
  <2>3. Keep(Rev(3)[t], Column("description", 200)) /\ text["description"] = 200
    BY ExpensesHead
  <2>4. Keep(Rev(3)[t], Column("currency", 3)) /\ text["currency"] = 3
    BY ExpensesHead
  <2>5. Keep(Rev(3)[t], Column("category", 20)) /\ text["category"] = 20
    BY ExpensesHead
  <2>6. \A n \in DOMAIN text : HeadHolds(t, n, text[n])
    <3> HIDE DEF t, text
    <3> QED
      BY <2>2, <2>3, <2>4, <2>5 DEF HeadHolds
  <2> HIDE DEF t, text
  <2> QED
    BY <2>1, <2>2, <2>6, LimitServed
<1>8. Held(SubgroupLimits)
  <2> DEFINE t == "subgroups"
             text == [name |-> 60]
  <2>1. SubgroupLimits = Limits(t, text)
    BY DEF SubgroupLimits
  <2>2. t \in Tables /\ DOMAIN text = {"name"}
    BY TablesHave
  <2>3. Keep(Rev(3)[t], Column("name", 60)) /\ text["name"] = 60
    BY SubgroupsHead
  <2>4. \A n \in DOMAIN text : HeadHolds(t, n, text[n])
    <3> HIDE DEF t, text
    <3> QED
      BY <2>2, <2>3 DEF HeadHolds
  <2> HIDE DEF t, text
  <2> QED
    BY <2>1, <2>2, <2>4, LimitServed
<1>9. Held(ReminderLimits)
  <2> DEFINE t == "reminders"
             text == [title |-> 120, kind |-> 20]
  <2>1. ReminderLimits = Limits(t, text)
    BY DEF ReminderLimits
  <2>2. t \in Tables /\ DOMAIN text = {"title", "kind"}
    BY TablesHave
  <2>3. Keep(Rev(3)[t], Column("title", 120)) /\ text["title"] = 120
    BY RemindersHead
  <2>4. Keep(Rev(3)[t], Column("kind", 20)) /\ text["kind"] = 20
    BY RemindersHead
  <2>5. \A n \in DOMAIN text : HeadHolds(t, n, text[n])
    <3> HIDE DEF t, text
    <3> QED
      BY <2>2, <2>3, <2>4 DEF HeadHolds
  <2> HIDE DEF t, text
  <2> QED
    BY <2>1, <2>2, <2>5, LimitServed
<1>10. Held(BillingLimits)
  <2> DEFINE t == "subscriptions"
             text == [currency |-> 3]
  <2>1. BillingLimits = Limits(t, text)
    BY DEF BillingLimits
  <2>2. t \in Tables /\ DOMAIN text = {"currency"}
    BY TablesHave
  <2>3. Keep(Rev(3)[t], Column("currency", 3)) /\ text["currency"] = 3
    BY SubscriptionsHead
  <2>4. \A n \in DOMAIN text : HeadHolds(t, n, text[n])
    <3> HIDE DEF t, text
    <3> QED
      BY <2>2, <2>3 DEF HeadHolds
  <2> HIDE DEF t, text
  <2> QED
    BY <2>1, <2>2, <2>4, LimitServed
<1> HIDE DEF Held
<1>11. Held(RequestLimits)
  BY <1>1, <1>2, <1>3, <1>4, <1>5, <1>6, <1>7, <1>8, <1>9, <1>10 DEF RequestLimits, Held
<1> QED
  BY <1>11 DEF Held

LEMMA MembersSecond == Rev(2)["trip_members"] = {Secondary}
<1> DEFINE t == "trip_members"
<1>1. 2 \in 1..3 /\ 2 - 1 = 1
  OBVIOUS
<1>2. After(Rev(1), Up(2)) = Rev(2)
  BY <1>1, RevAfter
<1>3. After(Rev(1), Up(2))[t] = End(t, {MembersShape}, Up(2))
  BY FirstRev, TablesHave DEF After
<1> QED
  BY <1>2, <1>3, MembersUp

\* At the head trip_members is what the second upgrade made of it.
LEMMA MembersAtHead ==
  /\ Rev(3)["trip_members"] = {Secondary}
  /\ \A a \in Secondary : a.is = "check" => a = RichCheck
<1> DEFINE t == "trip_members"
           X == {"users"}
<1>1. 3 \in 1..3 /\ 3 - 1 = 2
  OBVIOUS
<1>2. Rev(2)[t] = {Secondary}
  BY MembersSecond
<1>3. After(Rev(2), Up(3)) = Rev(3)
  BY <1>1, RevAfter
<1>4. About(Up(3), X) /\ t \notin X /\ IsSeq(Up(3)) /\ t \in Tables
  <2>1. About(IsAdmin, X)
    BY IsAdminReads DEF About, Adds
  <2>2. IsSeq(Up(3))
    BY <1>1, DownSeq
  <2> QED
    BY <2>1, <2>2, TablesHave DEF Up
<1> HIDE DEF X
<1>5. Rev(3)[t] = {Secondary}
  BY <1>2, <1>3, <1>4, AfterRests
<1>6. \A a \in Secondary : a.is = "check" => a = RichCheck
  <2>1. GroupKey.is = "fk"
    BY DEF GroupKey, Reference
  <2> QED
    BY <2>1, GroupedHas DEF Secondary, Enriched, Unchecked
<1> QED
  BY <1>5, <1>6

\* The table t of the head takes w when each of its CHECKs does.
Checked(t, w) == \A x \in Rev(3)[t] : \A a \in x : a.is = "check" => Allowed(w, a)

LEMMA HeadAt ==
  ASSUME NEW t \in Tables, NEW a, Keep(Rev(3)[t], a)
  PROVE  /\ t \in DOMAIN Revision[3] /\ a \in Revision[3][t]
         /\ Rev(3)[t] = {Revision[3][t]}
BY DEF Rev, At, Keep

LEMMA HeadTakes ==
  ASSUME NEW t \in Tables, NEW n, NEW k \in Nat, 10 <= k, Keep(Rev(3)[t], Column(n, k)),
         NEW w, w.on = t, w.column = n, Len(w.value) \in 0..10, Checked(t, w)
  PROVE  Accept(Revision[3], w)
<1> DEFINE o == Column(n, k)
<1>1. t \in DOMAIN Revision[3] /\ o \in Revision[3][t] /\ Rev(3)[t] = {Revision[3][t]}
  BY HeadAt
<1>2. o.is = "column" /\ o.name = n /\ o.width = k
  BY DEF Column
<1> HIDE DEF o
<1>3. Len(w.value) <= k
  <2> DEFINE l == Len(w.value)
  <2>1. l \in 0..10
    OBVIOUS
  <2> HIDE DEF l
  <2>2. l <= k
    BY <2>1
  <2> QED
    BY <2>2 DEF l
<1>4. \E c \in Revision[3][w.on] : /\ c.is = "column" /\ c.name = w.column
                                   /\ (c.width = 0 \/ Len(w.value) <= c.width)
  BY <1>1, <1>2, <1>3
<1>5. \A c \in Revision[3][w.on] : c.is = "check" => Allowed(w, c)
  BY <1>1 DEF Checked
<1> QED
  BY <1>1, <1>4, <1>5 DEF Accept

LEMMA WordIs ==
  ASSUME NEW t, NEW c, NEW values, NEW w \in Words(t, c, values)
  PROVE  w.on = t /\ w.column = c /\ w.value \in values
BY DEF Words

\* A word that a CHECK allows whenever it is on the word's column.
LEMMA CheckAllows ==
  ASSUME NEW w, NEW c, NEW values, w.value \in values \/ w.column # c
  PROVE  Allowed(w, Check(c, values))
BY DEF Allowed, Check

LEMMA RolesTaken ==
  ASSUME NEW w \in RoleWords, w.value # "photographer"
  PROVE  Accept(Revision[3], w)
<1> DEFINE t == "trip_members"
           n == "role"
           k == 10
           roles == AllRoles
<1>1. t \in Tables /\ Keep(Rev(3)[t], Column(n, k)) /\ k \in Nat /\ 10 <= k
  BY TablesHave, MembersHead
<1>2. Len(w.value) \in 0..10
  BY WordLengths DEF HandlerWords
<1>3. RoleWords = Words(t, n, roles)
  BY DEF RoleWords
<1>4. RichCheck = Check(n, roles)
  BY DEF RichCheck
<1>5. Rev(3)[t] = {Secondary}
  BY MembersAtHead
<1> HIDE DEF t, n, k, roles
<1>6. w.on = t /\ w.column = n /\ w.value \in roles
  BY <1>3, WordIs
<1>7. Allowed(w, RichCheck)
  BY <1>4, <1>6, CheckAllows
<1>8. Checked(t, w)
  BY <1>5, <1>7, MembersAtHead DEF Checked
<1> QED
  BY <1>1, <1>2, <1>6, <1>8, HeadTakes

\* A word on a column of at least ten characters, that every CHECK its table may have allows.
LEMMA GuardTakes ==
  ASSUME NEW t \in Tables, NEW n, NEW k \in Nat, 10 <= k, Keep(Rev(3)[t], Column(n, k)),
         NEW values, Words(t, n, values) \subseteq HandlerWords, "photographer" \notin values,
         \A w, a : w.column = n /\ w.value \in values /\ Guard(t, a) => Allowed(w, a)
  PROVE  \A w \in Words(t, n, values) : Accept(Revision[3], w)
<1>1. ASSUME NEW w \in Words(t, n, values) PROVE Accept(Revision[3], w)
  <2>1. w.on = t /\ w.column = n /\ w.value \in values
    BY WordIs
  <2>2. Len(w.value) \in 0..10
    BY <2>1, WordLengths
  <2>3. Checked(t, w)
    BY <2>1, HeadGuards DEF Checked
  <2> QED
    BY <2>1, <2>2, <2>3, HeadTakes
<1> QED
  BY <1>1

LEMMA WordsTaken ==
  ASSUME NEW w \in HandlerWords, w.value # "photographer"
  PROVE  Accept(Revision[3], w)
<1> DEFINE Taken(W) == \A x \in W : Accept(Revision[3], x)
<1>1. Taken(Words("trips", "status", {"planned", "ended"}))
  <2> DEFINE t == "trips"
             n == "status"
             k == 20
             values == {"planned", "ended"}
  <2>1. t \in Tables /\ Keep(Rev(3)[t], Column(n, k)) /\ k \in Nat /\ 10 <= k
    BY TablesHave, TripsHead
  <2>2. Words(t, n, values) \subseteq HandlerWords
    BY DEF HandlerWords, TripWords, MessageWords, DeviceAlertWords, AlertWords, BillingWords
  <2>3. "photographer" \notin values
    OBVIOUS
  <2>4. \A x, a : x.column = n /\ x.value \in values /\ Guard(t, a) => Allowed(x, a)
    <3> SUFFICES ASSUME NEW x, NEW a, x.column = n, x.value \in values, Guard(t, a)
                 PROVE  Allowed(x, a)
      OBVIOUS
    <3> QED
      BY CheckAllows DEF Guard
  <2> HIDE DEF t, n, k, values
  <2>5. \A x \in Words(t, n, values) : Accept(Revision[3], x)
    BY <2>1, <2>2, <2>3, <2>4, GuardTakes
  <2> QED
    BY <2>5 DEF t, n, values
<1>2. Taken(Words("messages", "kind", {"text", "arrival"}))
  <2> DEFINE t == "messages"
             n == "kind"
             k == 20
             values == {"text", "arrival"}
  <2>1. t \in Tables /\ Keep(Rev(3)[t], Column(n, k)) /\ k \in Nat /\ 10 <= k
    BY TablesHave, MessagesHead
  <2>2. Words(t, n, values) \subseteq HandlerWords
    BY DEF HandlerWords, TripWords, MessageWords, DeviceAlertWords, AlertWords, BillingWords
  <2>3. "photographer" \notin values
    OBVIOUS
  <2>4. \A x, a : x.column = n /\ x.value \in values /\ Guard(t, a) => Allowed(x, a)
    <3> SUFFICES ASSUME NEW x, NEW a, x.column = n, x.value \in values, Guard(t, a)
                 PROVE  Allowed(x, a)
      OBVIOUS
    <3> QED
      BY CheckAllows DEF Guard
  <2> HIDE DEF t, n, k, values
  <2>5. \A x \in Words(t, n, values) : Accept(Revision[3], x)
    BY <2>1, <2>2, <2>3, <2>4, GuardTakes
  <2> QED
    BY <2>5 DEF t, n, values
<1>3. Taken(Words("safety_alerts", "kind", {"sos", "crash"}))
  <2> DEFINE t == "safety_alerts"
             n == "kind"
             k == 20
             values == {"sos", "crash"}
  <2>1. t \in Tables /\ Keep(Rev(3)[t], Column(n, k)) /\ k \in Nat /\ 10 <= k
    BY TablesHave, AlertsHead
  <2>2. Words(t, n, values) \subseteq HandlerWords
    BY DEF HandlerWords, TripWords, MessageWords, DeviceAlertWords, AlertWords, BillingWords
  <2>3. "photographer" \notin values
    OBVIOUS
  <2>4. \A x, a : x.column = n /\ x.value \in values /\ Guard(t, a) => Allowed(x, a)
    <3> SUFFICES ASSUME NEW x, NEW a, x.column = n, x.value \in values, Guard(t, a)
                 PROVE  Allowed(x, a)
      OBVIOUS
    <3> QED
      BY CheckAllows DEF Guard
  <2> HIDE DEF t, n, k, values
  <2>5. \A x \in Words(t, n, values) : Accept(Revision[3], x)
    BY <2>1, <2>2, <2>3, <2>4, GuardTakes
  <2> QED
    BY <2>5 DEF t, n, values
<1>4. Taken(Words("safety_alerts", "severity", {"critical", "warning"}))
  <2> DEFINE t == "safety_alerts"
             n == "severity"
             k == 20
             values == {"critical", "warning"}
  <2>1. t \in Tables /\ Keep(Rev(3)[t], Column(n, k)) /\ k \in Nat /\ 10 <= k
    BY TablesHave, AlertsHead
  <2>2. Words(t, n, values) \subseteq HandlerWords
    BY DEF HandlerWords, TripWords, MessageWords, DeviceAlertWords, AlertWords, BillingWords
  <2>3. "photographer" \notin values
    OBVIOUS
  <2>4. \A x, a : x.column = n /\ x.value \in values /\ Guard(t, a) => Allowed(x, a)
    <3> SUFFICES ASSUME NEW x, NEW a, x.column = n, x.value \in values, Guard(t, a)
                 PROVE  Allowed(x, a)
      OBVIOUS
    <3> QED
      BY CheckAllows DEF Guard
  <2> HIDE DEF t, n, k, values
  <2>5. \A x \in Words(t, n, values) : Accept(Revision[3], x)
    BY <2>1, <2>2, <2>3, <2>4, GuardTakes
  <2> QED
    BY <2>5 DEF t, n, values
<1>5. Taken(Words("safety_alerts", "kind", {"speed", "stranded"}))
  <2> DEFINE t == "safety_alerts"
             n == "kind"
             k == 20
             values == {"speed", "stranded"}
  <2>1. t \in Tables /\ Keep(Rev(3)[t], Column(n, k)) /\ k \in Nat /\ 10 <= k
    BY TablesHave, AlertsHead
  <2>2. Words(t, n, values) \subseteq HandlerWords
    BY DEF HandlerWords, TripWords, MessageWords, DeviceAlertWords, AlertWords, BillingWords
  <2>3. "photographer" \notin values
    OBVIOUS
  <2>4. \A x, a : x.column = n /\ x.value \in values /\ Guard(t, a) => Allowed(x, a)
    <3> SUFFICES ASSUME NEW x, NEW a, x.column = n, x.value \in values, Guard(t, a)
                 PROVE  Allowed(x, a)
      OBVIOUS
    <3> QED
      BY CheckAllows DEF Guard
  <2> HIDE DEF t, n, k, values
  <2>5. \A x \in Words(t, n, values) : Accept(Revision[3], x)
    BY <2>1, <2>2, <2>3, <2>4, GuardTakes
  <2> QED
    BY <2>5 DEF t, n, values
<1>6. Taken(Words("safety_alerts", "severity", {"warning"}))
  <2> DEFINE t == "safety_alerts"
             n == "severity"
             k == 20
             values == {"warning"}
  <2>1. t \in Tables /\ Keep(Rev(3)[t], Column(n, k)) /\ k \in Nat /\ 10 <= k
    BY TablesHave, AlertsHead
  <2>2. Words(t, n, values) \subseteq HandlerWords
    BY DEF HandlerWords, TripWords, MessageWords, DeviceAlertWords, AlertWords, BillingWords
  <2>3. "photographer" \notin values
    OBVIOUS
  <2>4. \A x, a : x.column = n /\ x.value \in values /\ Guard(t, a) => Allowed(x, a)
    <3> SUFFICES ASSUME NEW x, NEW a, x.column = n, x.value \in values, Guard(t, a)
                 PROVE  Allowed(x, a)
      OBVIOUS
    <3> QED
      BY CheckAllows DEF Guard
  <2> HIDE DEF t, n, k, values
  <2>5. \A x \in Words(t, n, values) : Accept(Revision[3], x)
    BY <2>1, <2>2, <2>3, <2>4, GuardTakes
  <2> QED
    BY <2>5 DEF t, n, values
<1>7. Taken(Words("subscriptions", "provider", {"razorpay", "stripe"}))
  <2> DEFINE t == "subscriptions"
             n == "provider"
             k == 20
             values == {"razorpay", "stripe"}
  <2>1. t \in Tables /\ Keep(Rev(3)[t], Column(n, k)) /\ k \in Nat /\ 10 <= k
    BY TablesHave, SubscriptionsHead
  <2>2. Words(t, n, values) \subseteq HandlerWords
    BY DEF HandlerWords, TripWords, MessageWords, DeviceAlertWords, AlertWords, BillingWords
  <2>3. "photographer" \notin values
    OBVIOUS
  <2>4. \A x, a : x.column = n /\ x.value \in values /\ Guard(t, a) => Allowed(x, a)
    <3> SUFFICES ASSUME NEW x, NEW a, x.column = n, x.value \in values, Guard(t, a)
                 PROVE  Allowed(x, a)
      OBVIOUS
    <3> QED
      BY CheckAllows DEF Guard
  <2> HIDE DEF t, n, k, values
  <2>5. \A x \in Words(t, n, values) : Accept(Revision[3], x)
    BY <2>1, <2>2, <2>3, <2>4, GuardTakes
  <2> QED
    BY <2>5 DEF t, n, values
<1>8. Taken(Words("subscriptions", "plan", {"free", "pro", "family"}))
  <2> DEFINE t == "subscriptions"
             n == "plan"
             k == 20
             values == {"free", "pro", "family"}
  <2>1. t \in Tables /\ Keep(Rev(3)[t], Column(n, k)) /\ k \in Nat /\ 10 <= k
    BY TablesHave, SubscriptionsHead
  <2>2. Words(t, n, values) \subseteq HandlerWords
    BY DEF HandlerWords, TripWords, MessageWords, DeviceAlertWords, AlertWords, BillingWords
  <2>3. "photographer" \notin values
    OBVIOUS
  <2>4. \A x, a : x.column = n /\ x.value \in values /\ Guard(t, a) => Allowed(x, a)
    <3> SUFFICES ASSUME NEW x, NEW a, x.column = n, x.value \in values, Guard(t, a)
                 PROVE  Allowed(x, a)
      OBVIOUS
    <3> QED
      BY CheckAllows DEF Guard
  <2> HIDE DEF t, n, k, values
  <2>5. \A x \in Words(t, n, values) : Accept(Revision[3], x)
    BY <2>1, <2>2, <2>3, <2>4, GuardTakes
  <2> QED
    BY <2>5 DEF t, n, values
<1>9. Taken(Words("subscriptions", "status", {"trialing", "active"}))
  <2> DEFINE t == "subscriptions"
             n == "status"
             k == 20
             values == {"trialing", "active"}
  <2>1. t \in Tables /\ Keep(Rev(3)[t], Column(n, k)) /\ k \in Nat /\ 10 <= k
    BY TablesHave, SubscriptionsHead
  <2>2. Words(t, n, values) \subseteq HandlerWords
    BY DEF HandlerWords, TripWords, MessageWords, DeviceAlertWords, AlertWords, BillingWords
  <2>3. "photographer" \notin values
    OBVIOUS
  <2>4. \A x, a : x.column = n /\ x.value \in values /\ Guard(t, a) => Allowed(x, a)
    <3> SUFFICES ASSUME NEW x, NEW a, x.column = n, x.value \in values, Guard(t, a)
                 PROVE  Allowed(x, a)
      OBVIOUS
    <3> QED
      BY CheckAllows DEF Guard
  <2> HIDE DEF t, n, k, values
  <2>5. \A x \in Words(t, n, values) : Accept(Revision[3], x)
    BY <2>1, <2>2, <2>3, <2>4, GuardTakes
  <2> QED
    BY <2>5 DEF t, n, values
<1> HIDE DEF Taken
<1>10. /\ Taken(TripWords) /\ Taken(MessageWords) /\ Taken(DeviceAlertWords)
       /\ Taken(AlertWords) /\ Taken(BillingWords)
  BY <1>1, <1>2, <1>3, <1>4, <1>5, <1>6, <1>7, <1>8, <1>9
  DEF Taken, TripWords, MessageWords, DeviceAlertWords, AlertWords, BillingWords
<1>11. CASE w \in RoleWords
  BY <1>11, RolesTaken
<1>12. CASE w \notin RoleWords
  BY <1>10, <1>12 DEF HandlerWords, Taken
<1> QED
  BY <1>11, <1>12

LEMMA InvServes == SchemaInv => HeadServesHandlers
<1> SUFFICES ASSUME SchemaInv, db.version = 3 PROVE HeadServesHandlers
  BY DEF HeadServesHandlers
<1> DEFINE width(c) == {o.width : o \in {p \in db.tables[c.on] :
                                           p.is = "column" /\ p.name = c.name}}
<1>1. db.tables = Revision[3]
  BY DEF SchemaInv, DbOK
<1>2. ASSUME NEW c, c.on \in Tables, NEW k, Keep(Rev(3)[c.on], Column(c.name, k))
      PROVE  c.on \in DOMAIN db.tables /\ k \in width(c)
  <2> DEFINE o == Column(c.name, k)
  <2>1. o.is = "column" /\ o.name = c.name /\ o.width = k
    BY DEF Column
  <2>2. c.on \in DOMAIN db.tables /\ o \in db.tables[c.on]
    BY <1>1, <1>2, HeadAt
  <2> HIDE DEF o
  <2> QED
    BY <2>1, <2>2
<1> HIDE DEF width
<1>3. ASSUME NEW c \in Orm \cup SqlLocations \cup SqlEvents \cup SqlMapsHealth
      PROVE  c.on \in DOMAIN db.tables /\ width(c) # {}
  <2>1. c.on \in Tables /\ HeadHas(c.on, c.name)
    BY OrmServed, SqlServed
  <2> QED
    BY <1>2, <2>1 DEF HeadHas
<1>4. ASSUME NEW c \in RequestLimits
      PROVE  \E n \in width(c) : c.width <= n
  <2>1. c.on \in Tables /\ HeadHolds(c.on, c.name, c.width)
    BY LimitsServed
  <2> QED
    BY <1>2, <2>1 DEF HeadHolds
<1>5. \A w \in HandlerWords : w.value = "photographer" \/ Accept(db.tables, w)
  BY <1>1, WordsTaken
<1> QED
  BY <1>3, <1>4, <1>5 DEF HeadServesHandlers, width

\* At the head every column the ORM or handwritten SQL names is there, every text
\* whose length a request's validation bounds fits its column, and so does every
\* word the handlers write, the role "photographer" apart (HeadServesHandlers),
\* whatever runs of alembic led to the head.
THEOREM HeadServes == SchemaSpec => []HeadServesHandlers
<1> QED
  BY SchemaAlways, InvServes, PTL

-----------------------------------------------------------------------------
(* Who refers to whom.                                                     *)

Link(t, a) ==
  /\ a.to \in Parents
  /\ a.to = "expenses" => t = "expense_shares"
  /\ a.to = "subgroups" => t = "trip_members" /\ a.name = "subgroup_id"
  /\ a.to = "trips" => t \notin {"users", "trips"}
  /\ a.to = "users" => t # "users"
Links(s) == \A t, a : Gives(s, t, a) /\ a.is = "fk" => Link(t, a)
Linked(ss) == \A i \in 1..Len(ss) : Links(ss[i])

LEMMA MakesLinks ==
  ASSUME NEW s, NEW t, NEW others, Makes(s, t, others), others \subseteq Parents,
         "subgroups" \notin others, "expenses" \in others => t = "expense_shares",
         "trips" \in others => t \notin {"users", "trips"}, "users" \in others => t # "users"
  PROVE  Links(s)
<1>1. ASSUME NEW u, NEW a, Gives(s, u, a), a.is = "fk" PROVE Link(u, a)
  <2>1. u = t /\ a \in s.shape /\ Targets(s.shape) \subseteq others
    BY <1>1 DEF Makes, Gives
  <2>2. a.to \in others
    BY <1>1, <2>1 DEF Targets
  <2> QED
    BY <2>1, <2>2 DEF Link, Parents
<1> QED
  BY <1>1 DEF Links

LEMMA AddsLinks ==
  ASSUME NEW s, NEW t, NEW a, Adds(s, t, a), a.is # "fk"
  PROVE  Links(s)
BY DEF Links, Gives, Adds

LEMMA DropLinks ==
  ASSUME NEW s, s.do \notin {"create", "add"}
  PROVE  Links(s)
BY DEF Links, Gives

LEMMA KeyLinks ==
  ASSUME NEW s, Adds(s, "trip_members", GroupKey)
  PROVE  Links(s)
<1>1. \A t, a : Gives(s, t, a) => t = "trip_members" /\ a = GroupKey
  BY DEF Gives, Adds
<1>2. GroupKey.to = "subgroups" /\ GroupKey.name = "subgroup_id"
  BY DEF GroupKey, Reference
<1>3. Link("trip_members", GroupKey)
  BY <1>2 DEF Link, Parents
<1> QED
  BY <1>1, <1>3 DEF Links

LEMMA LinkedJoin ==
  ASSUME NEW a, NEW b, IsSeq(a), IsSeq(b), Linked(a), Linked(b)
  PROVE  Linked(a \o b)
<1>1. ASSUME NEW i \in 1..Len(a \o b) PROVE Links((a \o b)[i])
  <2> DEFINE x == (a \o b)[i]
  <2>1. \/ i \in 1..Len(a) /\ x = a[i]
        \/ \E j \in 1..Len(b) : i = Len(a) + j /\ x = b[j]
    BY JoinedAt
  <2> HIDE DEF x
  <2> QED
    BY <2>1 DEF Linked, x
<1> QED
  BY <1>1 DEF Linked

LEMMA Initial_TripsLinked == Linked(Initial_Trips)
<1> DEFINE ss == Initial_Trips
<1>1. Links(ss[1])
  <2> DEFINE t == "users"
             others == {}
  <2>1. Makes(ss[1], t, others)
    BY Initial_TripsReads
  <2>2. /\ others \subseteq Parents /\ "subgroups" \notin others
        /\ "expenses" \in others => t = "expense_shares"
        /\ "trips" \in others => t \notin {"users", "trips"}
        /\ "users" \in others => t # "users"
    BY DEF Parents
  <2> HIDE DEF t, others, ss
  <2> QED
    BY <2>1, <2>2, MakesLinks
<1>2. Links(ss[2])
  <2> DEFINE t == "trips"
             others == {"users"}
  <2>1. Makes(ss[2], t, others)
    BY Initial_TripsReads
  <2>2. /\ others \subseteq Parents /\ "subgroups" \notin others
        /\ "expenses" \in others => t = "expense_shares"
        /\ "trips" \in others => t \notin {"users", "trips"}
        /\ "users" \in others => t # "users"
    BY DEF Parents
  <2> HIDE DEF t, others, ss
  <2> QED
    BY <2>1, <2>2, MakesLinks
<1>3. Links(ss[3])
  BY Initial_TripsReads, AddsLinks, IndexIs DEF Index, Column, Check
<1>4. Links(ss[4])
  <2> DEFINE t == "trip_members"
             others == {"trips", "users"}
  <2>1. Makes(ss[4], t, others)
    BY Initial_TripsReads
  <2>2. /\ others \subseteq Parents /\ "subgroups" \notin others
        /\ "expenses" \in others => t = "expense_shares"
        /\ "trips" \in others => t \notin {"users", "trips"}
        /\ "users" \in others => t # "users"
    BY DEF Parents
  <2> HIDE DEF t, others, ss
  <2> QED
    BY <2>1, <2>2, MakesLinks
<1>5. Links(ss[5])
  BY Initial_TripsReads, AddsLinks, IndexIs DEF Index, Column, Check
<1>6. Len(ss) = 5 /\ \A i \in 1..5 : i \in {1, 2, 3, 4, 5}
  BY Initial_TripsReads
<1> HIDE DEF ss
<1>7. Linked(ss)
  BY <1>1, <1>2, <1>3, <1>4, <1>5, <1>6 DEF Linked
<1> QED
  BY <1>7 DEF ss

LEMMA Initial_RestLinked == Linked(Initial_Rest)
<1> DEFINE ss == Initial_Rest
<1>1. Links(ss[1])
  <2> DEFINE t == "waypoints"
             others == {"trips"}
  <2>1. Makes(ss[1], t, others)
    BY Initial_RestReads
  <2>2. /\ others \subseteq Parents /\ "subgroups" \notin others
        /\ "expenses" \in others => t = "expense_shares"
        /\ "trips" \in others => t \notin {"users", "trips"}
        /\ "users" \in others => t # "users"
    BY DEF Parents
  <2> HIDE DEF t, others, ss
  <2> QED
    BY <2>1, <2>2, MakesLinks
<1>2. Links(ss[2])
  BY Initial_RestReads, AddsLinks, IndexIs DEF Index, Column, Check
<1>3. Links(ss[3])
  BY Initial_RestReads, AddsLinks, IndexIs DEF Index, Column, Check
<1>4. Links(ss[4])
  BY Initial_RestReads, AddsLinks, IndexIs DEF Index, Column, Check
<1>5. Links(ss[5])
  <2> DEFINE t == "messages"
             others == {"trips", "users"}
  <2>1. Makes(ss[5], t, others)
    BY Initial_RestReads
  <2>2. /\ others \subseteq Parents /\ "subgroups" \notin others
        /\ "expenses" \in others => t = "expense_shares"
        /\ "trips" \in others => t \notin {"users", "trips"}
        /\ "users" \in others => t # "users"
    BY DEF Parents
  <2> HIDE DEF t, others, ss
  <2> QED
    BY <2>1, <2>2, MakesLinks
<1>6. Links(ss[6])
  BY Initial_RestReads, AddsLinks, IndexIs DEF Index, Column, Check
<1>7. Links(ss[7])
  <2> DEFINE t == "devices"
             others == {"users"}
  <2>1. Makes(ss[7], t, others)
    BY Initial_RestReads
  <2>2. /\ others \subseteq Parents /\ "subgroups" \notin others
        /\ "expenses" \in others => t = "expense_shares"
        /\ "trips" \in others => t \notin {"users", "trips"}
        /\ "users" \in others => t # "users"
    BY DEF Parents
  <2> HIDE DEF t, others, ss
  <2> QED
    BY <2>1, <2>2, MakesLinks
<1>8. Links(ss[8])
  <2> DEFINE t == "locations"
             others == {"trips", "users"}
  <2>1. Makes(ss[8], t, others)
    BY Initial_RestReads
  <2>2. /\ others \subseteq Parents /\ "subgroups" \notin others
        /\ "expenses" \in others => t = "expense_shares"
        /\ "trips" \in others => t \notin {"users", "trips"}
        /\ "users" \in others => t # "users"
    BY DEF Parents
  <2> HIDE DEF t, others, ss
  <2> QED
    BY <2>1, <2>2, MakesLinks
<1>9. Links(ss[9])
  BY Initial_RestReads, AddsLinks, IndexIs DEF Index, Column, Check
<1>10. Links(ss[10])
  BY Initial_RestReads, AddsLinks, IndexIs DEF Index, Column, Check
<1>11. Len(ss) = 10 /\ \A i \in 1..10 : i \in {1, 2, 3, 4, 5, 6, 7, 8, 9, 10}
  BY Initial_RestReads
<1> HIDE DEF ss
<1>12. Linked(ss)
  BY <1>1, <1>2, <1>3, <1>4, <1>5, <1>6, <1>7, <1>8, <1>9, <1>10, <1>11 DEF Linked
<1> QED
  BY <1>12 DEF ss

LEMMA Advanced_MembersLinked == Linked(Advanced_Members)
<1> DEFINE ss == Advanced_Members
<1>1. Links(ss[1])
  BY Advanced_MembersReads, AddsLinks, IndexIs DEF Index, Column, Check
<1>2. Links(ss[2])
  BY Advanced_MembersReads, AddsLinks, IndexIs DEF Index, Column, Check
<1>3. Links(ss[3])
  BY Advanced_MembersReads, AddsLinks, IndexIs DEF Index, Column, Check
<1>4. Links(ss[4])
  BY Advanced_MembersReads, AddsLinks, IndexIs DEF Index, Column, Check
<1>5. Links(ss[5])
  BY Advanced_MembersReads, AddsLinks, IndexIs DEF Index, Column, Check
<1>6. Len(ss) = 5 /\ \A i \in 1..5 : i \in {1, 2, 3, 4, 5}
  BY Advanced_MembersReads
<1> HIDE DEF ss
<1>7. Linked(ss)
  BY <1>1, <1>2, <1>3, <1>4, <1>5, <1>6 DEF Linked
<1> QED
  BY <1>7 DEF ss

LEMMA Advanced_RolesLinked == Linked(Advanced_Roles)
<1> DEFINE ss == Advanced_Roles
<1>1. Links(ss[1])
  BY Advanced_RolesReads, DropLinks DEF Discards
<1>2. Links(ss[2])
  BY Advanced_RolesReads, AddsLinks, IndexIs DEF Index, Column, Check
<1>3. Len(ss) = 2 /\ \A i \in 1..2 : i \in {1, 2}
  BY Advanced_RolesReads
<1> HIDE DEF ss
<1>4. Linked(ss)
  BY <1>1, <1>2, <1>3 DEF Linked
<1> QED
  BY <1>4 DEF ss

LEMMA Advanced_TripsLinked == Linked(Advanced_Trips)
<1> DEFINE ss == Advanced_Trips
<1>1. Links(ss[1])
  BY Advanced_TripsReads, AddsLinks, IndexIs DEF Index, Column, Check
<1>2. Links(ss[2])
  BY Advanced_TripsReads, AddsLinks, IndexIs DEF Index, Column, Check
<1>3. Len(ss) = 2 /\ \A i \in 1..2 : i \in {1, 2}
  BY Advanced_TripsReads
<1> HIDE DEF ss
<1>4. Linked(ss)
  BY <1>1, <1>2, <1>3 DEF Linked
<1> QED
  BY <1>4 DEF ss

LEMMA Advanced_SafetyLinked == Linked(Advanced_Safety)
<1> DEFINE ss == Advanced_Safety
<1>1. Links(ss[1])
  <2> DEFINE t == "safety_alerts"
             others == {"trips", "users"}
  <2>1. Makes(ss[1], t, others)
    BY Advanced_SafetyReads
  <2>2. /\ others \subseteq Parents /\ "subgroups" \notin others
        /\ "expenses" \in others => t = "expense_shares"
        /\ "trips" \in others => t \notin {"users", "trips"}
        /\ "users" \in others => t # "users"
    BY DEF Parents
  <2> HIDE DEF t, others, ss
  <2> QED
    BY <2>1, <2>2, MakesLinks
<1>2. Links(ss[2])
  BY Advanced_SafetyReads, AddsLinks, IndexIs DEF Index, Column, Check
<1>3. Links(ss[3])
  <2> DEFINE t == "audit_logs"
             others == {"trips", "users"}
  <2>1. Makes(ss[3], t, others)
    BY Advanced_SafetyReads
  <2>2. /\ others \subseteq Parents /\ "subgroups" \notin others
        /\ "expenses" \in others => t = "expense_shares"
        /\ "trips" \in others => t \notin {"users", "trips"}
        /\ "users" \in others => t # "users"
    BY DEF Parents
  <2> HIDE DEF t, others, ss
  <2> QED
    BY <2>1, <2>2, MakesLinks
<1>4. Links(ss[4])
  BY Advanced_SafetyReads, AddsLinks, IndexIs DEF Index, Column, Check
<1>5. Links(ss[5])
  <2> DEFINE t == "subgroups"
             others == {"trips"}
  <2>1. Makes(ss[5], t, others)
    BY Advanced_SafetyReads
  <2>2. /\ others \subseteq Parents /\ "subgroups" \notin others
        /\ "expenses" \in others => t = "expense_shares"
        /\ "trips" \in others => t \notin {"users", "trips"}
        /\ "users" \in others => t # "users"
    BY DEF Parents
  <2> HIDE DEF t, others, ss
  <2> QED
    BY <2>1, <2>2, MakesLinks
<1>6. Links(ss[6])
  BY Advanced_SafetyReads, AddsLinks, IndexIs DEF Index, Column, Check
<1>7. Links(ss[7])
  BY Advanced_SafetyReads, KeyLinks DEF GroupKey
<1>8. Len(ss) = 7 /\ \A i \in 1..7 : i \in {1, 2, 3, 4, 5, 6, 7}
  BY Advanced_SafetyReads
<1> HIDE DEF ss
<1>9. Linked(ss)
  BY <1>1, <1>2, <1>3, <1>4, <1>5, <1>6, <1>7, <1>8 DEF Linked
<1> QED
  BY <1>9 DEF ss

LEMMA Advanced_MoneyLinked == Linked(Advanced_Money)
<1> DEFINE ss == Advanced_Money
<1>1. Links(ss[1])
  <2> DEFINE t == "expenses"
             others == {"trips", "users"}
  <2>1. Makes(ss[1], t, others)
    BY Advanced_MoneyReads
  <2>2. /\ others \subseteq Parents /\ "subgroups" \notin others
        /\ "expenses" \in others => t = "expense_shares"
        /\ "trips" \in others => t \notin {"users", "trips"}
        /\ "users" \in others => t # "users"
    BY DEF Parents
  <2> HIDE DEF t, others, ss
  <2> QED
    BY <2>1, <2>2, MakesLinks
<1>2. Links(ss[2])
  BY Advanced_MoneyReads, AddsLinks, IndexIs DEF Index, Column, Check
<1>3. Links(ss[3])
  <2> DEFINE t == "expense_shares"
             others == {"expenses", "users"}
  <2>1. Makes(ss[3], t, others)
    BY Advanced_MoneyReads
  <2>2. /\ others \subseteq Parents /\ "subgroups" \notin others
        /\ "expenses" \in others => t = "expense_shares"
        /\ "trips" \in others => t \notin {"users", "trips"}
        /\ "users" \in others => t # "users"
    BY DEF Parents
  <2> HIDE DEF t, others, ss
  <2> QED
    BY <2>1, <2>2, MakesLinks
<1>4. Links(ss[4])
  <2> DEFINE t == "subscriptions"
             others == {"users"}
  <2>1. Makes(ss[4], t, others)
    BY Advanced_MoneyReads
  <2>2. /\ others \subseteq Parents /\ "subgroups" \notin others
        /\ "expenses" \in others => t = "expense_shares"
        /\ "trips" \in others => t \notin {"users", "trips"}
        /\ "users" \in others => t # "users"
    BY DEF Parents
  <2> HIDE DEF t, others, ss
  <2> QED
    BY <2>1, <2>2, MakesLinks
<1>5. Links(ss[5])
  BY Advanced_MoneyReads, AddsLinks, IndexIs DEF Index, Column, Check
<1>6. Links(ss[6])
  <2> DEFINE t == "reminders"
             others == {"trips"}
  <2>1. Makes(ss[6], t, others)
    BY Advanced_MoneyReads
  <2>2. /\ others \subseteq Parents /\ "subgroups" \notin others
        /\ "expenses" \in others => t = "expense_shares"
        /\ "trips" \in others => t \notin {"users", "trips"}
        /\ "users" \in others => t # "users"
    BY DEF Parents
  <2> HIDE DEF t, others, ss
  <2> QED
    BY <2>1, <2>2, MakesLinks
<1>7. Links(ss[7])
  BY Advanced_MoneyReads, AddsLinks, IndexIs DEF Index, Column, Check
<1>8. Len(ss) = 7 /\ \A i \in 1..7 : i \in {1, 2, 3, 4, 5, 6, 7}
  BY Advanced_MoneyReads
<1> HIDE DEF ss
<1>9. Linked(ss)
  BY <1>1, <1>2, <1>3, <1>4, <1>5, <1>6, <1>7, <1>8 DEF Linked
<1> QED
  BY <1>9 DEF ss

LEMMA Advanced_TelemetryLinked == Linked(Advanced_Telemetry)
<1> DEFINE ss == Advanced_Telemetry
<1>1. Links(ss[1])
  <2> DEFINE t == "events"
             others == {"trips", "users"}
  <2>1. Makes(ss[1], t, others)
    BY Advanced_TelemetryReads
  <2>2. /\ others \subseteq Parents /\ "subgroups" \notin others
        /\ "expenses" \in others => t = "expense_shares"
        /\ "trips" \in others => t \notin {"users", "trips"}
        /\ "users" \in others => t # "users"
    BY DEF Parents
  <2> HIDE DEF t, others, ss
  <2> QED
    BY <2>1, <2>2, MakesLinks
<1>2. Links(ss[2])
  BY Advanced_TelemetryReads, AddsLinks, IndexIs DEF Index, Column, Check
<1>3. Links(ss[3])
  BY Advanced_TelemetryReads, AddsLinks, IndexIs DEF Index, Column, Check
<1>4. Links(ss[4])
  <2> DEFINE t == "maps_provider_calls"
             others == {}
  <2>1. Makes(ss[4], t, others)
    BY Advanced_TelemetryReads
  <2>2. /\ others \subseteq Parents /\ "subgroups" \notin others
        /\ "expenses" \in others => t = "expense_shares"
        /\ "trips" \in others => t \notin {"users", "trips"}
        /\ "users" \in others => t # "users"
    BY DEF Parents
  <2> HIDE DEF t, others, ss
  <2> QED
    BY <2>1, <2>2, MakesLinks
<1>5. Links(ss[5])
  BY Advanced_TelemetryReads, AddsLinks, IndexIs DEF Index, Column, Check
<1>6. Len(ss) = 5 /\ \A i \in 1..5 : i \in {1, 2, 3, 4, 5}
  BY Advanced_TelemetryReads
<1> HIDE DEF ss
<1>7. Linked(ss)
  BY <1>1, <1>2, <1>3, <1>4, <1>5, <1>6 DEF Linked
<1> QED
  BY <1>7 DEF ss

LEMMA IsAdminLinked == Linked(IsAdmin)
<1> DEFINE ss == IsAdmin
<1>1. Links(ss[1])
  BY IsAdminReads, AddsLinks, IndexIs DEF Index, Column, Check
<1>2. Len(ss) = 1 /\ \A i \in 1..1 : i \in {1}
  BY IsAdminReads
<1> HIDE DEF ss
<1>3. Linked(ss)
  BY <1>1, <1>2 DEF Linked
<1> QED
  BY <1>3 DEF ss

LEMMA UpLinked ==
  ASSUME NEW v \in 1..3
  PROVE  Linked(Up(v))
<1> DEFINE G(ss) == IsSeq(ss) /\ Linked(ss)
<1>1. /\ G(Initial_Trips) /\ G(Initial_Rest) /\ G(Advanced_Members) /\ G(Advanced_Roles)
      /\ G(Advanced_Trips) /\ G(Advanced_Safety) /\ G(Advanced_Money)
      /\ G(Advanced_Telemetry) /\ G(IsAdmin)
  BY Initial_TripsLinked, Initial_RestLinked, Advanced_MembersLinked, Advanced_RolesLinked,
     Advanced_TripsLinked, Advanced_SafetyLinked, Advanced_MoneyLinked,
     Advanced_TelemetryLinked, IsAdminLinked, Initial_TripsIs, Initial_RestIs,
     Advanced_MembersIs, Advanced_RolesIs, Advanced_TripsIs, Advanced_SafetyIs,
     Advanced_MoneyIs, Advanced_TelemetryIs, IsAdminIs DEF GoesUp
<1>2. \A a, b : G(a) /\ G(b) => G(a \o b)
  BY LinkedJoin, Joined
<1> HIDE DEF G
<1>3. G(Initial_Trips \o Initial_Rest)
  BY <1>1, <1>2
<1>4. G(Advanced_Members \o Advanced_Roles \o Advanced_Trips \o Advanced_Safety
          \o Advanced_Money \o Advanced_Telemetry)
  BY <1>1, <1>2
<1>5. G(Up(v))
  <2>1. CASE v = 1
    BY <1>3, <2>1 DEF Up
  <2>2. CASE v = 2
    BY <1>4, <2>2 DEF Up
  <2>3. CASE v = 3
    BY <1>1, <2>3 DEF Up
  <2> QED
    BY <2>1, <2>2, <2>3
<1> QED
  BY <1>5 DEF G

\* Every key of a revision is one an upgrade gave its table.
LEMMA RevLinks ==
  ASSUME NEW v \in Version, NEW t \in Tables, NEW x \in Rev(v)[t], NEW a \in x, a.is = "fk"
  PROVE  Link(t, a)
<1> DEFINE Kept(u) == \A y \in Rev(u)[t] : \A b \in y : b.is = "fk" => Link(t, b)
<1>1. Kept(0)
  <2>1. Rev(0)[t] = {}
    BY RevisionNone DEF Rev
  <2> QED
    BY <2>1
<1>2. ASSUME NEW u \in 1..3, Kept(u - 1)
      PROVE  Kept(u)
  <2> DEFINE ss == Up(u)
             o == Rev(u - 1)[t]
             n == Len(ss)
  <2>1. GoesUp(ss) /\ IsSeq(ss) /\ Linked(ss)
    BY DownSeq, UpLinked
  <2>2. Rev(u)[t] = Course(t, o, ss)[n]
    BY RevAfter DEF After, End
  <2>3. n \in 0..Len(ss) /\ \A i \in 1..Len(ss) : UpOnly(ss[i])
    <3>1. Len(ss) \in Nat
      BY <2>1, CourseSteps
    <3> QED
      BY <2>1, <3>1 DEF GoesUp
  <2>4. ASSUME NEW y \in Rev(u)[t], NEW b \in y, b.is = "fk"
        PROVE  Link(t, b)
    <3> HIDE DEF ss, o, n
    <3>1. (\E z \in o : b \in z) \/ (\E i \in 1..n : Gives(ss[i], t, b))
      BY <2>1, <2>2, <2>3, <2>4, CourseOrigin
    <3>2. CASE \E z \in o : b \in z
      BY <1>2, <2>4, <3>2 DEF o
    <3>3. CASE \E i \in 1..n : Gives(ss[i], t, b)
      BY <2>1, <2>4, <3>3 DEF Linked, Links, n
    <3> QED
      BY <3>1, <3>2, <3>3
  <2> QED
    BY <2>4
<1> HIDE DEF Kept
<1>3. Kept(v)
  <2>1. 1 \in 1..3 /\ 2 \in 1..3 /\ 3 \in 1..3 /\ 1 - 1 = 0 /\ 2 - 1 = 1 /\ 3 - 1 = 2
    OBVIOUS
  <2>2. Kept(1)
    BY <1>1, <1>2, <2>1
  <2>3. Kept(2)
    BY <1>2, <2>1, <2>2
  <2>4. Kept(3)
    BY <1>2, <2>1, <2>3
  <2>5. v = 0 \/ v = 1 \/ v = 2 \/ v = 3
    BY DEF Version
  <2> QED
    BY <1>1, <2>2, <2>3, <2>4, <2>5
<1> QED
  BY <1>3 DEF Kept

-----------------------------------------------------------------------------
(* No statement on the way down misses what it drops.                      *)

\* Every key is one an upgrade gave its table.
Knit(f) == \A t \in Tables : \A x \in f[t] : \A a \in x : a.is = "fk" => Link(t, a)

LEMMA DropPasses ==
  ASSUME NEW ss, GoesDown(ss), NEW i \in 1..Len(ss), NEW f, NEW t \in Tables, NEW is, NEW n,
         NEW a, Discards(ss[i], t, is, n), a.is = is, a.name = n, Keep(f[t], a),
         \A j \in 1..(i - 1) : ss[j].on = t => Spares(ss[j], a)
  PROVE  Passes(Here(f, ss, i - 1), ss[i])
<1>1. ss[i].on = t /\ ss[i].do = "drop" /\ ss[i].is = is /\ ss[i].name = n
  BY DEF Discards
<1>2. Spared(f, ss, i)
  BY <1>1 DEF Spared
<1> QED
  BY <1>1, <1>2, DownPasses

LEMMA CascadePasses ==
  ASSUME NEW ss, GoesDown(ss), NEW i \in 1..Len(ss), NEW f, NEW t \in Tables,
         Ends(ss[i], t, TRUE)
  PROVE  Passes(Here(f, ss, i - 1), ss[i])
<1>1. ss[i].on = t /\ ss[i].do = "droptable" /\ ss[i].cascade
  BY DEF Ends
<1> QED
  BY <1>1, DownPasses

LEMMA EndPasses ==
  ASSUME NEW ss, GoesDown(ss), NEW i \in 1..Len(ss), NEW f, NEW t \in Tables,
         Ends(ss[i], t, FALSE), f[t] # {},
         \A j \in 1..(i - 1) : ss[j].on = t => ss[j].do # "droptable",
         Unbound(f, ss, i)
  PROVE  Passes(Here(f, ss, i - 1), ss[i])
<1>1. ss[i].on = t /\ ss[i].do = "droptable" /\ ~ss[i].cascade
  BY DEF Ends
<1> QED
  BY <1>1, DownPasses

\* A table that no key refers to.
LEMMA LeafPasses ==
  ASSUME NEW ss, GoesDown(ss), NEW i \in 1..Len(ss), NEW f, NEW t \in Tables, Knit(f),
         Ends(ss[i], t, FALSE), f[t] # {}, t \notin Parents,
         \A j \in 1..(i - 1) : ss[j].on = t => ss[j].do # "droptable"
  PROVE  Passes(Here(f, ss, i - 1), ss[i])
<1>1. ASSUME NEW u \in Tables \ {t}, NEW x \in f[u], NEW a \in x, a.is = "fk", a.to = t
      PROVE  FALSE
  BY <1>1 DEF Knit, Link
<1>2. Unbound(f, ss, i)
  BY <1>1 DEF Unbound, Ends
<1> QED
  BY <1>2, EndPasses

LEMMA DiscardSpares ==
  ASSUME NEW s, NEW t, NEW is, NEW n, Discards(s, t, is, n), NEW a, a.name # n
  PROVE  Spares(s, a)
BY DEF Discards, Spares

LEMMA KnitDown ==
  ASSUME NEW f, NEW ss, GoesDown(ss), Knit(f)
  PROVE  Knit(After(f, ss))
<1> SUFFICES ASSUME NEW t \in Tables, NEW x \in After(f, ss)[t], NEW a \in x, a.is = "fk"
             PROVE  Link(t, a)
  BY DEF Knit
<1>1. IsSeq(ss) /\ Len(ss) \in Nat /\ \A i \in 1..Len(ss) : DownOnly(ss[i])
  BY CourseSteps DEF GoesDown
<1>2. x \in Course(t, f[t], ss)[Len(ss)] /\ Len(ss) \in 0..Len(ss)
  BY <1>1 DEF After, End
<1>3. (\E y \in f[t] : a \in y) \/ (\E i \in 1..Len(ss) : Gives(ss[i], t, a))
  BY <1>1, <1>2, CourseOrigin
<1>4. \A i \in 1..Len(ss) : ~Gives(ss[i], t, a)
  BY <1>1 DEF Gives, DownOnly
<1> QED
  BY <1>3, <1>4 DEF Knit

LEMMA InitialDownSmooth ==
  ASSUME NEW f, Knit(f),
         Keep(f["messages"], Index("ix_messages_trip_sent")),
         Keep(f["waypoints"], Index("ix_waypoints_trip_id")),
         Keep(f["waypoints"], Index("ix_waypoints_geom")),
         Keep(f["trip_members"], Index("ix_trip_members_user_id")),
         Keep(f["trips"], Index("ix_trips_owner_id")),
         f["devices"] # {},
         f["users"] # {},
         \A t \in NewTables : f[t] = {},
         f["alembic_version"] = {}
  PROVE  Smooth(f, InitialDown)
<1> DEFINE ss == InitialDown
<1>0. GoesDown(ss) /\ Len(ss) = 12
  BY InitialDownIs, InitialDownReads DEF DownPart
<1>1. Passes(Here(f, ss, 1 - 1), ss[1])
  <2> DEFINE t == "locations"
             i == 1
  <2>1. t \in Tables /\ i \in 1..Len(ss) /\ Ends(ss[i], t, TRUE)
    <3>1. Ends(ss[i], t, TRUE)
      BY InitialDownReads
    <3>2. t \in Tables /\ i \in 1..Len(ss)
      BY <1>0, TablesHave
    <3> QED
      BY <3>1, <3>2
  <2> HIDE DEF t, i, ss
  <2>2. Passes(Here(f, ss, i - 1), ss[i])
    BY <1>0, <2>1, CascadePasses
  <2> QED
    BY <2>2 DEF i
<1>2. Passes(Here(f, ss, 2 - 1), ss[2])
  <2> DEFINE t == "devices"
             i == 2
  <2>1. t \in Tables /\ i \in 1..Len(ss) /\ Ends(ss[i], t, FALSE)
    <3>1. Ends(ss[i], t, FALSE)
      BY InitialDownReads
    <3>2. t \in Tables /\ i \in 1..Len(ss)
      BY <1>0, TablesHave
    <3> QED
      BY <3>1, <3>2
  <2>2. f[t] # {}
    BY DEF Keep
  <2>3. \A j \in 1..(i - 1) : ss[j].on = t => ss[j].do # "droptable"
    <3>1. \A j \in 1..(i - 1) : j \in {1}
      OBVIOUS
    <3> QED
      BY <3>1, InitialDownReads DEF Discards, Ends
  <2>4. t \notin Parents
    BY DEF Parents
  <2> HIDE DEF t, i, ss
  <2>5. Passes(Here(f, ss, i - 1), ss[i])
    BY <1>0, <2>1, <2>2, <2>3, <2>4, LeafPasses
  <2> QED
    BY <2>5 DEF i
<1>3. Passes(Here(f, ss, 3 - 1), ss[3])
  <2> DEFINE t == "messages"
             i == 3
             is == "index"
             n == "ix_messages_trip_sent"
             a == Index("ix_messages_trip_sent")
  <2>1. t \in Tables /\ i \in 1..Len(ss) /\ Discards(ss[i], t, is, n)
    BY <1>0, TablesHave, InitialDownReads
  <2>2. a.is = is /\ a.name = n /\ Keep(f[t], a)
    BY DEF Index, Column, GroupKey, Reference
  <2>3. \A j \in 1..(i - 1) : ss[j].on = t => Spares(ss[j], a)
    <3>1. \A j \in 1..(i - 1) : j \in {1, 2}
      OBVIOUS
    <3>2. \A j \in 1..(i - 1) : ss[j].on # t
      BY <3>1, InitialDownReads DEF Discards, Ends
    <3> QED
      BY <3>2
  <2> HIDE DEF t, i, is, n, a, ss
  <2>4. Passes(Here(f, ss, i - 1), ss[i])
    BY <1>0, <2>1, <2>2, <2>3, DropPasses
  <2> QED
    BY <2>4 DEF i
<1>4. Passes(Here(f, ss, 4 - 1), ss[4])
  <2> DEFINE t == "messages"
             i == 4
  <2>1. t \in Tables /\ i \in 1..Len(ss) /\ Ends(ss[i], t, FALSE)
    <3>1. Ends(ss[i], t, FALSE)
      BY InitialDownReads
    <3>2. t \in Tables /\ i \in 1..Len(ss)
      BY <1>0, TablesHave
    <3> QED
      BY <3>1, <3>2
  <2>2. f[t] # {}
    BY DEF Keep
  <2>3. \A j \in 1..(i - 1) : ss[j].on = t => ss[j].do # "droptable"
    <3>1. \A j \in 1..(i - 1) : j \in {1, 2, 3}
      OBVIOUS
    <3> QED
      BY <3>1, InitialDownReads DEF Discards, Ends
  <2>4. t \notin Parents
    BY DEF Parents
  <2> HIDE DEF t, i, ss
  <2>5. Passes(Here(f, ss, i - 1), ss[i])
    BY <1>0, <2>1, <2>2, <2>3, <2>4, LeafPasses
  <2> QED
    BY <2>5 DEF i
<1>5. Passes(Here(f, ss, 5 - 1), ss[5])
  <2> DEFINE t == "waypoints"
             i == 5
             is == "index"
             n == "ix_waypoints_trip_id"
             a == Index("ix_waypoints_trip_id")
  <2>1. t \in Tables /\ i \in 1..Len(ss) /\ Discards(ss[i], t, is, n)
    BY <1>0, TablesHave, InitialDownReads
  <2>2. a.is = is /\ a.name = n /\ Keep(f[t], a)
    BY DEF Index, Column, GroupKey, Reference
  <2>3. \A j \in 1..(i - 1) : ss[j].on = t => Spares(ss[j], a)
    <3>1. \A j \in 1..(i - 1) : j \in {1, 2, 3, 4}
      OBVIOUS
    <3>2. \A j \in 1..(i - 1) : ss[j].on # t
      BY <3>1, InitialDownReads DEF Discards, Ends
    <3> QED
      BY <3>2
  <2> HIDE DEF t, i, is, n, a, ss
  <2>4. Passes(Here(f, ss, i - 1), ss[i])
    BY <1>0, <2>1, <2>2, <2>3, DropPasses
  <2> QED
    BY <2>4 DEF i
<1>6. Passes(Here(f, ss, 6 - 1), ss[6])
  <2> DEFINE t == "waypoints"
             i == 6
             is == "index"
             n == "ix_waypoints_geom"
             a == Index("ix_waypoints_geom")
  <2>1. t \in Tables /\ i \in 1..Len(ss) /\ Discards(ss[i], t, is, n)
    BY <1>0, TablesHave, InitialDownReads
  <2>2. a.is = is /\ a.name = n /\ Keep(f[t], a)
    BY DEF Index, Column, GroupKey, Reference
  <2>3. \A j \in 1..(i - 1) : ss[j].on = t => Spares(ss[j], a)
    <3>1. \A j \in 1..(i - 1) : j \in {1, 2, 3, 4, 5}
      OBVIOUS
    <3>2. \A j \in 1..(i - 1) : ss[j].on = t => j \in {5}
      BY <3>1, InitialDownReads DEF Discards, Ends
    <3>3. a.name = "ix_waypoints_geom"
      BY <2>2
    <3> HIDE DEF a
    <3>4. \A j \in {5} : Spares(ss[j], a)
      BY <3>3, InitialDownReads, DiscardSpares
    <3> QED
      BY <3>2, <3>4
  <2> HIDE DEF t, i, is, n, a, ss
  <2>4. Passes(Here(f, ss, i - 1), ss[i])
    BY <1>0, <2>1, <2>2, <2>3, DropPasses
  <2> QED
    BY <2>4 DEF i
<1>7. Passes(Here(f, ss, 7 - 1), ss[7])
  <2> DEFINE t == "waypoints"
             i == 7
  <2>1. t \in Tables /\ i \in 1..Len(ss) /\ Ends(ss[i], t, FALSE)
    <3>1. Ends(ss[i], t, FALSE)
      BY InitialDownReads
    <3>2. t \in Tables /\ i \in 1..Len(ss)
      BY <1>0, TablesHave
    <3> QED
      BY <3>1, <3>2
  <2>2. f[t] # {}
    BY DEF Keep
  <2>3. \A j \in 1..(i - 1) : ss[j].on = t => ss[j].do # "droptable"
    <3>1. \A j \in 1..(i - 1) : j \in {1, 2, 3, 4, 5, 6}
      OBVIOUS
    <3> QED
      BY <3>1, InitialDownReads DEF Discards, Ends
  <2>4. t \notin Parents
    BY DEF Parents
  <2> HIDE DEF t, i, ss
  <2>5. Passes(Here(f, ss, i - 1), ss[i])
    BY <1>0, <2>1, <2>2, <2>3, <2>4, LeafPasses
  <2> QED
    BY <2>5 DEF i
<1>8. Passes(Here(f, ss, 8 - 1), ss[8])
  <2> DEFINE t == "trip_members"
             i == 8
             is == "index"
             n == "ix_trip_members_user_id"
             a == Index("ix_trip_members_user_id")
  <2>1. t \in Tables /\ i \in 1..Len(ss) /\ Discards(ss[i], t, is, n)
    BY <1>0, TablesHave, InitialDownReads
  <2>2. a.is = is /\ a.name = n /\ Keep(f[t], a)
    BY DEF Index, Column, GroupKey, Reference
  <2>3. \A j \in 1..(i - 1) : ss[j].on = t => Spares(ss[j], a)
    <3>1. \A j \in 1..(i - 1) : j \in {1, 2, 3, 4, 5, 6, 7}
      OBVIOUS
    <3>2. \A j \in 1..(i - 1) : ss[j].on # t
      BY <3>1, InitialDownReads DEF Discards, Ends
    <3> QED
      BY <3>2
  <2> HIDE DEF t, i, is, n, a, ss
  <2>4. Passes(Here(f, ss, i - 1), ss[i])
    BY <1>0, <2>1, <2>2, <2>3, DropPasses
  <2> QED
    BY <2>4 DEF i
<1>9. Passes(Here(f, ss, 9 - 1), ss[9])
  <2> DEFINE t == "trip_members"
             i == 9
  <2>1. t \in Tables /\ i \in 1..Len(ss) /\ Ends(ss[i], t, FALSE)
    <3>1. Ends(ss[i], t, FALSE)
      BY InitialDownReads
    <3>2. t \in Tables /\ i \in 1..Len(ss)
      BY <1>0, TablesHave
    <3> QED
      BY <3>1, <3>2
  <2>2. f[t] # {}
    BY DEF Keep
  <2>3. \A j \in 1..(i - 1) : ss[j].on = t => ss[j].do # "droptable"
    <3>1. \A j \in 1..(i - 1) : j \in {1, 2, 3, 4, 5, 6, 7, 8}
      OBVIOUS
    <3> QED
      BY <3>1, InitialDownReads DEF Discards, Ends
  <2>4. t \notin Parents
    BY DEF Parents
  <2> HIDE DEF t, i, ss
  <2>5. Passes(Here(f, ss, i - 1), ss[i])
    BY <1>0, <2>1, <2>2, <2>3, <2>4, LeafPasses
  <2> QED
    BY <2>5 DEF i
<1>10. Passes(Here(f, ss, 10 - 1), ss[10])
  <2> DEFINE t == "trips"
             i == 10
             is == "index"
             n == "ix_trips_owner_id"
             a == Index("ix_trips_owner_id")
  <2>1. t \in Tables /\ i \in 1..Len(ss) /\ Discards(ss[i], t, is, n)
    BY <1>0, TablesHave, InitialDownReads
  <2>2. a.is = is /\ a.name = n /\ Keep(f[t], a)
    BY DEF Index, Column, GroupKey, Reference
  <2>3. \A j \in 1..(i - 1) : ss[j].on = t => Spares(ss[j], a)
    <3>1. \A j \in 1..(i - 1) : j \in {1, 2, 3, 4, 5, 6, 7, 8, 9}
      OBVIOUS
    <3>2. \A j \in 1..(i - 1) : ss[j].on # t
      BY <3>1, InitialDownReads DEF Discards, Ends
    <3> QED
      BY <3>2
  <2> HIDE DEF t, i, is, n, a, ss
  <2>4. Passes(Here(f, ss, i - 1), ss[i])
    BY <1>0, <2>1, <2>2, <2>3, DropPasses
  <2> QED
    BY <2>4 DEF i
<1>11. Passes(Here(f, ss, 11 - 1), ss[11])
  <2> DEFINE t == "trips"
             i == 11
  <2>1. t \in Tables /\ i \in 1..Len(ss) /\ Ends(ss[i], t, FALSE)
    <3>1. Ends(ss[i], t, FALSE)
      BY InitialDownReads
    <3>2. t \in Tables /\ i \in 1..Len(ss)
      BY <1>0, TablesHave
    <3> QED
      BY <3>1, <3>2
  <2>2. f[t] # {}
    BY DEF Keep
  <2>3. \A j \in 1..(i - 1) : ss[j].on = t => ss[j].do # "droptable"
    <3>1. \A j \in 1..(i - 1) : j \in {1, 2, 3, 4, 5, 6, 7, 8, 9, 10}
      OBVIOUS
    <3> QED
      BY <3>1, InitialDownReads DEF Discards, Ends
  <2>4. ASSUME NEW u \in Tables \ {t}, NEW x \in f[u], NEW a \in x, a.is = "fk", a.to = t
        PROVE  \E j \in 1..(i - 1) : Removes(ss[j], u, a)
    <3>1. Link(u, a)
      BY <2>4 DEF Knit
    <3>2. u \in {"locations", "devices", "messages", "waypoints", "trip_members"}
      <4>1. u \in FirstTables
        <5>1. u \notin NewTables
          BY <2>4
        <5>2. u # "alembic_version"
          BY <2>4
        <5> QED
          BY <2>4, <5>1, <5>2 DEF Tables
      <4> QED
        BY <2>4, <3>1, <4>1 DEF Link, FirstTables
    <3>3. /\ Removes(ss[1], "locations", a)
          /\ Removes(ss[2], "devices", a)
          /\ Removes(ss[4], "messages", a)
          /\ Removes(ss[7], "waypoints", a)
          /\ Removes(ss[9], "trip_members", a)
      BY InitialDownReads DEF Removes, Ends
    <3>4. /\ 1 \in 1..(i - 1) /\ 2 \in 1..(i - 1) /\ 4 \in 1..(i - 1) /\ 7 \in 1..(i - 1) /\ 9 \in 1..(i - 1)
      OBVIOUS
    <3> HIDE DEF i, ss
    <3> QED
      BY <3>2, <3>3, <3>4
  <2> HIDE DEF t, i, ss
  <2>5. Unbound(f, ss, i)
    BY <2>1, <2>4 DEF Unbound, Ends
  <2>6. Passes(Here(f, ss, i - 1), ss[i])
    BY <1>0, <2>1, <2>2, <2>3, <2>5, EndPasses
  <2> QED
    BY <2>6 DEF i
<1>12. Passes(Here(f, ss, 12 - 1), ss[12])
  <2> DEFINE t == "users"
             i == 12
  <2>1. t \in Tables /\ i \in 1..Len(ss) /\ Ends(ss[i], t, FALSE)
    <3>1. Ends(ss[i], t, FALSE)
      BY InitialDownReads
    <3>2. t \in Tables /\ i \in 1..Len(ss)
      BY <1>0, TablesHave
    <3> QED
      BY <3>1, <3>2
  <2>2. f[t] # {}
    BY DEF Keep
  <2>3. \A j \in 1..(i - 1) : ss[j].on = t => ss[j].do # "droptable"
    <3>1. \A j \in 1..(i - 1) : j \in {1, 2, 3, 4, 5, 6, 7, 8, 9, 10, 11}
      OBVIOUS
    <3> QED
      BY <3>1, InitialDownReads DEF Discards, Ends
  <2>4. ASSUME NEW u \in Tables \ {t}, NEW x \in f[u], NEW a \in x, a.is = "fk", a.to = t
        PROVE  \E j \in 1..(i - 1) : Removes(ss[j], u, a)
    <3>1. Link(u, a)
      BY <2>4 DEF Knit
    <3>2. u \in {"locations", "devices", "messages", "waypoints", "trip_members", "trips"}
      <4>1. u \in FirstTables
        <5>1. u \notin NewTables
          BY <2>4
        <5>2. u # "alembic_version"
          BY <2>4
        <5> QED
          BY <2>4, <5>1, <5>2 DEF Tables
      <4> QED
        BY <2>4, <3>1, <4>1 DEF Link, FirstTables
    <3>3. /\ Removes(ss[1], "locations", a)
          /\ Removes(ss[2], "devices", a)
          /\ Removes(ss[4], "messages", a)
          /\ Removes(ss[7], "waypoints", a)
          /\ Removes(ss[9], "trip_members", a)
          /\ Removes(ss[11], "trips", a)
      BY InitialDownReads DEF Removes, Ends
    <3>4. /\ 1 \in 1..(i - 1) /\ 2 \in 1..(i - 1) /\ 4 \in 1..(i - 1) /\ 7 \in 1..(i - 1) /\ 9 \in 1..(i - 1) /\ 11 \in 1..(i - 1)
      OBVIOUS
    <3> HIDE DEF i, ss
    <3> QED
      BY <3>2, <3>3, <3>4
  <2> HIDE DEF t, i, ss
  <2>5. Unbound(f, ss, i)
    BY <2>1, <2>4 DEF Unbound, Ends
  <2>6. Passes(Here(f, ss, i - 1), ss[i])
    BY <1>0, <2>1, <2>2, <2>3, <2>5, EndPasses
  <2> QED
    BY <2>6 DEF i
<1>13. \A i \in 1..12 : i \in {1, 2, 3, 4, 5, 6, 7, 8, 9, 10, 11, 12}
  OBVIOUS
<1> HIDE DEF ss
<1>14. Smooth(f, ss)
  BY <1>0, <1>1, <1>2, <1>3, <1>4, <1>5, <1>6, <1>7, <1>8, <1>9, <1>10, <1>11, <1>12, <1>13 DEF Smooth
<1> QED
  BY <1>14 DEF ss

LEMMA AdvancedDown_MoneySmooth ==
  ASSUME NEW f, Knit(f),
         Keep(f["reminders"], Index("ix_reminders_fire_at")),
         Keep(f["subscriptions"], Index("ix_subscriptions_user")),
         Keep(f["expenses"], Index("ix_expenses_trip")),
         f["expense_shares"] # {}
  PROVE  Smooth(f, AdvancedDown_Money)
<1> DEFINE ss == AdvancedDown_Money
<1>0. GoesDown(ss) /\ Len(ss) = 9
  BY AdvancedDown_MoneyIs, AdvancedDown_MoneyReads DEF DownPart
<1>1. Passes(Here(f, ss, 1 - 1), ss[1])
  <2> DEFINE t == "maps_provider_calls"
             i == 1
  <2>1. t \in Tables /\ i \in 1..Len(ss) /\ Ends(ss[i], t, TRUE)
    <3>1. Ends(ss[i], t, TRUE)
      BY AdvancedDown_MoneyReads
    <3>2. t \in Tables /\ i \in 1..Len(ss)
      BY <1>0, TablesHave
    <3> QED
      BY <3>1, <3>2
  <2> HIDE DEF t, i, ss
  <2>2. Passes(Here(f, ss, i - 1), ss[i])
    BY <1>0, <2>1, CascadePasses
  <2> QED
    BY <2>2 DEF i
<1>2. Passes(Here(f, ss, 2 - 1), ss[2])
  <2> DEFINE t == "events"
             i == 2
  <2>1. t \in Tables /\ i \in 1..Len(ss) /\ Ends(ss[i], t, TRUE)
    <3>1. Ends(ss[i], t, TRUE)
      BY AdvancedDown_MoneyReads
    <3>2. t \in Tables /\ i \in 1..Len(ss)
      BY <1>0, TablesHave
    <3> QED
      BY <3>1, <3>2
  <2> HIDE DEF t, i, ss
  <2>2. Passes(Here(f, ss, i - 1), ss[i])
    BY <1>0, <2>1, CascadePasses
  <2> QED
    BY <2>2 DEF i
<1>3. Passes(Here(f, ss, 3 - 1), ss[3])
  <2> DEFINE t == "reminders"
             i == 3
             is == "index"
             n == "ix_reminders_fire_at"
             a == Index("ix_reminders_fire_at")
  <2>1. t \in Tables /\ i \in 1..Len(ss) /\ Discards(ss[i], t, is, n)
    BY <1>0, TablesHave, AdvancedDown_MoneyReads
  <2>2. a.is = is /\ a.name = n /\ Keep(f[t], a)
    BY DEF Index, Column, GroupKey, Reference
  <2>3. \A j \in 1..(i - 1) : ss[j].on = t => Spares(ss[j], a)
    <3>1. \A j \in 1..(i - 1) : j \in {1, 2}
      OBVIOUS
    <3>2. \A j \in 1..(i - 1) : ss[j].on # t
      BY <3>1, AdvancedDown_MoneyReads DEF Discards, Ends
    <3> QED
      BY <3>2
  <2> HIDE DEF t, i, is, n, a, ss
  <2>4. Passes(Here(f, ss, i - 1), ss[i])
    BY <1>0, <2>1, <2>2, <2>3, DropPasses
  <2> QED
    BY <2>4 DEF i
<1>4. Passes(Here(f, ss, 4 - 1), ss[4])
  <2> DEFINE t == "reminders"
             i == 4
  <2>1. t \in Tables /\ i \in 1..Len(ss) /\ Ends(ss[i], t, FALSE)
    <3>1. Ends(ss[i], t, FALSE)
      BY AdvancedDown_MoneyReads
    <3>2. t \in Tables /\ i \in 1..Len(ss)
      BY <1>0, TablesHave
    <3> QED
      BY <3>1, <3>2
  <2>2. f[t] # {}
    BY DEF Keep
  <2>3. \A j \in 1..(i - 1) : ss[j].on = t => ss[j].do # "droptable"
    <3>1. \A j \in 1..(i - 1) : j \in {1, 2, 3}
      OBVIOUS
    <3> QED
      BY <3>1, AdvancedDown_MoneyReads DEF Discards, Ends
  <2>4. t \notin Parents
    BY DEF Parents
  <2> HIDE DEF t, i, ss
  <2>5. Passes(Here(f, ss, i - 1), ss[i])
    BY <1>0, <2>1, <2>2, <2>3, <2>4, LeafPasses
  <2> QED
    BY <2>5 DEF i
<1>5. Passes(Here(f, ss, 5 - 1), ss[5])
  <2> DEFINE t == "subscriptions"
             i == 5
             is == "index"
             n == "ix_subscriptions_user"
             a == Index("ix_subscriptions_user")
  <2>1. t \in Tables /\ i \in 1..Len(ss) /\ Discards(ss[i], t, is, n)
    BY <1>0, TablesHave, AdvancedDown_MoneyReads
  <2>2. a.is = is /\ a.name = n /\ Keep(f[t], a)
    BY DEF Index, Column, GroupKey, Reference
  <2>3. \A j \in 1..(i - 1) : ss[j].on = t => Spares(ss[j], a)
    <3>1. \A j \in 1..(i - 1) : j \in {1, 2, 3, 4}
      OBVIOUS
    <3>2. \A j \in 1..(i - 1) : ss[j].on # t
      BY <3>1, AdvancedDown_MoneyReads DEF Discards, Ends
    <3> QED
      BY <3>2
  <2> HIDE DEF t, i, is, n, a, ss
  <2>4. Passes(Here(f, ss, i - 1), ss[i])
    BY <1>0, <2>1, <2>2, <2>3, DropPasses
  <2> QED
    BY <2>4 DEF i
<1>6. Passes(Here(f, ss, 6 - 1), ss[6])
  <2> DEFINE t == "subscriptions"
             i == 6
  <2>1. t \in Tables /\ i \in 1..Len(ss) /\ Ends(ss[i], t, FALSE)
    <3>1. Ends(ss[i], t, FALSE)
      BY AdvancedDown_MoneyReads
    <3>2. t \in Tables /\ i \in 1..Len(ss)
      BY <1>0, TablesHave
    <3> QED
      BY <3>1, <3>2
  <2>2. f[t] # {}
    BY DEF Keep
  <2>3. \A j \in 1..(i - 1) : ss[j].on = t => ss[j].do # "droptable"
    <3>1. \A j \in 1..(i - 1) : j \in {1, 2, 3, 4, 5}
      OBVIOUS
    <3> QED
      BY <3>1, AdvancedDown_MoneyReads DEF Discards, Ends
  <2>4. t \notin Parents
    BY DEF Parents
  <2> HIDE DEF t, i, ss
  <2>5. Passes(Here(f, ss, i - 1), ss[i])
    BY <1>0, <2>1, <2>2, <2>3, <2>4, LeafPasses
  <2> QED
    BY <2>5 DEF i
<1>7. Passes(Here(f, ss, 7 - 1), ss[7])
  <2> DEFINE t == "expense_shares"
             i == 7
  <2>1. t \in Tables /\ i \in 1..Len(ss) /\ Ends(ss[i], t, FALSE)
    <3>1. Ends(ss[i], t, FALSE)
      BY AdvancedDown_MoneyReads
    <3>2. t \in Tables /\ i \in 1..Len(ss)
      BY <1>0, TablesHave
    <3> QED
      BY <3>1, <3>2
  <2>2. f[t] # {}
    BY DEF Keep
  <2>3. \A j \in 1..(i - 1) : ss[j].on = t => ss[j].do # "droptable"
    <3>1. \A j \in 1..(i - 1) : j \in {1, 2, 3, 4, 5, 6}
      OBVIOUS
    <3> QED
      BY <3>1, AdvancedDown_MoneyReads DEF Discards, Ends
  <2>4. t \notin Parents
    BY DEF Parents
  <2> HIDE DEF t, i, ss
  <2>5. Passes(Here(f, ss, i - 1), ss[i])
    BY <1>0, <2>1, <2>2, <2>3, <2>4, LeafPasses
  <2> QED
    BY <2>5 DEF i
<1>8. Passes(Here(f, ss, 8 - 1), ss[8])
  <2> DEFINE t == "expenses"
             i == 8
             is == "index"
             n == "ix_expenses_trip"
             a == Index("ix_expenses_trip")
  <2>1. t \in Tables /\ i \in 1..Len(ss) /\ Discards(ss[i], t, is, n)
    BY <1>0, TablesHave, AdvancedDown_MoneyReads
  <2>2. a.is = is /\ a.name = n /\ Keep(f[t], a)
    BY DEF Index, Column, GroupKey, Reference
  <2>3. \A j \in 1..(i - 1) : ss[j].on = t => Spares(ss[j], a)
    <3>1. \A j \in 1..(i - 1) : j \in {1, 2, 3, 4, 5, 6, 7}
      OBVIOUS
    <3>2. \A j \in 1..(i - 1) : ss[j].on # t
      BY <3>1, AdvancedDown_MoneyReads DEF Discards, Ends
    <3> QED
      BY <3>2
  <2> HIDE DEF t, i, is, n, a, ss
  <2>4. Passes(Here(f, ss, i - 1), ss[i])
    BY <1>0, <2>1, <2>2, <2>3, DropPasses
  <2> QED
    BY <2>4 DEF i
<1>9. Passes(Here(f, ss, 9 - 1), ss[9])
  <2> DEFINE t == "expenses"
             i == 9
  <2>1. t \in Tables /\ i \in 1..Len(ss) /\ Ends(ss[i], t, FALSE)
    <3>1. Ends(ss[i], t, FALSE)
      BY AdvancedDown_MoneyReads
    <3>2. t \in Tables /\ i \in 1..Len(ss)
      BY <1>0, TablesHave
    <3> QED
      BY <3>1, <3>2
  <2>2. f[t] # {}
    BY DEF Keep
  <2>3. \A j \in 1..(i - 1) : ss[j].on = t => ss[j].do # "droptable"
    <3>1. \A j \in 1..(i - 1) : j \in {1, 2, 3, 4, 5, 6, 7, 8}
      OBVIOUS
    <3> QED
      BY <3>1, AdvancedDown_MoneyReads DEF Discards, Ends
  <2>4. ASSUME NEW u \in Tables \ {t}, NEW x \in f[u], NEW a \in x, a.is = "fk", a.to = t
        PROVE  \E j \in 1..(i - 1) : Removes(ss[j], u, a)
    <3>1. Link(u, a)
      BY <2>4 DEF Knit
    <3>2. u = "expense_shares"
      BY <2>4, <3>1 DEF Link
    <3>3. 7 \in 1..(i - 1) /\ Removes(ss[7], u, a)
      BY <3>2, AdvancedDown_MoneyReads DEF Removes, Ends
    <3> QED
      BY <3>3
  <2> HIDE DEF t, i, ss
  <2>5. Unbound(f, ss, i)
    BY <2>1, <2>4 DEF Unbound, Ends
  <2>6. Passes(Here(f, ss, i - 1), ss[i])
    BY <1>0, <2>1, <2>2, <2>3, <2>5, EndPasses
  <2> QED
    BY <2>6 DEF i
<1>10. \A i \in 1..9 : i \in {1, 2, 3, 4, 5, 6, 7, 8, 9}
  OBVIOUS
<1> HIDE DEF ss
<1>11. Smooth(f, ss)
  BY <1>0, <1>1, <1>2, <1>3, <1>4, <1>5, <1>6, <1>7, <1>8, <1>9, <1>10 DEF Smooth
<1> QED
  BY <1>11 DEF ss

LEMMA AdvancedDown_SubgroupsSmooth ==
  ASSUME NEW f, Knit(f),
         Keep(f["trip_members"], GroupKey),
         Keep(f["subgroups"], Index("ix_subgroups_trip"))
  PROVE  Smooth(f, AdvancedDown_Subgroups)
<1> DEFINE ss == AdvancedDown_Subgroups
<1>0. GoesDown(ss) /\ Len(ss) = 3
  BY AdvancedDown_SubgroupsIs, AdvancedDown_SubgroupsReads DEF DownPart
<1>1. Passes(Here(f, ss, 1 - 1), ss[1])
  <2> DEFINE t == "trip_members"
             i == 1
             is == "fk"
             n == "subgroup_id"
             a == GroupKey
  <2>1. t \in Tables /\ i \in 1..Len(ss) /\ Discards(ss[i], t, is, n)
    BY <1>0, TablesHave, AdvancedDown_SubgroupsReads
  <2>2. a.is = is /\ a.name = n /\ Keep(f[t], a)
    BY DEF Index, Column, GroupKey, Reference
  <2>3. \A j \in 1..(i - 1) : ss[j].on = t => Spares(ss[j], a)
    <3>1. \A j \in 1..(i - 1) : j \in {}
      OBVIOUS
    <3>2. \A j \in 1..(i - 1) : ss[j].on # t
      BY <3>1, AdvancedDown_SubgroupsReads DEF Discards, Ends
    <3> QED
      BY <3>2
  <2> HIDE DEF t, i, is, n, a, ss
  <2>4. Passes(Here(f, ss, i - 1), ss[i])
    BY <1>0, <2>1, <2>2, <2>3, DropPasses
  <2> QED
    BY <2>4 DEF i
<1>2. Passes(Here(f, ss, 2 - 1), ss[2])
  <2> DEFINE t == "subgroups"
             i == 2
             is == "index"
             n == "ix_subgroups_trip"
             a == Index("ix_subgroups_trip")
  <2>1. t \in Tables /\ i \in 1..Len(ss) /\ Discards(ss[i], t, is, n)
    BY <1>0, TablesHave, AdvancedDown_SubgroupsReads
  <2>2. a.is = is /\ a.name = n /\ Keep(f[t], a)
    BY DEF Index, Column, GroupKey, Reference
  <2>3. \A j \in 1..(i - 1) : ss[j].on = t => Spares(ss[j], a)
    <3>1. \A j \in 1..(i - 1) : j \in {1}
      OBVIOUS
    <3>2. \A j \in 1..(i - 1) : ss[j].on # t
      BY <3>1, AdvancedDown_SubgroupsReads DEF Discards, Ends
    <3> QED
      BY <3>2
  <2> HIDE DEF t, i, is, n, a, ss
  <2>4. Passes(Here(f, ss, i - 1), ss[i])
    BY <1>0, <2>1, <2>2, <2>3, DropPasses
  <2> QED
    BY <2>4 DEF i
<1>3. Passes(Here(f, ss, 3 - 1), ss[3])
  <2> DEFINE t == "subgroups"
             i == 3
  <2>1. t \in Tables /\ i \in 1..Len(ss) /\ Ends(ss[i], t, FALSE)
    <3>1. Ends(ss[i], t, FALSE)
      BY AdvancedDown_SubgroupsReads
    <3>2. t \in Tables /\ i \in 1..Len(ss)
      BY <1>0, TablesHave
    <3> QED
      BY <3>1, <3>2
  <2>2. f[t] # {}
    BY DEF Keep
  <2>3. \A j \in 1..(i - 1) : ss[j].on = t => ss[j].do # "droptable"
    <3>1. \A j \in 1..(i - 1) : j \in {1, 2}
      OBVIOUS
    <3> QED
      BY <3>1, AdvancedDown_SubgroupsReads DEF Discards, Ends
  <2>4. ASSUME NEW u \in Tables \ {t}, NEW x \in f[u], NEW a \in x, a.is = "fk", a.to = t
        PROVE  \E j \in 1..(i - 1) : Removes(ss[j], u, a)
    <3>1. Link(u, a)
      BY <2>4 DEF Knit
    <3>2. u = "trip_members" /\ a.name = "subgroup_id"
      BY <2>4, <3>1 DEF Link
    <3>3. 1 \in 1..(i - 1) /\ Removes(ss[1], u, a)
      BY <3>2, AdvancedDown_SubgroupsReads DEF Removes, Discards
    <3> QED
      BY <3>3
  <2> HIDE DEF t, i, ss
  <2>5. Unbound(f, ss, i)
    BY <2>1, <2>4 DEF Unbound, Ends
  <2>6. Passes(Here(f, ss, i - 1), ss[i])
    BY <1>0, <2>1, <2>2, <2>3, <2>5, EndPasses
  <2> QED
    BY <2>6 DEF i
<1>4. \A i \in 1..3 : i \in {1, 2, 3}
  OBVIOUS
<1> HIDE DEF ss
<1>5. Smooth(f, ss)
  BY <1>0, <1>1, <1>2, <1>3, <1>4 DEF Smooth
<1> QED
  BY <1>5 DEF ss

LEMMA AdvancedDown_SafetySmooth ==
  ASSUME NEW f, Knit(f),
         Keep(f["audit_logs"], Index("ix_audit_logs_subject_created")),
         Keep(f["safety_alerts"], Index("ix_safety_alerts_trip_created"))
  PROVE  Smooth(f, AdvancedDown_Safety)
<1> DEFINE ss == AdvancedDown_Safety
<1>0. GoesDown(ss) /\ Len(ss) = 4
  BY AdvancedDown_SafetyIs, AdvancedDown_SafetyReads DEF DownPart
<1>1. Passes(Here(f, ss, 1 - 1), ss[1])
  <2> DEFINE t == "audit_logs"
             i == 1
             is == "index"
             n == "ix_audit_logs_subject_created"
             a == Index("ix_audit_logs_subject_created")
  <2>1. t \in Tables /\ i \in 1..Len(ss) /\ Discards(ss[i], t, is, n)
    BY <1>0, TablesHave, AdvancedDown_SafetyReads
  <2>2. a.is = is /\ a.name = n /\ Keep(f[t], a)
    BY DEF Index, Column, GroupKey, Reference
  <2>3. \A j \in 1..(i - 1) : ss[j].on = t => Spares(ss[j], a)
    <3>1. \A j \in 1..(i - 1) : j \in {}
      OBVIOUS
    <3>2. \A j \in 1..(i - 1) : ss[j].on # t
      BY <3>1, AdvancedDown_SafetyReads DEF Discards, Ends
    <3> QED
      BY <3>2
  <2> HIDE DEF t, i, is, n, a, ss
  <2>4. Passes(Here(f, ss, i - 1), ss[i])
    BY <1>0, <2>1, <2>2, <2>3, DropPasses
  <2> QED
    BY <2>4 DEF i
<1>2. Passes(Here(f, ss, 2 - 1), ss[2])
  <2> DEFINE t == "audit_logs"
             i == 2
  <2>1. t \in Tables /\ i \in 1..Len(ss) /\ Ends(ss[i], t, FALSE)
    <3>1. Ends(ss[i], t, FALSE)
      BY AdvancedDown_SafetyReads
    <3>2. t \in Tables /\ i \in 1..Len(ss)
      BY <1>0, TablesHave
    <3> QED
      BY <3>1, <3>2
  <2>2. f[t] # {}
    BY DEF Keep
  <2>3. \A j \in 1..(i - 1) : ss[j].on = t => ss[j].do # "droptable"
    <3>1. \A j \in 1..(i - 1) : j \in {1}
      OBVIOUS
    <3> QED
      BY <3>1, AdvancedDown_SafetyReads DEF Discards, Ends
  <2>4. t \notin Parents
    BY DEF Parents
  <2> HIDE DEF t, i, ss
  <2>5. Passes(Here(f, ss, i - 1), ss[i])
    BY <1>0, <2>1, <2>2, <2>3, <2>4, LeafPasses
  <2> QED
    BY <2>5 DEF i
<1>3. Passes(Here(f, ss, 3 - 1), ss[3])
  <2> DEFINE t == "safety_alerts"
             i == 3
             is == "index"
             n == "ix_safety_alerts_trip_created"
             a == Index("ix_safety_alerts_trip_created")
  <2>1. t \in Tables /\ i \in 1..Len(ss) /\ Discards(ss[i], t, is, n)
    BY <1>0, TablesHave, AdvancedDown_SafetyReads
  <2>2. a.is = is /\ a.name = n /\ Keep(f[t], a)
    BY DEF Index, Column, GroupKey, Reference
  <2>3. \A j \in 1..(i - 1) : ss[j].on = t => Spares(ss[j], a)
    <3>1. \A j \in 1..(i - 1) : j \in {1, 2}
      OBVIOUS
    <3>2. \A j \in 1..(i - 1) : ss[j].on # t
      BY <3>1, AdvancedDown_SafetyReads DEF Discards, Ends
    <3> QED
      BY <3>2
  <2> HIDE DEF t, i, is, n, a, ss
  <2>4. Passes(Here(f, ss, i - 1), ss[i])
    BY <1>0, <2>1, <2>2, <2>3, DropPasses
  <2> QED
    BY <2>4 DEF i
<1>4. Passes(Here(f, ss, 4 - 1), ss[4])
  <2> DEFINE t == "safety_alerts"
             i == 4
  <2>1. t \in Tables /\ i \in 1..Len(ss) /\ Ends(ss[i], t, FALSE)
    <3>1. Ends(ss[i], t, FALSE)
      BY AdvancedDown_SafetyReads
    <3>2. t \in Tables /\ i \in 1..Len(ss)
      BY <1>0, TablesHave
    <3> QED
      BY <3>1, <3>2
  <2>2. f[t] # {}
    BY DEF Keep
  <2>3. \A j \in 1..(i - 1) : ss[j].on = t => ss[j].do # "droptable"
    <3>1. \A j \in 1..(i - 1) : j \in {1, 2, 3}
      OBVIOUS
    <3> QED
      BY <3>1, AdvancedDown_SafetyReads DEF Discards, Ends
  <2>4. t \notin Parents
    BY DEF Parents
  <2> HIDE DEF t, i, ss
  <2>5. Passes(Here(f, ss, i - 1), ss[i])
    BY <1>0, <2>1, <2>2, <2>3, <2>4, LeafPasses
  <2> QED
    BY <2>5 DEF i
<1>5. \A i \in 1..4 : i \in {1, 2, 3, 4}
  OBVIOUS
<1> HIDE DEF ss
<1>6. Smooth(f, ss)
  BY <1>0, <1>1, <1>2, <1>3, <1>4, <1>5 DEF Smooth
<1> QED
  BY <1>6 DEF ss

LEMMA AdvancedDown_MembersSmooth ==
  ASSUME NEW f,
         Keep(f["trip_members"], Column("subgroup_id", 0)),
         Keep(f["trip_members"], Column("vehicle_label", 40)),
         Keep(f["trip_members"], Column("is_ready", 0)),
         Keep(f["trip_members"], Column("share_until", 0)),
         Keep(f["trip_members"], Column("visibility_scope", 0))
  PROVE  Smooth(f, AdvancedDown_Members)
<1> DEFINE ss == AdvancedDown_Members
<1>0. GoesDown(ss) /\ Len(ss) = 5
  BY AdvancedDown_MembersIs, AdvancedDown_MembersReads DEF DownPart
<1>1. Passes(Here(f, ss, 1 - 1), ss[1])
  <2> DEFINE t == "trip_members"
             i == 1
             is == "column"
             n == "subgroup_id"
             a == Column("subgroup_id", 0)
  <2>1. t \in Tables /\ i \in 1..Len(ss) /\ Discards(ss[i], t, is, n)
    BY <1>0, TablesHave, AdvancedDown_MembersReads
  <2>2. a.is = is /\ a.name = n /\ Keep(f[t], a)
    BY DEF Index, Column, GroupKey, Reference
  <2>3. \A j \in 1..(i - 1) : ss[j].on = t => Spares(ss[j], a)
    <3>1. \A j \in 1..(i - 1) : j \in {}
      OBVIOUS
    <3>2. \A j \in 1..(i - 1) : ss[j].on # t
      BY <3>1, AdvancedDown_MembersReads DEF Discards, Ends
    <3> QED
      BY <3>2
  <2> HIDE DEF t, i, is, n, a, ss
  <2>4. Passes(Here(f, ss, i - 1), ss[i])
    BY <1>0, <2>1, <2>2, <2>3, DropPasses
  <2> QED
    BY <2>4 DEF i
<1>2. Passes(Here(f, ss, 2 - 1), ss[2])
  <2> DEFINE t == "trip_members"
             i == 2
             is == "column"
             n == "vehicle_label"
             a == Column("vehicle_label", 40)
  <2>1. t \in Tables /\ i \in 1..Len(ss) /\ Discards(ss[i], t, is, n)
    BY <1>0, TablesHave, AdvancedDown_MembersReads
  <2>2. a.is = is /\ a.name = n /\ Keep(f[t], a)
    BY DEF Index, Column, GroupKey, Reference
  <2>3. \A j \in 1..(i - 1) : ss[j].on = t => Spares(ss[j], a)
    <3>1. \A j \in 1..(i - 1) : j \in {1}
      OBVIOUS
    <3>2. \A j \in 1..(i - 1) : ss[j].on = t => j \in {1}
      BY <3>1, AdvancedDown_MembersReads DEF Discards, Ends
    <3>3. a.name = "vehicle_label"
      BY <2>2
    <3> HIDE DEF a
    <3>4. \A j \in {1} : Spares(ss[j], a)
      BY <3>3, AdvancedDown_MembersReads, DiscardSpares
    <3> QED
      BY <3>2, <3>4
  <2> HIDE DEF t, i, is, n, a, ss
  <2>4. Passes(Here(f, ss, i - 1), ss[i])
    BY <1>0, <2>1, <2>2, <2>3, DropPasses
  <2> QED
    BY <2>4 DEF i
<1>3. Passes(Here(f, ss, 3 - 1), ss[3])
  <2> DEFINE t == "trip_members"
             i == 3
             is == "column"
             n == "is_ready"
             a == Column("is_ready", 0)
  <2>1. t \in Tables /\ i \in 1..Len(ss) /\ Discards(ss[i], t, is, n)
    BY <1>0, TablesHave, AdvancedDown_MembersReads
  <2>2. a.is = is /\ a.name = n /\ Keep(f[t], a)
    BY DEF Index, Column, GroupKey, Reference
  <2>3. \A j \in 1..(i - 1) : ss[j].on = t => Spares(ss[j], a)
    <3>1. \A j \in 1..(i - 1) : j \in {1, 2}
      OBVIOUS
    <3>2. \A j \in 1..(i - 1) : ss[j].on = t => j \in {1, 2}
      BY <3>1, AdvancedDown_MembersReads DEF Discards, Ends
    <3>3. a.name = "is_ready"
      BY <2>2
    <3> HIDE DEF a
    <3>4. \A j \in {1, 2} : Spares(ss[j], a)
      BY <3>3, AdvancedDown_MembersReads, DiscardSpares
    <3> QED
      BY <3>2, <3>4
  <2> HIDE DEF t, i, is, n, a, ss
  <2>4. Passes(Here(f, ss, i - 1), ss[i])
    BY <1>0, <2>1, <2>2, <2>3, DropPasses
  <2> QED
    BY <2>4 DEF i
<1>4. Passes(Here(f, ss, 4 - 1), ss[4])
  <2> DEFINE t == "trip_members"
             i == 4
             is == "column"
             n == "share_until"
             a == Column("share_until", 0)
  <2>1. t \in Tables /\ i \in 1..Len(ss) /\ Discards(ss[i], t, is, n)
    BY <1>0, TablesHave, AdvancedDown_MembersReads
  <2>2. a.is = is /\ a.name = n /\ Keep(f[t], a)
    BY DEF Index, Column, GroupKey, Reference
  <2>3. \A j \in 1..(i - 1) : ss[j].on = t => Spares(ss[j], a)
    <3>1. \A j \in 1..(i - 1) : j \in {1, 2, 3}
      OBVIOUS
    <3>2. \A j \in 1..(i - 1) : ss[j].on = t => j \in {1, 2, 3}
      BY <3>1, AdvancedDown_MembersReads DEF Discards, Ends
    <3>3. a.name = "share_until"
      BY <2>2
    <3> HIDE DEF a
    <3>4. \A j \in {1, 2, 3} : Spares(ss[j], a)
      BY <3>3, AdvancedDown_MembersReads, DiscardSpares
    <3> QED
      BY <3>2, <3>4
  <2> HIDE DEF t, i, is, n, a, ss
  <2>4. Passes(Here(f, ss, i - 1), ss[i])
    BY <1>0, <2>1, <2>2, <2>3, DropPasses
  <2> QED
    BY <2>4 DEF i
<1>5. Passes(Here(f, ss, 5 - 1), ss[5])
  <2> DEFINE t == "trip_members"
             i == 5
             is == "column"
             n == "visibility_scope"
             a == Column("visibility_scope", 0)
  <2>1. t \in Tables /\ i \in 1..Len(ss) /\ Discards(ss[i], t, is, n)
    BY <1>0, TablesHave, AdvancedDown_MembersReads
  <2>2. a.is = is /\ a.name = n /\ Keep(f[t], a)
    BY DEF Index, Column, GroupKey, Reference
  <2>3. \A j \in 1..(i - 1) : ss[j].on = t => Spares(ss[j], a)
    <3>1. \A j \in 1..(i - 1) : j \in {1, 2, 3, 4}
      OBVIOUS
    <3>2. \A j \in 1..(i - 1) : ss[j].on = t => j \in {1, 2, 3, 4}
      BY <3>1, AdvancedDown_MembersReads DEF Discards, Ends
    <3>3. a.name = "visibility_scope"
      BY <2>2
    <3> HIDE DEF a
    <3>4. \A j \in {1, 2, 3, 4} : Spares(ss[j], a)
      BY <3>3, AdvancedDown_MembersReads, DiscardSpares
    <3> QED
      BY <3>2, <3>4
  <2> HIDE DEF t, i, is, n, a, ss
  <2>4. Passes(Here(f, ss, i - 1), ss[i])
    BY <1>0, <2>1, <2>2, <2>3, DropPasses
  <2> QED
    BY <2>4 DEF i
<1>6. \A i \in 1..5 : i \in {1, 2, 3, 4, 5}
  OBVIOUS
<1> HIDE DEF ss
<1>7. Smooth(f, ss)
  BY <1>0, <1>1, <1>2, <1>3, <1>4, <1>5, <1>6 DEF Smooth
<1> QED
  BY <1>7 DEF ss

LEMMA IsAdminDownSmooth ==
  ASSUME NEW f,
         Keep(f["users"], Column("is_admin", 0))
  PROVE  Smooth(f, IsAdminDown)
<1> DEFINE ss == IsAdminDown
<1>0. GoesDown(ss) /\ Len(ss) = 1
  BY IsAdminDownIs, IsAdminDownReads DEF DownPart
<1>1. Passes(Here(f, ss, 1 - 1), ss[1])
  <2> DEFINE t == "users"
             i == 1
             is == "column"
             n == "is_admin"
             a == Column("is_admin", 0)
  <2>1. t \in Tables /\ i \in 1..Len(ss) /\ Discards(ss[i], t, is, n)
    BY <1>0, TablesHave, IsAdminDownReads
  <2>2. a.is = is /\ a.name = n /\ Keep(f[t], a)
    BY DEF Index, Column, GroupKey, Reference
  <2>3. \A j \in 1..(i - 1) : ss[j].on = t => Spares(ss[j], a)
    <3>1. \A j \in 1..(i - 1) : j \in {}
      OBVIOUS
    <3>2. \A j \in 1..(i - 1) : ss[j].on # t
      BY <3>1, IsAdminDownReads DEF Discards, Ends
    <3> QED
      BY <3>2
  <2> HIDE DEF t, i, is, n, a, ss
  <2>4. Passes(Here(f, ss, i - 1), ss[i])
    BY <1>0, <2>1, <2>2, <2>3, DropPasses
  <2> QED
    BY <2>4 DEF i
<1>2. \A i \in 1..1 : i \in {1}
  OBVIOUS
<1> HIDE DEF ss
<1>3. Smooth(f, ss)
  BY <1>0, <1>1, <1>2 DEF Smooth
<1> QED
  BY <1>3 DEF ss

LEMMA AdvancedDown_RolesSmooth ==
  ASSUME NEW f, f["trip_members"] = {Enriched}, Keep(f["trips"], Column("cover_color", 9)),
         Keep(f["trips"], Column("template", 40))
  PROVE  Smooth(f, AdvancedDown_Roles)
<1> DEFINE ss == AdvancedDown_Roles
           t == "trip_members"
           p == "trips"
           c == Column("cover_color", 9)
           d == Column("template", 40)
           s3 == Drop("check", "trip_members", "role")
           s4 == Add("trip_members", PlainCheck, "plain")
<1>1. IsSeq(ss) /\ GoesDown(ss) /\ Len(ss) = 4 /\ ss[3] = s3 /\ ss[4] = s4
  <2>1. IsSeq(ss) /\ GoesDown(ss)
    BY AdvancedDown_RolesIs DEF GoesDown
  <2> QED
    BY <2>1, AdvancedDown_RolesReads DEF AdvancedDown_Roles, PlainCheck
<1>2. /\ Discards(ss[1], p, "column", "cover_color") /\ Discards(ss[2], p, "column", "template")
      /\ ss[1].on # t /\ ss[2].on # t
  BY AdvancedDown_RolesReads DEF Discards
<1>3. /\ s3.on = t /\ s3.do = "drop" /\ s3.is = "check" /\ s3.name = "role"
      /\ s4.on = t /\ s4.do = "add" /\ s4.shape = {PlainCheck}
  BY DEF Add, Drop
<1>4. Altered(Enriched, s3) = Unchecked
  BY CheckSwapped
<1>5. /\ PlainCheck.is = "check" /\ PlainCheck.name = "role"
      /\ RichCheck.is = "check" /\ RichCheck.name = "role"
  BY DEF PlainCheck, RichCheck, Check
<1>6. t \in Tables /\ p \in Tables /\ f[t] = {Enriched}
  BY TablesHave
<1>7. Exists(Enriched, "check", "role")
  BY <1>5 DEF Exists, Enriched
<1>8. ~Exists(Unchecked, "check", "role")
  BY GroupedHas DEF Exists, Unchecked
<1>9. /\ c.is = "column" /\ c.name = "cover_color" /\ Keep(f[p], c)
      /\ d.is = "column" /\ d.name = "template" /\ Keep(f[p], d)
  BY DEF Column
<1> HIDE DEF ss, t, p, c, d, s3, s4
<1>10. Passes(Here(f, ss, 0), ss[1])
  <2> DEFINE i == 1
             is == "column"
             n == "cover_color"
  <2>1. i \in 1..Len(ss) /\ Discards(ss[i], p, is, n) /\ c.is = is /\ c.name = n /\ i - 1 = 0
    BY <1>1, <1>2, <1>9
  <2>2. \A j \in 1..(i - 1) : ss[j].on = p => Spares(ss[j], c)
    OBVIOUS
  <2> HIDE DEF i, is, n
  <2>3. Passes(Here(f, ss, i - 1), ss[i])
    BY <1>1, <1>6, <1>9, <2>1, <2>2, DropPasses
  <2> QED
    BY <2>1, <2>3 DEF i
<1>11. Passes(Here(f, ss, 1), ss[2])
  <2> DEFINE i == 2
             is == "column"
             n == "template"
  <2>1. i \in 1..Len(ss) /\ Discards(ss[i], p, is, n) /\ d.is = is /\ d.name = n /\ i - 1 = 1
    BY <1>1, <1>2, <1>9
  <2>2. \A j \in 1..(i - 1) : ss[j].on = p => Spares(ss[j], d)
    <3>1. Spares(ss[1], d)
      BY <1>2, <1>9, DiscardSpares
    <3>2. \A j \in 1..(i - 1) : j = 1
      OBVIOUS
    <3> QED
      BY <3>1, <3>2
  <2> HIDE DEF i, is, n
  <2>3. Passes(Here(f, ss, i - 1), ss[i])
    BY <1>1, <1>6, <1>9, <2>1, <2>2, DropPasses
  <2> QED
    BY <2>1, <2>3 DEF i
<1>12. Here(f, ss, 2)[t] = {Enriched} /\ Here(f, ss, 3)[t] = {Unchecked}
  <2>1. /\ Course(t, f[t], ss)[0] = f[t]
        /\ \A k \in 1..4 : Course(t, f[t], ss)[k] = StepOn(t, Course(t, f[t], ss)[k - 1], ss[k])
    <3> DEFINE o == f[t]
    <3> HIDE DEF o
    <3>1. /\ Course(t, o, ss)[0] = o
          /\ \A k \in 1..Len(ss) : Course(t, o, ss)[k] = StepOn(t, Course(t, o, ss)[k - 1], ss[k])
      <4>1. IsSeq(ss)
        BY <1>1
      <4> QED
        BY <4>1, CourseSteps
    <3>2. Len(ss) = 4
      BY <1>1
    <3> QED
      BY <3>1, <3>2 DEF o
  <2>2. 1 \in 1..4 /\ 2 \in 1..4 /\ 3 \in 1..4 /\ 1 - 1 = 0 /\ 2 - 1 = 1 /\ 3 - 1 = 2
    OBVIOUS
  <2>3. Course(t, f[t], ss)[1] = {Enriched}
    BY <1>2, <1>6, <2>1, <2>2 DEF StepOn
  <2>4. Course(t, f[t], ss)[2] = {Enriched}
    BY <1>2, <2>1, <2>2, <2>3 DEF StepOn
  <2>5. Course(t, f[t], ss)[3] = StepOn(t, {Enriched}, s3)
    BY <1>1, <2>1, <2>2, <2>4
  <2>6. StepOn(t, {Enriched}, s3) = {Unchecked}
    BY <1>3, <1>4, StepAlter
  <2> QED
    BY <1>6, <2>4, <2>5, <2>6 DEF Here
<1>13. Passes(Here(f, ss, 2), s3)
  <2>1. \A x \in Here(f, ss, 2)[t] : Exists(x, "check", "role")
    BY <1>7, <1>12
  <2> QED
    BY <1>3, <1>6, <1>12, <2>1 DEF Passes
<1>14. Passes(Here(f, ss, 3), s4)
  <2>1. Targets(s4.shape) = {}
    BY <1>3, <1>5 DEF Targets
  <2>2. \A x \in Here(f, ss, 3)[t], a \in s4.shape : ~Exists(x, a.is, a.name)
    BY <1>3, <1>5, <1>8, <1>12
  <2> QED
    BY <1>3, <1>6, <1>12, <2>1, <2>2 DEF Passes
<1>15. ASSUME NEW n \in 1..4 PROVE Passes(Here(f, ss, n - 1), ss[n])
  <2>1. CASE n = 1
    BY <1>10, <2>1
  <2>2. CASE n = 2
    BY <1>11, <2>2
  <2>3. CASE n = 3
    BY <1>1, <1>13, <2>3
  <2>4. CASE n = 4
    BY <1>1, <1>14, <2>4
  <2> QED
    BY <2>1, <2>2, <2>3, <2>4
<1> QED
  BY <1>1, <1>15 DEF Smooth, ss

-----------------------------------------------------------------------------
(* What a downgrade drops was there.                                       *)

LEMMA FirstHad ==
  /\ Keep(Rev(1)["messages"], Index("ix_messages_trip_sent"))
  /\ Keep(Rev(1)["waypoints"], Index("ix_waypoints_trip_id"))
  /\ Keep(Rev(1)["waypoints"], Index("ix_waypoints_geom"))
  /\ Keep(Rev(1)["trip_members"], Index("ix_trip_members_user_id"))
  /\ Keep(Rev(1)["trips"], Index("ix_trips_owner_id"))
  /\ Rev(1)["devices"] # {}
<1>1. Keep(Rev(1)["messages"], Index("ix_messages_trip_sent"))
  <2> DEFINE t == "messages"
             v == 1
             w == 1
             i == 6
             a == Index("ix_messages_trip_sent")
  <2>1. v \in 1..3 /\ w \in v..3 /\ i \in 1..Len(Initial_Rest) /\ t \in Tables /\ PartOf(Initial_Rest, v)
        /\ Adds(Initial_Rest[i], t, a)
    BY Initial_RestReads, TablesHave, UpParts
  <2>2. a.is # "check"
    BY DEF Index, Column
  <2> HIDE DEF t, v, w, i, a
  <2>3. \A x \in v..3 : Keep(Rev(x)[t], a)
    BY <2>1, <2>2, Added
  <2> QED
    BY <2>1, <2>3 DEF t, w, a
<1>2. Keep(Rev(1)["waypoints"], Index("ix_waypoints_trip_id"))
  <2> DEFINE t == "waypoints"
             v == 1
             w == 1
             i == 4
             a == Index("ix_waypoints_trip_id")
  <2>1. v \in 1..3 /\ w \in v..3 /\ i \in 1..Len(Initial_Rest) /\ t \in Tables /\ PartOf(Initial_Rest, v)
        /\ Adds(Initial_Rest[i], t, a)
    BY Initial_RestReads, TablesHave, UpParts
  <2>2. a.is # "check"
    BY DEF Index, Column
  <2> HIDE DEF t, v, w, i, a
  <2>3. \A x \in v..3 : Keep(Rev(x)[t], a)
    BY <2>1, <2>2, Added
  <2> QED
    BY <2>1, <2>3 DEF t, w, a
<1>3. Keep(Rev(1)["waypoints"], Index("ix_waypoints_geom"))
  <2> DEFINE t == "waypoints"
             v == 1
             w == 1
             i == 3
             a == Index("ix_waypoints_geom")
  <2>1. v \in 1..3 /\ w \in v..3 /\ i \in 1..Len(Initial_Rest) /\ t \in Tables /\ PartOf(Initial_Rest, v)
        /\ Adds(Initial_Rest[i], t, a)
    BY Initial_RestReads, TablesHave, UpParts
  <2>2. a.is # "check"
    BY DEF Index, Column
  <2> HIDE DEF t, v, w, i, a
  <2>3. \A x \in v..3 : Keep(Rev(x)[t], a)
    BY <2>1, <2>2, Added
  <2> QED
    BY <2>1, <2>3 DEF t, w, a
<1>4. Keep(Rev(1)["trip_members"], Index("ix_trip_members_user_id"))
  <2> DEFINE t == "trip_members"
             v == 1
             w == 1
             i == 5
             a == Index("ix_trip_members_user_id")
  <2>1. v \in 1..3 /\ w \in v..3 /\ i \in 1..Len(Initial_Trips) /\ t \in Tables /\ PartOf(Initial_Trips, v)
        /\ Adds(Initial_Trips[i], t, a)
    BY Initial_TripsReads, TablesHave, UpParts
  <2>2. a.is # "check"
    BY DEF Index, Column
  <2> HIDE DEF t, v, w, i, a
  <2>3. \A x \in v..3 : Keep(Rev(x)[t], a)
    BY <2>1, <2>2, Added
  <2> QED
    BY <2>1, <2>3 DEF t, w, a
<1>5. Keep(Rev(1)["trips"], Index("ix_trips_owner_id"))
  <2> DEFINE t == "trips"
             v == 1
             w == 1
             i == 3
             a == Index("ix_trips_owner_id")
  <2>1. v \in 1..3 /\ w \in v..3 /\ i \in 1..Len(Initial_Trips) /\ t \in Tables /\ PartOf(Initial_Trips, v)
        /\ Adds(Initial_Trips[i], t, a)
    BY Initial_TripsReads, TablesHave, UpParts
  <2>2. a.is # "check"
    BY DEF Index, Column
  <2> HIDE DEF t, v, w, i, a
  <2>3. \A x \in v..3 : Keep(Rev(x)[t], a)
    BY <2>1, <2>2, Added
  <2> QED
    BY <2>1, <2>3 DEF t, w, a
<1>6. Rev(1)["devices"] # {}
  <2> DEFINE t == "devices"
             v == 1
             w == 1
             i == 7
             plain == {"id", "user_id", "last_seen_at"}
             text == [fcm_token |-> 500, platform |-> 10]
             keys == UserKey
             checks == None
             o == Column("id", 0)
  <2>1. Initial_Rest[i] = Create(t, plain, text, keys, checks)
    BY DEF Initial_Rest
  <2>2. v \in 1..3 /\ w \in v..3 /\ i \in 1..Len(Initial_Rest) /\ t \in Tables /\ PartOf(Initial_Rest, v)
    BY Initial_RestReads, TablesHave, UpParts
  <2>3. o \in Columns(plain, text)
    BY DEF Columns
  <2> HIDE DEF t, v, w, i, plain, text, keys, checks, o
  <2>4. \A x \in v..3 : \A b \in Columns(plain, text) : Keep(Rev(x)[t], b)
    BY <2>1, <2>2, Created
  <2>5. Keep(Rev(w)[t], o)
    BY <2>2, <2>3, <2>4
  <2> QED
    BY <2>5 DEF t, w, Keep
<1> QED
  BY <1>1, <1>2, <1>3, <1>4, <1>5, <1>6

LEMMA SecondHad ==
  /\ Keep(Rev(2)["reminders"], Index("ix_reminders_fire_at"))
  /\ Keep(Rev(2)["subscriptions"], Index("ix_subscriptions_user"))
  /\ Keep(Rev(2)["expenses"], Index("ix_expenses_trip"))
  /\ Keep(Rev(2)["subgroups"], Index("ix_subgroups_trip"))
  /\ Keep(Rev(2)["audit_logs"], Index("ix_audit_logs_subject_created"))
  /\ Keep(Rev(2)["safety_alerts"], Index("ix_safety_alerts_trip_created"))
  /\ Keep(Rev(2)["trips"], Column("cover_color", 9))
  /\ Keep(Rev(2)["trips"], Column("template", 40))
  /\ Rev(2)["expense_shares"] # {}
<1>1. Keep(Rev(2)["reminders"], Index("ix_reminders_fire_at"))
  <2> DEFINE t == "reminders"
             v == 2
             w == 2
             i == 7
             a == Index("ix_reminders_fire_at")
  <2>1. v \in 1..3 /\ w \in v..3 /\ i \in 1..Len(Advanced_Money) /\ t \in Tables /\ PartOf(Advanced_Money, v)
        /\ Adds(Advanced_Money[i], t, a)
    BY Advanced_MoneyReads, TablesHave, UpParts
  <2>2. a.is # "check"
    BY DEF Index, Column
  <2> HIDE DEF t, v, w, i, a
  <2>3. \A x \in v..3 : Keep(Rev(x)[t], a)
    BY <2>1, <2>2, Added
  <2> QED
    BY <2>1, <2>3 DEF t, w, a
<1>2. Keep(Rev(2)["subscriptions"], Index("ix_subscriptions_user"))
  <2> DEFINE t == "subscriptions"
             v == 2
             w == 2
             i == 5
             a == Index("ix_subscriptions_user")
  <2>1. v \in 1..3 /\ w \in v..3 /\ i \in 1..Len(Advanced_Money) /\ t \in Tables /\ PartOf(Advanced_Money, v)
        /\ Adds(Advanced_Money[i], t, a)
    BY Advanced_MoneyReads, TablesHave, UpParts
  <2>2. a.is # "check"
    BY DEF Index, Column
  <2> HIDE DEF t, v, w, i, a
  <2>3. \A x \in v..3 : Keep(Rev(x)[t], a)
    BY <2>1, <2>2, Added
  <2> QED
    BY <2>1, <2>3 DEF t, w, a
<1>3. Keep(Rev(2)["expenses"], Index("ix_expenses_trip"))
  <2> DEFINE t == "expenses"
             v == 2
             w == 2
             i == 2
             a == Index("ix_expenses_trip")
  <2>1. v \in 1..3 /\ w \in v..3 /\ i \in 1..Len(Advanced_Money) /\ t \in Tables /\ PartOf(Advanced_Money, v)
        /\ Adds(Advanced_Money[i], t, a)
    BY Advanced_MoneyReads, TablesHave, UpParts
  <2>2. a.is # "check"
    BY DEF Index, Column
  <2> HIDE DEF t, v, w, i, a
  <2>3. \A x \in v..3 : Keep(Rev(x)[t], a)
    BY <2>1, <2>2, Added
  <2> QED
    BY <2>1, <2>3 DEF t, w, a
<1>4. Keep(Rev(2)["subgroups"], Index("ix_subgroups_trip"))
  <2> DEFINE t == "subgroups"
             v == 2
             w == 2
             i == 6
             a == Index("ix_subgroups_trip")
  <2>1. v \in 1..3 /\ w \in v..3 /\ i \in 1..Len(Advanced_Safety) /\ t \in Tables /\ PartOf(Advanced_Safety, v)
        /\ Adds(Advanced_Safety[i], t, a)
    BY Advanced_SafetyReads, TablesHave, UpParts
  <2>2. a.is # "check"
    BY DEF Index, Column
  <2> HIDE DEF t, v, w, i, a
  <2>3. \A x \in v..3 : Keep(Rev(x)[t], a)
    BY <2>1, <2>2, Added
  <2> QED
    BY <2>1, <2>3 DEF t, w, a
<1>5. Keep(Rev(2)["audit_logs"], Index("ix_audit_logs_subject_created"))
  <2> DEFINE t == "audit_logs"
             v == 2
             w == 2
             i == 4
             a == Index("ix_audit_logs_subject_created")
  <2>1. v \in 1..3 /\ w \in v..3 /\ i \in 1..Len(Advanced_Safety) /\ t \in Tables /\ PartOf(Advanced_Safety, v)
        /\ Adds(Advanced_Safety[i], t, a)
    BY Advanced_SafetyReads, TablesHave, UpParts
  <2>2. a.is # "check"
    BY DEF Index, Column
  <2> HIDE DEF t, v, w, i, a
  <2>3. \A x \in v..3 : Keep(Rev(x)[t], a)
    BY <2>1, <2>2, Added
  <2> QED
    BY <2>1, <2>3 DEF t, w, a
<1>6. Keep(Rev(2)["safety_alerts"], Index("ix_safety_alerts_trip_created"))
  <2> DEFINE t == "safety_alerts"
             v == 2
             w == 2
             i == 2
             a == Index("ix_safety_alerts_trip_created")
  <2>1. v \in 1..3 /\ w \in v..3 /\ i \in 1..Len(Advanced_Safety) /\ t \in Tables /\ PartOf(Advanced_Safety, v)
        /\ Adds(Advanced_Safety[i], t, a)
    BY Advanced_SafetyReads, TablesHave, UpParts
  <2>2. a.is # "check"
    BY DEF Index, Column
  <2> HIDE DEF t, v, w, i, a
  <2>3. \A x \in v..3 : Keep(Rev(x)[t], a)
    BY <2>1, <2>2, Added
  <2> QED
    BY <2>1, <2>3 DEF t, w, a
<1>7. Keep(Rev(2)["trips"], Column("cover_color", 9))
  <2> DEFINE t == "trips"
             v == 2
             w == 2
             i == 2
             a == Column("cover_color", 9)
  <2>1. v \in 1..3 /\ w \in v..3 /\ i \in 1..Len(Advanced_Trips) /\ t \in Tables /\ PartOf(Advanced_Trips, v)
        /\ Adds(Advanced_Trips[i], t, a)
    BY Advanced_TripsReads, TablesHave, UpParts
  <2>2. a.is # "check"
    BY DEF Index, Column
  <2> HIDE DEF t, v, w, i, a
  <2>3. \A x \in v..3 : Keep(Rev(x)[t], a)
    BY <2>1, <2>2, Added
  <2> QED
    BY <2>1, <2>3 DEF t, w, a
<1>8. Keep(Rev(2)["trips"], Column("template", 40))
  <2> DEFINE t == "trips"
             v == 2
             w == 2
             i == 1
             a == Column("template", 40)
  <2>1. v \in 1..3 /\ w \in v..3 /\ i \in 1..Len(Advanced_Trips) /\ t \in Tables /\ PartOf(Advanced_Trips, v)
        /\ Adds(Advanced_Trips[i], t, a)
    BY Advanced_TripsReads, TablesHave, UpParts
  <2>2. a.is # "check"
    BY DEF Index, Column
  <2> HIDE DEF t, v, w, i, a
  <2>3. \A x \in v..3 : Keep(Rev(x)[t], a)
    BY <2>1, <2>2, Added
  <2> QED
    BY <2>1, <2>3 DEF t, w, a
<1>9. Rev(2)["expense_shares"] # {}
  <2> DEFINE t == "expense_shares"
             v == 2
             w == 2
             i == 3
             plain == {"expense_id", "user_id", "share_cents"}
             text == None
             keys == [expense_id |-> "expenses", user_id |-> "users"]
             checks == None
             o == Column("expense_id", 0)
  <2>1. Advanced_Money[i] = Create(t, plain, text, keys, checks)
    BY DEF Advanced_Money
  <2>2. v \in 1..3 /\ w \in v..3 /\ i \in 1..Len(Advanced_Money) /\ t \in Tables /\ PartOf(Advanced_Money, v)
    BY Advanced_MoneyReads, TablesHave, UpParts
  <2>3. o \in Columns(plain, text)
    BY DEF Columns
  <2> HIDE DEF t, v, w, i, plain, text, keys, checks, o
  <2>4. \A x \in v..3 : \A b \in Columns(plain, text) : Keep(Rev(x)[t], b)
    BY <2>1, <2>2, Created
  <2>5. Keep(Rev(w)[t], o)
    BY <2>2, <2>3, <2>4
  <2> QED
    BY <2>5 DEF t, w, Keep
<1> QED
  BY <1>1, <1>2, <1>3, <1>4, <1>5, <1>6, <1>7, <1>8, <1>9

LEMMA KnitRev ==
  ASSUME NEW v \in Version
  PROVE  Knit(Rev(v))
BY RevLinks DEF Knit

LEMMA DownOneSmooth == Smooth(Rev(1), Down(1))
<1> DEFINE f == Rev(1)
<1>1. Knit(f)
  <2>1. 1 \in Version
    BY DEF Version
  <2> QED
    BY <2>1, KnitRev
<1>2. f["users"] # {} /\ \A t \in NewTables : f[t] = {}
  BY FirstRev
<1>3. f["alembic_version"] = {}
  <2>1. 1 \in 1..3 /\ 1 - 1 = 0 /\ "alembic_version" \in Tables
    BY DEF Tables
  <2> DEFINE t == "alembic_version"
             X == FirstTables
  <2>2. About(Up(1), X) /\ t \notin X /\ IsSeq(Up(1))
    BY <2>1, UpIs, DownSeq DEF UpPart, FirstTables
  <2> HIDE DEF t, X
  <2>3. After(Rev(0), Up(1))[t] = Rev(0)[t]
    BY <2>1, <2>2, AfterRests DEF t
  <2>4. Rev(0)[t] = {}
    BY <2>1, RevisionNone DEF Rev, t
  <2> QED
    BY <2>1, <2>3, <2>4, RevAfter DEF t
<1> HIDE DEF f
<1>4. Smooth(f, InitialDown)
  BY <1>1, <1>2, <1>3, FirstHad, InitialDownSmooth DEF f
<1> QED
  BY <1>4 DEF Down, f

LEMMA DownTwoSmooth == Smooth(Rev(2), Down(2))
<1> DEFINE y == AdvancedDown_Money
           b == AdvancedDown_Subgroups
           s == AdvancedDown_Safety
           r == AdvancedDown_Roles
           m == AdvancedDown_Members
           f0 == Rev(2)
           f1 == After(f0, y)
           f2 == After(f1, b)
           f3 == After(f2, s)
           f4 == After(f3, r)
           XY == {"events", "expense_shares", "expenses", "maps_provider_calls", "reminders",
                  "subscriptions"}
           XB == {"subgroups", "trip_members"}
           XS == {"audit_logs", "safety_alerts"}
           tm == "trip_members"
           tr == "trips"
           sg == "subgroups"
           au == "audit_logs"
           sa == "safety_alerts"
<1>1. /\ GoesDown(y) /\ GoesDown(b) /\ GoesDown(s) /\ GoesDown(r) /\ GoesDown(m)
      /\ About(y, XY) /\ About(b, XB) /\ About(s, XS)
  BY AdvancedDown_MoneyIs, AdvancedDown_SubgroupsIs, AdvancedDown_SafetyIs,
     AdvancedDown_RolesIs, AdvancedDown_MembersIs
<1>2. IsSeq(y) /\ IsSeq(b) /\ IsSeq(s) /\ IsSeq(r) /\ IsSeq(m)
  BY <1>1 DEF GoesDown
<1>3. /\ tm \notin XY /\ tr \notin XY /\ sg \notin XY /\ au \notin XY /\ sa \notin XY
      /\ tr \notin XB /\ au \notin XB /\ sa \notin XB /\ tm \notin XS /\ tr \notin XS
      /\ tm \in Tables /\ tr \in Tables /\ sg \in Tables /\ au \in Tables /\ sa \in Tables
  BY TablesHave
<1>4. Knit(f0)
  <2>1. 2 \in Version
    BY DEF Version
  <2> QED
    BY <2>1, KnitRev
<1>5. f0[tm] = {Secondary}
  BY MembersSecond
<1>6. Smooth(f0, y)
  BY <1>4, SecondHad, AdvancedDown_MoneySmooth
<1> HIDE DEF f0, XY, XB, XS, f1, f2, f3, f4, tm, tr, sg, au, sa
<1>7. /\ f1[tm] = {Secondary} /\ f1[tr] = f0[tr] /\ f1[sg] = f0[sg]
      /\ f1[au] = f0[au] /\ f1[sa] = f0[sa]
  BY <1>1, <1>2, <1>3, <1>5, AfterRests DEF f1
<1>8. Knit(f1) /\ Knit(f2)
  BY <1>1, <1>4, KnitDown DEF f1, f2
<1>9. Smooth(f1, b)
  <2>1. Keep(f1["trip_members"], GroupKey)
    BY <1>7 DEF Keep, Secondary, tm
  <2>2. Keep(f1["subgroups"], Index("ix_subgroups_trip"))
    BY <1>7, SecondHad DEF sg, f0
  <2> QED
    BY <1>8, <2>1, <2>2, AdvancedDown_SubgroupsSmooth
<1>10. f2[tm] = {Enriched}
  <2>1. f2[tm] = End(tm, f1[tm], b)
    BY <1>3 DEF f2, After
  <2> QED
    BY <1>7, <2>1, KeyDropped DEF tm
<1>11. f2[tr] = f0[tr] /\ f2[au] = f0[au] /\ f2[sa] = f0[sa]
  BY <1>1, <1>2, <1>3, <1>7, AfterRests DEF f2
<1>12. Smooth(f2, s)
  BY <1>8, <1>11, SecondHad, AdvancedDown_SafetySmooth DEF au, sa, f0
<1>13. f3[tm] = {Enriched} /\ f3[tr] = f0[tr]
  BY <1>1, <1>2, <1>3, <1>10, <1>11, AfterRests DEF f3
<1>14. Smooth(f3, r)
  BY <1>13, SecondHad, AdvancedDown_RolesSmooth DEF tm, tr, f0
<1>15. f4[tm] = {Grouped}
  <2>1. f4[tm] = End(tm, f3[tm], r)
    BY <1>3 DEF f4, After
  <2> QED
    BY <1>13, <2>1, RolesBack DEF tm
<1>16. Smooth(f4, m)
  <2>1. \A a : a \in Grouped => Keep(f4["trip_members"], a)
    BY <1>15 DEF Keep, tm
  <2>2. /\ Column("subgroup_id", 0) \in Grouped /\ Column("vehicle_label", 40) \in Grouped
        /\ Column("is_ready", 0) \in Grouped /\ Column("share_until", 0) \in Grouped
        /\ Column("visibility_scope", 0) \in Grouped
    BY GroupedHas
  <2> QED
    BY <2>1, <2>2, AdvancedDown_MembersSmooth
<1>17. Leaves(f0, y, f1) /\ Leaves(f1, b, f2) /\ Leaves(f2, s, f3) /\ Leaves(f3, r, f4)
       /\ Leaves(f4, m, After(f4, m))
  BY <1>2, <1>6, <1>9, <1>12, <1>14, <1>16 DEF Leaves, f1, f2, f3, f4
<1>18. Down(2) = y \o b \o s \o r \o m
  BY DEF Down
<1> HIDE DEF y, b, s, r, m
<1>19. Leaves(f0, y \o b \o s \o r \o m, After(f4, m))
  <2>1. Leaves(f0, y \o b, f2)
    BY <1>17, LeavesOn
  <2>2. Leaves(f0, y \o b \o s, f3)
    BY <1>17, <2>1, LeavesOn
  <2>3. Leaves(f0, y \o b \o s \o r, f4)
    BY <1>17, <2>2, LeavesOn
  <2> QED
    BY <1>17, <2>3, LeavesOn
<1> QED
  BY <1>18, <1>19 DEF Leaves, f0

\* No statement of a downgrade is refused for what it finds of the revision.
LEMMA DownSmooth ==
  ASSUME NEW v \in 1..3
  PROVE  Smooth(Rev(v), Down(v))
<1>1. CASE v = 1
  BY <1>1, DownOneSmooth
<1>2. CASE v = 2
  BY <1>2, DownTwoSmooth
<1>3. CASE v = 3
  <2>1. Smooth(Rev(3), IsAdminDown)
    BY UsersHead, IsAdminDownSmooth
  <2> QED
    BY <1>3, <2>1 DEF Down
<1> QED
  BY <1>1, <1>2, <1>3

-----------------------------------------------------------------------------
(* The stamps.                                                             *)

\* After the first n statements of ss, begun at revision u, the stamp is at x.
Latest(ss, n, u, x) ==
  \/ x = u /\ \A j \in 1..n : ss[j].do # "stamp"
  \/ \E j \in 1..n : /\ ss[j].do = "stamp" /\ ss[j].to = x
                     /\ \A k \in (j + 1)..n : ss[k].do # "stamp"
\* Every stamp finds the revision it asks for.
Chained(ss, u, v) ==
  /\ IsSeq(ss) /\ Latest(ss, Len(ss), u, v)
  /\ \A i \in 1..Len(ss) : ss[i].do = "stamp" => Latest(ss, i - 1, u, ss[i].from)

LEMMA LatestOn ==
  ASSUME NEW a, NEW b, IsSeq(a), IsSeq(b), NEW u, NEW v, NEW x, NEW n \in 0..Len(b),
         Latest(a, Len(a), u, v), Latest(b, n, v, x)
  PROVE  Latest(a \o b, Len(a) + n, u, x)
<1> DEFINE m == Len(a)
           ab == a \o b
<1>1. /\ m \in Nat /\ n \in Nat /\ Len(b) \in Nat
      /\ (\A i \in 1..m : ab[i] = a[i]) /\ (\A i \in 1..Len(b) : ab[m + i] = b[i])
  BY Joined
<1>2. \A k \in 1..(m + n) : k \in 1..m \/ (k - m \in 1..n /\ m + (k - m) = k /\ k - m \in 1..Len(b))
  BY <1>1
<1> HIDE DEF ab, m
<1>3. CASE x = v /\ \A j \in 1..n : b[j].do # "stamp"
  <2>1. ASSUME NEW k \in 1..(m + n), k \notin 1..m PROVE ab[k].do # "stamp"
    <3> DEFINE j == k - m
    <3>1. j \in 1..n /\ m + j = k /\ j \in 1..Len(b)
      BY <1>2, <2>1
    <3> HIDE DEF j
    <3>2. ab[m + j] = b[j]
      BY <1>1, <3>1
    <3> QED
      BY <1>3, <3>1, <3>2
  <2>2. CASE v = u /\ \A j \in 1..m : a[j].do # "stamp"
    <3>1. \A k \in 1..(m + n) : ab[k].do # "stamp"
      BY <1>1, <2>1, <2>2
    <3> QED
      BY <1>3, <2>2, <3>1 DEF Latest, ab, m
  <2>3. CASE \E j \in 1..m : /\ a[j].do = "stamp" /\ a[j].to = v
                             /\ \A k \in (j + 1)..m : a[k].do # "stamp"
    <3>1. PICK j \in 1..m : /\ a[j].do = "stamp" /\ a[j].to = v
                            /\ \A k \in (j + 1)..m : a[k].do # "stamp"
      BY <2>3
    <3>2. j \in 1..(m + n) /\ ab[j].do = "stamp" /\ ab[j].to = x
      BY <1>1, <1>3, <3>1
    <3>3. \A k \in (j + 1)..(m + n) : ab[k].do # "stamp"
      <4>1. \A k \in (j + 1)..(m + n) : k \in 1..(m + n) /\ (k \in 1..m => k \in (j + 1)..m)
        BY <1>1
      <4> QED
        BY <1>1, <2>1, <3>1, <4>1
    <3> QED
      BY <3>2, <3>3 DEF Latest, ab, m
  <2> QED
    BY <2>2, <2>3 DEF Latest, m
<1>4. CASE \E j \in 1..n : /\ b[j].do = "stamp" /\ b[j].to = x
                           /\ \A k \in (j + 1)..n : b[k].do # "stamp"
  <2>1. PICK j \in 1..n : /\ b[j].do = "stamp" /\ b[j].to = x
                          /\ \A k \in (j + 1)..n : b[k].do # "stamp"
    BY <1>4
  <2>2. m + j \in 1..(m + n) /\ ab[m + j].do = "stamp" /\ ab[m + j].to = x
    <3>1. j \in 1..Len(b) /\ m + j \in 1..(m + n)
      BY <1>1
    <3>2. ab[m + j] = b[j]
      BY <1>1, <3>1
    <3> QED
      BY <2>1, <3>1, <3>2
  <2>3. ASSUME NEW k \in (m + j + 1)..(m + n) PROVE ab[k].do # "stamp"
    <3> DEFINE i == k - m
    <3>1. i \in (j + 1)..n /\ i \in 1..Len(b) /\ m + i = k
      BY <1>1
    <3> HIDE DEF i
    <3>2. ab[m + i] = b[i]
      BY <1>1, <3>1
    <3> QED
      BY <2>1, <3>1, <3>2
  <2> QED
    BY <2>2, <2>3 DEF Latest, ab, m
<1> QED
  BY <1>3, <1>4 DEF Latest

LEMMA LatestWithin ==
  ASSUME NEW a, NEW b, IsSeq(a), IsSeq(b), NEW u, NEW x, NEW n \in 0..Len(a), Latest(a, n, u, x)
  PROVE  Latest(a \o b, n, u, x)
<1> DEFINE m == Len(a)
           ab == a \o b
<1>1. m \in Nat /\ n \in Nat /\ n <= m /\ (\A i \in 1..m : ab[i] = a[i])
  BY Joined
<1>2. \A i \in 1..n : i \in 1..m
  BY <1>1
<1> HIDE DEF ab, m
<1>3. \A i \in 1..n : ab[i] = a[i]
  BY <1>1, <1>2
<1>4. \A j \in 1..n : \A k \in (j + 1)..n : k \in 1..n
  BY <1>1
<1> QED
  BY <1>3, <1>4 DEF Latest, ab

LEMMA ChainedOn ==
  ASSUME NEW a, NEW b, NEW u, NEW v, NEW w, Chained(a, u, v), Chained(b, v, w)
  PROVE  Chained(a \o b, u, w)
<1> DEFINE m == Len(a)
           n == Len(b)
           ab == a \o b
<1>1. IsSeq(a) /\ IsSeq(b) /\ Latest(a, m, u, v) /\ Latest(b, n, v, w)
  BY DEF Chained
<1>2. /\ IsSeq(ab) /\ m \in Nat /\ n \in Nat /\ Len(ab) = m + n
      /\ (\A i \in 1..m : ab[i] = a[i]) /\ (\A i \in 1..n : ab[m + i] = b[i])
  BY <1>1, Joined
<1>3. Latest(ab, m + n, u, w)
  <2>1. n \in 0..Len(b)
    BY <1>2
  <2> QED
    BY <1>1, <2>1, LatestOn
<1> HIDE DEF ab
<1>4. ASSUME NEW i \in 1..Len(ab), ab[i].do = "stamp"
      PROVE  Latest(ab, i - 1, u, ab[i].from)
  <2>1. CASE i \in 1..m
    <3>1. ab[i] = a[i] /\ i - 1 \in 0..Len(a)
      BY <1>2, <2>1
    <3>2. Latest(a, i - 1, u, a[i].from)
      BY <1>4, <2>1, <3>1 DEF Chained
    <3> QED
      BY <1>1, <3>1, <3>2, LatestWithin DEF ab
  <2>2. CASE i \notin 1..m
    <3> DEFINE j == i - m
    <3>1. j \in 1..n /\ m + j = i /\ j - 1 \in 0..Len(b) /\ m + (j - 1) = i - 1
      BY <1>2, <2>2
    <3>2. ab[i] = b[j]
      BY <1>2, <3>1
    <3> HIDE DEF j
    <3>3. Latest(b, j - 1, v, b[j].from)
      BY <1>4, <3>1, <3>2 DEF Chained
    <3>4. Latest(ab, m + (j - 1), u, b[j].from)
      <4> DEFINE k == j - 1
      <4>1. k \in 0..Len(b) /\ Latest(b, k, v, b[j].from)
        BY <3>1, <3>3
      <4> HIDE DEF k
      <4> QED
        BY <1>1, <4>1, LatestOn DEF ab, k
    <3> QED
      BY <3>1, <3>2, <3>4
  <2> QED
    BY <2>1, <2>2
<1> QED
  BY <1>2, <1>3, <1>4 DEF Chained, ab

LEMMA NoStamps ==
  ASSUME NEW ss, IsSeq(ss), \A i \in 1..Len(ss) : ss[i].do # "stamp", NEW u
  PROVE  Chained(ss, u, u)
BY DEF Chained, Latest

LEMMA OneStamp ==
  ASSUME NEW ss, IsSeq(ss), Len(ss) = 1, NEW u, NEW v, ss[1] = Stamp(u, v)
  PROVE  Chained(ss, u, v)
<1>1. ss[1].do = "stamp" /\ ss[1].from = u /\ ss[1].to = v
  BY DEF Stamp
<1>2. 1 \in 1..1 /\ (1 + 1)..1 = {} /\ 1..(1 - 1) = {} /\ \A i \in 1..1 : i = 1
  OBVIOUS
<1>3. Latest(ss, 1, u, v)
  BY <1>1, <1>2 DEF Latest
<1>4. Latest(ss, 1 - 1, u, u)
  BY <1>2 DEF Latest
<1> QED
  BY <1>1, <1>2, <1>3, <1>4 DEF Chained

-----------------------------------------------------------------------------
(* What a script may be refused for.                                       *)

\* The statement that takes back the roles of 0002.
TakeBack == Add("trip_members", PlainCheck, "plain")
\* It needs no table to be empty, and looks at rows only for the roles.
Mild(s) ==
  s.do = "add" =>
    /\ s.how = "plain"
    /\ \A a \in s.shape :
         a.is = "check" => s.on = "trip_members" /\ (a = RichCheck \/ s = TakeBack)
AllMild(ss) == \A i \in 1..Len(ss) : Mild(ss[i])

LEMMA AddMild ==
  ASSUME NEW t, NEW a, a.is # "check"
  PROVE  Mild(Add(t, a, "plain"))
<1> DEFINE s == Add(t, a, "plain")
<1>1. s.shape = {a} /\ s.how = "plain"
  BY DEF Add
<1> HIDE DEF s
<1>2. Mild(s)
  BY <1>1 DEF Mild
<1> QED
  BY <1>2 DEF s

LEMMA RolesMild ==
  /\ Mild(Add("trip_members", Check("role", AllRoles), "plain"))
  /\ Mild(Add("trip_members", Check("role", PlainRoles), "plain"))
<1>1. Mild(Add("trip_members", RichCheck, "plain"))
  BY DEF Mild, Add
<1>2. Mild(TakeBack)
  BY DEF Mild, TakeBack, Add
<1> QED
  BY <1>1, <1>2 DEF TakeBack, RichCheck, PlainCheck

LEMMA MildJoin ==
  ASSUME NEW a, NEW b, IsSeq(a), IsSeq(b), AllMild(a), AllMild(b)
  PROVE  AllMild(a \o b)
<1> DEFINE m == Len(a)
           n == Len(b)
           c == a \o b
<1>1. /\ m \in Nat /\ n \in Nat /\ Len(c) = m + n
      /\ (\A i \in 1..m : c[i] = a[i]) /\ (\A i \in 1..n : c[m + i] = b[i])
  BY Joined
<1>2. (\A j \in 1..m : Mild(a[j])) /\ (\A j \in 1..n : Mild(b[j]))
  BY DEF AllMild
<1> HIDE DEF m, n, c
<1>3. ASSUME NEW i \in 1..Len(c) PROVE Mild(c[i])
  <2>1. CASE i <= m
    BY <1>1, <1>2, <2>1
  <2>2. CASE i > m
    <3> DEFINE j == i - m
    <3>1. j \in 1..n /\ m + j = i
      BY <1>1, <2>2
    <3> HIDE DEF j
    <3> QED
      BY <1>1, <1>2, <3>1
  <2> QED
    BY <1>1, <2>1, <2>2
<1> QED
  BY <1>3 DEF AllMild, c


LEMMA Advanced_MembersMild == AllMild(Advanced_Members)
<1> DEFINE ss == Advanced_Members
<1>1. Mild(ss[1])
  <2> DEFINE t == "trip_members"
             a == Column("visibility_scope", 0)
  <2>1. ss[1] = Add(t, a, "plain")
    BY DEF Advanced_Members
  <2>2. a.is # "check"
    BY DEF Index, Column, Reference
  <2> HIDE DEF t, a, ss
  <2> QED
    BY <2>1, <2>2, AddMild
<1>2. Mild(ss[2])
  <2> DEFINE t == "trip_members"
             a == Column("share_until", 0)
  <2>1. ss[2] = Add(t, a, "plain")
    BY DEF Advanced_Members
  <2>2. a.is # "check"
    BY DEF Index, Column, Reference
  <2> HIDE DEF t, a, ss
  <2> QED
    BY <2>1, <2>2, AddMild
<1>3. Mild(ss[3])
  <2> DEFINE t == "trip_members"
             a == Column("is_ready", 0)
  <2>1. ss[3] = Add(t, a, "plain")
    BY DEF Advanced_Members
  <2>2. a.is # "check"
    BY DEF Index, Column, Reference
  <2> HIDE DEF t, a, ss
  <2> QED
    BY <2>1, <2>2, AddMild
<1>4. Mild(ss[4])
  <2> DEFINE t == "trip_members"
             a == Column("vehicle_label", 40)
  <2>1. ss[4] = Add(t, a, "plain")
    BY DEF Advanced_Members
  <2>2. a.is # "check"
    BY DEF Index, Column, Reference
  <2> HIDE DEF t, a, ss
  <2> QED
    BY <2>1, <2>2, AddMild
<1>5. Mild(ss[5])
  <2> DEFINE t == "trip_members"
             a == Column("subgroup_id", 0)
  <2>1. ss[5] = Add(t, a, "plain")
    BY DEF Advanced_Members
  <2>2. a.is # "check"
    BY DEF Index, Column, Reference
  <2> HIDE DEF t, a, ss
  <2> QED
    BY <2>1, <2>2, AddMild
<1>6. Len(ss) = 5
  BY Advanced_MembersReads
<1>7. \A i \in 1..5 : i \in {1, 2, 3, 4, 5}
  OBVIOUS
<1> HIDE DEF ss
<1>8. AllMild(ss)
  BY <1>1, <1>2, <1>3, <1>4, <1>5, <1>6, <1>7 DEF AllMild, Mild
<1> QED
  BY <1>8 DEF ss

LEMMA Advanced_RolesMild == AllMild(Advanced_Roles)
<1> DEFINE ss == Advanced_Roles
<1>2. Mild(ss[2])
  BY RolesMild DEF Advanced_Roles
<1>3. Len(ss) = 2 /\ \A i \in {1} : ss[i].do # "add"
  BY Advanced_RolesReads DEF Makes, Discards
<1>4. \A i \in 1..2 : i \in {1, 2}
  OBVIOUS
<1> HIDE DEF ss
<1>5. AllMild(ss)
  BY <1>2, <1>3, <1>4 DEF AllMild, Mild
<1> QED
  BY <1>5 DEF ss

LEMMA Advanced_TripsMild == AllMild(Advanced_Trips)
<1> DEFINE ss == Advanced_Trips
<1>1. Mild(ss[1])
  <2> DEFINE t == "trips"
             a == Column("template", 40)
  <2>1. ss[1] = Add(t, a, "plain")
    BY DEF Advanced_Trips
  <2>2. a.is # "check"
    BY DEF Index, Column, Reference
  <2> HIDE DEF t, a, ss
  <2> QED
    BY <2>1, <2>2, AddMild
<1>2. Mild(ss[2])
  <2> DEFINE t == "trips"
             a == Column("cover_color", 9)
  <2>1. ss[2] = Add(t, a, "plain")
    BY DEF Advanced_Trips
  <2>2. a.is # "check"
    BY DEF Index, Column, Reference
  <2> HIDE DEF t, a, ss
  <2> QED
    BY <2>1, <2>2, AddMild
<1>3. Len(ss) = 2
  BY Advanced_TripsReads
<1>4. \A i \in 1..2 : i \in {1, 2}
  OBVIOUS
<1> HIDE DEF ss
<1>5. AllMild(ss)
  BY <1>1, <1>2, <1>3, <1>4 DEF AllMild, Mild
<1> QED
  BY <1>5 DEF ss

LEMMA Advanced_SafetyMild == AllMild(Advanced_Safety)
<1> DEFINE ss == Advanced_Safety
<1>2. Mild(ss[2])
  <2> DEFINE t == "safety_alerts"
             a == Index("ix_safety_alerts_trip_created")
  <2>1. ss[2] = Add(t, a, "plain")
    BY DEF Advanced_Safety
  <2>2. a.is # "check"
    BY DEF Index, Column, Reference
  <2> HIDE DEF t, a, ss
  <2> QED
    BY <2>1, <2>2, AddMild
<1>4. Mild(ss[4])
  <2> DEFINE t == "audit_logs"
             a == Index("ix_audit_logs_subject_created")
  <2>1. ss[4] = Add(t, a, "plain")
    BY DEF Advanced_Safety
  <2>2. a.is # "check"
    BY DEF Index, Column, Reference
  <2> HIDE DEF t, a, ss
  <2> QED
    BY <2>1, <2>2, AddMild
<1>6. Mild(ss[6])
  <2> DEFINE t == "subgroups"
             a == Index("ix_subgroups_trip")
  <2>1. ss[6] = Add(t, a, "plain")
    BY DEF Advanced_Safety
  <2>2. a.is # "check"
    BY DEF Index, Column, Reference
  <2> HIDE DEF t, a, ss
  <2> QED
    BY <2>1, <2>2, AddMild
<1>7. Mild(ss[7])
  <2> DEFINE t == "trip_members"
             a == Reference("subgroup_id", "subgroups")
  <2>1. ss[7] = Add(t, a, "plain")
    BY DEF Advanced_Safety
  <2>2. a.is # "check"
    BY DEF Index, Column, Reference
  <2> HIDE DEF t, a, ss
  <2> QED
    BY <2>1, <2>2, AddMild
<1>8. Len(ss) = 7 /\ \A i \in {1, 3, 5} : ss[i].do # "add"
  BY Advanced_SafetyReads DEF Makes, Discards
<1>9. \A i \in 1..7 : i \in {1, 2, 3, 4, 5, 6, 7}
  OBVIOUS
<1> HIDE DEF ss
<1>10. AllMild(ss)
  BY <1>2, <1>4, <1>6, <1>7, <1>8, <1>9 DEF AllMild, Mild
<1> QED
  BY <1>10 DEF ss

LEMMA Advanced_MoneyMild == AllMild(Advanced_Money)
<1> DEFINE ss == Advanced_Money
<1>2. Mild(ss[2])
  <2> DEFINE t == "expenses"
             a == Index("ix_expenses_trip")
  <2>1. ss[2] = Add(t, a, "plain")
    BY DEF Advanced_Money
  <2>2. a.is # "check"
    BY DEF Index, Column, Reference
  <2> HIDE DEF t, a, ss
  <2> QED
    BY <2>1, <2>2, AddMild
<1>5. Mild(ss[5])
  <2> DEFINE t == "subscriptions"
             a == Index("ix_subscriptions_user")
  <2>1. ss[5] = Add(t, a, "plain")
    BY DEF Advanced_Money
  <2>2. a.is # "check"
    BY DEF Index, Column, Reference
  <2> HIDE DEF t, a, ss
  <2> QED
    BY <2>1, <2>2, AddMild
<1>7. Mild(ss[7])
  <2> DEFINE t == "reminders"
             a == Index("ix_reminders_fire_at")
  <2>1. ss[7] = Add(t, a, "plain")
    BY DEF Advanced_Money
  <2>2. a.is # "check"
    BY DEF Index, Column, Reference
  <2> HIDE DEF t, a, ss
  <2> QED
    BY <2>1, <2>2, AddMild
<1>8. Len(ss) = 7 /\ \A i \in {1, 3, 4, 6} : ss[i].do # "add"
  BY Advanced_MoneyReads DEF Makes, Discards
<1>9. \A i \in 1..7 : i \in {1, 2, 3, 4, 5, 6, 7}
  OBVIOUS
<1> HIDE DEF ss
<1>10. AllMild(ss)
  BY <1>2, <1>5, <1>7, <1>8, <1>9 DEF AllMild, Mild
<1> QED
  BY <1>10 DEF ss

LEMMA Advanced_TelemetryMild == AllMild(Advanced_Telemetry)
<1> DEFINE ss == Advanced_Telemetry
<1>2. Mild(ss[2])
  <2> DEFINE t == "events"
             a == Index("ix_events_name_time")
  <2>1. ss[2] = Add(t, a, "plain")
    BY DEF Advanced_Telemetry
  <2>2. a.is # "check"
    BY DEF Index, Column, Reference
  <2> HIDE DEF t, a, ss
  <2> QED
    BY <2>1, <2>2, AddMild
<1>3. Mild(ss[3])
  <2> DEFINE t == "events"
             a == Index("ix_events_user_time")
  <2>1. ss[3] = Add(t, a, "plain")
    BY DEF Advanced_Telemetry
  <2>2. a.is # "check"
    BY DEF Index, Column, Reference
  <2> HIDE DEF t, a, ss
  <2> QED
    BY <2>1, <2>2, AddMild
<1>5. Mild(ss[5])
  <2> DEFINE t == "maps_provider_calls"
             a == Index("ix_maps_calls_provider_time")
  <2>1. ss[5] = Add(t, a, "plain")
    BY DEF Advanced_Telemetry
  <2>2. a.is # "check"
    BY DEF Index, Column, Reference
  <2> HIDE DEF t, a, ss
  <2> QED
    BY <2>1, <2>2, AddMild
<1>6. Len(ss) = 5 /\ \A i \in {1, 4} : ss[i].do # "add"
  BY Advanced_TelemetryReads DEF Makes, Discards
<1>7. \A i \in 1..5 : i \in {1, 2, 3, 4, 5}
  OBVIOUS
<1> HIDE DEF ss
<1>8. AllMild(ss)
  BY <1>2, <1>3, <1>5, <1>6, <1>7 DEF AllMild, Mild
<1> QED
  BY <1>8 DEF ss

LEMMA IsAdminMild == AllMild(IsAdmin)
<1> DEFINE ss == IsAdmin
<1>1. Mild(ss[1])
  <2> DEFINE t == "users"
             a == Column("is_admin", 0)
  <2>1. ss[1] = Add(t, a, "plain")
    BY DEF IsAdmin
  <2>2. a.is # "check"
    BY DEF Index, Column, Reference
  <2> HIDE DEF t, a, ss
  <2> QED
    BY <2>1, <2>2, AddMild
<1>2. Len(ss) = 1
  BY IsAdminReads
<1>3. \A i \in 1..1 : i \in {1}
  OBVIOUS
<1> HIDE DEF ss
<1>4. AllMild(ss)
  BY <1>1, <1>2, <1>3 DEF AllMild, Mild
<1> QED
  BY <1>4 DEF ss

LEMMA InitialDownMild == AllMild(InitialDown)
<1>1. \A i \in 1..12 : i \in {1, 2, 3, 4, 5, 6, 7, 8, 9, 10, 11, 12}
  OBVIOUS
<1> DEFINE ss == InitialDown
<1>2. Len(ss) = 12 /\ \A i \in {1, 2, 3, 4, 5, 6, 7, 8, 9, 10, 11, 12} : ss[i].do # "add"
  BY InitialDownReads DEF Discards, Ends
<1> HIDE DEF ss
<1> QED
  BY <1>1, <1>2 DEF AllMild, Mild, ss

LEMMA AdvancedDown_MoneyMild == AllMild(AdvancedDown_Money)
<1>1. \A i \in 1..9 : i \in {1, 2, 3, 4, 5, 6, 7, 8, 9}
  OBVIOUS
<1> DEFINE ss == AdvancedDown_Money
<1>2. Len(ss) = 9 /\ \A i \in {1, 2, 3, 4, 5, 6, 7, 8, 9} : ss[i].do # "add"
  BY AdvancedDown_MoneyReads DEF Discards, Ends
<1> HIDE DEF ss
<1> QED
  BY <1>1, <1>2 DEF AllMild, Mild, ss

LEMMA AdvancedDown_SubgroupsMild == AllMild(AdvancedDown_Subgroups)
<1>1. \A i \in 1..3 : i \in {1, 2, 3}
  OBVIOUS
<1> DEFINE ss == AdvancedDown_Subgroups
<1>2. Len(ss) = 3 /\ \A i \in {1, 2, 3} : ss[i].do # "add"
  BY AdvancedDown_SubgroupsReads DEF Discards, Ends
<1> HIDE DEF ss
<1> QED
  BY <1>1, <1>2 DEF AllMild, Mild, ss

LEMMA AdvancedDown_SafetyMild == AllMild(AdvancedDown_Safety)
<1>1. \A i \in 1..4 : i \in {1, 2, 3, 4}
  OBVIOUS
<1> DEFINE ss == AdvancedDown_Safety
<1>2. Len(ss) = 4 /\ \A i \in {1, 2, 3, 4} : ss[i].do # "add"
  BY AdvancedDown_SafetyReads DEF Discards, Ends
<1> HIDE DEF ss
<1> QED
  BY <1>1, <1>2 DEF AllMild, Mild, ss

LEMMA AdvancedDown_RolesMild == AllMild(AdvancedDown_Roles)
<1> DEFINE ss == AdvancedDown_Roles
<1>4. Mild(ss[4])
  BY RolesMild DEF AdvancedDown_Roles
<1>5. Len(ss) = 4 /\ \A i \in {1, 2, 3} : ss[i].do # "add"
  BY AdvancedDown_RolesReads DEF Makes, Discards
<1>6. \A i \in 1..4 : i \in {1, 2, 3, 4}
  OBVIOUS
<1> HIDE DEF ss
<1>7. AllMild(ss)
  BY <1>4, <1>5, <1>6 DEF AllMild, Mild
<1> QED
  BY <1>7 DEF ss

LEMMA AdvancedDown_MembersMild == AllMild(AdvancedDown_Members)
<1>1. \A i \in 1..5 : i \in {1, 2, 3, 4, 5}
  OBVIOUS
<1> DEFINE ss == AdvancedDown_Members
<1>2. Len(ss) = 5 /\ \A i \in {1, 2, 3, 4, 5} : ss[i].do # "add"
  BY AdvancedDown_MembersReads DEF Discards, Ends
<1> HIDE DEF ss
<1> QED
  BY <1>1, <1>2 DEF AllMild, Mild, ss

LEMMA IsAdminDownMild == AllMild(IsAdminDown)
<1>1. \A i \in 1..1 : i \in {1}
  OBVIOUS
<1> DEFINE ss == IsAdminDown
<1>2. Len(ss) = 1 /\ \A i \in {1} : ss[i].do # "add"
  BY IsAdminDownReads DEF Discards, Ends
<1> HIDE DEF ss
<1> QED
  BY <1>1, <1>2 DEF AllMild, Mild, ss

LEMMA MildRevisions ==
  /\ AllMild(Up(2)) /\ AllMild(Up(3))
  /\ AllMild(Down(1)) /\ AllMild(Down(2)) /\ AllMild(Down(3))
<1> DEFINE G(ss) == IsSeq(ss) /\ AllMild(ss)
<1>1. /\ G(Advanced_Members) /\ G(Advanced_Roles) /\ G(Advanced_Trips) /\ G(Advanced_Safety)
      /\ G(Advanced_Money) /\ G(Advanced_Telemetry) /\ G(IsAdmin)
  BY Advanced_MembersMild, Advanced_RolesMild, Advanced_TripsMild, Advanced_SafetyMild,
     Advanced_MoneyMild, Advanced_TelemetryMild, IsAdminMild,
     Advanced_MembersIs, Advanced_RolesIs, Advanced_TripsIs, Advanced_SafetyIs,
     Advanced_MoneyIs, Advanced_TelemetryIs, IsAdminIs DEF GoesUp
<1>2. /\ G(InitialDown) /\ G(AdvancedDown_Money) /\ G(AdvancedDown_Subgroups)
      /\ G(AdvancedDown_Safety) /\ G(AdvancedDown_Roles) /\ G(AdvancedDown_Members)
      /\ G(IsAdminDown)
  BY InitialDownMild, AdvancedDown_MoneyMild, AdvancedDown_SubgroupsMild,
     AdvancedDown_SafetyMild, AdvancedDown_RolesMild, AdvancedDown_MembersMild,
     IsAdminDownMild, InitialDownIs, AdvancedDown_MoneyIs, AdvancedDown_SubgroupsIs,
     AdvancedDown_SafetyIs, AdvancedDown_RolesIs, AdvancedDown_MembersIs, IsAdminDownIs
  DEF GoesDown
<1>3. \A a, b : G(a) /\ G(b) => G(a \o b)
  BY MildJoin, Joined
<1> HIDE DEF G
<1>4. G(Advanced_Members \o Advanced_Roles \o Advanced_Trips \o Advanced_Safety
          \o Advanced_Money \o Advanced_Telemetry)
  BY <1>1, <1>3
<1>5. G(AdvancedDown_Money \o AdvancedDown_Subgroups \o AdvancedDown_Safety
          \o AdvancedDown_Roles \o AdvancedDown_Members)
  BY <1>2, <1>3
<1>6. Up(2) = Advanced_Members \o Advanced_Roles \o Advanced_Trips \o Advanced_Safety
                \o Advanced_Money \o Advanced_Telemetry /\ Up(3) = IsAdmin
  BY DEF Up
<1>7. /\ Down(1) = InitialDown /\ Down(3) = IsAdminDown
      /\ Down(2) = AdvancedDown_Money \o AdvancedDown_Subgroups \o AdvancedDown_Safety
                     \o AdvancedDown_Roles \o AdvancedDown_Members
  BY DEF Down
<1> QED
  BY <1>1, <1>2, <1>4, <1>5, <1>6, <1>7 DEF G

-----------------------------------------------------------------------------
(* Scripts, block by block.                                                *)

\* From the tables and the stamp of u to those of v, with nothing in the way but,
\* where there are rows, the roles.
Block(ss, u, v) ==
  Leaves(Rev(u), ss, Rev(v)) /\ Chained(ss, u, v) /\ (u # 0 => AllMild(ss))

LEMMA BlockOn ==
  ASSUME NEW a, NEW b, NEW u, NEW v, NEW w, v # 0, Block(a, u, v), Block(b, v, w)
  PROVE  Block(a \o b, u, w)
<1>1. Leaves(Rev(u), a \o b, Rev(w))
  BY LeavesOn DEF Block
<1>2. Chained(a \o b, u, w)
  BY ChainedOn DEF Block
<1>3. u # 0 => AllMild(a \o b)
  BY MildJoin DEF Block, Leaves
<1> QED
  BY <1>1, <1>2, <1>3 DEF Block

LEMMA StampMoves ==
  ASSUME NEW s, s.do = "stamp", s.on = "alembic_version",
         NEW ss, IsSeq(ss), Len(ss) = 1, ss[1] = s, NEW v
  PROVE  Leaves(Rev(v), ss, Rev(v)) /\ AllMild(ss)
<1>1. \A i \in 1..Len(ss) : ss[i] = s
  OBVIOUS
<1>2. AllMild(ss)
  BY <1>1 DEF AllMild, Mild
<1>3. Smooth(Rev(v), ss)
  <2>1. "alembic_version" \in Tables
    BY DEF Tables
  <2>2. \A g : Passes(g, s)
    BY <2>1 DEF Passes
  <2> QED
    BY <1>1, <2>2 DEF Smooth
<1>4. After(Rev(v), ss) = Rev(v)
  <2>1. \A t, o : End(t, o, ss) = o
    BY EndOne DEF StepOn
  <2> QED
    BY <2>1 DEF After, Rev
<1> QED
  BY <1>2, <1>3, <1>4 DEF Leaves

\* The statements of a revision and its stamp.
LEMMA BlockStamped ==
  ASSUME NEW ss, NEW u, NEW v, Leaves(Rev(u), ss, Rev(v)),
         \A i \in 1..Len(ss) : ss[i].do # "stamp", u # 0 => AllMild(ss)
  PROVE  Block(Append(ss, Stamp(u, v)), u, v)
<1> DEFINE s == Stamp(u, v)
           a == <<s>>
<1>1. IsSeq(ss) /\ IsSeq(a) /\ Len(a) = 1 /\ a[1] = s
  BY Tuple1 DEF Leaves
<1>2. s.do = "stamp" /\ s.on = "alembic_version" /\ s = Stamp(u, v)
  BY DEF Stamp
<1>3. Append(ss, s) = ss \o a
  <2>1. PICK V : ss \in Seq(V)
    BY <1>1 DEF IsSeq
  <2> DEFINE W == V \cup {s}
  <2>2. ss \in Seq(W) /\ s \in W
    BY <2>1
  <2> HIDE DEF s, W
  <2> QED
    BY <2>2, AppendIsConcat
<1> HIDE DEF s, a
<1>4. Leaves(Rev(v), a, Rev(v)) /\ AllMild(a)
  BY <1>1, <1>2, StampMoves
<1>5. Leaves(Rev(u), ss \o a, Rev(v))
  BY <1>4, LeavesOn
<1>6. Chained(ss, u, u)
  BY <1>1, NoStamps
<1>7. Chained(a, u, v)
  BY <1>1, <1>2, OneStamp
<1>8. Chained(ss \o a, u, v)
  BY <1>6, <1>7, ChainedOn
<1>9. u # 0 => AllMild(ss \o a)
  BY <1>1, <1>4, MildJoin
<1> QED
  BY <1>3, <1>5, <1>8, <1>9 DEF Block, s

\* No statement of a script, between any two revisions, is refused for what it finds
\* among the tables or for the stamp, and from 0001 on none but the CHECKs on roles
\* looks at a row.
THEOREM ScriptBlock ==
  ASSUME NEW u \in Version, NEW v \in Version, u # v
  PROVE  Block(Script[<<u, v>>], u, v)
<1>1. ASSUME NEW w \in 1..3
      PROVE  Block(UpBy(w), w - 1, w) /\ Block(DownBy(w), w, w - 1)
  <2> DEFINE x == w - 1
             up == Up(w)
             down == Down(w)
  <2>1. GoesUp(up) /\ GoesDown(down) /\ IsSeq(up) /\ IsSeq(down)
    BY DownSeq
  <2>2. /\ \A i \in 1..Len(up) : up[i].do # "stamp"
        /\ \A i \in 1..Len(down) : down[i].do # "stamp"
    BY <2>1 DEF GoesUp, GoesDown, UpOnly, DownOnly
  <2>3. Smooth(Rev(x), up) /\ Smooth(Rev(w), down)
    BY UpSmooth, DownSmooth
  <2>4. After(Rev(x), up) = Rev(w) /\ After(Rev(w), down) = Rev(x)
    BY RevAfter
  <2>5. (x # 0 => AllMild(up)) /\ AllMild(down)
    <3>1. w \in {1, 2, 3} /\ (x # 0 => w \in {2, 3})
      OBVIOUS
    <3> HIDE DEF x
    <3> QED
      BY <3>1, MildRevisions
  <2>6. UpBy(w) = Append(up, Stamp(x, w)) /\ DownBy(w) = Append(down, Stamp(w, x))
    BY DEF UpBy, DownBy
  <2> HIDE DEF up, down, x
  <2>7. Leaves(Rev(x), up, Rev(w)) /\ Leaves(Rev(w), down, Rev(x))
    BY <2>1, <2>3, <2>4 DEF Leaves
  <2>8. Block(Append(up, Stamp(x, w)), x, w)
    BY <2>2, <2>5, <2>7, BlockStamped
  <2>9. Block(Append(down, Stamp(w, x)), w, x)
    BY <2>2, <2>5, <2>7, BlockStamped
  <2> QED
    BY <2>6, <2>8, <2>9 DEF x
<1>2. /\ Block(UpBy(1), 0, 1) /\ Block(UpBy(2), 1, 2) /\ Block(UpBy(3), 2, 3)
      /\ Block(DownBy(1), 1, 0) /\ Block(DownBy(2), 2, 1) /\ Block(DownBy(3), 3, 2)
  <2>1. /\ 1 \in 1..3 /\ 2 \in 1..3 /\ 3 \in 1..3 /\ 1 - 1 = 0 /\ 2 - 1 = 1 /\ 3 - 1 = 2
    OBVIOUS
  <2> QED
    BY <1>1, <2>1
<1> DEFINE none == 0
           one == 1
           two == 2
           three == 3
<1>3. one # 0 /\ two # 0
  OBVIOUS
<1>4. /\ Block(UpBy(1), none, one) /\ Block(UpBy(2), one, two) /\ Block(UpBy(3), two, three)
      /\ Block(DownBy(1), one, none) /\ Block(DownBy(2), two, one)
      /\ Block(DownBy(3), three, two)
  BY <1>2
<1> HIDE DEF none, one, two, three
<1>5. Block(UpBy(1) \o UpBy(2), none, two)
  BY <1>3, <1>4, BlockOn
<1>6. Block(UpBy(2) \o UpBy(3), one, three)
  BY <1>3, <1>4, BlockOn
<1>7. Block(DownBy(3) \o DownBy(2), three, one)
  BY <1>3, <1>4, BlockOn
<1>8. Block(DownBy(2) \o DownBy(1), two, none)
  BY <1>3, <1>4, BlockOn
<1>9. Block((UpBy(1) \o UpBy(2)) \o UpBy(3), none, three)
  BY <1>3, <1>4, <1>5, BlockOn
<1>10. Block((DownBy(3) \o DownBy(2)) \o DownBy(1), three, none)
  BY <1>3, <1>4, <1>7, BlockOn
<1>11. /\ Script[<<0, 1>>] = UpBy(1) /\ Script[<<1, 2>>] = UpBy(2) /\ Script[<<2, 3>>] = UpBy(3)
       /\ Script[<<1, 0>>] = DownBy(1) /\ Script[<<2, 1>>] = DownBy(2)
       /\ Script[<<3, 2>>] = DownBy(3)
  <2>1. /\ 1 \in 1..3 /\ 2 \in 1..3 /\ 3 \in 1..3 /\ 1 - 1 = 0 /\ 2 - 1 = 1 /\ 3 - 1 = 2
    OBVIOUS
  <2> QED
    BY <2>1, Scripts
<1>12. /\ Script[<<0, 2>>] = UpBy(1) \o UpBy(2) /\ Script[<<1, 3>>] = UpBy(2) \o UpBy(3)
       /\ Script[<<2, 0>>] = DownBy(2) \o DownBy(1) /\ Script[<<3, 1>>] = DownBy(3) \o DownBy(2)
  <2>1. /\ 1 \in 1..2 /\ 2 \in 1..2 /\ 1 - 1 = 0 /\ 2 - 1 = 1 /\ 1 + 1 = 2 /\ 2 + 1 = 3
    OBVIOUS
  <2> QED
    BY <2>1, Scripts
<1>13. /\ Script[<<0, 3>>] = (UpBy(1) \o UpBy(2)) \o UpBy(3)
       /\ Script[<<3, 0>>] = (DownBy(3) \o DownBy(2)) \o DownBy(1)
  BY Scripts
<1>14. \/ u = 0 /\ v \in {1, 2, 3}
       \/ u = 1 /\ v \in {0, 2, 3}
       \/ u = 2 /\ v \in {0, 1, 3}
       \/ u = 3 /\ v \in {0, 1, 2}
  BY DEF Version
<1>15. /\ Block(UpBy(1) \o UpBy(2), 0, 2) /\ Block(UpBy(2) \o UpBy(3), 1, 3)
       /\ Block(DownBy(3) \o DownBy(2), 3, 1) /\ Block(DownBy(2) \o DownBy(1), 2, 0)
       /\ Block((UpBy(1) \o UpBy(2)) \o UpBy(3), 0, 3)
       /\ Block((DownBy(3) \o DownBy(2)) \o DownBy(1), 3, 0)
  BY <1>5, <1>6, <1>7, <1>8, <1>9, <1>10 DEF none, one, two, three
<1> QED
  BY <1>2, <1>11, <1>12, <1>13, <1>14, <1>15

-----------------------------------------------------------------------------
(* What a statement that would pass can be refused for.                    *)

\* What the words that are stored can refuse.
Hurts(words, s) ==
  /\ s.do = "add"
  /\ \/ \E o \in s.shape, w \in words :
          o.is = "check" /\ s.how # "unchecked" /\ w.on = s.on /\ ~Allowed(w, o)
     \/ s.how = "required" /\ \E w \in words : w.on = s.on

LEMMA PassesRuns ==
  ASSUME NEW d, NEW s, s.do \in Verbs, NEW g, Passes(g, s),
         \A t \in Tables : At(d.tables, t) = g[t], DOMAIN d.tables \subseteq Tables,
         s.do = "stamp" => d.version = s.from, Refused(d, s)
  PROVE  Hurts(d.words, s)
<1> DEFINE f == d.tables
           t == s.on
<1>1. \A u \in Tables : /\ g[u] = {} <=> u \notin DOMAIN f
                        /\ u \in DOMAIN f => g[u] = {f[u]}
  BY DEF At
<1>2. t \in Tables
  BY DEF Passes
<1>3. CASE s.do = "create"
  <2>1. t \notin DOMAIN f
    BY <1>1, <1>2, <1>3 DEF Passes
  <2>2. \A to \in Targets(s.shape) : to \in DOMAIN f \cup {t}
    BY <1>1, <1>3 DEF Passes
  <2> QED
    BY <1>3, <2>1, <2>2 DEF Refused
<1>4. CASE s.do = "add"
  <2>1. t \in DOMAIN f /\ g[t] = {f[t]}
    BY <1>1, <1>2, <1>4 DEF Passes
  <2>2. \A to \in Targets(s.shape) : to \in DOMAIN f
    BY <1>1, <1>4, <2>1 DEF Passes
  <2>3. \A o \in s.shape : ~Exists(f[t], o.is, o.name)
    BY <1>4, <2>1 DEF Passes
  <2> QED
    BY <1>4, <2>1, <2>2, <2>3 DEF Refused, Hurts
<1>5. CASE s.do = "drop"
  <2>1. t \in DOMAIN f /\ g[t] = {f[t]}
    BY <1>1, <1>2, <1>5 DEF Passes
  <2>2. Exists(f[t], s.is, s.name)
    BY <1>5, <2>1 DEF Passes
  <2> QED
    BY <1>5, <2>1, <2>2 DEF Refused
<1>6. CASE s.do = "droptable"
  <2>1. ~s.cascade
    BY <1>6 DEF Refused
  <2>2. t \in DOMAIN f
    BY <1>1, <1>2, <1>6, <2>1 DEF Passes
  <2>3. ASSUME NEW u \in DOMAIN f \ {t} PROVE t \notin Targets(f[u])
    <3>1. u \in Tables /\ g[u] = {f[u]}
      BY <1>1
    <3> QED
      BY <1>6, <2>1, <3>1 DEF Passes
  <2> QED
    BY <1>6, <2>2, <2>3 DEF Refused
<1>7. CASE s.do = "stamp"
  BY <1>7 DEF Refused
<1> QED
  BY <1>3, <1>4, <1>5, <1>6, <1>7 DEF Verbs

\* No revision has a table that the scripts do not name.
LEMMA RevisionWithin ==
  ASSUME NEW v \in Version, NEW t, t \notin Tables
  PROVE  At(Revision[v], t) = {}
<1>1. CASE v = 0
  BY <1>1, RevisionNone
<1>2. CASE v # 0
  <2> DEFINE ss == Script[<<0, v>>]
  <2>1. Block(ss, 0, v)
    <3>1. 0 \in Version /\ 0 # v
      BY <1>2 DEF Version
    <3> QED
      BY <3>1, ScriptBlock
  <2>2. At(Revision[v], t) = End(t, {}, ss)
    BY RevisionIs
  <2> HIDE DEF ss
  <2>3. IsSeq(ss) /\ About(ss, Tables)
    BY <2>1 DEF Block, Leaves, Smooth, Passes, About
  <2> QED
    BY <2>2, <2>3, EndRests
<1> QED
  BY <1>1, <1>2

\* A role that the tables of a revision take is one of those 0002 has.
LEMMA NothingFits ==
  ASSUME NEW w, Accept(Revision[0], w)
  PROVE  FALSE
BY RevisionNone DEF Accept, At

LEMMA RoleFits ==
  ASSUME NEW u \in Version, NEW w, Accept(Revision[u], w), w.on = "trip_members",
         w.column = "role"
  PROVE  w.value \in AllRoles
<1> DEFINE t == "trip_members"
<1>1. PlainCheck.is = "check" /\ PlainCheck.name = "role" /\ PlainCheck.allows = PlainRoles
  BY DEF PlainCheck, Check
<1>2. RichCheck.is = "check" /\ RichCheck.name = "role" /\ RichCheck.allows = AllRoles
  BY DEF RichCheck, Check
<1>3. PlainRoles \subseteq AllRoles
  BY DEF AllRoles
<1>4. ASSUME NEW x, NEW c \in {PlainCheck, RichCheck}, At(Revision[u], t) = {x}, c \in x
      PROVE  w.value \in AllRoles
  <2>1. Revision[u][w.on] = x
    BY <1>4 DEF At
  <2>2. Allowed(w, c)
    BY <1>1, <1>2, <1>4, <2>1 DEF Accept
  <2> QED
    BY <1>1, <1>2, <1>3, <2>2 DEF Allowed
<1>5. u # 0
  BY NothingFits
<1>6. CASE u = 1
  BY <1>4, <1>6, FirstShapes, MembersHave
<1>7. At(Revision[2], t) = {Secondary}
  BY MembersSecond, TablesHave DEF Rev
<1>8. ASSUME At(Revision[u], t) = {Secondary} PROVE w.value \in AllRoles
  <2>1. RichCheck \in Secondary
    BY DEF Secondary, Enriched
  <2> DEFINE x == Secondary
             c == RichCheck
  <2>2. At(Revision[u], t) = {x} /\ c \in x /\ c \in {PlainCheck, RichCheck}
    BY <1>8, <2>1
  <2> HIDE DEF x, c, t
  <2> QED
    BY <1>4, <2>2
<1>9. CASE u = 3
  <2>1. At(Revision[3], t) = End(t, At(Revision[2], t), Up(3))
    <3>1. 3 \in 1..3 /\ 3 - 1 = 2
      OBVIOUS
    <3> QED
      BY <3>1, RevisionUp
  <2>2. IsSeq(Up(3)) /\ About(Up(3), {"users"}) /\ t \notin {"users"}
    <3>1. 3 \in 1..3
      OBVIOUS
    <3> QED
      BY <3>1, DownSeq, UpIs DEF UpPart
  <2>3. At(Revision[3], t) = {Secondary}
    <3> HIDE DEF t
    <3> QED
      BY <1>7, <2>1, <2>2, EndRests
  <2> QED
    BY <1>8, <1>9, <2>3
<1>10. CASE u = 2
  BY <1>7, <1>8, <1>10
<1> QED
  BY <1>5, <1>6, <1>9, <1>10 DEF Version

\* The stamp after the first n statements, as a transaction sees it.
Newest(ss, n, u) ==
  LET stamps == {i \in 1..n : ss[i].do = "stamp"}
  IN  IF stamps = {} THEN u ELSE ss[Max(stamps)].to

LEMMA LatestSeen ==
  ASSUME NEW ss, NEW n \in Nat, NEW u, NEW x, Latest(ss, n, u, x)
  PROVE  Newest(ss, n, u) = x
<1> DEFINE stamps == {i \in 1..n : ss[i].do = "stamp"}
<1>0. Newest(ss, n, u) = IF stamps = {} THEN u ELSE ss[Max(stamps)].to
  BY DEF Newest
<1>1. CASE x = u /\ \A j \in 1..n : ss[j].do # "stamp"
  BY <1>0, <1>1
<1>2. CASE \E j \in 1..n : /\ ss[j].do = "stamp" /\ ss[j].to = x
                           /\ \A k \in (j + 1)..n : ss[k].do # "stamp"
  <2>1. PICK j \in 1..n : /\ ss[j].do = "stamp" /\ ss[j].to = x
                          /\ \A k \in (j + 1)..n : ss[k].do # "stamp"
    BY <1>2
  <2>2. stamps \in SUBSET (1..n) /\ j \in stamps
    BY <2>1
  <2> HIDE DEF stamps
  <2>3. Max(stamps) \in stamps /\ \A k \in stamps : k <= Max(stamps)
    BY <2>2, Greatest
  <2>4. Max(stamps) = j
    <3> DEFINE m == Max(stamps)
    <3>1. m \in 1..n /\ ss[m].do = "stamp" /\ j <= m
      BY <2>2, <2>3 DEF stamps
    <3> HIDE DEF m
    <3>2. ~(m \in (j + 1)..n)
      BY <2>1, <3>1
    <3>3. m = j
      BY <2>1, <3>1, <3>2
    <3> QED
      BY <3>3 DEF m
  <2> QED
    BY <1>0, <2>1, <2>2, <2>4
<1> QED
  BY <1>1, <1>2 DEF Latest

-----------------------------------------------------------------------------
(* What can make a lone run fail.                                          *)

LEMMA LoneRefused ==
  ASSUME NEW d, NEW p, DbOK(d), Sound(d, p), d.version = p.from, p.at <= Len(Sc(p)),
         NEW v, v.tables = Sees(d, p), v.words \subseteq d.words,
         v.version = Newest(Sc(p), p.at - 1, d.version),
         NEW s, s = Sc(p)[p.at], Refused(v, s)
  PROVE  /\ s = TakeBack
         /\ \E w \in d.words : w \in RoleWords /\ w.value \notin PlainRoles
<1> DEFINE ss == Sc(p)
           n == p.at - 1
           u == p.from
           f == Rev(u)
           g == Here(f, ss, n)
<1>1. /\ u \in Version /\ p.to \in Version /\ u # p.to /\ n \in 0..Len(ss) /\ n \in Nat
      /\ p.at \in 1..Len(ss) /\ IsSeq(ss) /\ Leads(ss, u, p.to)
  <2>1. Ranges(p)
    BY DEF Sound
  <2>2. /\ IsSeq(ss) /\ Len(ss) \in Nat /\ p.at \in Nat /\ n \in 0..Len(ss)
        /\ Leads(ss, u, p.to)
    BY <2>1, RangesIs
  <2>3. u \in Version /\ p.to \in Version /\ u # p.to /\ p.at \in 1..(Len(ss) + 1)
    BY <2>1 DEF Ranges
  <2> HIDE DEF ss
  <2> QED
    BY <2>2, <2>3 DEF ss
<1>2. Block(ss, u, p.to)
  BY <1>1, ScriptBlock DEF Sc
<1>3. d.tables = Revision[u] /\ Takers(d.tables, d.words) /\ d.words \subseteq Written
  BY DEF DbOK
<1>4. \A t : At(v.tables, t) = Course(t, At(d.tables, t), ss)[n]
  BY DEF Sound, OnCourse
<1>5. s.do \in Verbs
  <2>1. UpOnly(s) \/ DownOnly(s) \/ IsStamp(s)
    <3>1. u < p.to \/ p.to < u
      BY <1>1 DEF Version
    <3> HIDE DEF ss, u
    <3> QED
      BY <1>1, <3>1 DEF Leads, ss
  <2> QED
    BY <2>1 DEF UpOnly, DownOnly, IsStamp, Verbs
<1> HIDE DEF ss, u, n, f
<1>6. Passes(g, s)
  BY <1>1, <1>2 DEF Block, Leaves, Smooth, f, n, ss
<1>7. \A t \in Tables : At(v.tables, t) = g[t]
  BY <1>3, <1>4 DEF Here, f, Rev
<1>8. DOMAIN v.tables \subseteq Tables
  <2>1. SUFFICES ASSUME NEW t, t \notin Tables PROVE At(v.tables, t) = {}
    BY DEF At
  <2>2. At(d.tables, t) = {}
    BY <1>1, <1>3, <2>1, RevisionWithin
  <2>3. \A k \in 1..n : ss[k].on # t
    <3>1. \A k \in 1..n : k \in 1..Len(ss)
      BY <1>1
    <3>2. \A k \in 1..Len(ss) : ss[k].on \in Tables
      BY <1>2 DEF Block, Leaves, Smooth, Passes
    <3> QED
      BY <2>1, <3>1, <3>2
  <2>4. Course(t, {}, ss)[n] = {}
    BY <1>1, <2>3, CourseRests
  <2> QED
    BY <1>4, <2>2, <2>4
<1>9. s.do = "stamp" => v.version = s.from
  <2> SUFFICES ASSUME s.do = "stamp" PROVE v.version = s.from
    OBVIOUS
  <2>1. Latest(ss, n, u, s.from)
    BY <1>1, <1>2 DEF Block, Chained, n, ss
  <2>2. v.version = Newest(ss, n, u)
    BY DEF ss, n, u
  <2> DEFINE x == s.from
  <2>3. Latest(ss, n, u, x) /\ n \in Nat
    BY <1>1, <2>1
  <2> HIDE DEF x
  <2>4. Newest(ss, n, u) = x
    BY <2>3, LatestSeen
  <2> QED
    BY <2>2, <2>4 DEF x
<1> HIDE DEF g
<1>10. Hurts(v.words, s)
  BY <1>5, <1>6, <1>7, <1>8, <1>9, PassesRuns
<1>11. \A w \in v.words : w \in d.words /\ Accept(Revision[u], w)
  BY <1>3 DEF Takers
<1>12. u # 0
  <2>1. \E w \in v.words : TRUE
    BY <1>10 DEF Hurts
  <2> QED
    BY <1>11, <2>1, NothingFits
<1>13. Mild(s) /\ s.do = "add"
  <2>1. AllMild(ss) /\ s = ss[p.at]
    BY <1>2, <1>12 DEF Block, ss
  <2> QED
    BY <1>1, <1>10, <2>1 DEF AllMild, Hurts
<1>14. PICK o \in s.shape : \E w \in v.words : o.is = "check" /\ w.on = s.on /\ ~Allowed(w, o)
  BY <1>10, <1>13 DEF Hurts, Mild
<1>15. PICK w \in v.words : w.on = s.on /\ ~Allowed(w, o)
  BY <1>14
<1>16. s.on = "trip_members" /\ (o = RichCheck \/ s = TakeBack)
  BY <1>13, <1>14 DEF Mild
<1>17. RichCheck.name = "role" /\ RichCheck.allows = AllRoles
  BY DEF RichCheck, Check
<1>18. PlainCheck.name = "role" /\ PlainCheck.allows = PlainRoles /\ TakeBack.shape = {PlainCheck}
  BY DEF PlainCheck, Check, TakeBack, Add
<1>19. w.column = "role" /\ (o = RichCheck => w.value \notin AllRoles)
       /\ (s = TakeBack => w.value \notin PlainRoles)
  BY <1>14, <1>15, <1>16, <1>17, <1>18 DEF Allowed
<1>20. w.value \in AllRoles
  BY <1>1, <1>11, <1>15, <1>16, <1>19, RoleFits
<1>21. w \in RoleWords
  <2>1. w = [on |-> w.on, column |-> w.column, value |-> w.value]
    BY <1>3, <1>11, <1>15, WrittenWords
  <2>2. w = [on |-> "trip_members", column |-> "role", value |-> w.value]
    BY <1>15, <1>16, <1>19, <2>1
  <2> QED
    BY <1>20, <2>2 DEF RoleWords, Words
<1> QED
  BY <1>11, <1>16, <1>19, <1>20, <1>21

\* While a run is alone nobody else is on, and the revision stays what it read.
Lone(r) ==
  On(r) /\ run[r].alone =>
    /\ \A q \in Run : q # r => ~On(q)
    /\ db.version = run[r].from
LoneInv == \A r \in Run : Lone(r)

\* A step that sets no run going leaves those that are alone so.
LEMMA LoneRests ==
  ASSUME LoneInv, db'.version = db.version,
         \A r \in Run : On(r)' => /\ On(r) /\ run'[r].from = run[r].from
                                  /\ run'[r].alone => run[r].alone
  PROVE  LoneInv'
<1> SUFFICES ASSUME NEW r \in Run, On(r)', run'[r].alone
             PROVE  /\ \A q \in Run : q # r => ~On(q)'
                    /\ db'.version = run'[r].from
  BY DEF LoneInv, Lone, On
<1>1. On(r) /\ run[r].alone /\ run'[r].from = run[r].from
  OBVIOUS
<1>2. (\A q \in Run : q # r => ~On(q)) /\ db.version = run[r].from
  BY <1>1 DEF LoneInv, Lone
<1> QED
  BY <1>1, <1>2

LEMMA LoneBegins ==
  ASSUME SchemaInv, LoneInv, NEW r \in Run, NEW goal \in Goals, Begin(r, goal)
  PROVE  LoneInv'
<1> DEFINE lone == {q \in Run : On(q)} = {}
           p == [Idle EXCEPT !.step = "on", !.from = db.version, !.to = goal, !.alone = lone]
<1>1. /\ db' = db
      /\ run' = [q \in Run |-> IF q = r THEN p ELSE [run[q] EXCEPT !.alone = FALSE]]
  BY DEF Begin
<1>2. p.from = db.version /\ (p.alone => lone)
  BY DEF Idle
<1> HIDE DEF p
<1>3. run'[r] = p
  BY <1>1
<1>4. ASSUME NEW q \in Run, q # r PROVE ~run'[q].alone /\ run'[q].step = run[q].step
  <2>1. run'[q] = [run[q] EXCEPT !.alone = FALSE]
    BY <1>1, <1>4
  <2>2. DOMAIN run[q] = {"step", "from", "to", "at", "alone", "made", "gone", "held"}
    BY DEF SchemaInv, RunOK
  <2> QED
    BY <2>1, <2>2
<1>5. Lone(r)'
  <2>1. CASE p.alone
    <3>1. \A q \in Run : ~On(q)
      BY <1>2, <2>1
    <3>2. \A q \in Run : q # r => run'[q].step # "on"
      BY <1>4, <3>1 DEF On
    <3> QED
      BY <1>1, <1>2, <1>3, <3>2 DEF Lone, On
  <2>2. CASE ~p.alone
    BY <1>3, <2>2 DEF Lone, On
  <2> QED
    BY <2>1, <2>2
<1>6. ASSUME NEW q \in Run, q # r PROVE Lone(q)'
  <2>1. ~run'[q].alone
    BY <1>4, <1>6
  <2> QED
    BY <2>1 DEF Lone
<1> QED
  BY <1>5, <1>6 DEF LoneInv

LEMMA LoneExecutes ==
  ASSUME SchemaInv, LoneInv, NEW r \in Run, Execute(r)
  PROVE  LoneInv'
<1> DEFINE p == run[r]
           refused == [Idle EXCEPT !.step = "refused"]
<1>1. DOMAIN run = Run /\ RunOK(p) /\ db' = db /\ On(r)
  BY DEF SchemaInv, Execute, HasNext
<1>2. PICK at, made, gone, held :
        run' = [run EXCEPT ![r] = IF Refused(View(r), Statement(r)) THEN refused
                                  ELSE [p EXCEPT !.at = at, !.made = made, !.gone = gone,
                                                 !.held = held]]
  BY DEF Execute
<1> DEFINE z == [p EXCEPT !.at = at, !.made = made, !.gone = gone, !.held = held]
<1>3. z.from = p.from /\ z.alone = p.alone /\ z.step = p.step
  BY <1>1 DEF RunOK
<1> HIDE DEF z
<1>4. run'[r] = refused \/ run'[r] = z
  BY <1>1, <1>2 DEF z
<1>5. \A q \in Run : q # r => run'[q] = run[q]
  BY <1>1, <1>2
<1>6. refused.step # "on"
  BY IdleIs
<1> HIDE DEF refused
<1>7. ASSUME NEW q \in Run, On(q)'
      PROVE  /\ On(q) /\ run'[q].from = run[q].from
             /\ run'[q].alone => run[q].alone
  <2>1. CASE q # r
    BY <1>5, <1>7, <2>1 DEF On
  <2>2. CASE q = r
    <3>1. run'[r] = z
      BY <1>4, <1>6, <1>7, <2>2 DEF On
    <3> QED
      BY <1>1, <1>3, <2>2, <3>1
  <2> QED
    BY <2>1, <2>2
<1> QED
  BY <1>1, <1>7, LoneRests

LEMMA LoneStops ==
  ASSUME SchemaInv, LoneInv, NEW r \in Run, db' = db, run' = [run EXCEPT ![r] = Idle]
  PROVE  LoneInv'
<1>1. DOMAIN run = Run
  BY DEF SchemaInv
<1>2. run'[r] = Idle /\ Idle.step # "on" /\ \A q \in Run : q # r => run'[q] = run[q]
  BY <1>1, IdleIs
<1>3. ASSUME NEW q \in Run, On(q)'
      PROVE  /\ On(q) /\ run'[q].from = run[q].from
             /\ run'[q].alone => run[q].alone
  BY <1>2, <1>3 DEF On
<1> QED
  BY <1>3, LoneRests

\* Nobody is alone while another commits.
LEMMA LoneCommits ==
  ASSUME SchemaInv, LoneInv, NEW r \in Run, Commit(r)
  PROVE  LoneInv'
<1>1. On(r) /\ DOMAIN run = Run /\ run' = [run EXCEPT ![r] = Idle]
  BY DEF SchemaInv, Commit
<1>2. run'[r] = Idle /\ Idle.step # "on" /\ \A q \in Run : q # r => run'[q] = run[q]
  BY <1>1, IdleIs
<1>3. ASSUME NEW q \in Run, On(q)', run'[q].alone PROVE FALSE
  <2>1. q # r /\ On(q) /\ run[q].alone
    BY <1>2, <1>3 DEF On
  <2> QED
    BY <1>1, <2>1 DEF LoneInv, Lone
<1> QED
  BY <1>3 DEF LoneInv, Lone, On

LEMMA LoneWrites ==
  ASSUME SchemaInv, LoneInv, run' = run, NEW words, db' = [db EXCEPT !.words = words]
  PROVE  LoneInv'
<1>1. DOMAIN db = {"tables", "words", "version"}
  BY DEF SchemaInv, DbOK
<1>2. db'.version = db.version
  BY <1>1
<1> QED
  BY <1>2, LoneRests DEF On

LEMMA LoneNext == SchemaInv /\ LoneInv /\ [SchemaNext]_schemaVars => LoneInv'
<1> SUFFICES ASSUME SchemaInv, LoneInv, [SchemaNext]_schemaVars PROVE LoneInv'
  OBVIOUS
<1>1. ASSUME NEW r \in Run, NEW goal \in Goals, Begin(r, goal) PROVE LoneInv'
  BY <1>1, LoneBegins
<1>2. ASSUME NEW r \in Run, Execute(r) PROVE LoneInv'
  BY <1>2, LoneExecutes
<1>3. ASSUME NEW r \in Run, Commit(r) PROVE LoneInv'
  BY <1>3, LoneCommits
<1>4. ASSUME NEW r \in Run, Deadlock(r) \/ Die(r) PROVE LoneInv'
  <2>1. db' = db /\ run' = [run EXCEPT ![r] = Idle]
    BY <1>4 DEF Deadlock, Die
  <2> QED
    BY <2>1, LoneStops
<1>5. ASSUME NEW w \in Written, Write(w) PROVE LoneInv'
  <2>1. run' = run /\ db' = [db EXCEPT !.words = db.words \cup {w}]
    BY <1>5 DEF Write
  <2> QED
    BY <2>1, LoneWrites
<1>6. ASSUME NEW w \in Written, NEW x \in Written, Rewrite(w, x) PROVE LoneInv'
  <2>1. run' = run /\ db' = [db EXCEPT !.words = (db.words \ {w}) \cup {x}]
    BY <1>6 DEF Rewrite
  <2> QED
    BY <2>1, LoneWrites
<1>7. CASE UNCHANGED schemaVars
  BY <1>7 DEF schemaVars, LoneInv, Lone, On
<1> QED
  BY <1>1, <1>2, <1>3, <1>4, <1>5, <1>6, <1>7 DEF SchemaNext

\* The step at which a lone run is refused.
LEMMA RefusedFor ==
  ASSUME SchemaInv, LoneInv, [SchemaNext]_schemaVars, NEW r \in Run, On(r), run[r].alone,
         run'[r].step = "refused"
  PROVE  /\ Statement(r) = Add("trip_members", Check("role", PlainRoles), "plain")
         /\ \E v \in db.words : v \in RoleWords /\ v.value \notin PlainRoles
<1>1. DOMAIN run = Run /\ run[r].step = "on" /\ Idle.step = "idle"
  BY IdleIs DEF SchemaInv, On
<1>2. Execute(r)
  <2>1. ASSUME NEW q \in Run, NEW goal \in Goals, Begin(q, goal) PROVE FALSE
    <3>1. q # r /\ run'[r] = [run[r] EXCEPT !.alone = FALSE]
      BY <2>1 DEF Begin
    <3>2. DOMAIN run[r] = {"step", "from", "to", "at", "alone", "made", "gone", "held"}
      BY DEF SchemaInv, RunOK
    <3> QED
      BY <1>1, <3>1, <3>2
  <2>2. ASSUME NEW q \in Run, Execute(q), q # r PROVE FALSE
    <3>1. run'[r] = run[r]
      BY <1>1, <2>2 DEF Execute
    <3> QED
      BY <1>1, <3>1
  <2>3. ASSUME NEW q \in Run, Commit(q) \/ Deadlock(q) \/ Die(q) PROVE FALSE
    <3>1. run' = [run EXCEPT ![q] = Idle]
      BY <2>3 DEF Commit, Deadlock, Die
    <3> QED
      BY <1>1, <3>1
  <2>4. ASSUME run' = run PROVE FALSE
    BY <1>1, <2>4
  <2>5. ASSUME NEW w, NEW x, Write(w) \/ Rewrite(w, x) PROVE FALSE
    BY <2>4, <2>5 DEF Write, Rewrite
  <2> QED
    BY <2>1, <2>2, <2>3, <2>4, <2>5 DEF SchemaNext, schemaVars
<1> DEFINE p == run[r]
           s == Statement(r)
           v == View(r)
<1>3. Refused(v, s)
  <2>1. SUFFICES ASSUME ~Refused(v, s) PROVE run'[r].step = "on"
    BY <1>1
  <2>2. PICK at, made, gone, held :
          run' = [run EXCEPT ![r] = [p EXCEPT !.at = at, !.made = made, !.gone = gone,
                                              !.held = held]]
    BY <1>2, <2>1 DEF Execute
  <2>3. DOMAIN p = {"step", "from", "to", "at", "alone", "made", "gone", "held"}
    BY DEF SchemaInv, RunOK
  <2>4. run'[r] = [p EXCEPT !.at = at, !.made = made, !.gone = gone, !.held = held]
    BY <1>1, <2>2
  <2> HIDE DEF p
  <2>5. run'[r].step = p.step
    BY <2>3, <2>4
  <2> QED
    BY <1>1, <2>5 DEF p
<1>4. DbOK(db) /\ Sound(db, p) /\ db.version = p.from
  BY DEF SchemaInv, LoneInv, Lone
<1>5. p.at <= Len(Sc(p)) /\ s = Sc(p)[p.at]
  BY <1>2 DEF Execute, HasNext, Statement, Statements, Sc
<1>6. /\ v.tables = Sees(db, p) /\ v.words \subseteq db.words
      /\ v.version = Newest(Sc(p), p.at - 1, db.version)
  BY ViewIs DEF Newest
<1>7. TakeBack = Add("trip_members", Check("role", PlainRoles), "plain")
  BY DEF TakeBack, PlainCheck
<1> DEFINE d == db
<1> HIDE DEF p, s, v, d
<1>8. /\ s = TakeBack
      /\ \E w \in d.words : w \in RoleWords /\ w.value \notin PlainRoles
  BY <1>3, <1>4, <1>5, <1>6, LoneRefused DEF d
<1> QED
  BY <1>7, <1>8 DEF s, d

\* A run that nobody interferes with is refused only where it takes back the roles
\* of 0002 while a member has one of them.
THEOREM OnlyRoles == SchemaSpec => OnlyRolesBlock
<1>1. SchemaInit => LoneInv
  <2> SUFFICES ASSUME SchemaInit, NEW r \in Run PROVE ~On(r)
    BY DEF LoneInv, Lone
  <2>1. run[r] = Idle
    BY DEF SchemaInit
  <2> QED
    BY <2>1, IdleIs DEF On
<1>2. SchemaInv /\ LoneInv /\ [SchemaNext]_schemaVars => LoneInv'
  BY LoneNext
<1> DEFINE Apart ==
      \A r \in Run :
        /\ On(r) /\ run[r].alone
        /\ run'[r].step = "refused"
        => /\ Statement(r) = Add("trip_members", Check("role", PlainRoles), "plain")
           /\ \E v \in db.words : v \in RoleWords /\ v.value \notin PlainRoles
<1>3. SchemaInv /\ LoneInv /\ [SchemaNext]_schemaVars => [Apart]_schemaVars
  BY RefusedFor
<1>4. OnlyRolesBlock <=> [][Apart]_schemaVars
  BY DEF OnlyRolesBlock
<1> HIDE DEF Apart
<1> QED
  BY <1>1, <1>2, <1>3, <1>4, SchemaAlways, PTL DEF SchemaSpec
==============================================================================
