----------------------------- MODULE ToolProofs -----------------------------
(***************************************************************************)
(* Proofs about what a player leaves running and the fitting tool.         *)
(*                                                                         *)
(* DpsMeter and BucketFold: for any number of files, lines, captures and   *)
(* buckets the chart is what its capture read, and what was read is the    *)
(* log.  The fold forgets: it keeps the last AmendWindow buckets and the   *)
(* one in progress, the chart everything but that one, as it was shipped.  *)
(* The proof gives every capture the whole grid since it began (full), of  *)
(* which the fold is the end (Keeps) and a chart of its own all but the    *)
(* last (Charted), with each line read in one bucket (Holds).  MeterInv    *)
(* says that there is such a grid for every capture, and that its chart    *)
(* is the one that is shown while nobody else writes to that.              *)
(*                                                                         *)
(* FitOptimizer: for any hull, modules, engine and request, the fit that   *)
(* the search ends with keeps what it must and no swap would improve it.   *)
(*                                                                         *)
(* Capacitor: for any modules, the simulation repeats after its period.    *)
(***************************************************************************)
EXTENDS DpsMeter, Fitting, StepLemmas, SequenceTheorems, FiniteSetTheorems, TLAPS

-----------------------------------------------------------------------------
LineSet == [ts : Int, file : Nat, nr : Nat]
BucketSet == [start : Int, lines : Seq(LineSet)]

LEMMA LinesOf ==
    ASSUME NEW s \in Seq(LineSet)
    PROVE  /\ DOMAIN s = 1..Len(s) /\ Len(s) \in Nat
           /\ \A j \in 1..Len(s) : s[j] \in LineSet /\ s[j].ts \in Int
<1>1. DOMAIN s = 1..Len(s) /\ Len(s) \in Nat /\ \A j \in 1..Len(s) : s[j] \in LineSet
  OBVIOUS
<1>2. \A l \in LineSet : l.ts \in Int
  BY DEF LineSet
<1> QED
  BY <1>1, <1>2

LEMMA UpToFinite == \A n \in Nat : IsFiniteSet(1..n) /\ Cardinality(1..n) = n
<1> TAKE n \in Nat
<1>1. IF 1 > n THEN Cardinality(1..n) = 0 ELSE Cardinality(1..n) = n - 1 + 1
  BY FS_Interval
<1>2. IsFiniteSet(1..n)
  BY FS_Interval
<1> QED
  BY <1>1, <1>2

(* A stable sort puts each line in one place.                              *)
IsReordered(t, s) ==
    /\ t \in Seq(LineSet) /\ Len(t) = Len(s)
    /\ \E at \in [1..Len(s) -> 1..Len(s)] :
         /\ \A i \in 1..Len(s) : t[i] = s[at[i]]
         /\ \A i, j \in 1..Len(s) : at[i] = at[j] => i = j
         /\ \A k \in 1..Len(s) : \E i \in 1..Len(s) : at[i] = k

LEMMA PlaceFits ==
    ASSUME NEW s \in Seq(LineSet), NEW k \in 1..Len(s)
    PROVE  /\ Place(s, k) \in 1..Len(s)
           /\ \A m \in 1..Len(s) : s[m].ts < s[k].ts \/ (s[m].ts = s[k].ts /\ m < k) => Place(s, m) < Place(s, k)
<1> DEFINE n == Len(s)
           Upto(x) == {j \in DOMAIN s : s[j].ts < s[x].ts \/ (s[j].ts = s[x].ts /\ j <= x)}
<1>1. DOMAIN s = 1..n /\ n \in Nat /\ \A j \in 1..n : s[j].ts \in Int
  BY LinesOf
<1>2. \A x : Place(s, x) = Cardinality(Upto(x)) /\ Upto(x) \in SUBSET (1..n)
  BY <1>1 DEF Place
<1>3. IsFiniteSet(1..n) /\ Cardinality(1..n) = n
  BY ONLY <1>1, UpToFinite
<1>4. \A x : IsFiniteSet(Upto(x)) /\ Cardinality(Upto(x)) <= n /\ Cardinality(Upto(x)) \in Nat
  BY <1>2, <1>3, FS_Subset, FS_CardinalityType
<1>5. k \in Upto(k)
  BY <1>1
<1>6. Cardinality(Upto(k)) # 0
  BY <1>4, <1>5, FS_EmptySet
<1>7. ASSUME NEW m \in 1..n, s[m].ts < s[k].ts \/ (s[m].ts = s[k].ts /\ m < k)
      PROVE  Place(s, m) < Place(s, k)
  <2>1. Upto(m) \in SUBSET Upto(k)
    BY <1>1, <1>7
  <2>2. k \notin Upto(m)
    BY <1>1, <1>7
  <2> HIDE DEF Upto
  <2>3. Cardinality(Upto(m)) <= Cardinality(Upto(k)) /\ Cardinality(Upto(m)) # Cardinality(Upto(k))
    BY <1>4, <1>5, <2>1, <2>2, FS_Subset
  <2> QED
    BY <1>2, <1>4, <2>3
<1> HIDE DEF Upto
<1> QED
  BY <1>1, <1>2, <1>4, <1>6, <1>7

LEMMA InOrderIs ==
    ASSUME NEW s \in Seq(LineSet)
    PROVE  IsReordered(InOrder(s), s)
<1> DEFINE n == Len(s)
           place == [k \in 1..n |-> Place(s, k)]
           at == [i \in 1..n |-> CHOOSE k \in DOMAIN s : Place(s, k) = i]
<1>1. DOMAIN s = 1..n /\ n \in Nat /\ \A j \in 1..n : s[j].ts \in Int /\ s[j] \in LineSet
  BY LinesOf
<1>2. \A k \in 1..n : Place(s, k) \in 1..n
  BY PlaceFits
<1>3. ASSUME NEW k \in 1..n, NEW m \in 1..n, Place(s, k) = Place(s, m) PROVE k = m
  <2>1. \/ s[m].ts < s[k].ts \/ (s[m].ts = s[k].ts /\ m < k)
        \/ s[k].ts < s[m].ts \/ (s[m].ts = s[k].ts /\ k < m)
        \/ k = m
    BY <1>1
  <2>2. s[m].ts < s[k].ts \/ (s[m].ts = s[k].ts /\ m < k) => Place(s, m) < Place(s, k)
    BY PlaceFits
  <2>3. s[k].ts < s[m].ts \/ (s[k].ts = s[m].ts /\ k < m) => Place(s, k) < Place(s, m)
    BY PlaceFits
  <2> QED
    BY <1>2, <1>3, <2>1, <2>2, <2>3
<1>4. place \in Injection(1..n, 1..n)
  BY <1>2, <1>3 DEF Injection, IsInjective
<1>5. IsFiniteSet(1..n)
  BY <1>1, UpToFinite
<1>6. place \in Surjection(1..n, 1..n)
  <2> HIDE DEF place, n
  <2> QED
    BY <1>4, <1>5, FS_Injection
<1>7. \A i \in 1..n : \E k \in 1..n : Place(s, k) = i
  BY <1>6 DEF Surjection
<1>8. \A i \in 1..n : at[i] \in 1..n /\ Place(s, at[i]) = i
  BY <1>1, <1>7
<1>9. InOrder(s) = [i \in 1..n |-> s[at[i]]]
  BY DEF InOrder
<1> HIDE DEF at, n
<1>10. InOrder(s) \in Seq(LineSet) /\ Len(InOrder(s)) = n
  BY <1>1, <1>8, <1>9
<1>11. \A i \in 1..n : InOrder(s)[i] = s[at[i]]
  BY <1>9
<1>12. \A i, j \in 1..n : at[i] = at[j] => i = j
  BY <1>8
<1>13. \A k \in 1..n : at[Place(s, k)] = k
  BY <1>2, <1>3, <1>8
<1>14. at \in [1..n -> 1..n]
  BY <1>8 DEF at
<1> QED
  BY <1>2, <1>10, <1>11, <1>12, <1>13, <1>14 DEF IsReordered, n

LEMMA SnapshotIs ==
    ASSUME NEW b \in BucketSet
    PROVE  /\ Snapshot(b) \in BucketSet /\ Snapshot(b).start = b.start
           /\ IsReordered(Snapshot(b).lines, b.lines)
           /\ b.lines = <<>> => Snapshot(b) = b
<1>1. b.lines \in Seq(LineSet)
  BY DEF BucketSet
<1>2. IsReordered(InOrder(b.lines), b.lines)
  BY <1>1, InOrderIs
<1>3. InOrder(b.lines) \in Seq(LineSet)
  BY <1>2 DEF IsReordered
<1>4. b.lines = <<>> => InOrder(b.lines) = <<>>
  BY <1>2, <1>3 DEF IsReordered
<1>5. Snapshot(b) = [start |-> b.start, lines |-> InOrder(b.lines)]
  BY DEF Snapshot, BucketSet
<1> HIDE DEF Snapshot
<1> QED
  BY <1>2, <1>3, <1>4, <1>5 DEF BucketSet

-----------------------------------------------------------------------------
LEMMA UpsertTyped ==
    ASSUME NEW chart \in Seq(BucketSet), NEW b \in BucketSet
    PROVE  Upsert(chart, b) \in Seq(BucketSet)
<1>1. Append(chart, b) \in Seq(BucketSet)
  OBVIOUS
<1>2. [i \in DOMAIN chart |-> IF chart[i].start = b.start THEN b ELSE chart[i]] \in Seq(BucketSet)
  <2> HIDE DEF BucketSet
  <2>1. DOMAIN chart = 1..Len(chart) /\ Len(chart) \in Nat /\ \A i \in 1..Len(chart) : chart[i] \in BucketSet
    OBVIOUS
  <2> QED
    BY <2>1
<1> QED
  BY <1>1, <1>2 DEF Upsert

(* The buckets of a message, one after the other.                          *)
SentBy(kept, chart, out) ==
    /\ kept[0] = chart
    /\ \A n \in 1..Len(out) : kept[n] = Upsert(kept[n - 1], out[n])
    /\ \A n \in 0..Len(out) : kept[n] \in Seq(BucketSet)
    /\ Sent(chart, out) = kept[Len(out)]

LEMMA SentIs ==
    ASSUME NEW chart \in Seq(BucketSet), NEW out \in Seq(BucketSet)
    PROVE  \E kept : SentBy(kept, chart, out)
<1> DEFINE N == Len(out)
           X == [n \in 0..N |-> Seq(BucketSet)]
           step == [n \in 1..N |-> [y \in Seq(BucketSet) |-> Upsert(y, out[n])]]
           Body(h) == [i \in 0..N |-> IF i = 0 THEN chart ELSE Upsert(h[i - 1], out[i])]
           kept == CHOOSE h : h = Body(h)
<1>1. N \in Nat /\ \A n \in 1..N : out[n] \in BucketSet
  OBVIOUS
<1>2. \A n \in 1..N : n - 1 \in 0..N /\ n \in 0..N
  BY <1>1
<1>3. \A n \in 1..N : \A y \in X[n - 1] : step[n][y] \in X[n] /\ step[n][y] = Upsert(y, out[n])
  <2> SUFFICES ASSUME NEW n \in 1..N, NEW y \in X[n - 1] PROVE step[n][y] \in X[n] /\ step[n][y] = Upsert(y, out[n])
    OBVIOUS
  <2>1. y \in Seq(BucketSet) /\ X[n] = Seq(BucketSet) /\ out[n] \in BucketSet
    BY <1>1, <1>2
  <2> QED
    BY <2>1, UpsertTyped
<1>4. chart \in X[0]
  BY <1>1
<1> HIDE DEF step
<1>5. Staged(N, X, chart, step)
  <2> HIDE DEF X, N
  <2> QED
    BY <1>1, <1>3, <1>4, StagesDefine
<1>6. PICK f : /\ f = [n \in 0..N |-> f[n]] /\ f[0] = chart
               /\ \A n \in 1..N : f[n] = step[n][f[n - 1]]
               /\ \A n \in 0..N : f[n] \in X[n]
  BY <1>5 DEF Staged
<1>7. \A n \in 0..N : f[n] \in Seq(BucketSet)
  BY <1>6
<1>8. \A n \in 1..N : f[n] = Upsert(f[n - 1], out[n])
  BY <1>2, <1>3, <1>6
<1>9. f = Body(f)
  <2>1. \A i \in 0..N : f[i] = IF i = 0 THEN chart ELSE Upsert(f[i - 1], out[i])
    <3>1. \A i \in 0..N : i = 0 \/ i \in 1..N
      BY <1>1
    <3>2. \A i \in 1..N : i # 0
      OBVIOUS
    <3> QED
      BY <1>6, <1>8, <3>1, <3>2
  <2> QED
    BY <1>6, <2>1
<1>10. kept = Body(kept)
  <2> HIDE DEF Body
  <2> QED
    BY <1>9
<1>11. Sent(chart, out) = kept[N]
  BY DEF Sent
<1> HIDE DEF kept
<1>12. kept[0] = chart /\ \A n \in 1..N : kept[n] = Upsert(kept[n - 1], out[n])
  BY <1>1, <1>2, <1>10
<1>13. \A n \in 0..N : kept[n] \in Seq(BucketSet)
  <2> DEFINE Y == [n \in 0..N |-> Seq(BucketSet)]
  <2>1. \A n \in 1..N : kept[n - 1] \in Y[n - 1] => kept[n] \in Y[n]
    BY <1>1, <1>2, <1>12, UpsertTyped
  <2>2. kept[0] \in Y[0]
    BY <1>1, <1>12
  <2>3. \A n \in 0..N : kept[n] \in Y[n]
    <3> HIDE DEF Y, N
    <3> QED
      BY <1>1, <2>1, <2>2, StagesAre
  <2> QED
    BY <2>3
<1>14. SentBy(kept, chart, out)
  BY <1>11, <1>12, <1>13 DEF SentBy
<1> QED
  BY <1>14

LEMMA SentTyped ==
    ASSUME NEW chart \in Seq(BucketSet), NEW out \in Seq(BucketSet)
    PROVE  Sent(chart, out) \in Seq(BucketSet) /\ Sent(chart, <<>>) = chart
<1>1. PICK kept : SentBy(kept, chart, out)
  BY SentIs
<1>2. <<>> \in Seq(BucketSet) /\ Len(<<>>) = 0 /\ Len(out) \in Nat
  OBVIOUS
<1>3. PICK none : SentBy(none, chart, <<>>)
  BY <1>2, SentIs
<1> QED
  BY <1>1, <1>2, <1>3 DEF SentBy

(* Two messages are as one with the buckets of both.                       *)
LEMMA SentInTwo ==
    ASSUME NEW chart \in Seq(BucketSet), NEW o1 \in Seq(BucketSet), NEW o2 \in Seq(BucketSet)
    PROVE  Sent(chart, o1 \o o2) = Sent(Sent(chart, o1), o2)
<1> DEFINE a == Len(o1)
           b == Len(o2)
           o == o1 \o o2
<1>1. a \in Nat /\ b \in Nat /\ o \in Seq(BucketSet) /\ Len(o) = a + b
  OBVIOUS
<1>2. (\A n \in 1..a : o[n] = o1[n]) /\ (\A n \in 1..b : o[a + n] = o2[n])
  OBVIOUS
<1>3. Sent(chart, o1) \in Seq(BucketSet)
  BY SentTyped
<1> HIDE DEF o
<1>4. PICK k : SentBy(k, chart, o)
  BY <1>1, SentIs
<1>5. PICK k1 : SentBy(k1, chart, o1)
  BY SentIs
<1>6. PICK k2 : SentBy(k2, Sent(chart, o1), o2)
  BY <1>3, SentIs
<1> DEFINE A == {n \in Nat : n <= a => k[n] = k1[n]}
           B == {n \in Nat : n <= b => k[a + n] = k2[n]}
<1>7. 0 \in A
  BY <1>4, <1>5 DEF SentBy
<1>8. ASSUME NEW n \in Nat, n \in A PROVE n + 1 \in A
  <2> SUFFICES ASSUME n + 1 <= a PROVE k[n + 1] = k1[n + 1]
    BY <1>1
  <2>1. n + 1 \in 1..a /\ n + 1 \in 1..Len(o) /\ (n + 1) - 1 = n /\ k[n] = k1[n]
    BY <1>1, <1>8
  <2> QED
    BY <1>2, <1>4, <1>5, <2>1 DEF SentBy
<1>9. \A n \in Nat : n \in A
  <2> HIDE DEF A
  <2> QED
    BY <1>7, <1>8, SetInduction
<1>10. k[a] = Sent(chart, o1)
  BY <1>1, <1>5, <1>9 DEF SentBy
<1>11. 0 \in B
  BY <1>1, <1>6, <1>10 DEF SentBy
<1>12. ASSUME NEW n \in Nat, n \in B PROVE n + 1 \in B
  <2> SUFFICES ASSUME n + 1 <= b PROVE k[a + (n + 1)] = k2[n + 1]
    BY <1>1
  <2>0. n <= b
    BY <1>1
  <2>1. n + 1 \in 1..b /\ a + (n + 1) \in 1..Len(o) /\ (n + 1) - 1 = n /\ (a + (n + 1)) - 1 = a + n /\ k[a + n] = k2[n]
    <3>1. a \in Nat /\ b \in Nat /\ Len(o) = a + b
      BY <1>1
    <3>2. k[a + n] = k2[n]
      BY <1>12, <2>0
    <3> HIDE DEF a, b
    <3>3. n + 1 \in 1..b /\ a + (n + 1) \in 1..(a + b) /\ (n + 1) - 1 = n /\ (a + (n + 1)) - 1 = a + n
      BY <3>1
    <3> QED
      BY <3>1, <3>2, <3>3
  <2>2. k[a + (n + 1)] = Upsert(k[a + n], o[a + (n + 1)])
    BY <1>4, <2>1 DEF SentBy
  <2>3. k2[n + 1] = Upsert(k2[n], o2[n + 1])
    BY <1>6, <2>1 DEF SentBy
  <2> QED
    BY <1>2, <2>1, <2>2, <2>3
<1>13. \A n \in Nat : n \in B
  <2> HIDE DEF B
  <2> QED
    BY <1>11, <1>12, SetInduction
<1>14. k[a + b] = k2[b]
  <2>1. b \in B /\ b <= b
    BY <1>1, <1>13
  <2> QED
    BY <1>1, <2>1
<1> QED
  BY <1>1, <1>4, <1>6, <1>14 DEF SentBy, o

-----------------------------------------------------------------------------
LEMMA Exact ==
    ASSUME NEW b \in Nat \ {0}, NEW q \in Int
    PROVE  (q * b) \div b = q
OBVIOUS

LEMMA Ordered ==
    ASSUME NEW b \in Nat \ {0}, NEW q \in Int, NEW r \in Int
    PROVE  /\ q * b \in Int /\ (q * b < r * b <=> q < r) /\ (q * b = r * b <=> q = r)
           /\ (r * b) - (q * b) = (r - q) * b /\ (q * b) + (r * b) = (q + r) * b
<1>1. q < r => q * b < r * b
  OBVIOUS
<1>2. r < q => r * b < q * b
  OBVIOUS
<1>3. /\ q * b \in Int /\ r * b \in Int
      /\ (r * b) - (q * b) = (r - q) * b /\ (q * b) + (r * b) = (q + r) * b
  OBVIOUS
<1> QED
  BY <1>1, <1>2, <1>3

LEMMA StartIs ==
    ASSUME NEW ts \in Int
    PROVE  \E t \in Int : BucketStart(ts) = t * BucketSecs
<1>1. BucketSecs \in Nat \ {0}
  BY MeterAssumption
<1>2. ts = BucketSecs * (ts \div BucketSecs) + (ts % BucketSecs) /\ ts \div BucketSecs \in Int
  BY <1>1
<1>3. BucketStart(ts) = (ts \div BucketSecs) * BucketSecs
  BY <1>1, <1>2 DEF BucketStart
<1> QED
  BY <1>2, <1>3

(* The whole grid since a capture began, of which the fold keeps the end   *)
(* and the chart has all but the last, as they were shipped.               *)
Earliest(n) == IF n > AmendWindow THEN n - AmendWindow ELSE 1

StartsAt(full, q) == \A i \in 1..Len(full) : full[i].start = (q + i) * BucketSecs

Charted(full, chart) ==
    /\ chart \in Seq(BucketSet) /\ Len(chart) = Len(full) - 1
    /\ \A i \in 1..Len(chart) : chart[i] = Snapshot(full[i])

Keeps(full, grid) ==
    /\ grid \in Seq(BucketSet) /\ Len(grid) = Len(full) - Earliest(Len(full)) + 1
    /\ \A i \in 1..Len(grid) : grid[i] = full[Earliest(Len(full)) + i - 1]

Fits(full, chart, grid) ==
    /\ full \in Seq(BucketSet) /\ full # <<>>
    /\ \E q \in Int : StartsAt(full, q)
    /\ Charted(full, chart) /\ Keeps(full, grid)

LEMMA BucketsOf ==
    ASSUME NEW s \in Seq(BucketSet)
    PROVE  /\ DOMAIN s = 1..Len(s) /\ Len(s) \in Nat
           /\ \A i \in 1..Len(s) : s[i] \in BucketSet /\ s[i].start \in Int /\ s[i].lines \in Seq(LineSet)
<1>1. DOMAIN s = 1..Len(s) /\ Len(s) \in Nat /\ \A j \in 1..Len(s) : s[j] \in BucketSet
  OBVIOUS
<1>2. \A b \in BucketSet : b.start \in Int /\ b.lines \in Seq(LineSet)
  BY DEF BucketSet
<1> QED
  BY <1>1, <1>2

LEMMA EmptyIs ==
    ASSUME NEW start \in Int
    PROVE  /\ Empty(start) \in BucketSet /\ Empty(start).start = start /\ Empty(start).lines = <<>>
           /\ Snapshot(Empty(start)) = Empty(start)
<1>1. Empty(start) \in BucketSet /\ Empty(start).start = start /\ Empty(start).lines = <<>>
  BY DEF Empty, BucketSet
<1> QED
  BY <1>1, SnapshotIs

(* What is sent to a chart with later and later starts is appended to it.  *)
LEMMA SentAppends ==
    ASSUME NEW chart \in Seq(BucketSet), NEW out \in Seq(BucketSet),
           \A i \in 1..Len(chart) : \A j \in 1..Len(out) : chart[i].start < out[j].start,
           \A i, j \in 1..Len(out) : i < j => out[i].start < out[j].start
    PROVE  Sent(chart, out) = chart \o out
<1>1. PICK kept : SentBy(kept, chart, out)
  BY SentIs
<1>2. /\ Len(chart) \in Nat /\ Len(out) \in Nat /\ \A i \in 1..Len(out) : out[i] \in BucketSet
  BY BucketsOf
<1> DEFINE Some1(n) == chart \o SubSeq(out, 1, n)
           A == {n \in Nat : n <= Len(out) => kept[n] = Some1(n)}
<1>3. 0 \in A
  <2>1. SubSeq(out, 1, 0) = <<>> /\ chart \o <<>> = chart
    OBVIOUS
  <2> QED
    BY <1>1, <2>1 DEF SentBy
<1>4. ASSUME NEW n \in Nat, n \in A PROVE n + 1 \in A
  <2> SUFFICES ASSUME n + 1 <= Len(out) PROVE kept[n + 1] = Some1(n + 1)
    OBVIOUS
  <2>1. n + 1 \in 1..Len(out) /\ (n + 1) - 1 = n /\ n <= Len(out)
    BY <1>2
  <2>2. kept[n] = Some1(n) /\ kept[n + 1] = Upsert(kept[n], out[n + 1])
    BY <1>1, <1>4, <2>1 DEF SentBy
  <2>3. /\ SubSeq(out, 1, n) \in Seq(BucketSet) /\ Len(SubSeq(out, 1, n)) = n
        /\ \A i \in 1..n : SubSeq(out, 1, n)[i] = out[i]
    <3> HIDE DEF BucketSet
    <3> QED
      BY <1>2, <2>1
  <2>4. /\ Some1(n) \in Seq(BucketSet) /\ Len(Some1(n)) = Len(chart) + n
        /\ \A i \in 1..Len(chart) : Some1(n)[i] = chart[i]
        /\ \A i \in 1..n : Some1(n)[Len(chart) + i] = out[i]
    BY <1>2, <2>3
  <2>5. Some1(n) # <<>> => out[n + 1].start > Last(Some1(n)).start
    <3> SUFFICES ASSUME Len(chart) + n > 0 PROVE out[n + 1].start > Some1(n)[Len(chart) + n].start
      BY <1>2, <2>4 DEF Last
    <3>1. CASE n = 0
      <4>1. Len(chart) \in 1..Len(chart) /\ Some1(n)[Len(chart) + n] = chart[Len(chart)]
        BY <1>2, <2>4, <3>1
      <4>2. out[n + 1].start > chart[Len(chart)].start
        BY <2>1, <4>1
      <4> QED
        BY <4>1, <4>2
    <3>2. CASE n # 0
      <4>1. n \in 1..n /\ n \in 1..Len(out) /\ Some1(n)[Len(chart) + n] = out[n]
        BY <1>2, <2>1, <2>4, <3>2
      <4>2. out[n].start \in Int /\ out[n + 1].start \in Int
        BY <2>1, <4>1, BucketsOf
      <4> QED
        BY <2>1, <4>1, <4>2
    <3> QED
      BY <3>1, <3>2
  <2>6. kept[n + 1] = Append(Some1(n), out[n + 1])
    <3> HIDE DEF Some1
    <3> QED
      BY <2>2, <2>5 DEF Upsert
  <2>7. SubSeq(out, 1, n + 1) = Append(SubSeq(out, 1, n), out[n + 1])
    <3> HIDE DEF BucketSet
    <3> QED
      BY <1>2, <2>1
  <2>8. chart \o Append(SubSeq(out, 1, n), out[n + 1]) = Append(chart \o SubSeq(out, 1, n), out[n + 1])
    <3> DEFINE o == SubSeq(out, 1, n)
               e == out[n + 1]
    <3>1. o \in Seq(BucketSet) /\ e \in BucketSet
      BY <1>2, <2>1, <2>3
    <3> HIDE DEF o, e, BucketSet
    <3>2. chart \o Append(o, e) = Append(chart \o o, e)
      BY <3>1
    <3> QED
      BY <3>2 DEF o, e
  <2> QED
    BY <2>6, <2>7, <2>8
<1>5. \A n \in Nat : n \in A
  <2> HIDE DEF A
  <2> QED
    BY <1>3, <1>4, SetInduction
<1>6. kept[Len(out)] = chart \o SubSeq(out, 1, Len(out))
  BY <1>2, <1>5
<1>7. SubSeq(out, 1, Len(out)) = out
  OBVIOUS
<1> QED
  BY <1>1, <1>6, <1>7 DEF SentBy

-----------------------------------------------------------------------------
(* Empty buckets follow.                                                   *)
Grown(new, full) ==
    /\ Len(full) < Len(new)
    /\ \A i \in 1..Len(full) : new[i] = full[i]
    /\ \A i \in Len(full) + 1..Len(new) : new[i].lines = <<>>

LEMMA EarliestIs ==
    ASSUME NEW n \in Nat \ {0}
    PROVE  /\ Earliest(n) \in 1..n /\ AmendWindow \in Nat
           /\ n <= AmendWindow + 1 => Earliest(n) = 1
           /\ n > AmendWindow => Earliest(n) = n - AmendWindow
           /\ AmendWindow = 0 => Earliest(n) = n
BY MeterAssumption DEF Earliest

IsPark(p, all, n, c) ==
    /\ c = (IF n > AmendWindow THEN AmendWindow ELSE n)
    /\ p \in Seq(BucketSet) /\ Len(p) = c
    /\ \A i \in 1..c : p[i] = all[n - c + i]

LEMMA ParkIs ==
    ASSUME NEW all \in Seq(BucketSet)
    PROVE  \E c : IsPark(Park(all), all, Len(all), c)
<1> HIDE DEF BucketSet
<1>1. AmendWindow \in Nat /\ Len(all) \in Nat
  BY MeterAssumption
<1>2. CASE Len(all) > AmendWindow
  <2>1. IsPark(Park(all), all, Len(all), AmendWindow)
    BY <1>1, <1>2 DEF Park, IsPark
  <2> QED
    BY <2>1
<1>3. CASE ~(Len(all) > AmendWindow)
  <2>1. IsPark(Park(all), all, Len(all), Len(all))
    BY <1>1, <1>3 DEF Park, IsPark
  <2> QED
    BY <2>1
<1> QED
  BY <1>2, <1>3

(* That with a name for what there is of each.                             *)
KeptAs(full, chart, grid, n, e, k) ==
    /\ n = Len(full) /\ n \in Nat \ {0} /\ e = Earliest(n) /\ e \in 1..n
    /\ k = Len(grid) /\ k = n - e + 1 /\ k \in Nat \ {0}
    /\ full[n] = Last(grid) /\ grid # <<>>
    /\ Len(chart) = n - 1
    /\ \A i \in 1..k : grid[i] = full[e + i - 1]

LEMMA KeptIs ==
    ASSUME NEW full, NEW chart, NEW grid, Fits(full, chart, grid)
    PROVE  \E n, e, k : KeptAs(full, chart, grid, n, e, k)
<1>1. full \in Seq(BucketSet) /\ full # <<>> /\ Keeps(full, grid) /\ grid \in Seq(BucketSet)
  BY DEF Fits, Keeps
<1>2. Len(full) \in Nat \ {0} /\ Len(grid) \in Nat
  BY <1>1
<1>3. Earliest(Len(full)) \in 1..Len(full)
  BY <1>2, EarliestIs
<1>4. Len(grid) = Len(full) - Earliest(Len(full)) + 1
  BY <1>1 DEF Keeps
<1>5. Len(grid) \in 1..Len(grid) /\ Earliest(Len(full)) + Len(grid) - 1 = Len(full)
  BY <1>2, <1>3, <1>4
<1>6. Last(grid) = full[Len(full)]
  BY <1>1, <1>5 DEF Last, Keeps
<1>7. Len(chart) = Len(full) - 1 /\ \A i \in 1..Len(grid) : grid[i] = full[Earliest(Len(full)) + i - 1]
  BY <1>1 DEF Fits, Charted, Keeps
<1>8. grid # <<>>
  BY <1>1, <1>5
<1>9. KeptAs(full, chart, grid, Len(full), Earliest(Len(full)), Len(grid))
  BY <1>2, <1>3, <1>4, <1>5, <1>6, <1>7, <1>8 DEF KeptAs
<1> QED
  BY <1>9

LEMMA RollFits ==
    ASSUME NEW full, NEW chart, NEW grid, Fits(full, chart, grid),
           NEW t \in Int, t * BucketSecs > Last(grid).start
    PROVE  /\ RollTo(grid, t * BucketSecs).out \in Seq(BucketSet)
           /\ \E new : /\ Fits(new, Sent(chart, RollTo(grid, t * BucketSecs).out), RollTo(grid, t * BucketSecs).grid)
                       /\ Grown(new, full) /\ new[Len(new)].start = t * BucketSecs
<1> DEFINE B == BucketSecs
           target == t * B
<1>1. /\ full \in Seq(BucketSet) /\ chart \in Seq(BucketSet) /\ grid \in Seq(BucketSet)
      /\ \A i \in 1..Len(chart) : chart[i] = Snapshot(full[i])
  BY DEF Fits, Charted, Keeps
<1>a. PICK n, e, k : KeptAs(full, chart, grid, n, e, k)
  BY KeptIs
<1>2. /\ n = Len(full) /\ e = Earliest(n) /\ k = Len(grid)
      /\ n \in Nat \ {0} /\ e \in 1..n /\ k = n - e + 1 /\ k \in Nat \ {0}
      /\ Last(grid) = full[n] /\ Len(chart) = n - 1 /\ \A i \in 1..k : grid[i] = full[e + i - 1]
  BY <1>a DEF KeptAs
<1>3. \A i \in 1..n : full[i] \in BucketSet
  BY <1>1, <1>2, BucketsOf
<1>4. PICK q \in Int : \A i \in 1..n : full[i].start = (q + i) * B
  BY <1>2 DEF Fits, StartsAt
<1>5. B \in Nat \ {0} /\ AmendWindow \in Nat
  BY MeterAssumption
<1> DEFINE m == t - q - n - 1
           new == [i \in 1..n + m + 1 |-> IF i <= n THEN full[i] ELSE Empty((q + i) * B)]
           gap == Gap(Last(grid).start, target)
           out == <<Snapshot(Last(grid))>> \o gap
           all == grid \o gap
<1>6. Last(grid).start = (q + n) * B /\ q + n \in Int
  BY <1>2, <1>4
<1>7. m \in Nat
  <2>1. q + n < t
    BY <1>5, <1>6, Ordered
  <2> QED
    BY <1>2, <2>1
<1>n. /\ n \in Int /\ e \in Int /\ k \in Int /\ m \in Int
      /\ n >= 1 /\ e >= 1 /\ e <= n /\ k = n - e + 1 /\ m >= 0
  BY <1>2, <1>7
<1> HIDE DEF B
<1>8. gap = [i \in 1..m |-> Empty((q + n + i) * B)]
  <2>1. target - Last(grid).start = (t - (q + n)) * B
    BY <1>5, <1>6, Ordered
  <2>2. ((t - (q + n)) * B) \div B = t - (q + n)
    BY <1>2, <1>5, Exact
  <2>3. (target - Last(grid).start) \div B - 1 = m
    BY <1>2, <2>1, <2>2
  <2>4. \A i \in 1..m : Last(grid).start + i * B = (q + n + i) * B
    BY <1>5, <1>6, Ordered
  <2> QED
    BY <2>3, <2>4 DEF Gap, B
<1> HIDE DEF gap, m
<1>9. \A i \in Int : (q + i) * B \in Int
  BY <1>5, Ordered
<1>10. \A i \in 1..m : q + n + i = q + (n + i) /\ n + i \in Int
  BY ONLY <1>n
<1>11. /\ gap \in Seq(BucketSet) /\ Len(gap) = m
       /\ \A i \in 1..m : gap[i] = Empty((q + (n + i)) * B) /\ gap[i] \in BucketSet
  <2>1. ASSUME NEW i \in 1..m
        PROVE  gap[i] = Empty((q + (n + i)) * B) /\ gap[i] \in BucketSet
    <3>1. q + n + i = q + (n + i) /\ n + i \in Int /\ (q + (n + i)) * B \in Int
      BY <1>9, <1>10
    <3>2. Empty((q + (n + i)) * B) \in BucketSet
      BY <3>1, EmptyIs
    <3> QED
      BY <1>8, <3>1, <3>2
  <2> HIDE DEF BucketSet
  <2> QED
    BY <1>7, <1>8, <2>1
<1>12. /\ \A i \in 1..n : new[i] = full[i]
       /\ \A i \in n + 1..n + m + 1 : new[i] = Empty((q + i) * B)
  BY <1>n
<1>13. new \in Seq(BucketSet) /\ Len(new) = n + m + 1
  <2>1. \A i \in 1..n + m + 1 : i \in 1..n \/ i \in n + 1..n + m + 1
    BY <1>n
  <2>2. ASSUME NEW i \in n + 1..n + m + 1 PROVE Empty((q + i) * B) \in BucketSet
    <3>1. (q + i) * B \in Int
      BY <1>n, <1>9
    <3> QED
      BY <3>1, EmptyIs
  <2>3. \A i \in 1..n + m + 1 : new[i] \in BucketSet
    <3> HIDE DEF new, BucketSet
    <3> QED
      BY <1>3, <1>12, <2>1, <2>2
  <2>4. n + m + 1 \in Nat
    BY <1>n
  <2> HIDE DEF BucketSet
  <2> QED
    BY <2>3, <2>4
<1> HIDE DEF new
<1>14. \A i \in 1..n + m + 1 : new[i].start = (q + i) * B
  <2>1. \A i \in 1..n + m + 1 : i \in 1..n \/ (i \in n + 1..n + m + 1 /\ (q + i) * B \in Int)
    BY <1>n, <1>9
  <2> QED
    BY <1>4, <1>12, <2>1, EmptyIs
<1>15. Grown(new, full)
  <2>1. \A i \in n + 1..n + m + 1 : (q + i) * B \in Int
    BY <1>n, <1>9
  <2> QED
    <3>1. ASSUME NEW i \in n + 1..n + m + 1 PROVE new[i].lines = <<>>
      BY <1>12, <2>1, EmptyIs
    <3>2. n = Len(full) /\ n + m + 1 = Len(new) /\ n < n + m + 1
      BY <1>2, <1>n, <1>13
    <3> QED
      BY <1>12, <3>1, <3>2 DEF Grown
<1>16. new[Len(new)].start = target
  <2>1. q + (n + m + 1) = t /\ n + m + 1 \in 1..n + m + 1
    BY <1>n DEF m
  <2> QED
    BY <1>13, <1>14, <2>1
<1>17. /\ out \in Seq(BucketSet) /\ Len(out) = m + 1
       /\ \A j \in 1..m + 1 : out[j] = Snapshot(new[n - 1 + j])
  <2>1. Snapshot(full[n]) \in BucketSet /\ full[n] = new[n - 1 + 1]
    BY <1>2, <1>3, <1>12, SnapshotIs
  <2> HIDE DEF BucketSet
  <2>2. /\ out \in Seq(BucketSet) /\ Len(out) = m + 1 /\ out[1] = Snapshot(full[n])
        /\ \A j \in 1..m : out[1 + j] = gap[j]
    <3>1. Last(grid) = full[n]
      BY <1>2
    <3> QED
      BY <1>n, <1>11, <2>1, <3>1
  <2>3. ASSUME NEW j \in 1..m PROVE gap[j] = Snapshot(new[n + j])
    <3>1. n + j \in n + 1..n + m + 1 /\ n + j \in Int
      BY <1>n
    <3>2. (q + (n + j)) * B \in Int
      BY <1>9, <3>1
    <3>3. gap[j] = Empty((q + (n + j)) * B) /\ new[n + j] = Empty((q + (n + j)) * B)
      BY <1>11, <1>12, <3>1
    <3> QED
      BY <3>2, <3>3, EmptyIs
  <2> HIDE DEF out
  <2>4. ASSUME NEW j \in 1..m + 1 PROVE out[j] = Snapshot(new[n - 1 + j])
    <3>1. CASE j = 1
      BY <2>1, <2>2, <3>1
    <3>2. CASE j # 1
      <4>1. j - 1 \in 1..m /\ 1 + (j - 1) = j /\ n + (j - 1) = n - 1 + j
        BY <1>n, <3>2
      <4> QED
        BY <2>2, <2>3, <4>1
    <3> QED
      BY <3>1, <3>2
  <2> QED
    BY <2>2, <2>4
<1> HIDE DEF out
<1>18. \A j \in 1..m + 1 : out[j].start = (q + (n - 1 + j)) * B
  <2>1. \A j \in 1..m + 1 : n - 1 + j \in 1..n + m + 1
    BY <1>n
  <2>2. \A i \in 1..n + m + 1 : new[i] \in BucketSet
    BY <1>13, BucketsOf
  <2> QED
    BY <1>14, <1>17, <2>1, <2>2, SnapshotIs
<1>19. ASSUME NEW i \in 1..n - 1 PROVE chart[i].start = (q + i) * B
  <2>1. i \in 1..n /\ i \in 1..Len(chart)
    BY <1>2, <1>n
  <2> QED
    BY <1>1, <1>3, <1>4, <2>1, SnapshotIs
<1>20. Sent(chart, out) = chart \o out
  <2>1. ASSUME NEW i \in 1..Len(chart), NEW j \in 1..Len(out) PROVE chart[i].start < out[j].start
    <3>0. i \in 1..n - 1 /\ j \in 1..m + 1
      BY <1>2, <1>17
    <3>1. i \in 1..n - 1 /\ j \in 1..m + 1 /\ q + i \in Int /\ q + (n - 1 + j) \in Int /\ q + i < q + (n - 1 + j)
      BY <1>n, <3>0
    <3>2. chart[i].start = (q + i) * B /\ out[j].start = (q + (n - 1 + j)) * B
      BY <1>18, <1>19, <3>1
    <3>3. (q + i) * B < (q + (n - 1 + j)) * B
      BY <1>5, <3>1, Ordered
    <3> QED
      BY <3>2, <3>3
  <2>2. ASSUME NEW i \in 1..Len(out), NEW j \in 1..Len(out), i < j PROVE out[i].start < out[j].start
    <3>1. /\ i \in 1..m + 1 /\ j \in 1..m + 1 /\ q + (n - 1 + i) \in Int /\ q + (n - 1 + j) \in Int
          /\ q + (n - 1 + i) < q + (n - 1 + j)
      BY <1>n, <1>17, <2>2
    <3> QED
      BY <1>5, <1>18, <3>1, Ordered
  <2> QED
    BY <1>1, <1>17, <2>1, <2>2, SentAppends
<1>21. Charted(new, chart \o out)
  <2> HIDE DEF BucketSet
  <2>1. /\ chart \o out \in Seq(BucketSet) /\ Len(chart \o out) = n + m
        /\ \A i \in 1..n - 1 : (chart \o out)[i] = chart[i]
        /\ \A j \in 1..m + 1 : (chart \o out)[n - 1 + j] = out[j]
    <3>1. Len(chart) = n - 1 /\ Len(out) = m + 1 /\ chart \in Seq(BucketSet) /\ out \in Seq(BucketSet)
      BY <1>1, <1>2, <1>17
    <3>2. /\ chart \o out \in Seq(BucketSet) /\ Len(chart \o out) = Len(chart) + Len(out)
          /\ \A i \in 1..Len(chart) : (chart \o out)[i] = chart[i]
          /\ \A j \in 1..Len(out) : (chart \o out)[Len(chart) + j] = out[j]
      BY <3>1
    <3> QED
      BY <1>n, <3>1, <3>2
  <2>2. ASSUME NEW i \in 1..n + m PROVE (chart \o out)[i] = Snapshot(new[i])
    <3>1. CASE i \in 1..n - 1
      <4>1. i \in 1..n /\ i \in 1..Len(chart)
        BY <1>2, <1>n, <3>1
      <4> QED
        BY <1>1, <1>12, <2>1, <3>1, <4>1
    <3>2. CASE i \notin 1..n - 1
      <4>1. i - (n - 1) \in 1..m + 1 /\ n - 1 + (i - (n - 1)) = i
        BY <1>n, <3>2
      <4> QED
        BY <1>17, <2>1, <4>1
    <3> QED
      BY <3>1, <3>2
  <2>3. Len(new) - 1 = n + m
    BY <1>n, <1>13
  <2> QED
    BY <2>1, <2>2, <2>3 DEF Charted
<1>22. /\ all \in Seq(BucketSet) /\ Len(all) = k + m
       /\ \A i \in 1..k + m : all[i] = new[e + i - 1]
  <2> HIDE DEF BucketSet
  <2>1. /\ all \in Seq(BucketSet) /\ Len(all) = k + m
        /\ \A i \in 1..k : all[i] = grid[i]
        /\ \A j \in 1..m : all[k + j] = gap[j]
    <3>1. Len(grid) = k /\ Len(gap) = m /\ grid \in Seq(BucketSet) /\ gap \in Seq(BucketSet) /\ k >= 1
      BY <1>1, <1>2, <1>11
    <3> QED
      BY <1>n, <3>1
  <2> HIDE DEF all
  <2>2. ASSUME NEW i \in 1..k + m PROVE all[i] = new[e + i - 1]
    <3>1. CASE i \in 1..k
      <4>1. e + i - 1 \in 1..n
        BY <1>2, <3>1
      <4> QED
        BY <1>2, <1>12, <2>1, <3>1, <4>1
    <3>2. CASE i \notin 1..k
      <4>0. k >= 1
        BY <1>n
      <4>1. i - k \in 1..m /\ k + (i - k) = i /\ n + (i - k) = e + i - 1 /\ n + (i - k) \in n + 1..n + m + 1
        BY <1>n, <3>2, <4>0
      <4>2. all[i] = gap[i - k] /\ gap[i - k] = Empty((q + (n + (i - k))) * B)
        BY <1>11, <2>1, <4>1
      <4> QED
        BY <1>12, <4>1, <4>2
    <3> QED
      BY <3>1, <3>2
  <2> QED
    BY <2>1, <2>2
<1> HIDE DEF all
<1>b. PICK c : IsPark(Park(all), all, k + m, c)
  BY <1>22, ParkIs
<1> DEFINE grid2 == Append(Park(all), Empty(target))
<1>23. /\ Park(all) \in Seq(BucketSet) /\ Len(Park(all)) = c
       /\ \A i \in 1..c : Park(all)[i] = all[(k + m) - c + i]
  BY <1>b DEF IsPark
<1>24. /\ c \in Nat /\ c <= k + m /\ Earliest(n + m + 1) = n + m + 1 - c
  <2>1. c = IF k + m > AmendWindow THEN AmendWindow ELSE k + m
    BY <1>b DEF IsPark
  <2>2. e = IF n > AmendWindow THEN n - AmendWindow ELSE 1
    BY <1>2 DEF Earliest
  <2>3. Earliest(n + m + 1) = IF n + m + 1 > AmendWindow THEN n + m + 1 - AmendWindow ELSE 1
    BY <1>n, <1>5 DEF Earliest
  <2> QED
    BY <1>n, <1>5, <2>1, <2>2, <2>3
<1>25. Empty(target) = new[n + m + 1] /\ Empty(target) \in BucketSet
  <2>1. q + (n + m + 1) = t /\ n + m + 1 \in n + 1..n + m + 1 /\ target \in Int
    BY <1>2, <1>5, <1>7 DEF m
  <2> QED
    BY <1>12, <2>1, EmptyIs
<1>26. Keeps(new, grid2)
  <2> HIDE DEF BucketSet
  <2>1. /\ grid2 \in Seq(BucketSet) /\ Len(grid2) = c + 1
        /\ \A i \in 1..c : grid2[i] = Park(all)[i] /\ grid2[c + 1] = Empty(target)
    BY <1>23, <1>24, <1>25
  <2>2. grid2[c + 1] = Empty(target)
    BY <1>23, <1>24, <1>25
  <2> HIDE DEF grid2
  <2>3. ASSUME NEW i \in 1..c + 1 PROVE grid2[i] = new[n + m + 1 - c + i - 1]
    <3>1. CASE i \in 1..c
      <4>1. (k + m) - c + i \in 1..k + m /\ e + ((k + m) - c + i) - 1 = n + m + 1 - c + i - 1
        BY <1>n, <1>24, <3>1, k >= 1
      <4> QED
        BY <1>22, <1>23, <2>1, <3>1, <4>1
    <3>2. CASE i = c + 1
      <4>1. n + m + 1 - c + i - 1 = n + m + 1
        BY <1>n, <1>24, <3>2
      <4> QED
        BY <1>25, <2>2, <3>2, <4>1
    <3> QED
      BY <1>24, <3>1, <3>2
  <2>4. Len(new) - Earliest(Len(new)) + 1 = c + 1 /\ Earliest(Len(new)) = n + m + 1 - c
    BY <1>n, <1>13, <1>24
  <2> QED
    BY <2>1, <2>3, <2>4 DEF Keeps
<1>27. \E x \in Int : StartsAt(new, x)
  BY <1>13, <1>14 DEF StartsAt, B
<1>28. new # <<>>
  BY <1>n, <1>13
<1>29. Fits(new, Sent(chart, out), grid2)
  BY <1>13, <1>20, <1>21, <1>26, <1>27, <1>28 DEF Fits
<1>30. RollTo(grid, target).out = out /\ RollTo(grid, target).grid = grid2
  BY DEF RollTo, out, gap, all
<1> HIDE DEF grid2, target
<1> QED
  BY <1>15, <1>16, <1>17, <1>29, <1>30 DEF target, B

-----------------------------------------------------------------------------
(* A line comes into the bucket at p.                                      *)
AddedAt(new, full, p, line) ==
    /\ p \in 1..Len(full) /\ Len(new) = Len(full)
    /\ new[p].start = full[p].start /\ new[p].lines = Append(full[p].lines, line)
    /\ \A i \in 1..Len(full) : i # p => new[i] = full[i]

LEMMA AddIs ==
    ASSUME NEW b \in BucketSet, NEW line
    PROVE  Add(b, line) = [start |-> b.start, lines |-> Append(b.lines, line)]
BY DEF Add, BucketSet

LEMMA IntoIs ==
    ASSUME NEW s \in Seq(BucketSet), NEW p \in 1..Len(s), NEW line \in LineSet
    PROVE  /\ Into(s, p, line) \in Seq(BucketSet) /\ AddedAt(Into(s, p, line), s, p, line)
           /\ Into(s, p, line)[p] = Add(s[p], line) /\ Add(s[p], line) \in BucketSet
           /\ Add(s[p], line).start = s[p].start
<1>1. /\ DOMAIN s = 1..Len(s) /\ Len(s) \in Nat /\ s[p] \in BucketSet /\ s[p].lines \in Seq(LineSet)
      /\ \A i \in 1..Len(s) : s[i] \in BucketSet
  BY BucketsOf
<1>2. Append(s[p].lines, line) \in Seq(LineSet)
  <2> HIDE DEF LineSet
  <2> QED
    BY <1>1
<1>3. Add(s[p], line) = [start |-> s[p].start, lines |-> Append(s[p].lines, line)]
  BY <1>1, AddIs
<1>4. Add(s[p], line) \in BucketSet
  BY <1>1, <1>2, <1>3 DEF BucketSet
<1>5. /\ Into(s, p, line) = [i \in 1..Len(s) |-> IF i = p THEN Add(s[p], line) ELSE s[i]]
  BY <1>1 DEF Into
<1>6. Into(s, p, line) \in Seq(BucketSet) /\ Len(Into(s, p, line)) = Len(s)
  <2> HIDE DEF BucketSet, Into
  <2> QED
    BY <1>1, <1>4, <1>5
<1> HIDE DEF Into, Add
<1> QED
  BY <1>3, <1>4, <1>5, <1>6 DEF AddedAt

LEMMA AddFits ==
    ASSUME NEW full, NEW chart, NEW grid, Fits(full, chart, grid), NEW line \in LineSet,
           NEW i \in 1..Len(grid), NEW out,
           out = IF i = Len(grid) THEN <<>> ELSE <<Snapshot(Into(grid, i, line)[i])>>
    PROVE  /\ out \in Seq(BucketSet)
           /\ \E new : /\ AddedAt(new, full, Earliest(Len(full)) + i - 1, line)
                       /\ Fits(new, Sent(chart, out), Into(grid, i, line))
<1> DEFINE B == BucketSecs
<1>1. /\ full \in Seq(BucketSet) /\ chart \in Seq(BucketSet) /\ grid \in Seq(BucketSet)
      /\ \A j \in 1..Len(chart) : chart[j] = Snapshot(full[j])
  BY DEF Fits, Charted, Keeps
<1>a. PICK n, e, k : KeptAs(full, chart, grid, n, e, k)
  BY KeptIs
<1>2. /\ n = Len(full) /\ e = Earliest(n) /\ k = Len(grid)
      /\ n \in Nat \ {0} /\ e \in 1..n /\ k = n - e + 1 /\ k \in Nat \ {0}
      /\ Last(grid) = full[n] /\ Len(chart) = n - 1 /\ \A j \in 1..k : grid[j] = full[e + j - 1]
  BY <1>a DEF KeptAs
<1>3. \A j \in 1..n : full[j] \in BucketSet
  BY <1>1, <1>2, BucketsOf
<1>4. PICK q \in Int : \A j \in 1..n : full[j].start = (q + j) * B
  BY <1>2 DEF Fits, StartsAt
<1>5. B \in Nat \ {0}
  BY MeterAssumption
<1> HIDE DEF B
<1>n. /\ n \in Int /\ e \in Int /\ k \in Int /\ i \in Int
      /\ n >= 1 /\ e >= 1 /\ e <= n /\ k = n - e + 1 /\ i >= 1 /\ i <= k
  BY <1>2
<1> DEFINE p == e + i - 1
           new == Into(full, p, line)
<1>6. p \in 1..n /\ p \in Int /\ (p = n <=> i = k)
  BY <1>n
<1> HIDE DEF p
<1>7. /\ new \in Seq(BucketSet) /\ AddedAt(new, full, p, line)
      /\ new[p] = Add(full[p], line) /\ Add(full[p], line).start = full[p].start
      /\ Add(full[p], line) \in BucketSet
  BY <1>1, <1>2, <1>6, IntoIs
<1>8. /\ Into(grid, i, line) \in Seq(BucketSet) /\ AddedAt(Into(grid, i, line), grid, i, line)
      /\ Into(grid, i, line)[i] = Add(grid[i], line)
  BY <1>1, IntoIs
<1>9. grid[i] = full[p]
  BY <1>2 DEF p
<1> HIDE DEF new
<1>10. Len(new) = n /\ \A j \in 1..n : j # p => new[j] = full[j]
  BY <1>2, <1>7 DEF AddedAt
<1>11. \A j \in 1..n : new[j].start = (q + j) * B
  BY <1>4, <1>6, <1>7, <1>10
<1>12. Keeps(new, Into(grid, i, line))
  <2>1. ASSUME NEW j \in 1..k PROVE Into(grid, i, line)[j] = new[e + j - 1]
    <3>1. e + j - 1 \in 1..n /\ (e + j - 1 = p <=> j = i)
      BY <1>n DEF p
    <3> QED
      BY <1>2, <1>7, <1>8, <1>9, <1>10, <3>1 DEF AddedAt
  <2>2. Len(Into(grid, i, line)) = k /\ k = Len(new) - Earliest(Len(new)) + 1 /\ Earliest(Len(new)) = e
    BY <1>2, <1>8, <1>10 DEF AddedAt
  <2> QED
    BY <1>8, <2>1, <2>2 DEF Keeps
<1>13. out \in Seq(BucketSet) /\ Charted(new, Sent(chart, out))
  <2>1. CASE i = k
    <3>1. out = <<>> /\ out \in Seq(BucketSet) /\ Sent(chart, out) = chart
      <4>1. out = <<>>
        BY <1>2, <2>1
      <4>2. <<>> \in Seq(BucketSet)
        OBVIOUS
      <4> QED
        BY <1>1, <4>1, <4>2, SentTyped
    <3>2. ASSUME NEW j \in 1..Len(chart) PROVE chart[j] = Snapshot(new[j])
      <4>1. j \in 1..n /\ j # p
        BY <1>2, <1>n, <1>6, <2>1
      <4> QED
        BY <1>1, <1>10, <4>1
    <3> QED
      BY <1>1, <1>2, <1>10, <3>1, <3>2 DEF Charted
  <2>2. CASE i # k
    <3> DEFINE b == Snapshot(new[p])
    <3>1. out = <<b>> /\ b \in BucketSet /\ b.start = (q + p) * B
      BY <1>2, <1>6, <1>7, <1>8, <1>9, <1>11, <2>2, SnapshotIs
    <3> HIDE DEF b
    <3>2. out \in Seq(BucketSet) /\ Len(out) = 1 /\ out[1] = b
      BY <3>1
    <3>3. Sent(chart, out) = Upsert(chart, b)
      <4>1. PICK kept : SentBy(kept, chart, out)
        BY <1>1, <3>2, SentIs
      <4>2. 1 \in 1..Len(out) /\ 1 - 1 = 0
        BY <3>2
      <4> QED
        BY <3>2, <4>1, <4>2 DEF SentBy
    <3>4. p < n /\ n - 1 \in 1..n /\ n - 1 \in 1..Len(chart) /\ Len(chart) = n - 1 /\ chart # <<>>
      BY <1>1, <1>2, <1>n, <1>6, <2>2
    <3>5. ASSUME NEW j \in 1..Len(chart) PROVE chart[j].start = (q + j) * B /\ j \in 1..n /\ j \in Int
      <4>1. j \in 1..n
        BY <1>n, <3>4
      <4> QED
        BY <1>1, <1>3, <1>4, <4>1, SnapshotIs
    <3>6. Last(chart).start = (q + (n - 1)) * B
      BY <3>4, <3>5 DEF Last
    <3>7. ~(b.start > Last(chart).start)
      <4>1. q + (n - 1) \in Int /\ q + p \in Int /\ ~(q + (n - 1) < q + p)
        BY <1>n, <1>6, <3>4
      <4>2. (q + p) * B \in Int /\ (q + (n - 1)) * B \in Int /\ ~((q + (n - 1)) * B < (q + p) * B)
        BY <1>5, <4>1, Ordered
      <4> QED
        BY <3>1, <3>6, <4>2
    <3>8. Sent(chart, out) = [j \in 1..Len(chart) |-> IF chart[j].start = b.start THEN b ELSE chart[j]]
      <4>1. DOMAIN chart = 1..Len(chart)
        BY <1>1, BucketsOf
      <4> QED
        BY <3>3, <3>4, <3>7, <4>1 DEF Upsert
    <3>9. ASSUME NEW j \in 1..Len(chart) PROVE chart[j].start = b.start <=> j = p
      <4>1. q + j \in Int /\ q + p \in Int /\ (q + j = q + p <=> j = p)
        BY <1>6, <3>5
      <4>2. (q + j) * B = (q + p) * B <=> q + j = q + p
        <5>1. CASE j < p
          <6>1. q + j < q + p
            BY <1>6, <3>5, <5>1
          <6>2. (q + j) * B < (q + p) * B /\ (q + j) * B \in Int /\ (q + p) * B \in Int
            BY <1>5, <4>1, <6>1, Ordered
          <6> QED
            BY <4>1, <6>1, <6>2, <3>1, <3>5
        <5>2. CASE p < j
          <6>1. q + p < q + j
            BY <1>6, <3>5, <5>2
          <6>2. (q + p) * B < (q + j) * B /\ (q + j) * B \in Int /\ (q + p) * B \in Int
            BY <1>5, <4>1, <6>1, Ordered
          <6> QED
            BY <4>1, <6>1, <6>2, <3>1, <3>5
        <5>3. CASE j = p
          BY <5>3
        <5> QED
          BY <1>6, <3>5, <5>1, <5>2, <5>3
      <4> QED
        BY <3>1, <3>5, <4>1, <4>2
    <3>10. Sent(chart, out) \in Seq(BucketSet)
      BY <1>1, <3>2, SentTyped
    <3>11. Len(Sent(chart, out)) = n - 1
      BY <1>n, <3>4, <3>8, <3>10
    <3>12. ASSUME NEW j \in 1..n - 1 PROVE Sent(chart, out)[j] = Snapshot(new[j])
      <4>1. j \in 1..Len(chart) /\ j \in 1..n
        BY <3>4, <3>5
      <4>2. CASE j = p
        BY <3>8, <3>9, <4>1, <4>2 DEF b
      <4>3. CASE j # p
        BY <1>1, <1>10, <3>8, <3>9, <4>1, <4>3
      <4> QED
        BY <4>2, <4>3
    <3> QED
      BY <1>10, <3>2, <3>10, <3>11, <3>12 DEF Charted
  <2> QED
    BY <2>1, <2>2
<1>14. new # <<>>
  BY <1>n, <1>10
<1>15. \E x \in Int : StartsAt(new, x)
  BY <1>10, <1>11 DEF StartsAt, B
<1>16. Fits(new, Sent(chart, out), Into(grid, i, line))
  BY <1>7, <1>12, <1>13, <1>14, <1>15 DEF Fits
<1>17. Earliest(Len(full)) + i - 1 = p
  BY <1>2 DEF p
<1> QED
  BY <1>7, <1>13, <1>16, <1>17

-----------------------------------------------------------------------------
(* Where a line is.                                                        *)
InPlace(full, i, j, l) == i \in 1..Len(full) /\ j \in 1..Len(full[i].lines) /\ full[i].lines[j] = l

(* The lines read, each in one bucket: its own, or, as it came too late, one *)
(* for which its own was parked no more.                                   *)
Holds(full, read) ==
    /\ \A l, i, j, k, m : InPlace(full, i, j, l) /\ InPlace(full, k, m, l) => i = k /\ j = m
    /\ \A l : (\E i, j : InPlace(full, i, j, l)) <=> (\E r \in 1..Len(read) : read[r] = l)
    /\ \A l, i, j : InPlace(full, i, j, l) =>
         BucketStart(l.ts) = full[i].start \/ BucketStart(l.ts) < full[Earliest(i)].start

LEMMA GrownHolds ==
    ASSUME NEW full \in Seq(BucketSet), NEW mid \in Seq(BucketSet), NEW read,
           Grown(mid, full), Holds(full, read)
    PROVE  Holds(mid, read)
<1>1. Len(full) \in Nat /\ Len(mid) \in Nat /\ Len(full) < Len(mid)
  BY DEF Grown
<1>2. ASSUME NEW l, NEW i, NEW j PROVE InPlace(mid, i, j, l) <=> InPlace(full, i, j, l)
  <2>1. CASE i \in 1..Len(full)
    <3>1. i \in 1..Len(mid) /\ mid[i] = full[i]
      BY <1>1, <2>1 DEF Grown
    <3> QED
      BY <2>1, <3>1 DEF InPlace
  <2>2. CASE i \in Len(full) + 1..Len(mid)
    <3>1. mid[i].lines = <<>> /\ ~(i \in 1..Len(full)) /\ Len(<<>>) = 0
      BY <1>1, <2>2 DEF Grown
    <3> QED
      BY <3>1 DEF InPlace
  <2>3. CASE i \notin 1..Len(full) /\ i \notin Len(full) + 1..Len(mid)
    <3>1. i \notin 1..Len(mid)
      BY <1>1, <2>3
    <3> QED
      BY <2>3, <3>1 DEF InPlace
  <2> QED
    BY <2>1, <2>2, <2>3
<1>3. ASSUME NEW l, NEW i, NEW j, InPlace(full, i, j, l)
      PROVE  mid[i].start = full[i].start /\ mid[Earliest(i)].start = full[Earliest(i)].start
  <2>1. i \in 1..Len(full) /\ i \in Nat \ {0}
    BY <1>1, <1>3 DEF InPlace
  <2>2. Earliest(i) \in 1..i /\ Earliest(i) \in 1..Len(full)
    BY <1>1, <2>1, EarliestIs
  <2> QED
    BY <2>1, <2>2 DEF Grown
<1>4. ASSUME NEW l, NEW i, NEW j, NEW k, NEW m, InPlace(mid, i, j, l), InPlace(mid, k, m, l)
      PROVE  i = k /\ j = m
  <2>1. InPlace(full, i, j, l) /\ InPlace(full, k, m, l)
    BY <1>2, <1>4
  <2> QED
    BY <2>1 DEF Holds
<1>5. ASSUME NEW l PROVE (\E i, j : InPlace(mid, i, j, l)) <=> \E r \in 1..Len(read) : read[r] = l
  <2>1. (\E i, j : InPlace(mid, i, j, l)) <=> (\E i, j : InPlace(full, i, j, l))
    BY <1>2
  <2> QED
    BY <2>1 DEF Holds
<1>6. ASSUME NEW l, NEW i, NEW j, InPlace(mid, i, j, l)
      PROVE  BucketStart(l.ts) = mid[i].start \/ BucketStart(l.ts) < mid[Earliest(i)].start
  <2>1. InPlace(full, i, j, l)
    BY <1>2, <1>6
  <2>2. BucketStart(l.ts) = full[i].start \/ BucketStart(l.ts) < full[Earliest(i)].start
    BY <2>1 DEF Holds
  <2> QED
    BY <1>3, <2>1, <2>2
<1> QED
  BY <1>4, <1>5, <1>6 DEF Holds

LEMMA AddedHolds ==
    ASSUME NEW mid \in Seq(BucketSet), NEW new, NEW read \in Seq(LineSet), NEW line \in LineSet, NEW p,
           AddedAt(new, mid, p, line), Holds(mid, read),
           \A r \in 1..Len(read) : read[r] # line,
           BucketStart(line.ts) = mid[p].start \/ BucketStart(line.ts) < mid[Earliest(p)].start
    PROVE  Holds(new, Append(read, line))
<1> DEFINE last == Len(mid[p].lines) + 1
<1>1. /\ p \in 1..Len(mid) /\ Len(mid) \in Nat /\ Len(new) = Len(mid)
      /\ mid[p].lines \in Seq(LineSet)
      /\ new[p].start = mid[p].start /\ new[p].lines = Append(mid[p].lines, line)
      /\ \A i \in 1..Len(mid) : i # p => new[i] = mid[i]
  BY BucketsOf DEF AddedAt
<1>2. /\ Len(new[p].lines) = last /\ last \in Nat \ {0} /\ new[p].lines[last] = line
      /\ \A j \in 1..last - 1 : new[p].lines[j] = mid[p].lines[j]
  BY <1>1
<1>3. Len(mid[p].lines) = last - 1
  BY <1>1
<1> HIDE DEF last
<1>4. ASSUME NEW l, NEW i, NEW j
      PROVE  InPlace(new, i, j, l) <=> InPlace(mid, i, j, l) \/ (i = p /\ j = last /\ l = line)
  <2>1. CASE i # p
    BY <1>1, <2>1 DEF InPlace
  <2>2. CASE i = p /\ j # last
    <3>1. j \in 1..last <=> j \in 1..last - 1
      BY <1>2, <2>2
    <3> QED
      BY <1>1, <1>2, <1>3, <2>2, <3>1 DEF InPlace
  <2>3. CASE i = p /\ j = last
    <3>1. j \in 1..last /\ j \notin 1..last - 1
      BY <1>2, <2>3
    <3> QED
      BY <1>1, <1>2, <1>3, <2>3, <3>1 DEF InPlace
  <2> QED
    BY <2>1, <2>2, <2>3
<1>5. \A i \in 1..Len(mid) : new[i].start = mid[i].start
  BY <1>1
<1>6. /\ Len(Append(read, line)) = Len(read) + 1 /\ Append(read, line)[Len(read) + 1] = line /\ Len(read) \in Nat
      /\ \A r \in 1..Len(read) : Append(read, line)[r] = read[r]
  <2> HIDE DEF LineSet
  <2> QED
    OBVIOUS
<1>7. ASSUME NEW l
      PROVE  (\E r \in 1..Len(Append(read, line)) : Append(read, line)[r] = l)
             <=> (l = line \/ \E r \in 1..Len(read) : read[r] = l)
  <2>1. \A r \in 1..Len(read) + 1 : r \in 1..Len(read) \/ r = Len(read) + 1
    BY <1>6
  <2>2. Len(read) + 1 \in 1..Len(read) + 1 /\ \A r \in 1..Len(read) : r \in 1..Len(read) + 1
    BY <1>6
  <2> HIDE DEF LineSet
  <2> QED
    BY <1>6, <2>1, <2>2
<1>8. \A i, j : ~InPlace(mid, i, j, line)
  BY DEF Holds
<1>9. \A l, i, j, k, m : InPlace(new, i, j, l) /\ InPlace(new, k, m, l) => i = k /\ j = m
  BY <1>4, <1>8 DEF Holds
<1>10. \A l : (\E i, j : InPlace(new, i, j, l)) <=> (\E r \in 1..Len(Append(read, line)) : Append(read, line)[r] = l)
  <2> SUFFICES ASSUME NEW l
               PROVE  (\E i, j : InPlace(new, i, j, l)) <=> (l = line \/ \E r \in 1..Len(read) : read[r] = l)
    BY <1>7
  <2>1. (\E i, j : InPlace(mid, i, j, l)) <=> (\E r \in 1..Len(read) : read[r] = l)
    BY DEF Holds
  <2> QED
    BY <1>4, <2>1
<1>11. ASSUME NEW l, NEW i, NEW j, InPlace(new, i, j, l)
       PROVE  BucketStart(l.ts) = new[i].start \/ BucketStart(l.ts) < new[Earliest(i)].start
  <2>1. i \in 1..Len(mid) /\ i \in Nat \ {0}
    BY <1>1, <1>11 DEF InPlace
  <2>2. Earliest(i) \in 1..i /\ Earliest(i) \in 1..Len(mid)
    BY <1>1, <2>1, EarliestIs
  <2>3. new[i].start = mid[i].start /\ new[Earliest(i)].start = mid[Earliest(i)].start
    BY <1>5, <2>1, <2>2
  <2>4. CASE InPlace(mid, i, j, l)
    BY <2>3, <2>4 DEF Holds
  <2>5. CASE i = p /\ j = last /\ l = line
    BY <2>3, <2>5
  <2> QED
    BY <1>4, <1>11, <2>4, <2>5
<1> QED
  BY <1>9, <1>10, <1>11 DEF Holds

(* A line into the fold.                                                   *)
LEMMA PushFits ==
    ASSUME NEW full, NEW chart, NEW grid, Fits(full, chart, grid), NEW line \in LineSet,
           NEW read \in Seq(LineSet), Holds(full, read), \A r \in 1..Len(read) : read[r] # line
    PROVE  /\ Push(grid, line).out \in Seq(BucketSet)
           /\ \E new : /\ Fits(new, Sent(chart, Push(grid, line).out), Push(grid, line).grid)
                       /\ Holds(new, Append(read, line))
<1> DEFINE B == BucketSecs
           target == BucketStart(line.ts)
           parked == {i \in 1..(Len(grid) - 1) : grid[i].start = target}
<1>a. PICK n, e, k : KeptAs(full, chart, grid, n, e, k)
  BY KeptIs
<1>1. full \in Seq(BucketSet) /\ chart \in Seq(BucketSet) /\ grid \in Seq(BucketSet)
  BY DEF Fits, Charted, Keeps
<1>2. /\ n = Len(full) /\ e = Earliest(n) /\ k = Len(grid)
      /\ n \in Nat \ {0} /\ e \in 1..n /\ k = n - e + 1 /\ k \in Nat \ {0}
      /\ Last(grid) = full[n] /\ grid # <<>> /\ \A j \in 1..k : grid[j] = full[e + j - 1]
  BY <1>a DEF KeptAs
<1>n. /\ n \in Int /\ e \in Int /\ k \in Int
      /\ n >= 1 /\ e >= 1 /\ e <= n /\ k = n - e + 1
  BY <1>2
<1>3. line.ts \in Int
  BY DEF LineSet
<1>4. PICK t \in Int : target = t * B
  BY <1>3, StartIs
<1>5. B \in Nat \ {0}
  BY MeterAssumption
<1>6. PICK q \in Int : \A j \in 1..n : full[j].start = (q + j) * B
  BY <1>2 DEF Fits, StartsAt
<1> HIDE DEF target
<1>7. CASE target > Last(grid).start
  <2> DEFINE rolled == RollTo(grid, target)
  <2>1. /\ rolled.out \in Seq(BucketSet)
        /\ \E mid : /\ Fits(mid, Sent(chart, rolled.out), rolled.grid)
                    /\ Grown(mid, full) /\ mid[Len(mid)].start = target
    BY <1>4, <1>7, RollFits DEF B
  <2>2. PICK mid : /\ Fits(mid, Sent(chart, rolled.out), rolled.grid)
                   /\ Grown(mid, full) /\ mid[Len(mid)].start = target
    BY <2>1
  <2>3. Push(grid, line) = [grid |-> Into(rolled.grid, Len(rolled.grid), line), out |-> rolled.out]
    BY <1>2, <1>7 DEF Push, target
  <2> HIDE DEF rolled
  <2>4. PICK n2, e2, k2 : KeptAs(mid, Sent(chart, rolled.out), rolled.grid, n2, e2, k2)
    BY <2>2, KeptIs
  <2>5. Len(rolled.grid) \in 1..Len(rolled.grid) /\ Earliest(Len(mid)) + Len(rolled.grid) - 1 = Len(mid)
    BY <2>4 DEF KeptAs
  <2>6. mid \in Seq(BucketSet) /\ rolled.grid \in Seq(BucketSet) /\ Sent(chart, rolled.out) \in Seq(BucketSet)
    BY <2>2 DEF Fits, Charted, Keeps
  <2>7. \E new : /\ AddedAt(new, mid, Earliest(Len(mid)) + Len(rolled.grid) - 1, line)
                 /\ Fits(new, Sent(Sent(chart, rolled.out), <<>>), Into(rolled.grid, Len(rolled.grid), line))
    BY <2>2, <2>5, AddFits
  <2>8. PICK new : /\ AddedAt(new, mid, Len(mid), line)
                   /\ Fits(new, Sent(Sent(chart, rolled.out), <<>>), Into(rolled.grid, Len(rolled.grid), line))
    BY <2>5, <2>7
  <2>9. Sent(Sent(chart, rolled.out), <<>>) = Sent(chart, rolled.out)
    BY <2>1, <2>6, SentTyped
  <2>10. Holds(mid, read)
    BY <1>1, <2>2, <2>6, GrownHolds
  <2>11. Holds(new, Append(read, line))
    BY <2>2, <2>6, <2>8, <2>10, AddedHolds DEF target
  <2> QED
    BY <2>1, <2>3, <2>8, <2>9, <2>11
<1>8. CASE ~(target > Last(grid).start) /\ parked = {}
  <2>1. Push(grid, line) = [grid |-> Into(grid, Len(grid), line), out |-> <<>>]
    BY <1>2, <1>8 DEF Push, target
  <2>2. Len(grid) \in 1..Len(grid) /\ Earliest(Len(full)) + Len(grid) - 1 = n
    BY <1>2, <1>n
  <2>3. /\ <<>> \in Seq(BucketSet)
        /\ \E new : /\ AddedAt(new, full, Earliest(Len(full)) + Len(grid) - 1, line)
                    /\ Fits(new, Sent(chart, <<>>), Into(grid, Len(grid), line))
    BY <2>2, AddFits
  <2>4. PICK new : /\ AddedAt(new, full, n, line)
                   /\ Fits(new, Sent(chart, <<>>), Into(grid, Len(grid), line))
    BY <2>2, <2>3
  <2>5. target = full[n].start \/ target < full[e].start
    <3> SUFFICES ASSUME target # full[n].start, ~(target < full[e].start) PROVE FALSE
      OBVIOUS
    <3>1. full[n].start = (q + n) * B /\ full[e].start = (q + e) * B
      BY <1>2, <1>6
    <3>2. q + n \in Int /\ q + e \in Int
      BY <1>n
    <3>3. ~(t < q + e)
      <4>1. t < q + e => t * B < (q + e) * B
        BY <1>5, <3>2, Ordered
      <4> QED
        BY <1>4, <3>1, <4>1
    <3>4. ~(q + n < t)
      <4>1. q + n < t => (q + n) * B < t * B
        BY <1>5, <3>2, Ordered
      <4>2. (q + n) * B \in Int /\ t * B \in Int
        BY <1>5, <3>2, Ordered
      <4> QED
        BY <1>2, <1>4, <1>8, <3>1, <4>1, <4>2
    <3>5. t # q + n
      BY <1>4, <3>1
    <3> DEFINE i == t - q - e + 1
    <3>6. i \in 1..k - 1 /\ e + i - 1 \in 1..n /\ i \in 1..k /\ q + (e + i - 1) = t
      BY <1>n, <3>2, <3>3, <3>4, <3>5
    <3> HIDE DEF i
    <3>7. grid[i].start = target
      BY <1>2, <1>4, <1>6, <3>6
    <3> QED
      BY <1>2, <1>8, <3>6, <3>7
  <2>6. Holds(new, Append(read, line))
    BY <1>1, <1>2, <2>4, <2>5, AddedHolds DEF target
  <2> QED
    BY <2>1, <2>3, <2>4, <2>6
<1>9. CASE ~(target > Last(grid).start) /\ parked # {}
  <2> DEFINE i == CHOOSE i \in parked : TRUE
             out == <<Snapshot(Into(grid, i, line)[i])>>
  <2>1. Push(grid, line) = [grid |-> Into(grid, i, line), out |-> out]
    BY <1>2, <1>9 DEF Push, target
  <2>2. i \in parked
    BY <1>9
  <2>3. i \in 1..Len(grid) /\ i # Len(grid) /\ grid[i].start = target
    BY <1>2, <1>n, <2>2
  <2> HIDE DEF i
  <2>4. /\ out \in Seq(BucketSet)
        /\ \E new : /\ AddedAt(new, full, Earliest(Len(full)) + i - 1, line)
                    /\ Fits(new, Sent(chart, out), Into(grid, i, line))
    BY <2>3, AddFits
  <2>5. PICK new : /\ AddedAt(new, full, e + i - 1, line)
                   /\ Fits(new, Sent(chart, out), Into(grid, i, line))
    BY <1>2, <2>4
  <2>6. target = full[e + i - 1].start
    BY <1>2, <2>3
  <2>7. Holds(new, Append(read, line))
    BY <1>1, <2>5, <2>6, AddedHolds DEF target
  <2> HIDE DEF out
  <2> QED
    BY <2>1, <2>4, <2>5, <2>7
<1> QED
  BY <1>7, <1>8, <1>9

(* The clock moves the fold on.                                            *)
LEMMA AdvanceFits ==
    ASSUME NEW full, NEW chart, NEW grid, Fits(full, chart, grid), NEW time \in Int, NEW read, Holds(full, read)
    PROVE  /\ AdvanceTo(grid, time).out \in Seq(BucketSet)
           /\ \E new : /\ Fits(new, Sent(chart, AdvanceTo(grid, time).out), AdvanceTo(grid, time).grid)
                       /\ Holds(new, read)
<1> DEFINE target == BucketStart(time)
<1>1. full \in Seq(BucketSet) /\ chart \in Seq(BucketSet) /\ grid \in Seq(BucketSet)
  BY DEF Fits, Charted, Keeps
<1>2. grid # <<>>
  <2>1. PICK n, e, k : KeptAs(full, chart, grid, n, e, k)
    BY KeptIs
  <2> QED
    BY <2>1 DEF KeptAs
<1>3. PICK t \in Int : target = t * BucketSecs
  BY StartIs
<1> HIDE DEF target
<1>4. CASE target <= Last(grid).start
  <2>1. AdvanceTo(grid, time) = [grid |-> grid, out |-> <<>>]
    BY <1>2, <1>4 DEF AdvanceTo, target
  <2>2. <<>> \in Seq(BucketSet)
    OBVIOUS
  <2>3. Sent(chart, <<>>) = chart
    BY <1>1, <2>2, SentTyped
  <2> QED
    BY <2>1, <2>2, <2>3
<1>5. CASE ~(target <= Last(grid).start)
  <2>1. AdvanceTo(grid, time) = RollTo(grid, target)
    BY <1>2, <1>5 DEF AdvanceTo, target
  <2>2. target > Last(grid).start
    <3>1. PICK n, e, k : KeptAs(full, chart, grid, n, e, k)
      BY KeptIs
    <3>2. Last(grid).start \in Int
      BY <1>1, <3>1, BucketsOf, SMTT(40) DEF KeptAs
    <3>3. target \in Int
      BY <1>3, MeterAssumption
    <3> QED
      BY <1>5, <3>2, <3>3
  <2>3. /\ RollTo(grid, target).out \in Seq(BucketSet)
        /\ \E new : /\ Fits(new, Sent(chart, RollTo(grid, target).out), RollTo(grid, target).grid)
                    /\ Grown(new, full)
    BY <1>3, <2>2, RollFits
  <2>4. PICK new : /\ Fits(new, Sent(chart, RollTo(grid, target).out), RollTo(grid, target).grid)
                   /\ Grown(new, full)
    BY <2>3
  <2>5. new \in Seq(BucketSet)
    BY <2>4 DEF Fits
  <2>6. Holds(new, read)
    BY <1>1, <2>4, <2>5, GrownHolds
  <2> QED
    BY <2>1, <2>3, <2>4, <2>6
<1> QED
  BY <1>4, <1>5

-----------------------------------------------------------------------------
OldestOf(grid, i) == IF i - AmendWindow > 1 THEN grid[i - AmendWindow].start ELSE grid[1].start

(* What GridIsLog asks of the buckets shown and the one in progress.       *)
IsLog(grid, read) ==
    /\ \A i \in 2..Len(grid) : grid[i].start = grid[i - 1].start + BucketSecs
    /\ \A l \in Range(read) : \E i \in DOMAIN grid : \E j \in DOMAIN grid[i].lines :
         \A k \in DOMAIN grid : \A m \in DOMAIN grid[k].lines : grid[k].lines[m] = l <=> k = i /\ m = j
    /\ \A i \in DOMAIN grid : \A l \in Range(grid[i].lines) :
         /\ l \in Range(read)
         /\ BucketStart(l.ts) # grid[i].start => BucketStart(l.ts) < OldestOf(grid, i)

ReorderedBy(t, s, at) ==
    /\ at \in [1..Len(s) -> 1..Len(s)]
    /\ \A i \in 1..Len(s) : t[i] = s[at[i]]
    /\ \A i, j \in 1..Len(s) : at[i] = at[j] => i = j
    /\ \A k \in 1..Len(s) : \E i \in 1..Len(s) : at[i] = k

LEMMA FitsIsLog ==
    ASSUME NEW full, NEW chart, NEW grid, Fits(full, chart, grid), NEW read \in Seq(LineSet), Holds(full, read)
    PROVE  IsLog(chart \o <<Last(grid)>>, read)
<1> DEFINE B == BucketSecs
           all == chart \o <<Last(grid)>>
<1>1. /\ full \in Seq(BucketSet) /\ chart \in Seq(BucketSet) /\ grid \in Seq(BucketSet)
      /\ \A j \in 1..Len(chart) : chart[j] = Snapshot(full[j])
  BY DEF Fits, Charted, Keeps
<1>a. PICK n, e, k : KeptAs(full, chart, grid, n, e, k)
  BY KeptIs
<1>2. /\ n = Len(full) /\ n \in Nat \ {0} /\ Last(grid) = full[n] /\ Len(chart) = n - 1
  BY <1>a DEF KeptAs
<1>3. \A j \in 1..n : full[j] \in BucketSet /\ full[j].lines \in Seq(LineSet) /\ full[j].start \in Int
  BY <1>1, <1>2, BucketsOf
<1>4. PICK q \in Int : \A j \in 1..n : full[j].start = (q + j) * B
  BY <1>2 DEF Fits, StartsAt
<1>5. B \in Nat \ {0} /\ AmendWindow \in Nat
  BY MeterAssumption
<1> HIDE DEF B
<1>6. /\ all \in Seq(BucketSet) /\ Len(all) = n /\ DOMAIN all = 1..n /\ all[n] = full[n]
      /\ \A j \in 1..n - 1 : all[j] = Snapshot(full[j])
  <2>1. full[n] \in BucketSet
    BY <1>2, <1>3
  <2> HIDE DEF BucketSet
  <2>2. /\ all \in Seq(BucketSet) /\ Len(all) = Len(chart) + 1 /\ all[Len(chart) + 1] = full[n]
        /\ \A j \in 1..Len(chart) : all[j] = chart[j]
    BY <1>1, <1>2, <2>1
  <2> HIDE DEF all
  <2>3. Len(chart) + 1 = n
    BY <1>2
  <2> QED
    BY <1>1, <1>2, <2>2, <2>3
<1> HIDE DEF all
<1>7. ASSUME NEW j \in 1..n PROVE all[j].start = (q + j) * B /\ IsReordered(all[j].lines, full[j].lines)
  <2>1. CASE j = n
    <3>1. IsReordered(full[n].lines, full[n].lines)
      <4> DEFINE s == full[n].lines
                 at == [i \in 1..Len(s) |-> i]
      <4>1. s \in Seq(LineSet) /\ at \in [1..Len(s) -> 1..Len(s)]
        BY <1>2, <1>3
      <4> HIDE DEF s, LineSet
      <4>2. \A i \in 1..Len(s) : at[i] = i
        OBVIOUS
      <4> HIDE DEF at
      <4>3. IsReordered(s, s)
        BY <4>1, <4>2 DEF IsReordered
      <4> QED
        BY <4>3 DEF s
    <3> QED
      BY <1>4, <1>6, <2>1, <3>1
  <2>2. CASE j # n
    <3>1. j \in 1..n - 1
      BY <1>2, <2>2
    <3> QED
      BY <1>3, <1>4, <1>6, <3>1, SnapshotIs
  <2> QED
    BY <2>1, <2>2
<1>8. ASSUME NEW i \in 1..n
      PROVE  /\ DOMAIN all[i].lines = 1..Len(full[i].lines)
             /\ \E at : ReorderedBy(all[i].lines, full[i].lines, at)
  <2>1. IsReordered(all[i].lines, full[i].lines)
    BY <1>7
  <2>2. all[i].lines \in Seq(LineSet) /\ Len(all[i].lines) = Len(full[i].lines)
    BY <2>1 DEF IsReordered
  <2>3. DOMAIN all[i].lines = 1..Len(full[i].lines)
    BY <2>2, LinesOf
  <2>4. \E at : ReorderedBy(all[i].lines, full[i].lines, at)
    BY <2>1 DEF IsReordered, ReorderedBy
  <2> QED
    BY <2>3, <2>4
<1>9. \A i \in 2..n : all[i].start = all[i - 1].start + B
  <2> SUFFICES ASSUME NEW i \in 2..n PROVE all[i].start = all[i - 1].start + B
    OBVIOUS
  <2>1. i \in 1..n /\ i - 1 \in 1..n /\ q + i \in Int /\ q + (i - 1) \in Int /\ (q + (i - 1)) + 1 = q + i
    BY <1>2
  <2>2. (q + (i - 1)) * B + 1 * B = ((q + (i - 1)) + 1) * B
    BY <1>5, <2>1, Ordered
  <2>3. 1 * B = B
    BY <1>5
  <2> QED
    BY <1>7, <2>1, <2>2, <2>3
<1>10. \A l : l \in Range(read) <=> \E r \in 1..Len(read) : read[r] = l
  BY LinesOf DEF Range
<1>11. ASSUME NEW l \in Range(read)
       PROVE  \E i \in 1..n : \E j \in DOMAIN all[i].lines :
                \A k2 \in 1..n : \A m \in DOMAIN all[k2].lines : all[k2].lines[m] = l <=> k2 = i /\ m = j
  <2>1. PICK i, j0 : InPlace(full, i, j0, l)
    BY <1>10 DEF Holds
  <2>2. i \in 1..n /\ j0 \in 1..Len(full[i].lines) /\ full[i].lines[j0] = l
    BY <1>2, <2>1 DEF InPlace
  <2>a. PICK a1 : ReorderedBy(all[i].lines, full[i].lines, a1)
    BY <1>8, <2>2
  <2>b. DOMAIN all[i].lines = 1..Len(full[i].lines)
    BY <1>8, <2>2
  <2>c. PICK j \in 1..Len(full[i].lines) : a1[j] = j0
    BY <2>2, <2>a DEF ReorderedBy
  <2>3. j \in DOMAIN all[i].lines /\ all[i].lines[j] = l
    BY <2>2, <2>a, <2>b, <2>c DEF ReorderedBy
  <2>4. ASSUME NEW k2 \in 1..n, NEW m \in DOMAIN all[k2].lines, all[k2].lines[m] = l PROVE k2 = i /\ m = j
    <3>1. PICK a2 : ReorderedBy(all[k2].lines, full[k2].lines, a2)
      BY <1>8
    <3>2. /\ DOMAIN all[k2].lines = 1..Len(full[k2].lines)
          /\ m \in 1..Len(full[k2].lines) /\ a2[m] \in 1..Len(full[k2].lines)
      <4>1. DOMAIN all[k2].lines = 1..Len(full[k2].lines)
        BY <1>8
      <4> QED
        BY <3>1, <4>1 DEF ReorderedBy
    <3>3. InPlace(full, k2, a2[m], l)
      BY <1>2, <2>4, <3>1, <3>2 DEF InPlace, ReorderedBy
    <3>4. k2 = i /\ a2[m] = j0
      BY <2>1, <3>3 DEF Holds
    <3>5. j \in 1..Len(full[k2].lines) /\ a2[j] \in 1..Len(full[k2].lines)
      BY <3>1, <3>2, <3>4 DEF ReorderedBy
    <3>6. InPlace(full, k2, a2[j], l)
      BY <1>2, <2>3, <3>1, <3>4, <3>5 DEF InPlace, ReorderedBy
    <3>7. a2[j] = j0
      BY <2>1, <3>6 DEF Holds
    <3>8. a2[m] = a2[j] /\ m \in 1..Len(full[k2].lines) /\ j \in 1..Len(full[k2].lines)
      BY <3>2, <3>4, <3>5, <3>7
    <3>9. m = j
      BY <3>1, <3>8 DEF ReorderedBy
    <3> QED
      BY <3>4, <3>9
  <2> QED
    BY <2>2, <2>3, <2>4
<1>12. ASSUME NEW i \in 1..n, NEW l \in Range(all[i].lines)
       PROVE  l \in Range(read) /\ (BucketStart(l.ts) # all[i].start => BucketStart(l.ts) < OldestOf(all, i))
  <2>1. PICK m \in 1..Len(full[i].lines) : all[i].lines[m] = l
    BY <1>8 DEF Range
  <2>a. PICK a1 : ReorderedBy(all[i].lines, full[i].lines, a1)
    BY <1>8
  <2>2. PICK j \in 1..Len(full[i].lines) : full[i].lines[j] = l
    BY <2>1, <2>a DEF ReorderedBy
  <2>3. InPlace(full, i, j, l)
    BY <1>2, <2>2 DEF InPlace
  <2>4. l \in Range(read)
    BY <1>10, <2>3 DEF Holds
  <2>5. BucketStart(l.ts) = full[i].start \/ BucketStart(l.ts) < full[Earliest(i)].start
    BY <2>3 DEF Holds
  <2>6. Earliest(i) \in 1..n /\ i \in Nat \ {0}
    <3>1. i \in Nat \ {0} /\ i <= n
      BY <1>2
    <3> QED
      BY <1>2, <3>1, EarliestIs
  <2>7. \A x \in 1..n : all[x].start = full[x].start
    BY <1>4, <1>7
  <2>8. OldestOf(all, i) = all[Earliest(i)].start
    BY <1>5, <2>6 DEF OldestOf, Earliest
  <2> QED
    BY <2>4, <2>5, <2>6, <2>7, <2>8
<1>13. IsLog(all, read)
  <2>1. \A i \in 2..Len(all) : all[i].start = all[i - 1].start + BucketSecs
    BY <1>6, <1>9 DEF B
  <2>2. \A l \in Range(read) : \E i \in DOMAIN all : \E j \in DOMAIN all[i].lines :
         \A k2 \in DOMAIN all : \A m \in DOMAIN all[k2].lines : all[k2].lines[m] = l <=> k2 = i /\ m = j
    <3> DEFINE Only(i, j, l) ==
                 \A k2 \in 1..n : \A m \in DOMAIN all[k2].lines : all[k2].lines[m] = l <=> k2 = i /\ m = j
    <3>1. \A l \in Range(read) : \E i \in 1..n : \E j \in DOMAIN all[i].lines : Only(i, j, l)
      BY <1>11
    <3>2. DOMAIN all = 1..n
      BY <1>6
    <3> QED
      <4> SUFFICES ASSUME NEW l \in Range(read)
                   PROVE  \E i \in DOMAIN all : \E j \in DOMAIN all[i].lines : \A k2 \in DOMAIN all :
                            \A m \in DOMAIN all[k2].lines : all[k2].lines[m] = l <=> k2 = i /\ m = j
        OBVIOUS
      <4>1. PICK i \in 1..n : \E j \in DOMAIN all[i].lines : Only(i, j, l)
        BY <3>1
      <4>2. PICK j \in DOMAIN all[i].lines : Only(i, j, l)
        BY <4>1
      <4>3. i \in DOMAIN all
        BY <3>2
      <4>4. ASSUME NEW k2 \in DOMAIN all, NEW m \in DOMAIN all[k2].lines
            PROVE  all[k2].lines[m] = l <=> k2 = i /\ m = j
        <5>1. k2 \in 1..n
          BY <3>2
        <5> QED
          BY <4>2, <5>1, Zenon
      <4> QED
        BY <4>3, <4>4, Zenon
  <2>3. \A i \in DOMAIN all : \A l \in Range(all[i].lines) :
         /\ l \in Range(read)
         /\ BucketStart(l.ts) # all[i].start => BucketStart(l.ts) < OldestOf(all, i)
    BY <1>6, <1>12, Zenon
  <2> QED
    BY <2>1, <2>2, <2>3, Zenon DEF IsLog
<1> QED
  BY <1>13 DEF all

-----------------------------------------------------------------------------
(* What stands in the logs.                                                *)
Logs == [Files -> Seq(Int)]

LineIn(lg, f, k) == [ts |-> lg[f][k], file |-> f, nr |-> k]

Part(lg, f, lo, hi) == [i \in 1..(hi - lo + 1) |-> LineIn(lg, f, lo + i - 1)]

(* The part of a log between two lines.                                    *)
LEMMA FilesAre ==
    /\ Files \subseteq Nat \ {0}
    /\ \A lg \in Logs : \A f \in Files :
         lg[f] \in Seq(Int) /\ Len(lg[f]) \in Nat /\ \A k \in 1..Len(lg[f]) : LineIn(lg, f, k) \in LineSet
<1>1. Files \subseteq Nat \ {0}
  BY MeterAssumption DEF Files
<1>2. ASSUME NEW lg \in Logs, NEW f \in Files
      PROVE  lg[f] \in Seq(Int) /\ Len(lg[f]) \in Nat /\ \A k \in 1..Len(lg[f]) : LineIn(lg, f, k) \in LineSet
  <2>1. lg[f] \in Seq(Int)
    BY DEF Logs
  <2>2. Len(lg[f]) \in Nat /\ \A k \in 1..Len(lg[f]) : lg[f][k] \in Int /\ k \in Nat
    BY <2>1
  <2>3. f \in Nat
    BY <1>1
  <2> QED
    BY <2>1, <2>2, <2>3 DEF LineIn, LineSet
<1> QED
  BY <1>1, <1>2

LEMMA PartIs ==
    ASSUME NEW lg \in Logs, NEW f \in Files, NEW lo \in Nat \ {0}, NEW hi \in Int, hi <= Len(lg[f])
    PROVE  /\ Part(lg, f, lo, hi) \in Seq(LineSet)
           /\ Len(Part(lg, f, lo, hi)) = (IF hi < lo THEN 0 ELSE (hi - lo) + 1)
           /\ \A i \in 1..Len(Part(lg, f, lo, hi)) : Part(lg, f, lo, hi)[i] = LineIn(lg, f, lo + i - 1)
           /\ hi < lo => Part(lg, f, lo, hi) = <<>>
<1>1. Len(lg[f]) \in Nat /\ \A k \in 1..Len(lg[f]) : LineIn(lg, f, k) \in LineSet
  BY FilesAre
<1>2. CASE hi < lo
  <2>1. 1..(hi - lo + 1) = {}
    BY <1>2
  <2>2. Part(lg, f, lo, hi) = <<>>
    BY <2>1 DEF Part
  <2> QED
    BY <1>2, <2>2
<1>3. CASE ~(hi < lo)
  <2> DEFINE n == (hi - lo) + 1
             s == [i \in 1..n |-> LineIn(lg, f, lo + i - 1)]
  <2>1. n \in Nat /\ \A i \in 1..n : (lo + i) - 1 \in 1..Len(lg[f])
    BY <1>1, <1>3
  <2>2. n = hi - lo + 1
    OBVIOUS
  <2>3. Part(lg, f, lo, hi) = s
    BY <2>2 DEF Part
  <2>4. \A i \in 1..n : s[i] = LineIn(lg, f, lo + i - 1) /\ s[i] \in LineSet
    BY <1>1, <2>1
  <2> HIDE DEF n
  <2>5. s \in [1..n -> LineSet]
    BY <2>4
  <2> HIDE DEF LineSet
  <2>6. s \in Seq(LineSet) /\ Len(s) = n
    <3>1. DOMAIN s = 1..n
      OBVIOUS
    <3> HIDE DEF s
    <3>2. n \in Nat /\ s \in [1..n -> LineSet]
      BY <2>1, <2>5
    <3>3. s \in Seq(LineSet)
      BY <3>2
    <3> QED
      BY <3>1, <3>2, <3>3
  <2> HIDE DEF s
  <2> QED
    BY <1>3, <2>3, <2>4, <2>6 DEF n
<1> QED
  BY <1>2, <1>3

LEMMA PartJoins ==
    ASSUME NEW lg \in Logs, NEW f \in Files, NEW lo \in Nat \ {0}, NEW mid \in Nat, NEW hi \in Nat,
           lo <= mid + 1, mid <= hi, hi <= Len(lg[f])
    PROVE  Part(lg, f, lo, mid) \o Part(lg, f, mid + 1, hi) = Part(lg, f, lo, hi)
<1> DEFINE a == Part(lg, f, lo, mid)
           b == Part(lg, f, mid + 1, hi)
           c == Part(lg, f, lo, hi)
<1>0. Len(lg[f]) \in Nat
  BY FilesAre
<1>1. /\ a \in Seq(LineSet) /\ Len(a) = (mid - lo) + 1
      /\ \A i \in 1..Len(a) : a[i] = LineIn(lg, f, lo + i - 1)
  <2>1. mid <= Len(lg[f]) /\ mid \in Int
    BY <1>0
  <2> QED
    BY <2>1, PartIs
<1>2. /\ b \in Seq(LineSet) /\ Len(b) = hi - mid
      /\ \A i \in 1..Len(b) : b[i] = LineIn(lg, f, mid + 1 + i - 1)
  <2>1. mid + 1 \in Nat \ {0} /\ hi \in Int
    OBVIOUS
  <2>2. /\ b \in Seq(LineSet) /\ Len(b) = (IF hi < mid + 1 THEN 0 ELSE (hi - (mid + 1)) + 1)
        /\ \A i \in 1..Len(b) : b[i] = LineIn(lg, f, mid + 1 + i - 1)
    BY <2>1, PartIs
  <2> QED
    BY <2>2
<1>3. /\ c \in Seq(LineSet) /\ Len(c) = (hi - lo) + 1
      /\ \A i \in 1..Len(c) : c[i] = LineIn(lg, f, lo + i - 1)
  <2>1. hi \in Int
    OBVIOUS
  <2> QED
    BY <2>1, PartIs
<1> HIDE DEF a, b, c, LineSet
<1>a. a \in Seq(LineSet) /\ b \in Seq(LineSet) /\ c \in Seq(LineSet)
  BY <1>1, <1>2, <1>3
<1>4. a \o b \in Seq(LineSet) /\ Len(a \o b) = Len(a) + Len(b)
      /\ \A i \in 1..(Len(a) + Len(b)) : (a \o b)[i] = IF i <= Len(a) THEN a[i] ELSE b[i - Len(a)]
  <2>1. a \o b \in Seq(LineSet)
    BY <1>a
  <2>2. Len(a \o b) = Len(a) + Len(b)
    BY <1>a
  <2>3. \A i \in 1..(Len(a) + Len(b)) : (a \o b)[i] = IF i <= Len(a) THEN a[i] ELSE b[i - Len(a)]
    BY <1>a
  <2> QED
    BY <2>1, <2>2, <2>3
<1>5. Len(a) + Len(b) = Len(c) /\ Len(a) \in Nat /\ Len(b) \in Nat
  BY <1>1, <1>2, <1>3
<1>6. ASSUME NEW i \in 1..Len(c) PROVE (a \o b)[i] = c[i]
  <2>1. CASE i <= Len(a)
    BY <1>1, <1>3, <1>4, <1>5, <2>1
  <2>2. CASE ~(i <= Len(a))
    <3>1. i - Len(a) \in 1..Len(b) /\ mid + 1 + (i - Len(a)) - 1 = lo + i - 1
      BY <1>1, <1>5, <2>2
    <3> QED
      BY <1>2, <1>3, <1>4, <1>5, <2>2, <3>1
  <2> QED
    BY <2>1, <2>2
<1>7. a \o b = c
  <2> DEFINE d == a \o b
  <2>1. d \in Seq(LineSet) /\ c \in Seq(LineSet) /\ Len(d) = Len(c) /\ \A i \in 1..Len(c) : d[i] = c[i]
    BY <1>a, <1>4, <1>5, <1>6
  <2> HIDE DEF d
  <2>2. d = c
    BY <2>1, SeqEqual
  <2> QED
    BY <2>2 DEF d
<1> QED
  BY <1>7 DEF a, b, c

(* A log that was added to keeps the part it had.                          *)
Longer(lg2, lg) ==
    \A f \in Files : Len(lg[f]) <= Len(lg2[f]) /\ \A k \in 1..Len(lg[f]) : lg2[f][k] = lg[f][k]

LEMMA PartStays ==
    ASSUME NEW lg \in Logs, NEW lg2 \in Logs, Longer(lg2, lg), NEW f \in Files,
           NEW lo \in Nat \ {0}, NEW hi \in Int, hi <= Len(lg[f])
    PROVE  Part(lg2, f, lo, hi) = Part(lg, f, lo, hi)
<1>1. Len(lg[f]) \in Nat
  BY FilesAre
<1>2. ASSUME NEW i \in 1..(hi - lo + 1) PROVE LineIn(lg2, f, lo + i - 1) = LineIn(lg, f, lo + i - 1)
  <2>1. lo + i - 1 \in 1..Len(lg[f])
    BY <1>1
  <2> QED
    BY <2>1 DEF Longer, LineIn
<1> QED
  BY <1>2 DEF Part

-----------------------------------------------------------------------------
(* A capture or a replay that was begun.                                   *)
Captures ==
    [kind : {"live", "replay"}, pc : {"poll", "read", "fold", "done"},
     file : Files \cup {0}, from : Nat, offset : Nat, tick : Nat,
     lines : Seq(LineSet), idx : Nat, vt : Int,
     grid : Seq(BucketSet), batch : Seq(LineSet), out : Seq(BucketSet), read : Seq(LineSet)]

Distinct(s) == \A i, j \in 1..Len(s) : s[i] = s[j] => i = j

Got(m) == m.read \o m.batch

Due(lg, m) == Part(lg, m.file, (m.from + 1) \div 2 + 1, m.offset \div 2)

(* Between two polls nothing waits, and no line was got twice.             *)
Rests(m) ==
    /\ m.pc # "fold" => m.batch = <<>> /\ m.out = <<>>
    /\ m.pc = "read" => m.kind = "live"
    /\ Distinct(Got(m))

IsFollowed(lg, f) == Character = NoCharacter \/ (Owner[f] = Character /\ lg[f] # <<>>)

(* What a live capture got is the log it follows, after older logs.        *)
Follows(lg, made, m) ==
    /\ m.file = 0 => Got(m) = <<>>
    /\ m.file # 0 =>
         /\ m.file \in made /\ IsFollowed(lg, m.file)
         /\ m.from <= m.offset /\ m.offset <= 2 * Len(lg[m.file])
         /\ m.offset = m.from \/ m.offset % 2 = 0
         /\ \E before \in Seq(LineSet) :
              Got(m) = before \o Due(lg, m) /\ \A i \in 1..Len(before) : before[i].file < m.file

(* What a replay got is its log, from where it began.                      *)
Replays(m) ==
    /\ m.lines # <<>> /\ Distinct(m.lines)
    /\ m.from <= m.idx /\ m.idx <= Len(m.lines)
    /\ Got(m) = SubSeq(m.lines, m.from + 1, m.idx)

Reads(lg, made, m) ==
    /\ m \in Captures /\ Rests(m)
    /\ m.kind = "live" => Follows(lg, made, m)
    /\ m.kind = "replay" => Replays(m)

(* The grid is what was read, and a chart of its own shows it.             *)
Charts(g, m, sh, wr, cl) ==
    \E full, chart :
      /\ Fits(full, chart, m.grid) /\ Holds(full, m.read)
      /\ g > cl /\ wr \subseteq {g} => chart = Sent(sh, m.out)

LEMMA CaptureIs ==
    ASSUME NEW m \in Captures
    PROVE  /\ m.kind \in {"live", "replay"} /\ m.pc \in {"poll", "read", "fold", "done"}
           /\ m.file \in Files \cup {0} /\ m.from \in Nat /\ m.offset \in Nat /\ m.tick \in Nat
           /\ m.lines \in Seq(LineSet) /\ m.idx \in Nat /\ m.vt \in Int
           /\ m.grid \in Seq(BucketSet) /\ m.batch \in Seq(LineSet)
           /\ m.out \in Seq(BucketSet) /\ m.read \in Seq(LineSet) /\ Got(m) \in Seq(LineSet)
<1>1. /\ m.kind \in {"live", "replay"} /\ m.pc \in {"poll", "read", "fold", "done"}
      /\ m.file \in Files \cup {0} /\ m.from \in Nat /\ m.offset \in Nat /\ m.tick \in Nat
      /\ m.lines \in Seq(LineSet) /\ m.idx \in Nat /\ m.vt \in Int
      /\ m.grid \in Seq(BucketSet) /\ m.batch \in Seq(LineSet)
      /\ m.out \in Seq(BucketSet) /\ m.read \in Seq(LineSet)
  BY DEF Captures
<1>2. m.read \o m.batch \in Seq(LineSet)
  BY <1>1
<1> QED
  BY <1>1, <1>2 DEF Got

(* The steps of a capture, on its record.                                  *)
Looked(m, tick, file, offset, from) ==
    [m EXCEPT !.tick = tick, !.pc = "read", !.file = file, !.offset = offset, !.from = from]
Taken(m, next, lines) == [m EXCEPT !.pc = "fold", !.offset = next, !.batch = lines]
Passed(m, vt, lines, idx) == [m EXCEPT !.pc = "fold", !.vt = vt, !.batch = lines, !.idx = idx]
Folded(m, p) == [m EXCEPT !.grid = p.grid, !.out = m.out \o p.out, !.batch = Tail(m.batch),
                          !.read = Append(m.read, Head(m.batch))]
Shipped(m, p, pc) == [m EXCEPT !.grid = p.grid, !.out = <<>>, !.pc = pc]

LEMMA LookedIs ==
    ASSUME NEW m \in Captures, NEW tick \in Nat, NEW file \in Files \cup {0}, NEW offset \in Nat, NEW from \in Nat
    PROVE  LET n == Looked(m, tick, file, offset, from)
           IN  /\ n \in Captures /\ n.kind = m.kind /\ n.pc = "read" /\ n.file = file
               /\ n.offset = offset /\ n.from = from /\ n.lines = m.lines /\ n.idx = m.idx
               /\ n.grid = m.grid /\ n.batch = m.batch /\ n.out = m.out /\ n.read = m.read
BY DEF Looked, Captures

LEMMA TakenIs ==
    ASSUME NEW m \in Captures, NEW next \in Nat, NEW lines \in Seq(LineSet)
    PROVE  LET n == Taken(m, next, lines)
           IN  /\ n \in Captures /\ n.kind = m.kind /\ n.pc = "fold" /\ n.file = m.file
               /\ n.offset = next /\ n.from = m.from /\ n.lines = m.lines /\ n.idx = m.idx
               /\ n.grid = m.grid /\ n.batch = lines /\ n.out = m.out /\ n.read = m.read
BY DEF Taken, Captures

LEMMA PassedIs ==
    ASSUME NEW m \in Captures, NEW vt \in Int, NEW lines \in Seq(LineSet), NEW idx \in Nat
    PROVE  LET n == Passed(m, vt, lines, idx)
           IN  /\ n \in Captures /\ n.kind = m.kind /\ n.pc = "fold" /\ n.file = m.file
               /\ n.offset = m.offset /\ n.from = m.from /\ n.lines = m.lines /\ n.idx = idx
               /\ n.grid = m.grid /\ n.batch = lines /\ n.out = m.out /\ n.read = m.read
BY DEF Passed, Captures

LEMMA FoldedIs ==
    ASSUME NEW m \in Captures, NEW p, p.grid \in Seq(BucketSet), p.out \in Seq(BucketSet), m.batch # <<>>
    PROVE  LET n == Folded(m, p)
           IN  /\ n \in Captures /\ n.kind = m.kind /\ n.pc = m.pc /\ n.file = m.file
               /\ n.offset = m.offset /\ n.from = m.from /\ n.lines = m.lines /\ n.idx = m.idx
               /\ n.grid = p.grid /\ n.batch = Tail(m.batch) /\ n.out = m.out \o p.out
               /\ n.read = Append(m.read, Head(m.batch)) /\ Got(n) = Got(m) /\ Head(m.batch) \in LineSet
<1>1. m.batch \in Seq(LineSet) /\ m.out \in Seq(BucketSet) /\ m.read \in Seq(LineSet)
  BY CaptureIs
<1>2. m.out \o p.out \in Seq(BucketSet)
  <2> HIDE DEF BucketSet
  <2> QED
    BY <1>1
<1>3. /\ Tail(m.batch) \in Seq(LineSet) /\ Head(m.batch) \in LineSet /\ Append(m.read, Head(m.batch)) \in Seq(LineSet)
      /\ Append(m.read, Head(m.batch)) \o Tail(m.batch) = m.read \o m.batch
  <2> HIDE DEF LineSet
  <2> DEFINE b == m.batch
             r == m.read
  <2>1. b \in Seq(LineSet) /\ r \in Seq(LineSet) /\ b # <<>>
    BY <1>1
  <2> HIDE DEF b, r
  <2>2. /\ Tail(b) \in Seq(LineSet) /\ Head(b) \in LineSet
        /\ Len(Tail(b)) = Len(b) - 1 /\ Len(b) \in Nat \ {0} /\ Len(r) \in Nat
    BY <2>1
  <2>3. Append(r, Head(b)) \in Seq(LineSet) /\ Len(Append(r, Head(b))) = Len(r) + 1
    BY <2>1, <2>2
  <2> DEFINE x == Append(r, Head(b)) \o Tail(b)
             y == r \o b
  <2>4. x \in Seq(LineSet) /\ y \in Seq(LineSet) /\ Len(x) = Len(r) + Len(b) /\ Len(y) = Len(r) + Len(b)
    BY <2>1, <2>2, <2>3
  <2>5. ASSUME NEW i \in 1..Len(r) + Len(b) PROVE x[i] = y[i]
    <3>1. y[i] = IF i <= Len(r) THEN r[i] ELSE b[i - Len(r)]
      BY <2>1, <2>2
    <3>2. x[i] = IF i <= Len(r) + 1 THEN Append(r, Head(b))[i] ELSE Tail(b)[i - (Len(r) + 1)]
      BY <2>1, <2>2, <2>3
    <3>3. i <= Len(r) + 1 => Append(r, Head(b))[i] = IF i <= Len(r) THEN r[i] ELSE b[1]
      BY <2>1, <2>2
    <3>4. i > Len(r) + 1 => Tail(b)[i - (Len(r) + 1)] = b[i - Len(r)]
      <4>1. i > Len(r) + 1 => (i - (Len(r) + 1) \in 1..Len(Tail(b)) /\ (i - (Len(r) + 1)) + 1 = i - Len(r))
        BY <2>2
      <4>2. \A k \in 1..Len(Tail(b)) : Tail(b)[k] = b[k + 1]
        BY <2>1
      <4> QED
        BY <4>1, <4>2
    <3>5. ~(i <= Len(r)) /\ i <= Len(r) + 1 => i - Len(r) = 1
      BY <2>2
    <3> QED
      BY <3>1, <3>2, <3>3, <3>4, <3>5, <2>2
  <2> HIDE DEF x, y
  <2>6. x = y
    BY <2>4, <2>5, SeqEqual
  <2> QED
    BY <2>2, <2>3, <2>6 DEF b, r, x, y
<1> DEFINE n == Folded(m, p)
           q == m.out \o p.out
           t == Tail(m.batch)
           r == Append(m.read, Head(m.batch))
<1>4. n = [m EXCEPT !.grid = p.grid, !.out = q, !.batch = t, !.read = r]
  BY DEF Folded
<1>5. q \in Seq(BucketSet) /\ t \in Seq(LineSet) /\ r \in Seq(LineSet)
  BY <1>2, <1>3
<1> HIDE DEF n, q, t, r
<1>6. /\ n \in Captures /\ n.kind = m.kind /\ n.pc = m.pc /\ n.file = m.file
      /\ n.offset = m.offset /\ n.from = m.from /\ n.lines = m.lines /\ n.idx = m.idx
      /\ n.grid = p.grid /\ n.batch = t /\ n.out = q /\ n.read = r
  BY <1>4, <1>5 DEF Captures
<1>7. Got(n) = Got(m)
  BY <1>3, <1>6 DEF Got, r, t
<1> QED
  BY <1>3, <1>6, <1>7 DEF n, q, t, r

LEMMA ShippedIs ==
    ASSUME NEW m \in Captures, NEW p, p.grid \in Seq(BucketSet), NEW pc \in {"poll", "done"}
    PROVE  LET n == Shipped(m, p, pc)
           IN  /\ n \in Captures /\ n.kind = m.kind /\ n.pc = pc /\ n.file = m.file
               /\ n.offset = m.offset /\ n.from = m.from /\ n.lines = m.lines /\ n.idx = m.idx
               /\ n.grid = p.grid /\ n.batch = m.batch /\ n.out = <<>> /\ n.read = m.read
<1>1. <<>> \in Seq(BucketSet)
  OBVIOUS
<1> QED
  BY <1>1 DEF Shipped, Captures

-----------------------------------------------------------------------------
LEMMA Halves ==
    ASSUME NEW a \in Nat
    PROVE  /\ a \div 2 \in Nat /\ (a + 1) \div 2 \in Nat /\ (a + 1) \div 2 + 1 \in Nat \ {0}
           /\ a % 2 = 0 => (a + 1) \div 2 = a \div 2 /\ 2 * (a \div 2) = a
           /\ a \div 2 <= (a + 1) \div 2
           /\ (2 * a) \div 2 = a /\ (2 * a) % 2 = 0
           /\ \A b \in Nat : (a <= b => (a + 1) \div 2 <= (b + 1) \div 2) /\ (a <= 2 * b => a \div 2 <= b)
OBVIOUS

LEMMA DueIs ==
    ASSUME NEW lg \in Logs, NEW m \in Captures, m.file \in Files, m.offset <= 2 * Len(lg[m.file])
    PROVE  /\ Due(lg, m) \in Seq(LineSet)
           /\ \A i \in 1..Len(Due(lg, m)) : Due(lg, m)[i].file = m.file
           /\ Distinct(Due(lg, m))
<1> DEFINE lo == (m.from + 1) \div 2 + 1
           hi == m.offset \div 2
           d == Part(lg, m.file, lo, hi)
<1>1. m.from \in Nat /\ m.offset \in Nat /\ Len(lg[m.file]) \in Nat
  BY CaptureIs, FilesAre
<1>2. lo \in Nat \ {0} /\ hi \in Int /\ hi <= Len(lg[m.file])
  BY <1>1, Halves
<1> HIDE DEF lo, hi
<1>3. /\ d \in Seq(LineSet) /\ \A i \in 1..Len(d) : d[i] = LineIn(lg, m.file, lo + i - 1)
  BY <1>2, PartIs
<1> HIDE DEF d
<1>4. \A i \in 1..Len(d) : d[i].file = m.file /\ d[i].nr = lo + i - 1
  <2>1. \A k : LineIn(lg, m.file, k).file = m.file /\ LineIn(lg, m.file, k).nr = k
    BY DEF LineIn
  <2> QED
    BY <1>3, <2>1, Zenon
<1>5. Distinct(d)
  <2> SUFFICES ASSUME NEW i \in 1..Len(d), NEW j \in 1..Len(d), d[i] = d[j] PROVE i = j
    BY DEF Distinct
  <2>1. lo + i - 1 = lo + j - 1
    BY <1>4
  <2>2. i \in Int /\ j \in Int /\ lo \in Int
    BY <1>2, <1>3
  <2> QED
    BY <2>1, <2>2
<1> QED
  BY <1>3, <1>4, <1>5 DEF Due, d, lo, hi

(* All that a live capture got is of its log or of an older one.           *)
LEMMA GotBefore ==
    ASSUME NEW lg \in Logs, NEW made, NEW m \in Captures, Follows(lg, made, m), NEW f \in Nat, m.file < f
    PROVE  \A i \in 1..Len(Got(m)) : Got(m)[i].file < f
<1>1. CASE m.file = 0
  BY <1>1 DEF Follows
<1>2. CASE m.file # 0
  <2>1. m.file \in Files /\ m.file \in Nat
    BY <1>2, CaptureIs, FilesAre
  <2>2. PICK before \in Seq(LineSet) :
          Got(m) = before \o Due(lg, m) /\ \A i \in 1..Len(before) : before[i].file < m.file
    BY <1>2 DEF Follows
  <2>3. /\ Due(lg, m) \in Seq(LineSet) /\ \A i \in 1..Len(Due(lg, m)) : Due(lg, m)[i].file = m.file
    BY <1>2, <2>1, DueIs DEF Follows
  <2> DEFINE d == Due(lg, m)
  <2> HIDE DEF d
  <2>4. /\ \A i \in 1..Len(before) : (before \o d)[i] = before[i]
        /\ \A i \in 1..Len(before \o d) : i > Len(before) =>
             (before \o d)[i] = d[i - Len(before)] /\ i - Len(before) \in 1..Len(d)
    <3>1. d \in Seq(LineSet)
      BY <2>3 DEF d
    <3> HIDE DEF LineSet
    <3> QED
      BY <3>1
  <2>5. \A i \in 1..Len(before) : before[i].file \in Nat /\ Len(before) \in Nat
    BY LinesOf DEF LineSet
  <2> SUFFICES ASSUME NEW i \in 1..Len(before \o d) PROVE (before \o d)[i].file < f
    BY <2>2 DEF d
  <2>6. CASE i <= Len(before)
    <3>1. i \in 1..Len(before)
      BY <2>6
    <3>2. before[i].file < m.file /\ before[i].file \in Nat
      BY <2>2, <2>5, <3>1
    <3> QED
      BY <2>1, <2>4, <3>1, <3>2
  <2>7. CASE ~(i <= Len(before))
    <3>1. i > Len(before)
      BY <2>7, LinesOf
    <3>2. (before \o d)[i].file = m.file
      BY <2>3, <2>4, <3>1 DEF d
    <3> QED
      BY <3>2
  <2> QED
    BY <2>6, <2>7
<1> QED
  BY <1>1, <1>2

(* A poll that looks for a newer log goes on in its own or changes to it.  *)
LEMMA ReadsLooked ==
    ASSUME NEW lg \in Logs, NEW made \in SUBSET Files, NEW m, Reads(lg, made, m), m.pc = "poll", m.kind = "live",
           NEW tick \in Nat, NEW file, NEW offset, NEW from,
           \/ file = m.file /\ offset = m.offset /\ from = m.from
           \/ file \in made /\ IsFollowed(lg, file) /\ m.file < file /\ offset = 0 /\ from = 0
    PROVE  Reads(lg, made, Looked(m, tick, file, offset, from))
<1> DEFINE n == Looked(m, tick, file, offset, from)
<1>1. m \in Captures /\ Rests(m) /\ Follows(lg, made, m)
  BY DEF Reads
<1>2. file \in Files \cup {0} /\ offset \in Nat /\ from \in Nat /\ (file # 0 => file \in Nat)
  <2>1. m.file \in Files \cup {0} /\ m.offset \in Nat /\ m.from \in Nat
    BY <1>1, CaptureIs
  <2>2. \A f \in Files : f \in Nat
    BY FilesAre
  <2> QED
    BY <2>1, <2>2
<1>3. /\ n \in Captures /\ n.kind = m.kind /\ n.pc = "read" /\ n.file = file
      /\ n.offset = offset /\ n.from = from /\ n.batch = m.batch /\ n.out = m.out /\ n.read = m.read
  BY <1>1, <1>2, LookedIs
<1> HIDE DEF n
<1>4. Got(n) = Got(m) /\ Rests(n)
  BY <1>1, <1>3 DEF Got, Rests
<1>5. CASE file = m.file /\ offset = m.offset /\ from = m.from
  <2>1. Due(lg, n) = Due(lg, m)
    BY <1>3, <1>5 DEF Due
  <2>2. Follows(lg, made, n)
    BY <1>1, <1>3, <1>4, <1>5, <2>1 DEF Follows
  <2> QED
    BY <1>3, <1>4, <2>2 DEF Reads, n
<1>6. CASE file \in made /\ IsFollowed(lg, file) /\ m.file < file /\ offset = 0 /\ from = 0
  <2>1. file \in Files /\ file \in Nat \ {0} /\ Len(lg[file]) \in Nat
    BY <1>6, FilesAre
  <2>2. \A i \in 1..Len(Got(m)) : Got(m)[i].file < file
    BY <1>1, <1>6, <2>1, GotBefore
  <2>3. Due(lg, n) = <<>>
    <3>1. (0 + 1) \div 2 + 1 = 1 /\ 0 \div 2 = 0
      OBVIOUS
    <3>2. Due(lg, n) = Part(lg, file, 1, 0)
      BY <1>3, <1>6, <3>1 DEF Due
    <3>3. 1 \in Nat \ {0} /\ 0 \in Int /\ 0 <= Len(lg[file]) /\ 0 < 1
      BY <2>1
    <3> QED
      BY <2>1, <3>2, <3>3, PartIs
  <2>4. Got(m) \in Seq(LineSet) /\ Got(m) \o <<>> = Got(m)
    BY <1>1, CaptureIs
  <2>5. Follows(lg, made, n)
    <3>1. \E before \in Seq(LineSet) :
            Got(n) = before \o Due(lg, n) /\ \A i \in 1..Len(before) : before[i].file < n.file
      BY <1>3, <1>4, <2>2, <2>3, <2>4
    <3>2. n.file # 0 /\ n.file \in made /\ IsFollowed(lg, n.file) /\ n.from <= n.offset /\ n.offset = n.from
      BY <1>3, <1>6, <2>1
    <3>3. n.offset <= 2 * Len(lg[n.file])
      BY <1>3, <1>6, <2>1
    <3> QED
      BY <3>1, <3>2, <3>3 DEF Follows
  <2> QED
    BY <1>3, <1>4, <2>5 DEF Reads, n
<1> QED
  BY <1>5, <1>6

-----------------------------------------------------------------------------
LEMMA Joined ==
    ASSUME NEW a \in Seq(LineSet), NEW b \in Seq(LineSet), NEW c \in Seq(LineSet)
    PROVE  /\ a \o b \in Seq(LineSet) /\ (a \o b) \o c = a \o (b \o c)
           /\ Len(a \o b) = Len(a) + Len(b) /\ Len(a) \in Nat /\ Len(b) \in Nat
           /\ \A i \in 1..Len(a) : (a \o b)[i] = a[i]
           /\ \A i \in 1..Len(b) : (a \o b)[Len(a) + i] = b[i]
           /\ a \o <<>> = a /\ <<>> \o a = a
<1> HIDE DEF LineSet
<1>1. a \o b \in Seq(LineSet)
  OBVIOUS
<1>2. (a \o b) \o c = a \o (b \o c)
  BY ConcatAssociative
<1>3. /\ Len(a \o b) = Len(a) + Len(b) /\ Len(a) \in Nat /\ Len(b) \in Nat
      /\ \A i \in 1..Len(a) : (a \o b)[i] = a[i]
      /\ \A i \in 1..Len(b) : (a \o b)[Len(a) + i] = b[i]
  OBVIOUS
<1>4. a \o <<>> = a /\ <<>> \o a = a
  OBVIOUS
<1> QED
  BY <1>1, <1>2, <1>3, <1>4

(* What has no line twice, and other lines after it.                       *)
LEMMA JoinedDistinct ==
    ASSUME NEW a \in Seq(LineSet), NEW b \in Seq(LineSet), Distinct(a), Distinct(b),
           \A i \in 1..Len(a) : \A j \in 1..Len(b) : a[i] # b[j]
    PROVE  Distinct(a \o b)
<1> SUFFICES ASSUME NEW i \in 1..Len(a \o b), NEW j \in 1..Len(a \o b), (a \o b)[i] = (a \o b)[j] PROVE i = j
  BY DEF Distinct
<1>1. /\ Len(a \o b) = Len(a) + Len(b) /\ Len(a) \in Nat /\ Len(b) \in Nat
      /\ \A x \in 1..Len(a) : (a \o b)[x] = a[x]
      /\ \A x \in 1..Len(b) : (a \o b)[Len(a) + x] = b[x]
  BY Joined
<1> DEFINE s == a \o b
<1> HIDE DEF s
<1>2. \A x \in 1..(Len(a) + Len(b)) : x > Len(a) =>
        x - Len(a) \in 1..Len(b) /\ s[x] = b[x - Len(a)] /\ Len(a) + (x - Len(a)) = x
  <2> SUFFICES ASSUME NEW x \in 1..(Len(a) + Len(b)), x > Len(a)
               PROVE  x - Len(a) \in 1..Len(b) /\ s[x] = b[x - Len(a)] /\ Len(a) + (x - Len(a)) = x
    OBVIOUS
  <2>1. x - Len(a) \in 1..Len(b) /\ Len(a) + (x - Len(a)) = x
    BY <1>1
  <2> QED
    BY <1>1, <2>1 DEF s
<1>3. i \in 1..(Len(a) + Len(b)) /\ j \in 1..(Len(a) + Len(b))
  BY <1>1
<1>4. CASE i <= Len(a) /\ j <= Len(a)
  <2>1. i \in 1..Len(a) /\ j \in 1..Len(a)
    BY <1>1, <1>3, <1>4
  <2> QED
    BY <1>1, <2>1 DEF Distinct
<1>5. CASE i > Len(a) /\ j > Len(a)
  <2>1. b[i - Len(a)] = b[j - Len(a)] /\ i - Len(a) \in 1..Len(b) /\ j - Len(a) \in 1..Len(b)
    BY <1>2, <1>3, <1>5 DEF s
  <2>2. i - Len(a) = j - Len(a)
    BY <2>1 DEF Distinct
  <2> QED
    BY <1>1, <1>3, <2>2
<1>6. CASE i <= Len(a) /\ j > Len(a)
  <2>1. i \in 1..Len(a)
    BY <1>1, <1>3, <1>6
  <2>2. a[i] = b[j - Len(a)] /\ j - Len(a) \in 1..Len(b)
    BY <1>1, <1>2, <1>3, <1>6, <2>1 DEF s
  <2> QED
    BY <2>1, <2>2
<1>7. CASE i > Len(a) /\ j <= Len(a)
  <2>1. j \in 1..Len(a)
    BY <1>1, <1>3, <1>7
  <2>2. a[j] = b[i - Len(a)] /\ i - Len(a) \in 1..Len(b)
    BY <1>1, <1>2, <1>3, <1>7, <2>1 DEF s
  <2> QED
    BY <2>1, <2>2
<1> QED
  BY <1>1, <1>3, <1>4, <1>5, <1>6, <1>7

LEMMA PrefixDistinct ==
    ASSUME NEW a \in Seq(LineSet), NEW b \in Seq(LineSet), Distinct(a \o b)
    PROVE  Distinct(a) /\ \A i \in 1..Len(a) : \A j \in 1..Len(b) : a[i] # b[j]
<1>1. /\ Len(a \o b) = Len(a) + Len(b) /\ Len(a) \in Nat /\ Len(b) \in Nat
      /\ \A x \in 1..Len(a) : (a \o b)[x] = a[x]
      /\ \A x \in 1..Len(b) : (a \o b)[Len(a) + x] = b[x]
  BY Joined
<1>2. Distinct(a)
  <2>1. \A x \in 1..Len(a) : x \in 1..Len(a \o b)
    BY <1>1
  <2> QED
    BY <1>1, <2>1 DEF Distinct
<1>3. ASSUME NEW i \in 1..Len(a), NEW j \in 1..Len(b), a[i] = b[j] PROVE FALSE
  <2>1. i \in 1..Len(a \o b) /\ Len(a) + j \in 1..Len(a \o b) /\ i # Len(a) + j
    BY <1>1
  <2> QED
    BY <1>1, <1>3, <2>1 DEF Distinct
<1> QED
  BY <1>2, <1>3

(* The whole lines of the log from the offset on, as read_appended gets them. *)
IsAppended(lg, m, next, lines) ==
    \/ next = m.offset /\ lines = <<>>
    \/ /\ m.file # 0
       /\ \E upto \in Nat : /\ upto <= Len(lg[m.file]) /\ ~(2 * upto <= m.offset) /\ next = 2 * upto
                            /\ lines = Part(lg, m.file, (m.offset + 1) \div 2 + 1, upto)

LEMMA ReadsTaken ==
    ASSUME NEW lg \in Logs, NEW made \in SUBSET Files, NEW m, Reads(lg, made, m), m.pc = "read",
           NEW next, NEW lines, IsAppended(lg, m, next, lines)
    PROVE  Reads(lg, made, Taken(m, next, lines))
<1> DEFINE n == Taken(m, next, lines)
<1>1. m \in Captures /\ Rests(m) /\ m.kind = "live" /\ Follows(lg, made, m) /\ m.batch = <<>>
  BY DEF Reads, Rests
<1>2. m.read \in Seq(LineSet) /\ Got(m) = m.read /\ m.offset \in Nat /\ m.from \in Nat /\ m.file \in Files \cup {0}
  <2>1. m.read \in Seq(LineSet) /\ m.offset \in Nat /\ m.from \in Nat /\ m.file \in Files \cup {0}
    BY <1>1, CaptureIs
  <2>2. m.read \o <<>> = m.read
    BY <2>1, Joined
  <2> QED
    BY <1>1, <2>1, <2>2 DEF Got
<1>3. CASE next = m.offset /\ lines = <<>>
  <2>1. lines \in Seq(LineSet) /\ next \in Nat
    BY <1>2, <1>3
  <2>2. /\ n \in Captures /\ n.kind = m.kind /\ n.pc = "fold" /\ n.file = m.file /\ n.offset = m.offset
        /\ n.from = m.from /\ n.batch = m.batch /\ n.read = m.read
    <3>1. m \in Captures
      BY <1>1
    <3>2. next \in Nat
      BY <2>1
    <3>3. lines \in Seq(LineSet)
      BY <2>1
    <3>4. /\ n \in Captures /\ n.kind = m.kind /\ n.pc = "fold" /\ n.file = m.file /\ n.offset = next
          /\ n.from = m.from /\ n.batch = lines /\ n.read = m.read
      BY ONLY <3>1, <3>2, <3>3, TakenIs
    <3> QED
      BY <1>1, <1>3, <3>4
  <2> HIDE DEF n
  <2>3. Got(n) = Got(m) /\ Due(lg, n) = Due(lg, m)
    BY <2>2 DEF Got, Due
  <2>4. Rests(n) /\ Follows(lg, made, n)
    BY <1>1, <2>2, <2>3 DEF Rests, Follows
  <2> QED
    BY <1>1, <2>2, <2>4 DEF Reads, n
<1>4. ASSUME m.file # 0, NEW upto \in Nat, upto <= Len(lg[m.file]), ~(2 * upto <= m.offset), next = 2 * upto,
             lines = Part(lg, m.file, (m.offset + 1) \div 2 + 1, upto)
      PROVE  Reads(lg, made, n)
  <2> DEFINE lo == (m.from + 1) \div 2 + 1
             at == (m.offset + 1) \div 2
             all == Part(lg, m.file, lo, upto)
  <2>1. m.file \in Files /\ Len(lg[m.file]) \in Nat /\ m.from <= m.offset
    BY <1>1, <1>2, <1>4, FilesAre DEF Follows
  <2>2. /\ at \in Nat /\ lo \in Nat \ {0} /\ lo <= at + 1 /\ at <= upto /\ upto \in Int
    <3>1. (m.from + 1) \div 2 \in Nat /\ (m.offset + 1) \div 2 \in Nat /\ (m.from + 1) \div 2 <= (m.offset + 1) \div 2
      BY <1>2, <2>1, Halves
    <3>2. (m.offset + 1) \div 2 <= upto
      BY <1>2, <1>4
    <3> QED
      BY <3>1, <3>2
  <2>3. lines \in Seq(LineSet) /\ all \in Seq(LineSet)
    <3>1. at + 1 \in Nat \ {0}
      BY <2>2
    <3> HIDE DEF at, lo
    <3>2. Part(lg, m.file, at + 1, upto) \in Seq(LineSet) /\ Part(lg, m.file, lo, upto) \in Seq(LineSet)
      BY <1>4, <2>1, <2>2, <3>1, PartIs
    <3> QED
      BY <1>4, <3>2 DEF at
  <2>4. /\ n \in Captures /\ n.kind = m.kind /\ n.pc = "fold" /\ n.file = m.file /\ n.offset = next
        /\ n.from = m.from /\ n.batch = lines /\ n.read = m.read
    <3>1. m \in Captures
      BY <1>1
    <3>2. next \in Nat
      BY <1>4
    <3>3. lines \in Seq(LineSet)
      BY <2>3
    <3> QED
      BY ONLY <3>1, <3>2, <3>3, TakenIs
  <2> HIDE DEF n
  <2>5. Due(lg, n) = all
    <3>1. (2 * upto) \div 2 = upto
      BY <1>4, Halves
    <3> QED
      BY <1>4, <2>4, <3>1 DEF Due
  <2>6. Due(lg, m) \in Seq(LineSet) /\ Due(lg, m) \o lines = all
    <3>1. Due(lg, m) \in Seq(LineSet)
      BY <1>1, <1>4, <2>1, DueIs DEF Follows
    <3>2. CASE m.offset % 2 = 0
      <4>1. m.offset \div 2 = at
        BY <1>2, <3>2, Halves
      <4>2. Due(lg, m) = Part(lg, m.file, lo, at)
        BY <4>1 DEF Due
      <4> HIDE DEF lo, at
      <4>3. Part(lg, m.file, lo, at) \o Part(lg, m.file, at + 1, upto) = Part(lg, m.file, lo, upto)
        BY <1>4, <2>1, <2>2, PartJoins
      <4> QED
        BY <1>4, <3>1, <4>2, <4>3 DEF at
    <3>3. CASE m.offset = m.from
      <4>1. m.offset \div 2 < lo /\ m.offset \div 2 \in Int /\ m.offset \div 2 <= Len(lg[m.file])
        <5>1. m.offset <= 2 * Len(lg[m.file])
          BY <1>1, <1>4 DEF Follows
        <5> QED
          BY <1>2, <2>1, <3>3, <5>1, Halves
      <4>2. Due(lg, m) = Part(lg, m.file, lo, m.offset \div 2)
        BY DEF Due
      <4>3. lo = at + 1
        BY <3>3
      <4> HIDE DEF lo, at
      <4>4. Due(lg, m) = <<>>
        BY <2>1, <2>2, <4>1, <4>2, PartIs
      <4>5. lines = all
        BY <1>4, <4>3 DEF at
      <4> QED
        BY <2>3, <3>1, <4>4, <4>5, Joined
    <3> QED
      BY <1>1, <1>4, <3>2, <3>3 DEF Follows
  <2> HIDE DEF all
  <2>7. PICK before \in Seq(LineSet) :
          Got(m) = before \o Due(lg, m) /\ \A i \in 1..Len(before) : before[i].file < m.file
    BY <1>1, <1>4 DEF Follows
  <2>8. Got(n) = before \o all
    <3>1. (before \o Due(lg, m)) \o lines = before \o (Due(lg, m) \o lines)
      <4>1. Due(lg, m) \in Seq(LineSet) /\ lines \in Seq(LineSet)
        BY <2>3, <2>6
      <4>2. \A a, b, c \in Seq(LineSet) : (a \o b) \o c = a \o (b \o c)
        <5> SUFFICES ASSUME NEW a \in Seq(LineSet), NEW b \in Seq(LineSet), NEW c \in Seq(LineSet)
                     PROVE  (a \o b) \o c = a \o (b \o c)
          OBVIOUS
        <5> HIDE DEF LineSet
        <5> QED
          BY ONLY ConcatAssociative
      <4> QED
        BY ONLY <4>1, <4>2, before \in Seq(LineSet)
    <3>2. Got(n) = Got(m) \o lines
      BY <1>2, <2>4 DEF Got
    <3> QED
      BY <2>6, <2>7, <3>1, <3>2
  <2>9. n.offset <= 2 * Len(lg[n.file]) /\ n.from <= n.offset /\ n.offset % 2 = 0
    <3>1. (2 * upto) % 2 = 0
      BY <1>4, Halves
    <3>2. 2 * upto <= 2 * Len(lg[m.file]) /\ m.from <= 2 * upto
      BY <1>2, <1>4, <2>1
    <3> QED
      BY <1>4, <2>4, <3>1, <3>2
  <2>10. Follows(lg, made, n)
    <3>1. n.file # 0 /\ n.file \in made /\ IsFollowed(lg, n.file)
      BY <1>1, <1>4, <2>4 DEF Follows
    <3>2. \E b \in Seq(LineSet) : Got(n) = b \o Due(lg, n) /\ \A i \in 1..Len(b) : b[i].file < n.file
      BY <2>4, <2>5, <2>7, <2>8
    <3> QED
      BY <2>9, <3>1, <3>2 DEF Follows
  <2>11. Distinct(Got(n))
    <3>1. Distinct(before)
      BY <1>1, <2>6, <2>7, PrefixDistinct DEF Rests
    <3>2. Distinct(all) /\ \A j \in 1..Len(all) : all[j].file = m.file
      BY <2>1, <2>4, <2>5, <2>9, DueIs
    <3>3. \A i \in 1..Len(before) : \A j \in 1..Len(all) : before[i] # all[j]
      <4>1. \A i \in 1..Len(before) : before[i].file \in Nat
        BY LinesOf DEF LineSet
      <4>2. m.file \in Nat
        BY <2>1, FilesAre
      <4> SUFFICES ASSUME NEW i \in 1..Len(before), NEW j \in 1..Len(all), before[i] = all[j] PROVE FALSE
        OBVIOUS
      <4>3. before[i].file = m.file
        BY <3>2
      <4>4. before[i].file < m.file
        BY <2>7
      <4> QED
        BY <4>2, <4>3, <4>4
    <3> QED
      BY <2>3, <2>8, <3>1, <3>2, <3>3, JoinedDistinct
  <2> QED
    BY <1>1, <2>4, <2>10, <2>11 DEF Reads, Rests, n
<1> QED
  BY <1>3, <1>4 DEF IsAppended

-----------------------------------------------------------------------------
LEMMA Cut ==
    ASSUME NEW s \in Seq(LineSet), NEW a \in Nat, NEW b \in Nat, NEW c \in Nat, a <= b, b <= Len(s), c <= Len(s)
    PROVE  /\ SubSeq(s, b + 1, c) \in Seq(LineSet)
           /\ SubSeq(s, a + 1, b) \o SubSeq(s, b + 1, c) = SubSeq(s, a + 1, IF c > b THEN c ELSE b)
           /\ Distinct(s) => Distinct(SubSeq(s, a + 1, b))
<1> HIDE DEF LineSet
<1>0. Len(s) \in Nat
  OBVIOUS
<1> DEFINE x == SubSeq(s, a + 1, b)
           y == SubSeq(s, b + 1, c)
           m == IF c > b THEN c ELSE b
           z == SubSeq(s, a + 1, m)
<1>1. x \in Seq(LineSet) /\ y \in Seq(LineSet) /\ z \in Seq(LineSet)
  BY <1>0
<1>2. Len(x) = b - a /\ \A i \in 1..Len(x) : x[i] = s[a + i]
  BY <1>0
<1>3. Len(y) = (IF c > b THEN c - b ELSE 0) /\ \A i \in 1..Len(y) : y[i] = s[b + i]
  BY <1>0
<1>4. Len(z) = m - a /\ \A i \in 1..Len(z) : z[i] = s[a + i]
  <2>1. m \in Nat /\ a <= m /\ m <= Len(s)
    BY <1>0
  <2> HIDE DEF m
  <2> QED
    BY <1>0, <2>1
<1>5. m \in Nat /\ m = b + Len(y) /\ Len(x) \in Nat /\ Len(y) \in Nat
  BY <1>2, <1>3
<1> HIDE DEF x, y, z, m
<1>6. /\ x \o y \in Seq(LineSet) /\ Len(x \o y) = Len(x) + Len(y)
      /\ \A i \in 1..Len(x) : (x \o y)[i] = x[i]
      /\ \A i \in 1..Len(y) : (x \o y)[Len(x) + i] = y[i]
  BY <1>1, Joined
<1>7. Len(x \o y) = Len(z)
  BY <1>2, <1>4, <1>5, <1>6
<1>8. ASSUME NEW i \in 1..Len(z) PROVE (x \o y)[i] = z[i]
  <2>1. CASE i <= Len(x)
    <3>1. i \in 1..Len(x)
      BY <1>5, <2>1
    <3> QED
      BY <1>2, <1>4, <1>6, <3>1
  <2>2. CASE ~(i <= Len(x))
    <3>1. i - Len(x) \in 1..Len(y) /\ Len(x) + (i - Len(x)) = i /\ b + (i - Len(x)) = a + i
      BY <1>2, <1>5, <1>6, <1>7, <2>2
    <3>2. (x \o y)[Len(x) + (i - Len(x))] = y[i - Len(x)] /\ y[i - Len(x)] = s[b + (i - Len(x))]
      BY <1>3, <1>6, <3>1
    <3>3. z[i] = s[a + i]
      BY <1>4
    <3>4. (x \o y)[i] = s[a + i]
      BY <3>1, <3>2
    <3> QED
      BY <3>3, <3>4
  <2> QED
    BY <2>1, <2>2
<1>9. x \o y = z
  <2> DEFINE d == x \o y
  <2>1. d \in Seq(LineSet) /\ z \in Seq(LineSet) /\ Len(d) = Len(z) /\ \A i \in 1..Len(d) : d[i] = z[i]
    BY <1>1, <1>6, <1>7, <1>8
  <2> HIDE DEF d
  <2>2. d = z
    BY <2>1, SeqEqual
  <2> QED
    BY <2>2 DEF d
<1>10. ASSUME Distinct(s) PROVE Distinct(x)
  <2> SUFFICES ASSUME NEW i \in 1..Len(x), NEW j \in 1..Len(x), x[i] = x[j] PROVE i = j
    BY DEF Distinct
  <2>1. a + i \in 1..Len(s) /\ a + j \in 1..Len(s)
    BY <1>0, <1>2
  <2>2. s[a + i] = s[a + j]
    BY <1>2
  <2>3. a + i = a + j
    BY <1>10, <2>1, <2>2 DEF Distinct
  <2> QED
    BY <2>3
<1> QED
  BY <1>1, <1>9, <1>10 DEF x, y, z, m

LEMMA ReadsPassed ==
    ASSUME NEW lg, NEW made, NEW m, Reads(lg, made, m), m.pc = "poll", m.kind = "replay",
           NEW vt \in Int, NEW due \in Nat, due <= Len(m.lines)
    PROVE  Reads(lg, made, Passed(m, vt, SubSeq(m.lines, m.idx + 1, due), IF due > m.idx THEN due ELSE m.idx))
<1> DEFINE batch == SubSeq(m.lines, m.idx + 1, due)
           idx == IF due > m.idx THEN due ELSE m.idx
           n == Passed(m, vt, batch, idx)
<1>1. m \in Captures /\ Replays(m) /\ m.batch = <<>>
  BY DEF Reads, Rests
<1>2. /\ m.read \in Seq(LineSet) /\ m.lines \in Seq(LineSet) /\ m.from \in Nat /\ m.idx \in Nat
      /\ m.from <= m.idx /\ m.idx <= Len(m.lines) /\ Distinct(m.lines)
  BY <1>1, CaptureIs DEF Replays
<1>3. m.read = SubSeq(m.lines, m.from + 1, m.idx)
  <2>1. m.read \o <<>> = m.read
    BY <1>2, Joined
  <2> QED
    BY <1>1, <2>1 DEF Replays, Got
<1>4. batch \in Seq(LineSet) /\ m.read \o batch = SubSeq(m.lines, m.from + 1, idx)
  <2>1. /\ batch \in Seq(LineSet)
        /\ SubSeq(m.lines, m.from + 1, m.idx) \o batch = SubSeq(m.lines, m.from + 1, idx)
    <3> DEFINE s == m.lines
               a == m.from
               b == m.idx
    <3>1. s \in Seq(LineSet) /\ a \in Nat /\ b \in Nat /\ a <= b /\ b <= Len(s) /\ due <= Len(s)
      BY <1>2
    <3> HIDE DEF s, a, b
    <3>2. /\ SubSeq(s, b + 1, due) \in Seq(LineSet)
          /\ SubSeq(s, a + 1, b) \o SubSeq(s, b + 1, due) = SubSeq(s, a + 1, IF due > b THEN due ELSE b)
      BY ONLY <3>1, due \in Nat, Cut
    <3> QED
      BY <3>2, Zenon DEF s, a, b
  <2> HIDE DEF batch, idx
  <2> QED
    BY ONLY <1>3, <2>1
<1>5. idx \in Nat /\ m.from <= idx /\ idx <= Len(m.lines)
  BY <1>2
<1> HIDE DEF batch, idx
<1>6. /\ n \in Captures /\ n.kind = m.kind /\ n.pc = "fold" /\ n.from = m.from /\ n.lines = m.lines /\ n.idx = idx
      /\ n.batch = batch /\ n.read = m.read
  <2>1. m \in Captures
    BY <1>1
  <2>2. idx \in Nat
    BY <1>5
  <2>3. batch \in Seq(LineSet)
    BY <1>4
  <2> QED
    BY ONLY <2>1, <2>2, <2>3, vt \in Int, PassedIs
<1> HIDE DEF n
<1>7. Got(n) = SubSeq(n.lines, n.from + 1, n.idx)
  BY <1>4, <1>6 DEF Got
<1>8. Distinct(Got(n))
  <2>1. SubSeq(m.lines, m.from + 1, idx) \in Seq(LineSet) /\ Distinct(SubSeq(m.lines, m.from + 1, idx))
    BY <1>2, <1>5, Cut
  <2> QED
    BY <1>6, <1>7, <2>1
<1>9. Replays(n)
  BY <1>1, <1>2, <1>5, <1>6, <1>7 DEF Replays
<1> QED
  BY <1>6, <1>8, <1>9 DEF Reads, Rests, n, batch, idx

LEMMA ReadsFolded ==
    ASSUME NEW lg, NEW made, NEW m, Reads(lg, made, m), m.pc = "fold", m.batch # <<>>,
           NEW p, p.grid \in Seq(BucketSet), p.out \in Seq(BucketSet)
    PROVE  Reads(lg, made, Folded(m, p))
<1> DEFINE n == Folded(m, p)
<1>1. m \in Captures
  BY DEF Reads
<1>2. /\ n \in Captures /\ n.kind = m.kind /\ n.pc = m.pc /\ n.file = m.file
      /\ n.offset = m.offset /\ n.from = m.from /\ n.lines = m.lines /\ n.idx = m.idx /\ Got(n) = Got(m)
  BY <1>1, FoldedIs
<1> HIDE DEF n
<1>3. Due(lg, n) = Due(lg, m)
  BY <1>2 DEF Due
<1>4. Rests(n)
  BY <1>2 DEF Reads, Rests
<1>5. m.kind = "live" => Follows(lg, made, n)
  BY <1>2, <1>3 DEF Reads, Follows
<1>6. m.kind = "replay" => Replays(n)
  BY <1>2 DEF Reads, Replays
<1> QED
  BY <1>2, <1>4, <1>5, <1>6 DEF Reads, n

LEMMA ReadsShipped ==
    ASSUME NEW lg, NEW made, NEW m, Reads(lg, made, m), m.batch = <<>>,
           NEW p, p.grid \in Seq(BucketSet), NEW pc \in {"poll", "done"}
    PROVE  Reads(lg, made, Shipped(m, p, pc))
<1> DEFINE n == Shipped(m, p, pc)
<1>1. m \in Captures
  BY DEF Reads
<1>2. /\ n \in Captures /\ n.kind = m.kind /\ n.pc = pc /\ n.file = m.file
      /\ n.offset = m.offset /\ n.from = m.from /\ n.lines = m.lines /\ n.idx = m.idx
      /\ n.batch = m.batch /\ n.out = <<>> /\ n.read = m.read
  BY <1>1, ShippedIs
<1> HIDE DEF n
<1>3. Due(lg, n) = Due(lg, m) /\ Got(n) = Got(m)
  BY <1>2 DEF Due, Got
<1>4. Rests(n)
  BY <1>2, <1>3 DEF Reads, Rests
<1>5. m.kind = "live" => Follows(lg, made, n)
  BY <1>2, <1>3 DEF Reads, Follows
<1>6. m.kind = "replay" => Replays(n)
  BY <1>2, <1>3 DEF Reads, Replays
<1> QED
  BY <1>2, <1>4, <1>5, <1>6 DEF Reads, n

(* The game only adds to its logs.                                         *)
LEMMA ReadsStay ==
    ASSUME NEW lg \in Logs, NEW lg2 \in Logs, Longer(lg2, lg),
           NEW made \in SUBSET Files, NEW made2, made \subseteq made2, NEW m, Reads(lg, made, m)
    PROVE  Reads(lg2, made2, m)
<1>1. m \in Captures /\ Rests(m) /\ (m.kind = "replay" => Replays(m))
  BY DEF Reads
<1>2. ASSUME m.kind = "live" PROVE Follows(lg2, made2, m)
  <2>1. Follows(lg, made, m)
    BY <1>2 DEF Reads
  <2>2. CASE m.file = 0
    BY <2>1, <2>2 DEF Follows
  <2>3. CASE m.file # 0
    <3>1. m.file \in Files /\ m.from \in Nat /\ m.offset \in Nat /\ Len(lg[m.file]) \in Nat /\ Len(lg2[m.file]) \in Nat
      BY <1>1, <2>3, CaptureIs, FilesAre
    <3>2. Len(lg[m.file]) <= Len(lg2[m.file]) /\ m.offset <= 2 * Len(lg[m.file])
      BY <2>1, <2>3, <3>1 DEF Longer, Follows
    <3>3. Due(lg2, m) = Due(lg, m)
      <4> DEFINE lo == (m.from + 1) \div 2 + 1
                 hi == m.offset \div 2
      <4>1. lo \in Nat \ {0} /\ hi \in Int /\ hi <= Len(lg[m.file])
        BY <3>1, <3>2, Halves
      <4> HIDE DEF lo, hi
      <4>2. Part(lg2, m.file, lo, hi) = Part(lg, m.file, lo, hi)
        BY <3>1, <4>1, PartStays
      <4> QED
        BY <4>2 DEF Due, lo, hi
    <3>4. lg[m.file] # <<>> => lg2[m.file] # <<>>
      <4>1. lg[m.file] \in Seq(Int) /\ lg2[m.file] \in Seq(Int)
        BY <3>1, FilesAre
      <4> QED
        BY <3>2, <4>1
    <3>5. m.file \in made2 /\ IsFollowed(lg2, m.file)
      BY <2>1, <2>3, <3>4 DEF Follows, IsFollowed
    <3>6. m.offset <= 2 * Len(lg2[m.file])
      BY <3>1, <3>2
    <3> QED
      BY <2>1, <2>3, <3>3, <3>5, <3>6 DEF Follows
  <2> QED
    BY <2>2, <2>3
<1> QED
  BY <1>1, <1>2 DEF Reads

-----------------------------------------------------------------------------
LEMMA GridOf ==
    ASSUME NEW full, NEW chart, NEW grid, Fits(full, chart, grid)
    PROVE  grid \in Seq(BucketSet) /\ chart \in Seq(BucketSet)
BY DEF Fits, Charted, Keeps

LEMMA ChartsFolded ==
    ASSUME NEW g, NEW m \in Captures, NEW sh \in Seq(BucketSet), NEW wr, NEW cl, Charts(g, m, sh, wr, cl),
           Distinct(Got(m)), m.batch # <<>>
    PROVE  LET p == Push(m.grid, Head(m.batch))
           IN  /\ p.grid \in Seq(BucketSet) /\ p.out \in Seq(BucketSet)
               /\ Charts(g, Folded(m, p), sh, wr, cl)
<1> DEFINE line == Head(m.batch)
           p == Push(m.grid, line)
           n == Folded(m, p)
<1>1. PICK full, chart : /\ Fits(full, chart, m.grid) /\ Holds(full, m.read)
                         /\ g > cl /\ wr \subseteq {g} => chart = Sent(sh, m.out)
  BY DEF Charts
<1>2. m.read \in Seq(LineSet) /\ m.batch \in Seq(LineSet) /\ m.out \in Seq(BucketSet)
  BY CaptureIs
<1>3. line \in LineSet /\ line = m.batch[1] /\ 1 \in 1..Len(m.batch)
  <2> HIDE DEF LineSet
  <2> QED
    BY <1>2
<1>4. \A r \in 1..Len(m.read) : m.read[r] # line
  BY <1>2, <1>3, PrefixDistinct DEF Got
<1> HIDE DEF line
<1>5. /\ p.out \in Seq(BucketSet)
      /\ \E new : Fits(new, Sent(chart, p.out), p.grid) /\ Holds(new, Append(m.read, line))
  BY <1>1, <1>2, <1>3, <1>4, PushFits
<1>6. PICK new : Fits(new, Sent(chart, p.out), p.grid) /\ Holds(new, Append(m.read, line))
  BY <1>5
<1>7. p.grid \in Seq(BucketSet)
  BY <1>6, GridOf
<1> HIDE DEF p
<1>8. n.grid = p.grid /\ n.out = m.out \o p.out /\ n.read = Append(m.read, line)
  BY <1>5, <1>7, FoldedIs DEF line
<1> HIDE DEF n
<1>9. g > cl /\ wr \subseteq {g} => Sent(chart, p.out) = Sent(sh, n.out)
  BY <1>1, <1>2, <1>5, <1>8, SentInTwo
<1>10. Charts(g, n, sh, wr, cl)
  BY <1>6, <1>8, <1>9 DEF Charts
<1> QED
  BY <1>5, <1>7, <1>10 DEF n, p, line

LEMMA ChartsShipped ==
    ASSUME NEW g, NEW m \in Captures, NEW sh \in Seq(BucketSet), NEW wr, NEW cl, Charts(g, m, sh, wr, cl),
           NEW time \in Int, NEW pc \in {"poll", "done"}
    PROVE  LET p == AdvanceTo(m.grid, time)
               all == m.out \o p.out
           IN  /\ p.grid \in Seq(BucketSet) /\ p.out \in Seq(BucketSet) /\ all \in Seq(BucketSet)
               /\ Charts(g, Shipped(m, p, pc), Sent(sh, all), IF all = <<>> THEN wr ELSE wr \cup {g}, cl)
<1> DEFINE p == AdvanceTo(m.grid, time)
           all == m.out \o p.out
           wr2 == IF all = <<>> THEN wr ELSE wr \cup {g}
           n == Shipped(m, p, pc)
<1>1. PICK full, chart : /\ Fits(full, chart, m.grid) /\ Holds(full, m.read)
                         /\ g > cl /\ wr \subseteq {g} => chart = Sent(sh, m.out)
  BY DEF Charts
<1>2. m.out \in Seq(BucketSet)
  BY CaptureIs
<1>3. /\ p.out \in Seq(BucketSet)
      /\ \E new : Fits(new, Sent(chart, p.out), p.grid) /\ Holds(new, m.read)
  BY <1>1, AdvanceFits
<1>4. PICK new : Fits(new, Sent(chart, p.out), p.grid) /\ Holds(new, m.read)
  BY <1>3
<1>5. p.grid \in Seq(BucketSet)
  BY <1>4, GridOf
<1> HIDE DEF p
<1>6. n.grid = p.grid /\ n.out = <<>> /\ n.read = m.read
  BY <1>5, ShippedIs
<1>7. all \in Seq(BucketSet)
  <2> HIDE DEF BucketSet
  <2> QED
    BY <1>2, <1>3
<1>8. Sent(sh, all) = Sent(Sent(sh, m.out), p.out)
  BY <1>2, <1>3, SentInTwo
<1>9. Sent(sh, all) \in Seq(BucketSet) /\ Sent(Sent(sh, all), <<>>) = Sent(sh, all)
  <2> HIDE DEF all
  <2>1. Sent(sh, all) \in Seq(BucketSet)
    BY <1>7, SentTyped
  <2> QED
    BY <1>7, <2>1, SentTyped
<1>10. wr2 \subseteq {g} => wr \subseteq {g}
  OBVIOUS
<1> HIDE DEF n, all, wr2
<1>11. g > cl /\ wr2 \subseteq {g} => Sent(chart, p.out) = Sent(Sent(sh, all), n.out)
  BY <1>1, <1>6, <1>8, <1>9, <1>10
<1>12. Charts(g, n, Sent(sh, all), wr2, cl)
  BY <1>4, <1>6, <1>11 DEF Charts
<1> QED
  BY <1>3, <1>5, <1>7, <1>12 DEF n, p, all, wr2

LEMMA ChartsApart ==
    ASSUME NEW g, NEW h, g # h, NEW m, NEW sh \in Seq(BucketSet), NEW wr, NEW cl, Charts(g, m, sh, wr, cl),
           NEW all \in Seq(BucketSet)
    PROVE  Charts(g, m, Sent(sh, all), IF all = <<>> THEN wr ELSE wr \cup {h}, cl)
<1>1. CASE all = <<>>
  <2>1. Sent(sh, all) = sh
    BY <1>1, SentTyped
  <2> QED
    BY <1>1, <2>1
<1>2. CASE all # <<>>
  <2>1. ~(wr \cup {h} \subseteq {g})
    OBVIOUS
  <2> QED
    BY <1>2, <2>1 DEF Charts
<1> QED
  BY <1>1, <1>2

LEMMA ChartsSame ==
    ASSUME NEW g, NEW m, NEW n, NEW sh, NEW wr, NEW cl, Charts(g, m, sh, wr, cl),
           n.grid = m.grid, n.out = m.out, n.read = m.read
    PROVE  Charts(g, n, sh, wr, cl)
BY DEF Charts

LEMMA ChartsCleared ==
    ASSUME NEW g, NEW m, NEW sh, NEW wr, NEW cl, Charts(g, m, sh, wr, cl), NEW sh2, NEW wr2, NEW cl2, ~(g > cl2)
    PROVE  Charts(g, m, sh2, wr2, cl2)
BY DEF Charts

LEMMA ChartsBegun ==
    ASSUME NEW g \in Nat, NEW m, NEW sh, NEW wr, NEW cl, NEW time \in Int,
           m.grid = AdvanceTo(<<>>, time).grid, m.out = <<>>, m.read = <<>>,
           wr \subseteq {g} => sh = <<>>
    PROVE  Charts(g, m, sh, wr, cl) /\ m.grid \in Seq(BucketSet)
<1> DEFINE full == <<Empty(BucketStart(time))>>
<1>1. PICK t \in Int : BucketStart(time) = t * BucketSecs
  BY StartIs
<1>2. BucketSecs \in Nat \ {0}
  BY MeterAssumption
<1>3. t * BucketSecs \in Int
  BY <1>2, Ordered
<1>4. /\ Empty(BucketStart(time)) \in BucketSet /\ Empty(BucketStart(time)).start = t * BucketSecs
      /\ Empty(BucketStart(time)).lines = <<>>
  BY <1>1, <1>3, EmptyIs
<1>5. m.grid = full
  BY DEF AdvanceTo
<1>6. full \in Seq(BucketSet) /\ Len(full) = 1 /\ full[1] = Empty(BucketStart(time)) /\ <<>> \in Seq(BucketSet)
  <2> HIDE DEF BucketSet
  <2> QED
    BY <1>4
<1> HIDE DEF full
<1>7. Earliest(1) = 1
  <2>1. 1 \in Nat \ {0}
    OBVIOUS
  <2> QED
    BY <2>1, EarliestIs
<1>8. StartsAt(full, t - 1)
  <2>1. (t - 1) + 1 = t /\ t - 1 \in Int
    OBVIOUS
  <2> QED
    BY <1>4, <1>6, <2>1 DEF StartsAt
<1>9. Fits(full, <<>>, full)
  <2>1. Charted(full, <<>>)
    BY <1>6 DEF Charted
  <2>2. Keeps(full, full)
    BY <1>6, <1>7 DEF Keeps
  <2>3. full # <<>>
    <3>1. Len(<<>>) = 0 /\ Len(full) = 1
      BY <1>6
    <3> QED
      BY ONLY <3>1
  <2> QED
    BY <1>6, <1>8, <2>1, <2>2, <2>3, t - 1 \in Int DEF Fits
<1>10. Holds(full, <<>>)
  BY <1>4, <1>6 DEF Holds, InPlace
<1>11. wr \subseteq {g} => <<>> = Sent(sh, <<>>)
  BY <1>6, SentTyped
<1> QED
  BY <1>5, <1>6, <1>9, <1>10, <1>11 DEF Charts

LEMMA ChartsHonest ==
    ASSUME NEW g, NEW m \in Captures, NEW sh \in Seq(BucketSet), NEW wr, NEW cl, Charts(g, m, sh, wr, cl),
           m.out = <<>>, g > cl, wr = {g}
    PROVE  IsLog(sh \o <<Last(m.grid)>>, m.read)
<1>1. PICK full, chart : Fits(full, chart, m.grid) /\ Holds(full, m.read) /\ chart = Sent(sh, m.out)
  BY DEF Charts
<1>2. chart = sh
  BY <1>1, SentTyped
<1>3. m.read \in Seq(LineSet)
  BY CaptureIs
<1> QED
  BY <1>1, <1>2, <1>3, FitsIsLog

-----------------------------------------------------------------------------
(* One character's logs are followed: it is named (dps_start's character), *)
(* or nobody else has any (the single boxer of pick_newest_gamelog).  With *)
(* nobody named a log that is left for another's and taken up again is     *)
(* read from its beginning a second time.                                  *)
OneFollowed == Character # NoCharacter \/ \A f, g \in Files : Owner[f] = Owner[g]

(* The game's files: created in turn, and of each owner the newest is the  *)
(* one written last.                                                       *)
Logged == log \in Logs /\ half \in SUBSET Files /\ \A f \in half : log[f] # <<>>

Newest(last) == \A i, j \in 1..Len(last) : i < j /\ Owner[last[i]] = Owner[last[j]] => last[j] < last[i]

Known ==
    /\ created \in SUBSET Files /\ \A f \in created : \A g \in Files : g < f => g \in created
    /\ recent \in Seq(Files) /\ \A f : f \in created <=> \E i \in 1..Len(recent) : recent[i] = f
    /\ Newest(recent)

(* pick_newest_gamelog takes the newest of the logs it may follow.         *)
LEMMA SizeIs ==
    ASSUME Logged, NEW f \in Files
    PROVE  /\ Size(f) \in Nat /\ Size(f) <= 2 * Len(log[f])
           /\ Size(f) \div 2 \in Nat /\ Size(f) \div 2 <= Len(log[f])
<1>1. log[f] \in Seq(Int) /\ Len(log[f]) \in Nat
  BY FilesAre DEF Logged
<1>2. f \in half => Len(log[f]) # 0
  BY <1>1 DEF Logged
<1>3. Size(f) \in Nat /\ Size(f) <= 2 * Len(log[f])
  <2> DEFINE n == Len(log[f])
  <2>1. n \in Nat /\ (f \in half => n # 0)
    BY <1>1, <1>2
  <2>2. Size(f) = 2 * n - (IF f \in half THEN 1 ELSE 0)
    BY DEF Size
  <2> HIDE DEF n
  <2>3. CASE f \in half
    <3>1. Size(f) = 2 * n - 1 /\ n # 0
      BY <2>1, <2>2, <2>3
    <3>2. Size(f) \in Nat /\ Size(f) <= 2 * n
      BY ONLY <2>1, <3>1
    <3> QED
      BY <3>2 DEF n
  <2>4. CASE f \notin half
    <3>1. Size(f) = 2 * n - 0
      BY <2>2, <2>4
    <3>2. Size(f) \in Nat /\ Size(f) <= 2 * n
      BY ONLY <2>1, <3>1
    <3> QED
      BY <3>2 DEF n
  <2> QED
    BY <2>3, <2>4
<1> QED
  BY <1>1, <1>3, Halves

LEMMA PickIs ==
    ASSUME OneFollowed, Logged, Known
    PROVE  /\ Pick = 0 \/ (Pick \in created /\ IsFollowed(log, Pick))
           /\ \A f \in created : IsFollowed(log, f) => Pick # 0 /\ f <= Pick
<1> DEFINE mine == {i \in DOMAIN recent : Followed(recent[i])}
           i0 == CHOOSE i \in mine : \A j \in mine : i <= j
<1>1. DOMAIN recent = 1..Len(recent) /\ Len(recent) \in Nat /\ \A i \in 1..Len(recent) : recent[i] \in Files
  BY DEF Known
<1>2. \A f : Followed(f) <=> IsFollowed(log, f)
  BY DEF Followed, IsFollowed
<1>3. Pick = IF mine = {} THEN 0 ELSE recent[i0]
  BY DEF Pick
<1>4. \A i : i \in mine <=> i \in 1..Len(recent) /\ IsFollowed(log, recent[i])
  BY <1>1, <1>2
<1> HIDE DEF mine
<1>5. \A f \in created : IsFollowed(log, f) => \E j \in mine : recent[j] = f
  BY <1>4 DEF Known
<1>6. CASE mine = {}
  BY <1>3, <1>5, <1>6
<1>7. CASE mine # {}
  <2>1. mine \in SUBSET Nat
    BY <1>1, <1>4
  <2>2. \E i \in mine : \A j \in mine : i <= j
    BY <1>7, <2>1, LeastNatural
  <2>3. i0 \in mine /\ \A j \in mine : i0 <= j
    BY <2>2
  <2> HIDE DEF i0
  <2>4. Pick = recent[i0] /\ i0 \in 1..Len(recent) /\ IsFollowed(log, recent[i0]) /\ recent[i0] \in Files
    BY <1>1, <1>3, <1>4, <1>7, <2>3
  <2>5. Pick \in created /\ Pick \in Nat \ {0}
    BY <2>4, FilesAre DEF Known
  <2>6. ASSUME NEW f \in created, IsFollowed(log, f) PROVE f <= Pick
    <3>1. PICK j \in mine : recent[j] = f
      BY <1>5, <2>6
    <3>2. j \in 1..Len(recent) /\ IsFollowed(log, recent[j]) /\ recent[j] \in Files /\ recent[j] \in Nat
      BY <1>1, <1>4, FilesAre
    <3>3. Owner[recent[i0]] = Owner[recent[j]]
      BY <2>4, <3>2 DEF IsFollowed, OneFollowed
    <3>4. CASE i0 = j
      BY <2>4, <2>5, <3>1, <3>4
    <3>5. CASE i0 # j
      <4>1. i0 < j
        BY <2>3, <2>4, <3>2, <3>5
      <4>2. recent[j] < recent[i0]
        BY <2>4, <3>2, <3>3, <4>1 DEF Known, Newest
      <4> QED
        BY <2>4, <2>5, <3>1, <3>2, <4>2
    <3> QED
      BY <3>4, <3>5
  <2> QED
    BY <2>4, <2>5, <2>6
<1> QED
  BY <1>6, <1>7

LEMMA CreateKeeps ==
    ASSUME Logged, Known, NEW f \in Files, Create(f)
    PROVE  Known' /\ created \subseteq created'
<1> DEFINE s == <<f>> \o recent
<1>1. \A g \in Files : g \in Nat
  BY FilesAre
<1>2. /\ recent \in Seq(Files) /\ Len(recent) \in Nat /\ f \notin created
      /\ \A i \in 1..Len(recent) : recent[i] \in created
      /\ created' = created \cup {f} /\ recent' = s
  BY DEF Known, Create
<1>3. \A g \in created : g < f
  <2> SUFFICES ASSUME NEW g \in created PROVE g < f
    OBVIOUS
  <2>1. g \in Files /\ g # f /\ ~(f < g)
    BY <1>2 DEF Known
  <2> QED
    BY <1>1, <2>1
<1>4. /\ s \in Seq(Files) /\ Len(s) = Len(recent) + 1 /\ s[1] = f
      /\ \A i \in 1..Len(recent) : s[i + 1] = recent[i]
      /\ \A i \in 2..Len(recent) + 1 : s[i] = recent[i - 1]
  BY <1>2
<1> HIDE DEF s
<1>5. \A g : g \in created \cup {f} <=> \E i \in 1..Len(s) : s[i] = g
  <2>1. ASSUME NEW g \in created PROVE \E i \in 1..Len(s) : s[i] = g
    <3>1. PICK i \in 1..Len(recent) : recent[i] = g
      BY DEF Known
    <3>2. i + 1 \in 1..Len(s) /\ s[i + 1] = g
      BY <1>2, <1>4, <3>1
    <3> QED
      BY <3>2
  <2>2. 1 \in 1..Len(s)
    BY <1>2, <1>4
  <2>3. ASSUME NEW i \in 1..Len(s) PROVE s[i] \in created \cup {f}
    <3>1. CASE i = 1
      BY <1>4, <3>1
    <3>2. CASE i # 1
      <4>1. i \in 2..Len(recent) + 1 /\ i - 1 \in 1..Len(recent)
        BY <1>2, <1>4, <3>2
      <4>2. s[i] = recent[i - 1]
        BY <1>4, <4>1
      <4> QED
        BY <1>2, <4>1, <4>2
    <3> QED
      BY <3>1, <3>2
  <2> QED
    BY <1>4, <2>1, <2>2, <2>3
<1>6. Newest(s)
  <2> SUFFICES ASSUME NEW i \in 1..Len(s), NEW j \in 1..Len(s), i < j, Owner[s[i]] = Owner[s[j]]
               PROVE  s[j] < s[i]
    BY DEF Newest
  <2>1. j \in 2..Len(recent) + 1 /\ j - 1 \in 1..Len(recent) /\ s[j] = recent[j - 1]
    BY <1>2, <1>4
  <2>2. CASE i = 1
    BY <1>2, <1>3, <1>4, <2>1, <2>2
  <2>3. CASE i # 1
    <3>1. i \in 2..Len(recent) + 1 /\ i - 1 \in 1..Len(recent) /\ s[i] = recent[i - 1] /\ i - 1 < j - 1
      <4>1. Len(recent) \in Nat /\ Len(s) = Len(recent) + 1 /\ \A k \in 2..Len(recent) + 1 : s[k] = recent[k - 1]
        BY <1>2, <1>4
      <4>2. i \in 2..Len(recent) + 1 /\ i - 1 \in 1..Len(recent) /\ i - 1 < j - 1
        BY <2>3, <4>1
      <4> QED
        BY <4>1, <4>2
    <3> QED
      BY <2>1, <3>1 DEF Known, Newest
  <2> QED
    BY <2>2, <2>3
<1>7. ASSUME NEW g \in created \cup {f}, NEW h \in Files, h < g PROVE h \in created \cup {f}
  BY <1>7 DEF Known, Create
<1> QED
  BY <1>2, <1>4, <1>5, <1>6, <1>7 DEF Known

LEMMA WriteKeeps ==
    ASSUME Logged, Known, NEW f \in Files, Write(f)
    PROVE  Known'
<1> DEFINE s == MovedFirst(f)
           n == Len(recent)
           at == CHOOSE i \in DOMAIN recent : recent[i] = f
<1>1. /\ recent \in Seq(Files) /\ n \in Nat /\ DOMAIN recent = 1..n
      /\ \A i \in 1..n : recent[i] \in created /\ recent[i] \in Files /\ recent[i] \in Nat
      /\ f \in created /\ f \in Nat
  <2>1. recent \in Seq(Files) /\ n \in Nat /\ DOMAIN recent = 1..n /\ f \in created
    BY DEF Known, Write
  <2>2. \A i \in 1..n : recent[i] \in created
    BY DEF Known
  <2>3. \A g \in created : g \in Files /\ g \in Nat
    BY FilesAre DEF Known
  <2> QED
    BY <2>1, <2>2, <2>3
<1>2. at \in 1..n /\ recent[at] = f
  <2>1. \E i \in DOMAIN recent : recent[i] = f
    BY <1>1 DEF Known
  <2> QED
    BY <1>1, <2>1
<1>3. s = [i \in 1..n |-> IF i = 1 THEN f ELSE IF i <= at THEN recent[i - 1] ELSE recent[i]]
  BY <1>1 DEF MovedFirst
<1> HIDE DEF at
<1> DEFINE Was(i) == IF i = 1 THEN at ELSE IF i <= at THEN i - 1 ELSE i
<1>4. \A i \in 1..n : Was(i) \in 1..n /\ (i # 1 => Was(i) # at)
  BY <1>1, <1>2
<1>5. \A i \in 1..n : s[i] = recent[Was(i)]
  BY <1>2, <1>3
<1>6. \A i, j \in 1..n : i # 1 /\ i < j => Was(i) < Was(j)
  BY <1>1, <1>2
<1>7. \A j \in 1..n : \E i \in 1..n : Was(i) = j
  <2> SUFFICES ASSUME NEW j \in 1..n PROVE \E i \in 1..n : Was(i) = j
    OBVIOUS
  <2>1. CASE j = at
    <3>1. 1 \in 1..n /\ Was(1) = j
      BY <1>1, <2>1
    <3> QED
      BY <3>1
  <2>2. CASE j < at
    <3>1. j + 1 \in 1..n /\ Was(j + 1) = j
      BY <1>1, <1>2, <2>2
    <3> QED
      BY <3>1
  <2>3. CASE j > at
    <3>1. Was(j) = j
      BY <1>1, <1>2, <2>3
    <3> QED
      BY <3>1
  <2> QED
    BY <1>1, <1>2, <2>1, <2>2, <2>3
<1> HIDE DEF Was
<1>8. s \in Seq(Files) /\ Len(s) = n
  <2>1. s \in [1..n -> Files] /\ DOMAIN s = 1..n
    BY <1>1, <1>3, <1>4, <1>5
  <2> HIDE DEF s
  <2> QED
    BY <1>1, <2>1
<1> HIDE DEF s
<1>9. \A g : g \in created <=> \E i \in 1..Len(s) : s[i] = g
  <2>1. \A g : g \in created <=> \E j \in 1..n : recent[j] = g
    BY DEF Known
  <2>2. ASSUME NEW g \in created PROVE \E i \in 1..Len(s) : s[i] = g
    <3>1. PICK j \in 1..n : recent[j] = g
      BY <2>1
    <3>2. PICK i \in 1..n : Was(i) = j
      BY <1>7
    <3> QED
      BY <1>5, <1>8, <3>1, <3>2
  <2>3. ASSUME NEW i \in 1..Len(s) PROVE s[i] \in created
    <3>1. i \in 1..n
      BY <1>8
    <3> QED
      BY <1>1, <1>4, <1>5, <3>1
  <2> QED
    BY <2>2, <2>3
<1>10. Newest(s)
  <2> SUFFICES ASSUME NEW i \in 1..n, NEW j \in 1..n, i < j, Owner[s[i]] = Owner[s[j]]
               PROVE  s[j] < s[i]
    BY <1>8 DEF Newest
  <2>1. /\ s[i] = recent[Was(i)] /\ s[j] = recent[Was(j)] /\ Was(i) \in 1..n /\ Was(j) \in 1..n
    BY <1>4, <1>5
  <2>2. CASE i # 1
    BY <1>6, <2>1, <2>2 DEF Known, Newest
  <2>3. CASE i = 1
    <3>1. s[i] = f /\ Was(j) # at
      BY <1>1, <1>3, <1>4, <2>3 DEF s
    <3>2. s[j] \in created /\ s[j] <= f /\ s[j] \in Nat
      BY <1>1, <2>1, <3>1 DEF Write, Latest
    <3>3. s[j] # f
      <4>1. SUFFICES ASSUME s[j] = f PROVE FALSE
        OBVIOUS
      <4>2. recent[at] = recent[Was(j)]
        BY <1>2, <2>1, <4>1
      <4>3. at < Was(j) \/ Was(j) < at
        BY <1>2, <2>1, <3>1
      <4>4. recent[at] < recent[at]
        BY <1>2, <2>1, <4>2, <4>3 DEF Known, Newest
      <4> QED
        BY <1>1, <1>2, <4>4
    <3> QED
      BY <1>1, <3>1, <3>2, <3>3
  <2> QED
    BY <2>2, <2>3
<1>11. recent' = s /\ created' = created
  BY DEF Write, s
<1> QED
  BY <1>8, <1>9, <1>10, <1>11 DEF Known

-----------------------------------------------------------------------------
LEMMA OnlyGameWrites ==
    ASSUME [Next]_vars
    PROVE  (\E f \in Files : Create(f) \/ Write(f)) \/ UNCHANGED files
<1>1. CASE UNCHANGED vars
  BY <1>1 DEF vars, files
<1>2. ASSUME NEW f \in Files, AskPlayback(f) PROVE UNCHANGED files
  BY <1>2 DEF AskPlayback
<1>3. CASE Second \/ AskStart \/ Load \/ Start \/ Playback \/ Stop
  BY <1>3 DEF Second, AskStart, Load, Start, Playback, Stop
<1>4. ASSUME NEW b \in BOOLEAN, SetPaused(b) PROVE UNCHANGED files
  BY <1>4 DEF SetPaused
<1>5. ASSUME NEW g \in Gens, Loop(g) PROVE UNCHANGED files
  BY <1>5, Zenon DEF Loop, End, Live, Replay, Read, Fold, Ship
<1> QED
  BY <1>1, <1>2, <1>3, <1>4, <1>5 DEF Next

LEMMA LogsGrow ==
    ASSUME now \in Nat, Logged, Known, [Next]_vars
    PROVE  Logged' /\ Known' /\ Longer(log', log) /\ created \subseteq created'
<1>1. CASE UNCHANGED files
  <2>1. Logged' /\ Known'
    BY <1>1 DEF files, Logged, Known
  <2>2. Longer(log', log) /\ created \subseteq created'
    <3>1. \A f \in Files : Len(log[f]) <= Len(log[f])
      BY FilesAre DEF Logged
    <3> QED
      BY <1>1, <3>1 DEF files, Longer
  <2> QED
    BY <2>1, <2>2
<1>2. ASSUME NEW f \in Files, Create(f) PROVE Logged' /\ Known' /\ Longer(log', log) /\ created \subseteq created'
  <2>1. Known' /\ created \subseteq created'
    BY <1>2, CreateKeeps
  <2>2. log' = log /\ half' = half
    BY <1>2 DEF Create
  <2>3. \A g \in Files : Len(log[g]) <= Len(log[g])
    BY FilesAre DEF Logged
  <2> QED
    BY <2>1, <2>2, <2>3 DEF Logged, Longer
<1>3. ASSUME NEW f \in Files, Write(f) PROVE Logged' /\ Known' /\ Longer(log', log) /\ created \subseteq created'
  <2>1. Known' /\ created' = created
    BY <1>3, WriteKeeps DEF Write
  <2>2. \A g \in Files : log[g] \in Seq(Int) /\ Len(log[g]) \in Nat
    BY FilesAre DEF Logged
  <2>3. CASE log' = log /\ half' = half \ {f}
    BY <2>1, <2>2, <2>3 DEF Logged, Longer
  <2>4. ASSUME NEW lag \in Lags, log' = [log EXCEPT ![f] = Append(@, now - lag)], half' \in {half, half \cup {f}}
        PROVE  Logged' /\ Longer(log', log)
    <3>1. now - lag \in Int
      BY MeterAssumption
    <3>2. /\ log' = [log EXCEPT ![f] = Append(log[f], now - lag)]
          /\ log'[f] = Append(log[f], now - lag) /\ \A g \in Files : g # f => log'[g] = log[g]
      BY <2>4 DEF Logged, Logs
    <3>3. /\ Append(log[f], now - lag) \in Seq(Int) /\ Len(Append(log[f], now - lag)) = Len(log[f]) + 1
          /\ \A k \in 1..Len(log[f]) : Append(log[f], now - lag)[k] = log[f][k]
          /\ Append(log[f], now - lag) # <<>>
      <4>1. log[f] \in Seq(Int) /\ Len(log[f]) \in Nat
        BY <2>2
      <4> DEFINE old == log[f]
                 e == now - lag
      <4>2. old \in Seq(Int) /\ Len(old) \in Nat /\ e \in Int
        BY <3>1, <4>1
      <4> HIDE DEF old, e
      <4>3. Append(old, e) \in Seq(Int) /\ Len(Append(old, e)) = Len(old) + 1
        BY <4>2
      <4>4. \A k \in 1..Len(old) : Append(old, e)[k] = old[k]
        BY <4>2
      <4>5. Append(old, e) # <<>>
        BY <4>2, <4>3
      <4> QED
        BY <4>3, <4>4, <4>5 DEF old, e
    <3>4. log' \in Logs
      BY <3>2, <3>3 DEF Logged, Logs
    <3>5. Longer(log', log)
      <4> SUFFICES ASSUME NEW g \in Files
                   PROVE  Len(log[g]) <= Len(log'[g]) /\ \A k \in 1..Len(log[g]) : log'[g][k] = log[g][k]
        BY DEF Longer
      <4>1. CASE g = f
        BY <2>2, <3>2, <3>3, <4>1
      <4>2. CASE g # f
        BY <2>2, <3>2, <4>2
      <4> QED
        BY <4>1, <4>2
    <3>6. half' \in SUBSET Files /\ \A g \in half' : log'[g] # <<>>
      BY <2>4, <3>2, <3>3 DEF Logged
    <3> QED
      BY <3>4, <3>5, <3>6 DEF Logged
  <2>5. \/ log' = log /\ half' = half \ {f}
        \/ \E lag \in Lags : log' = [log EXCEPT ![f] = Append(@, now - lag)] /\ half' \in {half, half \cup {f}}
    BY <1>3 DEF Write
  <2>6. Logged' /\ Longer(log', log)
    BY <2>1, <2>2, <2>3, <2>4, <2>5 DEF Logged, Longer
  <2> QED
    BY <2>1, <2>6
<1> QED
  BY <1>1, <1>2, <1>3, OnlyGameWrites

(* What the user asked for and the backend has not begun.                  *)
Asked ==
    \/ request = Idle \/ request = [Idle EXCEPT !.kind = "live"]
    \/ \E f \in Files, seek \in Int : request = [kind |-> "load", seek |-> seek, lines |-> <<f>>]
    \/ \E lines \in Seq(LineSet), seek \in Int :
         lines # <<>> /\ Distinct(lines) /\ request = [kind |-> "replay", seek |-> seek, lines |-> lines]

LEMMA AskedKinds ==
    ASSUME Asked
    PROVE  /\ request.kind = "load" => request.seek \in Int /\ \E f \in Files : request.lines = <<f>>
           /\ request.kind = "replay" => /\ request.lines \in Seq(LineSet) /\ request.lines # <<>>
                                         /\ Distinct(request.lines) /\ request.seek \in Int
<1>1. CASE request = Idle \/ request = [Idle EXCEPT !.kind = "live"]
  BY <1>1 DEF Idle
<1>2. ASSUME NEW f \in Files, NEW seek \in Int, request = [kind |-> "load", seek |-> seek, lines |-> <<f>>]
      PROVE  request.kind = "load" /\ request.seek \in Int /\ request.lines = <<f>>
  BY <1>2
<1>3. ASSUME NEW lines \in Seq(LineSet), NEW seek \in Int, lines # <<>>, Distinct(lines),
             request = [kind |-> "replay", seek |-> seek, lines |-> lines]
      PROVE  request.kind = "replay" /\ request.lines = lines /\ request.seek \in Int
  BY <1>3
<1>4. CASE \E f \in Files, seek \in Int : request = [kind |-> "load", seek |-> seek, lines |-> <<f>>]
  BY <1>2, <1>4
<1>5. CASE \E lines \in Seq(LineSet), seek \in Int :
             lines # <<>> /\ Distinct(lines) /\ request = [kind |-> "replay", seek |-> seek, lines |-> lines]
  BY <1>3, <1>5
<1> QED
  BY <1>1, <1>4, <1>5 DEF Asked

LEMMA ReorderedDistinct ==
    ASSUME NEW s \in Seq(LineSet), NEW t, IsReordered(t, s), Distinct(s)
    PROVE  Distinct(t)
<1>1. PICK at \in [1..Len(s) -> 1..Len(s)] :
        /\ \A i \in 1..Len(s) : t[i] = s[at[i]]
        /\ \A i, j \in 1..Len(s) : at[i] = at[j] => i = j
  BY DEF IsReordered
<1>2. Len(t) = Len(s)
  BY DEF IsReordered
<1> SUFFICES ASSUME NEW i \in 1..Len(t), NEW j \in 1..Len(t), t[i] = t[j] PROVE i = j
  BY DEF Distinct
<1>3. i \in 1..Len(s) /\ j \in 1..Len(s) /\ at[i] \in 1..Len(s) /\ at[j] \in 1..Len(s)
  BY <1>1, <1>2
<1>4. at[i] = at[j]
  BY <1>1, <1>3 DEF Distinct
<1> QED
  BY <1>1, <1>3, <1>4

LEMMA LoadKeeps ==
    ASSUME Logged, Asked, Load
    PROVE  Asked'
<1>1. PICK f \in Files : request.lines = <<f>>
  BY AskedKinds DEF Load
<1> DEFINE whole == Lines(f, 1, Size(f) \div 2)
<1>2. /\ whole \in Seq(LineSet) /\ Distinct(whole)
  <2> DEFINE hi == Size(f) \div 2
  <2>1. log \in Logs /\ 1 \in Nat \ {0} /\ hi \in Int /\ hi <= Len(log[f])
    BY SizeIs DEF Logged
  <2>2. whole = Part(log, f, 1, hi)
    BY DEF Lines, Part, Line, LineIn
  <2> HIDE DEF hi, whole
  <2>3. whole \in Seq(LineSet) /\ \A i \in 1..Len(whole) : whole[i] = LineIn(log, f, 1 + i - 1)
    BY <2>1, <2>2, PartIs
  <2>4. \A k : LineIn(log, f, k).nr = k
    BY DEF LineIn
  <2>5. Distinct(whole)
    <3> SUFFICES ASSUME NEW i \in 1..Len(whole), NEW j \in 1..Len(whole), whole[i] = whole[j] PROVE i = j
      BY DEF Distinct
    <3>1. 1 + i - 1 = 1 + j - 1
      BY <2>3, <2>4
    <3>2. i \in Int /\ j \in Int
      BY <2>3
    <3> QED
      BY ONLY <3>1, <3>2
  <2> QED
    BY <2>3, <2>5
<1>3. InOrder(whole) \in Seq(LineSet) /\ Distinct(InOrder(whole)) /\ Len(InOrder(whole)) = Len(whole)
  <2>1. IsReordered(InOrder(whole), whole)
    BY <1>2, InOrderIs
  <2>2. InOrder(whole) \in Seq(LineSet) /\ Len(InOrder(whole)) = Len(whole)
    BY <2>1 DEF IsReordered
  <2> QED
    BY <1>2, <2>1, <2>2, ReorderedDistinct
<1>4. \/ request' = Idle
      \/ Len(whole) \in 1..MaxReplay /\ request' = [request EXCEPT !.kind = "replay", !.lines = InOrder(whole)]
  <2>1. request.lines[1] = f
    BY <1>1
  <2>2. request' = IF Len(whole) \in 1..MaxReplay
                   THEN [request EXCEPT !.kind = "replay", !.lines = InOrder(whole)] ELSE Idle
    BY <2>1 DEF Load
  <2> QED
    BY <2>2
<1>5. CASE request' = Idle
  BY <1>5 DEF Asked
<1>6. CASE Len(whole) \in 1..MaxReplay /\ request' = [request EXCEPT !.kind = "replay", !.lines = InOrder(whole)]
  <2> DEFINE lines == InOrder(whole)
  <2>1. lines # <<>> /\ lines \in Seq(LineSet) /\ Distinct(lines)
    <3>1. Len(<<>>) = 0
      OBVIOUS
    <3>2. Len(lines) = Len(whole) /\ Len(whole) \in 1..MaxReplay
      BY <1>3, <1>6
    <3> HIDE DEF lines, whole
    <3>3. lines # <<>>
      BY ONLY <3>1, <3>2
    <3> QED
      BY <1>3, <3>3 DEF lines
  <2> HIDE DEF whole, lines
  <2>2. PICK h \in Files, seek \in Int : request = [kind |-> "load", seek |-> seek, lines |-> <<h>>]
    BY DEF Asked, Load, Idle
  <2>3. request' = [kind |-> "replay", seek |-> seek, lines |-> lines]
    BY <1>6, <2>2 DEF lines
  <2> QED
    BY <2>1, <2>3 DEF Asked
<1> QED
  BY <1>4, <1>5, <1>6

LEMMA AskedKept ==
    ASSUME Logged, Known, Asked, [Next]_vars
    PROVE  Asked'
<1>1. CASE request' = request
  BY <1>1 DEF Asked, Idle
<1>2. CASE AskStart
  BY <1>2 DEF AskStart, Asked, Idle
<1>3. ASSUME NEW f \in Files, AskPlayback(f) PROVE Asked'
  <2>1. log[f] \in Seq(Int)
    BY FilesAre DEF Logged
  <2>2. PICK seek \in {0} \cup {log[f][k] : k \in DOMAIN log[f]} :
          request' = [kind |-> "load", seek |-> seek, lines |-> <<f>>]
    BY <1>3 DEF AskPlayback
  <2>3. seek \in Int
    BY <2>1, <2>2
  <2> QED
    BY <2>2, <2>3 DEF Asked
<1>4. CASE Load
  BY <1>4, LoadKeeps
<1>5. CASE Start \/ Playback
  BY <1>5 DEF Start, Playback, Claim, Asked
<1>6. request' = request \/ AskStart \/ (\E f \in Files : AskPlayback(f)) \/ Load \/ Start \/ Playback
  <2>1. CASE UNCHANGED vars
    BY <2>1 DEF vars
  <2>2. ASSUME NEW f \in Files, Create(f) \/ Write(f) PROVE request' = request
    BY <2>2 DEF Create, Write
  <2>3. CASE Second \/ Stop
    BY <2>3 DEF Second, Stop
  <2>4. ASSUME NEW b \in BOOLEAN, SetPaused(b) PROVE request' = request
    BY <2>4 DEF SetPaused
  <2>5. ASSUME NEW g \in Gens, Loop(g) PROVE request' = request
    BY <2>5, Zenon DEF Loop, End, Live, Replay, Read, Fold, Ship
  <2> QED
    BY <2>1, <2>2, <2>3, <2>4, <2>5 DEF Next
<1> QED
  BY <1>1, <1>2, <1>3, <1>4, <1>5, <1>6

-----------------------------------------------------------------------------
(* The captures that were begun, and who wrote to the chart.               *)
Counted ==
    /\ generation \in Nat /\ cleared \in Nat /\ cleared <= generation
    /\ writers \in SUBSET (1..generation) /\ (writers = {} => shown = <<>>)
    /\ shown \in Seq(BucketSet)
    /\ meter \in [Gens -> Captures \cup {Off}] /\ \A g \in Gens : g > generation => meter[g] = Off

Running ==
    \A g \in Gens : meter[g] # Off =>
      Reads(log, created, meter[g]) /\ Charts(g, meter[g], shown, writers, cleared)

MeterInv == now \in Nat /\ Logged /\ Known /\ Asked /\ Counted /\ Running

(* How a step may move the captures and the chart.                         *)
Rested ==
    /\ UNCHANGED <<meter, shown, writers, cleared>>
    /\ generation' \in Nat /\ generation <= generation'

Emptied ==
    /\ UNCHANGED <<files, generation, meter>>
    /\ shown' = <<>> /\ writers' = {} /\ cleared' = generation

Begun(n) ==
    /\ generation < MaxCaptures /\ generation' = generation + 1
    /\ meter' = [meter EXCEPT ![generation'] = n]
    /\ UNCHANGED <<files, shown, writers, cleared>>
    /\ Reads(log, created, n) /\ Charts(generation + 1, n, shown, writers, cleared)

Moved(g, n) ==
    /\ meter[g] # Off /\ meter' = [meter EXCEPT ![g] = n]
    /\ UNCHANGED <<files, generation, shown, writers, cleared>>
    /\ n = Off \/ (Reads(log, created, n) /\ Charts(g, n, shown, writers, cleared))

Told(g, n, all) ==
    /\ meter[g] # Off /\ meter' = [meter EXCEPT ![g] = n]
    /\ UNCHANGED <<files, generation, cleared>>
    /\ all \in Seq(BucketSet) /\ shown' = Sent(shown, all)
    /\ writers' = IF all = <<>> THEN writers ELSE writers \cup {g}
    /\ Reads(log, created, n) /\ Charts(g, n, shown', writers', cleared)

LEMMA OffIs == Off.pc = "ended" /\ Off.kind = "none"
BY DEF Off

LEMMA RestedKeeps ==
    ASSUME MeterInv, Rested, Logged', Known', Longer(log', log), created \subseteq created'
    PROVE  Counted' /\ Running'
<1>1. Counted'
  <2>1. /\ generation \in Nat /\ generation' \in Nat /\ generation <= generation' /\ cleared' = cleared
        /\ cleared \in Nat /\ cleared <= generation
    BY DEF MeterInv, Counted, Rested
  <2>2. writers' \in SUBSET (1..generation')
    BY <2>1 DEF MeterInv, Counted, Rested
  <2>3. shown' = shown /\ meter' = meter /\ writers' = writers
    BY DEF Rested
  <2>4. \A g \in Gens : g > generation' => g > generation
    BY <2>1 DEF Gens
  <2> QED
    BY <2>1, <2>2, <2>3, <2>4 DEF MeterInv, Counted
<1>2. Running'
  <2> SUFFICES ASSUME NEW g \in Gens, meter[g] # Off
               PROVE  Reads(log', created', meter[g]) /\ Charts(g, meter[g], shown, writers, cleared)
    BY DEF Running, Rested
  <2>1. Reads(log, created, meter[g]) /\ Charts(g, meter[g], shown, writers, cleared)
    BY DEF MeterInv, Running
  <2>2. log \in Logs /\ log' \in Logs /\ created \in SUBSET Files
    BY DEF MeterInv, Logged, Known
  <2> QED
    BY <2>1, <2>2, ReadsStay
<1> QED
  BY <1>1, <1>2

LEMMA EmptiedKeeps ==
    ASSUME MeterInv, Emptied
    PROVE  Counted' /\ Running'
<1>1. Counted'
  <2>1. <<>> \in Seq(BucketSet)
    OBVIOUS
  <2>2. generation \in Nat /\ generation <= generation
    BY DEF MeterInv, Counted
  <2> QED
    BY <2>1, <2>2 DEF MeterInv, Counted, Emptied
<1>2. Running'
  <2> SUFFICES ASSUME NEW g \in Gens, meter[g] # Off
               PROVE  Reads(log, created, meter[g]) /\ Charts(g, meter[g], <<>>, {}, generation)
    BY DEF Running, Emptied, files
  <2>1. Reads(log, created, meter[g]) /\ Charts(g, meter[g], shown, writers, cleared)
    BY DEF MeterInv, Running
  <2>2. ~(g > generation)
    BY DEF MeterInv, Counted
  <2> QED
    BY <2>1, <2>2, ChartsCleared
<1> QED
  BY <1>1, <1>2

LEMMA BegunKeeps ==
    ASSUME MeterInv, NEW n, Begun(n)
    PROVE  Counted' /\ Running'
<1>1. /\ generation \in Nat /\ generation' = generation + 1 /\ generation' \in Gens
      /\ meter \in [Gens -> Captures \cup {Off}]
  <2>1. MaxCaptures \in Nat
    BY MeterAssumption
  <2>2. /\ generation \in Nat /\ generation' = generation + 1 /\ generation < MaxCaptures
        /\ meter \in [Gens -> Captures \cup {Off}]
    BY DEF MeterInv, Counted, Begun
  <2>3. generation + 1 \in 1..MaxCaptures
    BY ONLY <2>1, <2>2
  <2> QED
    BY <2>2, <2>3 DEF Gens
<1>2. n \in Captures
  BY DEF Begun, Reads
<1>3. /\ meter' = [meter EXCEPT ![generation'] = n] /\ meter'[generation'] = n
      /\ \A g \in Gens : g # generation' => meter'[g] = meter[g]
  BY <1>1 DEF Begun
<1>4. meter' \in [Gens -> Captures \cup {Off}]
  BY <1>1, <1>2, <1>3
<1>5. Counted'
  <2>1. cleared' \in Nat /\ cleared' <= generation'
    BY <1>1 DEF MeterInv, Counted, Begun
  <2>2. writers' \in SUBSET (1..generation') /\ (writers' = {} => shown' = <<>>) /\ shown' \in Seq(BucketSet)
    BY <1>1 DEF MeterInv, Counted, Begun
  <2>3. \A g \in Gens : g > generation' => meter'[g] = Off
    BY <1>1, <1>3 DEF MeterInv, Counted, Gens
  <2> QED
    BY <1>1, <1>4, <2>1, <2>2, <2>3 DEF Counted
<1>6. Running'
  <2> SUFFICES ASSUME NEW g \in Gens, meter'[g] # Off
               PROVE  Reads(log, created, meter'[g]) /\ Charts(g, meter'[g], shown, writers, cleared)
    BY DEF Running, Begun, files
  <2>1. CASE g = generation'
    BY <1>1, <1>3, <2>1 DEF Begun
  <2>2. CASE g # generation'
    BY <1>3, <2>2 DEF MeterInv, Running
  <2> QED
    BY <2>1, <2>2
<1> QED
  BY <1>5, <1>6

LEMMA MovedKeeps ==
    ASSUME MeterInv, NEW g \in Gens, NEW n, Moved(g, n)
    PROVE  Counted' /\ Running'
<1>1. meter \in [Gens -> Captures \cup {Off}] /\ g <= generation /\ generation \in Nat
  BY DEF MeterInv, Counted, Moved, Gens
<1>2. n \in Captures \cup {Off}
  BY DEF Moved, Reads
<1>3. /\ meter' = [meter EXCEPT ![g] = n] /\ meter'[g] = n
      /\ \A h \in Gens : h # g => meter'[h] = meter[h]
  BY <1>1 DEF Moved
<1>4. meter' \in [Gens -> Captures \cup {Off}]
  BY <1>1, <1>2, <1>3
<1>5. Counted'
  <2>1. \A h \in Gens : h > generation' => meter'[h] = Off
    BY <1>1, <1>3 DEF MeterInv, Counted, Gens, Moved
  <2> QED
    BY <1>4, <2>1 DEF MeterInv, Counted, Moved
<1>6. Running'
  <2> SUFFICES ASSUME NEW h \in Gens, meter'[h] # Off
               PROVE  Reads(log, created, meter'[h]) /\ Charts(h, meter'[h], shown, writers, cleared)
    BY DEF Running, Moved, files
  <2>1. CASE h = g
    BY <1>3, <2>1 DEF Moved
  <2>2. CASE h # g
    BY <1>3, <2>2 DEF MeterInv, Running
  <2> QED
    BY <2>1, <2>2
<1> QED
  BY <1>5, <1>6

LEMMA ToldKeeps ==
    ASSUME MeterInv, NEW g \in Gens, NEW n, NEW all, Told(g, n, all)
    PROVE  Counted' /\ Running'
<1>1. /\ meter \in [Gens -> Captures \cup {Off}] /\ g <= generation /\ generation \in Nat
      /\ g \in 1..generation /\ shown \in Seq(BucketSet)
  BY DEF MeterInv, Counted, Told, Gens
<1>2. n \in Captures
  BY DEF Told, Reads
<1>3. /\ meter' = [meter EXCEPT ![g] = n] /\ meter'[g] = n
      /\ \A h \in Gens : h # g => meter'[h] = meter[h]
  BY <1>1 DEF Told
<1>4. meter' \in [Gens -> Captures \cup {Off}]
  BY <1>1, <1>2, <1>3
<1>5. shown' \in Seq(BucketSet)
  BY <1>1, SentTyped DEF Told
<1>6. writers' = {} => shown' = <<>>
  <2> SUFFICES ASSUME writers' = {} PROVE shown' = <<>>
    OBVIOUS
  <2>1. all = <<>> /\ writers = {}
    BY DEF Told
  <2>2. shown' = Sent(<<>>, <<>>) /\ <<>> \in Seq(BucketSet)
    BY <2>1 DEF Told, MeterInv, Counted
  <2> QED
    BY <2>2, SentTyped
<1>7. Counted'
  <2>1. \A h \in Gens : h > generation' => meter'[h] = Off
    BY <1>1, <1>3 DEF MeterInv, Counted, Gens, Told
  <2>2. writers' \in SUBSET (1..generation') /\ cleared' = cleared /\ generation' = generation
    BY <1>1 DEF MeterInv, Counted, Told
  <2> QED
    BY <1>4, <1>5, <1>6, <2>1, <2>2 DEF MeterInv, Counted
<1>8. Running'
  <2> SUFFICES ASSUME NEW h \in Gens, meter'[h] # Off
               PROVE  Reads(log, created, meter'[h]) /\ Charts(h, meter'[h], shown', writers', cleared)
    BY DEF Running, Told, files
  <2>1. CASE h = g
    BY <1>3, <2>1 DEF Told
  <2>2. CASE h # g
    <3>1. Reads(log, created, meter[h]) /\ Charts(h, meter[h], shown, writers, cleared) /\ meter'[h] = meter[h]
      BY <1>3, <2>2 DEF MeterInv, Running
    <3>2. Charts(h, meter[h], Sent(shown, all), IF all = <<>> THEN writers ELSE writers \cup {g}, cleared)
      BY <1>1, <2>2, <3>1, ChartsApart DEF Told
    <3> QED
      BY <3>1, <3>2 DEF Told
  <2> QED
    BY <2>1, <2>2
<1> QED
  BY <1>7, <1>8

-----------------------------------------------------------------------------
(* Each action of a loop is a step of its record.                          *)
LEMMA RunningIs ==
    ASSUME MeterInv, NEW g \in Gens, meter[g].pc # "ended"
    PROVE  /\ meter[g] # Off /\ meter[g] \in Captures /\ meter[g].pc # "ended"
           /\ Reads(log, created, meter[g]) /\ Charts(g, meter[g], shown, writers, cleared)
           /\ log \in Logs /\ created \in SUBSET Files /\ shown \in Seq(BucketSet)
BY OffIs DEF MeterInv, Running, Reads, Logged, Known, Counted

LEMMA LiveMoves ==
    ASSUME OneFollowed, MeterInv, NEW g \in Gens, Live(g)
    PROVE  \E n : Moved(g, n)
<1> DEFINE m == meter[g]
           tick == (m.tick + 1) % RescanTicks
           switch == (m.file = 0 \/ tick = 0) /\ Pick # 0 /\ Pick # m.file
           file == IF switch THEN Pick ELSE m.file
           offset == IF switch THEN 0 ELSE m.offset
           from == IF switch THEN 0 ELSE m.from
           n == Looked(m, tick, file, offset, from)
<1>1. m.pc = "poll" /\ m.kind = "live"
  BY DEF Live, Goes
<1>2. /\ m # Off /\ m \in Captures /\ Reads(log, created, m) /\ Charts(g, m, shown, writers, cleared)
      /\ log \in Logs /\ created \in SUBSET Files
  BY <1>1, RunningIs
<1>3. tick \in Nat /\ m.file \in Files \cup {0} /\ m.offset \in Nat /\ m.from \in Nat
  <2>1. m.tick \in Nat /\ m.file \in Files \cup {0} /\ m.offset \in Nat /\ m.from \in Nat
    BY <1>2, CaptureIs
  <2>2. RescanTicks \in Nat \ {0}
    BY MeterAssumption
  <2> QED
    BY <2>1, <2>2
<1>4. meter' = [meter EXCEPT ![g] = n]
  <2>1. meter \in [Gens -> Captures \cup {Off}]
    BY DEF MeterInv, Counted
  <2>2. meter' = [meter EXCEPT ![g].tick = tick, ![g].pc = "read",
                     ![g].file = IF switch THEN Pick ELSE @,
                     ![g].offset = IF switch THEN 0 ELSE @,
                     ![g].from = IF switch THEN 0 ELSE @]
    BY DEF Live
  <2> HIDE DEF tick, switch
  <2> QED
    BY <1>2, <2>1, <2>2 DEF Looked, Captures
<1>5. \/ file = m.file /\ offset = m.offset /\ from = m.from
      \/ file \in created /\ IsFollowed(log, file) /\ m.file < file /\ offset = 0 /\ from = 0
  <2>1. CASE ~switch
    BY <2>1
  <2>2. CASE switch
    <3>1. /\ Pick \in created /\ IsFollowed(log, Pick)
          /\ \A f \in created : IsFollowed(log, f) => f <= Pick
      BY <2>2, PickIs DEF MeterInv
    <3>2. Pick \in Nat \ {0} /\ (m.file # 0 => m.file \in Nat)
      BY <1>2, <1>3, <3>1, FilesAre
    <3>3. m.file # 0 => m.file \in created /\ IsFollowed(log, m.file)
      BY <1>1, <1>2 DEF Reads, Follows
    <3>4. m.file < Pick
      BY <2>2, <3>1, <3>2, <3>3
    <3> QED
      BY <2>2, <3>1, <3>4
  <2> QED
    BY <2>1, <2>2
<1> HIDE DEF tick, file, offset, from
<1>6. Reads(log, created, n)
  BY <1>1, <1>2, <1>3, <1>5, ReadsLooked
<1>7. n.grid = m.grid /\ n.out = m.out /\ n.read = m.read
  BY <1>2 DEF Looked, Captures
<1> HIDE DEF n
<1>8. Charts(g, n, shown, writers, cleared)
  BY <1>2, <1>7, ChartsSame
<1>9. UNCHANGED <<files, generation, shown, writers, cleared>>
  BY DEF Live
<1> QED
  BY <1>2, <1>4, <1>6, <1>8, <1>9 DEF Moved

LEMMA ReadMoves ==
    ASSUME MeterInv, NEW g \in Gens, Read(g)
    PROVE  \E n : Moved(g, n)
<1> DEFINE m == meter[g]
           a == Appended(m.file, m.offset)
           n == Taken(m, a.next, a.lines)
<1>1. m.pc = "read"
  BY DEF Read
<1>2. /\ m # Off /\ m \in Captures /\ Reads(log, created, m) /\ Charts(g, m, shown, writers, cleared)
      /\ log \in Logs /\ created \in SUBSET Files
  BY <1>1, RunningIs
<1>3. m.file \in Files \cup {0} /\ m.offset \in Nat
  BY <1>2, CaptureIs
<1>4. IsAppended(log, m, a.next, a.lines)
  <2>1. CASE m.file = 0
    BY <2>1 DEF Appended, IsAppended
  <2>2. CASE m.file # 0
    <3> DEFINE upto == Size(m.file) \div 2
    <3>1. upto \in Nat /\ upto <= Len(log[m.file])
      BY <1>3, <2>2, SizeIs DEF MeterInv
    <3>2. a = IF 2 * upto <= m.offset THEN [lines |-> <<>>, next |-> m.offset]
              ELSE [lines |-> Lines(m.file, (m.offset + 1) \div 2 + 1, upto), next |-> 2 * upto]
      BY <2>2 DEF Appended
    <3>3. Lines(m.file, (m.offset + 1) \div 2 + 1, upto) = Part(log, m.file, (m.offset + 1) \div 2 + 1, upto)
      BY DEF Lines, Part, Line, LineIn
    <3> HIDE DEF upto, a
    <3> QED
      BY <2>2, <3>1, <3>2, <3>3 DEF IsAppended
  <2> QED
    BY <2>1, <2>2
<1>5. meter' = [meter EXCEPT ![g] = n]
  <2>1. meter \in [Gens -> Captures \cup {Off}]
    BY DEF MeterInv, Counted
  <2>2. meter' = [meter EXCEPT ![g].pc = "fold", ![g].offset = a.next, ![g].batch = a.lines]
    BY DEF Read
  <2> HIDE DEF a
  <2> QED
    BY <1>2, <2>1, <2>2 DEF Taken, Captures
<1> HIDE DEF a
<1>6. Reads(log, created, n)
  BY <1>1, <1>2, <1>4, ReadsTaken
<1>7. n.grid = m.grid /\ n.out = m.out /\ n.read = m.read
  BY <1>2 DEF Taken, Captures
<1> HIDE DEF n
<1>8. Charts(g, n, shown, writers, cleared)
  BY <1>2, <1>7, ChartsSame
<1>9. UNCHANGED <<files, generation, shown, writers, cleared>>
  BY DEF Read
<1> QED
  BY <1>2, <1>5, <1>6, <1>8, <1>9 DEF Moved

LEMMA ReplayMoves ==
    ASSUME MeterInv, NEW g \in Gens, Replay(g)
    PROVE  \E n : Moved(g, n)
<1> DEFINE m == meter[g]
<1>1. m.pc = "poll" /\ m.kind = "replay"
  BY DEF Replay, Goes
<1>2. /\ m # Off /\ m \in Captures /\ Reads(log, created, m) /\ Charts(g, m, shown, writers, cleared)
      /\ log \in Logs /\ created \in SUBSET Files
  BY <1>1, RunningIs
<1>3. m.lines \in Seq(LineSet) /\ m.idx \in Nat /\ m.vt \in Int
  BY <1>2, CaptureIs
<1> DEFINE Due2(step) == Cardinality({i \in DOMAIN m.lines : m.lines[i].ts <= m.vt + step})
<1>4. PICK step \in 1..MaxStep :
        meter' = [meter EXCEPT ![g].pc = "fold", ![g].vt = @ + step,
                    ![g].batch = SubSeq(m.lines, m.idx + 1, Due2(step)),
                    ![g].idx = IF Due2(step) > @ THEN Due2(step) ELSE @]
  BY DEF Replay
<1> DEFINE due == Due2(step)
           batch == SubSeq(m.lines, m.idx + 1, due)
           idx == IF due > m.idx THEN due ELSE m.idx
           n == Passed(m, m.vt + step, batch, idx)
<1>5. due \in Nat /\ due <= Len(m.lines) /\ m.vt + step \in Int
  <2> DEFINE S == {i \in DOMAIN m.lines : m.lines[i].ts <= m.vt + step}
  <2>1. DOMAIN m.lines = 1..Len(m.lines) /\ Len(m.lines) \in Nat /\ S \in SUBSET (1..Len(m.lines))
    BY <1>3, LinesOf
  <2>2. IsFiniteSet(1..Len(m.lines)) /\ Cardinality(1..Len(m.lines)) = Len(m.lines)
    BY ONLY <2>1, UpToFinite
  <2> HIDE DEF S
  <2>3. IsFiniteSet(S) /\ Cardinality(S) <= Len(m.lines)
    <3> DEFINE T == 1..Len(m.lines)
    <3>1. IsFiniteSet(T) /\ S \in SUBSET T /\ Cardinality(T) = Len(m.lines)
      BY <2>1, <2>2
    <3> HIDE DEF T
    <3> QED
      BY ONLY <3>1, FS_Subset
  <2>4. Cardinality(S) \in Nat
    BY <2>3, FS_CardinalityType
  <2> QED
    BY <1>3, <2>3, <2>4 DEF S
<1> HIDE DEF Due2
<1>6. meter' = [meter EXCEPT ![g] = n]
  <2>1. meter \in [Gens -> Captures \cup {Off}]
    BY DEF MeterInv, Counted
  <2> QED
    BY <1>2, <1>4, <2>1 DEF Passed, Captures
<1> HIDE DEF due
<1>7. Reads(log, created, n)
  BY <1>1, <1>2, <1>5, ReadsPassed
<1>8. n.grid = m.grid /\ n.out = m.out /\ n.read = m.read
  BY <1>2 DEF Passed, Captures
<1> HIDE DEF n
<1>9. Charts(g, n, shown, writers, cleared)
  BY <1>2, <1>8, ChartsSame
<1>10. UNCHANGED <<files, generation, shown, writers, cleared>>
  BY DEF Replay
<1> QED
  BY <1>2, <1>6, <1>7, <1>9, <1>10 DEF Moved

LEMMA FoldMoves ==
    ASSUME MeterInv, NEW g \in Gens, Fold(g)
    PROVE  \E n : Moved(g, n)
<1> DEFINE m == meter[g]
           p == Push(m.grid, Head(m.batch))
           n == Folded(m, p)
<1>1. m.pc = "fold" /\ m.batch # <<>>
  BY DEF Fold
<1>2. /\ m # Off /\ m \in Captures /\ Reads(log, created, m) /\ Charts(g, m, shown, writers, cleared)
      /\ log \in Logs /\ created \in SUBSET Files /\ shown \in Seq(BucketSet)
  BY <1>1, RunningIs
<1>3. Distinct(Got(m))
  BY <1>2 DEF Reads, Rests
<1>4. p.grid \in Seq(BucketSet) /\ p.out \in Seq(BucketSet) /\ Charts(g, n, shown, writers, cleared)
  BY <1>1, <1>2, <1>3, ChartsFolded
<1>5. meter' = [meter EXCEPT ![g] = n]
  <2>1. meter \in [Gens -> Captures \cup {Off}]
    BY DEF MeterInv, Counted
  <2>2. meter' = [meter EXCEPT ![g].grid = p.grid, ![g].out = @ \o p.out,
                     ![g].batch = Tail(@), ![g].read = Append(@, Head(m.batch))]
    BY DEF Fold
  <2> HIDE DEF p
  <2> QED
    BY <1>2, <2>1, <2>2 DEF Folded, Captures
<1> HIDE DEF p
<1>6. Reads(log, created, n)
  BY <1>1, <1>2, <1>4, ReadsFolded
<1>7. UNCHANGED <<files, generation, shown, writers, cleared>>
  BY DEF Fold
<1> QED
  BY <1>2, <1>4, <1>5, <1>6, <1>7 DEF Moved

LEMMA ShipTells ==
    ASSUME MeterInv, NEW g \in Gens, Ship(g)
    PROVE  \E n, all : Told(g, n, all)
<1> DEFINE m == meter[g]
           time == IF m.kind = "live" THEN now - Grace ELSE m.vt
           p == AdvanceTo(m.grid, time)
           all == m.out \o p.out
           pc == IF m.kind # "live" /\ m.vt > Last(m.lines).ts + BucketSecs THEN "done" ELSE "poll"
           n == Shipped(m, p, pc)
<1>1. m.pc = "fold" /\ m.batch = <<>>
  BY DEF Ship
<1>2. /\ m # Off /\ m \in Captures /\ Reads(log, created, m) /\ Charts(g, m, shown, writers, cleared)
      /\ log \in Logs /\ created \in SUBSET Files /\ shown \in Seq(BucketSet)
  BY <1>1, RunningIs
<1>3. time \in Int
  <2>1. now \in Nat /\ Grace \in Nat /\ m.vt \in Int
    BY <1>2, CaptureIs, MeterAssumption DEF MeterInv
  <2> QED
    BY <2>1
<1>4. pc \in {"poll", "done"}
  OBVIOUS
<1>5. /\ meter' = [meter EXCEPT ![g].grid = p.grid, ![g].out = <<>>, ![g].pc = pc]
      /\ shown' = Sent(shown, all)
      /\ writers' = IF all = <<>> THEN writers ELSE writers \cup {g}
  BY DEF Ship, Send
<1> HIDE DEF time, pc
<1>6. /\ p.grid \in Seq(BucketSet) /\ p.out \in Seq(BucketSet) /\ all \in Seq(BucketSet)
      /\ Charts(g, n, Sent(shown, all), IF all = <<>> THEN writers ELSE writers \cup {g}, cleared)
  BY <1>2, <1>3, <1>4, ChartsShipped
<1> HIDE DEF p, all
<1>7. meter' = [meter EXCEPT ![g] = n]
  <2>1. meter \in [Gens -> Captures \cup {Off}]
    BY DEF MeterInv, Counted
  <2> QED
    BY <1>2, <1>5, <2>1 DEF Shipped, Captures
<1>8. Reads(log, created, n)
  BY <1>1, <1>2, <1>4, <1>6, ReadsShipped
<1> HIDE DEF n
<1>9. UNCHANGED <<files, generation, cleared>>
  BY DEF Ship
<1> QED
  BY <1>2, <1>5, <1>6, <1>7, <1>8, <1>9 DEF Told

-----------------------------------------------------------------------------
(* Before it is begun a capture is a record all the same.                  *)
Records ==
    [kind : {"none", "live", "replay"}, pc : {"ended", "poll", "read", "fold", "done"},
     file : Files \cup {0}, from : Nat, offset : Nat, tick : Nat,
     lines : Seq(LineSet), idx : Nat, vt : Int,
     grid : Seq(BucketSet), batch : Seq(LineSet), out : Seq(BucketSet), read : Seq(LineSet)]

LEMMA OffIsRecord ==
    Off \in Records /\ Off.batch = <<>> /\ Off.out = <<>> /\ Off.read = <<>>
<1>1. <<>> \in Seq(LineSet) /\ <<>> \in Seq(BucketSet)
  OBVIOUS
<1> HIDE DEF LineSet, BucketSet
<1> QED
  BY <1>1 DEF Off, Records

LEMMA StartBegins ==
    ASSUME OneFollowed, MeterInv, Start
    PROVE  \E n : Begun(n)
<1> DEFINE at == IF Pick = 0 THEN 0 ELSE Size(Pick)
           grid == AdvanceTo(<<>>, now - Grace).grid
           n == [Off EXCEPT !.kind = "live", !.pc = "poll", !.file = Pick, !.from = at, !.offset = at, !.grid = grid]
<1>1. /\ generation < MaxCaptures /\ generation' = generation + 1 /\ meter' = [meter EXCEPT ![generation'] = n]
      /\ UNCHANGED <<files, shown, cleared, writers>>
  BY DEF Start, Claim
<1>2. /\ generation \in Nat /\ writers \in SUBSET (1..generation) /\ (writers = {} => shown = <<>>)
      /\ log \in Logs /\ created \in SUBSET Files /\ Logged /\ Known
  BY DEF MeterInv, Counted, Logged, Known
<1>3. now - Grace \in Int
  BY MeterAssumption DEF MeterInv
<1>4. Pick = 0 \/ (Pick \in created /\ Pick \in Files /\ Pick \in Nat \ {0} /\ IsFollowed(log, Pick))
  BY <1>2, PickIs, FilesAre
<1>5. at \in Nat /\ (Pick # 0 => at <= 2 * Len(log[Pick]) /\ at \div 2 <= Len(log[Pick]))
  BY <1>2, <1>4, SizeIs
<1> HIDE DEF at, grid
<1>6. /\ n.kind = "live" /\ n.pc = "poll" /\ n.file = Pick /\ n.from = at /\ n.offset = at /\ n.grid = grid
      /\ n.batch = <<>> /\ n.out = <<>> /\ n.read = <<>>
  <2> HIDE DEF LineSet, BucketSet
  <2> QED
    BY OffIsRecord DEF Records
<1>7. generation + 1 \in Nat /\ (writers \subseteq {generation + 1} => shown = <<>>)
  BY <1>2
<1>b. grid \in Seq(BucketSet) => n \in Captures
  <2>1. Pick \in Files \cup {0}
    BY <1>4
  <2> HIDE DEF LineSet, BucketSet
  <2> QED
    BY <1>5, <2>1, OffIsRecord DEF Records, Captures
<1> HIDE DEF n
<1>8. Charts(generation + 1, n, shown, writers, cleared) /\ n.grid \in Seq(BucketSet)
  BY <1>3, <1>6, <1>7, ChartsBegun DEF grid
<1>9. n \in Captures
  BY <1>6, <1>8, <1>b
<1>10. Got(n) = <<>> /\ Distinct(<<>>) /\ <<>> \in Seq(LineSet)
  BY <1>6 DEF Got, Distinct
<1>11. Follows(log, created, n)
  <2>1. CASE Pick = 0
    BY <1>6, <1>10, <2>1 DEF Follows
  <2>2. CASE Pick # 0
    <3> DEFINE lo == (at + 1) \div 2 + 1
               hi == at \div 2
    <3>1. lo \in Nat \ {0} /\ hi \in Int /\ hi < lo /\ hi <= Len(log[Pick])
      BY <1>5, <2>2, Halves
    <3>2. Due(log, n) = Part(log, Pick, lo, hi)
      BY <1>6 DEF Due
    <3> HIDE DEF lo, hi
    <3>3. Due(log, n) = <<>>
      BY <1>2, <1>4, <2>2, <3>1, <3>2, PartIs
    <3>4. <<>> \in Seq(LineSet) /\ Got(n) = <<>> \o Due(log, n) /\ 1..Len(<<>>) = {}
      BY <1>10, <3>3
    <3>5. \E b \in Seq(LineSet) : Got(n) = b \o Due(log, n) /\ \A i \in 1..Len(b) : b[i].file < n.file
      BY <3>4
    <3>6. n.file \in created /\ IsFollowed(log, n.file) /\ n.from <= n.offset /\ n.offset <= 2 * Len(log[n.file])
      BY <1>4, <1>5, <1>6, <2>2
    <3> QED
      BY <1>6, <2>2, <3>5, <3>6 DEF Follows
  <2> QED
    BY <2>1, <2>2
<1>12. Reads(log, created, n)
  BY <1>6, <1>9, <1>10, <1>11 DEF Reads, Rests
<1> QED
  BY <1>1, <1>8, <1>12 DEF Begun

LEMMA PlaybackBegins ==
    ASSUME MeterInv, Playback
    PROVE  \E n : Begun(n)
<1> DEFINE lines == request.lines
           s == SeekStart(lines, request.seek)
           grid == AdvanceTo(<<>>, s.at).grid
           n == [Off EXCEPT !.kind = "replay", !.pc = "poll", !.lines = lines,
                   !.from = s.idx, !.idx = s.idx, !.vt = s.at, !.grid = grid]
<1>1. /\ generation < MaxCaptures /\ generation' = generation + 1 /\ meter' = [meter EXCEPT ![generation'] = n]
      /\ UNCHANGED <<files, shown, cleared, writers>>
  BY DEF Playback, Claim
<1>2. /\ generation \in Nat /\ writers \in SUBSET (1..generation) /\ (writers = {} => shown = <<>>)
  BY DEF MeterInv, Counted
<1>3. lines \in Seq(LineSet) /\ lines # <<>> /\ Distinct(lines) /\ request.seek \in Int
  BY AskedKinds DEF MeterInv, Playback
<1>4. s.at \in Int /\ s.idx \in Nat /\ s.idx <= Len(lines)
  <2> DEFINE seek == request.seek
             at == IF seek = 0 \/ seek < Head(lines).ts THEN Head(lines).ts
                   ELSE IF seek > Last(lines).ts THEN Last(lines).ts ELSE seek
             S == {i \in DOMAIN lines : lines[i].ts <= at}
  <2>1. DOMAIN lines = 1..Len(lines) /\ Len(lines) \in Nat \ {0} /\ \A i \in 1..Len(lines) : lines[i].ts \in Int
    <3>1. Len(lines) # 0
      <4> HIDE DEF LineSet, lines
      <4> QED
        BY <1>3
    <3> QED
      BY <1>3, <3>1, LinesOf
  <2>2. Head(lines) = lines[1] /\ Last(lines) = lines[Len(lines)]
    BY <1>3 DEF Last
  <2>3. at \in Int
    BY <1>3, <2>1, <2>2
  <2>4. S \in SUBSET (1..Len(lines))
    BY <2>1
  <2>5. IsFiniteSet(1..Len(lines)) /\ Cardinality(1..Len(lines)) = Len(lines)
    BY <2>1, UpToFinite
  <2>6. s = [at |-> at, idx |-> Cardinality(S)]
    BY DEF SeekStart
  <2> HIDE DEF S, at, s, lines
  <2>7. Cardinality(S) \in Nat /\ Cardinality(S) <= Len(lines)
    <3> DEFINE D == 1..Len(lines)
    <3>1. S \in SUBSET D /\ IsFiniteSet(D) /\ Cardinality(D) = Len(lines)
      BY <2>4, <2>5
    <3> HIDE DEF D
    <3>2. IsFiniteSet(S) /\ Cardinality(S) <= Cardinality(D)
      BY <3>1, FS_Subset
    <3> QED
      BY <3>1, <3>2, FS_CardinalityType
  <2> QED
    BY <2>3, <2>6, <2>7
<1> HIDE DEF s, lines, grid
<1>5. /\ n.kind = "replay" /\ n.pc = "poll" /\ n.from = s.idx /\ n.idx = s.idx /\ n.grid = grid
      /\ n.lines = lines /\ n.batch = <<>> /\ n.out = <<>> /\ n.read = <<>>
  <2> HIDE DEF LineSet, BucketSet
  <2> QED
    BY OffIsRecord DEF Records
<1>b. grid \in Seq(BucketSet) => n \in Captures
  <2> HIDE DEF LineSet, BucketSet
  <2> QED
    BY <1>3, <1>4, OffIsRecord DEF Records, Captures
<1> HIDE DEF n
<1>6. generation + 1 \in Nat /\ (writers \subseteq {generation + 1} => shown = <<>>)
  BY <1>2
<1>7. Charts(generation + 1, n, shown, writers, cleared) /\ n.grid \in Seq(BucketSet)
  BY <1>4, <1>5, <1>6, ChartsBegun DEF grid
<1>8. n \in Captures
  BY <1>5, <1>7, <1>b
<1>9. Got(n) = <<>> /\ Distinct(<<>>)
  BY <1>5 DEF Got, Distinct
<1>10. SubSeq(lines, s.idx + 1, s.idx) = <<>>
  <2> HIDE DEF LineSet
  <2> QED
    BY <1>3, <1>4
<1>11. Replays(n)
  BY <1>3, <1>4, <1>5, <1>9, <1>10 DEF Replays
<1>12. Reads(log, created, n)
  BY <1>5, <1>8, <1>9, <1>11 DEF Reads, Rests
<1> QED
  BY <1>1, <1>7, <1>12 DEF Begun

LEMMA MeterStarts ==
    ASSUME Init
    PROVE  MeterInv
<1>1. Logged
  <2>1. [f \in Files |-> <<>>] \in Logs
    BY DEF Logs
  <2> QED
    BY <2>1 DEF Init, Logged
<1>2. Known
  BY DEF Init, Known, Newest
<1>3. Asked
  BY DEF Init, Asked
<1>4. Counted
  <2>1. <<>> \in Seq(BucketSet) /\ 0 \in Nat /\ 1..0 = {}
    OBVIOUS
  <2>2. [g \in Gens |-> Off] \in [Gens -> Captures \cup {Off}]
    OBVIOUS
  <2> QED
    BY <2>1, <2>2 DEF Init, Counted
<1>5. Running
  BY DEF Init, Running
<1> QED
  BY <1>1, <1>2, <1>3, <1>4, <1>5 DEF Init, MeterInv

LEMMA MeterSteps ==
    ASSUME OneFollowed, MeterInv, [Next]_vars
    PROVE  MeterInv'
<1>1. Logged' /\ Known' /\ Longer(log', log) /\ created \subseteq created'
  BY LogsGrow DEF MeterInv
<1>2. Asked'
  BY AskedKept DEF MeterInv
<1>3. now' \in Nat
  <2>1. now' = now \/ now' = now + 1
    <3>1. CASE UNCHANGED vars
      BY <3>1 DEF vars
    <3>2. ASSUME NEW f \in Files, Create(f) \/ Write(f) \/ AskPlayback(f) PROVE now' = now
      BY <3>2 DEF Create, Write, AskPlayback
    <3>3. CASE Second \/ AskStart \/ Load \/ Start \/ Playback \/ Stop
      BY <3>3 DEF Second, AskStart, Load, Start, Playback, Stop
    <3>4. ASSUME NEW b \in BOOLEAN, SetPaused(b) PROVE now' = now
      BY <3>4 DEF SetPaused
    <3>5. ASSUME NEW g \in Gens, Loop(g) PROVE now' = now
      BY <3>5, Zenon DEF Loop, End, Live, Replay, Read, Fold, Ship
    <3> QED
      BY <3>1, <3>2, <3>3, <3>4, <3>5 DEF Next
  <2> QED
    BY <2>1 DEF MeterInv
<1>4. generation \in Nat
  BY DEF MeterInv, Counted
<1>5. CASE Rested
  BY <1>1, <1>2, <1>3, <1>5, RestedKeeps DEF MeterInv
<1>6. CASE Emptied
  BY <1>1, <1>2, <1>3, <1>6, EmptiedKeeps DEF MeterInv
<1>7. ASSUME NEW n, Begun(n) PROVE MeterInv'
  BY <1>1, <1>2, <1>3, <1>7, BegunKeeps DEF MeterInv
<1>8. ASSUME NEW g \in Gens, NEW n, Moved(g, n) PROVE MeterInv'
  BY <1>1, <1>2, <1>3, <1>8, MovedKeeps DEF MeterInv
<1>9. ASSUME NEW g \in Gens, NEW n, NEW all, Told(g, n, all) PROVE MeterInv'
  BY <1>1, <1>2, <1>3, <1>9, ToldKeeps DEF MeterInv
<1>10. \/ Rested \/ Emptied \/ \E n : Begun(n)
       \/ \E g \in Gens : (\E n : Moved(g, n)) \/ (\E n, all : Told(g, n, all))
  <2>1. CASE UNCHANGED vars
    BY <1>4, <2>1 DEF vars, Rested
  <2>2. ASSUME NEW f \in Files, Create(f) \/ Write(f) PROVE Rested
    BY <1>4, <2>2 DEF Create, Write, Rested
  <2>3. ASSUME NEW f \in Files, AskPlayback(f) PROVE Emptied
    BY <2>3 DEF AskPlayback, Emptied
  <2>4. CASE AskStart
    BY <2>4 DEF AskStart, Emptied
  <2>5. CASE Second \/ Load \/ Stop
    BY <1>4, <2>5 DEF Second, Load, Stop, Rested
  <2>6. ASSUME NEW b \in BOOLEAN, SetPaused(b) PROVE Rested
    BY <1>4, <2>6 DEF SetPaused, Rested
  <2>7. CASE Start
    BY <2>7, StartBegins
  <2>8. CASE Playback
    BY <2>8, PlaybackBegins
  <2>9. ASSUME NEW g \in Gens, End(g) PROVE Moved(g, Off)
    BY <2>9, OffIs DEF End, Moved
  <2>10. ASSUME NEW g \in Gens, Loop(g) PROVE (\E n : Moved(g, n)) \/ (\E n, all : Told(g, n, all))
    BY <2>9, <2>10, LiveMoves, ReadMoves, ReplayMoves, FoldMoves, ShipTells DEF Loop
  <2> QED
    BY <2>1, <2>2, <2>3, <2>4, <2>5, <2>6, <2>7, <2>8, <2>10 DEF Next
<1> QED
  BY <1>5, <1>6, <1>7, <1>8, <1>9, <1>10

LEMMA LogIsFollowed ==
    ASSUME MeterInv
    PROVE  FollowsTheLog
<1> SUFFICES ASSUME NEW g \in Gens, meter[g].kind = "live", meter[g].file # 0
             PROVE  LET got == meter[g].read \o meter[g].batch
                        due == Lines(meter[g].file, (meter[g].from + 1) \div 2 + 1, meter[g].offset \div 2)
                        before == Len(got) - Len(due)
                    IN  /\ before >= 0 /\ SubSeq(got, before + 1, Len(got)) = due
                        /\ \A i \in 1..before : got[i].file # meter[g].file
  BY DEF FollowsTheLog
<1> DEFINE m == meter[g]
           got == m.read \o m.batch
           due == Lines(m.file, (m.from + 1) \div 2 + 1, m.offset \div 2)
<1>1. m \in Captures /\ Follows(log, created, m) /\ log \in Logs
  BY OffIs DEF MeterInv, Running, Reads, Logged
<1>2. due = Due(log, m) /\ got = Got(m)
  BY DEF Lines, Line, Due, Part, LineIn, Got
<1>3. PICK b \in Seq(LineSet) : Got(m) = b \o Due(log, m) /\ \A i \in 1..Len(b) : b[i].file < m.file
  BY <1>1 DEF Follows
<1>4. m.file \in Files /\ m.file \in Nat /\ Due(log, m) \in Seq(LineSet)
  <2>1. m.file \in Files
    BY <1>1, CaptureIs
  <2> QED
    BY <1>1, <2>1, FilesAre, DueIs DEF Follows
<1>5. b \in Seq(LineSet) /\ due \in Seq(LineSet) /\ got = b \o due
  BY <1>2, <1>3, <1>4
<1> HIDE DEF got, due
<1>6. /\ got \in Seq(LineSet) /\ Len(got) = Len(b) + Len(due) /\ Len(b) \in Nat /\ Len(due) \in Nat
      /\ \A i \in 1..Len(b) : got[i] = b[i]
      /\ \A i \in 1..Len(due) : got[Len(b) + i] = due[i]
  BY <1>5, Joined
<1>7. Len(got) - Len(due) = Len(b)
  BY <1>6
<1>8. SubSeq(got, Len(b) + 1, Len(got)) = due
  <2> DEFINE s == SubSeq(got, Len(b) + 1, Len(got))
  <2> HIDE DEF LineSet
  <2>1. s \in Seq(LineSet) /\ Len(s) = Len(due) /\ \A i \in 1..Len(due) : s[i] = got[Len(b) + i]
    BY <1>6
  <2> HIDE DEF s
  <2>2. s = due
    BY <1>5, <1>6, <2>1, SeqEqual
  <2> QED
    BY <2>2 DEF s
<1>9. \A i \in 1..Len(b) : got[i].file # m.file
  <2>1. \A i \in 1..Len(b) : b[i].file \in Nat
    BY LinesOf DEF LineSet
  <2> QED
    BY <1>3, <1>4, <1>6, <2>1
<1>10. /\ Len(got) - Len(due) >= 0
       /\ SubSeq(got, Len(got) - Len(due) + 1, Len(got)) = due
       /\ \A i \in 1..(Len(got) - Len(due)) : got[i].file # m.file
  <2>1. Len(got) - Len(due) + 1 = Len(b) + 1
    BY <1>6, <1>7
  <2> QED
    BY <1>6, <1>7, <1>8, <1>9, <2>1
<1> QED
  BY <1>10, Zenon DEF got, due

LEMMA GridHolds ==
    ASSUME MeterInv
    PROVE  GridIsLog
<1>1. ASSUME NEW g \in Gens, Alone(g)
      PROVE  IsLog(shown \o <<Last(meter[g].grid)>>, meter[g].read)
  <2>1. meter[g].pc \in {"poll", "done"} /\ g > cleared /\ writers = {g}
    BY <1>1 DEF Alone
  <2>2. /\ meter[g] \in Captures /\ Reads(log, created, meter[g]) /\ shown \in Seq(BucketSet)
        /\ Charts(g, meter[g], shown, writers, cleared)
    BY <2>1, RunningIs
  <2>3. meter[g].out = <<>>
    BY <2>1, <2>2 DEF Reads, Rests
  <2> QED
    BY <2>1, <2>2, <2>3, ChartsHonest
<1> QED
  BY <1>1, Zenon DEF GridIsLog, IsLog, OldestOf

(* The chart shows exactly what its capture read, and that is the log, for *)
(* any number of files, lines, captures and replays, however lines are     *)
(* flushed, sessions follow each other and captures are started, paused,   *)
(* replaced and stopped (dps_start, dps_playback, BucketFold).             *)
THEOREM MeterAlwaysHonest ==
    ASSUME OneFollowed
    PROVE  Spec => []MeterHonest
<1>1. Init => MeterInv
  BY MeterStarts
<1>2. MeterInv /\ [Next]_vars => MeterInv'
  BY MeterSteps
<1>3. MeterInv => MeterHonest
  BY LogIsFollowed, GridHolds DEF MeterHonest
<1> QED
  BY <1>1, <1>2, <1>3, PTL DEF Spec

-----------------------------------------------------------------------------
(* The fitting optimizer.  What is kept of a sequence are its members that are in the set.         *)
LEMMA OnlyKeeps ==
    ASSUME NEW X, NEW s \in Seq(X), NEW kept
    PROVE  Picked(s, kept) \in Seq(X) /\ ToSet(Picked(s, kept)) = ToSet(s) \cap kept
<1> DEFINE N == Len(s)
           Xs == Seq(X)
           pass == [n \in 1..N |-> [q \in Xs |-> IF s[n] \in kept THEN Append(q, s[n]) ELSE q]]
<1>1. N \in Nat /\ DOMAIN s = 1..N /\ \A n \in 1..N : s[n] \in X
  OBVIOUS
<1>2. pass \in [1..N -> [Xs -> Xs]] /\ <<>> \in Xs
  BY <1>1
<1>3. PICK f \in [0..N -> Xs] : f[0] = <<>> /\ \A n \in 1..N : f[n] = pass[n][f[n - 1]]
  <2> HIDE DEF pass, Xs, N
  <2>1. WalksOf(N, Xs, <<>>, pass) # {}
    BY <1>1, <1>2, StepsDefine
  <2> QED
    BY <2>1 DEF WalksOf
<1>4. ASSUME NEW n \in 1..N
      PROVE  f[n - 1] \in Xs /\ f[n] = IF s[n] \in kept THEN Append(f[n - 1], s[n]) ELSE f[n - 1]
  <2>1. n - 1 \in 0..N
    BY <1>1
  <2> QED
    BY <1>3, <2>1
<1> HIDE DEF pass
<1>5. f = [n \in 0..N |-> IF n = 0 THEN <<>> ELSE IF s[n] \in kept THEN Append(f[n - 1], s[n]) ELSE f[n - 1]]
  <2>1. \A n \in 0..N : n = 0 \/ n \in 1..N
    BY <1>1
  <2> QED
    BY <1>3, <1>4, <2>1
<1> DEFINE upTo == CHOOSE upTo : upTo =
              [n \in 0..N |-> IF n = 0 THEN <<>> ELSE IF s[n] \in kept THEN Append(upTo[n - 1], s[n]) ELSE upTo[n - 1]]
<1>6. upTo = [n \in 0..N |-> IF n = 0 THEN <<>> ELSE IF s[n] \in kept THEN Append(upTo[n - 1], s[n]) ELSE upTo[n - 1]]
  BY <1>5, ZenonT(40)
<1>7. Picked(s, kept) = upTo[N]
  BY DEF Picked
<1> HIDE DEF upTo
<1> DEFINE Good == {n \in Nat : n <= N => upTo[n] \in Xs /\ ToSet(upTo[n]) = {s[j] : j \in 1..n} \cap kept}
<1>8. 0 \in Good
  <2>1. upTo[0] = <<>>
    BY <1>1, <1>6
  <2>2. ToSet(<<>>) = {} /\ {s[j] : j \in 1..0} = {}
    BY DEF ToSet
  <2> QED
    BY <1>2, <2>1, <2>2
<1>9. ASSUME NEW n \in Nat, n \in Good PROVE n + 1 \in Good
  <2> SUFFICES ASSUME n + 1 <= N
               PROVE  upTo[n + 1] \in Xs /\ ToSet(upTo[n + 1]) = {s[j] : j \in 1..n + 1} \cap kept
    OBVIOUS
  <2>1. /\ upTo[n] \in Xs /\ ToSet(upTo[n]) = {s[j] : j \in 1..n} \cap kept
        /\ n + 1 \in 1..N /\ n + 1 \in 0..N /\ n + 1 # 0 /\ (n + 1) - 1 = n
    BY <1>9, <1>1
  <2>2. upTo[n + 1] = IF s[n + 1] \in kept THEN Append(upTo[n], s[n + 1]) ELSE upTo[n]
    <3> HIDE DEF Good, N
    <3>1. upTo[n + 1] = IF n + 1 = 0 THEN <<>> ELSE IF s[n + 1] \in kept THEN Append(upTo[(n + 1) - 1], s[n + 1])
                                               ELSE upTo[(n + 1) - 1]
      BY <1>6, <2>1, Zenon
    <3> QED
      BY <3>1, <2>1
  <2>3. {s[j] : j \in 1..n + 1} = {s[j] : j \in 1..n} \cup {s[n + 1]}
    <3>1. \A j : j \in 1..n + 1 <=> j \in 1..n \/ j = n + 1
      OBVIOUS
    <3> QED
      BY <3>1
  <2>4. s[n + 1] \in X
    BY <1>1, <2>1
  <2>5. ASSUME NEW q \in Seq(X), NEW x \in X PROVE Append(q, x) \in Seq(X) /\ ToSet(Append(q, x)) = ToSet(q) \cup {x}
    <3>1. DOMAIN q = 1..Len(q) /\ DOMAIN Append(q, x) = 1..Len(q) + 1 /\ Len(q) \in Nat
      OBVIOUS
    <3>2. \A j : j \in 1..Len(q) + 1 <=> j \in 1..Len(q) \/ j = Len(q) + 1
      BY <3>1
    <3>3. \A j \in 1..Len(q) : Append(q, x)[j] = q[j]
      OBVIOUS
    <3>4. Append(q, x)[Len(q) + 1] = x
      OBVIOUS
    <3> QED
      BY <3>1, <3>2, <3>3, <3>4 DEF ToSet
  <2> HIDE DEF Good
  <2>6. CASE s[n + 1] \in kept
    BY <2>1, <2>2, <2>3, <2>4, <2>5, <2>6
  <2>7. CASE s[n + 1] \notin kept
    BY <2>1, <2>2, <2>3, <2>7
  <2> QED
    BY <2>6, <2>7
<1>10. N \in Good
  <2> HIDE DEF Good
  <2> QED
    BY <1>1, <1>8, <1>9, SetInduction
<1>11. ToSet(s) = {s[j] : j \in 1..N}
  BY DEF ToSet
<1> QED
  BY <1>1, <1>7, <1>10, <1>11

(* Of finitely many scores one is the first of the highest.                *)
FirstBest(S, v, k) == k \in S /\ \A l \in S : v[l] < v[k] \/ (v[l] = v[k] /\ k <= l)

LEMMA FirstBestIs ==
    ASSUME NEW S \in SUBSET Int, IsFiniteSet(S), S # {}, NEW v, \A k \in S : v[k] \in Int
    PROVE  \E k \in S : FirstBest(S, v, k)
<1> DEFINE Good == {R \in SUBSET S : R # {} => \E k \in R : FirstBest(R, v, k)}
<1>1. {} \in Good
  OBVIOUS
<1>2. ASSUME NEW R \in SUBSET S, R # {}, \A x \in R : R \ {x} \in Good
      PROVE  R \in Good
  <2>1. PICK x \in R : TRUE
    BY <1>2
  <2>2. CASE R = {x}
    <3>1. FirstBest(R, v, x)
      BY <2>2 DEF FirstBest
    <3> QED
      BY <3>1
  <2>3. CASE R # {x}
    <3>1. R \ {x} # {}
      BY <2>1, <2>3
    <3>2. PICK k \in R \ {x} : FirstBest(R \ {x}, v, k)
      BY <1>2, <3>1
    <3>3. \A l \in R : l = x \/ l \in R \ {x}
      OBVIOUS
    <3>4. v[x] \in Int /\ v[k] \in Int /\ x \in Int /\ k \in Int /\ \A l \in R : v[l] \in Int /\ l \in Int
      OBVIOUS
    <3>5. CASE v[k] < v[x] \/ (v[k] = v[x] /\ x <= k)
      <4>1. FirstBest(R, v, x)
        BY <3>2, <3>3, <3>4, <3>5 DEF FirstBest
      <4> QED
        BY <4>1
    <3>6. CASE ~(v[k] < v[x] \/ (v[k] = v[x] /\ x <= k))
      <4>1. FirstBest(R, v, k)
        BY <3>2, <3>3, <3>4, <3>6 DEF FirstBest
      <4> QED
        BY <4>1
    <3> QED
      BY <3>5, <3>6
  <2> QED
    BY <2>2, <2>3
<1> HIDE DEF Good
<1>3. S \in Good
  BY <1>1, <1>2, SubsetInduction
<1> QED
  BY <1>3 DEF Good

-----------------------------------------------------------------------------
(* A trial that is adopted is valid, and its score above the one it had to *)
(* beat and no lower than any other's; when none is, none would have been. *)
Fittings == Seq(Modules)
Requested == wanted \in [objective : Objectives, mode : {"all", "empty"}, capStable : BOOLEAN, budget : Budgets, fit : Starts]

LEMMA Scored ==
    ASSUME EngineAssumption, Requested, NEW f \in Fittings
    PROVE  Score(f) \in Nat /\ Metric(wanted.objective, f) \in Nat
<1>1. Metric(wanted.objective, f) \in Nat
  BY DEF EngineAssumption, EngineSays, Requested, Fittings
<1>2. \A m \in Nat : 2 * 2 * m \in Nat /\ 2 * 5 * m \in Nat /\ 5 * 2 * m \in Nat /\ 5 * 5 * m \in Nat
  OBVIOUS
<1> DEFINE over == wanted.budget # NoBudget /\ Price(f) > wanted.budget
<1>3. Score(f) = (IF Unstable(f) THEN 2 ELSE 5) * (IF over THEN 2 ELSE 5) * Metric(wanted.objective, f)
  BY DEF Score
<1> HIDE DEF over
<1> QED
  BY <1>1, <1>2, <1>3

LEMMA BestIs ==
    ASSUME EngineAssumption, Requested, NEW trials \in Seq(Fittings), NEW above \in Int
    PROVE  LET k == Best(trials, above)
           IN  /\ k = 0 => \A l \in DOMAIN trials : Valid(trials[l]) => Score(trials[l]) <= above
               /\ k # 0 => k \in DOMAIN trials /\ Valid(trials[k])
<1> DEFINE scores == [k \in DOMAIN trials |-> IF Valid(trials[k]) THEN Score(trials[k]) ELSE above]
           better == {k \in DOMAIN trials : scores[k] > above}
<1>1. DOMAIN trials = 1..Len(trials) /\ Len(trials) \in Nat /\ \A k \in DOMAIN trials : trials[k] \in Fittings
  OBVIOUS
<1>2. \A k \in DOMAIN trials : Score(trials[k]) \in Nat
  BY <1>1, Scored
<1>3. \A k \in DOMAIN trials : scores[k] \in Int
  BY <1>2
<1>4. better \in SUBSET Int /\ IsFiniteSet(better)
  <2>1. IsFiniteSet(1..Len(trials))
    BY <1>1, UpToFinite
  <2>2. better \subseteq 1..Len(trials)
    BY <1>1
  <2> HIDE DEF better
  <2>3. IsFiniteSet(better)
    BY <2>1, <2>2, FS_Subset, Zenon
  <2>4. \A k \in 1..Len(trials) : k \in Int
    BY <1>1
  <2> QED
    BY <2>2, <2>3, <2>4
<1>5. Best(trials, above) =
        IF better = {} THEN 0
        ELSE CHOOSE k \in better : \A l \in better : scores[l] < scores[k] \/ (scores[l] = scores[k] /\ k <= l)
  BY DEF Best
<1>6. CASE better = {}
  <2>1. ASSUME NEW l \in DOMAIN trials, Valid(trials[l]) PROVE Score(trials[l]) <= above
    <3>1. ~(scores[l] > above) /\ scores[l] = Score(trials[l])
      BY <1>6, <2>1
    <3> QED
      BY <1>2, <3>1
  <2> QED
    BY <1>5, <1>6, <2>1
<1>7. CASE better # {}
  <2>1. \E k \in better : \A l \in better : scores[l] < scores[k] \/ (scores[l] = scores[k] /\ k <= l)
    <3> HIDE DEF scores
    <3>1. \A k \in better : scores[k] \in Int
      BY <1>3
    <3> HIDE DEF better
    <3>2. \E k \in better : FirstBest(better, scores, k)
      BY <1>4, <1>7, <3>1, FirstBestIs
    <3> QED
      BY <3>2 DEF FirstBest
  <2>2. Best(trials, above) \in better
    <3> HIDE DEF better, scores
    <3> QED
      BY <1>5, <1>7, <2>1
  <2>3. \A k \in better : k \in DOMAIN trials /\ k # 0 /\ Valid(trials[k])
    <3> SUFFICES ASSUME NEW k \in better PROVE k # 0 /\ Valid(trials[k])
      OBVIOUS
    <3>1. k \in 1..Len(trials)
      BY <1>1
    <3>2. ~Valid(trials[k]) => scores[k] = above
      OBVIOUS
    <3> QED
      BY <3>1, <3>2
  <2> QED
    BY <2>2, <2>3
<1> QED
  BY <1>6, <1>7

(* What is noted is a trial that meets the constraints, or what was noted. *)
LEMMA NotedIs ==
    ASSUME EngineAssumption, Requested, NEW trials \in Seq(Fittings)
    PROVE  \/ Noted(trials) = fallback
           \/ \E k \in DOMAIN trials :
                /\ Noted(trials) = [items |-> trials[k], metric |-> Metric(wanted.objective, trials[k])]
                /\ Valid(trials[k]) /\ Meets(trials[k])
<1> DEFINE meeting == {k \in DOMAIN trials : Valid(trials[k]) /\ Meets(trials[k])}
           metric(k) == Metric(wanted.objective, trials[k])
           best == CHOOSE k \in meeting : \A l \in meeting :
                metric(l) < metric(k) \/ (metric(l) = metric(k) /\ k <= l)
           v == [k \in DOMAIN trials |-> metric(k)]
<1>1. DOMAIN trials = 1..Len(trials) /\ Len(trials) \in Nat /\ \A k \in DOMAIN trials : trials[k] \in Fittings
  OBVIOUS
<1>2. \A k \in DOMAIN trials : metric(k) \in Int
  BY <1>1, Scored
<1>3. meeting \in SUBSET Int /\ IsFiniteSet(meeting)
  <2>1. IsFiniteSet(1..Len(trials))
    BY <1>1, UpToFinite
  <2>2. meeting \subseteq 1..Len(trials)
    BY <1>1
  <2> HIDE DEF meeting
  <2>3. IsFiniteSet(meeting)
    BY <2>1, <2>2, FS_Subset, Zenon
  <2>4. \A k \in 1..Len(trials) : k \in Int
    BY <1>1
  <2> QED
    BY <2>2, <2>3, <2>4
<1>4. Noted(trials) =
        IF ~Soft \/ meeting = {} \/ metric(best) <= fallback.metric THEN fallback
        ELSE [items |-> trials[best], metric |-> metric(best)]
  BY DEF Noted
<1>5. CASE meeting = {}
  BY <1>4, <1>5
<1>6. CASE meeting # {}
  <2>1. \E k \in meeting : \A l \in meeting : metric(l) < metric(k) \/ (metric(l) = metric(k) /\ k <= l)
    <3>1. \A k \in meeting : v[k] = metric(k) /\ v[k] \in Int
      BY <1>2
    <3>2. \E k \in meeting : FirstBest(meeting, v, k)
      <4> HIDE DEF meeting, v
      <4> QED
        BY <1>3, <1>6, <3>1, FirstBestIs
    <3> HIDE DEF meeting, v, metric
    <3> QED
      BY <3>1, <3>2 DEF FirstBest
  <2>2. best \in meeting
    <3> HIDE DEF meeting, metric
    <3> QED
      BY <2>1
  <2>3. best \in DOMAIN trials /\ Valid(trials[best]) /\ Meets(trials[best])
    BY <2>2
  <2> HIDE DEF best, meeting
  <2> QED
    BY <1>4, <2>3
<1> QED
  BY <1>5, <1>6

-----------------------------------------------------------------------------
(* The search.  What stays stays at the head of the fit, which is as valid *)
(* as the pass began with, and the score is that of the fit; in a round in *)
(* which nothing has improved, nothing that was tried would have.          *)
Searching == {"racks", "fill", "swap", "classes", "round", "enforce"}

Sound(f) == f \in Fittings /\ Prefix(f) /\ (Valid(Kept) => Valid(f))

(* No other choice for the module at i would raise the score.              *)
Settled(i) ==
    Relevant(fit[i].slot) /\ ~(Damage /\ fit[i].slot = "high") =>
      \A t \in ToSet(Candidates(fit[i].slot)) :
        UniqueOk(fit, t, i) /\ Valid(With({i}, t)) => Score(With({i}, t)) <= current

Tried == {i \in Added : phase = "swap" => i < Len(Kept) + pos}

FallbackSound ==
    /\ fallback \in [items : Fittings, metric : Int]
    /\ fallback # NoFit => Prefix(fallback.items) /\ Valid(fallback.items) /\ Meets(fallback.items)

SearchInv ==
    /\ Requested
    /\ phase \in Searching \cup {"begin", "arm", "done"} /\ pos \in Nat \ {0} /\ improved \in BOOLEAN
    /\ FallbackSound
    /\ phase = "begin" => ~improved
    /\ phase \in Searching \cup {"arm"} => Sound(fit)
    /\ phase \in Searching => current \in Nat /\ (Valid(fit) => current = Score(fit))
    /\ phase \in {"racks", "fill"} => ~improved
    /\ phase \in {"swap", "classes", "round"} /\ ~improved => \A i \in Tried : Settled(i)
    /\ phase = "enforce" => \A i \in Added : Settled(i)
    /\ phase = "arm" => Damage
    /\ phase = "done" => (Valid(Kept) => Valid(fit))
    /\ Enforced /\ fallback # NoFit => Valid(fit) /\ Meets(fit)

(* Every fit the pass takes up, from trials, is one of them that is valid. *)
LEMMA AdoptSound ==
    ASSUME EngineAssumption, SearchInv, phase \in Searching, NEW trials \in Seq(Fittings), NEW above \in Int,
           \A k \in DOMAIN trials : Prefix(trials[k]),
           Adopt(trials, above), UNCHANGED wanted
    PROVE  /\ Sound(fit)' /\ FallbackSound' /\ Requested' /\ (current \in Nat /\ (Valid(fit) => current = Score(fit)))'
           /\ Best(trials, above) = 0 =>
                 /\ UNCHANGED <<fit, current>>
                 /\ \A k \in DOMAIN trials : Valid(trials[k]) => Score(trials[k]) <= above
<1>1. Requested /\ FallbackSound /\ Sound(fit) /\ current \in Nat /\ (Valid(fit) => current = Score(fit))
  BY DEF SearchInv
<1>2. fallback' = Noted(trials)
  BY DEF Adopt
<1>3. \A k \in DOMAIN trials : trials[k] \in Fittings /\ Metric(wanted.objective, trials[k]) \in Nat
                              /\ Score(trials[k]) \in Nat
  BY <1>1, Scored
<1>4. Requested' /\ Kept' = Kept /\ (\A f : Prefix(f)' = Prefix(f)) /\ (\A f : Meets(f)' = Meets(f)) /\ \A f : Score(f)' = Score(f)
  <2>1. wanted' = wanted
    OBVIOUS
  <2> QED
    BY <1>1, <2>1 DEF Requested, Kept, Relevant, Prefix, Meets, Unstable, Score
<1>5. FallbackSound'
  <2>1. CASE fallback' = fallback
    BY <1>1, <1>4, <2>1 DEF FallbackSound
  <2>2. ASSUME NEW k \in DOMAIN trials, Valid(trials[k]), Meets(trials[k]),
               fallback' = [items |-> trials[k], metric |-> Metric(wanted.objective, trials[k])]
        PROVE  FallbackSound'
    <3>1. fallback'.items = trials[k] /\ fallback' \in [items : Fittings, metric : Int]
      BY <1>3, <2>2
    <3> QED
      BY <1>4, <2>2, <3>1 DEF FallbackSound
  <2> QED
    BY <1>1, <1>2, <2>1, <2>2, NotedIs
<1>6. CASE Best(trials, above) = 0
  <2>1. UNCHANGED <<fit, current>>
    BY <1>6 DEF Adopt
  <2>2. \A k \in DOMAIN trials : Valid(trials[k]) => Score(trials[k]) <= above
    BY <1>1, <1>6, BestIs
  <2>3. Sound(fit)' /\ (current \in Nat /\ (Valid(fit) => current = Score(fit)))'
    BY <1>1, <1>4, <2>1 DEF Sound
  <2> QED
    BY <1>4, <1>5, <2>1, <2>2, <2>3
<1>7. CASE Best(trials, above) # 0
  <2>1. PICK k \in DOMAIN trials : fit' = trials[k] /\ current' = Score(trials[k]) /\ Valid(trials[k])
    <3>1. Best(trials, above) \in DOMAIN trials /\ Valid(trials[Best(trials, above)])
      BY <1>1, <1>7, BestIs
    <3> QED
      BY <1>7, <3>1 DEF Adopt
  <2>2. Sound(fit)'
    BY <1>3, <1>4, <2>1 DEF Sound
  <2>3. (current \in Nat /\ (Valid(fit) => current = Score(fit)))'
    BY <1>3, <1>4, <2>1
  <2> QED
    BY <1>4, <1>5, <1>7, <2>2, <2>3
<1> QED
  BY <1>6, <1>7

LEMMA KeptTyped ==
    ASSUME FitAssumption, Requested
    PROVE  Kept \in Fittings /\ Prefix(Kept) /\ Len(Kept) \in Nat
<1>1. wanted.fit \in Seq(Modules)
  BY DEF FitAssumption, Requested
<1>2. Kept \in Seq(Modules)
  BY <1>1, OnlyKeeps DEF Kept
<1> QED
  BY <1>2 DEF Prefix, Fittings

LEMMA CandidatesTyped ==
    ASSUME FitAssumption, Requested, NEW slot \in Slots
    PROVE  Candidates(slot) \in Seq(Types)
<1> DEFINE pool == Picked(Pool(wanted.objective, slot), Types \ Polarized)
<1>1. pool \in Seq(Types)
  <2>1. Pool(wanted.objective, slot) \in Seq(Types)
    BY DEF FitAssumption, Requested
  <2> QED
    BY <2>1, OnlyKeeps
<1>2. Picked(pool, Bonused) \in Seq(Types)
  <2> HIDE DEF pool
  <2> QED
    BY <1>1, OnlyKeeps
<1>3. Candidates(slot) = pool \/ Candidates(slot) = Picked(pool, Bonused)
  BY DEF Candidates
<1> QED
  BY <1>1, <1>2, <1>3

LEMMA DivModTyped ==
    ASSUME NEW n \in Nat, NEW d \in Nat, d > 0
    PROVE  (n % d) + 1 \in 1..d /\ (n \div d) + 1 \in Nat
  OBVIOUS

LEMMA FreeTyped ==
    ASSUME FitAssumption, Sound(fit), NEW slot \in Slots
    PROVE  Free(slot) \in Int
<1>1. DOMAIN fit = 1..Len(fit) /\ Len(fit) \in Nat
  BY DEF Sound, Fittings
<1>2. IsFiniteSet(1..Len(fit))
  BY <1>1, UpToFinite
<1>3. Items(fit, slot) \subseteq 1..Len(fit)
  BY <1>1 DEF Items
<1>4. IsFiniteSet(Items(fit, slot))
  BY <1>2, <1>3, FS_Subset, Zenon
<1>5. Cardinality(Items(fit, slot)) \in Nat
  BY <1>4, FS_CardinalityType
<1> QED
  BY <1>5 DEF Free, FitAssumption

LEMMA FreshTyped ==
    ASSUME NEW t \in Types, NEW slot \in Slots
    PROVE  Module(t, slot) \in Modules
  BY DEF Module, Modules

(* What is added comes after what stays.                                   *)
LEMMA AppendSoundly ==
    ASSUME FitAssumption, Requested, NEW f \in Fittings, Prefix(f), NEW more \in Seq(Modules)
    PROVE  f \o more \in Fittings /\ Prefix(f \o more)
<1>1. /\ f \o more \in Fittings /\ Len(f \o more) = Len(f) + Len(more) /\ Len(f) \in Nat /\ Len(more) \in Nat
      /\ \A i \in 1..Len(f) : (f \o more)[i] = f[i]
  BY DEF Fittings
<1>2. Kept \in Seq(Modules) /\ Len(Kept) \in Nat /\ Len(f) >= Len(Kept)
  BY KeptTyped DEF Prefix, Fittings
<1>3. \A i \in DOMAIN Kept : i \in 1..Len(f)
  BY <1>1, <1>2
<1> QED
  BY <1>1, <1>2, <1>3 DEF Prefix

(* A swap changes the types of items that were added, and nothing else.    *)
LEMMA WithSound ==
    ASSUME FitAssumption, Requested, Sound(fit), NEW idxs \in SUBSET Added, NEW t \in Types
    PROVE  /\ With(idxs, t) \in Fittings /\ Prefix(With(idxs, t))
<1>1. fit \in Seq(Modules) /\ Kept \in Seq(Modules) /\ Len(Kept) \in Nat /\ Len(fit) \in Nat /\ Len(fit) >= Len(Kept)
  BY KeptTyped DEF Sound, Prefix, Fittings
<1>2. DOMAIN fit = 1..Len(fit) /\ DOMAIN Kept = 1..Len(Kept)
  BY <1>1
<1>3. \A i \in idxs : i \in 1..Len(fit) /\ i \notin DOMAIN Kept
  BY <1>1, <1>2 DEF Added
<1>4. ASSUME NEW i \in DOMAIN fit PROVE (IF i \in idxs THEN [fit[i] EXCEPT !.type = t] ELSE fit[i]) \in Modules
  <2>1. fit[i] \in Modules
    BY <1>1
  <2> QED
    BY <2>1 DEF Modules
<1>5. With(idxs, t) \in [1..Len(fit) -> Modules]
  BY <1>2, <1>4 DEF With
<1>6. With(idxs, t) \in Seq(Modules) /\ Len(With(idxs, t)) = Len(fit)
  <2> DEFINE w == With(idxs, t)
  <2> HIDE DEF w
  <2> QED
    BY <1>1, <1>5 DEF w
<1>7. \A i \in DOMAIN Kept : i \in DOMAIN fit /\ With(idxs, t)[i] = fit[i]
  BY <1>1, <1>2, <1>3 DEF With
<1>8. \A i \in DOMAIN Kept : fit[i].type = Kept[i].type /\ fit[i].slot = Kept[i].slot
  BY DEF Sound, Prefix
<1> QED
  BY <1>1, <1>6, <1>7, <1>8 DEF Prefix, Fittings

LEMMA WithItself ==
    ASSUME Sound(fit), NEW i \in DOMAIN fit
    PROVE  With({i}, fit[i].type) = fit
<1>1. fit \in Seq(Modules) /\ fit[i] \in Modules
  BY DEF Sound, Fittings
<1>2. [fit[i] EXCEPT !.type = fit[i].type] = fit[i]
  BY <1>1 DEF Modules
<1>3. fit = [j \in DOMAIN fit |-> fit[j]]
  BY <1>1
<1>4. \A j \in DOMAIN fit : (IF j \in {i} THEN [fit[j] EXCEPT !.type = fit[i].type] ELSE fit[j]) = fit[j]
  BY <1>2
<1> QED
  BY <1>3, <1>4 DEF With

-----------------------------------------------------------------------------
(* Each step.                                                              *)
LEMMA BeginSound ==
    ASSUME FitAssumption, EngineAssumption, SearchInv, Begin
    PROVE  SearchInv'
<1>1. /\ phase = "begin" /\ ~improved /\ FallbackSound /\ Requested /\ UNCHANGED <<wanted, improved, fallback>>
      /\ fit' = Kept /\ current' = (IF Valid(Kept) THEN Score(Kept) ELSE 0) /\ pos' = 1
      /\ phase' \in {"racks", "fill"}
  BY DEF Begin, Go, SearchInv
<1>2. Kept' = Kept /\ (\A f : Prefix(f)' = Prefix(f)) /\ (\A f : Meets(f)' = Meets(f)) /\ (\A f : Score(f)' = Score(f)) /\ Requested'
  BY <1>1 DEF Requested, Kept, Relevant, Prefix, Meets, Unstable, Score
<1>3. Kept \in Fittings /\ Prefix(Kept) /\ Score(Kept) \in Nat
  BY <1>1, KeptTyped, Scored
<1>4. FallbackSound'
  BY <1>1, <1>2 DEF FallbackSound
<1>5. Sound(fit)' /\ current' \in Nat /\ (Valid(fit) => current = Score(fit))'
  BY <1>1, <1>2, <1>3 DEF Sound
<1> QED
  BY <1>1, <1>2, <1>4, <1>5 DEF SearchInv, Searching, Enforced

LEMMA RackSound ==
    ASSUME FitAssumption, EngineAssumption, SearchInv, SeedRack
    PROVE  SearchInv'
<1>1. /\ phase = "racks" /\ phase \in Searching /\ Sound(fit) /\ Requested /\ FallbackSound /\ pos \in Nat \ {0} /\ ~improved
      /\ UNCHANGED <<wanted, improved>> /\ current \in Nat /\ (Valid(fit) => current = Score(fit))
  BY DEF SearchInv, SeedRack, Searching
<1>2. CASE pos > Len(Hardpoints)
  <2>1. UNCHANGED <<wanted, improved, fit, current, fallback>> /\ pos' = 1 /\ phase' = "fill"
    BY <1>2 DEF SeedRack, Go
  <2>2. Sound(fit)' /\ Requested' /\ FallbackSound' /\ (Valid(fit) => current = Score(fit))'
    BY <1>1, <2>1 DEF Sound, Requested, FallbackSound, Kept, Relevant, Prefix, Meets, Unstable, Score
  <2> QED
    BY <1>1, <2>1, <2>2 DEF SearchInv, Searching, Enforced
<1>3. CASE ~(pos > Len(Hardpoints))
  <2> DEFINE class == Hardpoints[pos][1]
             free == Free("high")
             most == IF free < Hardpoints[pos][2] THEN free ELSE Hardpoints[pos][2]
             cands == RackCandidates(class)
             rack(n) == Copies(cands[((n - 1) % Len(cands)) + 1], ((n - 1) \div Len(cands)) + 1)
             trials == IF most <= 0 THEN <<>> ELSE [n \in 1..most * Len(cands) |-> fit \o rack(n)]
  <2>1. Adopt(trials, -1) /\ pos' = pos + 1 /\ phase' = phase
    BY <1>3 DEF SeedRack
  <2>2. cands \in Seq(Types)
    <3>1. fit \in Seq(Modules)
      BY <1>1 DEF Sound, Fittings
    <3>2. CASE Existing(class) # {}
      <4> DEFINE first == CHOOSE i \in Existing(class) : \A j \in Existing(class) : i <= j
      <4>1. Existing(class) \in SUBSET Nat /\ Existing(class) \subseteq DOMAIN fit
        BY <3>1 DEF Existing, Items
      <4>2. first \in Existing(class)
        <5>1. \E i \in Existing(class) : \A j \in Existing(class) : i <= j
          BY <3>2, <4>1, LeastNatural
        <5> QED
          BY <5>1
      <4>3. fit[first].type \in Types
        <5>1. fit[first] \in Modules
          BY <3>1, <4>1, <4>2
        <5> QED
          BY <5>1 DEF Modules
      <4>4. cands = <<fit[first].type>>
        BY <3>2 DEF RackCandidates
      <4> HIDE DEF first, cands
      <4> QED
        BY <4>3, <4>4
    <3>3. CASE Existing(class) = {}
      <4>1. cands = Picked(Candidates("high"), {t \in Types : ClassOf(t) = class})
        BY <3>3 DEF RackCandidates
      <4>2. Candidates("high") \in Seq(Types)
        BY <1>1, CandidatesTyped DEF FitAssumption
      <4> QED
        BY <4>1, <4>2, OnlyKeeps
    <3> QED
      BY <3>2, <3>3
  <2>3. trials \in Seq(Fittings) /\ \A k \in DOMAIN trials : Prefix(trials[k])
    <3>1. CASE most <= 0
      BY <3>1
    <3>2. CASE ~(most <= 0)
      <4>1. most \in Nat /\ Len(cands) \in Nat /\ most * Len(cands) \in Nat
        <5>1. free \in Int
          BY <1>1, FreeTyped DEF FitAssumption
        <5>2. Hardpoints[pos] \in STRING \X Nat
          BY <1>1, <1>3 DEF FitAssumption
        <5> HIDE DEF free
        <5>3. most \in Nat
          BY <3>2, <5>1, <5>2
        <5>4. Len(cands) \in Nat
          BY <2>2
        <5> HIDE DEF most, cands
        <5> QED
          BY <5>3, <5>4
      <4>2. ASSUME NEW n \in 1..most * Len(cands) PROVE fit \o rack(n) \in Fittings /\ Prefix(fit \o rack(n))
        <5> DEFINE k == ((n - 1) % Len(cands)) + 1
                   count == ((n - 1) \div Len(cands)) + 1
        <5>1. rack(n) \in Seq(Modules)
          <6>1. Len(cands) > 0 /\ Len(cands) \in Nat /\ n - 1 \in Nat
            <7>1. most * 0 = 0
              BY <4>1
            <7> HIDE DEF most, cands
            <7> QED
              BY <4>1, <7>1
          <6>2. k \in 1..Len(cands) /\ count \in Nat
            <7> HIDE DEF cands
            <7> QED
              BY <6>1, DivModTyped
          <6>3. cands[k] \in Types
            <7> HIDE DEF cands, k
            <7> QED
              BY <2>2, <6>2
          <6>4. Module(cands[k], "high") \in Modules
            BY <6>3, FreshTyped DEF FitAssumption
          <6>5. Copies(cands[k], count) \in Seq(Modules)
            <7> HIDE DEF k, count, cands
            <7> QED
              BY <6>2, <6>4 DEF Copies
          <6> QED
            BY <6>5
        <5> QED
          BY <1>1, <5>1, AppendSoundly DEF Sound
      <4>3. trials = [n \in 1..most * Len(cands) |-> fit \o rack(n)]
        BY <3>2
      <4> HIDE DEF trials, rack, most, cands
      <4> QED
        BY <4>1, <4>2, <4>3
    <3> QED
      BY <3>1, <3>2
  <2> HIDE DEF trials
  <2>4. Sound(fit)' /\ FallbackSound' /\ Requested' /\ (current \in Nat /\ (Valid(fit) => current = Score(fit)))'
    BY <1>1, <2>1, <2>3, AdoptSound
  <2> QED
    BY <1>1, <2>1, <2>4 DEF SearchInv, Searching, Enforced
<1> QED
  BY <1>2, <1>3

LEMMA FillSound ==
    ASSUME FitAssumption, EngineAssumption, SearchInv, Fill
    PROVE  SearchInv'
<1>1. /\ phase = "fill" /\ phase \in Searching /\ Sound(fit) /\ Requested /\ FallbackSound /\ pos \in Nat \ {0} /\ ~improved
      /\ UNCHANGED <<wanted, improved>> /\ current \in Nat /\ (Valid(fit) => current = Score(fit))
  BY DEF SearchInv, Fill, Searching
<1> DEFINE kinds == Kinds(wanted.objective)
<1>2. kinds \in Seq(Slots)
  BY <1>1 DEF Requested, FitAssumption
<1>3. CASE pos > Len(kinds)
  <2>1. UNCHANGED <<wanted, improved, fit, current, fallback>> /\ pos' = 1 /\ phase' = "swap"
    BY <1>3 DEF Fill, Go
  <2>2. Sound(fit)' /\ Requested' /\ FallbackSound' /\ (Valid(fit) => current = Score(fit))' /\ Kept' = Kept
    BY <1>1, <2>1 DEF Sound, Requested, FallbackSound, Kept, Relevant, Prefix, Meets, Unstable, Score
  <2>3. Tried' = {}
    <3>1. Len(Kept') \in Nat
      BY <1>1, <2>2, KeptTyped
    <3> SUFFICES ASSUME NEW i \in Added', phase' = "swap" => i < Len(Kept') + pos' PROVE FALSE
      BY DEF Tried
    <3>2. Len(fit') \in Nat
      BY <2>2 DEF Sound, Fittings
    <3> QED
      BY <2>1, <3>1, <3>2 DEF Added
  <2> QED
    BY <1>1, <2>1, <2>2, <2>3 DEF SearchInv, Searching, Enforced
<1>4. CASE ~(pos > Len(kinds))
  <2> DEFINE slot == kinds[pos]
             cands == Picked(Candidates(slot), {t \in Types : UniqueOk(fit, t, 0)})
             trials == IF Free(slot) <= 0 \/ (Damage /\ slot = "high") THEN <<>>
                       ELSE [k \in DOMAIN cands |-> Append(fit, Module(cands[k], slot))]
  <2>1. Adopt(trials, current) /\ pos' \in {pos, pos + 1} /\ phase' = phase
    BY <1>4 DEF Fill
  <2>2. slot \in Slots /\ cands \in Seq(Types)
    <3>1. slot \in Slots
      BY <1>1, <1>2, <1>4
    <3>2. Candidates(slot) \in Seq(Types)
      <4> HIDE DEF slot
      <4> QED
        BY <1>1, <3>1, CandidatesTyped
    <3> HIDE DEF slot
    <3> QED
      BY <3>1, <3>2, OnlyKeeps
  <2>3. trials \in Seq(Fittings) /\ \A k \in DOMAIN trials : Prefix(trials[k])
    <3> HIDE DEF slot, cands
    <3>1. ASSUME NEW k \in DOMAIN cands
          PROVE  Append(fit, Module(cands[k], slot)) \in Fittings /\ Prefix(Append(fit, Module(cands[k], slot)))
      <4>1. Module(cands[k], slot) \in Modules
        BY <2>2, FreshTyped
      <4>2. Append(fit, Module(cands[k], slot)) = fit \o <<Module(cands[k], slot)>>
        BY <1>1, <4>1 DEF Sound, Fittings
      <4>3. <<Module(cands[k], slot)>> \in Seq(Modules) /\ fit \in Fittings /\ Prefix(fit)
        BY <1>1, <4>1 DEF Sound
      <4>4. fit \o <<Module(cands[k], slot)>> \in Fittings /\ Prefix(fit \o <<Module(cands[k], slot)>>)
        BY <1>1, <4>3, AppendSoundly, Zenon
      <4> QED
        BY <4>2, <4>4
    <3>2. DOMAIN cands = 1..Len(cands) /\ Len(cands) \in Nat
      BY <2>2
    <3> QED
      BY <3>1, <3>2
  <2> HIDE DEF trials
  <2>4. Sound(fit)' /\ FallbackSound' /\ Requested' /\ (current \in Nat /\ (Valid(fit) => current = Score(fit)))'
    BY <1>1, <2>1, <2>3, AdoptSound
  <2> QED
    BY <1>1, <2>1, <2>4 DEF SearchInv, Searching, Enforced
<1> QED
  BY <1>3, <1>4

(* The fits that differ from this one in the types of some added items.    *)
LEMMA SwapsTyped ==
    ASSUME FitAssumption, Requested, Sound(fit), NEW idxs \in SUBSET Added, NEW cands \in Seq(Types)
    PROVE  LET trials == [k \in DOMAIN cands |-> With(idxs, cands[k])]
           IN  trials \in Seq(Fittings) /\ \A k \in DOMAIN trials : Prefix(trials[k])
<1>1. ASSUME NEW k \in DOMAIN cands PROVE With(idxs, cands[k]) \in Fittings /\ Prefix(With(idxs, cands[k]))
  <2>1. cands[k] \in Types
    OBVIOUS
  <2> QED
    BY <2>1, WithSound
<1>2. DOMAIN cands = 1..Len(cands) /\ Len(cands) \in Nat
  OBVIOUS
<1> QED
  BY <1>1, <1>2

(* What was settled stays so while nothing changes.                        *)
LEMMA SettledStays ==
    ASSUME UNCHANGED <<wanted, fit, current>>
    PROVE  /\ Kept' = Kept /\ Added' = Added /\ \A i : Settled(i)' = Settled(i)
           /\ Sound(fit)' = Sound(fit) /\ Score(fit)' = Score(fit) /\ Requested' = Requested
  BY DEF Kept, Relevant, Added, Settled, Damage, Candidates, UniqueOk, With, Score, Unstable, Sound, Prefix, Requested

LEMMA SwapSound ==
    ASSUME FitAssumption, EngineAssumption, SearchInv, Swap
    PROVE  SearchInv'
<1> DEFINE i == Len(Kept) + pos
<1>1. /\ phase = "swap" /\ phase \in Searching /\ Sound(fit) /\ Requested /\ FallbackSound /\ pos \in Nat \ {0} /\ improved \in BOOLEAN
      /\ wanted' = wanted /\ current \in Nat /\ (Valid(fit) => current = Score(fit))
      /\ ~improved => \A j \in Tried : Settled(j)
  BY DEF SearchInv, Swap, Searching
<1>2. Len(Kept) \in Nat /\ i \in Nat /\ i > Len(Kept) /\ fit \in Seq(Modules) /\ Len(fit) \in Nat
  BY <1>1, KeptTyped DEF Sound, Fittings
<1>3. Tried = {j \in Added : j < i}
  BY <1>1 DEF Tried
<1>4. CASE i > Len(fit)
  <2>1. UNCHANGED <<wanted, improved, fit, current, fallback>> /\ pos' = 1 /\ phase' \in {"classes", "round"}
    BY <1>4 DEF Swap, Go
  <2>2. Kept' = Kept /\ Added' = Added /\ (\A j : Settled(j)' = Settled(j)) /\ Sound(fit)' /\ Requested' /\ FallbackSound'
        /\ (Valid(fit) => current = Score(fit))'
    <3>1. Kept' = Kept /\ Added' = Added /\ (\A j : Settled(j)' = Settled(j)) /\ Sound(fit)' = Sound(fit)
          /\ Score(fit)' = Score(fit) /\ Requested' = Requested
      BY <2>1, SettledStays
    <3>2. FallbackSound' = FallbackSound
      BY <2>1 DEF FallbackSound, Kept, Relevant, Prefix, Meets, Unstable
    <3> QED
      BY <1>1, <2>1, <3>1, <3>2
  <2>3. ~improved => \A j \in Tried' : Settled(j)'
    <3>1. Tried' \subseteq Added
      BY <2>2 DEF Tried
    <3>2. \A j \in Added : j < i
      BY <1>2, <1>4 DEF Added
    <3> QED
      BY <1>1, <1>3, <2>2, <3>1, <3>2
  <2> QED
    BY <1>1, <2>1, <2>2, <2>3 DEF SearchInv, Searching, Enforced
<1>5. CASE ~(i > Len(fit))
  <2> DEFINE reworked == Relevant(fit[i].slot) /\ ~(Damage /\ fit[i].slot = "high")
             open == {t \in Types : t # fit[i].type /\ UniqueOk(fit, t, i)}
             cands == IF ~reworked THEN <<>> ELSE Picked(Candidates(fit[i].slot), open)
             trials == [k \in DOMAIN cands |-> With({i}, cands[k])]
  <2>1. Improves(trials) /\ pos' = pos + 1 /\ phase' = phase
    BY <1>5 DEF Swap
  <2>2. i \in DOMAIN fit /\ i \in Added /\ fit[i] \in Modules /\ fit[i].slot \in Slots /\ fit[i].type \in Types
    <3>1. i \in DOMAIN fit /\ i \in Added
      BY <1>2, <1>5 DEF Added
    <3>2. fit[i] \in Modules
      BY <1>2, <3>1
    <3> QED
      BY <3>1, <3>2 DEF Modules
  <2>3. Candidates(fit[i].slot) \in Seq(Types)
    BY <1>1, <2>2, CandidatesTyped
  <2>4. Picked(Candidates(fit[i].slot), open) \in Seq(Types)
        /\ ToSet(Picked(Candidates(fit[i].slot), open)) = ToSet(Candidates(fit[i].slot)) \cap open
    <3> HIDE DEF open
    <3> QED
      BY <2>3, OnlyKeeps
  <2>5. cands \in Seq(Types)
    <3> HIDE DEF open
    <3> QED
      BY <2>4
  <2>6. trials \in Seq(Fittings) /\ \A k \in DOMAIN trials : Prefix(trials[k])
    <3>1. {i} \in SUBSET Added
      BY <2>2
    <3> HIDE DEF cands, i
    <3> QED
      BY <1>1, <2>5, <3>1, SwapsTyped
  <2>7. /\ Sound(fit)' /\ FallbackSound' /\ Requested' /\ (current \in Nat /\ (Valid(fit) => current = Score(fit)))'
        /\ Best(trials, current) = 0 =>
             /\ UNCHANGED <<fit, current>>
             /\ \A k \in DOMAIN trials : Valid(trials[k]) => Score(trials[k]) <= current
    <3> HIDE DEF trials, i
    <3> QED
      BY <1>1, <2>1, <2>6, AdoptSound DEF Improves
  <2>8. improved' \in BOOLEAN /\ (~improved' => ~improved /\ Best(trials, current) = 0)
    <3> HIDE DEF trials
    <3> QED
      BY <1>1, <2>1 DEF Improves
  <2>9. ASSUME ~improved' PROVE \A j \in Tried' : Settled(j)'
    <3>1. ~improved /\ UNCHANGED <<fit, current>> /\ \A k \in DOMAIN trials : Valid(trials[k]) => Score(trials[k]) <= current
      BY <2>7, <2>8, <2>9
    <3>2. Settled(i)
      <4> SUFFICES ASSUME reworked, NEW t \in ToSet(Candidates(fit[i].slot)), UniqueOk(fit, t, i), Valid(With({i}, t))
                   PROVE  Score(With({i}, t)) <= current
        BY DEF Settled
      <4>1. t \in Types
        BY <2>3 DEF ToSet
      <4>2. CASE t = fit[i].type
        <5>1. With({i}, t) = fit
          BY <1>1, <2>2, <4>2, WithItself
        <5> QED
          BY <1>1, <5>1
      <4>3. CASE t # fit[i].type
        <5>1. t \in ToSet(cands)
          BY <2>4, <4>1, <4>3
        <5>2. PICK k \in DOMAIN cands : cands[k] = t
          BY <5>1 DEF ToSet
        <5>3. trials[k] = With({i}, t)
          BY <5>2
        <5> HIDE DEF cands
        <5> QED
          BY <3>1, <5>2, <5>3
      <4> QED
        BY <4>2, <4>3
    <3>3. Kept' = Kept /\ Added' = Added /\ \A j : Settled(j)' = Settled(j)
      BY <1>1, <3>1, SettledStays
    <3>4. Tried' = {j \in Added : j < i + 1}
      <4>1. phase' = "swap" /\ pos' = pos + 1 /\ pos \in Nat /\ Kept' = Kept /\ Added' = Added
        BY <1>1, <2>1, <3>3
      <4>2. Len(Kept') + pos' = i + 1
        BY <1>2, <4>1
      <4> HIDE DEF cands, i
      <4> QED
        BY ONLY <4>1, <4>2 DEF Tried
    <3>5. \A j \in Added : j < i + 1 => j < i \/ j = i
      BY <1>2 DEF Added
    <3> HIDE DEF i
    <3> QED
      BY <1>1, <1>3, <3>1, <3>2, <3>3, <3>4, <3>5
  <2> HIDE DEF trials
  <2> QED
    BY <1>1, <2>1, <2>7, <2>8, <2>9 DEF SearchInv, Searching, Enforced
<1> QED
  BY <1>4, <1>5

LEMMA ClassSound ==
    ASSUME FitAssumption, EngineAssumption, SearchInv, SwapClass
    PROVE  SearchInv'
<1>1. /\ phase = "classes" /\ phase \in Searching /\ Sound(fit) /\ Requested /\ FallbackSound /\ pos \in Nat \ {0} /\ improved \in BOOLEAN
      /\ wanted' = wanted /\ current \in Nat /\ (Valid(fit) => current = Score(fit))
      /\ ~improved => \A j \in Tried : Settled(j)
  BY DEF SearchInv, SwapClass, Searching
<1>2. Tried = Added
  BY <1>1 DEF Tried
<1>3. ASSUME UNCHANGED <<fit, current, improved>>, phase' \in {"classes", "round"}
      PROVE  ~improved' => \A j \in Tried' : Settled(j)'
  <2>1. Added' = Added /\ \A j : Settled(j)' = Settled(j)
    BY <1>1, <1>3, SettledStays
  <2>2. Tried' \subseteq Added'
    BY DEF Tried
  <2> QED
    BY <1>1, <1>2, <1>3, <2>1, <2>2
<1>4. CASE pos > Len(Hardpoints)
  <2>1. UNCHANGED <<wanted, improved, fit, current, fallback>> /\ pos' = 1 /\ phase' = "round"
    BY <1>4 DEF SwapClass, Go
  <2>2. Sound(fit)' = Sound(fit) /\ Score(fit)' = Score(fit) /\ Requested' = Requested
    BY <2>1, SettledStays
  <2>3. FallbackSound' = FallbackSound
    BY <2>1 DEF FallbackSound, Kept, Relevant, Prefix, Meets, Unstable
  <2> QED
    BY <1>1, <1>3, <2>1, <2>2, <2>3 DEF SearchInv, Searching, Enforced
<1>5. CASE ~(pos > Len(Hardpoints))
  <2> DEFINE class == Hardpoints[pos][1]
             idxs == {i \in Added : fit[i].slot = "high" /\ ClassOf(fit[i].type) = class}
             first == CHOOSE i \in idxs : \A j \in idxs : i <= j
             open == {t \in Types : ClassOf(t) = class /\ t # fit[first].type}
             cands == IF idxs = {} THEN <<>> ELSE Picked(Candidates("high"), open)
             trials == [k \in DOMAIN cands |-> With(idxs, cands[k])]
  <2>1. Improves(trials) /\ pos' = pos + 1 /\ phase' = phase
    BY <1>5 DEF SwapClass
  <2>2. cands \in Seq(Types)
    <3>1. Candidates("high") \in Seq(Types)
      BY <1>1, CandidatesTyped DEF FitAssumption
    <3> HIDE DEF idxs, open
    <3> QED
      BY <3>1, OnlyKeeps
  <2>3. trials \in Seq(Fittings) /\ \A k \in DOMAIN trials : Prefix(trials[k])
    <3>1. idxs \in SUBSET Added
      OBVIOUS
    <3> HIDE DEF cands, idxs
    <3> QED
      BY <1>1, <2>2, <3>1, SwapsTyped
  <2> HIDE DEF trials
  <2>4. /\ Sound(fit)' /\ FallbackSound' /\ Requested' /\ (current \in Nat /\ (Valid(fit) => current = Score(fit)))'
        /\ Best(trials, current) = 0 => UNCHANGED <<fit, current>>
    BY <1>1, <2>1, <2>3, AdoptSound DEF Improves
  <2>5. improved' \in BOOLEAN /\ (~improved' => ~improved /\ Best(trials, current) = 0)
    BY <1>1, <2>1 DEF Improves
  <2>6. ASSUME ~improved' PROVE \A j \in Tried' : Settled(j)'
    <3>1. UNCHANGED <<fit, current, improved>>
      BY <1>1, <2>4, <2>5, <2>6
    <3> QED
      BY <1>1, <1>3, <2>1, <2>6, <3>1
  <2> QED
    BY <1>1, <2>1, <2>4, <2>5, <2>6 DEF SearchInv, Searching, Enforced
<1> QED
  BY <1>4, <1>5

LEMMA RoundSound ==
    ASSUME FitAssumption, SearchInv, Round
    PROVE  SearchInv'
<1>1. /\ phase = "round" /\ Sound(fit) /\ Requested /\ FallbackSound /\ improved \in BOOLEAN
      /\ UNCHANGED <<wanted, fit, current, fallback>> /\ pos' = 1 /\ ~improved'
      /\ phase' = (IF improved THEN "swap" ELSE "enforce")
      /\ current \in Nat /\ (Valid(fit) => current = Score(fit))
      /\ ~improved => \A j \in Tried : Settled(j)
  BY DEF SearchInv, Round, Go, Searching
<1>2. /\ Kept' = Kept /\ Added' = Added /\ (\A i : Settled(i)' = Settled(i))
      /\ Sound(fit)' = Sound(fit) /\ Score(fit)' = Score(fit) /\ Requested' = Requested
  BY <1>1, SettledStays
<1>3. FallbackSound' = FallbackSound
  BY <1>1 DEF FallbackSound, Kept, Relevant, Prefix, Meets, Unstable
<1>4. phase' = "enforce" => \A i \in Added' : Settled(i)'
  <2>1. Tried = Added
    BY <1>1 DEF Tried
  <2> QED
    BY <1>1, <1>2, <2>1
<1>5. phase' = "swap" => Tried' = {}
  <2> SUFFICES ASSUME phase' = "swap", NEW i \in Added', i < Len(Kept') + pos' PROVE FALSE
    BY DEF Tried
  <2>1. Len(Kept) \in Nat /\ Len(fit) \in Nat
    BY <1>1, KeptTyped DEF Sound, Fittings
  <2> QED
    BY <1>1, <1>2, <2>1 DEF Added
<1>6. improved' \in BOOLEAN /\ phase' \in {"swap", "enforce"} /\ pos' \in Nat \ {0}
  <2>1. improved' = FALSE /\ phase' = (IF improved THEN "swap" ELSE "enforce") /\ pos' = 1
    BY DEF Round, Go
  <2>2. improved' \in BOOLEAN
    BY <2>1, Zenon
  <2>3. phase' \in {"swap", "enforce"}
    BY <2>1, Zenon
  <2>4. pos' \in Nat \ {0}
    BY <2>1
  <2> QED
    BY <2>2, <2>3, <2>4
<1>7. phase' \in {"swap", "classes", "round"} /\ ~improved' => \A i \in Tried' : Settled(i)'
  BY <1>5, <1>6
<1>8. FallbackSound' /\ Requested' /\ Sound(fit)' /\ current' \in Nat /\ (Valid(fit') => current' = Score(fit)')
  BY <1>1, <1>2, <1>3
<1>9. ~Enforced'
  BY <1>6 DEF Enforced
<1> QED
  BY <1>4, <1>6, <1>7, <1>8, <1>9 DEF SearchInv, Searching

LEMMA EnforceSound ==
    ASSUME FitAssumption, EngineAssumption, SearchInv, Enforce
    PROVE  SearchInv'
<1>1. /\ phase = "enforce" /\ Sound(fit) /\ Requested /\ FallbackSound /\ improved \in BOOLEAN
      /\ UNCHANGED <<wanted, current, improved, fallback>> /\ pos' = 1
      /\ phase' = (IF Damage THEN "arm" ELSE "done")
      /\ fit' = IF Soft /\ ~(Valid(fit) /\ Meets(fit)) /\ fallback # NoFit THEN fallback.items ELSE fit
  BY DEF SearchInv, Enforce, Go, Searching
<1>2. /\ Kept' = Kept /\ (\A f : Prefix(f)' = Prefix(f)) /\ (\A f : Meets(f)' = Meets(f)) /\ Requested' /\ Damage' = Damage
  BY <1>1 DEF Requested, Kept, Relevant, Prefix, Meets, Unstable, Damage
<1>3. FallbackSound'
  BY <1>1, <1>2 DEF FallbackSound
<1>4. Sound(fit)'
  <2>1. CASE fit' = fit
    BY <1>1, <1>2, <2>1 DEF Sound
  <2>2. CASE fallback # NoFit /\ fit' = fallback.items
    <3>1. fallback.items \in Fittings /\ Prefix(fallback.items) /\ Valid(fallback.items)
      BY <1>1, <2>2 DEF FallbackSound
    <3> QED
      BY <1>2, <2>2, <3>1 DEF Sound
  <2> QED
    BY <1>1, <2>1, <2>2
<1>5. Valid(Kept') => Valid(fit')
  BY <1>4 DEF Sound
<1>6. Soft /\ fallback # NoFit => Valid(fit') /\ Meets(fit)'
  <2>1. CASE Valid(fit) /\ Meets(fit)
    BY <1>1, <1>2, <2>1
  <2>2. CASE ~(Valid(fit) /\ Meets(fit)) /\ fallback # NoFit
    BY <1>1, <1>2, <2>2 DEF FallbackSound
  <2> QED
    BY <2>1, <2>2
<1>7. Soft' = Soft /\ fallback' = fallback /\ Damage' = Damage
  BY <1>1 DEF Soft, Damage
<1>8. phase' \in {"arm", "done"} /\ (phase' = "arm" => Damage')
  BY <1>1, <1>7
<1> QED
  BY <1>1, <1>2, <1>3, <1>4, <1>5, <1>6, <1>7, <1>8 DEF SearchInv, Searching, Enforced

LEMMA ArmSound ==
    ASSUME FitAssumption, EngineAssumption, SearchInv, Arm
    PROVE  SearchInv'
<1>1. /\ phase = "arm" /\ Sound(fit) /\ Requested /\ FallbackSound /\ improved \in BOOLEAN
      /\ UNCHANGED <<wanted, current, improved, fallback>> /\ pos' = 1 /\ phase' = "done"
      /\ fit' = Loaded(Armed)
  BY DEF SearchInv, Arm, Go
<1>2. /\ Kept' = Kept /\ (\A f : Prefix(f)' = Prefix(f)) /\ (\A f : Meets(f)' = Meets(f)) /\ Requested' /\ Damage' = Damage
  BY <1>1 DEF Requested, Kept, Relevant, Prefix, Meets, Unstable, Damage
<1>3. FallbackSound'
  BY <1>1, <1>2 DEF FallbackSound
<1>4. Droneless(fit) \in Seq(Modules) /\ fit \in Seq(Modules)
  BY <1>1, OnlyKeeps DEF Droneless, Sound, Fittings
<1>5. Armed \in Seq(Modules) /\ Valid(Armed) = Valid(fit)
  <2>1. CASE Armed = fit
    BY <1>4, <2>1
  <2>2. CASE Flight # NoDrones /\ Armed = Append(Droneless(fit), Module(Flight, "drone"))
    <3>1. Module(Flight, "drone") \in Modules
      BY <2>2, FreshTyped DEF FitAssumption
    <3>2. Armed \in Seq(Modules)
      BY <1>4, <2>2, <3>1
    <3>3. Valid(Armed) = Valid(Droneless(fit)) /\ Valid(Droneless(fit)) = Valid(fit)
      BY <1>4, <2>2 DEF EngineAssumption, EngineSays
    <3> QED
      BY <3>2, <3>3
  <2> QED
    BY <2>1, <2>2 DEF Armed
<1>6. Valid(fit') = Valid(fit)
  BY <1>1, <1>5 DEF EngineAssumption, EngineSays
<1>7. Damage
  BY DEF SearchInv, Arm
<1> QED
  BY <1>1, <1>2, <1>3, <1>6, <1>7 DEF SearchInv, Searching, Sound, Enforced

(* For any hull, modules, engine and request: what the user fitted and the *)
(* objective does not rework keeps its place through racks, greedy fill,   *)
(* swaps and the fallback; a fit that was valid after the clearing is      *)
(* valid in the end; if a fit that was tried met the constraints, so does  *)
(* the one the search ends with; and where it ends no single swap of an    *)
(* added module scores more (optimize_fit, local_search and                *)
(* enforce_feasible).                                                      *)
THEOREM SearchIsSound ==
    ASSUME FitAssumption, EngineAssumption
    PROVE  OptSpec => [](ResultSound /\ LocalOptimum)
<1>1. OptInit => SearchInv
  <2> SUFFICES ASSUME OptInit PROVE SearchInv
    OBVIOUS
  <2>1. NoFit \in [items : Fittings, metric : Int]
    BY DEF NoFit, Fittings
  <2>2. FallbackSound
    BY <2>1 DEF OptInit, FallbackSound
  <2>3. Requested /\ phase = "begin" /\ pos = 1 /\ improved = FALSE
    BY DEF OptInit, Requested
  <2>4. ~improved /\ improved \in BOOLEAN /\ ~Enforced
    BY <2>3 DEF Enforced
  <2> QED
    BY <2>2, <2>3, <2>4 DEF SearchInv, Searching
<1>2. SearchInv /\ [OptNext]_optVars => SearchInv'
  <2> SUFFICES ASSUME SearchInv, [OptNext]_optVars PROVE SearchInv'
    OBVIOUS
  <2>1. CASE UNCHANGED optVars
    <3>1. UNCHANGED <<wanted, phase, pos, fit, current, improved, fallback>>
      BY <2>1 DEF optVars
    <3>2. /\ Kept' = Kept /\ Added' = Added /\ (\A i : Settled(i)' = Settled(i))
          /\ Sound(fit)' = Sound(fit) /\ Score(fit)' = Score(fit) /\ Requested' = Requested
      BY <3>1, SettledStays
    <3>3. /\ FallbackSound' = FallbackSound /\ Enforced' = Enforced /\ Meets(fit)' = Meets(fit) /\ Damage' = Damage
          /\ Tried' = Tried
      BY <3>1, <3>2 DEF FallbackSound, Kept, Relevant, Prefix, Meets, Unstable, Enforced, Soft, Damage, Tried
    <3> QED
      BY <3>1, <3>2, <3>3 DEF SearchInv
  <2> QED
    BY <2>1, BeginSound, RackSound, FillSound, SwapSound, ClassSound, RoundSound, EnforceSound, ArmSound DEF OptNext
<1>3. SearchInv => ResultSound /\ LocalOptimum
  BY DEF SearchInv, ResultSound, LocalOptimum, Searching, Sound, Settled
<1> QED
  BY <1>1, <1>2, <1>3, PTL DEF OptSpec

-----------------------------------------------------------------------------
(* The capacitor's period.                                                 *)
Divides(d, n) == \E k \in Nat : n = k * d

LEMMA DividesMore ==
    ASSUME NEW d \in Nat, NEW n \in Nat, NEW q \in Nat, Divides(d, n)
    PROVE  Divides(d, n * q)
<1>1. PICK k \in Nat : n = k * d
  BY DEF Divides
<1>2. n * q = (q * k) * d /\ q * k \in Nat
  BY <1>1
<1> QED
  BY <1>2 DEF Divides

LEMMA DividesSum ==
    ASSUME NEW d \in Nat, NEW m \in Nat, NEW n \in Nat, Divides(d, m), Divides(d, n)
    PROVE  Divides(d, m + n)
<1>1. PICK k \in Nat : m = k * d
  BY DEF Divides
<1>2. PICK l \in Nat : n = l * d
  BY DEF Divides
<1>3. m + n = (k + l) * d /\ k + l \in Nat
  BY <1>1, <1>2
<1> QED
  BY <1>3 DEF Divides

LEMMA Quotient ==
    ASSUME NEW a \in Int, NEW b \in Int, b > 0
    PROVE  a = b * (a \div b) + (a % b)
  OBVIOUS

LEMMA QuotientIs ==
    ASSUME NEW a \in Int, NEW b \in Int, b > 0, NEW q \in Int, q * b <= a, a < q * b + b
    PROVE  a \div b = q
  OBVIOUS

LEMMA OneMore == \A a, b \in Int : (a + 1) * b = a * b + b
  OBVIOUS

LEMMA Remains ==
    ASSUME NEW a \in Nat, NEW b \in Nat \ {0}
    PROVE  /\ a % b \in Nat /\ a % b < b /\ a \div b \in Nat
           /\ a = b * (a \div b) + (a % b)
<1>1. a % b \in Nat /\ a % b < b /\ a \div b \in Nat
  OBVIOUS
<1>2. a = b * (a \div b) + (a % b)
  BY Quotient
<1> QED
  BY <1>1, <1>2

GcdOf(gcd, y) == gcd = [b \in 0..y |-> [a \in Nat |-> IF b = 0 THEN a ELSE gcd[a % b][b]]]

LEMMA GcdDefined ==
    ASSUME NEW y \in Nat
    PROVE  \E gcd : GcdOf(gcd, y)
<1> DEFINE Good == {n \in Nat : \E gcd : GcdOf(gcd, n)}
<1>1. 0 \in Good
  <2> DEFINE h == [b \in 0..0 |-> [a \in Nat |-> a]]
  <2>1. GcdOf(h, 0)
    BY DEF GcdOf
  <2> QED
    BY <2>1
<1>2. ASSUME NEW n \in Nat, n \in Good PROVE n + 1 \in Good
  <2>1. PICK g : GcdOf(g, n)
    BY <1>2
  <2> DEFINE h == [b \in 0..n + 1 |-> IF b <= n THEN g[b] ELSE [a \in Nat |-> g[a % b][b]]]
             H(b) == [a \in Nat |-> IF b = 0 THEN a ELSE h[a % b][b]]
  <2>2. \A b \in 0..n : h[b] = g[b]
    OBVIOUS
  <2>3. \A b \in 0..n : g[b] = [a \in Nat |-> IF b = 0 THEN a ELSE g[a % b][b]]
    BY <2>1 DEF GcdOf
  <2>4. ASSUME NEW b \in 0..n + 1, b # 0, NEW a \in Nat PROVE h[a % b][b] = g[a % b][b]
    <3>1. a % b \in 0..n
      BY <2>4, Remains
    <3> QED
      BY <2>2, <3>1
  <2>5. ASSUME NEW b \in 0..n + 1 PROVE h[b] = H(b)
    <3>1. CASE b <= n
      <4>1. b \in 0..n
        BY <3>1
      <4>2. [a \in Nat |-> IF b = 0 THEN a ELSE g[a % b][b]] = H(b)
        <5> HIDE DEF h
        <5> QED
          BY <2>4
      <4> HIDE DEF h, H
      <4> QED
        BY <2>2, <2>3, <4>1, <4>2
    <3>2. CASE ~(b <= n)
      <4>1. b # 0 /\ h[b] = [a \in Nat |-> g[a % b][b]]
        BY <3>2
      <4>2. [a \in Nat |-> g[a % b][b]] = H(b)
        <5> HIDE DEF h
        <5> QED
          BY <2>4, <4>1
      <4> HIDE DEF h, H
      <4> QED
        BY <4>1, <4>2
    <3> QED
      BY <3>1, <3>2
  <2>6. h = [b \in 0..n + 1 |-> H(b)]
    <3>1. h = [b \in 0..n + 1 |-> h[b]]
      OBVIOUS
    <3> HIDE DEF h, H
    <3> QED
      BY <2>5, <3>1
  <2>7. GcdOf(h, n + 1)
    <3> HIDE DEF h
    <3> QED
      BY <2>6 DEF GcdOf
  <2> HIDE DEF h, H
  <2> QED
    BY <2>7
<1> HIDE DEF Good
<1>3. Nat \subseteq Good
  BY <1>1, <1>2, SetInduction
<1> QED
  BY <1>3 DEF Good

LEMMA GcdDivides ==
    ASSUME NEW x \in Nat \ {0}, NEW y \in Nat
    PROVE  Gcd(x, y) \in Nat \ {0} /\ Divides(Gcd(x, y), x) /\ Divides(Gcd(x, y), y)
<1> DEFINE gcd == CHOOSE g : GcdOf(g, y)
<1>1. GcdOf(gcd, y)
  BY GcdDefined
<1>2. Gcd(x, y) = gcd[y][x]
  BY DEF Gcd, GcdOf
<1> HIDE DEF gcd
<1>3. \A b \in 0..y : \A a \in Nat : gcd[b][a] = IF b = 0 THEN a ELSE gcd[a % b][b]
  BY <1>1 DEF GcdOf
<1> DEFINE Is(b, a) == gcd[b][a] \in Nat \ {0} /\ Divides(gcd[b][a], a) /\ Divides(gcd[b][a], b)
           Good == {n \in Nat : \A b \in 0..y : b <= n => \A a \in Nat : (a # 0 \/ b # 0) => Is(b, a)}
<1>4. ASSUME NEW b \in 0..y, NEW a \in Nat, a # 0 \/ b # 0, b # 0 => Is(a % b, b) PROVE Is(b, a)
  <2>1. CASE b = 0
    <3>1. gcd[b][a] = a /\ a \in Nat \ {0}
      BY <1>3, <1>4, <2>1
    <3>2. a = 1 * a /\ b = 0 * a
      BY <2>1
    <3> QED
      BY <3>1, <3>2 DEF Divides
  <2>2. CASE b # 0
    <3> DEFINE d == gcd[a % b][b]
    <3>1. gcd[b][a] = d
      BY <1>3, <2>2
    <3>2. d \in Nat \ {0} /\ Divides(d, b) /\ Divides(d, a % b)
      BY <1>4, <2>2
    <3>3. a % b \in Nat /\ a \div b \in Nat /\ a = b * (a \div b) + (a % b)
      BY <2>2, Remains
    <3> HIDE DEF d
    <3>4. Divides(d, b * (a \div b))
      BY <3>2, <3>3, DividesMore
    <3>5. b * (a \div b) \in Nat
      BY <3>3
    <3>6. Divides(d, a)
      BY <3>2, <3>3, <3>4, <3>5, DividesSum
    <3> HIDE DEF d
    <3> QED
      BY ONLY <3>1, <3>2, <3>6
  <2> QED
    BY <2>1, <2>2
<1> HIDE DEF Is
<1>5. 0 \in Good
  BY <1>4
<1>6. ASSUME NEW n \in Nat, n \in Good PROVE n + 1 \in Good
  <2> SUFFICES ASSUME NEW b \in 0..y, b <= n + 1, NEW a \in Nat, a # 0 \/ b # 0 PROVE Is(b, a)
    OBVIOUS
  <2>1. ASSUME b # 0 PROVE Is(a % b, b)
    <3>1. a % b \in 0..y /\ a % b <= n
      BY <2>1, Remains
    <3> QED
      BY <1>6, <2>1, <3>1
  <2> QED
    BY <1>4, <2>1
<1> HIDE DEF Good
<1>7. Nat \subseteq Good
  BY <1>5, <1>6, SetInduction
<1>8. Is(y, x)
  BY <1>7 DEF Good
<1> QED
  BY <1>2, <1>8 DEF Is

DrainSet == [need : Int, cycle : Nat \ {0}, reload : Nat, clip : Nat]

LEMMA DrainsOf ==
    ASSUME NEW d \in DrainSet
    PROVE  d.cycle \in Nat \ {0} /\ d.reload \in Nat /\ d.clip \in Nat
  BY DEF DrainSet

(* How long a module pauses after its clip.                                *)
Pause(d) == IF Reloads(d) THEN d.reload ELSE 0

LEMMA PeriodOf ==
    ASSUME NEW d \in DrainSet
    PROVE  /\ FullPeriod(d) \in Nat \ {0} /\ FullPeriod(d) = Burst(d) * d.cycle + Pause(d)
           /\ Burst(d) \in Nat \ {0} /\ Pause(d) \in Nat
<1>1. d.cycle \in Nat \ {0} /\ d.reload \in Nat /\ d.clip \in Nat
  BY DrainsOf
<1>2. CASE Reloads(d)
  <2>1. FullPeriod(d) = d.clip * d.cycle + d.reload /\ Burst(d) = d.clip /\ Pause(d) = d.reload
        /\ d.reload > 0 /\ d.clip > 0
    BY <1>2 DEF FullPeriod, Burst, Pause, Reloads
  <2>2. d.clip * d.cycle \in Nat
    BY <1>1
  <2> QED
    BY <1>1, <2>1, <2>2
<1>3. CASE ~Reloads(d)
  <2>1. FullPeriod(d) = d.cycle /\ Burst(d) = 1 /\ Pause(d) = 0
    BY <1>3 DEF FullPeriod, Burst, Pause
  <2> QED
    BY <1>1, <2>1
<1> QED
  BY <1>2, <1>3

(* What rounding makes of a period, and how far off it is at most.         *)
LEMMA RoundedIs ==
    ASSUME CapAssumption, NEW d \in DrainSet
    PROVE  /\ Rounded(d) \in Nat \ {0}
           /\ Fine <= 2 * FullPeriod(d) => 2 * (FullPeriod(d) - Rounded(d) * Fine) \in (-Fine)..Fine
<1> DEFINE F == FullPeriod(d)
           R == (2 * F + Fine) \div (2 * Fine)
           rest == (2 * F + Fine) % (2 * Fine)
<1>1. F \in Nat \ {0} /\ Fine \in Nat \ {0}
  BY PeriodOf DEF CapAssumption
<1>2. 2 * F + Fine \in Nat /\ 2 * Fine \in Nat \ {0}
  BY <1>1
<1>3. R \in Nat /\ rest \in Nat /\ rest < 2 * Fine /\ 2 * F + Fine = (2 * Fine) * R + rest
  <2> HIDE DEF F
  <2> QED
    BY <1>2, Remains
<1>4. Rounded(d) = IF R = 0 THEN 1 ELSE R
  BY DEF Rounded
<1> HIDE DEF R, rest
<1>5. ASSUME Fine <= 2 * F PROVE Rounded(d) = R /\ 2 * (F - R * Fine) \in (-Fine)..Fine
  <2> HIDE DEF F
  <2>1. R # 0
    <3> SUFFICES ASSUME R = 0 PROVE FALSE
      OBVIOUS
    <3>1. (2 * Fine) * R = 0
      BY <1>1
    <3> QED
      BY <1>1, <1>3, <1>5, <3>1
  <2>2. R * Fine \in Int /\ (2 * Fine) * R = 2 * (R * Fine)
    BY <1>1, <1>3
  <2>3. 2 * (F - R * Fine) = rest - Fine
    BY <1>1, <1>3, <2>2
  <2> QED
    BY <1>1, <1>3, <1>4, <2>1, <2>2, <2>3
<1>6. Rounded(d) \in Nat \ {0}
  BY <1>3, <1>4
<1> QED
  BY <1>5, <1>6

(* The least common multiple, as far as it is a multiple.                  *)
LEMMA LcmDivides ==
    ASSUME NEW a \in Nat \ {0}, NEW p \in Nat \ {0}
    PROVE  /\ (a \div Gcd(a, p)) * p \in Nat \ {0} /\ Divides(p, (a \div Gcd(a, p)) * p)
           /\ \A f \in Nat : Divides(f, a) => Divides(f, (a \div Gcd(a, p)) * p)
<1> DEFINE g == Gcd(a, p)
<1>1. g \in Nat \ {0} /\ Divides(g, a) /\ Divides(g, p)
  BY GcdDivides
<1> HIDE DEF g
<1>2. PICK k \in Nat : a = k * g
  BY <1>1 DEF Divides
<1>3. PICK l \in Nat : p = l * g
  BY <1>1 DEF Divides
<1>4. a \div g = k /\ k # 0
  <2>1. g \in Int /\ g > 0 /\ k \in Int /\ k * g <= a /\ a < k * g + g
    BY <1>1, <1>2
  <2>2. a \div g = k
    BY <2>1, QuotientIs
  <2> QED
    BY <1>1, <1>2, <2>2
<1>5. k * p \in Nat \ {0}
  <2>1. k > 0 /\ p > 0 => k * p > 0
    BY <1>2
  <2> QED
    BY <1>2, <1>4, <2>1
<1>6. Divides(p, k * p)
  BY <1>2 DEF Divides
<1>7. k * p = a * l
  BY <1>1, <1>2, <1>3
<1>8. ASSUME NEW f \in Nat, Divides(f, a) PROVE Divides(f, k * p)
  BY <1>3, <1>7, <1>8, DividesMore
<1> QED
  BY <1>4, <1>5, <1>6, <1>8 DEF g

PeriodsOf(acc, ds) ==
    acc = [i \in 0..Len(ds) |->
             IF i = 0 THEN 1
             ELSE LET p == Rounded(ds[i])
                      lcm == (acc[i - 1] \div Gcd(acc[i - 1], p)) * p
                  IN IF acc[i - 1] = MaxPeriod \/ lcm > MaxPeriod THEN MaxPeriod ELSE lcm]

(* The period is a multiple of every module's, as rounded, unless it is the *)
(* longest.                                                                *)
LEMMA PeriodIsCommon ==
    ASSUME CapAssumption, NEW ds \in Seq(DrainSet)
    PROVE  /\ LcmPeriod(ds) \in Nat \ {0}
           /\ LcmPeriod(ds) # MaxPeriod => \A i \in 1..Len(ds) : Divides(Rounded(ds[i]), LcmPeriod(ds))
<1> DEFINE n == Len(ds)
           step == [i \in 1..n |-> [a \in Nat \ {0} |->
                      LET p == Rounded(ds[i])
                          lcm == (a \div Gcd(a, p)) * p
                      IN IF a = MaxPeriod \/ lcm > MaxPeriod THEN MaxPeriod ELSE lcm]]
           Common(i) == {a \in Nat \ {0} : a # MaxPeriod => \A j \in 1..i : Divides(Rounded(ds[j]), a)}
           X == [i \in 0..n |-> Common(i)]
<1>1. n \in Nat /\ \A i \in 1..n : ds[i] \in DrainSet
  OBVIOUS
<1>2. 1 \in X[0]
  BY <1>1
<1>3. ASSUME NEW i \in 1..n, NEW a \in X[i - 1] PROVE step[i][a] \in X[i]
  <2>1. i - 1 \in 0..n /\ i \in 0..n
    BY <1>1
  <2>2. a \in Nat \ {0} /\ (a # MaxPeriod => \A j \in 1..i - 1 : Divides(Rounded(ds[j]), a))
    BY <2>1
  <2> DEFINE p == Rounded(ds[i])
             lcm == (a \div Gcd(a, p)) * p
  <2>3. p \in Nat \ {0}
    BY <1>1, RoundedIs
  <2>4. step[i][a] = IF a = MaxPeriod \/ lcm > MaxPeriod THEN MaxPeriod ELSE lcm
    BY <2>2
  <2>5. MaxPeriod \in Nat \ {0}
    BY DEF CapAssumption
  <2>6. /\ lcm \in Nat \ {0} /\ Divides(p, lcm)
        /\ \A f \in Nat : Divides(f, a) => Divides(f, lcm)
    <3> HIDE DEF p
    <3> QED
      BY <2>2, <2>3, LcmDivides
  <2>7. ASSUME NEW j \in 1..i PROVE Rounded(ds[j]) \in Nat
    BY <1>1, <2>7, RoundedIs
  <2>8. ASSUME a # MaxPeriod, NEW j \in 1..i PROVE Divides(Rounded(ds[j]), lcm)
    <3>1. CASE j = i
      BY <2>6, <3>1
    <3>2. CASE j # i
      <4>1. j \in 1..i - 1
        BY <3>2
      <4>2. Divides(Rounded(ds[j]), a)
        BY <2>2, <2>8, <4>1
      <4> HIDE DEF lcm
      <4> QED
        BY <2>6, <2>7, <4>2
    <3> QED
      BY <3>1, <3>2
  <2>9. step[i][a] \in Common(i)
    <3> HIDE DEF lcm, step
    <3> QED
      BY <2>4, <2>5, <2>6, <2>8
  <2> HIDE DEF Common, step
  <2> QED
    BY <2>1, <2>9
<1> HIDE DEF X
<1>4. Staged(n, X, 1, step)
  <2> HIDE DEF step, n
  <2> QED
    BY <1>1, <1>2, <1>3, StagesDefine
<1> DEFINE acc == CHOOSE f : PeriodsOf(f, ds)
<1>5. PeriodsOf(acc, ds)
  <2>1. PICK f : /\ f = [i \in 0..n |-> f[i]] /\ f[0] = 1
                 /\ \A i \in 1..n : f[i] = step[i][f[i - 1]]
                 /\ \A i \in 0..n : f[i] \in X[i]
    BY <1>4 DEF Staged
  <2>2. ASSUME NEW i \in 1..n
        PROVE  f[i] = LET p == Rounded(ds[i])
                          lcm == (f[i - 1] \div Gcd(f[i - 1], p)) * p
                      IN IF f[i - 1] = MaxPeriod \/ lcm > MaxPeriod THEN MaxPeriod ELSE lcm
    <3>1. i - 1 \in 0..n
      BY <1>1
    <3>2. f[i - 1] \in Nat \ {0}
      BY <2>1, <3>1 DEF X
    <3> QED
      BY <2>1, <3>2
  <2>3. PeriodsOf(f, ds)
    <3>1. \A i \in 0..n : i # 0 => i \in 1..n
      BY <1>1
    <3> DEFINE F(i) == IF i = 0 THEN 1
                       ELSE LET p == Rounded(ds[i])
                                lcm == (f[i - 1] \div Gcd(f[i - 1], p)) * p
                            IN IF f[i - 1] = MaxPeriod \/ lcm > MaxPeriod THEN MaxPeriod ELSE lcm
    <3>2. \A i \in 0..n : f[i] = F(i)
      BY <2>1, <2>2, <3>1
    <3>3. f = [i \in 0..n |-> F(i)]
      <4> HIDE DEF F
      <4> QED
        BY <2>1, <3>2
    <3> QED
      BY <3>3 DEF PeriodsOf
  <2> QED
    BY <2>3
<1>6. LcmPeriod(ds) = acc[n]
  BY DEF LcmPeriod, PeriodsOf
<1> HIDE DEF acc
<1>7. \A i \in 0..n : acc[i] \in X[i]
  <2>1. acc[0] \in X[0]
    BY <1>1, <1>2, <1>5 DEF PeriodsOf
  <2>2. ASSUME NEW i \in 1..n, acc[i - 1] \in X[i - 1] PROVE acc[i] \in X[i]
    <3>1. i \in 0..n /\ i # 0 /\ i - 1 \in 0..n
      BY <1>1
    <3>2. acc[i - 1] \in Nat \ {0}
      BY <2>2, <3>1 DEF X
    <3>3. acc[i] = step[i][acc[i - 1]]
      BY <1>5, <3>1, <3>2 DEF PeriodsOf
    <3> HIDE DEF step
    <3> QED
      BY <1>3, <2>2, <3>3
  <2> HIDE DEF n, step
  <2> QED
    BY <1>1, <2>1, <2>2, StagesAre
<1>8. acc[n] \in Common(n)
  <2>1. n \in 0..n
    BY <1>1
  <2> HIDE DEF n, Common
  <2> QED
    BY <1>7, <2>1 DEF X
<1> QED
  BY <1>6, <1>8

-----------------------------------------------------------------------------
(* Module i is on time: it made so many whole periods and so many shots of *)
(* the one it is in, the last of them not after the last event.            *)
IsOnTime(d, t, left, shotsFired, then, q, j) ==
    /\ j < Burst(d) /\ left = Fresh(d) - j
    /\ t = q * FullPeriod(d) + j * d.cycle
    /\ shotsFired = q * Burst(d) + j
    /\ j > 0 => q * FullPeriod(d) <= then
    /\ j = 0 /\ q > 0 => (q - 1) * FullPeriod(d) <= then

OnTime(i) == \E q, j \in Nat : IsOnTime(modules[i], dueAt[i], shots[i], fired[i], lastAt, q, j)

CapInv ==
    /\ modules \in Seq(DrainSet) /\ lastAt \in Nat
    /\ dueAt \in [DOMAIN modules -> Nat] /\ shots \in [DOMAIN modules -> Nat] /\ fired \in [DOMAIN modules -> Nat]
    /\ modules = <<>> => lastAt = 0
    /\ verdict = "running" => \A i \in DOMAIN modules : lastAt <= dueAt[i] /\ OnTime(i)

(* What a module did before, and does when it is due.                      *)
LEMMA OnTimeAtFirst ==
    ASSUME NEW d \in DrainSet, NEW then \in Nat
    PROVE  Fresh(d) \in Nat /\ \E q, j \in Nat : IsOnTime(d, 0, Fresh(d), 0, then, q, j)
<1>1. FullPeriod(d) \in Nat /\ Burst(d) \in Nat \ {0} /\ d.cycle \in Nat /\ d.clip \in Nat
  BY PeriodOf, DrainsOf
<1>2. Fresh(d) \in Nat
  BY <1>1 DEF Fresh
<1>3. 0 * FullPeriod(d) + 0 * d.cycle = 0 /\ 0 * Burst(d) + 0 = 0 /\ Fresh(d) - 0 = Fresh(d)
  BY <1>1, <1>2
<1>4. IsOnTime(d, 0, Fresh(d), 0, then, 0, 0)
  BY <1>1, <1>3 DEF IsOnTime
<1> QED
  BY <1>2, <1>4

LEMMA OnTimeLater ==
    ASSUME NEW d \in DrainSet, NEW t, NEW left, NEW count, NEW then \in Nat, NEW after \in Nat, then <= after,
           NEW q \in Nat, NEW j \in Nat, IsOnTime(d, t, left, count, then, q, j)
    PROVE  IsOnTime(d, t, left, count, after, q, j)
<1>1. FullPeriod(d) \in Nat
  BY PeriodOf
<1>2. q * FullPeriod(d) \in Int /\ (q - 1) * FullPeriod(d) \in Int
  BY <1>1
<1> QED
  BY <1>2 DEF IsOnTime

LEMMA OnTimeNext ==
    ASSUME NEW d \in DrainSet, NEW t \in Nat, NEW left \in Nat, NEW count \in Nat, NEW then \in Nat,
           NEW q \in Nat, NEW j \in Nat, IsOnTime(d, t, left, count, then, q, j)
    PROVE  LET empty == Reloads(d) /\ left = 1
               next == t + d.cycle + (IF empty THEN d.reload ELSE 0)
               rest == IF empty THEN d.clip ELSE IF Reloads(d) THEN left - 1 ELSE left
           IN /\ next \in Nat /\ next >= t /\ rest \in Nat
              /\ \E k, l \in Nat : IsOnTime(d, next, rest, count + 1, t, k, l)
<1> DEFINE empty == Reloads(d) /\ left = 1
           next == t + d.cycle + (IF empty THEN d.reload ELSE 0)
           rest == IF empty THEN d.clip ELSE IF Reloads(d) THEN left - 1 ELSE left
           F == FullPeriod(d)
           B == Burst(d)
           c == d.cycle
<1>1. F \in Nat \ {0} /\ F = B * c + Pause(d) /\ B \in Nat \ {0} /\ Pause(d) \in Nat
  BY PeriodOf
<1>2. c \in Nat \ {0} /\ d.reload \in Nat /\ d.clip \in Nat
  BY DrainsOf
<1>3. j < B /\ left = Fresh(d) - j /\ t = q * F + j * c /\ count = q * B + j
  BY DEF IsOnTime
<1>4. Fresh(d) \in Nat /\ (Reloads(d) => Fresh(d) = B /\ B = d.clip) /\ (~Reloads(d) => Fresh(d) = 0 /\ B = 1)
  BY <1>2 DEF Fresh, Burst, Reloads
<1>5. next \in Nat /\ next >= t /\ rest \in Nat
  <2>1. CASE empty
    BY <1>2, <2>1
  <2>2. CASE ~empty
    BY <1>2, <1>3, <1>4, <2>2
  <2> QED
    BY <2>1, <2>2
<1>6. q * F \in Nat /\ j * c \in Nat /\ q * B \in Nat /\ q * F <= t
  <2>1. q * F \in Nat /\ j * c \in Nat /\ q * B \in Nat
    BY <1>1, <1>2
  <2> HIDE DEF F, c, B
  <2> QED
    BY <1>3, <2>1
<1>7. ASSUME j + 1 = B PROVE \E k, l \in Nat : IsOnTime(d, next, rest, count + 1, t, k, l)
  <2>1. next = t + c + Pause(d) /\ rest = Fresh(d)
    BY <1>2, <1>3, <1>4, <1>7 DEF Pause
  <2>2. (q + 1) * F + 0 * c = next
    <3>1. (q + 1) * F = q * F + F /\ 0 * c = 0
      <4> HIDE DEF F, c
      <4> QED
        BY <1>1, <1>2, OneMore
    <3>2. B * c = j * c + c
      <4> HIDE DEF c
      <4> QED
        BY <1>2, <1>7, OneMore
    <3> HIDE DEF F, c, B, next
    <3> QED
      BY <1>1, <1>2, <1>3, <1>6, <2>1, <3>1, <3>2
  <2>3. (q + 1) * B + 0 = count + 1
    <3>1. (q + 1) * B = q * B + B
      <4> HIDE DEF B
      <4> QED
        BY <1>1, OneMore
    <3> HIDE DEF B
    <3> QED
      BY <1>1, <1>3, <1>6, <1>7, <3>1
  <2>4. q + 1 \in Nat /\ (q + 1) - 1 = q /\ Fresh(d) - 0 = Fresh(d) /\ 0 < B
    BY <1>1, <1>4
  <2>5. IsOnTime(d, next, rest, count + 1, t, q + 1, 0)
    <3> HIDE DEF next, rest
    <3> QED
      BY <1>6, <2>1, <2>2, <2>3, <2>4 DEF IsOnTime
  <2> HIDE DEF next, rest
  <2> QED
    BY <2>4, <2>5
<1>8. ASSUME j + 1 # B PROVE \E k, l \in Nat : IsOnTime(d, next, rest, count + 1, t, k, l)
  <2>1. Reloads(d) /\ ~empty /\ j + 1 < B
    BY <1>1, <1>3, <1>4, <1>8
  <2>2. next = t + c /\ rest = Fresh(d) - (j + 1)
    BY <1>2, <1>3, <1>4, <2>1
  <2>3. next = q * F + (j + 1) * c
    <3>1. (j + 1) * c = j * c + c
      <4> HIDE DEF c
      <4> QED
        BY ONLY <1>2, j \in Nat, OneMore
    <3> HIDE DEF F, c, next
    <3> QED
      BY <1>2, <1>3, <1>6, <2>2, <3>1
  <2>4. count + 1 = q * B + (j + 1)
    <3> HIDE DEF B
    <3> QED
      BY <1>3, <1>6
  <2>5. j + 1 \in Nat /\ j + 1 > 0
    OBVIOUS
  <2>6. IsOnTime(d, next, rest, count + 1, t, q, j + 1)
    <3> HIDE DEF next, rest
    <3> QED
      BY <1>6, <2>1, <2>2, <2>3, <2>4, <2>5 DEF IsOnTime
  <2> HIDE DEF next, rest
  <2> QED
    BY <2>5, <2>6
<1>9. \E k, l \in Nat : IsOnTime(d, next, rest, count + 1, t, k, l)
  <2> HIDE DEF next, rest, B
  <2> QED
    BY <1>7, <1>8
<1> QED
  BY <1>5, <1>9

(* A multiple of its period that comes after the last event and not after  *)
(* the next is when a module is due, with a full clip.                     *)
LEMMA OnTimeAligned ==
    ASSUME NEW d \in DrainSet, NEW t \in Nat, NEW left, NEW count, NEW then \in Nat, NEW k \in Nat,
           NEW q \in Nat, NEW j \in Nat, IsOnTime(d, t, left, count, then, q, j),
           then < k * FullPeriod(d), k * FullPeriod(d) <= t
    PROVE  t = k * FullPeriod(d) /\ left = Fresh(d) /\ count = k * Burst(d)
<1> DEFINE F == FullPeriod(d)
           B == Burst(d)
           c == d.cycle
<1>1. F \in Nat \ {0} /\ F = B * c + Pause(d) /\ B \in Nat \ {0} /\ Pause(d) \in Nat /\ c \in Nat \ {0}
  BY PeriodOf, DrainsOf
<1>2. /\ j < B /\ left = Fresh(d) - j /\ t = q * F + j * c /\ count = q * B + j
      /\ (j > 0 => q * F <= then) /\ (j = 0 /\ q > 0 => (q - 1) * F <= then)
  BY DEF IsOnTime
<1>3. then < k * F /\ k * F <= t
  OBVIOUS
<1> HIDE DEF F, B, c
<1>4. q * F \in Nat /\ k * F \in Nat /\ j * c \in Nat
  BY <1>1
<1>5. \A a, b \in Int : a * F < b * F => a < b
  <2> SUFFICES ASSUME NEW a \in Int, NEW b \in Int, a * F < b * F, b <= a PROVE FALSE
    OBVIOUS
  <2>1. (a - b) * F >= 0 /\ (a - b) * F = a * F - b * F
    BY <1>1
  <2> QED
    BY <1>1, <2>1
<1>6. j = 0
  <2> SUFFICES ASSUME j > 0 PROVE FALSE
    BY <1>2
  <2>1. q * F < k * F
    BY <1>2, <1>3, <1>4
  <2>2. q < k
    BY <1>5, <2>1
  <2>3. (q + 1) * F <= k * F
    <3>1. (k - (q + 1)) * F >= 0 /\ (k - (q + 1)) * F = k * F - (q + 1) * F
      BY <1>1, <2>2
    <3> QED
      BY <1>1, <3>1
  <2>4. j * c < B * c
    <3>1. (B - j) * c > 0 /\ (B - j) * c = B * c - j * c
      BY <1>1, <1>2
    <3> QED
      BY <1>1, <3>1
  <2>5. (q + 1) * F = q * F + F
    BY <1>1, OneMore
  <2>6. j * c < F
    <3>1. B * c \in Nat
      BY <1>1
    <3> QED
      BY <1>1, <1>4, <2>4, <3>1
  <2>7. t < q * F + F
    BY <1>1, <1>2, <1>4, <2>6
  <2> QED
    BY <1>1, <1>3, <1>4, <2>3, <2>5, <2>7
<1>7. t = q * F /\ left = Fresh(d) - 0 /\ count = q * B
  <2>1. 0 * c = 0 /\ q * B \in Nat
    BY <1>1
  <2> QED
    BY <1>2, <1>4, <1>6, <2>1
<1>8. q > 0
  <2> SUFFICES ASSUME q = 0 PROVE FALSE
    OBVIOUS
  <2>1. q * F = 0
    BY <1>1
  <2> QED
    BY <1>3, <1>4, <1>7, <2>1
<1>9. q = k
  <2>1. (q - 1) * F < k * F
    BY <1>1, <1>2, <1>3, <1>4, <1>6, <1>8
  <2>2. q - 1 < k
    BY <1>5, <2>1
  <2>3. q < k + 1
    BY <2>2
  <2>4. ~(q < k)
    <3> SUFFICES ASSUME q < k PROVE FALSE
      OBVIOUS
    <3>1. (k - q) * F > 0 /\ (k - q) * F = k * F - q * F
      BY <1>1
    <3> QED
      BY <1>3, <1>4, <1>7, <3>1
  <2> QED
    BY <2>3, <2>4
<1>10. Fresh(d) - 0 = Fresh(d)
  BY OnTimeAtFirst
<1> QED
  BY <1>7, <1>9, <1>10 DEF F, B

LEMMA SoonestIs ==
    ASSUME CapInv, modules # <<>>
    PROVE  Soonest \in DOMAIN modules /\ \A i \in DOMAIN modules : dueAt[Soonest] <= dueAt[i]
<1> DEFINE n == Len(modules)
           v == [i \in 1..n |-> 0 - dueAt[i]]
<1>1. n \in Nat /\ DOMAIN modules = 1..n /\ 1..n # {}
  <2>1. modules \in Seq(DrainSet)
    BY DEF CapInv
  <2>2. n \in Nat /\ DOMAIN modules = 1..n /\ n # 0
    BY <2>1, EmptySeq
  <2>3. 1 \in 1..n
    BY <2>2
  <2> QED
    BY <2>2, <2>3
<1>2. DOMAIN dueAt = 1..n /\ \A i \in 1..n : dueAt[i] \in Nat
  BY <1>1 DEF CapInv
<1> HIDE DEF n
<1>3. 1..n \in SUBSET Int /\ IsFiniteSet(1..n)
  BY <1>1, UpToFinite
<1>4. \A i \in 1..n : v[i] \in Int /\ v[i] = 0 - dueAt[i]
  BY <1>2
<1>5. \E k \in 1..n : FirstBest(1..n, v, k)
  <2> HIDE DEF v
  <2> QED
    BY <1>1, <1>3, <1>4, FirstBestIs
<1>6. PICK k \in 1..n : \A l \in 1..n : v[l] < v[k] \/ (v[l] = v[k] /\ k <= l)
  BY <1>5 DEF FirstBest
<1>7. \A l \in 1..n : dueAt[k] < dueAt[l] \/ (dueAt[k] = dueAt[l] /\ k <= l)
  <2> HIDE DEF v
  <2> QED
    BY <1>2, <1>4, <1>6
<1>8. Soonest \in 1..n /\ \A l \in 1..n : dueAt[Soonest] < dueAt[l] \/ (dueAt[Soonest] = dueAt[l] /\ Soonest <= l)
  BY <1>2, <1>7 DEF Soonest
<1> QED
  BY <1>1, <1>2, <1>8

LEMMA DrainTyped ==
    ASSUME CapAssumption, NEW c \in Cycles, NEW sign \in {-1, 1}
    PROVE  Drain(c, sign) \in DrainSet
<1>1. /\ c.cycle \in Nat \ {0} /\ c.need \in Int
      /\ c.hold \in Nat /\ c.perCycle \in Nat /\ c.reload \in Nat
      /\ c.volume \in {NoCharge} \cup (Nat \ {0})
  BY DEF CapAssumption
<1>2. sign * c.need \in Int
  BY <1>1
<1>3. ClipShots(c.hold, c.volume, c.perCycle) \in Nat
  <2>1. CASE c.volume = NoCharge \/ c.hold = 0
    BY <2>1 DEF ClipShots
  <2>2. CASE ~(c.volume = NoCharge \/ c.hold = 0)
    <3> DEFINE units == c.hold \div c.volume
               each == IF c.perCycle > 0 THEN c.perCycle ELSE 1
    <3>1. c.volume \in Nat \ {0}
      BY <1>1, <2>2
    <3>2. units \in Nat
      BY <1>1, <3>1, Remains
    <3>3. each \in Nat \ {0}
      BY <1>1
    <3>4. ClipShots(c.hold, c.volume, c.perCycle) = units \div each
      BY <2>2 DEF ClipShots
    <3> HIDE DEF units, each
    <3> QED
      BY <3>2, <3>3, <3>4, Remains
  <2> QED
    BY <2>1, <2>2
<1> QED
  BY <1>1, <1>2, <1>3 DEF Drain, DrainSet

LEMMA CapStarts ==
    ASSUME CapAssumption, CapInit
    PROVE  CapInv
<1>1. PICK drains \in UNION {[1..n -> Cycles] : n \in 0..2}, injections \in UNION {[1..n -> Cycles] : n \in 0..2} :
        modules = [i \in 1..Len(drains) + Len(injections) |->
                     IF i <= Len(drains) THEN Drain(drains[i], 1)
                     ELSE Drain(injections[i - Len(drains)], -1)]
  BY DEF CapInit
<1>2. drains \in Seq(Cycles) /\ injections \in Seq(Cycles)
  <2>1. ASSUME NEW f \in UNION {[1..n -> Cycles] : n \in 0..2} PROVE f \in Seq(Cycles)
    <3>1. PICK n \in 0..2 : f \in [1..n -> Cycles]
      BY <2>1, Zenon
    <3>2. n \in Nat
      OBVIOUS
    <3> QED
      BY <3>1, <3>2, SeqDef
  <2> QED
    BY <2>1
<1> DEFINE m == Len(drains)
           n == Len(injections)
<1>3. /\ m \in Nat /\ n \in Nat
      /\ \A i \in 1..m : drains[i] \in Cycles
      /\ \A i \in 1..n : injections[i] \in Cycles
  BY <1>2
<1>4. \A i \in 1..m + n : modules[i] = IF i <= m THEN Drain(drains[i], 1) ELSE Drain(injections[i - m], -1)
  BY <1>1
<1>5. modules \in [1..m + n -> DrainSet]
  <2>1. DOMAIN modules = 1..m + n /\ modules = [i \in 1..m + n |-> modules[i]]
    BY <1>1
  <2>2. ASSUME NEW i \in 1..m + n PROVE modules[i] \in DrainSet
    <3>1. CASE i <= m
      <4>1. drains[i] \in Cycles
        BY <1>3, <3>1
      <4> HIDE DEF m, n
      <4> QED
        BY <1>4, <3>1, <4>1, DrainTyped
    <3>2. CASE ~(i <= m)
      <4>1. injections[i - m] \in Cycles
        BY <1>3, <3>2
      <4> HIDE DEF m, n
      <4> QED
        BY <1>4, <3>2, <4>1, DrainTyped
    <3> QED
      BY <3>1, <3>2
  <2> HIDE DEF m, n
  <2> QED
    BY <2>1, <2>2
<1>6. modules \in Seq(DrainSet)
  <2>1. m + n \in Nat
    BY <1>3
  <2> HIDE DEF m, n
  <2> QED
    BY <1>5, <2>1, SeqDef
<1>7. \A i \in DOMAIN modules : modules[i] \in DrainSet
  BY <1>6
<1>8. /\ dueAt = [i \in DOMAIN modules |-> 0] /\ fired = [i \in DOMAIN modules |-> 0]
      /\ shots = [i \in DOMAIN modules |-> Fresh(modules[i])]
      /\ lastAt = 0
  BY DEF CapInit
<1>9. ASSUME NEW i \in DOMAIN modules PROVE Fresh(modules[i]) \in Nat /\ OnTime(i)
  <2>1. Fresh(modules[i]) \in Nat /\ \E q, j \in Nat : IsOnTime(modules[i], 0, Fresh(modules[i]), 0, 0, q, j)
    BY <1>7, <1>9, OnTimeAtFirst
  <2>2. dueAt[i] = 0 /\ fired[i] = 0 /\ shots[i] = Fresh(modules[i]) /\ lastAt = 0
    BY <1>8, <1>9
  <2> QED
    BY <2>1, <2>2 DEF OnTime
<1> QED
  BY <1>6, <1>8, <1>9 DEF CapInv

LEMMA TickStarts ==
    ASSUME CapAssumption, CapInv, NoEvents
    PROVE  CapInv'
<1>1. CASE UNCHANGED <<modules, dueAt, shots, fired, lastAt>> /\ verdict' = "holds"
  BY <1>1 DEF CapInv
<1>2. CASE modules' = <<Tick>> /\ dueAt' = <<0>> /\ shots' = <<0>> /\ fired' = <<0>> /\ UNCHANGED lastAt
  <2>0. TickMs * Fine \in Nat \ {0}
    BY DEF CapAssumption
  <2>1. Tick \in DrainSet /\ Fresh(Tick) = 0
    BY <2>0 DEF Tick, DrainSet, Fresh, Reloads
  <2>2. modules' \in Seq(DrainSet) /\ DOMAIN modules' = {1} /\ modules' # <<>> /\ modules'[1] = Tick
    BY <1>2, <2>1
  <2>3. /\ dueAt' \in [{1} -> Nat] /\ shots' \in [{1} -> Nat] /\ fired' \in [{1} -> Nat]
        /\ dueAt'[1] = 0 /\ shots'[1] = 0 /\ fired'[1] = 0
    BY <1>2
  <2>4. lastAt = 0 /\ lastAt' = 0
    BY <1>2 DEF NoEvents, CapInv
  <2>5. OnTime(1)'
    <3>1. \E q, j \in Nat : IsOnTime(Tick, 0, 0, 0, 0, q, j)
      BY <2>1, OnTimeAtFirst
    <3> QED
      BY <2>2, <2>3, <2>4, <3>1 DEF OnTime
  <2>6. \A i \in DOMAIN modules' : lastAt' <= dueAt'[i] /\ OnTime(i)'
    BY <2>2, <2>3, <2>4, <2>5
  <2> QED
    BY <2>2, <2>3, <2>4, <2>6 DEF CapInv
<1> QED
  BY <1>1, <1>2 DEF NoEvents

LEMMA ActivateOnTime ==
    ASSUME CapInv, Activate
    PROVE  CapInv'
<1> DEFINE e == Soonest
           d == modules[e]
<1>1. e \in DOMAIN modules /\ \A i \in DOMAIN modules : dueAt[e] <= dueAt[i]
  BY SoonestIs DEF Activate
<1>2. /\ modules \in Seq(DrainSet) /\ lastAt \in Nat
      /\ dueAt \in [DOMAIN modules -> Nat] /\ shots \in [DOMAIN modules -> Nat] /\ fired \in [DOMAIN modules -> Nat]
      /\ \A i \in DOMAIN modules : lastAt <= dueAt[i] /\ OnTime(i)
  BY DEF CapInv, Activate
<1>3. \A i \in DOMAIN modules : modules[i] \in DrainSet
  BY <1>2
<1>4. UNCHANGED modules /\ modules # <<>>
  BY DEF Activate
<1>5. CASE verdict' = "holds" /\ UNCHANGED <<dueAt, shots, lastAt, fired>>
  BY <1>2, <1>4, <1>5 DEF CapInv
<1>6. CASE /\ lastAt' = dueAt[e] /\ fired' = [fired EXCEPT ![e] = @ + 1]
           /\ verdict' = "dry" /\ UNCHANGED <<dueAt, shots>>
  <2>1. fired' \in [DOMAIN modules -> Nat] /\ lastAt' \in Nat
    BY <1>1, <1>2, <1>6
  <2> QED
    BY <1>2, <1>4, <1>6, <2>1 DEF CapInv
<1>7. CASE /\ lastAt' = dueAt[e] /\ fired' = [fired EXCEPT ![e] = @ + 1] /\ Reschedule(e)
  <2> DEFINE empty == Reloads(d) /\ shots[e] = 1
             next == dueAt[e] + d.cycle + (IF empty THEN d.reload ELSE 0)
             rest == IF empty THEN d.clip ELSE IF Reloads(d) THEN shots[e] - 1 ELSE shots[e]
  <2>1. dueAt' = [dueAt EXCEPT ![e] = next] /\ shots' = [shots EXCEPT ![e] = rest]
    BY <1>1, <1>2, <1>7 DEF Reschedule
  <2>2. PICK q, j \in Nat : IsOnTime(d, dueAt[e], shots[e], fired[e], lastAt, q, j)
    BY <1>1, <1>2 DEF OnTime
  <2>3. d \in DrainSet /\ dueAt[e] \in Nat /\ shots[e] \in Nat /\ fired[e] \in Nat
    BY <1>1, <1>2, <1>3
  <2>4. /\ next \in Nat /\ next >= dueAt[e] /\ rest \in Nat
        /\ \E k, l \in Nat : IsOnTime(d, next, rest, fired[e] + 1, dueAt[e], k, l)
    <3> HIDE DEF d, e
    <3> QED
      BY <1>2, <2>2, <2>3, OnTimeNext
  <2> HIDE DEF next, rest, e
  <2>5. /\ dueAt' \in [DOMAIN modules -> Nat] /\ shots' \in [DOMAIN modules -> Nat]
        /\ fired' \in [DOMAIN modules -> Nat] /\ lastAt' \in Nat /\ lastAt <= lastAt'
    BY <1>1, <1>2, <1>7, <2>1, <2>3, <2>4
  <2>6. ASSUME NEW i \in DOMAIN modules PROVE lastAt' <= dueAt'[i] /\ OnTime(i)'
    <3>1. CASE i = e
      <4>1. dueAt'[i] = next /\ shots'[i] = rest /\ fired'[i] = fired[e] + 1 /\ modules'[i] = d /\ lastAt' = dueAt[e]
        BY <1>1, <1>2, <1>4, <1>7, <2>1, <3>1
      <4> HIDE DEF d
      <4>2. OnTime(i)'
        BY <2>4, <4>1 DEF OnTime
      <4> QED
        BY <2>4, <4>1, <4>2
    <3>2. CASE i # e
      <4>1. dueAt'[i] = dueAt[i] /\ shots'[i] = shots[i] /\ fired'[i] = fired[i] /\ modules'[i] = modules[i] /\ lastAt' = dueAt[e]
        BY <1>2, <1>4, <1>7, <2>1, <3>2
      <4>2. PICK k, l \in Nat : IsOnTime(modules[i], dueAt[i], shots[i], fired[i], lastAt, k, l)
        BY <1>2 DEF OnTime
      <4>3. IsOnTime(modules[i], dueAt[i], shots[i], fired[i], lastAt', k, l)
        BY <1>2, <1>3, <2>5, <4>2, OnTimeLater
      <4>4. OnTime(i)'
        BY <4>1, <4>3 DEF OnTime
      <4> QED
        BY <1>1, <4>1, <4>4
    <3> QED
      BY <3>1, <3>2
  <2> QED
    BY <1>2, <1>4, <2>5, <2>6 DEF CapInv
<1> QED
  BY <1>5, <1>6, <1>7 DEF Activate

(* Where whole periods line up, every module starts a clip.                *)
LEMMA WholeRealigns ==
    ASSUME CapAssumption, CapInv, Aligned, NEW i \in DOMAIN modules
    PROVE  LET stamp == Period * Fine * (dueAt[Soonest] \div (Period * Fine))
           IN  dueAt[i] = stamp /\ shots[i] = Fresh(modules[i])
<1> DEFINE P == Period * Fine
           d == modules[i]
           t == dueAt[Soonest] \div P
<1>1. /\ modules \in Seq(DrainSet) /\ d \in DrainSet /\ lastAt \in Nat
      /\ dueAt \in [DOMAIN modules -> Nat] /\ lastAt <= dueAt[i] /\ OnTime(i)
  BY DEF CapInv, Aligned
<1>2. Soonest \in DOMAIN modules /\ dueAt[Soonest] <= dueAt[i] /\ dueAt[Soonest] \in Nat
  BY <1>1, SoonestIs DEF Aligned
<1>3. P \in Nat \ {0} /\ Divides(FullPeriod(d), P)
  <2>1. Period # MaxPeriod
    BY DEF Aligned, CapAssumption
  <2>2. i \in 1..Len(modules)
    BY <1>1
  <2>3. Period \in Nat \ {0} /\ Divides(Rounded(d), Period)
    BY <1>1, <2>1, <2>2, PeriodIsCommon DEF Period
  <2>4. PICK m \in Nat : Period = m * Rounded(d)
    BY <2>3 DEF Divides
  <2>5. Fine \in Nat \ {0} /\ Rounded(d) \in Nat \ {0} /\ FullPeriod(d) = Rounded(d) * Fine
    BY <1>1, RoundedIs DEF CapAssumption, Aligned
  <2>6. P = m * FullPeriod(d)
    BY <2>4, <2>5
  <2>7. Period * Fine \in Nat \ {0}
    <3>1. Period > 0 /\ Fine > 0 => Period * Fine > 0
      BY <2>3, <2>5
    <3> QED
      BY <2>3, <2>5, <3>1
  <2> QED
    BY <2>6, <2>7 DEF Divides
<1>4. P * t <= dueAt[i] /\ lastAt < P * t /\ t \in Nat
  <2> DEFINE u == lastAt \div P
  <2>1. u < t
    BY DEF Aligned
  <2> HIDE DEF P
  <2>2. t \in Nat /\ dueAt[Soonest] % P \in Nat /\ dueAt[Soonest] = P * t + (dueAt[Soonest] % P)
    BY <1>2, <1>3, Remains
  <2>3. u \in Nat /\ lastAt % P \in Nat /\ lastAt % P < P /\ lastAt = P * u + (lastAt % P)
    BY <1>1, <1>3, Remains
  <2> HIDE DEF t, u
  <2>4. P * t \in Nat /\ P * u \in Nat
    BY <1>3, <2>2, <2>3
  <2>5. P * u + P <= P * t
    <3>1. P * (t - (u + 1)) >= 0 /\ P * (t - (u + 1)) = P * t - (P * u + P)
      BY <1>3, <2>1, <2>2, <2>3
    <3> QED
      BY <1>3, <2>4, <3>1
  <2>6. P * t <= dueAt[i]
    BY <1>1, <1>2, <2>2, <2>4
  <2>7. lastAt < P * u + P
    BY <1>1, <1>3, <2>3, <2>4
  <2> QED
    BY <1>1, <1>3, <2>2, <2>4, <2>5, <2>6, <2>7
<1>5. PICK m \in Nat : P = m * FullPeriod(d)
  BY <1>3 DEF Divides
<1> DEFINE F == FullPeriod(d)
           k == m * t
<1>6. F \in Nat \ {0}
  BY <1>1, PeriodOf
<1>7. k \in Nat /\ P * t = k * F
  <2> HIDE DEF P, t, F
  <2>1. m * F = P
    BY <1>5 DEF F
  <2> QED
    BY <1>4, <1>6, <2>1
<1>8. PICK q, j \in Nat : IsOnTime(d, dueAt[i], shots[i], fired[i], lastAt, q, j)
  BY <1>1 DEF OnTime
<1>9. dueAt[i] = k * F /\ shots[i] = Fresh(d)
  <2>1. dueAt[i] \in Nat
    BY <1>1
  <2> HIDE DEF k, P, t, d
  <2> QED
    BY <1>1, <1>4, <1>7, <1>8, <2>1, OnTimeAligned
<1> HIDE DEF k, F
<1> QED
  BY <1>7, <1>9

(* A module on time that has fired whole clips.                            *)
LEMMA ClipStarts ==
    ASSUME NEW d \in DrainSet, NEW t, NEW left, NEW count \in Nat, NEW then \in Nat,
           NEW q \in Nat, NEW j \in Nat, IsOnTime(d, t, left, count, then, q, j), count % Burst(d) = 0
    PROVE  t = q * FullPeriod(d) /\ left = Fresh(d) /\ count = q * Burst(d) /\ count \div Burst(d) = q
<1> DEFINE B == Burst(d)
           F == FullPeriod(d)
           c == d.cycle
<1>1. B \in Nat \ {0} /\ F \in Nat \ {0} /\ c \in Nat /\ Fresh(d) \in Nat
  BY PeriodOf, DrainsOf, OnTimeAtFirst
<1>2. j < B /\ left = Fresh(d) - j /\ t = q * F + j * c /\ count = q * B + j
  BY DEF IsOnTime
<1> HIDE DEF B, F, c
<1>3. q * B \in Nat /\ q * F \in Nat /\ q * B + B > count /\ q * B <= count
  BY <1>1, <1>2
<1>4. count \div B = q
  BY <1>1, <1>3, QuotientIs
<1>5. count = B * (count \div B) + (count % B)
  BY <1>1, Remains
<1>6. count % B = 0
  BY DEF B
<1>7. count = q * B
  BY <1>1, <1>4, <1>5, <1>6
<1>8. j = 0
  BY <1>1, <1>2, <1>3, <1>7
<1>9. t = q * F /\ left = Fresh(d)
  BY <1>1, <1>2, <1>3, <1>8
<1> QED
  BY <1>4, <1>7, <1>9 DEF B, F

(* The firing a steady drain counts is the firing that was simulated.      *)
LEMMA FiredAsDerated ==
    ASSUME NEW d \in DrainSet, NEW k \in Nat
    PROVE  (k * Burst(d)) * d.cycle * SustainedFactor(d)[2] = (k * FullPeriod(d)) * SustainedFactor(d)[1]
<1> DEFINE F == FullPeriod(d)
           B == Burst(d)
           c == d.cycle
<1>1. F \in Nat \ {0} /\ B \in Nat \ {0} /\ c \in Nat \ {0}
  BY PeriodOf, DrainsOf
<1>2. CASE Reloads(d)
  <2>1. SustainedFactor(d)[1] = B * c /\ SustainedFactor(d)[2] = F
    BY <1>2 DEF SustainedFactor, FullPeriod, Burst
  <2>2. (k * B) * c * F = (k * F) * (B * c)
    <3> HIDE DEF F, B, c
    <3> QED
      BY <1>1
  <2> QED
    BY <2>1, <2>2
<1>3. CASE ~Reloads(d)
  <2>1. SustainedFactor(d) = <<1, 1>> /\ B = 1 /\ F = c
    BY <1>3 DEF SustainedFactor, FullPeriod, Burst
  <2>2. SustainedFactor(d)[1] = 1 /\ SustainedFactor(d)[2] = 1
    BY <2>1
  <2> HIDE DEF F, B, c
  <2>3. (k * B) * c * 1 = (k * F) * 1
    BY <1>1, <2>1
  <2> QED
    BY <2>2, <2>3 DEF F, B, c
<1> QED
  BY <1>2, <1>3

(* How far rounding puts a module out after as many clips as make up whole *)
(* common periods.                                                         *)
LEMMA DriftIs ==
    ASSUME NEW F \in Nat, NEW R \in Nat \ {0}, NEW f \in Nat \ {0}, NEW P \in Nat \ {0}, NEW n \in Nat,
           Divides(R, P), n % (P \div R) = 0, 2 * (F - R * f) \in (-f)..f
    PROVE  2 * (n * F - (n \div (P \div R)) * P * f) \in -(n * f)..(n * f)
<1>1. PICK m \in Nat : P = m * R
  BY DEF Divides
<1>2. P \div R = m /\ m \in Nat \ {0}
  <2>1. m * R <= P /\ P < m * R + R
    BY <1>1
  <2>2. P \div R = m
    BY <2>1, QuotientIs
  <2> QED
    BY <1>1, <2>2
<1> DEFINE k == n \div m
<1>3. k \in Nat /\ n = m * k + (n % m) /\ n % m = 0
  BY <1>2, Remains
<1> HIDE DEF k
<1>4. n = m * k
  BY <1>2, <1>3
<1> DEFINE x == F - R * f
<1>5. x \in Int /\ 2 * x <= f /\ -f <= 2 * x
  BY Z3
<1>6. k * P * f = n * (R * f)
  BY <1>1, <1>2, <1>3, <1>4
<1>7. n * F - n * (R * f) = n * x
  OBVIOUS
<1> HIDE DEF x
<1>8. 2 * (n * x) = n * (2 * x) /\ n * (2 * x) \in Int
  BY <1>5
<1>9. n * (2 * x) <= n * f /\ -(n * f) <= n * (2 * x)
  <2>1. n * (f - 2 * x) >= 0 /\ n * (f - 2 * x) = n * f - n * (2 * x)
    BY <1>5
  <2>2. n * (f + 2 * x) >= 0 /\ n * (f + 2 * x) = n * f + n * (2 * x)
    BY <1>5
  <2>3. n * f \in Int
    OBVIOUS
  <2> QED
    BY <1>8, <2>1, <2>2, <2>3
<1>10. 2 * (n * F - k * P * f) = n * (2 * x)
  BY <1>6, <1>7, <1>8
<1>11. n * f \in Int
  OBVIOUS
<1>12. 2 * (n * F - k * P * f) \in -(n * f)..(n * f)
  BY <1>8, <1>9, <1>10, <1>11
<1> QED
  BY <1>2, <1>12 DEF k

LEMMA ModuleOnSchedule ==
    ASSUME CapAssumption, CapInv, verdict = "running", NEW i \in DOMAIN modules
    PROVE  OnSchedule(i)
<1> DEFINE d == modules[i]
           n == fired[i] \div Burst(d)
           each == Period \div Rounded(d)
<1>1. modules \in Seq(DrainSet) /\ d \in DrainSet /\ lastAt \in Nat /\ fired[i] \in Nat /\ OnTime(i)
  BY DEF CapInv
<1>2. PICK q, j \in Nat : IsOnTime(d, dueAt[i], shots[i], fired[i], lastAt, q, j)
  BY <1>1 DEF OnTime
<1> SUFFICES ASSUME fired[i] % Burst(d) = 0
             PROVE  /\ shots[i] = Fresh(d)
                    /\ fired[i] * d.cycle * SustainedFactor(d)[2] = dueAt[i] * SustainedFactor(d)[1]
                    /\ Period < MaxPeriod /\ n % each = 0 /\ Fine <= 2 * FullPeriod(d) =>
                         2 * (dueAt[i] - (n \div each) * Period * Fine) \in -(n * Fine)..(n * Fine)
  BY DEF OnSchedule
<1>3. dueAt[i] = q * FullPeriod(d) /\ shots[i] = Fresh(d) /\ fired[i] = q * Burst(d) /\ n = q
  <2> HIDE DEF d
  <2> QED
    BY <1>1, <1>2, ClipStarts
<1>4. fired[i] * d.cycle * SustainedFactor(d)[2] = dueAt[i] * SustainedFactor(d)[1]
  <2> HIDE DEF d
  <2> QED
    BY <1>1, <1>3, FiredAsDerated
<1>5. ASSUME Period < MaxPeriod, n % each = 0, Fine <= 2 * FullPeriod(d)
      PROVE  2 * (dueAt[i] - (n \div each) * Period * Fine) \in -(n * Fine)..(n * Fine)
  <2>1. i \in 1..Len(modules) /\ Period # MaxPeriod
    BY <1>1, <1>5 DEF CapAssumption
  <2>2. Period \in Nat \ {0} /\ Divides(Rounded(d), Period)
    BY <1>1, <2>1, PeriodIsCommon DEF Period
  <2>3. /\ FullPeriod(d) \in Nat /\ Rounded(d) \in Nat \ {0} /\ Fine \in Nat \ {0}
        /\ 2 * (FullPeriod(d) - Rounded(d) * Fine) \in (-Fine)..Fine
    BY <1>1, <1>5, PeriodOf, RoundedIs DEF CapAssumption
  <2>4. q % (Period \div Rounded(d)) = 0
    BY <1>3, <1>5
  <2>5. 2 * (q * FullPeriod(d) - (q \div (Period \div Rounded(d))) * Period * Fine) \in -(q * Fine)..(q * Fine)
    BY <2>2, <2>3, <2>4, DriftIs
  <2> QED
    BY <1>3, <2>5
<1> QED
  BY <1>3, <1>4, <1>5

LEMMA CapAligned ==
    ASSUME CapAssumption, CapInv
    PROVE  PeriodRealigns
  BY WholeRealigns, ModuleOnSchedule DEF PeriodRealigns

(* Whatever modules a fit has, a module that starts a clip of the          *)
(* capacitor's simulation has fired as often as its steady drain is derated *)
(* by.  After every period each of them is due again with a full clip if    *)
(* the periods are whole milliseconds, and out by half of one for each clip *)
(* at most if they are not, unless the period is longer than the longest    *)
(* (lcm_period_ms, full_period_ms, simulate and sustained_factor agree).    *)
THEOREM CapacitorRealigns ==
    ASSUME CapAssumption
    PROVE  CapSpec => []PeriodRealigns
<1>1. CapInit => CapInv
  BY CapStarts
<1>2. CapInv /\ [CapNext]_capVars => CapInv'
  <2> SUFFICES ASSUME CapInv, [CapNext]_capVars PROVE CapInv'
    OBVIOUS
  <2>1. CASE UNCHANGED capVars
    BY <2>1 DEF CapInv, OnTime, capVars
  <2> QED
    BY <2>1, TickStarts, ActivateOnTime DEF CapNext
<1>3. CapInv => PeriodRealigns
  BY CapAligned
<1> QED
  BY <1>1, <1>2, <1>3, PTL DEF CapSpec

(* The fitting tool, with any hull, engine and modules: the search and the *)
(* simulation it asks are sound.                                           *)
THEOREM FittingAlwaysSound ==
    ASSUME FitAssumption, EngineAssumption, CapAssumption
    PROVE  OptSpec /\ CapSpec => []FittingSound
<1>1. OptSpec => [](ResultSound /\ LocalOptimum)
  BY SearchIsSound
<1>2. CapSpec => []PeriodRealigns
  BY CapacitorRealigns
<1>3. (ResultSound /\ LocalOptimum) /\ PeriodRealigns => FittingSound
  BY DEF FittingSound
<1> QED
  BY <1>1, <1>2, <1>3, PTL

=============================================================================
