---------------------------- MODULE BenchmarkProofs ----------------------------
(***************************************************************************)
(* For any size of the workload and all arguments of execute_workload: the *)
(* frame is complete, its rows and columns belong to their executions, the *)
(* optimizer learns from each successful execution once and in time, and   *)
(* the log tells the end.                                                  *)
(***************************************************************************)
EXTENDS Benchmark, SequenceTheorems, WellFoundedInduction, TLAPS

Measured == [status : Status, run : Nat]
Sample == [query : 1 .. NQueries, wrep : 1 .. WorkloadReps, start : Nat,
           rows : Seq(Measured), stamps : Seq(Nat), post : Seq(Nat)]

-------------------------------------------------------------------------------
(* Induction over the natural numbers, by a least counterexample. *)

Less == {p \in Nat \X Nat : p[1] < p[2]}

\* The order of the natural numbers is well-founded.
LEMMA LessIsWellFounded == IsWellFoundedOn(Less, Nat)
  BY NatLessThanWellFounded, Zenon DEF OpToRel, Less

LEMMA LeastNat == ASSUME NEW T, T \subseteq Nat, T # {} PROVE \E n \in T : \A m \in T : n <= m
<1>1. PICK x \in T : \A y \in T : << y, x >> \notin Less
  BY LessIsWellFounded, WFMin
<1>2. ASSUME NEW y \in T PROVE x <= y
  <2>1. ~(y < x)
    BY <1>1 DEF Less
  <2> QED
    BY <2>1
<1> QED
  BY <1>2

\* Induction over 0 .. m, for the set of the numbers that have a property.
LEMMA SetInduction ==
  ASSUME NEW m \in Nat, NEW S, 0 \in S, \A k \in 1 .. m : k - 1 \in S => k \in S
  PROVE  \A k \in 0 .. m : k \in S
<1> DEFINE Bad == {k \in 0 .. m : k \notin S}
<1>1. ASSUME Bad # {} PROVE FALSE
  <2>1. PICK k \in Bad : \A j \in Bad : k <= j
    <3>1. Bad \subseteq Nat
      OBVIOUS
    <3> HIDE DEF Bad
    <3> QED
      BY <1>1, <3>1, LeastNat
  <2>2. k \in 1 .. m
    BY <2>1
  <2>3. k - 1 \in 0 .. m /\ k - 1 \notin Bad
    BY <2>1, <2>2
  <2> QED
    BY <2>1, <2>2, <2>3
<1> QED
  BY <1>1

Steps(m, T) == [1 .. m -> [T -> T]]
Recursion(m, T, base, step) ==
  {f \in [0 .. m -> T] : f[0] = base /\ \A n \in 1 .. m : f[n] = step[n][f[n - 1]]}

\* A function that is defined by recursion over 0 .. m exists.
LEMMA RecursionExists ==
  ASSUME NEW m \in Nat, NEW T, NEW base \in T, NEW step \in Steps(m, T)
  PROVE  Recursion(m, T, base, step) # {}
<1> DEFINE Fits(k, f) == f \in [0 .. k -> T] /\ f[0] = base /\ \A n \in 1 .. k : f[n] = step[n][f[n - 1]]
           Good == {k \in 0 .. m : \E f : Fits(k, f)}
<1> USE DEF Steps
<1>1. 0 \in Good
  <2>1. Fits(0, [n \in 0 .. 0 |-> base]) /\ 0 \in 0 .. m
    OBVIOUS
  <2> HIDE DEF Fits
  <2> QED
    BY <2>1
<1>2. ASSUME NEW k \in 1 .. m, k - 1 \in Good PROVE k \in Good
  <2>1. PICK f : Fits(k - 1, f)
    <3> HIDE DEF Fits
    <3> QED
      BY <1>2
  <2> DEFINE g == [n \in 0 .. k |-> IF n = k THEN step[k][f[k - 1]] ELSE f[n]]
  <2>2. k \in 0 .. m /\ k \in 0 .. k /\ 0 \in 0 .. k /\ \A n \in 0 .. k - 1 : n \in 0 .. k
    OBVIOUS
  <2>3. g \in [0 .. k -> T]
    <3>1. step[k][f[k - 1]] \in T /\ \A n \in 0 .. k : n # k => n \in 0 .. k - 1
      BY <2>1
    <3> QED
      BY <2>1, <3>1
  <2>4. g[0] = base /\ g[k] = step[k][f[k - 1]] /\ \A n \in 0 .. k - 1 : g[n] = f[n]
    BY <2>1, <2>2
  <2>5. \A n \in 1 .. k : g[n] = step[n][g[n - 1]]
    <3>1. \A n \in 1 .. k : n = k \/ n \in 1 .. k - 1
      OBVIOUS
    <3>2. \A n \in 1 .. k : n - 1 \in 0 .. k - 1
      OBVIOUS
    <3>3. \A n \in 1 .. k - 1 : n \in 0 .. k - 1
      OBVIOUS
    <3> HIDE DEF g
    <3> QED
      BY <2>1, <2>4, <3>1, <3>2, <3>3
  <2>6. Fits(k, g)
    <3> HIDE DEF g
    <3> QED
      BY <2>3, <2>4, <2>5
  <2> HIDE DEF Fits, g
  <2> QED
    BY <2>2, <2>6
<1>3. PICK f : Fits(m, f)
  <2>1. \A k \in 0 .. m : k \in Good
    <3> HIDE DEF Good
    <3> QED
      BY <1>1, <1>2, SetInduction
  <2>2. m \in Good
    BY <2>1
  <2> HIDE DEF Fits
  <2> QED
    BY <2>2
<1> QED
  BY <1>3 DEF Recursion

-------------------------------------------------------------------------------
(* The rows of several samples. *)

LEMMA RowTypes ==
  ASSUME NEW s \in Sample
  PROVE  /\ RowsOf(s) \in Seq(Row) /\ Len(RowsOf(s)) = Len(s.rows) /\ DOMAIN s.rows = 1 .. Len(s.rows)
         /\ \A i \in 1 .. Len(s.rows) : RowsOf(s)[i] = RowOf(s, i) /\ RowOf(s, i) \in Row
<1>1. s.rows \in Seq(Measured) /\ Len(s.rows) \in Nat /\ DOMAIN s.rows = 1 .. Len(s.rows)
  BY LenProperties DEF Sample
<1>2. ASSUME NEW i \in 1 .. Len(s.rows) PROVE RowOf(s, i) \in Row
  <2>1. s.rows[i] \in Measured
    BY <1>1, ElementOfSeq
  <2>2. /\ s.start + i - 1 \in Nat /\ i \in Nat
        /\ s.query \in 1 .. NQueries /\ s.wrep \in 1 .. WorkloadReps
    BY <1>1 DEF Sample
  <2>3. s.rows[i].status \in Status /\ s.rows[i].run \in Nat
    BY <2>1 DEF Measured
  <2> DEFINE index == s.start + i - 1
             status == s.rows[i].status
             run == s.rows[i].run
  <2>4. RowOf(s, i) = [index |-> index, query |-> s.query, wrep |-> s.wrep, rep |-> i,
                       status |-> status, run |-> run]
    BY DEF RowOf
  <2> HIDE DEF index, status, run
  <2>5. index \in Nat /\ status \in Status /\ run \in Nat
    BY <2>2, <2>3 DEF index, status, run
  <2> QED
    BY <2>2, <2>4, <2>5 DEF Row
<1>3. RowsOf(s) \in [1 .. Len(s.rows) -> Row] /\ \A i \in 1 .. Len(s.rows) : RowsOf(s)[i] = RowOf(s, i)
  BY <1>2 DEF RowsOf
<1>4. RowsOf(s) \in Seq(Row) /\ Len(RowsOf(s)) = Len(s.rows)
  BY <1>1, <1>3, IsASeq, LenProperties
<1> QED
  BY <1>1, <1>2, <1>3, <1>4

\* RowsUpTo is the function its recursion says.
LEMMA RowsUpToIsDefined ==
  ASSUME NEW ss \in Seq(Sample)
  PROVE  /\ RowsUpTo(ss) \in [0 .. Len(ss) -> Seq(Row)]
         /\ RowsUpTo(ss)[0] = << >>
         /\ \A k \in 1 .. Len(ss) : RowsUpTo(ss)[k] = RowsUpTo(ss)[k - 1] \o RowsOf(ss[k])
<1> DEFINE m == Len(ss)
           Rec(f) == f = [k \in 0 .. m |-> IF k = 0 THEN << >> ELSE f[k - 1] \o RowsOf(ss[k])]
           step == [k \in 1 .. m |-> [rows \in Seq(Row) |-> rows \o RowsOf(ss[k])]]
           Typed == {k \in 0 .. m : RowsUpTo(ss)[k] \in Seq(Row)}
<1>1. m \in Nat /\ \A k \in 1 .. m : RowsOf(ss[k]) \in Seq(Row)
  BY LenProperties, ElementOfSeq, RowTypes
<1>2. << >> \in Seq(Row) /\ step \in [1 .. m -> [Seq(Row) -> Seq(Row)]]
  BY <1>1, ConcatProperties
<1>3. PICK f \in [0 .. m -> Seq(Row)] : f[0] = << >> /\ \A k \in 1 .. m : f[k] = step[k][f[k - 1]]
  <2>1. m \in Nat
    BY <1>1
  <2> DEFINE T == Seq(Row)
             base == << >>
  <2>2. base \in T /\ step \in Steps(m, T)
    BY <1>2 DEF Steps
  <2> HIDE DEF m, step, T, base
  <2>3. PICK f : f \in Recursion(m, T, base, step)
    BY <2>1, <2>2, RecursionExists
  <2>4. f \in [0 .. m -> T] /\ f[0] = base /\ \A k \in 1 .. m : f[k] = step[k][f[k - 1]]
    BY <2>3 DEF Recursion
  <2>5. f \in [0 .. m -> Seq(Row)] /\ f[0] = << >> /\ \A k \in 1 .. m : f[k] = step[k][f[k - 1]]
    BY <2>4 DEF T, base
  <2> QED
    BY <2>5
<1>4. Rec(f)
  <2>1. ASSUME NEW k \in 1 .. m PROVE step[k][f[k - 1]] = f[k - 1] \o RowsOf(ss[k])
    <3>1. k - 1 \in 0 .. m
      BY <1>1
    <3>2. f[k - 1] \in Seq(Row)
      BY <3>1, <1>3
    <3> QED
      BY <3>2
  <2>2. \A k \in 0 .. m : k # 0 => k \in 1 .. m
    BY <1>1
  <2>3. \A k \in 0 .. m : f[k] = IF k = 0 THEN << >> ELSE f[k - 1] \o RowsOf(ss[k])
    <3> HIDE DEF m, step
    <3> QED
      BY <1>3, <2>1, <2>2
  <2> HIDE DEF m, step
  <2> QED
    BY <1>3, <2>3
<1>5. Rec(RowsUpTo(ss))
  <2>1. Rec(CHOOSE g : Rec(g))
    <3> HIDE DEF Rec
    <3> QED
      BY <1>4
  <2>2. RowsUpTo(ss) = CHOOSE g : Rec(g)
    BY DEF RowsUpTo
  <2> QED
    BY <2>1, <2>2
<1>6. /\ RowsUpTo(ss)[0] = << >>
      /\ \A k \in 1 .. m : RowsUpTo(ss)[k] = RowsUpTo(ss)[k - 1] \o RowsOf(ss[k])
  <2>1. 0 \in 0 .. m /\ \A k \in 1 .. m : k \in 0 .. m /\ k # 0
    BY <1>1
  <2>2. \A k \in 0 .. m : RowsUpTo(ss)[k] = IF k = 0 THEN << >> ELSE RowsUpTo(ss)[k - 1] \o RowsOf(ss[k])
    <3> DEFINE g == RowsUpTo(ss)
               h == [k \in 0 .. m |-> IF k = 0 THEN << >> ELSE g[k - 1] \o RowsOf(ss[k])]
    <3>1. g = h
      BY <1>5
    <3>2. \A k \in 0 .. m : h[k] = IF k = 0 THEN << >> ELSE g[k - 1] \o RowsOf(ss[k])
      <4> HIDE DEF g
      <4> QED
        OBVIOUS
    <3> HIDE DEF g, h
    <3>3. \A k \in 0 .. m : g[k] = IF k = 0 THEN << >> ELSE g[k - 1] \o RowsOf(ss[k])
      BY <3>1, <3>2
    <3> QED
      BY <3>3 DEF g
  <2> HIDE DEF m
  <2> QED
    BY <2>1, <2>2
<1>7. \A k \in 0 .. m : RowsUpTo(ss)[k] \in Seq(Row)
  <2>1. 0 \in Typed
    <3>1. 0 \in 0 .. m /\ << >> \in Seq(Row)
      BY <1>1, <1>2
    <3> HIDE DEF m, step
    <3> QED
      BY <1>6, <3>1
  <2>2. ASSUME NEW k \in 1 .. m, k - 1 \in Typed PROVE k \in Typed
    <3>1. RowsUpTo(ss)[k - 1] \in Seq(Row) /\ k \in 0 .. m
      BY <1>1, <2>2
    <3>2. RowsUpTo(ss)[k - 1] \o RowsOf(ss[k]) \in Seq(Row)
      BY <1>1, <3>1, ConcatProperties
    <3> QED
      BY <1>6, <3>1, <3>2
  <2>3. m \in Nat
    BY <1>1
  <2>4. \A k \in 0 .. m : k \in Typed
    <3> HIDE DEF m, Typed
    <3> QED
      BY <2>1, <2>2, <2>3, SetInduction
  <2> QED
    BY <2>4
<1> QED
  BY <1>5, <1>6, <1>7

\* The rows of a number of samples are those of the samples, in their order: row i of
\* sample l is at position Len(RowsUpTo(ss)[l - 1]) + i, and no other row is there.
LEMMA RowsOfSamples ==
  ASSUME NEW ss \in Seq(Sample), NEW k \in 0 .. Len(ss)
  PROVE  /\ \A l \in 1 .. k : Len(RowsUpTo(ss)[l]) <= Len(RowsUpTo(ss)[k])
         /\ \A l \in 1 .. k : \A i \in 1 .. Len(ss[l].rows) :
              /\ Len(RowsUpTo(ss)[l - 1]) + i \in 1 .. Len(RowsUpTo(ss)[k])
              /\ RowsUpTo(ss)[k][Len(RowsUpTo(ss)[l - 1]) + i] = RowOf(ss[l], i)
         /\ \A n \in 1 .. Len(RowsUpTo(ss)[k]) : \E l \in 1 .. k : \E i \in 1 .. Len(ss[l].rows) :
              n = Len(RowsUpTo(ss)[l - 1]) + i
<1> DEFINE f == RowsUpTo(ss)
           Placed(p) == /\ \A l \in 1 .. p : Len(f[l]) <= Len(f[p])
                        /\ \A l \in 1 .. p : \A i \in 1 .. Len(ss[l].rows) :
                             /\ Len(f[l - 1]) + i \in 1 .. Len(f[p])
                             /\ f[p][Len(f[l - 1]) + i] = RowOf(ss[l], i)
                        /\ \A n \in 1 .. Len(f[p]) : \E l \in 1 .. p : \E i \in 1 .. Len(ss[l].rows) :
                             n = Len(f[l - 1]) + i
           Good == {p \in 0 .. Len(ss) : Placed(p)}
<1>1. /\ Len(ss) \in Nat /\ f[0] = << >>
      /\ \A p \in 0 .. Len(ss) : f[p] \in Seq(Row) /\ Len(f[p]) \in Nat
      /\ \A p \in 1 .. Len(ss) : /\ f[p] = f[p - 1] \o RowsOf(ss[p])
                                 /\ ss[p] \in Sample /\ RowsOf(ss[p]) \in Seq(Row)
                                 /\ Len(RowsOf(ss[p])) = Len(ss[p].rows)
                                 /\ Len(ss[p].rows) \in Nat
                                 /\ \A i \in 1 .. Len(ss[p].rows) : RowsOf(ss[p])[i] = RowOf(ss[p], i)
  <2>1. Len(ss) \in Nat /\ f[0] = << >> /\ \A p \in 0 .. Len(ss) : f[p] \in Seq(Row) /\ Len(f[p]) \in Nat
    BY RowsUpToIsDefined, LenProperties
  <2>2. \A p \in 1 .. Len(ss) : f[p] = f[p - 1] \o RowsOf(ss[p]) /\ ss[p] \in Sample
    BY RowsUpToIsDefined, ElementOfSeq
  <2> HIDE DEF f
  <2> QED
    BY <2>1, <2>2, RowTypes, LenProperties
<1> HIDE DEF f
<1>2. 0 \in Good
  BY <1>1
<1>3. ASSUME NEW p \in 1 .. Len(ss), p - 1 \in Good PROVE p \in Good
  <2>1. p - 1 \in 0 .. Len(ss) /\ p \in 0 .. Len(ss) /\ Placed(p - 1)
    <3>1. p - 1 \in 0 .. Len(ss) /\ p \in 0 .. Len(ss)
      BY <1>1
    <3> HIDE DEF Placed
    <3> QED
      BY <1>3, <3>1
  <2> DEFINE a == f[p - 1]
             b == RowsOf(ss[p])
  <2>2. /\ a \in Seq(Row) /\ b \in Seq(Row) /\ f[p] = a \o b /\ Len(a) \in Nat /\ Len(b) \in Nat
        /\ Len(b) = Len(ss[p].rows) /\ Len(f[p]) \in Nat
        /\ \A i \in 1 .. Len(b) : b[i] = RowOf(ss[p], i)
    BY <1>1, <2>1
  <2>3. /\ Len(f[p]) = Len(a) + Len(b)
        /\ \A n \in 1 .. Len(a) : f[p][n] = a[n]
        /\ \A i \in 1 .. Len(b) : f[p][Len(a) + i] = b[i]
    <3>1. Len(a \o b) = Len(a) + Len(b) /\ \A n \in 1 .. Len(a) + Len(b) : (a \o b)[n] = IF n <= Len(a) THEN a[n] ELSE b[n - Len(a)]
      <4>1. a \in Seq(Row) /\ b \in Seq(Row)
        BY <2>2
      <4> HIDE DEF a, b
      <4> QED
        BY <4>1, ConcatProperties
    <3>2. \A i \in 1 .. Len(b) : Len(a) + i \in 1 .. Len(a) + Len(b) /\ ~(Len(a) + i <= Len(a)) /\ (Len(a) + i) - Len(a) = i
      <4> HIDE DEF a, b
      <4> QED
        BY <2>2
    <3>3. \A n \in 1 .. Len(a) : n \in 1 .. Len(a) + Len(b) /\ n <= Len(a)
      <4> HIDE DEF a, b
      <4> QED
        BY <2>2
    <3> HIDE DEF a, b
    <3> QED
      BY <2>2, <3>1, <3>2, <3>3
  <2>4. \A l \in 1 .. p : l \in 1 .. p - 1 \/ l = p
    BY <1>1
  <2>5. \A l \in 1 .. p : Len(f[l]) <= Len(f[p])
    <3>1. \A l \in 1 .. p - 1 : Len(f[l]) <= Len(a)
      BY <2>1
    <3>2. \A l \in 1 .. p - 1 : Len(f[l]) \in Nat
      BY <1>1, <2>1
    <3> HIDE DEF a, b
    <3> QED
      BY <2>2, <2>3, <2>4, <3>1, <3>2
  <2>6. ASSUME NEW l \in 1 .. p, NEW i \in 1 .. Len(ss[l].rows)
        PROVE  Len(f[l - 1]) + i \in 1 .. Len(f[p]) /\ f[p][Len(f[l - 1]) + i] = RowOf(ss[l], i)
    <3>1. CASE l = p
      <4>1. i \in 1 .. Len(b) /\ Len(f[l - 1]) = Len(a)
        BY <2>2, <3>1
      <4> HIDE DEF a, b
      <4> QED
        BY <2>2, <2>3, <3>1, <4>1
    <3>2. CASE l \in 1 .. p - 1
      <4>1. Len(f[l - 1]) + i \in 1 .. Len(a) /\ a[Len(f[l - 1]) + i] = RowOf(ss[l], i)
        BY <2>1, <3>2
      <4> HIDE DEF a, b
      <4> QED
        BY <2>2, <2>3, <4>1
    <3> QED
      BY <2>4, <3>1, <3>2
  <2>7. ASSUME NEW n \in 1 .. Len(f[p])
        PROVE  \E l \in 1 .. p : \E i \in 1 .. Len(ss[l].rows) : n = Len(f[l - 1]) + i
    <3>1. CASE n <= Len(a)
      <4>1. n \in 1 .. Len(a)
        BY <2>2, <3>1
      <4>2. PICK l \in 1 .. p - 1 : \E i \in 1 .. Len(ss[l].rows) : n = Len(f[l - 1]) + i
        BY <2>1, <4>1
      <4>3. l \in 1 .. p
        BY <1>1
      <4> QED
        BY <4>2, <4>3
    <3>2. CASE ~(n <= Len(a))
      <4>1. n - Len(a) \in 1 .. Len(ss[p].rows) /\ n = Len(a) + (n - Len(a))
        <5> HIDE DEF a, b
        <5> QED
          BY <2>2, <2>3, <3>2
      <4>2. p \in 1 .. p
        BY <1>1
      <4> QED
        BY <4>1, <4>2
    <3> QED
      BY <3>1, <3>2
  <2>8. Placed(p)
    BY <2>5, <2>6, <2>7
  <2> QED
    BY <2>1, <2>8
<1>4. \A p \in 0 .. Len(ss) : p \in Good
  <2>1. Len(ss) \in Nat
    BY <1>1
  <2> HIDE DEF Good
  <2> QED
    BY <1>2, <1>3, <2>1, SetInduction
<1>5. Placed(k)
  BY <1>4
<1> QED
  BY <1>5 DEF f

-------------------------------------------------------------------------------
(* The rows of a sample with certain states. *)

\* SelectedUpTo is the function its recursion says.
LEMMA SelectedUpToIsDefined ==
  ASSUME NEW rows \in Seq(Measured), NEW states
  PROVE  /\ SelectedUpTo(rows, states) \in [0 .. Len(rows) -> Seq(Measured)]
         /\ SelectedUpTo(rows, states)[0] = << >>
         /\ \A k \in 1 .. Len(rows) :
              SelectedUpTo(rows, states)[k] =
                IF rows[k].status \in states THEN Append(SelectedUpTo(rows, states)[k - 1], rows[k])
                                             ELSE SelectedUpTo(rows, states)[k - 1]
<1> DEFINE m == Len(rows)
           Next1(k, sel) == IF rows[k].status \in states THEN Append(sel, rows[k]) ELSE sel
           Rec(f) == f = [k \in 0 .. m |-> IF k = 0 THEN << >> ELSE Next1(k, f[k - 1])]
           step == [k \in 1 .. m |-> [sel \in Seq(Measured) |-> Next1(k, sel)]]
           g == SelectedUpTo(rows, states)
           Typed == {k \in 0 .. m : g[k] \in Seq(Measured)}
<1>1. m \in Nat /\ \A k \in 1 .. m : rows[k] \in Measured
  BY LenProperties, ElementOfSeq
<1>2. \A k \in 1 .. m : \A sel \in Seq(Measured) : Next1(k, sel) \in Seq(Measured)
  BY <1>1, AppendProperties
<1>3. << >> \in Seq(Measured) /\ step \in [1 .. m -> [Seq(Measured) -> Seq(Measured)]]
  <2> HIDE DEF Next1, m
  <2> QED
    BY <1>2
<1>4. PICK f \in [0 .. m -> Seq(Measured)] : f[0] = << >> /\ \A k \in 1 .. m : f[k] = step[k][f[k - 1]]
  <2>1. m \in Nat
    BY <1>1
  <2> DEFINE T == Seq(Measured)
             base == << >>
  <2>2. base \in T /\ step \in Steps(m, T)
    <3> HIDE DEF m, step
    <3> QED
      BY <1>3 DEF Steps
  <2> HIDE DEF m, step, T, base
  <2>3. PICK f : f \in Recursion(m, T, base, step)
    BY <2>1, <2>2, RecursionExists
  <2>4. f \in [0 .. m -> T] /\ f[0] = base /\ \A k \in 1 .. m : f[k] = step[k][f[k - 1]]
    BY <2>3 DEF Recursion
  <2>5. f \in [0 .. m -> Seq(Measured)] /\ f[0] = << >> /\ \A k \in 1 .. m : f[k] = step[k][f[k - 1]]
    BY <2>4 DEF T, base
  <2> QED
    BY <2>5
<1>5. Rec(f)
  <2>1. ASSUME NEW k \in 1 .. m PROVE step[k][f[k - 1]] = Next1(k, f[k - 1])
    <3>1. k - 1 \in 0 .. m
      BY <1>1
    <3>2. f[k - 1] \in Seq(Measured)
      BY <3>1, <1>4
    <3> HIDE DEF Next1
    <3> QED
      BY <3>2
  <2>2. \A k \in 0 .. m : k # 0 => k \in 1 .. m
    BY <1>1
  <2>3. \A k \in 0 .. m : f[k] = IF k = 0 THEN << >> ELSE Next1(k, f[k - 1])
    <3> HIDE DEF m, step, Next1
    <3> QED
      BY <1>4, <2>1, <2>2
  <2> HIDE DEF m, step, Next1
  <2> QED
    BY <1>4, <2>3
<1>6. Rec(g)
  <2>1. Rec(CHOOSE h : Rec(h))
    <3> HIDE DEF Rec
    <3> QED
      BY <1>5
  <2>2. g = CHOOSE h : Rec(h)
    BY DEF SelectedUpTo
  <2> QED
    BY <2>1, <2>2
<1> HIDE DEF g, Next1
<1>7. /\ g[0] = << >>
      /\ \A k \in 1 .. m : g[k] = Next1(k, g[k - 1])
  <2>1. 0 \in 0 .. m /\ \A k \in 1 .. m : k \in 0 .. m /\ k # 0
    BY <1>1
  <2>2. \A k \in 0 .. m : g[k] = IF k = 0 THEN << >> ELSE Next1(k, g[k - 1])
    <3> DEFINE h == [k \in 0 .. m |-> IF k = 0 THEN << >> ELSE Next1(k, g[k - 1])]
    <3>1. g = h
      BY <1>6
    <3>2. \A k \in 0 .. m : h[k] = IF k = 0 THEN << >> ELSE Next1(k, g[k - 1])
      OBVIOUS
    <3> HIDE DEF h
    <3> QED
      BY <3>1, <3>2
  <2> HIDE DEF m
  <2> QED
    BY <2>1, <2>2
<1>8. \A k \in 0 .. m : g[k] \in Seq(Measured)
  <2>1. 0 \in Typed
    <3>1. 0 \in 0 .. m
      BY <1>1
    <3> HIDE DEF m, step
    <3> QED
      BY <1>3, <1>7, <3>1
  <2>2. ASSUME NEW k \in 1 .. m, k - 1 \in Typed PROVE k \in Typed
    <3>1. g[k - 1] \in Seq(Measured) /\ k \in 0 .. m
      BY <1>1, <2>2
    <3> HIDE DEF m
    <3> QED
      BY <1>2, <1>7, <3>1
  <2>3. m \in Nat
    BY <1>1
  <2>4. \A k \in 0 .. m : k \in Typed
    <3> HIDE DEF m, Typed
    <3> QED
      BY <2>1, <2>2, <2>3, SetInduction
  <2> QED
    BY <2>4
<1> QED
  BY <1>6, <1>7, <1>8 DEF g, Next1

InOrder(sel, rows) ==
  \A n, o \in 1 .. Len(sel) : n < o =>
    \E i, j \in 1 .. Len(rows) : i < j /\ sel[n] = rows[i] /\ sel[o] = rows[j]
Selects(sel, rows, states) ==
  /\ sel \in Seq(Measured) /\ Len(sel) \in Nat
  /\ \A n \in 1 .. Len(sel) : \E i \in 1 .. Len(rows) : sel[n] = rows[i] /\ rows[i].status \in states
  /\ InOrder(sel, rows)
  /\ \A i \in 1 .. Len(rows) : rows[i].status \in states => \E n \in 1 .. Len(sel) : sel[n] = rows[i]

\* The selected rows are rows with these states, in their order, and all of them.
LEMMA SelectedRows ==
  ASSUME NEW rows \in Seq(Measured), NEW states
  PROVE  Selects(Selected(rows, states), rows, states)
<1> DEFINE f == SelectedUpTo(rows, states)
           Placed(k) ==
             /\ \A n \in 1 .. Len(f[k]) : \E i \in 1 .. k : f[k][n] = rows[i] /\ rows[i].status \in states
             /\ \A n, o \in 1 .. Len(f[k]) : n < o =>
                  \E i, j \in 1 .. k : i < j /\ f[k][n] = rows[i] /\ f[k][o] = rows[j]
             /\ \A i \in 1 .. k : rows[i].status \in states => \E n \in 1 .. Len(f[k]) : f[k][n] = rows[i]
           Good == {k \in 0 .. Len(rows) : Placed(k)}
<1>1. /\ Len(rows) \in Nat /\ f[0] = << >>
      /\ \A k \in 0 .. Len(rows) : f[k] \in Seq(Measured) /\ Len(f[k]) \in Nat
      /\ \A k \in 1 .. Len(rows) : rows[k] \in Measured
      /\ \A k \in 1 .. Len(rows) :
           f[k] = IF rows[k].status \in states THEN Append(f[k - 1], rows[k]) ELSE f[k - 1]
  <2>1. Len(rows) \in Nat /\ f[0] = << >> /\ \A k \in 0 .. Len(rows) : f[k] \in Seq(Measured) /\ Len(f[k]) \in Nat
    <3>1. f[0] = << >> /\ \A k \in 0 .. Len(rows) : f[k] \in Seq(Measured)
      BY SelectedUpToIsDefined
    <3> HIDE DEF f
    <3> QED
      BY <3>1, LenProperties
  <2>2. \A k \in 1 .. Len(rows) : rows[k] \in Measured
    BY ElementOfSeq
  <2>3. \A k \in 1 .. Len(rows) :
           f[k] = IF rows[k].status \in states THEN Append(f[k - 1], rows[k]) ELSE f[k - 1]
    BY SelectedUpToIsDefined
  <2> HIDE DEF f
  <2> QED
    BY <2>1, <2>2, <2>3
<1> HIDE DEF f
<1>2. 0 \in Good
  <2>1. 0 \in 0 .. Len(rows) /\ Len(f[0]) = 0
    BY <1>1
  <2> QED
    BY <2>1
<1>3. ASSUME NEW k \in 1 .. Len(rows), k - 1 \in Good PROVE k \in Good
  <2>1. k - 1 \in 0 .. Len(rows) /\ k \in 0 .. Len(rows) /\ Placed(k - 1)
    <3>1. k - 1 \in 0 .. Len(rows) /\ k \in 0 .. Len(rows)
      BY <1>1
    <3> HIDE DEF Placed
    <3> QED
      BY <1>3, <3>1
  <2>2. \A i \in 1 .. k : i \in 1 .. k - 1 \/ i = k
    BY <1>1
  <2>3. \A i \in 1 .. k - 1 : i \in 1 .. k /\ i < k
    BY <1>1
  <2>4. k \in 1 .. k
    BY <1>1
  <2> DEFINE a == f[k - 1]
  <2>5. a \in Seq(Measured) /\ Len(a) \in Nat
    BY <1>1, <2>1
  <2>6. CASE rows[k].status \in states
    <3> DEFINE b == f[k]
    <3>1. /\ Len(b) = Len(a) + 1 /\ b[Len(a) + 1] = rows[k]
          /\ \A n \in 1 .. Len(a) : b[n] = a[n]
      <4>1. b = Append(a, rows[k]) /\ rows[k] \in Measured
        BY <1>1, <2>6
      <4> HIDE DEF a, b
      <4> QED
        BY <2>5, <4>1, AppendProperties
    <3>2. Len(b) \in Nat /\ \A n \in 1 .. Len(b) : n \in 1 .. Len(a) \/ n = Len(a) + 1
      BY <2>5, <3>1
    <3>3. \A n \in 1 .. Len(a) : n \in 1 .. Len(b)
      BY <2>5, <3>1
    <3>4. Len(a) + 1 \in 1 .. Len(b)
      BY <2>5, <3>1
    <3>5. \A n \in 1 .. Len(b) : \E i \in 1 .. k : b[n] = rows[i] /\ rows[i].status \in states
      BY <2>1, <2>3, <2>4, <2>6, <3>1, <3>2
    <3>6. ASSUME NEW n \in 1 .. Len(b), NEW o \in 1 .. Len(b), n < o
          PROVE  \E i, j \in 1 .. k : i < j /\ b[n] = rows[i] /\ b[o] = rows[j]
      <4>1. n \in 1 .. Len(a)
        BY <2>5, <3>1, <3>6
      <4>2. CASE o \in 1 .. Len(a)
        BY <2>1, <2>3, <3>1, <3>6, <4>1, <4>2
      <4>3. CASE o = Len(a) + 1
        <5>1. PICK i \in 1 .. k - 1 : a[n] = rows[i]
          BY <2>1, <4>1
        <5> HIDE DEF a, b
        <5> QED
          BY <2>3, <2>4, <3>1, <4>1, <4>3, <5>1
      <4> QED
        BY <3>2, <4>2, <4>3
    <3>7. ASSUME NEW i \in 1 .. k, rows[i].status \in states PROVE \E n \in 1 .. Len(b) : b[n] = rows[i]
      <4>1. CASE i = k
        BY <3>1, <3>4, <4>1
      <4>2. CASE i \in 1 .. k - 1
        BY <2>1, <3>1, <3>3, <3>7, <4>2
      <4> QED
        BY <2>2, <4>1, <4>2
    <3>8. Placed(k)
      BY <3>5, <3>6, <3>7
    <3> QED
      BY <2>1, <3>8
  <2>7. CASE rows[k].status \notin states
    <3>1. f[k] = a
      BY <1>1, <2>7
    <3>2. Placed(k)
      BY <2>1, <2>2, <2>3, <2>7, <3>1
    <3> QED
      BY <2>1, <3>2
  <2> QED
    BY <2>6, <2>7
<1>4. \A k \in 0 .. Len(rows) : k \in Good
  <2>1. Len(rows) \in Nat
    BY <1>1
  <2> HIDE DEF Good
  <2> QED
    BY <1>2, <1>3, <2>1, SetInduction
<1>5. Len(rows) \in 0 .. Len(rows) /\ Selected(rows, states) = f[Len(rows)]
  BY <1>1 DEF Selected, f
<1>6. Placed(Len(rows))
  <2> HIDE DEF Placed
  <2> QED
    BY <1>4, <1>5
<1>7. f[Len(rows)] \in Seq(Measured) /\ Len(f[Len(rows)]) \in Nat
  BY <1>1, <1>5
<1>8. InOrder(f[Len(rows)], rows)
  BY <1>6 DEF InOrder
<1>9. Selects(f[Len(rows)], rows, states)
  BY <1>6, <1>7, <1>8 DEF Selects
<1> QED
  BY <1>5, <1>9

-------------------------------------------------------------------------------
(* The inductive invariant. *)

States == Running \union Errors \union {"start", "returned", "interrupted"}
Active == pc \in {"execute", "learn"}
Counting == pc \in Running \union {"returned"}
Done == IF Active THEN Len(samples) - 1 ELSE Len(samples)  \* samples that are complete
Latest == samples[Len(samples)]

Types ==
  /\ cfg \in Options /\ pc \in States
  /\ wrep \in 0 .. WorkloadReps /\ pos \in Nat /\ rep \in 0 .. QueryReps /\ counter \in Nat
  /\ order \in [1 .. NQueries -> 1 .. NQueries]
  /\ \A a, b \in 1 .. NQueries : order[a] = order[b] => a = b
  /\ samples \in Seq(Sample)
  /\ runs \in Seq([query : 1 .. NQueries, wrep : 1 .. WorkloadReps])

\* Where the loops are: the latest sample belongs to the query that is executed.
Place ==
  /\ pc = "start" => wrep = 0 /\ samples = << >> /\ counter = 1 /\ learned = << >>
  /\ pc \in Running \ {"repetition"} => wrep >= 1 /\ pos \in 1 .. NQueries + 1
  /\ Active => /\ pos \in 1 .. NQueries /\ samples # << >>
               /\ Latest.query = order[pos] /\ Latest.wrep = wrep

\* No two samples are of the same query and workload repetition, and the repetitions follow each other.
Ordered ==
  \A l, m \in 1 .. Len(samples) : l < m =>
    \/ samples[l].wrep < samples[m].wrep
    \/ samples[l].wrep = samples[m].wrep /\ samples[l].query # samples[m].query

\* In the current repetition there are samples of the queries before this one only.
Visited ==
  pc \in Running => \A l \in 1 .. Len(samples) :
    /\ samples[l].wrep <= wrep
    /\ pc # "repetition" /\ samples[l].wrep = wrep =>
         \E p \in 1 .. NQueries : /\ samples[l].query = order[p]
                                  /\ p < pos \/ (Active /\ p = pos)

\* A measurement that has a run is that run's, and an ok one has a run.
RunsOfRows ==
  \A l \in 1 .. Len(samples) : \A i \in 1 .. Len(samples[l].rows) :
    LET r == samples[l].rows[i] IN
      /\ r.run # 0 => /\ r.run \in 1 .. Len(runs)
                      /\ runs[r.run].query = samples[l].query /\ runs[r.run].wrep = samples[l].wrep
      /\ r.status = "ok" => r.run # 0

\* Later measurements are of later runs.
RunsIncrease ==
  \A l, m \in 1 .. Len(samples) :
    \A i \in 1 .. Len(samples[l].rows), j \in 1 .. Len(samples[m].rows) :
      /\ l < m \/ (l = m /\ i < j)
      /\ samples[l].rows[i].run # 0 /\ samples[m].rows[j].run # 0
      => samples[l].rows[i].run < samples[m].rows[j].run

\* Unless errors are ignored: every sample has its rows, and the next one starts after them.
Counted ==
  Strict /\ Counting =>
    /\ \A l \in 1 .. Len(samples) :
         /\ Len(samples[l].rows) = IF pc = "execute" /\ l = Len(samples) THEN rep ELSE QueryReps
         /\ samples[l].start = (l - 1) * QueryReps + 1
    /\ counter = IF samples = << >> THEN 1 ELSE Latest.start
    /\ pc = "repetition" => Len(samples) = wrep * NQueries
    /\ pc = "query" => Len(samples) = (wrep - 1) * NQueries + pos - 1
    /\ Active => Len(samples) = (wrep - 1) * NQueries + pos
    /\ pc = "returned" => Len(samples) = WorkloadReps * NQueries

\* What the columns of a sample's frame need
Even ==
  \A l \in 1 .. Len(samples) :
    /\ Strict => Len(samples[l].stamps) = Len(samples[l].rows)
    /\ ~cfg.post => samples[l].post = << >>

\* What was learned are the runs of the ok rows of the first d samples, in their order.
Learnt(ls, ss, d) ==
  /\ ls \in Seq(Nat)
  /\ \A n, m \in 1 .. Len(ls) : n < m => ls[n] < ls[m]
  /\ \A n \in 1 .. Len(ls) : \E l \in 1 .. d : \E i \in 1 .. Len(ss[l].rows) :
       ss[l].rows[i].status = "ok" /\ ss[l].rows[i].run = ls[n]
  /\ \A l \in 1 .. d : \A i \in 1 .. Len(ss[l].rows) :
       ss[l].rows[i].status = "ok" => \E n \in 1 .. Len(ls) : ls[n] = ss[l].rows[i].run

\* The optimizer has learned from the samples that are complete.
Fed == cfg.online /\ Counting => Learnt(learned, samples, Done)

\* A sample's columns: every row has a time stamp, and as long as there are as many of
\* both, stamp and callback data of a row are those of its execution.
Aligned(s) ==
  /\ Len(s.rows) <= Len(s.stamps)
  /\ Len(s.stamps) = Len(s.rows) =>
       /\ Len(s.post) <= Len(s.rows)
       /\ \A i \in 1 .. Len(s.rows) : /\ s.stamps[i] = s.rows[i].run
                                      /\ Len(s.post) = Len(s.rows) => s.post[i] = s.rows[i].run
Columns == \A l \in 1 .. Len(samples) : Aligned(samples[l])

\* There is an entry if there is a file, and it follows the call.
Logged ==
  /\ log = "none" <=> pc = "start" \/ ~cfg.output
  /\ pc \in Running \union {"interrupted"} => log \in {"none", "running"}
  /\ pc = "returned" => log \in {"none", "completed"} /\ frame = AllRows(samples) /\ FrameExists(samples)
  /\ pc \in Errors => log \in {"none", "failed", "completed"}
  /\ pc \in Errors /\ log = "completed" => pc = "raised" /\ ~(Strict /\ ~cfg.post)

IInv == /\ Types /\ Place /\ Ordered /\ Visited /\ RunsOfRows /\ RunsIncrease
        /\ Counted /\ Even /\ Columns /\ Fed /\ Logged

-------------------------------------------------------------------------------
(* What the steps do to the samples. *)

\* A new sample is one, and so is the sample of a failed optimization.
LEMMA NewSamples ==
  ASSUME Types, Place, pc = "query", pos <= NQueries, NEW s \in {NewSample, FailedSample(NewSample)}
  PROVE  /\ s \in Sample /\ NextIndex(counter) \in Nat /\ pos \in 1 .. NQueries
         /\ s.query = order[pos] /\ s.wrep = wrep /\ s.start = NextIndex(counter)
         /\ s.post = << >> /\ Len(s.stamps) = Len(s.rows)
         /\ s = NewSample => Len(s.rows) = 0
         /\ s # NewSample => Len(s.rows) = QueryReps
         /\ \A i \in 1 .. Len(s.rows) : s.rows[i].run = 0 /\ s.rows[i].status # "ok"
<1> DEFINE failed == [i \in 1 .. QueryReps |-> [status |-> "optimization-error", run |-> 0]]
           none == [i \in 1 .. QueryReps |-> 0]
<1>1. QueryReps \in Nat \ {0} /\ NQueries \in Nat \ {0} /\ WorkloadReps \in Nat \ {0}
  BY SizeAssumption
<1>2. pos \in 1 .. NQueries /\ order[pos] \in 1 .. NQueries /\ wrep \in 1 .. WorkloadReps
  BY <1>1 DEF Types, Place, Running
<1>3. NextIndex(counter) \in Nat
  <2>1. CASE samples = << >>
    BY <2>1 DEF NextIndex, Types
  <2>2. CASE samples # << >>
    <3>1. Len(samples) \in 1 .. Len(samples)
      BY <2>2, EmptySeq, LenProperties DEF Types
    <3>2. samples[Len(samples)] \in Sample
      BY <3>1, ElementOfSeq DEF Types
    <3>3. Len(samples[Len(samples)].rows) \in Nat
      BY <3>2, LenProperties DEF Sample
    <3> QED
      BY <2>2, <3>3 DEF NextIndex, Last, Types
  <2> QED
    BY <2>1, <2>2
<1>4. failed \in Seq(Measured) /\ Len(failed) = QueryReps /\ none \in Seq(Nat) /\ Len(none) = QueryReps
  <2>1. failed \in [1 .. QueryReps -> Measured] /\ none \in [1 .. QueryReps -> Nat]
    BY DEF Measured, Status
  <2> HIDE DEF failed, none
  <2> QED
    BY <1>1, <2>1, IsASeq, LenProperties
<1>5. NewSample \in Sample
  BY <1>2, <1>3 DEF NewSample, Sample
<1>6. CASE s = NewSample
  BY <1>2, <1>3, <1>5, <1>6 DEF NewSample
<1>7. CASE s = FailedSample(NewSample)
  <2>1. s = [NewSample EXCEPT !.rows = failed, !.stamps = none]
    BY <1>7 DEF FailedSample
  <2>2. /\ s.query = NewSample.query /\ s.wrep = NewSample.wrep /\ s.start = NewSample.start
        /\ s.post = NewSample.post /\ s.rows = failed /\ s.stamps = none
    BY <2>1 DEF NewSample
  <2>3. s \in Sample
    <3> HIDE DEF failed, none
    <3> QED
      BY <1>4, <1>5, <2>1 DEF Sample
  <2>4. \A i \in 1 .. QueryReps : failed[i].run = 0 /\ failed[i].status # "ok"
    OBVIOUS
  <2>5. s # NewSample
    BY <1>1, <1>4, <2>2 DEF NewSample
  <2> HIDE DEF failed, none
  <2> QED
    BY <1>2, <1>3, <1>4, <2>2, <2>3, <2>4, <2>5 DEF NewSample
<1> QED
  BY <1>6, <1>7

\* Recording an execution adds at most one row, and nothing else but a time stamp.
LEMMA RecordedSamples ==
  ASSUME cfg \in Options, NEW s \in Sample, NEW status \in Status, NEW run \in Nat
  PROVE  LET t == Recorded(s, status, run) IN
         /\ t \in Sample
         /\ t.query = s.query /\ t.wrep = s.wrep /\ t.start = s.start
         /\ Len(t.stamps) = Len(s.stamps) + 1
         /\ ~cfg.post => t.post = s.post
         /\ status = "execution-error" /\ cfg.error_action = "ignore" => t.rows = s.rows
         /\ ~(status = "execution-error" /\ cfg.error_action = "ignore") =>
              t.rows = Append(s.rows, [status |-> status, run |-> run])
<1> DEFINE new == [status |-> status, run |-> run]
           started == [s EXCEPT !.stamps = Append(@, run)]
           measured == IF status = "execution-error" /\ cfg.error_action = "ignore" THEN started
                       ELSE [started EXCEPT !.rows = Append(@, new)]
           posted == [measured EXCEPT !.post = Append(@, Last(measured.rows).run)]
<1>1. new \in Measured /\ Append(s.rows, new) \in Seq(Measured)
      /\ Append(s.stamps, run) \in Seq(Nat) /\ Len(Append(s.stamps, run)) = Len(s.stamps) + 1
  BY AppendProperties DEF Measured, Sample
<1> HIDE DEF new
<1>2. /\ started \in Sample /\ started.query = s.query /\ started.wrep = s.wrep /\ started.start = s.start
      /\ started.post = s.post /\ started.stamps = Append(s.stamps, run) /\ started.rows = s.rows
  BY <1>1 DEF Sample
<1> HIDE DEF started
<1>3. /\ measured \in Sample
      /\ measured.query = s.query /\ measured.wrep = s.wrep /\ measured.start = s.start
      /\ measured.post = s.post /\ Len(measured.stamps) = Len(s.stamps) + 1
      /\ measured.rows = IF status = "execution-error" /\ cfg.error_action = "ignore" THEN s.rows
                         ELSE Append(s.rows, new)
  BY <1>1, <1>2 DEF Sample
<1> HIDE DEF measured
<1>4. CASE cfg.post /\ LastSuccessful(measured)
  <2>1. Last(measured.rows).run \in Nat
    <3>1. measured.rows # << >> /\ measured.rows \in Seq(Measured)
      BY <1>3, <1>4 DEF LastSuccessful, Sample
    <3>2. Len(measured.rows) \in 1 .. Len(measured.rows)
      BY <3>1, EmptySeq, LenProperties
    <3>3. measured.rows[Len(measured.rows)] \in Measured
      BY <3>1, <3>2, ElementOfSeq
    <3> QED
      BY <3>3 DEF Last, Measured
  <2>2. Append(measured.post, Last(measured.rows).run) \in Seq(Nat)
    BY <1>3, <2>1, AppendProperties DEF Sample
  <2>3. /\ posted \in Sample
        /\ posted.query = s.query /\ posted.wrep = s.wrep /\ posted.start = s.start
        /\ posted.stamps = measured.stamps /\ posted.rows = measured.rows
    BY <1>3, <2>2 DEF Sample
  <2>4. Recorded(s, status, run) = posted
    BY <1>4 DEF Recorded, started, measured, new
  <2> HIDE DEF posted
  <2> QED
    BY <1>3, <1>4, <2>3, <2>4 DEF new
<1>5. CASE ~(cfg.post /\ LastSuccessful(measured))
  <2>1. Recorded(s, status, run) = measured
    BY <1>5 DEF Recorded, started, measured, new
  <2> QED
    BY <1>3, <2>1 DEF new
<1> QED
  BY <1>4, <1>5

\* Opening a sample leaves the other ones as they are.
LEMMA OpenedSamples ==
  ASSUME Types, NEW s \in Sample, samples' = Append(samples, s)
  PROVE  /\ Len(samples) \in Nat /\ samples' \in Seq(Sample) /\ samples' # << >>
         /\ Len(samples') = Len(samples) + 1 /\ samples'[Len(samples')] = s
         /\ \A l \in 1 .. Len(samples) : samples'[l] = samples[l] /\ l \in 1 .. Len(samples')
         /\ \A l \in 1 .. Len(samples') : l \in 1 .. Len(samples) \/ l = Len(samples')
<1>1. samples \in Seq(Sample) /\ Len(samples) \in Nat
  BY LenProperties DEF Types
<1>2. /\ samples' \in Seq(Sample) /\ samples' # << >> /\ Len(samples') = Len(samples) + 1
      /\ \A l \in 1 .. Len(samples) : samples'[l] = samples[l]
      /\ samples'[Len(samples) + 1] = s
  BY <1>1, AppendProperties
<1> QED
  BY <1>1, <1>2

\* An execution touches the latest sample only.
LEMMA ExecutedSamples ==
  ASSUME Types, Place, NEW status \in {"ok", "timeout", "execution-error"}, Execute(status)
  PROVE  LET n == Len(samples)
             s == samples[n]
             t == samples'[n]
             skipped == status = "execution-error" /\ cfg.error_action = "ignore"
         IN
         /\ n \in 1 .. n /\ samples' \in Seq(Sample) /\ Len(samples') = n
         /\ \A l \in 1 .. n : l # n => samples'[l] = samples[l]
         /\ s \in Sample /\ t \in Sample /\ s.query = order[pos] /\ s.wrep = wrep
         /\ t.query = s.query /\ t.wrep = s.wrep /\ t.start = s.start
         /\ Len(t.stamps) = Len(s.stamps) + 1 /\ (~cfg.post => t.post = s.post)
         /\ Len(s.rows) \in Nat
         /\ skipped => t.rows = s.rows
         /\ ~skipped => /\ Len(t.rows) = Len(s.rows) + 1
                        /\ \A i \in 1 .. Len(s.rows) : t.rows[i] = s.rows[i]
                        /\ t.rows[Len(s.rows) + 1] = [status |-> status, run |-> Len(runs) + 1]
         /\ runs' \in Seq([query : 1 .. NQueries, wrep : 1 .. WorkloadReps])
         /\ Len(runs) \in Nat /\ Len(runs') = Len(runs) + 1
         /\ \A r \in 1 .. Len(runs) : runs'[r] = runs[r]
         /\ runs'[Len(runs) + 1] = [query |-> order[pos], wrep |-> wrep]
<1> DEFINE n == Len(samples)
           s == samples[n]
           t == Recorded(s, status, Len(runs) + 1)
<1>1. /\ samples \in Seq(Sample) /\ samples # << >> /\ cfg \in Options /\ pos \in 1 .. NQueries
      /\ s.query = order[pos] /\ s.wrep = wrep /\ runs \in Seq([query : 1 .. NQueries, wrep : 1 .. WorkloadReps])
      /\ wrep \in 1 .. WorkloadReps /\ order[pos] \in 1 .. NQueries
  <2>1. pc = "execute"
    BY DEF Execute
  <2>2. /\ samples \in Seq(Sample) /\ cfg \in Options /\ wrep \in 0 .. WorkloadReps
        /\ order \in [1 .. NQueries -> 1 .. NQueries]
        /\ runs \in Seq([query : 1 .. NQueries, wrep : 1 .. WorkloadReps])
    BY DEF Types
  <2>3. pos \in 1 .. NQueries /\ samples # << >> /\ s.query = order[pos] /\ s.wrep = wrep
    BY <2>1 DEF Place, Active, Latest
  <2>4. wrep >= 1
    BY <2>1 DEF Place, Running
  <2>5. WorkloadReps \in Nat
    BY SizeAssumption
  <2>6. wrep \in 1 .. WorkloadReps
    <3>1. wrep \in 0 .. WorkloadReps
      BY <2>2
    <3> QED
      BY <2>4, <2>5, <3>1
  <2>7. order[pos] \in 1 .. NQueries
    <3>1. order \in [1 .. NQueries -> 1 .. NQueries] /\ pos \in 1 .. NQueries
      BY <2>2, <2>3
    <3> QED
      BY <3>1
  <2> HIDE DEF s
  <2> QED
    BY <2>2, <2>3, <2>6, <2>7
<1>2. n \in Nat /\ n \in 1 .. n /\ Len(runs) \in Nat
  BY <1>1, EmptySeq, LenProperties
<1>3. s \in Sample
  BY <1>1, <1>2, ElementOfSeq
<1>4. /\ t \in Sample
      /\ t.query = s.query /\ t.wrep = s.wrep /\ t.start = s.start
      /\ Len(t.stamps) = Len(s.stamps) + 1
      /\ ~cfg.post => t.post = s.post
      /\ status = "execution-error" /\ cfg.error_action = "ignore" => t.rows = s.rows
      /\ ~(status = "execution-error" /\ cfg.error_action = "ignore") =>
           t.rows = Append(s.rows, [status |-> status, run |-> Len(runs) + 1])
  <2>1. status \in Status /\ Len(runs) + 1 \in Nat
    BY <1>2 DEF Status
  <2> HIDE DEF n, s
  <2> QED
    BY <1>1, <1>3, <2>1, RecordedSamples
<1>5. samples' = [samples EXCEPT ![n] = t]
  BY DEF Execute, Last, NewRun
<1> HIDE DEF t
<1>6. /\ samples' \in Seq(Sample) /\ Len(samples') = n
      /\ \A l \in 1 .. n : samples'[l] = IF l = n THEN t ELSE samples[l]
  BY <1>1, <1>2, <1>4, <1>5, ExceptSeq
<1>7. /\ runs' \in Seq([query : 1 .. NQueries, wrep : 1 .. WorkloadReps])
      /\ Len(runs') = Len(runs) + 1
      /\ \A r \in 1 .. Len(runs) : runs'[r] = runs[r]
      /\ runs'[Len(runs) + 1] = [query |-> order[pos], wrep |-> wrep]
  <2> DEFINE e == [query |-> order[pos], wrep |-> wrep]
  <2>1. runs' = Append(runs, e)
    BY DEF Execute, Execution
  <2>2. e \in [query : 1 .. NQueries, wrep : 1 .. WorkloadReps]
    BY <1>1
  <2> HIDE DEF e
  <2>3. /\ runs' \in Seq([query : 1 .. NQueries, wrep : 1 .. WorkloadReps])
        /\ Len(runs') = Len(runs) + 1
        /\ \A r \in 1 .. Len(runs) : runs'[r] = runs[r]
        /\ runs'[Len(runs) + 1] = e
    BY <1>1, <2>1, <2>2, AppendProperties
  <2> QED
    BY <2>3 DEF e
<1>8. s.rows \in Seq(Measured) /\ Len(s.rows) \in Nat
  BY <1>3, LenProperties DEF Sample
<1>9. ASSUME ~(status = "execution-error" /\ cfg.error_action = "ignore")
      PROVE  /\ Len(t.rows) = Len(s.rows) + 1
             /\ \A i \in 1 .. Len(s.rows) : t.rows[i] = s.rows[i]
             /\ t.rows[Len(s.rows) + 1] = [status |-> status, run |-> Len(runs) + 1]
  <2> DEFINE new == [status |-> status, run |-> Len(runs) + 1]
  <2>1. new \in Measured
    BY <1>2 DEF Measured, Status
  <2>2. t.rows = Append(s.rows, new)
    BY <1>4, <1>9
  <2> HIDE DEF new, s
  <2>3. /\ Len(t.rows) = Len(s.rows) + 1
        /\ \A i \in 1 .. Len(s.rows) : t.rows[i] = s.rows[i]
        /\ t.rows[Len(s.rows) + 1] = new
    BY <1>8, <2>1, <2>2, AppendProperties
  <2> QED
    BY <2>3 DEF new
<1>10. samples'[n] = t
  BY <1>2, <1>6
<1> HIDE DEF n, s
<1>11. \A l \in 1 .. n : l # n => samples'[l] = samples[l]
  BY <1>6
<1> QED
  BY <1>1, <1>2, <1>3, <1>4, <1>6, <1>7, <1>8, <1>9, <1>10, <1>11 DEF n, s

\* What a step can do to samples and runs.
LEMMA StepsOfSamples ==
  ASSUME Types, Place, [Next]_vars
  PROVE  \/ UNCHANGED << samples, runs >>
         \/ ExecuteRaises /\ UNCHANGED samples
         \/ \E s \in {NewSample, FailedSample(NewSample)} :
              pc = "query" /\ pos <= NQueries /\ samples' = Append(samples, s) /\ UNCHANGED runs
         \/ \E status \in {"ok", "timeout", "execution-error"} : Execute(status)
<1>1. CASE UNCHANGED vars
  BY <1>1 DEF vars
<1>2. CASE Begin \/ NextRepetition \/ Finish \/ Interrupt \/ EndOfWorkload \/ EndOfQuery \/ Learn \/ PrepareFails
  BY <1>2 DEF Begin, NextRepetition, Finish, Interrupt, EndOfWorkload, EndOfQuery, Learn, PrepareFails
<1>3. CASE Optimize
  BY <1>3 DEF Optimize
<1>4. CASE OptimizeFails
  <2>1. cfg.error_action \in {"raise", "log", "ignore"}
    BY DEF Types, Options
  <2>2. /\ pc = "query" /\ pos <= NQueries /\ UNCHANGED runs
        /\ samples' = samples \/ samples' = Append(samples, FailedSample(NewSample))
    <3>1. CASE cfg.error_action = "log"
      BY <1>4, <3>1 DEF OptimizeFails
    <3>2. CASE cfg.error_action = "raise"
      BY <1>4, <3>2 DEF OptimizeFails
    <3>3. CASE cfg.error_action = "ignore"
      BY <1>4, <3>3 DEF OptimizeFails
    <3> QED
      BY <2>1, <3>1, <3>2, <3>3
  <2> QED
    BY <2>2
<1>5. CASE \E status \in {"ok", "timeout", "execution-error"} : Execute(status)
  BY <1>5
<1>6. CASE ExecuteRaises
  BY <1>6 DEF ExecuteRaises
<1> QED
  BY <1>1, <1>2, <1>3, <1>4, <1>5, <1>6 DEF Next

OldRow(l, i) ==
  /\ l \in 1 .. Len(samples) /\ i \in 1 .. Len(samples[l].rows)
  /\ samples'[l].rows[i] = samples[l].rows[i]
FailedRow(l, i) ==
  samples'[l].rows[i].run = 0 /\ samples'[l].rows[i].status # "ok"
NewRow(l, i) ==
  /\ l = Len(samples') /\ l = Len(samples) /\ i = Len(samples[l].rows) + 1
  /\ Len(runs) + 1 = Len(runs') /\ samples'[l].rows[i].run = Len(runs')
  /\ runs'[Len(runs')].query = samples'[l].query /\ runs'[Len(runs')].wrep = samples'[l].wrep

\* A row after a step was there before, is one of a failed optimization or that of the
\* newest run; samples and runs are never taken back.
LEMMA RowsGrow ==
  ASSUME Types, Place, [Next]_vars
  PROVE  /\ samples' \in Seq(Sample) /\ runs' \in Seq([query : 1 .. NQueries, wrep : 1 .. WorkloadReps])
         /\ Len(samples) \in Nat /\ Len(samples') \in Nat /\ Len(runs) \in Nat /\ Len(runs') \in Nat
         /\ Len(samples) <= Len(samples') /\ Len(runs) <= Len(runs')
         /\ \A r \in 1 .. Len(runs) : runs'[r] = runs[r]
         /\ \A l \in 1 .. Len(samples) : /\ samples'[l].query = samples[l].query
                                         /\ samples'[l].wrep = samples[l].wrep
                                         /\ samples'[l].start = samples[l].start
         /\ \A l \in 1 .. Len(samples') : \A i \in 1 .. Len(samples'[l].rows) :
              OldRow(l, i) \/ FailedRow(l, i) \/ NewRow(l, i)
<1> DEFINE Run == [query : 1 .. NQueries, wrep : 1 .. WorkloadReps]
<1>1. samples \in Seq(Sample) /\ runs \in Seq(Run) /\ Len(samples) \in Nat /\ Len(runs) \in Nat
  BY LenProperties DEF Types
<1>2. CASE UNCHANGED << samples, runs >>
  BY <1>1, <1>2 DEF OldRow
<1>3. CASE ExecuteRaises /\ UNCHANGED samples
  <2>1. CASE runs' = runs
    BY <1>1, <1>3, <2>1 DEF OldRow
  <2>2. CASE runs' = Append(runs, Execution)
    <3>1. Execution \in Run
      <4>1. pos \in 1 .. NQueries /\ wrep \in 1 .. WorkloadReps
        BY <1>3, SizeAssumption DEF ExecuteRaises, Types, Place, Running, Active
      <4> QED
        BY <4>1 DEF Execution, Types
    <3>2. /\ runs' \in Seq(Run) /\ Len(runs') = Len(runs) + 1
          /\ \A r \in 1 .. Len(runs) : runs'[r] = runs[r]
      <4> HIDE DEF Run
      <4> QED
        BY <1>1, <2>2, <3>1, AppendProperties
    <3> QED
      BY <1>1, <1>3, <3>2 DEF OldRow
  <2> QED
    BY <1>3, <2>1, <2>2 DEF ExecuteRaises
<1>4. ASSUME NEW s \in {NewSample, FailedSample(NewSample)},
             pc = "query", pos <= NQueries, samples' = Append(samples, s), UNCHANGED runs
      PROVE  /\ samples' \in Seq(Sample) /\ runs' \in Seq(Run)
             /\ Len(samples') \in Nat /\ Len(runs') \in Nat
             /\ Len(samples) <= Len(samples') /\ Len(runs) <= Len(runs')
             /\ \A r \in 1 .. Len(runs) : runs'[r] = runs[r]
             /\ \A l \in 1 .. Len(samples) : /\ samples'[l].query = samples[l].query
                                             /\ samples'[l].wrep = samples[l].wrep
                                             /\ samples'[l].start = samples[l].start
             /\ \A l \in 1 .. Len(samples') : \A i \in 1 .. Len(samples'[l].rows) :
                  OldRow(l, i) \/ FailedRow(l, i) \/ NewRow(l, i)
  <2>1. s \in Sample /\ \A i \in 1 .. Len(s.rows) : s.rows[i].run = 0 /\ s.rows[i].status # "ok"
    BY <1>4, NewSamples
  <2>2. /\ samples' \in Seq(Sample) /\ Len(samples') = Len(samples) + 1 /\ samples'[Len(samples')] = s
        /\ \A l \in 1 .. Len(samples) : samples'[l] = samples[l]
        /\ \A l \in 1 .. Len(samples') : l \in 1 .. Len(samples) \/ l = Len(samples')
    BY <1>4, <2>1, OpenedSamples
  <2>3. ASSUME NEW l \in 1 .. Len(samples'), NEW i \in 1 .. Len(samples'[l].rows)
        PROVE  OldRow(l, i) \/ FailedRow(l, i)
    <3>1. CASE l \in 1 .. Len(samples)
      BY <2>2, <3>1 DEF OldRow
    <3>2. CASE l = Len(samples')
      BY <2>1, <2>2, <3>2 DEF FailedRow
    <3> QED
      BY <2>2, <3>1, <3>2
  <2> QED
    BY <1>1, <1>4, <2>2, <2>3
<1>5. ASSUME NEW status \in {"ok", "timeout", "execution-error"}, Execute(status)
      PROVE  /\ samples' \in Seq(Sample) /\ runs' \in Seq(Run)
             /\ Len(samples') \in Nat /\ Len(runs') \in Nat
             /\ Len(samples) <= Len(samples') /\ Len(runs) <= Len(runs')
             /\ \A r \in 1 .. Len(runs) : runs'[r] = runs[r]
             /\ \A l \in 1 .. Len(samples) : /\ samples'[l].query = samples[l].query
                                             /\ samples'[l].wrep = samples[l].wrep
                                             /\ samples'[l].start = samples[l].start
             /\ \A l \in 1 .. Len(samples') : \A i \in 1 .. Len(samples'[l].rows) :
                  OldRow(l, i) \/ FailedRow(l, i) \/ NewRow(l, i)
  <2> DEFINE n == Len(samples)
             t == samples'[n]
  <2>1. /\ n \in 1 .. n /\ samples' \in Seq(Sample) /\ Len(samples') = n
        /\ \A l \in 1 .. n : l # n => samples'[l] = samples[l]
        /\ samples[n].query = order[pos] /\ samples[n].wrep = wrep /\ Len(samples[n].rows) \in Nat
        /\ t.query = samples[n].query /\ t.wrep = samples[n].wrep /\ t.start = samples[n].start
        /\ runs' \in Seq(Run) /\ Len(runs') = Len(runs) + 1 /\ \A r \in 1 .. Len(runs) : runs'[r] = runs[r]
        /\ runs'[Len(runs) + 1] = [query |-> order[pos], wrep |-> wrep]
    BY <1>5, ExecutedSamples
  <2>2. \/ t.rows = samples[n].rows
        \/ /\ Len(t.rows) = Len(samples[n].rows) + 1
           /\ \A i \in 1 .. Len(samples[n].rows) : t.rows[i] = samples[n].rows[i]
           /\ t.rows[Len(samples[n].rows) + 1].run = Len(runs) + 1
    <3>1. CASE status = "execution-error" /\ cfg.error_action = "ignore"
      BY <1>5, <3>1, ExecutedSamples
    <3>2. CASE ~(status = "execution-error" /\ cfg.error_action = "ignore")
      BY <1>5, <3>2, ExecutedSamples, SMTT(20)
    <3> QED
      BY <3>1, <3>2
  <2>3. ASSUME NEW l \in 1 .. Len(samples'), NEW i \in 1 .. Len(samples'[l].rows)
        PROVE  OldRow(l, i) \/ NewRow(l, i)
    <3>1. CASE l # n
      BY <2>1, <3>1 DEF OldRow
    <3>2. CASE l = n /\ i \in 1 .. Len(samples[n].rows)
      BY <2>1, <2>2, <3>2 DEF OldRow
    <3>3. CASE l = n /\ i \notin 1 .. Len(samples[n].rows)
      <4>1. i = Len(samples[n].rows) + 1 /\ t.rows[i].run = Len(runs) + 1
        <5>1. i \in 1 .. Len(t.rows)
          BY <3>3
        <5> DEFINE m == Len(samples[n].rows)
        <5>2. m \in Nat
          BY <2>1
        <5> HIDE DEF t, m
        <5>3. i \notin 1 .. m /\ (Len(t.rows) = m \/ (Len(t.rows) = m + 1 /\ t.rows[m + 1].run = Len(runs) + 1))
          BY <2>2, <3>3, <5>1 DEF m
        <5>4. i = m + 1
          BY <5>1, <5>2, <5>3
        <5> QED
          BY <5>1, <5>2, <5>3, <5>4 DEF m
      <4> QED
        BY <2>1, <3>3, <4>1 DEF NewRow
    <3> QED
      BY <3>1, <3>2, <3>3
  <2>4. \A l \in 1 .. n : /\ samples'[l].query = samples[l].query
                          /\ samples'[l].wrep = samples[l].wrep
                          /\ samples'[l].start = samples[l].start
    BY <2>1
  <2>5. /\ samples' \in Seq(Sample) /\ runs' \in Seq(Run)
        /\ Len(samples') \in Nat /\ Len(runs') \in Nat
        /\ Len(samples) <= Len(samples') /\ Len(runs) <= Len(runs')
    <3> HIDE DEF Run, t
    <3> QED
      BY <1>1, <2>1
  <2>6. \A r \in 1 .. Len(runs) : runs'[r] = runs[r]
    BY <2>1
  <2>7. \A l \in 1 .. Len(samples') : \A i \in 1 .. Len(samples'[l].rows) :
          OldRow(l, i) \/ FailedRow(l, i) \/ NewRow(l, i)
    BY <2>3
  <2> HIDE DEF Run, t
  <2> QED
    BY <2>4, <2>5, <2>6, <2>7
<1>6. CASE \E s \in {NewSample, FailedSample(NewSample)} :
             pc = "query" /\ pos <= NQueries /\ samples' = Append(samples, s) /\ UNCHANGED runs
  <2>1. PICK s \in {NewSample, FailedSample(NewSample)} :
          pc = "query" /\ pos <= NQueries /\ samples' = Append(samples, s) /\ UNCHANGED runs
    BY <1>6
  <2> QED
    BY <1>1, <1>4, <2>1, Zenon
<1>7. CASE \E status \in {"ok", "timeout", "execution-error"} : Execute(status)
  BY <1>1, <1>5, <1>7
<1> HIDE DEF Run
<1>8. \/ UNCHANGED << samples, runs >>
      \/ ExecuteRaises /\ UNCHANGED samples
      \/ \E s \in {NewSample, FailedSample(NewSample)} :
           pc = "query" /\ pos <= NQueries /\ samples' = Append(samples, s) /\ UNCHANGED runs
      \/ \E status \in {"ok", "timeout", "execution-error"} : Execute(status)
  BY StepsOfSamples
<1> QED
  BY <1>2, <1>3, <1>6, <1>7, <1>8

-------------------------------------------------------------------------------
(* Every step preserves the invariant, conjunct by conjunct. *)

LEMMA TypesAreKept == IInv /\ [Next]_vars => Types'
<1> SUFFICES ASSUME IInv, [Next]_vars PROVE Types'
  OBVIOUS
<1>1. Types /\ Place
  BY DEF IInv
<1>2. samples' \in Seq(Sample) /\ runs' \in Seq([query : 1 .. NQueries, wrep : 1 .. WorkloadReps])
  BY <1>1, RowsGrow
<1>3. /\ cfg' \in Options /\ pc' \in States /\ wrep' \in 0 .. WorkloadReps /\ pos' \in Nat
      /\ rep' \in 0 .. QueryReps /\ counter' \in Nat
      /\ order' \in [1 .. NQueries -> 1 .. NQueries]
      /\ \A a, b \in 1 .. NQueries : order'[a] = order'[b] => a = b
  <2> USE DEF States, Running, Errors
  <2>1. CASE UNCHANGED vars
    BY <1>1, <2>1 DEF vars, Types
  <2>2. CASE NextRepetition
    <3>1. order' \in [1 .. NQueries -> 1 .. NQueries] /\ \A a, b \in 1 .. NQueries : order'[a] = order'[b] => a = b
      <4>1. CASE cfg.shuffled
        <5>1. order' \in [1 .. NQueries -> 1 .. NQueries] /\ IsInjective(order')
          BY <2>2, <4>1 DEF NextRepetition
        <5> QED
          BY <5>1 DEF IsInjective
      <4>2. CASE ~cfg.shuffled
        <5>1. order' = Workload
          <6>1. \E p \in {Workload} : order' = p
            BY <2>2, <4>2, Zenon DEF NextRepetition
          <6> QED
            BY <6>1
        <5>2. Workload \in [1 .. NQueries -> 1 .. NQueries] /\ \A a \in 1 .. NQueries : Workload[a] = a
          BY DEF Workload
        <5> QED
          BY <5>1, <5>2
      <4> QED
        BY <4>1, <4>2
    <3>2. /\ wrep < WorkloadReps /\ wrep' = wrep + 1 /\ pos' = 1 /\ pc' = "query"
          /\ UNCHANGED << cfg, rep, counter >>
      BY <2>2 DEF NextRepetition
    <3>3. wrep' \in 0 .. WorkloadReps
      BY <1>1, <3>2, SizeAssumption DEF Types
    <3>4. cfg \in Options /\ rep \in 0 .. QueryReps /\ counter \in Nat /\ 1 \in Nat
      BY <1>1 DEF Types
    <3>5. cfg' \in Options /\ pc' \in States /\ pos' \in Nat /\ rep' \in 0 .. QueryReps /\ counter' \in Nat
      BY <3>2, <3>4
    <3> QED
      BY <3>1, <3>3, <3>5, Zenon
  <2>3. CASE Begin \/ Finish \/ Interrupt \/ EndOfWorkload \/ EndOfQuery \/ Learn \/ PrepareFails \/ ExecuteRaises
    <3>1. UNCHANGED << cfg, wrep, order, rep, counter >>
      BY <2>3 DEF Begin, Finish, Interrupt, EndOfWorkload, EndOfQuery, Learn, PrepareFails, ExecuteRaises
    <3>2. pos' \in {pos, pos + 1}
      BY <2>3 DEF Begin, Finish, Interrupt, EndOfWorkload, EndOfQuery, Learn, PrepareFails, ExecuteRaises
    <3>3. pc' \in States
      BY <2>3 DEF Begin, Finish, Interrupt, EndOfWorkload, EndOfQuery, Learn, PrepareFails, ExecuteRaises, Raise
    <3> QED
      BY <1>1, <3>1, <3>2, <3>3 DEF Types
  <2>4. CASE Optimize
    <3>1. NextIndex(counter) \in Nat
      BY <1>1, <2>4, NewSamples DEF Optimize
    <3> QED
      BY <1>1, <2>4, <3>1, SizeAssumption DEF Optimize, Types
  <2>5. CASE OptimizeFails
    <3>1. NextIndex(counter) \in Nat
      BY <1>1, <2>5, NewSamples DEF OptimizeFails
    <3>2. pos' \in {pos, pos + 1} /\ pc' \in {pc, "raised"}
      <4>1. cfg.error_action \in {"raise", "log", "ignore"}
        BY <1>1 DEF Types, Options
      <4> QED
        BY <2>5, <4>1 DEF OptimizeFails, Raise
    <3> QED
      BY <1>1, <2>5, <3>1, <3>2 DEF OptimizeFails, Types
  <2>6. ASSUME NEW status \in {"ok", "timeout", "execution-error"}, Execute(status)
        PROVE  rep' \in 0 .. QueryReps /\ UNCHANGED << cfg, pc, wrep, pos, counter, order >>
    BY <1>1, <2>6, SizeAssumption DEF Execute, Types
  <2> QED
    BY <1>1, <2>1, <2>2, <2>3, <2>4, <2>5, <2>6 DEF Next, Types
<1> QED
  BY <1>2, <1>3 DEF Types

LEMMA RowsAreKept == IInv /\ [Next]_vars => RunsOfRows' /\ RunsIncrease'
<1> SUFFICES ASSUME IInv, [Next]_vars PROVE RunsOfRows' /\ RunsIncrease'
  OBVIOUS
<1>1. Types /\ Place /\ RunsOfRows /\ RunsIncrease
  BY DEF IInv
<1>2. /\ Len(samples) \in Nat /\ Len(samples') \in Nat /\ Len(runs) \in Nat /\ Len(runs') \in Nat
      /\ Len(samples) <= Len(samples') /\ Len(runs) <= Len(runs')
      /\ \A r \in 1 .. Len(runs) : runs'[r] = runs[r]
      /\ \A l \in 1 .. Len(samples) : /\ samples'[l].query = samples[l].query
                                      /\ samples'[l].wrep = samples[l].wrep
      /\ \A l \in 1 .. Len(samples') : \A i \in 1 .. Len(samples'[l].rows) :
              OldRow(l, i) \/ FailedRow(l, i) \/ NewRow(l, i)
  BY <1>1, RowsGrow
<1>3. ASSUME NEW l \in 1 .. Len(samples'), NEW i \in 1 .. Len(samples'[l].rows)
      PROVE  LET r == samples'[l].rows[i] IN
        /\ r.run # 0 => /\ r.run \in 1 .. Len(runs')
                        /\ runs'[r.run].query = samples'[l].query /\ runs'[r.run].wrep = samples'[l].wrep
        /\ r.status = "ok" => r.run # 0
  <2>1. CASE OldRow(l, i)
    <3> DEFINE r == samples[l].rows[i]
    <3>1. /\ r.run # 0 => /\ r.run \in 1 .. Len(runs)
                          /\ runs[r.run].query = samples[l].query /\ runs[r.run].wrep = samples[l].wrep
          /\ r.status = "ok" => r.run # 0
          /\ samples'[l].rows[i] = r /\ l \in 1 .. Len(samples)
      BY <1>1, <2>1 DEF OldRow, RunsOfRows
    <3> HIDE DEF r
    <3>2. r.run \in 1 .. Len(runs) => r.run \in 1 .. Len(runs')
      BY <1>2
    <3> QED
      BY <1>2, <3>1, <3>2
  <2>2. CASE FailedRow(l, i)
    BY <2>2 DEF FailedRow
  <2>3. CASE NewRow(l, i)
    BY <1>2, <2>3 DEF NewRow
  <2> QED
    BY <1>2, <2>1, <2>2, <2>3
<1>4. RunsOfRows'
  BY <1>3 DEF RunsOfRows
<1>5. ASSUME NEW l \in 1 .. Len(samples'), NEW m \in 1 .. Len(samples'),
             NEW i \in 1 .. Len(samples'[l].rows), NEW j \in 1 .. Len(samples'[m].rows),
             l < m \/ (l = m /\ i < j),
             samples'[l].rows[i].run # 0, samples'[m].rows[j].run # 0
      PROVE  samples'[l].rows[i].run < samples'[m].rows[j].run
  <2>1. ~FailedRow(l, i) /\ ~FailedRow(m, j)
    BY <1>5 DEF FailedRow
  <2>2. CASE OldRow(l, i) /\ OldRow(m, j)
    BY <1>1, <1>5, <2>2 DEF OldRow, RunsIncrease
  <2>3. CASE OldRow(l, i) /\ NewRow(m, j)
    <3>1. samples[l].rows[i].run \in 1 .. Len(runs)
      BY <1>1, <1>5, <2>3 DEF OldRow, RunsOfRows
    <3> QED
      <4>1. samples'[l].rows[i].run = samples[l].rows[i].run
        BY <2>3 DEF OldRow
      <4>2. samples'[m].rows[j].run = Len(runs) + 1
        BY <2>3 DEF NewRow
      <4>3. Len(runs) \in Nat
        BY <1>2
      <4> DEFINE old == samples[l].rows[i].run
                 n == Len(runs)
      <4> HIDE DEF old, n
      <4>4. old < n + 1
        BY <3>1, <4>3 DEF old, n
      <4> QED
        BY <4>1, <4>2, <4>4 DEF old, n
  <2>4. CASE NewRow(l, i) /\ OldRow(m, j)
    <3>1. m <= l /\ (l = m => j < i)
      <4>1. Len(samples[m].rows) \in Nat
        <5>1. samples[m] \in Sample
          BY <1>1, <2>4, ElementOfSeq DEF OldRow, Types
        <5> QED
          BY <5>1, LenProperties DEF Sample
      <4> QED
        BY <1>2, <2>4, <4>1 DEF OldRow, NewRow
    <3> QED
      BY <1>2, <1>5, <3>1
  <2>5. CASE NewRow(l, i) /\ NewRow(m, j)
    <3>1. l = m /\ i = j
      BY <2>5 DEF NewRow
    <3>2. samples'[l] \in Sample
      BY <1>1, RowsGrow, ElementOfSeq
    <3>3. Len(samples'[l].rows) \in Nat
      BY <3>2, LenProperties DEF Sample
    <3> QED
      BY <1>2, <1>5, <3>1, <3>3
  <2> QED
    BY <1>2, <2>1, <2>2, <2>3, <2>4, <2>5
<1>6. RunsIncrease'
  BY <1>5 DEF RunsIncrease
<1> QED
  BY <1>4, <1>6

LEMMA PlaceIsKept == IInv /\ [Next]_vars => Place'
<1> SUFFICES ASSUME IInv, [Next]_vars PROVE Place'
  OBVIOUS
<1>1. Types /\ Place
  BY DEF IInv
<1> USE DEF Running, Errors, Active
<1>2. CASE UNCHANGED vars
  BY <1>1, <1>2 DEF vars, Place, Latest
<1>3. CASE Begin \/ Finish \/ Interrupt \/ EndOfWorkload \/ PrepareFails \/ ExecuteRaises
  BY <1>1, <1>3 DEF Begin, Finish, Interrupt, EndOfWorkload, PrepareFails, ExecuteRaises, Raise, Place
<1>4. CASE NextRepetition
  BY <1>1, <1>4, SizeAssumption DEF NextRepetition, Place, Types
<1>5. CASE EndOfQuery \/ Learn
  <2>1. /\ UNCHANGED << wrep, order, samples >> /\ wrep >= 1 /\ pos \in 1 .. NQueries
        /\ samples # << >> /\ Latest.query = order[pos] /\ Latest.wrep = wrep
        /\ pc' # "start" /\ pc' # "execute" /\ pos' \in {pos, pos + 1} /\ (pc' = "learn" => pos' = pos)
    BY <1>1, <1>5 DEF EndOfQuery, Learn, Raise, Place
  <2> QED
    BY <2>1, SizeAssumption DEF Place, Latest
<1>6. CASE Optimize
  <2>1. /\ NewSample \in Sample /\ NewSample.query = order[pos] /\ NewSample.wrep = wrep
        /\ pos \in 1 .. NQueries /\ wrep >= 1
    BY <1>1, <1>6, NewSamples DEF Optimize, Place
  <2>2. samples' # << >> /\ samples'[Len(samples')] = NewSample
    BY <1>1, <1>6, <2>1, OpenedSamples DEF Optimize
  <2> QED
    BY <1>6, <2>1, <2>2, SizeAssumption DEF Optimize, Place, Latest
<1>7. CASE OptimizeFails
  <2>1. pos \in 1 .. NQueries /\ wrep >= 1 /\ wrep' = wrep
        /\ pos' \in {pos, pos + 1} /\ pc' \in {"query", "raised"}
    <3>1. cfg.error_action \in {"raise", "log", "ignore"}
      BY <1>1 DEF Types, Options
    <3>2. pos \in 1 .. NQueries
      BY <1>1, <1>7, NewSamples DEF OptimizeFails
    <3> QED
      BY <1>1, <1>7, <3>1, <3>2 DEF OptimizeFails, Raise, Place
  <2> QED
    BY <2>1, SizeAssumption DEF Place
<1>8. ASSUME NEW status \in {"ok", "timeout", "execution-error"}, Execute(status) PROVE Place'
  <2>1. /\ pc' = "execute" /\ UNCHANGED << wrep, pos, order >> /\ wrep >= 1 /\ pos \in 1 .. NQueries
    BY <1>1, <1>8 DEF Execute, Place
  <2>2. /\ Len(samples) \in 1 .. Len(samples) /\ Len(samples') = Len(samples)
        /\ samples'[Len(samples)].query = order[pos] /\ samples'[Len(samples)].wrep = wrep
    BY <1>1, <1>8, ExecutedSamples
  <2>3. samples' # << >>
    BY <2>2
  <2> QED
    BY <2>1, <2>2, <2>3, SizeAssumption DEF Place, Latest
<1> QED
  BY <1>2, <1>3, <1>4, <1>5, <1>6, <1>7, <1>8 DEF Next

LEMMA OrderIsKept == IInv /\ [Next]_vars => Ordered' /\ Visited'
<1> SUFFICES ASSUME IInv, [Next]_vars PROVE Ordered' /\ Visited'
  OBVIOUS
<1>1. Types /\ Place /\ Ordered /\ Visited
  BY DEF IInv
<1> USE DEF Running, Errors, Active
<1>2. /\ Len(samples) \in Nat
      /\ \A l \in 1 .. Len(samples) : /\ samples[l].wrep \in Nat
                                      /\ samples'[l].query = samples[l].query
                                      /\ samples'[l].wrep = samples[l].wrep
  <2>1. \A l \in 1 .. Len(samples) : samples[l] \in Sample
    BY <1>1, ElementOfSeq DEF Types
  <2>2. \A l \in 1 .. Len(samples) : samples[l].wrep \in Nat
    BY <2>1, SizeAssumption DEF Sample
  <2> QED
    BY <1>1, <2>2, RowsGrow
<1>3. ASSUME Len(samples') = Len(samples) PROVE Ordered'
  BY <1>1, <1>2, <1>3 DEF Ordered
<1>4. CASE UNCHANGED vars
  BY <1>1, <1>2, <1>3, <1>4 DEF vars, Visited
<1>5. CASE Begin \/ Finish \/ Interrupt \/ EndOfWorkload \/ PrepareFails \/ ExecuteRaises
  <2>1. UNCHANGED << samples, wrep >> /\ (pc' \in Running => pc' = "repetition" /\ pc \in {"start", "query"})
    BY <1>5 DEF Begin, Finish, Interrupt, EndOfWorkload, PrepareFails, ExecuteRaises, Raise
  <2>2. CASE pc = "start"
    <3>1. Len(samples) = 0
      BY <1>1, <2>2, EmptySeq DEF Place
    <3> QED
      BY <1>2, <1>3, <2>1, <3>1 DEF Visited
  <2>3. CASE pc # "start"
    BY <1>1, <1>2, <1>3, <2>1, <2>3 DEF Visited
  <2> QED
    BY <2>2, <2>3
<1>6. CASE NextRepetition
  <2>1. UNCHANGED samples /\ wrep' = wrep + 1 /\ pc = "repetition" /\ wrep \in Nat
    BY <1>1, <1>6 DEF NextRepetition, Types
  <2>2. \A l \in 1 .. Len(samples') : samples'[l].wrep < wrep'
    BY <1>1, <1>2, <2>1 DEF Visited
  <2>3. \A l \in 1 .. Len(samples') : samples'[l].wrep \in Nat /\ wrep' \in Nat
    BY <1>2, <2>1
  <2>4. \A l \in 1 .. Len(samples') : samples'[l].wrep <= wrep' /\ samples'[l].wrep # wrep'
    BY <2>2, <2>3
  <2> QED
    BY <1>3, <2>1, <2>4 DEF Visited
<1>7. CASE EndOfQuery \/ Learn
  <2>1. /\ UNCHANGED << wrep, order, samples >> /\ pc \in {"execute", "learn"} /\ pos \in Nat
        /\ (pc' = "learn" /\ pos' = pos) \/ (pc' = "query" /\ pos' = pos + 1) \/ pc' \notin Running
    BY <1>1, <1>7 DEF EndOfQuery, Learn, Raise, Types
  <2>2. \A p \in 1 .. NQueries : p < pos \/ p = pos => /\ p < pos + 1
                                                       /\ p < pos \/ p = pos
    BY <2>1, SizeAssumption
  <2> QED
    BY <1>1, <1>3, <2>1, <2>2 DEF Visited
<1>8. ASSUME NEW s \in Sample, pc = "query", pos \in 1 .. NQueries, samples' = Append(samples, s),
             s.query = order[pos], s.wrep = wrep, UNCHANGED << wrep, order >>
      PROVE  /\ Ordered'
             /\ \A l \in 1 .. Len(samples') :
                  /\ samples'[l].wrep <= wrep
                  /\ samples'[l].wrep = wrep =>
                       \E p \in 1 .. NQueries : samples'[l].query = order[p] /\ (p < pos \/ p = pos)
  <2>1. /\ Len(samples') = Len(samples) + 1 /\ samples'[Len(samples')] = s
        /\ \A l \in 1 .. Len(samples') : l \in 1 .. Len(samples) \/ l = Len(samples')
    BY <1>1, <1>8, OpenedSamples
  <2>2. wrep \in Nat
    BY <1>1 DEF Types
  <2>3. ASSUME NEW l \in 1 .. Len(samples)
        PROVE  samples[l].wrep < wrep \/ (samples[l].wrep = wrep /\ samples[l].query # s.query)
    <3>1. CASE samples[l].wrep = wrep
      <4>1. PICK p \in 1 .. NQueries : samples[l].query = order[p] /\ p < pos
        BY <1>1, <1>8, <3>1 DEF Visited
      <4> QED
        BY <1>1, <1>8, <3>1, <4>1 DEF Types
    <3>2. CASE samples[l].wrep # wrep
      BY <1>1, <1>2, <1>8, <2>2, <3>2 DEF Visited
    <3> QED
      BY <3>1, <3>2
  <2>4. ASSUME NEW l \in 1 .. Len(samples'), NEW m \in 1 .. Len(samples'), l < m
        PROVE  \/ samples'[l].wrep < samples'[m].wrep
               \/ samples'[l].wrep = samples'[m].wrep /\ samples'[l].query # samples'[m].query
    <3>1. l \in 1 .. Len(samples)
      BY <1>2, <2>1, <2>4
    <3>2. CASE m \in 1 .. Len(samples)
      BY <1>1, <1>2, <2>4, <3>1, <3>2 DEF Ordered
    <3>3. CASE m = Len(samples')
      BY <1>2, <1>8, <2>1, <2>3, <3>1, <3>3
    <3> QED
      BY <2>1, <3>2, <3>3
  <2>5. ASSUME NEW l \in 1 .. Len(samples')
        PROVE  /\ samples'[l].wrep <= wrep
               /\ samples'[l].wrep = wrep =>
                    \E p \in 1 .. NQueries : samples'[l].query = order[p] /\ (p < pos \/ p = pos)
    <3>1. CASE l \in 1 .. Len(samples)
      BY <1>1, <1>2, <1>8, <3>1 DEF Visited
    <3>2. CASE l = Len(samples')
      BY <1>8, <2>1, <2>2, <3>2
    <3> QED
      BY <2>1, <3>1, <3>2
  <2> QED
    BY <2>4, <2>5 DEF Ordered
<1>9. CASE Optimize
  <2>1. NewSample \in Sample /\ NewSample.query = order[pos] /\ NewSample.wrep = wrep /\ pos \in 1 .. NQueries
    BY <1>1, <1>9, NewSamples DEF Optimize
  <2>2. /\ pc = "query" /\ samples' = Append(samples, NewSample)
        /\ UNCHANGED << wrep, order, pos >> /\ pc' = "execute"
    BY <1>9 DEF Optimize
  <2>3. /\ Ordered'
        /\ \A l \in 1 .. Len(samples') :
             /\ samples'[l].wrep <= wrep
             /\ samples'[l].wrep = wrep =>
                  \E p \in 1 .. NQueries : samples'[l].query = order[p] /\ (p < pos \/ p = pos)
    BY <1>8, <2>1, <2>2
  <2> QED
    BY <2>2, <2>3 DEF Visited
<1>10. CASE OptimizeFails
  <2> DEFINE s == FailedSample(NewSample)
  <2>1. s \in Sample /\ s.query = order[pos] /\ s.wrep = wrep /\ pos \in 1 .. NQueries
    BY <1>1, <1>10, NewSamples DEF OptimizeFails
  <2> HIDE DEF s
  <2>2. /\ pc = "query" /\ UNCHANGED << wrep, order >>
        /\ pc' \notin Running \/ (pc' = "query" /\ pos' = pos + 1)
        /\ samples' = samples \/ samples' = Append(samples, s)
    <3>1. cfg.error_action \in {"raise", "log", "ignore"}
      BY <1>1 DEF Types, Options
    <3>2. CASE cfg.error_action = "log"
      BY <1>10, <3>2 DEF OptimizeFails, Raise, s
    <3>3. CASE cfg.error_action = "raise"
      BY <1>10, <3>3 DEF OptimizeFails, Raise, s
    <3>4. CASE cfg.error_action = "ignore"
      BY <1>10, <3>4 DEF OptimizeFails, Raise, s
    <3> QED
      BY <3>1, <3>2, <3>3, <3>4
  <2>3. \A p \in 1 .. NQueries : p < pos \/ p = pos => p < pos + 1
    BY <2>1, SizeAssumption
  <2>4. CASE samples' = samples
    BY <1>1, <1>3, <2>2, <2>3, <2>4 DEF Visited
  <2>5. CASE samples' = Append(samples, s)
    <3>1. /\ Ordered'
          /\ \A l \in 1 .. Len(samples') :
               /\ samples'[l].wrep <= wrep
               /\ samples'[l].wrep = wrep =>
                    \E p \in 1 .. NQueries : samples'[l].query = order[p] /\ (p < pos \/ p = pos)
      BY <1>8, <2>1, <2>2, <2>5
    <3> QED
      BY <2>2, <2>3, <3>1 DEF Visited
  <2> QED
    BY <2>2, <2>4, <2>5
<1>11. ASSUME NEW status \in {"ok", "timeout", "execution-error"}, Execute(status)
       PROVE  Ordered' /\ Visited'
  <2>1. Len(samples') = Len(samples)
    BY <1>1, <1>11, ExecutedSamples
  <2>2. UNCHANGED << pc, wrep, order, pos >>
    BY <1>11 DEF Execute
  <2> QED
    BY <1>1, <1>2, <1>3, <2>1, <2>2 DEF Visited
<1> QED
  BY <1>4, <1>5, <1>6, <1>7, <1>9, <1>10, <1>11 DEF Next

LEMMA EvenIsKept == IInv /\ [Next]_vars => Even'
<1> SUFFICES ASSUME IInv, [Next]_vars PROVE Even'
  OBVIOUS
<1>1. Types /\ Place /\ Even
  BY DEF IInv
<1>2. cfg' = cfg
  BY DEF Next, vars, Begin, NextRepetition, Finish, Interrupt, EndOfWorkload, Optimize, OptimizeFails,
         EndOfQuery, Learn, Execute, PrepareFails, ExecuteRaises
<1>3. CASE UNCHANGED samples
  BY <1>1, <1>2, <1>3 DEF Even, Strict
<1>4. ASSUME NEW s \in {NewSample, FailedSample(NewSample)},
             pc = "query", pos <= NQueries, samples' = Append(samples, s)
      PROVE  Even'
  <2>1. s \in Sample /\ s.post = << >> /\ Len(s.stamps) = Len(s.rows)
    BY <1>1, <1>4, NewSamples
  <2>2. /\ samples'[Len(samples')] = s
        /\ \A l \in 1 .. Len(samples) : samples'[l] = samples[l]
        /\ \A l \in 1 .. Len(samples') : l \in 1 .. Len(samples) \/ l = Len(samples')
    BY <1>1, <1>4, <2>1, OpenedSamples
  <2> QED
    BY <1>1, <1>2, <2>1, <2>2 DEF Even, Strict
<1>5. ASSUME NEW status \in {"ok", "timeout", "execution-error"}, Execute(status)
      PROVE  Even'
  <2> DEFINE n == Len(samples)
             s == samples[n]
             t == samples'[n]
  <2>1. /\ n \in 1 .. n /\ Len(samples') = n
        /\ \A l \in 1 .. n : l # n => samples'[l] = samples[l]
        /\ Len(t.stamps) = Len(s.stamps) + 1 /\ (~cfg.post => t.post = s.post)
        /\ ~(status = "execution-error" /\ cfg.error_action = "ignore") => Len(t.rows) = Len(s.rows) + 1
    BY <1>1, <1>5, ExecutedSamples
  <2>2. /\ Strict => Len(t.stamps) = Len(t.rows)
        /\ ~cfg.post => t.post = << >>
    BY <1>1, <2>1 DEF Even, Strict
  <2>3. \A l \in 1 .. n : /\ Strict => Len(samples'[l].stamps) = Len(samples'[l].rows)
                          /\ ~cfg.post => samples'[l].post = << >>
    BY <1>1, <2>1, <2>2 DEF Even
  <2> QED
    BY <1>2, <2>1, <2>3 DEF Even, Strict
<1> QED
  BY <1>1, <1>3, <1>4, <1>5, StepsOfSamples

\* Recording an execution keeps the columns aligned, or makes the stamps longer for good.
LEMMA RecordingAligns ==
  ASSUME cfg \in Options, NEW s \in Sample, NEW status \in Status, NEW run \in Nat, Aligned(s)
  PROVE  Aligned(Recorded(s, status, run))
<1> DEFINE new == [status |-> status, run |-> run]
           skipped == status = "execution-error" /\ cfg.error_action = "ignore"
           started == [s EXCEPT !.stamps = Append(@, run)]
           measured == IF skipped THEN started ELSE [started EXCEPT !.rows = Append(@, new)]
           t == Recorded(s, status, run)
<1> SUFFICES Aligned(t)
  OBVIOUS
<1>1. /\ s.rows \in Seq(Measured) /\ s.stamps \in Seq(Nat) /\ s.post \in Seq(Nat) /\ new \in Measured
      /\ Len(s.rows) \in Nat /\ Len(s.stamps) \in Nat /\ Len(s.post) \in Nat
  BY LenProperties DEF Sample, Measured
<1>2. /\ Len(Append(s.stamps, run)) = Len(s.stamps) + 1
      /\ \A i \in 1 .. Len(s.stamps) : Append(s.stamps, run)[i] = s.stamps[i]
      /\ Append(s.stamps, run)[Len(s.stamps) + 1] = run
  BY <1>1, AppendProperties
<1>3. /\ Append(s.rows, new) \in Seq(Measured) /\ Len(Append(s.rows, new)) = Len(s.rows) + 1
      /\ \A i \in 1 .. Len(s.rows) : Append(s.rows, new)[i] = s.rows[i]
      /\ Append(s.rows, new)[Len(s.rows) + 1] = new
  BY <1>1, AppendProperties
<1>4. /\ Len(Append(s.post, run)) = Len(s.post) + 1
      /\ \A i \in 1 .. Len(s.post) : Append(s.post, run)[i] = s.post[i]
      /\ Append(s.post, run)[Len(s.post) + 1] = run
  BY <1>1, AppendProperties
<1>5. /\ measured.stamps = Append(s.stamps, run) /\ measured.post = s.post
      /\ measured.rows = IF skipped THEN s.rows ELSE Append(s.rows, new)
  BY DEF Sample
<1>6. /\ t.stamps = Append(s.stamps, run)
      /\ t.rows = IF skipped THEN s.rows ELSE Append(s.rows, new)
      /\ ~skipped => t.post \in {s.post, Append(s.post, run)}
  <2> HIDE DEF new
  <2>1. CASE cfg.post /\ LastSuccessful(measured)
    <3>1. t = [measured EXCEPT !.post = Append(@, Last(measured.rows).run)]
      BY <2>1 DEF Recorded, new
    <3>2. /\ t.stamps = measured.stamps /\ t.rows = measured.rows
          /\ t.post = Append(measured.post, Last(measured.rows).run)
      BY <3>1 DEF Sample
    <3>3. ~skipped => Last(measured.rows).run = run
      BY <1>3, <1>5 DEF Last, new
    <3> HIDE DEF t, measured, skipped
    <3> QED
      BY <1>5, <3>2, <3>3
  <2>2. CASE ~(cfg.post /\ LastSuccessful(measured))
    <3>1. t = measured
      BY <2>2 DEF Recorded, new
    <3> HIDE DEF t, measured, skipped
    <3> QED
      BY <1>5, <3>1
  <2> QED
    BY <2>1, <2>2
<1>7. new.run = run
  OBVIOUS
<1> HIDE DEF t, measured, skipped, new
<1>8. CASE skipped
  BY <1>1, <1>2, <1>6, <1>8 DEF Aligned
<1>9. CASE ~skipped
  <2>1. Len(t.rows) = Len(s.rows) + 1 /\ Len(t.stamps) = Len(s.stamps) + 1
        /\ Len(t.post) \in {Len(s.post), Len(s.post) + 1}
    BY <1>2, <1>3, <1>4, <1>6, <1>9
  <2>2. Len(t.rows) <= Len(t.stamps)
    BY <1>1, <2>1 DEF Aligned
  <2>3. ASSUME Len(t.stamps) = Len(t.rows)
        PROVE  /\ Len(t.post) <= Len(t.rows)
               /\ \A i \in 1 .. Len(t.rows) : /\ t.stamps[i] = t.rows[i].run
                                              /\ Len(t.post) = Len(t.rows) => t.post[i] = t.rows[i].run
    <3>1. /\ Len(s.stamps) = Len(s.rows) /\ Len(s.post) <= Len(s.rows)
          /\ \A i \in 1 .. Len(s.rows) : /\ s.stamps[i] = s.rows[i].run
                                         /\ Len(s.post) = Len(s.rows) => s.post[i] = s.rows[i].run
      BY <1>1, <2>1, <2>3 DEF Aligned
    <3>2. Len(t.post) <= Len(t.rows)
      BY <1>1, <2>1, <3>1
    <3>3. Len(t.post) = Len(t.rows) => Len(s.post) = Len(s.rows) /\ t.post = Append(s.post, run)
      BY <1>1, <1>6, <1>9, <2>1, <3>1
    <3>4. ASSUME NEW i \in 1 .. Len(t.rows), i # Len(t.rows)
          PROVE  t.stamps[i] = t.rows[i].run /\ (Len(t.post) = Len(t.rows) => t.post[i] = t.rows[i].run)
      <4>1. i \in 1 .. Len(s.rows)
        BY <1>1, <2>1, <3>4
      <4> QED
        BY <1>2, <1>3, <1>4, <1>6, <1>9, <3>1, <3>3, <4>1
    <3>5. t.stamps[Len(t.rows)] = t.rows[Len(t.rows)].run
          /\ (Len(t.post) = Len(t.rows) => t.post[Len(t.rows)] = t.rows[Len(t.rows)].run)
      BY <1>2, <1>3, <1>4, <1>6, <1>7, <1>9, <2>1, <3>1, <3>3
    <3> QED
      BY <3>2, <3>4, <3>5
  <2> QED
    BY <2>2, <2>3 DEF Aligned
<1> QED
  BY <1>8, <1>9

LEMMA ColumnsAreKept == IInv /\ [Next]_vars => Columns'
<1> SUFFICES ASSUME IInv, [Next]_vars PROVE Columns'
  OBVIOUS
<1>1. Types /\ Place /\ Columns
  BY DEF IInv
<1>2. CASE UNCHANGED samples
  BY <1>1, <1>2 DEF Columns, Aligned
<1>3. ASSUME NEW s \in {NewSample, FailedSample(NewSample)},
             pc = "query", pos <= NQueries, samples' = Append(samples, s)
      PROVE  Columns'
  <2>1. s \in Sample /\ s.post = << >> /\ Len(s.stamps) = Len(s.rows)
        /\ \A i \in 1 .. Len(s.rows) : s.rows[i].run = 0
    BY <1>1, <1>3, NewSamples
  <2>2. \A i \in 1 .. Len(s.rows) : s.stamps[i] = 0
    <3>1. CASE s = NewSample
      <4>1. Len(s.rows) = 0
        BY <3>1, EmptySeq DEF NewSample
      <4> QED
        BY <4>1
    <3>2. CASE s = FailedSample(NewSample)
      <4>1. s.stamps = [i \in 1 .. QueryReps |-> 0]
        BY <3>2 DEF FailedSample, NewSample
      <4>2. QueryReps \in Nat /\ s.stamps \in [1 .. QueryReps -> Nat]
        BY <4>1, SizeAssumption
      <4>3. Len(s.stamps) = QueryReps
        BY <4>2, IsASeq, LenProperties
      <4> QED
        BY <2>1, <4>1, <4>3
    <3> QED
      BY <3>1, <3>2
  <2>3. Aligned(s)
    <3>1. Len(s.post) = 0 /\ Len(s.rows) \in Nat
      BY <2>1, EmptySeq, LenProperties DEF Sample
    <3> QED
      BY <2>1, <2>2, <3>1 DEF Aligned
  <2>4. /\ samples'[Len(samples')] = s
        /\ \A l \in 1 .. Len(samples) : samples'[l] = samples[l]
        /\ \A l \in 1 .. Len(samples') : l \in 1 .. Len(samples) \/ l = Len(samples')
    BY <1>1, <1>3, <2>1, OpenedSamples
  <2> QED
    BY <1>1, <2>3, <2>4 DEF Columns
<1>4. ASSUME NEW status \in {"ok", "timeout", "execution-error"}, Execute(status)
      PROVE  Columns'
  <2> DEFINE n == Len(samples)
             s == samples[n]
             t == samples'[n]
  <2>1. /\ n \in 1 .. n /\ Len(samples') = n /\ s \in Sample /\ Len(runs) \in Nat
        /\ \A l \in 1 .. n : l # n => samples'[l] = samples[l]
    BY <1>1, <1>4, ExecutedSamples
  <2>2. t = Recorded(s, status, Len(runs) + 1)
    <3>1. samples' = [samples EXCEPT ![n] = Recorded(s, status, Len(runs) + 1)]
      BY <1>4 DEF Execute, Last, NewRun
    <3>2. n \in DOMAIN samples
      BY <1>1, <2>1, LenProperties DEF Types
    <3> QED
      BY <3>1, <3>2
  <2>3. cfg \in Options /\ status \in Status /\ Aligned(s)
    BY <1>1, <2>1 DEF Types, Status, Columns
  <2> HIDE DEF s
  <2>4. Aligned(t)
    BY <2>1, <2>2, <2>3, RecordingAligns
  <2> QED
    BY <1>1, <2>1, <2>4 DEF Columns
<1> QED
  BY <1>1, <1>2, <1>3, <1>4, StepsOfSamples

LEMMA ConfigIsKept == [Next]_vars => cfg' = cfg
  BY DEF Next, vars, Begin, NextRepetition, Finish, Interrupt, EndOfWorkload, Optimize, OptimizeFails,
         EndOfQuery, Learn, Execute, PrepareFails, ExecuteRaises

LEMMA CountedIsKept == IInv /\ [Next]_vars => Counted'
<1> SUFFICES ASSUME IInv, [Next]_vars, Strict, Counting' PROVE Counted'
  BY ConfigIsKept DEF Counted, Strict
<1>1. Types /\ Place /\ Counted /\ cfg' = cfg
  BY ConfigIsKept DEF IInv
<1>2. /\ NQueries \in Nat \ {0} /\ QueryReps \in Nat \ {0} /\ WorkloadReps \in Nat \ {0}
      /\ wrep \in Nat /\ pos \in Nat /\ rep \in Nat /\ Len(samples) \in Nat
      /\ cfg.error_action \in {"log", "raise"}
  BY <1>1, SizeAssumption, LenProperties DEF Types, Strict
<1> USE DEF Running, Errors, Active, Counting
<1>3. CASE UNCHANGED vars
  BY <1>1, <1>3 DEF vars, Counted, Strict, Latest
<1>4. CASE Begin
  <2>1. Len(samples) = 0 /\ samples' = << >> /\ counter' = 1 /\ wrep' = 0 /\ pc' = "repetition"
    BY <1>1, <1>4, EmptySeq DEF Begin, Place
  <2>2. Len(samples') = 0 /\ 0 * NQueries = 0
    BY <1>2, <2>1, EmptySeq
  <2> QED
    BY <2>1, <2>2 DEF Counted
<1>5. CASE NextRepetition
  <2>1. /\ UNCHANGED << samples, counter >> /\ wrep' = wrep + 1 /\ pos' = 1
        /\ pc = "repetition" /\ pc' = "query"
    BY <1>5 DEF NextRepetition
  <2>2. Len(samples) = wrep * NQueries
    BY <1>1, <2>1 DEF Counted
  <2>3. wrep * NQueries = (wrep' - 1) * NQueries + pos' - 1
    <3>1. wrep' - 1 = wrep /\ wrep * NQueries \in Nat
      BY <1>2, <2>1
    <3> QED
      BY <2>1, <3>1
  <2> QED
    BY <1>1, <2>1, <2>2, <2>3 DEF Counted, Latest
<1>6. CASE Finish
  <2>1. UNCHANGED << samples, counter >> /\ wrep = WorkloadReps /\ pc = "repetition" /\ pc' \in {"returned", "raised"}
    BY <1>6 DEF Finish
  <2> QED
    BY <1>1, <2>1 DEF Counted, Latest
<1>7. CASE Interrupt \/ PrepareFails \/ ExecuteRaises
  BY <1>7 DEF Interrupt, PrepareFails, ExecuteRaises, Raise
<1>8. CASE EndOfWorkload
  <2>1. /\ UNCHANGED << samples, counter, wrep >> /\ pc = "query" /\ pc' = "repetition"
        /\ pos > NQueries /\ pos \in 1 .. NQueries + 1 /\ wrep >= 1
    BY <1>1, <1>8 DEF EndOfWorkload, Raise, Place
  <2>2. pos - 1 = NQueries
    BY <1>2, <2>1
  <2>3. Len(samples) = (wrep - 1) * NQueries + pos - 1
    BY <1>1, <2>1 DEF Counted
  <2>4. Len(samples) = wrep * NQueries
    BY <1>2, <2>2, <2>3
  <2> QED
    BY <1>1, <2>1, <2>4 DEF Counted, Latest
<1>9. ASSUME NEW s \in {NewSample, FailedSample(NewSample)}, pc = "query", pos <= NQueries,
             samples' = Append(samples, s), counter' = NextIndex(counter), UNCHANGED wrep,
             \/ s = NewSample /\ pc' = "execute" /\ pos' = pos /\ rep' = 0
             \/ s # NewSample /\ pc' = "query" /\ pos' = pos + 1
      PROVE  Counted'
  <2> DEFINE n == Len(samples)
  <2>1. /\ s \in Sample /\ s.start = NextIndex(counter)
        /\ s = NewSample => Len(s.rows) = 0
        /\ s # NewSample => Len(s.rows) = QueryReps
    BY <1>1, <1>9, NewSamples
  <2>2. /\ samples' # << >> /\ Len(samples') = n + 1 /\ samples'[Len(samples')] = s
        /\ \A l \in 1 .. n : samples'[l] = samples[l]
        /\ \A l \in 1 .. Len(samples') : l \in 1 .. n \/ l = Len(samples')
    BY <1>1, <1>9, <2>1, OpenedSamples
  <2>3. s.start = (Len(samples') - 1) * QueryReps + 1
    <3>1. CASE samples = << >>
      <4>1. n = 0 /\ counter = 1
        BY <1>1, <1>9, <3>1, EmptySeq DEF Counted
      <4>2. NextIndex(counter) = 1 /\ Len(samples') - 1 = 0 /\ 0 * QueryReps = 0
        BY <1>2, <2>2, <3>1, <4>1 DEF NextIndex
      <4> DEFINE k == Len(samples') - 1
      <4>3. k = 0
        BY <4>2
      <4> HIDE DEF k
      <4>4. k * QueryReps + 1 = 1
        BY <1>2, <4>3
      <4> QED
        BY <2>1, <4>2, <4>4 DEF k
    <3>2. CASE samples # << >>
      <4>1. n \in 1 .. n
        BY <1>1, <3>2, EmptySeq, LenProperties DEF Types
      <4>2. NextIndex(counter) = counter + Len(Latest.rows)
        BY <3>2 DEF NextIndex, Last, Latest
      <4>3. counter = (n - 1) * QueryReps + 1 /\ Len(Latest.rows) = QueryReps
        BY <1>1, <1>9, <3>2, <4>1 DEF Counted, Latest
      <4>4. ((n - 1) * QueryReps + 1) + QueryReps = n * QueryReps + 1
        BY <1>2
      <4> QED
        BY <1>2, <2>1, <2>2, <4>2, <4>3, <4>4
    <3> QED
      BY <3>1, <3>2
  <2>4. n = (wrep - 1) * NQueries + pos - 1
    BY <1>1, <1>9 DEF Counted
  <2>5. Len(samples') = (wrep - 1) * NQueries + pos
    <3>1. (wrep - 1) * NQueries \in Int
      BY <1>2
    <3> QED
      BY <1>2, <2>2, <2>4, <3>1
  <2>6. (wrep - 1) * NQueries + pos = (wrep - 1) * NQueries + (pos + 1) - 1
    <3>1. (wrep - 1) * NQueries \in Int
      BY <1>2
    <3> QED
      BY <1>2, <3>1
  <2>7. ASSUME NEW l \in 1 .. Len(samples')
        PROVE  /\ Len(samples'[l].rows) = IF pc' = "execute" /\ l = Len(samples') THEN rep' ELSE QueryReps
               /\ samples'[l].start = (l - 1) * QueryReps + 1
    <3>1. CASE l \in 1 .. n
      <4>1. l # Len(samples')
        BY <1>2, <2>2, <3>1
      <4> QED
        BY <1>1, <1>9, <2>2, <3>1, <4>1 DEF Counted
    <3>2. CASE l = Len(samples')
      BY <1>9, <2>1, <2>2, <2>3, <3>2
    <3> QED
      BY <2>2, <3>1, <3>2
  <2>8. counter' = samples'[Len(samples')].start
    BY <1>9, <2>1, <2>2
  <2>9. /\ pc' = "query" => Len(samples') = (wrep' - 1) * NQueries + pos' - 1
        /\ pc' = "execute" => Len(samples') = (wrep' - 1) * NQueries + pos'
        /\ pc' \in {"query", "execute"}
    BY <1>9, <2>5, <2>6
  <2> QED
    BY <2>2, <2>7, <2>8, <2>9 DEF Counted, Latest
<1>10. CASE Optimize
  <2>1. /\ pc = "query" /\ pos <= NQueries /\ samples' = Append(samples, NewSample)
        /\ counter' = NextIndex(counter) /\ UNCHANGED << wrep, pos >> /\ pc' = "execute" /\ rep' = 0
    BY <1>10 DEF Optimize
  <2> QED
    BY <1>9, <2>1
<1>11. CASE OptimizeFails
  <2> DEFINE s == FailedSample(NewSample)
  <2>1. pc = "query" /\ pos <= NQueries /\ counter' = NextIndex(counter) /\ UNCHANGED wrep
    BY <1>11 DEF OptimizeFails
  <2>2. s # NewSample
    <3>1. s.rows = [i \in 1 .. QueryReps |-> [status |-> "optimization-error", run |-> 0]]
      BY DEF FailedSample, NewSample
    <3>2. 1 \in DOMAIN s.rows
      BY <1>2, <3>1
    <3>3. NewSample.rows = << >>
      BY DEF NewSample
    <3> QED
      BY <3>2, <3>3
  <2>3. samples' = Append(samples, s) /\ pc' = "query" /\ pos' = pos + 1
    <3>1. CASE cfg.error_action = "log"
      BY <1>11, <3>1 DEF OptimizeFails, Raise
    <3>2. CASE cfg.error_action = "raise"
      BY <1>11, <3>2 DEF OptimizeFails, Raise
    <3> QED
      BY <1>2, <3>1, <3>2
  <2> HIDE DEF s
  <2> QED
    BY <1>9, <2>1, <2>2, <2>3 DEF s
<1>12. CASE EndOfQuery
  <2>1. /\ UNCHANGED << samples, counter, wrep >> /\ pc = "execute" /\ rep = QueryReps
        /\ (pc' = "learn" /\ pos' = pos) \/ (pc' = "query" /\ pos' = pos + 1)
    BY <1>12 DEF EndOfQuery
  <2>2. Len(samples) = (wrep - 1) * NQueries + pos
    BY <1>1, <2>1 DEF Counted
  <2>3. pc' = "query" => Len(samples) = (wrep - 1) * NQueries + pos' - 1
    BY <1>2, <2>1, <2>2
  <2> QED
    BY <1>1, <2>1, <2>2, <2>3 DEF Counted, Latest
<1>13. CASE Learn
  <2>1. UNCHANGED << samples, counter, wrep >> /\ pc = "learn" /\ pc' = "query" /\ pos' = pos + 1
    BY <1>13 DEF Learn, Raise
  <2>2. Len(samples) = (wrep - 1) * NQueries + pos
    BY <1>1, <2>1 DEF Counted
  <2>3. Len(samples) = (wrep - 1) * NQueries + pos' - 1
    BY <1>2, <2>1, <2>2
  <2> QED
    BY <1>1, <2>1, <2>3 DEF Counted, Latest
<1>14. ASSUME NEW status \in {"ok", "timeout", "execution-error"}, Execute(status) PROVE Counted'
  <2> DEFINE n == Len(samples)
  <2>1. /\ n \in 1 .. n /\ Len(samples') = n
        /\ \A l \in 1 .. n : l # n => samples'[l] = samples[l]
        /\ samples'[n].start = samples[n].start /\ Len(samples[n].rows) \in Nat
        /\ Len(samples'[n].rows) = Len(samples[n].rows) + 1
    BY <1>1, <1>2, <1>14, ExecutedSamples
  <2>2. pc = "execute" /\ rep' = rep + 1 /\ UNCHANGED << pc, wrep, pos, counter >>
    BY <1>14 DEF Execute
  <2>3. samples # << >> /\ samples' # << >>
    BY <2>1, EmptySeq
  <2>4. ASSUME NEW l \in 1 .. n
        PROVE  /\ Len(samples'[l].rows) = IF l = n THEN rep' ELSE QueryReps
               /\ samples'[l].start = (l - 1) * QueryReps + 1
    <3>1. CASE l = n
      BY <1>1, <2>1, <2>2, <3>1 DEF Counted
    <3>2. CASE l # n
      BY <1>1, <2>1, <2>2, <3>2 DEF Counted
    <3> QED
      BY <3>1, <3>2
  <2>5. counter' = samples'[Len(samples')].start
    BY <1>1, <2>1, <2>2, <2>3 DEF Counted, Latest
  <2>6. Len(samples') = (wrep' - 1) * NQueries + pos'
    BY <1>1, <2>1, <2>2 DEF Counted
  <2> QED
    BY <2>1, <2>2, <2>3, <2>4, <2>5, <2>6 DEF Counted, Latest
<1> QED
  BY <1>3, <1>4, <1>5, <1>6, <1>7, <1>8, <1>10, <1>11, <1>12, <1>13, <1>14 DEF Next

\* Once all samples are there, the frame can be built: unless errors are ignored, only
\* the callback's data can have another number of rows.
LEMMA FrameCanBeBuilt ==
  ASSUME IInv, pc = "repetition", wrep = WorkloadReps, Strict, ~cfg.post
  PROVE  FrameExists(samples)
<1>1. Types /\ Counted /\ Even /\ Counting
  BY DEF IInv, Counting, Running
<1>2. Len(samples) = WorkloadReps * NQueries
  BY <1>1 DEF Counted
<1>3. Len(samples) # 0
  BY <1>2, SizeAssumption
<1>4. samples # << >>
  BY <1>3, EmptySeq
<1>5. \A l \in 1 .. Len(samples) : Uniform(samples[l])
  BY <1>1, EmptySeq DEF Even, Uniform
<1> QED
  BY <1>4, <1>5 DEF FrameExists

LEMMA LogIsKept == IInv /\ [Next]_vars => Logged'
<1> SUFFICES ASSUME IInv, [Next]_vars PROVE Logged'
  OBVIOUS
<1>1. Types /\ Logged /\ cfg' = cfg
  BY ConfigIsKept DEF IInv
<1> USE DEF Running, Errors
<1>2. CASE UNCHANGED vars
  BY <1>1, <1>2 DEF vars, Logged, Strict
<1>3. CASE Begin
  BY <1>1, <1>3 DEF Begin, Entry, Logged
<1>4. CASE NextRepetition \/ Interrupt \/ Optimize \/ EndOfQuery
  <2>1. pc \in Running /\ pc' \in Running \union {"interrupted"} /\ UNCHANGED log
    BY <1>1, <1>4 DEF NextRepetition, Interrupt, Optimize, EndOfQuery
  <2> QED
    BY <1>1, <2>1 DEF Logged
<1>5. CASE EndOfWorkload \/ OptimizeFails \/ Learn \/ PrepareFails \/ ExecuteRaises
  <2>1. pc \in Running /\ (\/ pc' \in Running /\ UNCHANGED log
                           \/ pc' \in Errors /\ log' = Entry("failed"))
    <3>1. CASE OptimizeFails
      <4>1. cfg.error_action \in {"raise", "log", "ignore"}
        BY <1>1 DEF Types, Options
      <4> QED
        BY <3>1, <4>1 DEF OptimizeFails, Raise
    <3>2. CASE Learn
      <4>1. PICK taken \in 0 .. Len(Feedback(Last(samples))) :
              IF taken = Len(Feedback(Last(samples))) THEN pc' = "query" /\ pos' = pos + 1 /\ UNCHANGED log
              ELSE /\ Raise(IF Feedback(Last(samples))[taken + 1].status = "ok" THEN "raised" ELSE "assertion_error")
                   /\ UNCHANGED pos
        BY <3>2 DEF Learn
      <4> QED
        BY <3>2, <4>1 DEF Learn, Raise
    <3> QED
      BY <1>5, <3>1, <3>2 DEF EndOfWorkload, PrepareFails, ExecuteRaises, Raise
  <2> QED
    BY <1>1, <2>1 DEF Logged, Entry
<1>6. CASE Finish
  <2>1. UNCHANGED samples /\ log' = Entry("completed") /\ pc = "repetition" /\ wrep = WorkloadReps
    BY <1>6 DEF Finish
  <2>2. CASE FrameExists(samples)
    <3>1. pc' = "returned" /\ frame' = AllRows(samples)'
      BY <1>6, <2>1, <2>2 DEF Finish
    <3>2. FrameExists(samples)'
      BY <2>1, <2>2
    <3> QED
      BY <1>1, <2>1, <3>1, <3>2 DEF Logged, Entry
  <2>3. CASE ~FrameExists(samples)
    <3>1. pc' = "raised" /\ ~(Strict /\ ~cfg.post)
      BY <1>6, <2>1, <2>3, FrameCanBeBuilt DEF Finish
    <3> QED
      BY <1>1, <2>1, <3>1 DEF Logged, Strict, Entry
  <2> QED
    BY <2>2, <2>3
<1>7. ASSUME NEW status \in {"ok", "timeout", "execution-error"}, Execute(status) PROVE Logged'
  BY <1>1, <1>7 DEF Execute, Logged
<1> QED
  BY <1>2, <1>3, <1>4, <1>5, <1>6, <1>7 DEF Next

\* Learning depends on the complete samples only, and not on samples without ok rows.
LEMMA LearntFromTheSame ==
  ASSUME NEW ls, NEW ss, NEW tt, NEW d, Learnt(ls, ss, d), \A l \in 1 .. d : tt[l] = ss[l]
  PROVE  Learnt(ls, tt, d)
<1>1. ls \in Seq(Nat) /\ \A n, m \in 1 .. Len(ls) : n < m => ls[n] < ls[m]
  BY DEF Learnt
<1>2. ASSUME NEW n \in 1 .. Len(ls)
      PROVE  \E l \in 1 .. d : \E i \in 1 .. Len(tt[l].rows) :
               tt[l].rows[i].status = "ok" /\ tt[l].rows[i].run = ls[n]
  <2>1. PICK l \in 1 .. d : \E i \in 1 .. Len(ss[l].rows) :
          ss[l].rows[i].status = "ok" /\ ss[l].rows[i].run = ls[n]
    BY DEF Learnt
  <2>2. tt[l] = ss[l]
    OBVIOUS
  <2> QED
    BY <2>1, <2>2
<1>3. ASSUME NEW l \in 1 .. d, NEW i \in 1 .. Len(tt[l].rows), tt[l].rows[i].status = "ok"
      PROVE  \E n \in 1 .. Len(ls) : ls[n] = tt[l].rows[i].run
  <2>1. tt[l] = ss[l]
    OBVIOUS
  <2> QED
    BY <1>3, <2>1 DEF Learnt
<1> QED
  BY <1>1, <1>2, <1>3 DEF Learnt

LEMMA NothingToLearn ==
  ASSUME NEW ls, NEW ss, NEW d \in Nat, Learnt(ls, ss, d),
         \A i \in 1 .. Len(ss[d + 1].rows) : ss[d + 1].rows[i].status # "ok"
  PROVE  Learnt(ls, ss, d + 1)
<1>1. \A l \in 1 .. d + 1 : l \in 1 .. d \/ l = d + 1
  OBVIOUS
<1>2. \A l \in 1 .. d : l \in 1 .. d + 1
  OBVIOUS
<1>3. ls \in Seq(Nat) /\ \A n, m \in 1 .. Len(ls) : n < m => ls[n] < ls[m]
  BY DEF Learnt
<1>4. \A n \in 1 .. Len(ls) : \E l \in 1 .. d + 1 : \E i \in 1 .. Len(ss[l].rows) :
        ss[l].rows[i].status = "ok" /\ ss[l].rows[i].run = ls[n]
  BY <1>2 DEF Learnt
<1>5. ASSUME NEW l \in 1 .. d + 1, NEW i \in 1 .. Len(ss[l].rows), ss[l].rows[i].status = "ok"
      PROVE  \E n \in 1 .. Len(ls) : ls[n] = ss[l].rows[i].run
  <2>1. l \in 1 .. d
    BY <1>1, <1>5
  <2> QED
    BY <1>5, <2>1 DEF Learnt
<1> QED
  BY <1>3, <1>4, <1>5 DEF Learnt

\* Learning the ok rows of the next sample, whose runs are later than all before
LEMMA LearnTheNext ==
  ASSUME NEW ls, NEW ss, NEW n \in Nat \ {0}, Learnt(ls, ss, n - 1), NEW news \in Seq(Nat),
         \A l \in 1 .. n - 1 : \A i \in 1 .. Len(ss[l].rows) : \A j \in 1 .. Len(ss[n].rows) :
           ss[l].rows[i].status = "ok" /\ ss[n].rows[j].status = "ok" => ss[l].rows[i].run < ss[n].rows[j].run,
         \A k, o \in 1 .. Len(news) : k < o => news[k] < news[o],
         \A k \in 1 .. Len(news) : \E i \in 1 .. Len(ss[n].rows) :
           ss[n].rows[i].status = "ok" /\ ss[n].rows[i].run = news[k],
         \A i \in 1 .. Len(ss[n].rows) : ss[n].rows[i].status = "ok" =>
           \E k \in 1 .. Len(news) : news[k] = ss[n].rows[i].run
  PROVE  Learnt(ls \o news, ss, n)
<1> DEFINE both == ls \o news
<1>1. ls \in Seq(Nat) /\ Len(ls) \in Nat /\ Len(news) \in Nat
  BY LenProperties DEF Learnt
<1>2. /\ both \in Seq(Nat) /\ Len(both) = Len(ls) + Len(news)
      /\ \A k \in 1 .. Len(ls) + Len(news) : both[k] = IF k <= Len(ls) THEN ls[k] ELSE news[k - Len(ls)]
  BY <1>1, ConcatProperties
<1> HIDE DEF both
<1>3. ASSUME NEW k \in 1 .. Len(ls)
      PROVE  k \in 1 .. Len(both) /\ both[k] = ls[k]
  <2>1. k \in 1 .. Len(ls) + Len(news) /\ k <= Len(ls)
    BY <1>1
  <2> QED
    BY <1>2, <2>1
<1>4. ASSUME NEW k \in 1 .. Len(news)
      PROVE  Len(ls) + k \in 1 .. Len(both) /\ both[Len(ls) + k] = news[k]
  <2>1. /\ Len(ls) + k \in 1 .. Len(ls) + Len(news) /\ ~(Len(ls) + k <= Len(ls)) /\ (Len(ls) + k) - Len(ls) = k
    BY <1>1
  <2> QED
    BY <1>2, <2>1
<1>5. ASSUME NEW k \in 1 .. Len(both), k \notin 1 .. Len(ls)
      PROVE  \E o \in 1 .. Len(news) : k = Len(ls) + o
  <2>1. k - Len(ls) \in 1 .. Len(news) /\ k = Len(ls) + (k - Len(ls))
    BY <1>1, <1>2, <1>5
  <2> QED
    BY <2>1
<1>6. n \in 1 .. n /\ \A l \in 1 .. n : l \in 1 .. n - 1 \/ l = n
  OBVIOUS
<1>7. \A l \in 1 .. n - 1 : l \in 1 .. n
  OBVIOUS
<1>8. ASSUME NEW k \in 1 .. Len(ls)
      PROVE  \E l \in 1 .. n - 1 : \E i \in 1 .. Len(ss[l].rows) :
               ss[l].rows[i].status = "ok" /\ ss[l].rows[i].run = both[k]
  <2>1. PICK l \in 1 .. n - 1 : \E i \in 1 .. Len(ss[l].rows) :
          ss[l].rows[i].status = "ok" /\ ss[l].rows[i].run = ls[k]
    BY DEF Learnt
  <2> QED
    BY <1>3, <2>1
<1>9. ASSUME NEW k \in 1 .. Len(both), NEW m \in 1 .. Len(both), k < m
      PROVE  both[k] < both[m]
  <2>1. CASE k \in 1 .. Len(ls) /\ m \in 1 .. Len(ls)
    <3>1. ls[k] < ls[m]
      BY <1>9, <2>1 DEF Learnt
    <3> QED
      BY <1>3, <2>1, <3>1
  <2>2. CASE k \in 1 .. Len(ls) /\ m \notin 1 .. Len(ls)
    <3>1. PICK o \in 1 .. Len(news) : m = Len(ls) + o
      BY <1>5, <2>2
    <3>2. PICK l \in 1 .. n - 1 : \E i \in 1 .. Len(ss[l].rows) :
            ss[l].rows[i].status = "ok" /\ ss[l].rows[i].run = both[k]
      BY <1>8, <2>2
    <3>3. PICK i \in 1 .. Len(ss[l].rows) : ss[l].rows[i].status = "ok" /\ ss[l].rows[i].run = both[k]
      BY <3>2
    <3>4. PICK j \in 1 .. Len(ss[n].rows) : ss[n].rows[j].status = "ok" /\ ss[n].rows[j].run = news[o]
      OBVIOUS
    <3>5. ss[l].rows[i].run < ss[n].rows[j].run
      BY <3>3, <3>4
    <3> QED
      BY <1>4, <3>1, <3>3, <3>4, <3>5
  <2>3. CASE k \notin 1 .. Len(ls) /\ m \notin 1 .. Len(ls)
    <3>1. PICK p \in 1 .. Len(news) : k = Len(ls) + p
      BY <1>5, <2>3
    <3>2. PICK o \in 1 .. Len(news) : m = Len(ls) + o
      BY <1>5, <2>3
    <3>3. p < o
      BY <1>1, <1>9, <3>1, <3>2
    <3>4. news[p] < news[o]
      BY <3>3
    <3> QED
      BY <1>4, <3>1, <3>2, <3>4
  <2>4. CASE k \notin 1 .. Len(ls) /\ m \in 1 .. Len(ls)
    BY <1>1, <1>9, <2>4
  <2> QED
    BY <2>1, <2>2, <2>3, <2>4
<1>10. ASSUME NEW k \in 1 .. Len(both)
       PROVE  \E l \in 1 .. n : \E i \in 1 .. Len(ss[l].rows) :
                ss[l].rows[i].status = "ok" /\ ss[l].rows[i].run = both[k]
  <2>1. CASE k \in 1 .. Len(ls)
    BY <1>7, <1>8, <2>1
  <2>2. CASE k \notin 1 .. Len(ls)
    <3>1. PICK o \in 1 .. Len(news) : k = Len(ls) + o
      BY <1>5, <2>2
    <3>2. PICK j \in 1 .. Len(ss[n].rows) : ss[n].rows[j].status = "ok" /\ ss[n].rows[j].run = news[o]
      OBVIOUS
    <3>3. both[k] = news[o]
      BY <1>4, <3>1
    <3>4. \E i \in 1 .. Len(ss[n].rows) : ss[n].rows[i].status = "ok" /\ ss[n].rows[i].run = both[k]
      BY <3>2, <3>3
    <3> QED
      BY <1>6, <3>4
  <2> QED
    BY <2>1, <2>2
<1>11. ASSUME NEW l \in 1 .. n, NEW i \in 1 .. Len(ss[l].rows), ss[l].rows[i].status = "ok"
       PROVE  \E k \in 1 .. Len(both) : both[k] = ss[l].rows[i].run
  <2>1. CASE l \in 1 .. n - 1
    <3>1. PICK k \in 1 .. Len(ls) : ls[k] = ss[l].rows[i].run
      BY <1>11, <2>1 DEF Learnt
    <3> QED
      BY <1>3, <3>1
  <2>2. CASE l = n
    <3>1. PICK k \in 1 .. Len(news) : news[k] = ss[l].rows[i].run
      BY <1>11, <2>2
    <3> QED
      BY <1>4, <3>1
  <2> QED
    BY <1>6, <2>1, <2>2
<1> QED
  BY <1>2, <1>9, <1>10, <1>11 DEF Learnt, both

LEMMA FeedbackIsKept == IInv /\ [Next]_vars => Fed'
<1> SUFFICES ASSUME IInv, [Next]_vars, cfg.online, Counting' PROVE Learnt(learned', samples', Done')
  BY ConfigIsKept DEF Fed
<1>1. Types /\ Place /\ RunsOfRows /\ RunsIncrease /\ cfg' = cfg
  BY ConfigIsKept DEF IInv
<1>2. samples \in Seq(Sample) /\ Len(samples) \in Nat
  BY <1>1, LenProperties DEF Types
<1>3. Counting => Learnt(learned, samples, Done)
  BY DEF IInv, Fed
<1> USE DEF Running, Errors, Active, Counting
<1>4. CASE UNCHANGED vars
  <2>1. UNCHANGED << samples, learned, pc >>
    BY <1>4 DEF vars
  <2> QED
    BY <1>3, <2>1 DEF Done
<1>5. CASE Begin
  <2>1. learned' = << >> /\ samples' = << >> /\ pc' = "repetition"
    BY <1>1, <1>5 DEF Begin, Place
  <2>2. Done' = 0 /\ Len(learned') = 0 /\ learned' \in Seq(Nat)
    BY <2>1, EmptySeq DEF Done
  <2> QED
    BY <2>2 DEF Learnt
<1>6. CASE NextRepetition \/ Finish \/ EndOfWorkload
  <2>1. UNCHANGED << samples, learned >> /\ pc \in {"repetition", "query"} /\ pc' \in {"repetition", "query", "returned"}
    BY <1>6 DEF NextRepetition, Finish, EndOfWorkload, Raise
  <2> QED
    BY <1>3, <2>1 DEF Done
<1>7. CASE Interrupt \/ PrepareFails \/ ExecuteRaises
  BY <1>7 DEF Interrupt, PrepareFails, ExecuteRaises, Raise
<1>8. CASE Optimize
  <2>1. pc = "query" /\ pos <= NQueries /\ samples' = Append(samples, NewSample) /\ pc' = "execute" /\ UNCHANGED learned
    BY <1>8 DEF Optimize
  <2>2. NewSample \in Sample
    BY <1>1, <2>1, NewSamples
  <2>3. Len(samples') = Len(samples) + 1 /\ \A l \in 1 .. Len(samples) : samples'[l] = samples[l]
    BY <1>1, <2>1, <2>2, OpenedSamples
  <2>4. Done = Len(samples) /\ Done' = Len(samples)
    BY <1>2, <2>1, <2>3 DEF Done
  <2>5. Learnt(learned, samples, Len(samples))
    BY <1>3, <2>1, <2>4
  <2>6. Learnt(learned, samples', Len(samples))
    BY <2>3, <2>5, LearntFromTheSame
  <2> QED
    BY <2>1, <2>4, <2>6
<1>9. CASE OptimizeFails
  <2> DEFINE s == FailedSample(NewSample)
  <2>1. pc = "query" /\ pos <= NQueries /\ UNCHANGED learned
    BY <1>9 DEF OptimizeFails
  <2>2. pc' = "query" /\ (samples' = samples \/ samples' = Append(samples, s))
    <3>1. cfg.error_action \in {"raise", "log", "ignore"}
      BY <1>1 DEF Types, Options
    <3> QED
      BY <1>9, <3>1 DEF OptimizeFails, Raise
  <2>3. Learnt(learned, samples, Len(samples))
    BY <1>3, <2>1 DEF Done
  <2>4. Done' = Len(samples')
    BY <2>2 DEF Done
  <2>5. CASE samples' = samples
    BY <2>1, <2>3, <2>4, <2>5
  <2>6. CASE samples' = Append(samples, s)
    <3>1. s \in Sample /\ \A i \in 1 .. Len(s.rows) : s.rows[i].status # "ok"
      BY <1>1, <2>1, NewSamples
    <3> HIDE DEF s
    <3>2. /\ Len(samples') = Len(samples) + 1 /\ samples'[Len(samples')] = s
          /\ \A l \in 1 .. Len(samples) : samples'[l] = samples[l]
      BY <1>1, <2>6, <3>1, OpenedSamples
    <3>3. Learnt(learned, samples', Len(samples))
      BY <2>3, <3>2, LearntFromTheSame
    <3>4. Learnt(learned, samples', Len(samples) + 1)
      BY <1>2, <3>1, <3>2, <3>3, NothingToLearn
    <3> QED
      BY <2>1, <2>4, <3>2, <3>4
  <2> QED
    BY <2>2, <2>5, <2>6
<1>10. CASE EndOfQuery
  <2>1. UNCHANGED << samples, learned >> /\ pc = "execute" /\ pc' = "learn"
    BY <1>10 DEF EndOfQuery
  <2> QED
    BY <1>3, <2>1 DEF Done
<1>11. ASSUME NEW status \in {"ok", "timeout", "execution-error"}, Execute(status)
       PROVE  Learnt(learned', samples', Done')
  <2>1. /\ Len(samples') = Len(samples)
        /\ \A l \in 1 .. Len(samples) : l # Len(samples) => samples'[l] = samples[l]
    BY <1>1, <1>11, ExecutedSamples
  <2>2. pc = "execute" /\ pc' = "execute" /\ UNCHANGED learned
    BY <1>11 DEF Execute
  <2>3. Done = Len(samples) - 1 /\ Done' = Len(samples) - 1
    BY <2>1, <2>2 DEF Done
  <2>4. \A l \in 1 .. Len(samples) - 1 : samples'[l] = samples[l]
    BY <1>2, <2>1
  <2>5. Learnt(learned, samples, Len(samples) - 1)
    BY <1>3, <2>2, <2>3
  <2>6. Learnt(learned, samples', Len(samples) - 1)
    BY <2>4, <2>5, LearntFromTheSame
  <2> QED
    BY <2>2, <2>3, <2>6
<1>12. CASE Learn
  <2> DEFINE n == Len(samples)
             rows == samples[n].rows
             good == {"ok", "timeout"}
             results == Feedback(Last(samples))
             news == [i \in 1 .. Len(results) |-> results[i].run]
  <2>0. PICK taken \in 0 .. Len(results) :
          /\ \A i \in 1 .. taken : results[i].status = "ok"
          /\ learned' = learned \o [i \in 1 .. taken |-> results[i].run]
          /\ IF taken = Len(results) THEN pc' = "query" /\ pos' = pos + 1 /\ UNCHANGED log
             ELSE /\ Raise(IF results[taken + 1].status = "ok" THEN "raised" ELSE "assertion_error")
                  /\ UNCHANGED pos
    BY <1>12 DEF Learn
  <2>1. /\ UNCHANGED samples /\ pc = "learn" /\ pc' = "query" /\ taken = Len(results)
        /\ \A i \in 1 .. Len(results) : results[i].status = "ok"
    BY <1>12, <2>0 DEF Learn, Raise
  <2>2. learned' = learned \o news
    BY <2>0, <2>1
  <2>3. n \in Nat \ {0} /\ n \in 1 .. n /\ rows \in Seq(Measured)
    <3>1. samples # << >>
      BY <1>1, <2>1 DEF Place
    <3>2. n \in Nat \ {0} /\ n \in 1 .. n
      BY <1>2, <3>1, EmptySeq
    <3>3. samples[n] \in Sample
      BY <1>2, <3>2, ElementOfSeq
    <3> QED
      BY <3>2, <3>3 DEF Sample
  <2>4. results = Selected(rows, good)
    BY DEF Feedback, Last
  <2> HIDE DEF results, good, rows, n
  <2>5. /\ results \in Seq(Measured) /\ Len(results) \in Nat
        /\ \A k \in 1 .. Len(results) : \E i \in 1 .. Len(rows) :
             results[k] = rows[i] /\ rows[i].status \in good
        /\ InOrder(results, rows)
        /\ \A i \in 1 .. Len(rows) : rows[i].status \in good =>
             \E k \in 1 .. Len(results) : results[k] = rows[i]
    <3>1. Selects(results, rows, good)
      BY <2>3, <2>4, SelectedRows
    <3> QED
      BY <3>1 DEF Selects
  <2>6. ASSUME NEW k \in 1 .. Len(results) PROVE results[k].status = "ok"
    BY <2>1
  <2>7. Len(results) \in Nat /\ \A k \in 1 .. Len(results) : results[k].run \in Nat
    <3>1. results \in Seq(Measured) /\ Len(results) \in Nat
      BY <2>5
    <3>2. \A k \in 1 .. Len(results) : results[k] \in Measured
      BY <3>1, ElementOfSeq
    <3> QED
      BY <3>1, <3>2 DEF Measured
  <2>8. news \in [1 .. Len(results) -> Nat] /\ \A k \in 1 .. Len(results) : news[k] = results[k].run
    BY <2>7
  <2> HIDE DEF news
  <2>9. news \in Seq(Nat) /\ Len(news) = Len(results)
    BY <2>7, <2>8, IsASeq, LenProperties
  <2>10. Done = n - 1 /\ Done' = n
    BY <2>1, <2>3 DEF Done, n
  <2>11. Learnt(learned, samples, n - 1)
    BY <1>3, <2>1, <2>10
  <2>12. \A l \in 1 .. n : \A i \in 1 .. Len(samples[l].rows) :
           samples[l].rows[i].status = "ok" => samples[l].rows[i].run # 0
    BY <1>1 DEF RunsOfRows, n
  <2>13. ASSUME NEW l \in 1 .. n - 1, NEW i \in 1 .. Len(samples[l].rows), NEW j \in 1 .. Len(samples[n].rows),
                samples[l].rows[i].status = "ok", samples[n].rows[j].status = "ok"
         PROVE  samples[l].rows[i].run < samples[n].rows[j].run
    <3>1. l \in 1 .. n /\ l < n
      BY <2>3
    <3>2. samples[l].rows[i].run # 0 /\ samples[n].rows[j].run # 0
      BY <2>3, <2>12, <2>13, <3>1
    <3> QED
      BY <1>1, <2>3, <3>1, <3>2 DEF RunsIncrease, n
  <2>14. ASSUME NEW k \in 1 .. Len(news), NEW o \in 1 .. Len(news), k < o
         PROVE  news[k] < news[o]
    <3>1. k \in 1 .. Len(results) /\ o \in 1 .. Len(results)
      BY <2>9
    <3>2. PICK i \in 1 .. Len(rows), j \in 1 .. Len(rows) : i < j /\ results[k] = rows[i] /\ results[o] = rows[j]
      BY <2>5, <2>14, <3>1 DEF InOrder
    <3>3. rows[i].run # 0 /\ rows[j].run # 0
      BY <2>3, <2>6, <2>12, <3>1, <3>2 DEF rows
    <3>4. rows[i].run < rows[j].run
      BY <1>1, <2>3, <3>2, <3>3 DEF RunsIncrease, rows, n
    <3>5. news[k] = rows[i].run /\ news[o] = rows[j].run
      BY <2>8, <3>1, <3>2
    <3> QED
      BY <3>4, <3>5
  <2>15. ASSUME NEW k \in 1 .. Len(news)
         PROVE  \E i \in 1 .. Len(rows) : rows[i].status = "ok" /\ rows[i].run = news[k]
    <3>1. k \in 1 .. Len(results)
      BY <2>9
    <3>2. PICK i \in 1 .. Len(rows) : results[k] = rows[i]
      BY <2>5, <3>1
    <3>3. rows[i].status = "ok" /\ news[k] = rows[i].run
      BY <2>6, <2>8, <3>1, <3>2
    <3> QED
      BY <3>3
  <2>16. ASSUME NEW i \in 1 .. Len(rows), rows[i].status = "ok"
         PROVE  \E k \in 1 .. Len(news) : news[k] = rows[i].run
    <3>1. PICK k \in 1 .. Len(results) : results[k] = rows[i]
      BY <2>5, <2>16 DEF good
    <3> QED
      BY <2>8, <2>9, <3>1
  <2>17. Learnt(learned \o news, samples, n)
    <3>1. \A l \in 1 .. n - 1 : \A i \in 1 .. Len(samples[l].rows) : \A j \in 1 .. Len(samples[n].rows) :
            samples[l].rows[i].status = "ok" /\ samples[n].rows[j].status = "ok" =>
              samples[l].rows[i].run < samples[n].rows[j].run
      BY <2>13
    <3>2. \A k \in 1 .. Len(news) : \E i \in 1 .. Len(samples[n].rows) :
            samples[n].rows[i].status = "ok" /\ samples[n].rows[i].run = news[k]
      BY <2>15 DEF rows
    <3>3. \A i \in 1 .. Len(samples[n].rows) : samples[n].rows[i].status = "ok" =>
            \E k \in 1 .. Len(news) : news[k] = samples[n].rows[i].run
      BY <2>16 DEF rows
    <3> QED
      BY <2>3, <2>9, <2>11, <2>14, <3>1, <3>2, <3>3, LearnTheNext
  <2> QED
    BY <2>1, <2>2, <2>10, <2>17
<1> QED
  BY <1>4, <1>5, <1>6, <1>7, <1>8, <1>9, <1>10, <1>11, <1>12 DEF Next

\* The inductive invariant holds throughout.
THEOREM Invariant == Spec => []IInv
<1>1. Init => IInv
  <2> SUFFICES ASSUME Init PROVE IInv
    OBVIOUS
  <2>1. cfg \in Options
    BY ConfigAssumption, SizeAssumption DEF Init
  <2>2. Len(samples) = 0 /\ samples \in Seq(Sample) /\ runs \in Seq([query : 1 .. NQueries, wrep : 1 .. WorkloadReps])
    BY EmptySeq DEF Init
  <2>3. order \in [1 .. NQueries -> 1 .. NQueries] /\ \A a, b \in 1 .. NQueries : order[a] = order[b] => a = b
    <3>1. Workload \in [1 .. NQueries -> 1 .. NQueries] /\ \A a \in 1 .. NQueries : Workload[a] = a
      BY DEF Workload
    <3> QED
      BY <3>1 DEF Init
  <2>4. Types
    BY <2>1, <2>2, <2>3, SizeAssumption DEF Init, Types, States
  <2>5. Place /\ Visited /\ Counted /\ Fed /\ Logged
    BY DEF Init, Place, Visited, Counted, Fed, Logged, Running, Errors, Active, Counting
  <2>6. Ordered /\ RunsOfRows /\ RunsIncrease /\ Even /\ Columns
    BY <2>2 DEF Ordered, RunsOfRows, RunsIncrease, Even, Columns
  <2> QED
    BY <2>4, <2>5, <2>6 DEF IInv
<1>2. IInv /\ [Next]_vars => IInv'
  BY TypesAreKept, PlaceIsKept, OrderIsKept, RowsAreKept, CountedIsKept, EvenIsKept, ColumnsAreKept,
     FeedbackIsKept, LogIsKept
  DEF IInv
<1> QED
  BY <1>1, <1>2, PTL DEF Spec

-------------------------------------------------------------------------------
(* What the invariant says of the frame. *)

\* A row of the frame is the row of a sample's measurement, and each of these is there.
LEMMA RowsAreSamples ==
  ASSUME NEW ss \in Seq(Sample)
  PROVE  /\ Len(AllRows(ss)) \in Nat /\ AllRows(ss) \in Seq(Row)
         /\ \A n \in 1 .. Len(AllRows(ss)) : \E l \in 1 .. Len(ss) : \E i \in 1 .. Len(ss[l].rows) :
              n = Len(RowsUpTo(ss)[l - 1]) + i /\ AllRows(ss)[n] = RowOf(ss[l], i)
         /\ \A l \in 1 .. Len(ss) : \A i \in 1 .. Len(ss[l].rows) :
              \E n \in 1 .. Len(AllRows(ss)) : AllRows(ss)[n] = RowOf(ss[l], i)
<1> DEFINE f == RowsUpTo(ss)
           k == Len(ss)
<1>1. k \in Nat /\ k \in 0 .. k
  BY LenProperties
<1>2. f[k] \in Seq(Row) /\ Len(f[k]) \in Nat /\ AllRows(ss) = f[k]
  BY <1>1, RowsUpToIsDefined, LenProperties DEF AllRows
<1>3. /\ \A l \in 1 .. k : \A i \in 1 .. Len(ss[l].rows) :
           Len(f[l - 1]) + i \in 1 .. Len(f[k]) /\ f[k][Len(f[l - 1]) + i] = RowOf(ss[l], i)
      /\ \A n \in 1 .. Len(f[k]) : \E l \in 1 .. k : \E i \in 1 .. Len(ss[l].rows) : n = Len(f[l - 1]) + i
  BY <1>1, RowsOfSamples
<1> HIDE DEF f, k
<1>4. ASSUME NEW n \in 1 .. Len(AllRows(ss))
      PROVE  \E l \in 1 .. k : \E i \in 1 .. Len(ss[l].rows) :
               n = Len(f[l - 1]) + i /\ AllRows(ss)[n] = RowOf(ss[l], i)
  <2>1. PICK l \in 1 .. k : \E i \in 1 .. Len(ss[l].rows) : n = Len(f[l - 1]) + i
    BY <1>2, <1>3
  <2>2. PICK i \in 1 .. Len(ss[l].rows) : n = Len(f[l - 1]) + i
    BY <2>1
  <2>3. f[k][n] = RowOf(ss[l], i)
    BY <1>3, <2>2
  <2> QED
    BY <1>2, <2>2, <2>3
<1>5. ASSUME NEW l \in 1 .. k, NEW i \in 1 .. Len(ss[l].rows)
      PROVE  \E n \in 1 .. Len(AllRows(ss)) : AllRows(ss)[n] = RowOf(ss[l], i)
  BY <1>2, <1>3
<1>6. Len(AllRows(ss)) \in Nat /\ AllRows(ss) \in Seq(Row)
  BY <1>2
<1> QED
  BY <1>4, <1>5, <1>6, Zenon DEF f, k

\* Rows n and o of the frame are of samples, or of measurements of a sample, that follow each other.
Follow(ss, n, o) ==
  \E l, m \in 1 .. Len(ss) : \E i \in 1 .. Len(ss[l].rows), j \in 1 .. Len(ss[m].rows) :
    /\ l < m \/ (l = m /\ i < j)
    /\ AllRows(ss)[n] = RowOf(ss[l], i) /\ AllRows(ss)[o] = RowOf(ss[m], j)

\* The order of the rows is that of the samples, and of the measurements in a sample.
LEMMA RowsFollowTheSamples ==
  ASSUME NEW ss \in Seq(Sample), NEW n \in 1 .. Len(AllRows(ss)), NEW o \in 1 .. Len(AllRows(ss)), n < o
  PROVE  Follow(ss, n, o)
<1> DEFINE f == RowsUpTo(ss)
           k == Len(ss)
<1>1. k \in Nat /\ \A p \in 0 .. k : Len(f[p]) \in Nat
  BY LenProperties, RowsUpToIsDefined
<1>2. ASSUME NEW p \in 0 .. k
      PROVE  /\ \A l \in 1 .. p : Len(f[l]) <= Len(f[p])
             /\ \A l \in 1 .. p : \A i \in 1 .. Len(ss[l].rows) : Len(f[l - 1]) + i <= Len(f[p])
  <2>1. /\ \A l \in 1 .. p : Len(f[l]) <= Len(f[p])
        /\ \A l \in 1 .. p : \A i \in 1 .. Len(ss[l].rows) : Len(f[l - 1]) + i \in 1 .. Len(f[p])
    BY RowsOfSamples
  <2> HIDE DEF f, k
  <2> QED
    BY <1>1, <2>1
<1>3. PICK l \in 1 .. k : \E i \in 1 .. Len(ss[l].rows) : n = Len(f[l - 1]) + i /\ AllRows(ss)[n] = RowOf(ss[l], i)
  BY RowsAreSamples
<1>4. PICK i \in 1 .. Len(ss[l].rows) : n = Len(f[l - 1]) + i /\ AllRows(ss)[n] = RowOf(ss[l], i)
  BY <1>3
<1>5. PICK m \in 1 .. k : \E j \in 1 .. Len(ss[m].rows) : o = Len(f[m - 1]) + j /\ AllRows(ss)[o] = RowOf(ss[m], j)
  BY RowsAreSamples
<1>6. PICK j \in 1 .. Len(ss[m].rows) : o = Len(f[m - 1]) + j /\ AllRows(ss)[o] = RowOf(ss[m], j)
  BY <1>5
<1> HIDE DEF f, k
<1>7. l - 1 \in 0 .. k /\ m - 1 \in 0 .. k /\ l \in Nat /\ m \in Nat /\ m \in 0 .. k
  BY <1>1
<1>8. ~(m < l)
  <2>1. ASSUME m < l PROVE FALSE
    <3>1. m \in 1 .. l - 1
      BY <1>7, <2>1
    <3>2. Len(f[m]) <= Len(f[l - 1])
      BY <1>2, <1>7, <3>1
    <3>3. m \in 1 .. m
      BY <1>7, <2>1
    <3>4. o <= Len(f[m])
      BY <1>2, <1>6, <1>7, <3>3
    <3>5. Len(f[l - 1]) \in Nat /\ Len(f[m]) \in Nat
      BY <1>1, <1>7
    <3> QED
      BY <1>4, <3>2, <3>4, <3>5
  <2> QED
    BY <2>1
<1>9. l < m \/ (l = m /\ i < j)
  <2>1. l = m => i < j
    BY <1>1, <1>4, <1>6, <1>7
  <2> QED
    BY <1>7, <1>8, <2>1
<1> QED
  BY <1>4, <1>6, <1>9 DEF Follow, k

\* Samples with the same number of rows start at its multiples.
LEMMA RowsOfEqualSamples ==
  ASSUME NEW ss \in Seq(Sample), NEW r \in Nat, \A l \in 1 .. Len(ss) : Len(ss[l].rows) = r
  PROVE  \A k \in 0 .. Len(ss) : Len(RowsUpTo(ss)[k]) = k * r
<1> DEFINE f == RowsUpTo(ss)
           Good == {k \in 0 .. Len(ss) : Len(f[k]) = k * r}
<1>1. /\ Len(ss) \in Nat /\ f[0] = << >>
      /\ \A k \in 0 .. Len(ss) : f[k] \in Seq(Row)
  BY RowsUpToIsDefined, LenProperties
<1>2. ASSUME NEW k \in 1 .. Len(ss)
      PROVE  /\ f[k] = f[k - 1] \o RowsOf(ss[k]) /\ RowsOf(ss[k]) \in Seq(Row) /\ Len(RowsOf(ss[k])) = r
  <2>1. f[k] = f[k - 1] \o RowsOf(ss[k])
    BY RowsUpToIsDefined
  <2>2. ss[k] \in Sample
    BY ElementOfSeq
  <2> QED
    BY <2>1, <2>2, RowTypes
<1> HIDE DEF f
<1>3. 0 \in Good
  BY <1>1, EmptySeq
<1>4. ASSUME NEW k \in 1 .. Len(ss), k - 1 \in Good PROVE k \in Good
  <2>1. k - 1 \in 0 .. Len(ss) /\ k \in 0 .. Len(ss) /\ Len(f[k - 1]) = (k - 1) * r
    BY <1>1, <1>4
  <2>2. Len(f[k]) = Len(f[k - 1]) + r
    <3>1. f[k - 1] \in Seq(Row) /\ f[k] = f[k - 1] \o RowsOf(ss[k]) /\ RowsOf(ss[k]) \in Seq(Row)
          /\ Len(RowsOf(ss[k])) = r
      BY <1>1, <1>2, <2>1
    <3>2. Len(f[k - 1] \o RowsOf(ss[k])) = Len(f[k - 1]) + Len(RowsOf(ss[k]))
      BY <3>1, ConcatProperties
    <3> QED
      BY <3>1, <3>2
  <2>3. k * r = (k - 1) * r + r
    BY <1>1
  <2> QED
    BY <2>1, <2>2, <2>3
<1>5. \A k \in 0 .. Len(ss) : k \in Good
  <2> HIDE DEF Good
  <2> QED
    BY <1>1, <1>3, <1>4, SetInduction
<1> QED
  BY <1>5 DEF f

\* execute_workload: the frame has every row that was to be measured, once and in order.
THEOREM FrameHasEveryRow == Spec => []FrameIsComplete
<1>1. IInv => FrameIsComplete
  <2> SUFFICES ASSUME IInv, pc = "returned", Strict
               PROVE  /\ Len(frame) = WorkloadReps * NQueries * QueryReps
                      /\ \A i \in 1 .. Len(frame) : frame[i].index = i
                      /\ \A i, j \in 1 .. Len(frame) : i < j =>
                           \/ frame[i].wrep < frame[j].wrep
                           \/ frame[i].wrep = frame[j].wrep /\ frame[i].query # frame[j].query
                           \/ frame[i].wrep = frame[j].wrep /\ frame[i].rep < frame[j].rep
    BY DEF FrameIsComplete
  <2>1. Types /\ Ordered /\ Counted /\ frame = AllRows(samples) /\ Counting
    BY DEF IInv, Logged, Counting
  <2>2. /\ samples \in Seq(Sample) /\ Len(samples) \in Nat /\ QueryReps \in Nat
        /\ WorkloadReps \in Nat /\ NQueries \in Nat
    BY <2>1, LenProperties, SizeAssumption DEF Types
  <2>3. /\ Len(samples) = WorkloadReps * NQueries
        /\ \A l \in 1 .. Len(samples) : Len(samples[l].rows) = QueryReps /\ samples[l].start = (l - 1) * QueryReps + 1
    BY <2>1 DEF Counted
  <2>4. \A k \in 0 .. Len(samples) : Len(RowsUpTo(samples)[k]) = k * QueryReps
    BY <2>2, <2>3, RowsOfEqualSamples
  <2>5. Len(frame) = WorkloadReps * NQueries * QueryReps
    <3>1. Len(samples) \in 0 .. Len(samples)
      BY <2>2
    <3> QED
      BY <2>1, <2>3, <2>4, <3>1 DEF AllRows
  <2>6. ASSUME NEW n \in 1 .. Len(frame) PROVE frame[n].index = n
    <3>1. PICK l \in 1 .. Len(samples) : \E i \in 1 .. Len(samples[l].rows) :
            n = Len(RowsUpTo(samples)[l - 1]) + i /\ frame[n] = RowOf(samples[l], i)
      BY <2>1, <2>2, RowsAreSamples
    <3>2. PICK i \in 1 .. Len(samples[l].rows) :
            n = Len(RowsUpTo(samples)[l - 1]) + i /\ frame[n] = RowOf(samples[l], i)
      BY <3>1
    <3>3. l - 1 \in 0 .. Len(samples)
      BY <2>2
    <3>4. n = (l - 1) * QueryReps + i
      BY <2>4, <3>2, <3>3
    <3>5. frame[n].index = ((l - 1) * QueryReps + 1) + i - 1
      BY <2>3, <3>2 DEF RowOf
    <3>6. i \in Nat /\ (l - 1) * QueryReps \in Int
      BY <2>2, <2>3
    <3> QED
      BY <3>4, <3>5, <3>6
  <2>7. ASSUME NEW n \in 1 .. Len(frame), NEW o \in 1 .. Len(frame), n < o
        PROVE  \/ frame[n].wrep < frame[o].wrep
               \/ frame[n].wrep = frame[o].wrep /\ frame[n].query # frame[o].query
               \/ frame[n].wrep = frame[o].wrep /\ frame[n].rep < frame[o].rep
    <3>1. PICK l \in 1 .. Len(samples), m \in 1 .. Len(samples) :
            \E i \in 1 .. Len(samples[l].rows), j \in 1 .. Len(samples[m].rows) :
              /\ l < m \/ (l = m /\ i < j)
              /\ frame[n] = RowOf(samples[l], i) /\ frame[o] = RowOf(samples[m], j)
      <4>1. Follow(samples, n, o)
        BY <2>1, <2>2, <2>7, RowsFollowTheSamples
      <4> QED
        BY <2>1, <4>1 DEF Follow
    <3>2. PICK i \in 1 .. Len(samples[l].rows), j \in 1 .. Len(samples[m].rows) :
              /\ l < m \/ (l = m /\ i < j)
              /\ frame[n] = RowOf(samples[l], i) /\ frame[o] = RowOf(samples[m], j)
      BY <3>1
    <3>3. /\ frame[n].wrep = samples[l].wrep /\ frame[n].query = samples[l].query /\ frame[n].rep = i
          /\ frame[o].wrep = samples[m].wrep /\ frame[o].query = samples[m].query /\ frame[o].rep = j
      BY <3>2 DEF RowOf
    <3>4. CASE l < m
      BY <2>1, <3>3, <3>4 DEF Ordered
    <3>5. CASE l = m /\ i < j
      BY <3>3, <3>5
    <3> QED
      BY <3>2, <3>4, <3>5
  <2> QED
    BY <2>5, <2>6, <2>7
<1> QED
  BY <1>1, Invariant, PTL

\* _ResultSample.to_df: what a row of the frame says was measured in its own execution.
THEOREM RowsAreExecutions == Spec => []RowsStandForRuns
<1>1. IInv => RowsStandForRuns
  <2> SUFFICES ASSUME IInv PROVE RowsStandForRuns
    OBVIOUS
  <2> DEFINE rows == AllRows(samples)
  <2>1. samples \in Seq(Sample) /\ RunsOfRows /\ RunsIncrease
    BY DEF IInv, Types
  <2>2. ASSUME NEW n \in 1 .. Len(rows), rows[n].run # 0
        PROVE  rows[n].query = runs[rows[n].run].query /\ rows[n].wrep = runs[rows[n].run].wrep
    <3>1. PICK l \in 1 .. Len(samples) : \E i \in 1 .. Len(samples[l].rows) : rows[n] = RowOf(samples[l], i)
      BY <2>1, RowsAreSamples
    <3>2. PICK i \in 1 .. Len(samples[l].rows) : rows[n] = RowOf(samples[l], i)
      BY <3>1
    <3>3. /\ rows[n].run = samples[l].rows[i].run
          /\ rows[n].query = samples[l].query /\ rows[n].wrep = samples[l].wrep
      BY <3>2 DEF RowOf
    <3> HIDE DEF rows
    <3> QED
      BY <2>1, <2>2, <3>3 DEF RunsOfRows
  <2>3. ASSUME NEW n \in 1 .. Len(rows), NEW o \in 1 .. Len(rows), n < o,
               rows[n].run # 0, rows[o].run # 0
        PROVE  rows[n].run < rows[o].run
    <3>1. PICK l \in 1 .. Len(samples), m \in 1 .. Len(samples) :
            \E i \in 1 .. Len(samples[l].rows), j \in 1 .. Len(samples[m].rows) :
              /\ l < m \/ (l = m /\ i < j)
              /\ rows[n] = RowOf(samples[l], i) /\ rows[o] = RowOf(samples[m], j)
      <4>1. Follow(samples, n, o)
        BY <2>1, <2>3, RowsFollowTheSamples
      <4> QED
        BY <4>1 DEF Follow
    <3>2. PICK i \in 1 .. Len(samples[l].rows), j \in 1 .. Len(samples[m].rows) :
              /\ l < m \/ (l = m /\ i < j)
              /\ rows[n] = RowOf(samples[l], i) /\ rows[o] = RowOf(samples[m], j)
      BY <3>1
    <3>3. rows[n].run = samples[l].rows[i].run /\ rows[o].run = samples[m].rows[j].run
      BY <3>2 DEF RowOf
    <3> HIDE DEF rows
    <3> QED
      BY <2>1, <2>3, <3>2, <3>3 DEF RunsIncrease
  <2>4. Len(rows) \in Nat /\ \A n \in 1 .. Len(rows) : rows[n].run \in Nat
    <3>1. rows \in Seq(Row) /\ Len(rows) \in Nat
      BY <2>1, RowsAreSamples
    <3> HIDE DEF rows
    <3>2. \A n \in 1 .. Len(rows) : rows[n] \in Row
      BY <3>1, ElementOfSeq
    <3> QED
      BY <3>1, <3>2 DEF Row
  <2> HIDE DEF rows
  <2>5. ASSUME NEW n \in 1 .. Len(rows), NEW o \in 1 .. Len(rows), n # o, rows[n].run # 0
        PROVE  rows[n].run # rows[o].run
    <3>1. n < o \/ o < n
      BY <2>4, <2>5
    <3> QED
      BY <2>3, <2>4, <2>5, <3>1
  <2> QED
    BY <2>2, <2>5 DEF RowsStandForRuns, rows
<1> QED
  BY <1>1, Invariant, PTL

\* to_execution_results: the optimizer learns from each successful execution exactly once.
THEOREM EachSuccessIsLearned == Spec => []FeedbackIsExact
<1>1. IInv => FeedbackIsExact
  <2> DEFINE rows == AllRows(samples)
  <2> SUFFICES ASSUME IInv, pc \in {"query", "repetition", "returned"}, cfg.online
               PROVE  /\ Range(learned) = {rows[i].run : i \in {j \in 1 .. Len(rows) : rows[j].status = "ok"}}
                      /\ \A i, j \in 1 .. Len(learned) : i < j => learned[i] < learned[j]
    BY DEF FeedbackIsExact
  <2>1. Counting /\ ~Active
    BY DEF Counting, Active, Running
  <2>2. samples \in Seq(Sample) /\ rows = AllRows(samples) /\ Learnt(learned, samples, Len(samples))
    BY <2>1 DEF IInv, Types, Fed, Done
  <2> HIDE DEF rows
  <2>3. learned \in Seq(Nat) /\ \A i, j \in 1 .. Len(learned) : i < j => learned[i] < learned[j]
    BY <2>2 DEF Learnt
  <2>4. DOMAIN learned = 1 .. Len(learned)
    BY <2>3, LenProperties
  <2>5. ASSUME NEW k \in 1 .. Len(learned)
        PROVE  \E n \in 1 .. Len(rows) : rows[n].status = "ok" /\ rows[n].run = learned[k]
    <3>1. PICK l \in 1 .. Len(samples) : \E i \in 1 .. Len(samples[l].rows) :
            samples[l].rows[i].status = "ok" /\ samples[l].rows[i].run = learned[k]
      BY <2>2 DEF Learnt
    <3>2. PICK i \in 1 .. Len(samples[l].rows) :
            samples[l].rows[i].status = "ok" /\ samples[l].rows[i].run = learned[k]
      BY <3>1
    <3>3. PICK n \in 1 .. Len(rows) : rows[n] = RowOf(samples[l], i)
      BY <2>2, RowsAreSamples
    <3> QED
      BY <3>2, <3>3 DEF RowOf
  <2>6. ASSUME NEW n \in 1 .. Len(rows), rows[n].status = "ok"
        PROVE  \E k \in 1 .. Len(learned) : learned[k] = rows[n].run
    <3>0. n \in 1 .. Len(AllRows(samples)) /\ rows[n] = AllRows(samples)[n]
      BY <2>2
    <3>1. PICK l \in 1 .. Len(samples) : \E i \in 1 .. Len(samples[l].rows) :
            n = Len(RowsUpTo(samples)[l - 1]) + i /\ AllRows(samples)[n] = RowOf(samples[l], i)
      BY <2>2, <3>0, RowsAreSamples
    <3>2. PICK i \in 1 .. Len(samples[l].rows) : rows[n] = RowOf(samples[l], i)
      BY <3>0, <3>1
    <3>3. samples[l].rows[i].status = "ok" /\ samples[l].rows[i].run = rows[n].run
      BY <2>6, <3>2 DEF RowOf
    <3>4. PICK k \in 1 .. Len(learned) : learned[k] = samples[l].rows[i].run
      BY <2>2, <3>3 DEF Learnt
    <3> QED
      BY <3>3, <3>4
  <2>7. Range(learned) = {rows[i].run : i \in {j \in 1 .. Len(rows) : rows[j].status = "ok"}}
    <3> DEFINE Good == {rows[i].run : i \in {j \in 1 .. Len(rows) : rows[j].status = "ok"}}
    <3>1. \A x : x \in Range(learned) <=> \E k \in 1 .. Len(learned) : x = learned[k]
      BY <2>4 DEF Range
    <3>2. \A x : x \in Good <=> \E n \in 1 .. Len(rows) : rows[n].status = "ok" /\ x = rows[n].run
      OBVIOUS
    <3> HIDE DEF Good
    <3>3. ASSUME NEW x \in Range(learned) PROVE x \in Good
      BY <2>5, <3>1, <3>2
    <3>4. ASSUME NEW x \in Good PROVE x \in Range(learned)
      BY <2>6, <3>1, <3>2
    <3> QED
      BY <3>3, <3>4 DEF Good
  <2> QED
    BY <2>3, <2>7
<1> QED
  BY <1>1, Invariant, PTL

\* start_execution, add_post_exec_data, to_df: the columns of a returned frame meet.
THEOREM ColumnsOfTheFrameMeet == Spec => []ColumnsMeet
<1>1. IInv => ColumnsMeet
  <2> SUFFICES ASSUME IInv, pc = "returned", NEW l \in 1 .. Len(samples), NEW i \in 1 .. Len(samples[l].rows)
               PROVE  LET s == samples[l] IN
                      s.stamps[i] = s.rows[i].run /\ (s.post # << >> => s.post[i] = s.rows[i].run)
    BY DEF ColumnsMeet
  <2>1. Aligned(samples[l]) /\ Uniform(samples[l]) /\ samples[l] \in Sample
    <3>1. samples \in Seq(Sample) /\ Columns /\ FrameExists(samples)
      BY DEF IInv, Types, Logged
    <3> QED
      BY <3>1, ElementOfSeq DEF Columns, FrameExists
  <2>2. samples[l].rows # << >> /\ samples[l].post \in Seq(Nat)
    BY <2>1, EmptySeq DEF Sample
  <2>3. /\ Len(samples[l].stamps) = Len(samples[l].rows)
        /\ samples[l].post # << >> => Len(samples[l].post) = Len(samples[l].rows)
    BY <2>1, <2>2, EmptySeq DEF Uniform
  <2> QED
    BY <2>1, <2>3 DEF Aligned
<1> QED
  BY <1>1, Invariant, PTL

\* Rows, timestamps and callback data are of the executions the rows stand for.
THEOREM RowsAreOfTheirRuns == Spec => []RowsBelongToTheirRun
BY RowsAreExecutions, ColumnsOfTheFrameMeet, PTL DEF RowsBelongToTheirRun

\* _failed_benchmark_log, _finalize_benchmark_log: the log entry tells how the call ended.
THEOREM LogIsTrue == Spec => []LogTellsTheEnd
<1>1. IInv => LogTellsTheEnd
  BY DEF IInv, Types, States, Logged, LogTellsTheEnd, Running, Errors
<1> QED
  BY <1>1, Invariant, PTL
================================================================================
