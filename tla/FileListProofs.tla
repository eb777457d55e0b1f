--------------------------- MODULE FileListProofs ----------------------------
(* Proofs about FileList for any files, sizes and number of windows.        *)
EXTENDS FileList, SequenceTheorems, FiniteSetTheorems, WellFoundedInduction, TLAPS

-----------------------------------------------------------------------------
(* Loops. A loop over a sequence is a recursive function on 0..N; its values *)
(* are found, and what it keeps is shown, by way of the first round at which *)
(* that would fail.                                                          *)

LEMMA Least ==
    ASSUME NEW T \in SUBSET Nat, T # {}
    PROVE  \E m \in T : \A k \in T : m <= k
  <1>1. PICK m \in T : \A k \in T : <<k, m>> \notin OpToRel(<, Nat)
    BY NatLessThanWellFounded, WFMin
  <1>2. \A k \in T : ~(k < m)
    BY <1>1 DEF OpToRel
  <1> QED BY <1>2

LEMMA LoopKeeps ==
    ASSUME NEW N \in Nat, NEW P \in SUBSET (0 .. N), 0 \in P,
           \A n \in 1 .. N : n - 1 \in P => n \in P
    PROVE  P = 0 .. N
  <1> DEFINE T == (0 .. N) \ P
  <1>1. SUFFICES ASSUME T # {} PROVE FALSE
    OBVIOUS
  <1>2. PICK m \in T : \A k \in T : m <= k
    <2>1. T \in SUBSET Nat
      OBVIOUS
    <2> HIDE DEF T
    <2> QED BY <1>1, <2>1, Least
  <1>3. m \in 1 .. N /\ m - 1 \in 0 .. N /\ ~(m <= m - 1)
    BY <1>2
  <1>4. m - 1 \in P
    BY <1>2, <1>3
  <1> QED BY <1>2, <1>3, <1>4

\* N rounds on a set L of values, and the values a they take from l on.
Rounds(L, N, step) == step \in [1 .. N -> [L -> L]]
Run(L, N, l, step, a) ==
    /\ a \in [0 .. N -> L]
    /\ a[0] = l /\ \A n \in 1 .. N : a[n] = step[n][a[n - 1]]

LEMMA LoopRuns ==
    ASSUME NEW L, NEW N \in Nat, NEW l \in L, NEW step, Rounds(L, N, step)
    PROVE  \E a : Run(L, N, l, step, a)
  <1> USE DEF Rounds
  <1> DEFINE Runs(n) == \E a \in [0 .. n -> L] :
                 a[0] = l /\ \A k \in 1 .. n : a[k] = step[k][a[k - 1]]
             P == {n \in 0 .. N : Runs(n)}
  <1>1. 0 \in P
    <2> DEFINE a == [n \in 0 .. 0 |-> l]
    <2>1. a \in [0 .. 0 -> L] /\ a[0] = l
      OBVIOUS
    <2>2. Runs(0)
      <3> HIDE DEF a
      <3> QED BY <2>1
    <2> QED BY <2>2
  <1>2. ASSUME NEW n \in 1 .. N, n - 1 \in P
        PROVE  n \in P
    <2>1. PICK a \in [0 .. n - 1 -> L] :
              a[0] = l /\ \A k \in 1 .. n - 1 : a[k] = step[k][a[k - 1]]
      BY <1>2
    <2> DEFINE b == [k \in 0 .. n |-> IF k = n THEN step[n][a[n - 1]] ELSE a[k]]
    <2>2. step[n][a[n - 1]] \in L
      BY <2>1
    <2>3. b \in [0 .. n -> L] /\ b[0] = l
      BY <2>1, <2>2
    <2>4. ASSUME NEW k \in 1 .. n
          PROVE  b[k] = step[k][b[k - 1]]
      <3>1. k - 1 \in 0 .. n /\ k - 1 # n /\ b[k - 1] = a[k - 1]
        OBVIOUS
      <3>2. k # n => k \in 1 .. n - 1
        OBVIOUS
      <3> QED BY <3>1, <3>2, <2>1
    <2>5. Runs(n)
      BY <2>3, <2>4
    <2> QED BY <2>5
  <1> HIDE DEF P
  <1>3. P \in SUBSET (0 .. N)
    BY DEF P
  <1>4. P = 0 .. N
    BY <1>1, <1>2, <1>3, LoopKeeps
  <1>5. N \in P
    BY <1>4
  <1> QED BY <1>5 DEF P, Run

\* What SetToSeqs enumerates: every member of the set, each once.
LEMMA Listing ==
    ASSUME NEW S, IsFiniteSet(S), NEW s \in SetToSeqs(S)
    PROVE  /\ Cardinality(S) \in Nat /\ Len(s) = Cardinality(S)
           /\ s \in Seq(S) /\ DOMAIN s = 1 .. Len(s)
           /\ \A m, n \in 1 .. Len(s) : s[m] = s[n] => m = n
           /\ \A x \in S : \E n \in 1 .. Len(s) : s[n] = x
  <1> DEFINE N == Cardinality(S)
             T == {s[n] : n \in 1 .. N}
  <1>1. N \in Nat
    BY FS_CardinalityType
  <1>2. s \in [1 .. N -> S] /\ \A m, n \in 1 .. N : m # n => s[m] # s[n]
    BY DEF SetToSeqs
  <1> HIDE DEF N
  <1>3. s \in Seq(S) /\ Len(s) = N
    BY <1>1, <1>2, IsASeq
  <1>4. T \in SUBSET S /\ s \in Bijection(1 .. N, T)
    BY <1>2 DEF Bijection, Injection, Surjection, IsInjective
  <1>5. IsFiniteSet(1 .. N) /\ Cardinality(1 .. N) = N
    BY <1>1, FS_Interval
  <1>6. Cardinality(T) = N
    <2>1. ExistsBijection(1 .. N, T)
      BY <1>4 DEF ExistsBijection
    <2> QED BY <2>1, <1>5, FS_Bijection
  <1>7. T = S
    BY <1>4, <1>6, FS_Subset DEF N
  <1> QED BY <1>1, <1>2, <1>3, <1>7 DEF N
-----------------------------------------------------------------------------
(* Sums over a finite set, as MapThenSumSet adds them up: w[x] for one x of  *)
(* the set, and the sum over the others.                                     *)

LEMMA FiniteKeeps ==
    ASSUME NEW S, IsFiniteSet(S), NEW P \in SUBSET (SUBSET S), {} \in P,
           \A T \in SUBSET S : (\A x \in T : T \ {x} \in P) => T \in P
    PROVE  P = SUBSET S
  <1> DEFINE Bad == (SUBSET S) \ P
             Counts == {Cardinality(T) : T \in Bad}
  <1>1. SUFFICES ASSUME Bad # {} PROVE FALSE
    OBVIOUS
  <1>2. \A T \in SUBSET S : IsFiniteSet(T) /\ Cardinality(T) \in Nat
    BY FS_Subset, FS_CardinalityType
  <1>3. Counts \in SUBSET Nat /\ Counts # {}
    BY <1>1, <1>2
  <1>4. PICK n \in Counts : \A k \in Counts : n <= k
    <2> HIDE DEF Counts
    <2> QED BY <1>3, Least
  <1>5. PICK T \in Bad : Cardinality(T) = n
    OBVIOUS
  <1>6. ASSUME NEW x \in T PROVE T \ {x} \in P
    <2>1. Cardinality(T \ {x}) = n - 1
      BY <1>2, <1>5, <1>6, FS_RemoveElement
    <2>2. n \in Nat /\ ~(n <= n - 1)
      BY <1>3
    <2>3. T \ {x} \notin Bad
      BY <1>4, <2>1, <2>2
    <2> QED BY <2>3
  <1> QED BY <1>5, <1>6

Pick(s) == CHOOSE x \in s : TRUE
IsSum(w, S, g) ==
    g = [s \in SUBSET S |-> IF s = {} THEN 0 ELSE w[Pick(s)] + g[s \ {Pick(s)}]]

Weigh(w, S) == w \in [S -> Nat]

LEMMA Picked == \A s : s # {} => Pick(s) \in s
  BY DEF Pick

SumPicks(w, S, g) ==
    /\ g[{}] = 0
    /\ \A s \in SUBSET S : s # {} => g[s] = w[Pick(s)] + g[s \ {Pick(s)}]
SumSplits(w, S, g) ==
    /\ g[{}] = 0 /\ \A s \in SUBSET S : g[s] \in Nat
    /\ \A s \in SUBSET S : \A x \in s : g[s] = w[x] + g[s \ {x}]

LEMMA SumIs ==
    ASSUME NEW S, NEW w, NEW g, IsSum(w, S, g)
    PROVE  SumPicks(w, S, g)
  <1>1. g = [s \in SUBSET S |-> IF s = {} THEN 0 ELSE w[Pick(s)] + g[s \ {Pick(s)}]]
    BY DEF IsSum
  <1> DEFINE r == [s \in SUBSET S |-> IF s = {} THEN 0 ELSE w[Pick(s)] + g[s \ {Pick(s)}]]
  <1>2. DOMAIN r = SUBSET S /\ r[{}] = 0
        /\ \A s \in SUBSET S : s # {} => r[s] = w[Pick(s)] + g[s \ {Pick(s)}]
    OBVIOUS
  <1>3. g = r
    BY <1>1
  <1> HIDE DEF r
  <1> QED BY <1>2, <1>3 DEF SumPicks

\* There is such a sum: it is built up for sets of at most n members.
LEMMA SumExists ==
    ASSUME NEW S, IsFiniteSet(S), NEW w
    PROVE  \E g : IsSum(w, S, g)
  <1> DEFINE N == Cardinality(S)
             Small(n) == {s \in SUBSET S : Cardinality(s) <= n}
             Right(n, g) == g = [s \in Small(n) |->
                 IF s = {} THEN 0 ELSE w[Pick(s)] + g[s \ {Pick(s)}]]
             P == {n \in 0 .. N : \E g : Right(n, g)}
  <1>1. N \in Nat /\ \A s \in SUBSET S : /\ IsFiniteSet(s) /\ Cardinality(s) \in Nat
                                        /\ Cardinality(s) <= N
    BY FS_Subset, FS_CardinalityType
  <1>2. \A s \in SUBSET S : s # {} =>
            /\ s \ {Pick(s)} \in SUBSET S
            /\ Cardinality(s \ {Pick(s)}) = Cardinality(s) - 1
    BY <1>1, Picked, FS_RemoveElement
  <1>3. 0 \in P
    <2> DEFINE g == [s \in Small(0) |-> 0]
    <2>1. \A s \in Small(0) : s = {}
      <3> SUFFICES ASSUME NEW s \in Small(0) PROVE s = {}
        OBVIOUS
      <3>1. Cardinality(s) = 0 /\ IsFiniteSet(s)
        BY <1>1
      <3> QED BY <3>1, FS_EmptySet
    <2>2. Right(0, g)
      BY <2>1
    <2> HIDE DEF Right
    <2> QED BY <1>1, <2>2
  <1>4. ASSUME NEW n \in 1 .. N, n - 1 \in P
        PROVE  n \in P
    <2>1. PICK f : Right(n - 1, f)
      BY <1>4
    <2> DEFINE g == [s \in Small(n) |->
                        IF s = {} THEN 0 ELSE w[Pick(s)] + f[s \ {Pick(s)}]]
    <2>2. \A s \in Small(n) : s # {} => s \ {Pick(s)} \in Small(n - 1)
      BY <1>1, <1>2
    <2>3. \A s \in Small(n - 1) : s \in Small(n)
      BY <1>1
    <2>4. \A s \in Small(n - 1) : g[s] = f[s]
      BY <2>1, <2>3
    <2>5. \A s \in Small(n) : s # {} => g[s \ {Pick(s)}] = f[s \ {Pick(s)}]
      <3> HIDE DEF g, Small
      <3> QED BY <2>2, <2>4
    <2>6. Right(n, g)
      <3>1. g = [s \in Small(n) |->
                    IF s = {} THEN 0 ELSE w[Pick(s)] + g[s \ {Pick(s)}]]
        <4> DEFINE v(s) == IF s = {} THEN 0 ELSE w[Pick(s)] + f[s \ {Pick(s)}]
                   u(s) == IF s = {} THEN 0 ELSE w[Pick(s)] + g[s \ {Pick(s)}]
        <4>1. \A s \in Small(n) : v(s) = u(s)
          <5> HIDE DEF g, Small
          <5> QED BY <2>5
        <4>2. g = [s \in Small(n) |-> v(s)]
          OBVIOUS
        <4> HIDE DEF g, Small, u, v
        <4>3. g = [s \in Small(n) |-> u(s)]
          BY <4>1, <4>2
        <4> QED BY <4>3 DEF u
      <3> QED BY <3>1
    <2> HIDE DEF Right
    <2> QED BY <2>6
  <1>5. P = 0 .. N
    <2>1. P \in SUBSET (0 .. N)
      OBVIOUS
    <2> HIDE DEF P, N
    <2> QED BY <1>1, <1>3, <1>4, <2>1, LoopKeeps
  <1>6. PICK g : Right(N, g)
    <2> HIDE DEF Right, Small
    <2>1. N \in 0 .. N
      <3> HIDE DEF N
      <3> QED BY <1>1
    <2>2. N \in P
      <3> HIDE DEF P, N
      <3> QED BY <1>5, <2>1
    <2> QED BY <2>2
  <1>7. Small(N) = SUBSET S
    BY <1>1
  <1> HIDE DEF Small
  <1> QED BY <1>6, <1>7 DEF IsSum

\* The sum does not depend on the order in which the members are taken.
LEMMA SumOthers ==
    ASSUME NEW S, IsFiniteSet(S), NEW w, Weigh(w, S), NEW g, IsSum(w, S, g)
    PROVE  SumSplits(w, S, g)
  <1>1. /\ g[{}] = 0
        /\ \A s \in SUBSET S : s # {} => g[s] = w[Pick(s)] + g[s \ {Pick(s)}]
    BY SumIs DEF SumPicks
  <1> USE DEF Weigh
  <1> DEFINE P == {s \in SUBSET S : g[s] \in Nat}
             Q == {s \in SUBSET S : \A x \in s : g[s] = w[x] + g[s \ {x}]}
  <1>2. P = SUBSET S
    <2>1. {} \in P /\ P \in SUBSET (SUBSET S)
      BY <1>1
    <2>2. ASSUME NEW T \in SUBSET S, \A x \in T : T \ {x} \in P
          PROVE  T \in P
      <3>1. CASE T = {}
        BY <2>1, <3>1
      <3>2. CASE T # {}
        <4>1. Pick(T) \in T /\ T \ {Pick(T)} \in P
          BY <2>2, <3>2, Picked
        <4>2. w[Pick(T)] \in Nat /\ g[T \ {Pick(T)}] \in Nat
          BY <4>1
        <4> QED BY <1>1, <3>2, <4>2
      <3> QED BY <3>1, <3>2
    <2> HIDE DEF P
    <2> QED BY <2>1, <2>2, FiniteKeeps
  <1>3. \A s \in SUBSET S : g[s] \in Nat
    BY <1>2
  <1>4. Q = SUBSET S
    <2>1. {} \in Q /\ Q \in SUBSET (SUBSET S)
      OBVIOUS
    <2>2. ASSUME NEW T \in SUBSET S, \A x \in T : T \ {x} \in Q
          PROVE  T \in Q
      <3> SUFFICES ASSUME NEW y \in T
                   PROVE  g[T] = w[y] + g[T \ {y}]
        OBVIOUS
      <3> DEFINE z == Pick(T)
      <3>1. z \in T /\ g[T] = w[z] + g[T \ {z}]
        BY <1>1, Picked
      <3> HIDE DEF z
      <3>2. CASE z = y
        BY <3>1, <3>2
      <3>3. CASE z # y
        <4>1. T \ {z} \in Q /\ T \ {y} \in Q
          BY <2>2, <3>1
        <4>2. y \in T \ {z} /\ z \in T \ {y} /\ (T \ {z}) \ {y} = (T \ {y}) \ {z}
          BY <3>1, <3>3
        <4>3. g[T \ {z}] = w[y] + g[(T \ {z}) \ {y}]
              /\ g[T \ {y}] = w[z] + g[(T \ {z}) \ {y}]
          BY <4>1, <4>2
        <4>4. w[y] \in Nat /\ w[z] \in Nat /\ g[(T \ {z}) \ {y}] \in Nat
          BY <1>3, <3>1
        <4>5. \A a, b, c \in Nat : a + (b + c) = b + (a + c)
          OBVIOUS
        <4> QED BY <3>1, <4>3, <4>4, <4>5
      <3> QED BY <3>2, <3>3
    <2> HIDE DEF Q
    <2> QED BY <2>1, <2>2, FiniteKeeps
  <1> QED BY <1>1, <1>3, <1>4 DEF SumSplits

\* Nor on what the members are called.
LEMMA SumRenamed ==
    ASSUME NEW S, IsFiniteSet(S), NEW w, Weigh(w, S), NEW g, IsSum(w, S, g),
           NEW T, IsFiniteSet(T), NEW v, Weigh(v, T), NEW h, IsSum(v, T, h),
           NEW b \in [S -> T], \A x, y \in S : b[x] = b[y] => x = y,
           \A x \in S : v[b[x]] = w[x]
    PROVE  g[S] = h[{b[x] : x \in S}]
  <1> DEFINE Im(s) == {b[x] : x \in s}
             P == {s \in SUBSET S : g[s] = h[Im(s)]}
  <1>1. /\ g[{}] = 0 /\ \A s \in SUBSET S : \A x \in s : g[s] = w[x] + g[s \ {x}]
        /\ h[{}] = 0 /\ \A s \in SUBSET T : \A x \in s : h[s] = v[x] + h[s \ {x}]
    <2>1. SumSplits(w, S, g) /\ SumSplits(v, T, h)
      BY SumOthers
    <2> QED BY <2>1 DEF SumSplits
  <1>2. {} \in P /\ P \in SUBSET (SUBSET S)
    BY <1>1
  <1>3. ASSUME NEW U \in SUBSET S, \A x \in U : U \ {x} \in P
        PROVE  U \in P
    <2>1. CASE U = {}
      BY <1>2, <2>1
    <2>2. CASE U # {}
      <3>1. PICK x : x \in U
        BY <2>2
      <3>2. Im(U) \in SUBSET T /\ b[x] \in Im(U) /\ Im(U) \ {b[x]} = Im(U \ {x})
        BY <3>1
      <3>3. g[U \ {x}] = h[Im(U \ {x})]
        BY <1>3, <3>1
      <3> HIDE DEF Im
      <3>4. g[U] = w[x] + g[U \ {x}]
        BY <1>1, <3>1
      <3>5. h[Im(U)] = v[b[x]] + h[Im(U) \ {b[x]}]
        BY <1>1, <3>2
      <3>6. v[b[x]] = w[x]
        BY <3>1
      <3> QED BY <3>2, <3>3, <3>4, <3>5, <3>6
    <2> QED BY <2>1, <2>2
  <1>4. P = SUBSET S
    <2> HIDE DEF P
    <2> QED BY <1>2, <1>3, FiniteKeeps
  <1>5. S \in P
    BY <1>4
  <1> QED BY <1>5

-----------------------------------------------------------------------------
(* The list.                                                                 *)

\* The totals are Go integers; that they are never negative is TotalsMatch.
ListType ==
    [rows : Seq(Row), before : Seq(Seq(Row)), map : SUBSET Paths,
     count : Int, size : Int]

LEMMA Fields ==
    ASSUME NEW l \in ListType, NEW r \in Seq(Row), NEW m \in SUBSET Paths,
           NEW c \in Int, NEW z \in Int
    PROVE  /\ [l EXCEPT !.rows = r, !.map = m, !.count = c, !.size = z] \in ListType
           /\ [l EXCEPT !.count = c, !.size = z] \in ListType
  <1> DEFINE R == Seq(Row)
             B == Seq(R)
             M == SUBSET Paths
             L == [rows : R, before : B, map : M, count : Int, size : Int]
  <1>1. L = ListType
    BY DEF ListType
  <1>2. l \in L /\ r \in R /\ m \in M
    BY <1>1
  <1> HIDE DEF R, B, M
  <1>3. [l EXCEPT !.rows = r, !.map = m, !.count = c, !.size = z] \in L
        /\ [l EXCEPT !.count = c, !.size = z] \in L
    BY <1>2
  <1> HIDE DEF L
  <1> QED BY <1>1, <1>3

LEMMA AddFileTyped ==
    ASSUME NEW l \in ListType, NEW p \in Paths, NEW o \in Outcomes
    PROVE  AddFile(l, p, o) \in ListType
  <1>1. o \in Nat \/ o = NoStat \/ o = NotSet
    BY FileListAssumption DEF Outcomes
  <1>2. o # NoStat => NewRow(p, o) \in Row /\ o \in Int
    BY <1>1 DEF NewRow, Row, NoStat, NotSet
  <1> DEFINE seen == [l EXCEPT !.map = @ \cup {p}]
  <1>3. seen \in ListType /\ seen.rows = l.rows
    BY DEF ListType
  <1>4. CASE Known(l, p) \/ o = NoStat
    BY <1>3, <1>4 DEF AddFile
  <1>5. CASE ~Known(l, p) /\ o # NoStat
    <2> DEFINE grown == [seen EXCEPT !.rows = Append(@, NewRow(p, o))]
    <2>1. Append(seen.rows, NewRow(p, o)) \in Seq(Row)
      BY <1>2, <1>3, <1>5, AppendProperties DEF ListType
    <2>2. grown \in ListType
      BY <2>1, <1>3 DEF ListType
    <2>3. AddFile(l, p, o) = Counted(grown, o)
      BY <1>5 DEF AddFile
    <2> HIDE DEF grown
    <2>4. grown.count \in Int /\ grown.size \in Int
      BY <2>2 DEF ListType
    <2>5. grown.count + 1 \in Int /\ grown.size + o \in Int
      BY <2>4, <1>2, <1>5
    <2> DEFINE c == grown.count + 1
               z == grown.size + o
    <2>6. Counted(grown, o) = grown \/ Counted(grown, o) = [grown EXCEPT !.count = c, !.size = z]
      BY DEF Counted
    <2> HIDE DEF c, z
    <2>7. c \in Int /\ z \in Int
      BY <2>5 DEF c, z
    <2>8. [grown EXCEPT !.count = c, !.size = z] \in ListType
      BY <2>2, <2>7, Fields, EmptySeq
    <2> QED BY <2>2, <2>3, <2>6, <2>8
  <1> QED BY <1>4, <1>5

\* What RemoveAt leaves: the members before i where they were, those after it
\* one place earlier.
LEMMA Removed ==
    ASSUME NEW S, NEW s \in Seq(S), NEW i \in 1 .. Len(s)
    PROVE  /\ RemoveAt(s, i) \in Seq(S) /\ Len(RemoveAt(s, i)) = Len(s) - 1
           /\ \A k \in 1 .. Len(s) - 1 :
                  RemoveAt(s, i)[k] = s[IF k < i THEN k ELSE k + 1]
  <1> DEFINE N == Len(s)
             front == SubSeq(s, 1, i - 1)
             back == SubSeq(s, i + 1, Len(s))
  <1>1. N \in Nat
    OBVIOUS
  <1>2. front \in Seq(S) /\ Len(front) = i - 1
        /\ \A k \in 1 .. i - 1 : front[k] = s[k]
    <2>1. \A k \in 1 .. i - 1 : k \in 1 .. N
      BY <1>1
    <2>2. front = [k \in 1 .. i - 1 |-> s[k]]
      BY <1>1
    <2> QED BY <2>1, <2>2, <1>1, IsASeq
  <1>3. back \in Seq(S) /\ Len(back) = N - i
        /\ \A k \in 1 .. N - i : back[k] = s[i + k]
    <2>1. back \in Seq(S) /\ Len(back) = N - i
      BY <1>1
    <2>2. \A k \in 1 .. N - i : back[k] = s[i + k]
      BY <1>1
    <2> QED BY <2>1, <2>2
  <1>4. RemoveAt(s, i) = front \o back
    BY DEF RemoveAt
  <1> HIDE DEF front, back
  <1>5. /\ front \o back \in Seq(S) /\ Len(front \o back) = N - 1
        /\ \A k \in 1 .. N - 1 :
               (front \o back)[k] = IF k <= i - 1 THEN front[k] ELSE back[k - (i - 1)]
    <2>1. /\ front \o back \in Seq(S) /\ Len(front \o back) = Len(front) + Len(back)
          /\ \A k \in 1 .. Len(front) + Len(back) : (front \o back)[k] =
                 IF k <= Len(front) THEN front[k] ELSE back[k - Len(front)]
      BY <1>2, <1>3, ConcatProperties
    <2>2. i \in Int /\ (i - 1) + (N - i) = N - 1
      BY <1>1
    <2> QED BY <2>1, <2>2, <1>2, <1>3
  <1>6. ASSUME NEW k \in 1 .. N - 1
        PROVE  (front \o back)[k] = s[IF k < i THEN k ELSE k + 1]
    <2>1. CASE k < i
      BY <2>1, <1>1, <1>2, <1>5
    <2>2. CASE ~(k < i)
      <3>1. k - (i - 1) \in 1 .. N - i /\ i + (k - (i - 1)) = k + 1 /\ ~(k <= i - 1)
        BY <2>2, <1>1
      <3> QED BY <2>2, <3>1, <1>3, <1>5
    <2> QED BY <2>1, <2>2
  <1> QED BY <1>4, <1>5, <1>6

LEMMA RemoveRowTyped ==
    ASSUME NEW l \in ListType, NEW i
    PROVE  RemoveRow(l, i) \in ListType
  <1>1. CASE i \notin DOMAIN l.rows \/ PassedOver(l.rows[i])
    BY <1>1 DEF RemoveRow
  <1>2. CASE ~(i \notin DOMAIN l.rows \/ PassedOver(l.rows[i]))
    <2>1. l.rows \in Seq(Row) /\ i \in 1 .. Len(l.rows) /\ l.rows[i] \in Row
      BY <1>2 DEF ListType
    <2>2. RemoveAt(l.rows, i) \in Seq(Row)
      BY <2>1, Removed
    <2>3. l.rows[i].size \in Int /\ Forgotten(l, l.rows[i].path) \in SUBSET Paths
      BY <2>1 DEF Row, Forgotten, ListType
    <2>4. RemoveRow(l, i) =
              [l EXCEPT !.rows = RemoveAt(@, i), !.map = Forgotten(l, l.rows[i].path),
                        !.count = @ - 1, !.size = @ - l.rows[i].size]
      BY <1>2 DEF RemoveRow
    <2> DEFINE r == RemoveAt(l.rows, i)
               m == Forgotten(l, l.rows[i].path)
               c == l.count - 1
               z == l.size - l.rows[i].size
    <2>5. RemoveRow(l, i) = [l EXCEPT !.rows = r, !.map = m, !.count = c, !.size = z]
      BY <2>4
    <2>6. r \in Seq(Row) /\ m \in SUBSET Paths /\ c \in Int /\ z \in Int
      BY <2>2, <2>3 DEF ListType
    <2> HIDE DEF r, m, c, z
    <2>7. [l EXCEPT !.rows = r, !.map = m, !.count = c, !.size = z] \in ListType
      BY ONLY l \in ListType, <2>6, Fields, Zenon
    <2> QED BY <2>5, <2>7, Zenon
  <1> QED BY <1>1, <1>2

\* The two loops, round by round.
Adds(l, names, out, a) ==
    /\ a \in [0 .. Len(names) -> ListType]
    /\ a[0] = l /\ AddAll(l, names, out) = a[Len(names)]
    /\ \A n \in 1 .. Len(names) : a[n] = AddFile(a[n - 1], names[n], out[names[n]])

Removes(l, order, a) ==
    /\ a \in [0 .. Len(order) -> ListType]
    /\ a[0] = l /\ RemoveAll(l, order) = a[Len(order)]
    /\ \A n \in 1 .. Len(order) : a[n] = RemoveRow(a[n - 1], order[n])

LEMMA AddRounds ==
    ASSUME NEW l \in ListType, NEW names \in Seq(Paths),
           NEW out, \A k \in 1 .. Len(names) : out[names[k]] \in Outcomes
    PROVE  \E a : Adds(l, names, out, a)
  <1> DEFINE N == Len(names)
             step == [n \in 1 .. N |-> [x \in ListType |->
                                            AddFile(x, names[n], out[names[n]])]]
             Unrolled(a) == a = [n \in 0 .. N |->
                 IF n = 0 THEN l ELSE AddFile(a[n - 1], names[n], out[names[n]])]
  <1>1. N \in Nat /\ \A n \in 1 .. N : names[n] \in Paths
    OBVIOUS
  <1>2. step \in [1 .. N -> [ListType -> ListType]]
    BY <1>1, AddFileTyped
  <1> DEFINE after == CHOOSE a : Unrolled(a)
  <1>3. AddAll(l, names, out) = after[N]
    BY DEF AddAll
  <1> HIDE DEF N
  <1>4. PICK b \in [0 .. N -> ListType] :
            b[0] = l /\ \A n \in 1 .. N : b[n] = step[n][b[n - 1]]
    <2>1. Rounds(ListType, N, step)
      BY <1>2 DEF Rounds
    <2> HIDE DEF step
    <2>2. \E b : Run(ListType, N, l, step, b)
      BY <1>1, <2>1, LoopRuns
    <2> QED BY <2>2 DEF Run
  <1>5. \A n \in 1 .. N : b[n - 1] \in ListType
    BY <1>1, <1>4
  <1>6. \A n \in 1 .. N : b[n] = AddFile(b[n - 1], names[n], out[names[n]])
    BY <1>4, <1>5
  <1>7. Unrolled(b)
    <2>1. \A n \in 0 .. N : n # 0 => n \in 1 .. N
      BY <1>1
    <2> QED BY <1>4, <1>6, <2>1
  <1>8. Unrolled(after)
    BY <1>7
  <1> HIDE DEF after
  <1>9. \A n \in 0 .. N :
            after[n] = IF n = 0 THEN l ELSE AddFile(after[n - 1], names[n], out[names[n]])
    BY <1>8
  <1>10. DOMAIN after = 0 .. N /\ after = [n \in 0 .. N |-> after[n]]
    BY <1>8
  <1>11. {n \in 0 .. N : after[n] \in ListType} = 0 .. N
    <2> DEFINE P == {n \in 0 .. N : after[n] \in ListType}
    <2>1. 0 \in P
      BY <1>1, <1>9
    <2>2. ASSUME NEW n \in 1 .. N, n - 1 \in P
          PROVE  n \in P
      <3>1. n \in 0 .. N /\ n # 0 /\ names[n] \in Paths /\ out[names[n]] \in Outcomes
        BY <1>1 DEF N
      <3>2. after[n] = AddFile(after[n - 1], names[n], out[names[n]])
        BY <3>1, <1>9
      <3> QED BY <2>2, <3>1, <3>2, AddFileTyped
    <2>3. P \in SUBSET (0 .. N)
      OBVIOUS
    <2> HIDE DEF P
    <2>4. P = 0 .. N
      BY <1>1, <2>1, <2>2, <2>3, LoopKeeps
    <2> QED BY <2>4 DEF P
  <1>12. after \in [0 .. N -> ListType] /\ after[0] = l
         /\ \A n \in 1 .. N : after[n] = AddFile(after[n - 1], names[n], out[names[n]])
    <2>1. \A n \in 1 .. N : n \in 0 .. N /\ n # 0
      OBVIOUS
    <2>2. \A n \in 0 .. N : after[n] \in ListType
      BY <1>11
    <2>3. after[0] = l
      BY <1>1, <1>9
    <2> QED BY <1>9, <1>10, <2>1, <2>2, <2>3
  <1> QED BY <1>3, <1>12 DEF N, Adds

LEMMA RemoveRounds ==
    ASSUME NEW l \in ListType, NEW S, NEW order \in Seq(S)
    PROVE  \E a : Removes(l, order, a)
  <1> DEFINE N == Len(order)
             step == [n \in 1 .. N |-> [x \in ListType |-> RemoveRow(x, order[n])]]
             Unrolled(a) == a = [n \in 0 .. N |->
                 IF n = 0 THEN l ELSE RemoveRow(a[n - 1], order[n])]
  <1>1. N \in Nat
    OBVIOUS
  <1>2. step \in [1 .. N -> [ListType -> ListType]]
    BY <1>1, RemoveRowTyped
  <1> DEFINE after == CHOOSE a : Unrolled(a)
  <1>3. RemoveAll(l, order) = after[N]
    BY DEF RemoveAll
  <1> HIDE DEF N
  <1>4. PICK b \in [0 .. N -> ListType] :
            b[0] = l /\ \A n \in 1 .. N : b[n] = step[n][b[n - 1]]
    <2>1. Rounds(ListType, N, step)
      BY <1>2 DEF Rounds
    <2> HIDE DEF step
    <2>2. \E b : Run(ListType, N, l, step, b)
      BY <1>1, <2>1, LoopRuns
    <2> QED BY <2>2 DEF Run
  <1>5. \A n \in 1 .. N : b[n - 1] \in ListType
    BY <1>1, <1>4
  <1>6. \A n \in 1 .. N : b[n] = RemoveRow(b[n - 1], order[n])
    BY <1>4, <1>5
  <1>7. Unrolled(b)
    <2>1. \A n \in 0 .. N : n # 0 => n \in 1 .. N
      BY <1>1
    <2> QED BY <1>4, <1>6, <2>1
  <1>8. Unrolled(after)
    BY <1>7
  <1> HIDE DEF after
  <1>9. \A n \in 0 .. N :
            after[n] = IF n = 0 THEN l ELSE RemoveRow(after[n - 1], order[n])
    BY <1>8
  <1>10. DOMAIN after = 0 .. N /\ after = [n \in 0 .. N |-> after[n]]
    BY <1>8
  <1>11. {n \in 0 .. N : after[n] \in ListType} = 0 .. N
    <2> DEFINE P == {n \in 0 .. N : after[n] \in ListType}
    <2>1. 0 \in P
      BY <1>1, <1>9
    <2>2. ASSUME NEW n \in 1 .. N, n - 1 \in P
          PROVE  n \in P
      <3>1. n \in 0 .. N /\ n # 0
        BY <1>1
      <3>2. after[n] = RemoveRow(after[n - 1], order[n])
        BY <3>1, <1>9
      <3> QED BY <2>2, <3>1, <3>2, RemoveRowTyped
    <2>3. P \in SUBSET (0 .. N)
      OBVIOUS
    <2> HIDE DEF P
    <2>4. P = 0 .. N
      BY <1>1, <2>1, <2>2, <2>3, LoopKeeps
    <2> QED BY <2>4 DEF P
  <1>12. after \in [0 .. N -> ListType] /\ after[0] = l
         /\ \A n \in 1 .. N : after[n] = RemoveRow(after[n - 1], order[n])
    <2>1. \A n \in 1 .. N : n \in 0 .. N /\ n # 0
      OBVIOUS
    <2>2. \A n \in 0 .. N : after[n] \in ListType
      BY <1>11
    <2>3. after[0] = l
      BY <1>1, <1>9
    <2> QED BY <1>9, <1>10, <2>1, <2>2, <2>3
  <1> QED BY <1>3, <1>12 DEF N, Removes

-----------------------------------------------------------------------------
(* The Delete key removes the selected rows. Rows go from the last selected  *)
(* one to the first, so that the rows before the last one removed are still  *)
(* where they were.                                                          *)

\* rows is what the removal of the positions in gone leaves of old: e[k] is
\* where row k was.
Leaves(old, gone, rows, e) ==
    /\ e \in [1 .. Len(rows) -> 1 .. Len(old)]
    /\ \A j, k \in 1 .. Len(rows) : j < k => e[j] < e[k]
    /\ \A k \in 1 .. Len(rows) : rows[k] = old[e[k]]
    /\ \A j \in 1 .. Len(old) :
           (\E k \in 1 .. Len(rows) : e[k] = j) <=> ~(j \in gone /\ old[j].path # NoPath)

InPlace(p, rows, e) == \A j \in 1 .. p : j \in 1 .. Len(rows) /\ e[j] = j

LEMMA RoundLeaves ==
    ASSUME NEW l \in ListType, NEW old \in Seq(Row), NEW gone, NEW e,
           NEW p \in 1 .. Len(old), Leaves(old, gone, l.rows, e), InPlace(p, l.rows, e)
    PROVE  \E f : /\ Leaves(old, gone \cup {p}, RemoveRow(l, p).rows, f)
                  /\ InPlace(p - 1, RemoveRow(l, p).rows, f)
  <1> DEFINE rows == l.rows
             N == Len(l.rows)
  <1>1. rows \in Seq(Row) /\ N \in Nat /\ DOMAIN rows = 1 .. N
    BY DEF ListType
  <1>2. p \in Nat /\ Len(old) \in Nat
    OBVIOUS
  <1>3. p \in 1 .. N /\ e[p] = p /\ rows[p] = old[p]
    BY <1>2 DEF InPlace, Leaves
  <1>4. CASE PassedOver(rows[p])
    <2>1. RemoveRow(l, p) = l /\ old[p].path = NoPath
      BY <1>3, <1>4 DEF RemoveRow, PassedOver
    <2>2. Leaves(old, gone \cup {p}, rows, e)
      BY <2>1 DEF Leaves
    <2>3. InPlace(p - 1, rows, e)
      BY <1>2 DEF InPlace
    <2> QED BY <2>1, <2>2, <2>3
  <1>5. CASE ~PassedOver(rows[p])
    <2> DEFINE new == RemoveAt(rows, p)
               was(k) == IF k < p THEN k ELSE k + 1
               f == [k \in 1 .. N - 1 |-> e[was(k)]]
    <2>1. RemoveRow(l, p).rows = new /\ old[p].path # NoPath
      BY <1>1, <1>3, <1>5 DEF RemoveRow, PassedOver, ListType
    <2>2. new \in Seq(Row) /\ Len(new) = N - 1
          /\ \A k \in 1 .. N - 1 : new[k] = rows[was(k)]
      BY <1>1, <1>3, Removed
    <2> HIDE DEF new
    <2>3. \A k \in 1 .. N - 1 : was(k) \in 1 .. N /\ was(k) # p
      BY <1>1, <1>2
    <2>4. \A j, k \in 1 .. N - 1 : j < k => was(j) < was(k)
      BY <1>1, <1>2
    <2>5. \A k \in 1 .. N : k # p => \E m \in 1 .. N - 1 : was(m) = k
      <3> SUFFICES ASSUME NEW k \in 1 .. N, k # p
                   PROVE  \E m \in 1 .. N - 1 : was(m) = k
        OBVIOUS
      <3>1. CASE k < p
        <4>1. k \in 1 .. N - 1 /\ was(k) = k
          BY <1>1, <1>3, <3>1
        <4> QED BY <4>1
      <3>2. CASE ~(k < p)
        <4>1. k - 1 \in 1 .. N - 1 /\ was(k - 1) = k
          BY <1>1, <1>2, <1>3, <3>2
        <4> QED BY <4>1
      <3> QED BY <3>1, <3>2
    <2> HIDE DEF was
    <2>6. f \in [1 .. N - 1 -> 1 .. Len(old)]
      BY <2>3 DEF Leaves
    <2>7. \A j, k \in 1 .. N - 1 : j < k => f[j] < f[k]
      BY <2>3, <2>4 DEF Leaves
    <2>8. \A k \in 1 .. N - 1 : new[k] = old[f[k]]
      BY <2>2, <2>3 DEF Leaves
    <2>9. ASSUME NEW j \in 1 .. Len(old)
          PROVE  (\E k \in 1 .. N - 1 : f[k] = j)
                     <=> ~(j \in gone \cup {p} /\ old[j].path # NoPath)
      <3>1. ASSUME NEW k \in 1 .. N - 1, f[k] = j
            PROVE  j # p /\ ~(j \in gone /\ old[j].path # NoPath)
        <4>1. was(k) \in 1 .. N /\ was(k) # p /\ e[was(k)] = j
          BY <2>3, <3>1
        <4>2. e[was(k)] # e[p]
          <5>1. was(k) < p \/ p < was(k)
            BY <4>1, <1>2
          <5>2. e[was(k)] \in 1 .. Len(old) /\ e[p] \in 1 .. Len(old)
            BY <4>1, <1>3 DEF Leaves
          <5>3. e[was(k)] < e[p] \/ e[p] < e[was(k)]
            BY <4>1, <5>1, <1>3 DEF Leaves
          <5> QED BY <5>2, <5>3, <1>2
        <4> QED BY <4>1, <4>2, <1>3 DEF Leaves
      <3>2. ASSUME ~(j \in gone \cup {p} /\ old[j].path # NoPath)
            PROVE  \E k \in 1 .. N - 1 : f[k] = j
        <4>1. PICK k \in 1 .. N : e[k] = j
          BY <3>2 DEF Leaves
        <4>2. k # p
          BY <3>2, <4>1, <2>1, <1>3
        <4>3. PICK m \in 1 .. N - 1 : was(m) = k
          BY <4>2, <2>5
        <4> QED BY <4>1, <4>3
      <3> QED BY <3>1, <3>2, <2>1
    <2>10. Leaves(old, gone \cup {p}, new, f)
      BY <2>2, <2>6, <2>7, <2>8, <2>9 DEF Leaves
    <2>11. InPlace(p - 1, new, f)
      <3> SUFFICES ASSUME NEW j \in 1 .. p - 1
                   PROVE  j \in 1 .. N - 1 /\ f[j] = j
        BY <2>2 DEF InPlace
      <3>1. j \in 1 .. p /\ j < p /\ j \in 1 .. N - 1
        BY <1>1, <1>2, <1>3
      <3>2. e[j] = j
        BY <3>1 DEF InPlace
      <3> QED BY <3>1, <3>2 DEF was
    <2> QED BY <2>1, <2>10, <2>11
  <1> QED BY <1>4, <1>5

LEMMA RemoveLeaves ==
    ASSUME NEW l \in ListType, NEW selected \in SUBSET (DOMAIN l.rows),
           NEW order \in SortedBy(RemovalOrder, selected)
    PROVE  \E e : Leaves(l.rows, selected, RemoveAll(l, order).rows, e)
  <1> DEFINE old == l.rows
             N == Len(order)
             gone(n) == {order[m] : m \in 1 .. n}
             upTo(n) == IF n = 0 THEN Len(old) ELSE order[n] - 1
  <1>1. old \in Seq(Row) /\ DOMAIN old = 1 .. Len(old) /\ Len(old) \in Nat
    BY DEF ListType
  <1>2. IsFiniteSet(selected)
    <2>1. IsFiniteSet(1 .. Len(old))
      BY <1>1, FS_Interval
    <2> QED BY <1>1, <2>1, FS_Subset
  <1>3. order \in SetToSeqs(selected)
        /\ \A m, n \in DOMAIN order : m < n => order[m] > order[n]
    BY DEF SortedBy, RemovalOrder
  <1>4. order \in Seq(selected) /\ DOMAIN order = 1 .. N /\ N \in Nat
        /\ \A x \in selected : \E n \in 1 .. N : order[n] = x
    BY <1>2, <1>3, Listing
  <1>5. \A n \in 1 .. N : order[n] \in selected /\ order[n] \in 1 .. Len(old)
    BY <1>1, <1>4
  <1>6. PICK a \in [0 .. N -> ListType] :
            /\ a[0] = l /\ RemoveAll(l, order) = a[N]
            /\ \A n \in 1 .. N : a[n] = RemoveRow(a[n - 1], order[n])
    <2>1. \E a : Removes(l, order, a)
      BY <1>4, RemoveRounds
    <2> QED BY <2>1 DEF Removes
  <1> HIDE DEF N
  <1> DEFINE Left(n) == \E e : /\ Leaves(old, gone(n), a[n].rows, e)
                               /\ InPlace(upTo(n), a[n].rows, e)
             P == {n \in 0 .. N : Left(n)}
  <1>7. 0 \in P
    <2> DEFINE e == [k \in 1 .. Len(old) |-> k]
    <2>1. gone(0) = {} /\ upTo(0) = Len(old) /\ a[0].rows = old
      BY <1>6
    <2>2. Leaves(old, {}, old, e) /\ InPlace(Len(old), old, e)
      BY <1>1 DEF Leaves, InPlace
    <2>3. Left(0)
      BY <2>1, <2>2
    <2> HIDE DEF Left
    <2> QED BY <2>3, <1>4
  <1>8. ASSUME NEW n \in 1 .. N, n - 1 \in P
        PROVE  n \in P
    <2>1. PICK e : /\ Leaves(old, gone(n - 1), a[n - 1].rows, e)
                   /\ InPlace(upTo(n - 1), a[n - 1].rows, e)
      BY <1>8
    <2>2. a[n - 1] \in ListType /\ a[n] = RemoveRow(a[n - 1], order[n])
      <3>1. n - 1 \in 0 .. N
        BY <1>4
      <3> QED BY <1>6, <3>1
    <2>3. gone(n) = gone(n - 1) \cup {order[n]}
      <3>1. \A m : m \in 1 .. n <=> (m \in 1 .. n - 1 \/ m = n)
        OBVIOUS
      <3> QED BY <3>1
    <2>4. order[n] <= upTo(n - 1) /\ order[n] \in Nat /\ upTo(n - 1) \in Int
      <3>1. CASE n = 1
        BY <3>1, <1>1, <1>5
      <3>2. CASE n # 1
        <4>1. n - 1 \in 1 .. N /\ n - 1 < n
          BY <3>2, <1>4
        <4>2. order[n - 1] > order[n]
          BY <4>1, <1>3, <1>4
        <4> QED BY <4>1, <4>2, <3>2, <1>1, <1>5
      <3> QED BY <3>1, <3>2
    <2>5. InPlace(order[n], a[n - 1].rows, e)
      BY <2>1, <2>4 DEF InPlace
    <2>6. order[n] \in 1 .. Len(old)
      BY <1>5
    <2>7. PICK f : /\ Leaves(old, gone(n - 1) \cup {order[n]}, a[n].rows, f)
                   /\ InPlace(order[n] - 1, a[n].rows, f)
      <3> HIDE DEF gone, old
      <3> QED BY <1>1, <2>1, <2>2, <2>5, <2>6, RoundLeaves
    <2>8. upTo(n) = order[n] - 1
      OBVIOUS
    <2>9. Left(n)
      <3> HIDE DEF gone, upTo, old
      <3> QED BY <2>3, <2>7, <2>8
    <2> HIDE DEF Left
    <2> QED BY <2>9, <1>4
  <1>9. N \in P
    <2>1. P \in SUBSET (0 .. N)
      OBVIOUS
    <2> HIDE DEF P
    <2>2. P = 0 .. N
      BY <1>4, <1>7, <1>8, <2>1, LoopKeeps
    <2> QED BY <2>2, <1>4
  <1>10. gone(N) = selected
    BY <1>4, <1>5
  <1> HIDE DEF gone, upTo
  <1>11. PICK e : Leaves(old, selected, a[N].rows, e)
    BY <1>9, <1>10
  <1> QED BY <1>6, <1>11

\* The positions e that Leaves speaks of are those of the rows that stay,
\* in order.
Remain(old, selected, rows) ==
    LET goes(i) == i \in selected /\ old[i].path # NoPath
    IN  \E stays \in SortedBy(<, {i \in DOMAIN old : ~goes(i)}) :
            rows = [n \in DOMAIN stays |-> old[stays[n]]]

LEMMA StaysInOrder ==
    ASSUME NEW old \in Seq(Row), NEW selected, NEW rows \in Seq(Row), NEW e,
           Leaves(old, selected, rows, e)
    PROVE  Remain(old, selected, rows)
  <1> DEFINE goes(i) == i \in selected /\ old[i].path # NoPath
             T == {i \in DOMAIN old : ~goes(i)}
             N == Len(rows)
  <1>1. DOMAIN old = 1 .. Len(old) /\ N \in Nat /\ rows = [n \in 1 .. N |-> rows[n]]
    OBVIOUS
  <1>2. /\ e \in [1 .. N -> 1 .. Len(old)] /\ DOMAIN e = 1 .. N
        /\ \A j, k \in 1 .. N : j < k => e[j] < e[k]
        /\ \A k \in 1 .. N : rows[k] = old[e[k]]
        /\ \A j \in 1 .. Len(old) : (\E k \in 1 .. N : e[k] = j) <=> ~goes(j)
    BY DEF Leaves
  <1>3. e \in [1 .. N -> T] /\ \A x \in T : \E k \in 1 .. N : e[k] = x
    BY <1>1, <1>2
  <1>4. \A j, k \in 1 .. N : j # k => e[j] # e[k]
    <2> SUFFICES ASSUME NEW j \in 1 .. N, NEW k \in 1 .. N, j # k, e[j] = e[k]
                 PROVE  FALSE
      OBVIOUS
    <2>1. j < k \/ k < j
      BY <1>1
    <2>2. e[j] \in Int /\ e[k] \in Int
      BY <1>2
    <2>3. e[j] < e[k] \/ e[k] < e[j]
      BY <1>2, <2>1
    <2> QED BY <2>2, <2>3
  <1> HIDE DEF T, N
  <1>5. Cardinality(T) = N
    <2>1. IsFiniteSet(1 .. N) /\ Cardinality(1 .. N) = N
      <3>1. N \in Nat
        BY <1>1
      <3> QED BY ONLY <3>1, FS_Interval
    <2>2. e \in Bijection(1 .. N, T)
      BY <1>3, <1>4 DEF Bijection, Injection, Surjection, IsInjective
    <2>3. ExistsBijection(1 .. N, T)
      BY <2>2 DEF ExistsBijection
    <2> QED BY <2>1, <2>3, FS_Bijection
  <1>6. e \in SetToSeqs(T)
    BY <1>3, <1>4, <1>5 DEF SetToSeqs
  <1>7. e \in SortedBy(<, T)
    BY <1>2, <1>6 DEF SortedBy
  <1>8. rows = [n \in DOMAIN e |-> old[e[n]]]
    BY <1>1, <1>2
  <1> QED BY <1>7, <1>8 DEF T, Remain, SortedBy

-----------------------------------------------------------------------------
(* The type of the list.                                                     *)

\* A selection in a tree view is one of finitely many positions.
LEMMA OrderOf ==
    ASSUME NEW S \in SUBSET Nat, IsFiniteSet(S),
           NEW order \in SortedBy(RemovalOrder, S)
    PROVE  order \in Seq(Nat)
  <1>1. order \in SetToSeqs(S)
    BY DEF SortedBy
  <1>2. order \in Seq(S)
    BY <1>1, Listing
  <1> QED BY <1>2, SeqMonotonic

LEMMA NamesOf ==
    ASSUME NEW S \in SUBSET Paths, NEW names \in SetToSeqs(S)
    PROVE  /\ names \in Seq(Paths) /\ ToSet(names) = S
           /\ \A n \in 1 .. Len(names) : names[n] \in S
  <1>1. IsFiniteSet(S)
    BY FileListAssumption, FS_Subset
  <1>2. names \in Seq(S) /\ DOMAIN names = 1 .. Len(names)
        /\ \A x \in S : \E n \in 1 .. Len(names) : names[n] = x
    BY <1>1, Listing
  <1>3. \A n \in 1 .. Len(names) : names[n] \in S
    BY <1>2, ElementOfSeq
  <1>4. ToSet(names) = S
    BY <1>2, <1>3 DEF ToSet
  <1>5. names \in Seq(Paths)
    BY <1>2, SeqMonotonic
  <1> QED BY <1>3, <1>4, <1>5

\* The next-state relation, with what its steps do to the list.
LEMMA Steps ==
    ASSUME list \in ListType, [Next]_vars
    PROVE  \/ \E S \in SUBSET Paths : \E names \in SetToSeqs(S) :
                  \E out \in [S -> Outcomes] : AddFiles(names, out)
           \/ \E order \in Seq(Nat) :
                  list' = RemoveAll(list, order) /\ UNCHANGED failed
           \/ Sorted \/ Activate \/ UNCHANGED vars
  <1>1. CASE \E names \in UNION {SetToSeqs(S) : S \in SUBSET Paths \ {{}}} :
                 \E out \in [ToSet(names) -> Outcomes] : AddFiles(names, out)
    <2>1. PICK names \in UNION {SetToSeqs(S) : S \in SUBSET Paths \ {{}}} :
              \E out \in [ToSet(names) -> Outcomes] : AddFiles(names, out)
      BY <1>1
    <2>2. PICK S \in SUBSET Paths : names \in SetToSeqs(S)
      BY <2>1
    <2>3. ToSet(names) = S
      BY <2>2, NamesOf
    <2> QED BY <2>1, <2>2, <2>3
  <1>2. CASE DeletePressed
    <2>1. PICK shown \in {list.rows} \cup ToSet(list.before) :
              \E selected \in SUBSET (DOMAIN shown) : RemoveSelected(selected)
      BY <1>2 DEF DeletePressed
    <2>2. PICK selected \in SUBSET (DOMAIN shown) : RemoveSelected(selected)
      BY <2>1
    <2>3. shown \in Seq(Row)
      <3>1. list.rows \in Seq(Row) /\ list.before \in Seq(Seq(Row))
        BY DEF ListType
      <3>2. \A x \in ToSet(list.before) : x \in Seq(Row)
        BY <3>1 DEF ToSet
      <3> QED BY <2>1, <3>1, <3>2
    <2>4. IsFiniteSet(selected) /\ selected \in SUBSET Nat
      <3>1. DOMAIN shown = 1 .. Len(shown) /\ Len(shown) \in Nat
        BY <2>3
      <3>2. IsFiniteSet(1 .. Len(shown))
        BY <3>1, FS_Interval
      <3> QED BY <2>2, <3>1, <3>2, FS_Subset
    <2>5. PICK order \in SortedBy(RemovalOrder, selected) :
              list' = RemoveAll(list, order) /\ UNCHANGED failed
      BY <2>2 DEF RemoveSelected
    <2>6. order \in Seq(Nat)
      BY <2>4, OrderOf
    <2> QED BY <2>5, <2>6
  <1> QED BY <1>1, <1>2 DEF Next

LEMMA SortedRows ==
    ASSUME list \in ListType, Sorted
    PROVE  \E e : /\ list' = [list EXCEPT !.rows = [i \in DOMAIN list.rows |->
                                                       list.rows[e[i]]]]
                  /\ e \in [1 .. Len(list.rows) -> 1 .. Len(list.rows)]
                  /\ \A i, j \in 1 .. Len(list.rows) : e[i] = e[j] => i = j
                  /\ \A i \in 1 .. Len(list.rows) :
                         \E j \in 1 .. Len(list.rows) : e[j] = i
  <1> DEFINE N == Len(list.rows)
  <1>1. DOMAIN list.rows = 1 .. N /\ N \in Nat
    BY DEF ListType
  <1>2. PICK e \in SetToSeqs(1 .. N) :
            list' = [list EXCEPT !.rows = [i \in DOMAIN list.rows |-> list.rows[e[i]]]]
    BY <1>1 DEF Sorted
  <1>3. IsFiniteSet(1 .. N) /\ Cardinality(1 .. N) = N
    BY <1>1, FS_Interval
  <1> HIDE DEF N
  <1>4. /\ e \in Seq(1 .. N) /\ DOMAIN e = 1 .. N
        /\ \A i, j \in 1 .. N : e[i] = e[j] => i = j
        /\ \A i \in 1 .. N : \E j \in 1 .. N : e[j] = i
    BY <1>2, <1>3, Listing
  <1>5. e \in [1 .. N -> 1 .. N]
    <2>1. e \in [1 .. Cardinality(1 .. N) -> 1 .. N]
      BY DEF SetToSeqs
    <2> QED BY <1>3, <2>1
  <1> QED BY <1>2, <1>4, <1>5 DEF N

LEMMA ListTypeKept ==
    ASSUME list \in ListType, [Next]_vars
    PROVE  list' \in ListType
  <1>1. CASE \E S \in SUBSET Paths : \E names \in SetToSeqs(S) :
                 \E out \in [S -> Outcomes] : AddFiles(names, out)
    <2>1. PICK S \in SUBSET Paths :
              \E names \in SetToSeqs(S) : \E out \in [S -> Outcomes] : AddFiles(names, out)
      BY <1>1
    <2>2. PICK names \in SetToSeqs(S), out \in [S -> Outcomes] : AddFiles(names, out)
      BY <2>1
    <2>3. names \in Seq(Paths) /\ \A n \in 1 .. Len(names) : out[names[n]] \in Outcomes
      BY NamesOf
    <2>4. PICK a : Adds(list, names, out, a)
      BY <2>3, AddRounds
    <2>5. Len(names) \in 0 .. Len(names)
      BY <2>3
    <2> QED BY <2>2, <2>4, <2>5 DEF AddFiles, Adds
  <1>2. CASE \E order \in Seq(Nat) : list' = RemoveAll(list, order)
    <2>1. PICK order \in Seq(Nat) : list' = RemoveAll(list, order)
      BY <1>2
    <2>2. PICK a : Removes(list, order, a)
      BY RemoveRounds
    <2>3. Len(order) \in 0 .. Len(order)
      OBVIOUS
    <2> QED BY <2>1, <2>2, <2>3 DEF Removes
  <1>3. CASE Sorted
    <2>1. PICK e : /\ list' = [list EXCEPT !.rows = [i \in DOMAIN list.rows |->
                                                        list.rows[e[i]]]]
                   /\ e \in [1 .. Len(list.rows) -> 1 .. Len(list.rows)]
      BY <1>3, SortedRows
    <2>2. list.rows \in Seq(Row)
      BY DEF ListType
    <2>3. [i \in DOMAIN list.rows |-> list.rows[e[i]]] \in Seq(Row)
      BY <2>1, <2>2
    <2> QED BY <2>1, <2>3 DEF ListType
  <1>4. CASE Activate
    <2>1. list' = [list EXCEPT !.before = Append(list.before, list.rows), !.rows = <<>>]
      BY <1>4 DEF Activate, Activated
    <2>2. Append(list.before, list.rows) \in Seq(Seq(Row)) /\ <<>> \in Seq(Row)
      <3>1. list.before \in Seq(Seq(Row)) /\ list.rows \in Seq(Row)
        BY DEF ListType
      <3> QED BY <3>1, AppendProperties, EmptySeq
    <2> QED BY <2>1, <2>2 DEF ListType
  <1>5. CASE UNCHANGED vars
    BY <1>5 DEF vars
  <1> QED BY <1>1, <1>2, <1>3, <1>4, <1>5, Steps

LEMMA ListTyped == Spec => [](list \in ListType)
  <1>1. Init => list \in ListType
    BY EmptySeq DEF Init, ListType
  <1>2. list \in ListType /\ [Next]_vars => (list \in ListType)'
    BY ListTypeKept
  <1> QED BY <1>1, <1>2, PTL DEF Spec

\* removeSelectedFiles removes the selected rows that have a path and leaves
\* the others, in their order (ui.go:472), for any number of rows.
THEOREM SelectedRemoved == Spec => RemovesSelected
  <1> DEFINE Exact == \A selected \in SUBSET DOMAIN list.rows :
                 RemoveSelected(selected) =>
                     LET goes(i) == i \in selected /\ list.rows[i].path # NoPath
                     IN  \E stays \in SortedBy(<, {i \in DOMAIN list.rows : ~goes(i)}) :
                             list'.rows = [n \in DOMAIN stays |-> list.rows[stays[n]]]
  <1>1. ASSUME list \in ListType, [Next]_vars
        PROVE  Exact
    <2> SUFFICES ASSUME NEW selected \in SUBSET DOMAIN list.rows,
                        RemoveSelected(selected)
                 PROVE  Remain(list.rows, selected, list'.rows)
      BY DEF Remain, SortedBy
    <2>1. PICK order \in SortedBy(RemovalOrder, selected) : list' = RemoveAll(list, order)
      BY DEF RemoveSelected
    <2>2. PICK e : Leaves(list.rows, selected, list'.rows, e)
      BY <1>1, <2>1, RemoveLeaves
    <2>3. list.rows \in Seq(Row) /\ list'.rows \in Seq(Row)
      BY <1>1, ListTypeKept DEF ListType
    <2> QED BY <2>2, <2>3, StaysInOrder
  <1>2. list \in ListType /\ [Next]_vars => [Exact]_vars
    BY <1>1
  <1> QED BY <1>2, ListTyped, PTL DEF Spec, RemovesSelected

-----------------------------------------------------------------------------
(* The rows of all windows and ui.fileMap. No file is shown twice, a file    *)
(* that is shown is in the map, and one in the map is shown unless its       *)
(* addition failed. The second is what makes the first inductive: addFiles   *)
(* asks the map, and nothing else, whether a file is listed.                 *)

StoresOf(l) == Append(l.before, l.rows)
Shows(l, w, k) ==
    /\ w \in DOMAIN StoresOf(l) /\ k \in DOMAIN StoresOf(l)[w]
    /\ StoresOf(l)[w][k].path # NoPath
RowIn(l, w, k)  == StoresOf(l)[w][k]
FileAt(l, w, k) == RowIn(l, w, k).path

ShownOnce(l) ==
    \A v, w, j, k : Shows(l, v, j) /\ Shows(l, w, k) /\ FileAt(l, v, j) = FileAt(l, w, k)
                        => v = w /\ j = k
ShownIsMapped(l) == \A w, k : Shows(l, w, k) => FileAt(l, w, k) \in l.map
MappedIsShown(l, bad) ==
    \A p \in l.map : p \in bad \/ \E w, k : Shows(l, w, k) /\ FileAt(l, w, k) = p

Tidy(l, bad) == ShownOnce(l) /\ ShownIsMapped(l) /\ MappedIsShown(l, bad)

LEMMA StoreIs ==
    ASSUME NEW l \in ListType
    PROVE  /\ Len(l.before) \in Nat /\ Len(l.rows) \in Nat
           /\ DOMAIN l.rows = 1 .. Len(l.rows)
           /\ DOMAIN StoresOf(l) = 1 .. Len(l.before) + 1
           /\ StoresOf(l)[Len(l.before) + 1] = l.rows
           /\ \A w \in 1 .. Len(l.before) : StoresOf(l)[w] = l.before[w]
  <1>1. l.before \in Seq(Seq(Row)) /\ l.rows \in Seq(Row)
    BY DEF ListType
  <1>2. /\ StoresOf(l) \in Seq(Seq(Row)) /\ Len(StoresOf(l)) = Len(l.before) + 1
        /\ \A w \in 1 .. Len(l.before) : StoresOf(l)[w] = l.before[w]
        /\ StoresOf(l)[Len(l.before) + 1] = l.rows
    BY <1>1, AppendProperties DEF StoresOf
  <1> QED BY <1>1, <1>2

\* The rows of l2 that show a file are rows of l: k was at e[k], in a list of
\* the same windows.
Moved(l, l2, e) ==
    /\ l2.before = l.before
    /\ \A k \in 1 .. Len(l2.rows) : l2.rows[k].path # NoPath =>
           e[k] \in 1 .. Len(l.rows) /\ l2.rows[k] = l.rows[e[k]]
    /\ \A j, k \in 1 .. Len(l2.rows) :
           l2.rows[j].path # NoPath /\ l2.rows[k].path # NoPath /\ e[j] = e[k] => j = k
Was(l, e, w, k) == IF w = Len(l.before) + 1 THEN e[k] ELSE k

LEMMA MovedShows ==
    ASSUME NEW l \in ListType, NEW l2 \in ListType, NEW e, Moved(l, l2, e)
    PROVE  /\ \A w, k : Shows(l2, w, k) =>
                  /\ Shows(l, w, Was(l, e, w, k))
                  /\ FileAt(l2, w, k) = FileAt(l, w, Was(l, e, w, k))
                  /\ RowIn(l2, w, k) = RowIn(l, w, Was(l, e, w, k))
           /\ ShownOnce(l) => ShownOnce(l2)
  <1> DEFINE B == Len(l.before)
  <1>1. B \in Nat /\ l2.before = l.before
    BY StoreIs DEF Moved
  <1>2. /\ DOMAIN StoresOf(l) = 1 .. B + 1 /\ DOMAIN StoresOf(l2) = 1 .. B + 1
        /\ StoresOf(l)[B + 1] = l.rows /\ StoresOf(l2)[B + 1] = l2.rows
        /\ DOMAIN l.rows = 1 .. Len(l.rows) /\ DOMAIN l2.rows = 1 .. Len(l2.rows)
        /\ \A w \in 1 .. B : StoresOf(l)[w] = StoresOf(l2)[w]
    BY <1>1, StoreIs
  <1> HIDE DEF B
  <1>3. ASSUME NEW w, NEW k, Shows(l2, w, k)
        PROVE  /\ Shows(l, w, Was(l, e, w, k))
               /\ FileAt(l2, w, k) = FileAt(l, w, Was(l, e, w, k))
               /\ RowIn(l2, w, k) = RowIn(l, w, Was(l, e, w, k))
    <2>1. CASE w = B + 1
      <3>1. k \in 1 .. Len(l2.rows) /\ l2.rows[k].path # NoPath
        BY <1>2, <1>3, <2>1 DEF Shows
      <3>2. e[k] \in 1 .. Len(l.rows) /\ l2.rows[k] = l.rows[e[k]]
        BY <3>1 DEF Moved
      <3>3. Was(l, e, w, k) = e[k]
        BY <2>1 DEF Was, B
      <3>4. w \in 1 .. B + 1
        BY <1>1, <2>1
      <3> QED BY <3>1, <3>2, <3>3, <3>4, <1>2, <2>1 DEF Shows, FileAt, RowIn
    <2>2. CASE w # B + 1
      <3>1. w \in 1 .. B + 1
        BY <1>2, <1>3 DEF Shows
      <3>2. w \in 1 .. B
        BY <3>1, <2>2, <1>1
      <3>3. Was(l, e, w, k) = k
        BY <2>2 DEF Was, B
      <3> QED BY <1>2, <1>3, <3>1, <3>2, <3>3 DEF Shows, FileAt, RowIn
    <2> QED BY <2>1, <2>2
  <1>4. ASSUME ShownOnce(l),
               NEW v, NEW w, NEW j, NEW k, Shows(l2, v, j), Shows(l2, w, k),
               FileAt(l2, v, j) = FileAt(l2, w, k)
        PROVE  v = w /\ j = k
    <2>1. v = w /\ Was(l, e, v, j) = Was(l, e, w, k)
      BY <1>3, <1>4 DEF ShownOnce
    <2>2. CASE w = B + 1
      <3>1. j \in 1 .. Len(l2.rows) /\ l2.rows[j].path # NoPath
            /\ k \in 1 .. Len(l2.rows) /\ l2.rows[k].path # NoPath
        BY <1>2, <1>4, <2>1, <2>2 DEF Shows
      <3>2. e[j] = e[k]
        BY <2>1, <2>2 DEF Was, B
      <3> QED BY <2>1, <3>1, <3>2 DEF Moved
    <2>3. CASE w # B + 1
      BY <2>1, <2>3 DEF Was, B
    <2> QED BY <2>2, <2>3
  <1> QED BY <1>3, <1>4 DEF ShownOnce

\* The rows that stay when row i is removed: k is where e[k] was.
Closes(l, l2, i, e) ==
    /\ Moved(l, l2, e) /\ Len(l2.rows) = Len(l.rows) - 1
    /\ \A k \in 1 .. Len(l.rows) - 1 : e[k] \in 1 .. Len(l.rows) /\ e[k] # i
    /\ \A k \in 1 .. Len(l.rows) : k # i => \E m \in 1 .. Len(l.rows) - 1 : e[m] = k
    /\ \A k \in 1 .. Len(l.rows) - 1 : l2.rows[k] = l.rows[e[k]]

LEMMA RemoveMoves ==
    ASSUME NEW l \in ListType, NEW i \in DOMAIN l.rows, ~PassedOver(l.rows[i])
    PROVE  \E e : Closes(l, RemoveRow(l, i), i, e)
  <1> DEFINE l2 == RemoveRow(l, i)
             N == Len(l.rows)
             B == Len(l.before)
             p == l.rows[i].path
             e == [k \in 1 .. N - 1 |-> IF k < i THEN k ELSE k + 1]
  <1>1. /\ l.rows \in Seq(Row) /\ N \in Nat /\ B \in Nat /\ i \in 1 .. N
        /\ DOMAIN l.rows = 1 .. N /\ p # NoPath
    BY StoreIs DEF ListType, PassedOver
  <1>2. l2 \in ListType
    BY RemoveRowTyped
  <1>3. /\ l2.rows = RemoveAt(l.rows, i) /\ l2.before = l.before
        /\ l2.map = l.map \ {p}
    BY DEF RemoveRow, Forgotten, ListType
  <1>4. Len(l2.rows) = N - 1
        /\ \A k \in 1 .. N - 1 : l2.rows[k] = l.rows[IF k < i THEN k ELSE k + 1]
    <2>1. l.rows \in Seq(Row) /\ i \in 1 .. Len(l.rows)
      BY <1>1
    <2>2. /\ Len(RemoveAt(l.rows, i)) = Len(l.rows) - 1
          /\ \A k \in 1 .. Len(l.rows) - 1 :
                 RemoveAt(l.rows, i)[k] = l.rows[IF k < i THEN k ELSE k + 1]
      BY ONLY <2>1, Removed
    <2> QED BY <1>3, <2>2
  <1> HIDE DEF l2, N, B, p
  <1>5. \A k \in 1 .. N - 1 : e[k] \in 1 .. N /\ e[k] # i
    BY <1>1
  <1>6. \A j, k \in 1 .. N - 1 : e[j] = e[k] => j = k
    BY <1>1
  <1>7. \A k \in 1 .. N : k # i => \E m \in 1 .. N - 1 : e[m] = k
    <2> SUFFICES ASSUME NEW k \in 1 .. N, k # i
                 PROVE  \E m \in 1 .. N - 1 : e[m] = k
      OBVIOUS
    <2>1. CASE k < i
      <3>1. k \in 1 .. N - 1 /\ e[k] = k
        BY <1>1, <2>1
      <3> QED BY <3>1
    <2>2. CASE ~(k < i)
      <3>1. k - 1 \in 1 .. N - 1 /\ e[k - 1] = k
        BY <1>1, <2>2
      <3> QED BY <3>1
    <2> QED BY <2>1, <2>2
  <1>8. \A k \in 1 .. N - 1 : l2.rows[k] = l.rows[e[k]]
    BY <1>4
  <1> HIDE DEF e
  <1>9. Moved(l, l2, e)
    BY <1>3, <1>4, <1>5, <1>6, <1>8 DEF Moved, N
  <1>10. Closes(l, l2, i, e)
    BY <1>4, <1>5, <1>7, <1>8, <1>9 DEF Closes, N
  <1> QED BY <1>10 DEF l2

\* One round of removeSelectedFiles.
LEMMA RemoveTidy ==
    ASSUME NEW l \in ListType, NEW bad, NEW i, Tidy(l, bad)
    PROVE  Tidy(RemoveRow(l, i), bad)
  <1>1. CASE i \notin DOMAIN l.rows \/ PassedOver(l.rows[i])
    BY <1>1 DEF RemoveRow
  <1>2. CASE ~(i \notin DOMAIN l.rows \/ PassedOver(l.rows[i]))
    <2> DEFINE l2 == RemoveRow(l, i)
               N == Len(l.rows)
               B == Len(l.before)
               p == l.rows[i].path
    <2>1. N \in Nat /\ B \in Nat /\ i \in 1 .. N /\ DOMAIN l.rows = 1 .. N /\ p # NoPath
      BY <1>2, StoreIs DEF PassedOver
    <2>2. l2 \in ListType
      BY RemoveRowTyped
    <2>3. l2.before = l.before /\ l2.map = l.map \ {p}
      BY <1>2 DEF RemoveRow, Forgotten, ListType
    <2>4. PICK e : Closes(l, l2, i, e)
      BY <1>2, RemoveMoves
    <2> HIDE DEF l2, N, B, p
    <2>5. Len(l2.rows) = N - 1 /\ \A k \in 1 .. N - 1 : e[k] \in 1 .. N /\ e[k] # i
      BY <2>4 DEF Closes, N
    <2>7. \A k \in 1 .. N : k # i => \E m \in 1 .. N - 1 : e[m] = k
      BY <2>4 DEF Closes, N
    <2>8. \A k \in 1 .. N - 1 : l2.rows[k] = l.rows[e[k]]
      BY <2>4 DEF Closes, N
    <2>9. Moved(l, l2, e)
      BY <2>4 DEF Closes
    <2>10. \A w, k : Shows(l2, w, k) =>
               Shows(l, w, Was(l, e, w, k)) /\ FileAt(l2, w, k) = FileAt(l, w, Was(l, e, w, k))
      BY <2>2, <2>9, MovedShows
    <2>11. ShownOnce(l2)
      BY <2>2, <2>9, MovedShows DEF Tidy
    <2>12. /\ DOMAIN StoresOf(l) = 1 .. B + 1 /\ DOMAIN StoresOf(l2) = 1 .. B + 1
           /\ StoresOf(l)[B + 1] = l.rows /\ StoresOf(l2)[B + 1] = l2.rows
           /\ DOMAIN l2.rows = 1 .. N - 1
           /\ \A w \in 1 .. B : StoresOf(l)[w] = StoresOf(l2)[w]
      BY <2>2, <2>3, <2>5, StoreIs DEF B
    <2>13. Shows(l, B + 1, i) /\ FileAt(l, B + 1, i) = p
      BY <2>1, <2>12 DEF Shows, FileAt, RowIn, p
    <2>14. ASSUME NEW w, NEW k, Shows(l2, w, k)
           PROVE  FileAt(l2, w, k) \in l2.map
      <3>1. FileAt(l2, w, k) \in l.map
        BY <2>10, <2>14 DEF Tidy, ShownIsMapped
      <3>2. FileAt(l2, w, k) # p
        <4>1. SUFFICES ASSUME FileAt(l2, w, k) = p PROVE FALSE
          OBVIOUS
        <4>2. w = B + 1 /\ Was(l, e, w, k) = i
          BY <2>10, <2>13, <2>14, <4>1 DEF Tidy, ShownOnce
        <4>3. k \in 1 .. N - 1 /\ e[k] = i
          BY <2>12, <2>14, <4>2 DEF Shows, Was, B
        <4> QED BY <2>5, <4>3
      <3> QED BY <2>3, <3>1, <3>2
    <2>15. ASSUME NEW q \in l2.map, q \notin bad
           PROVE  \E w, k : Shows(l2, w, k) /\ FileAt(l2, w, k) = q
      <3>1. q \in l.map /\ q # p
        BY <2>3
      <3>2. PICK w, k : Shows(l, w, k) /\ FileAt(l, w, k) = q
        BY <2>15, <3>1 DEF Tidy, MappedIsShown
      <3>3. CASE w = B + 1
        <4>1. k \in 1 .. N /\ k # i /\ w \in 1 .. B + 1
          BY <2>1, <2>12, <2>13, <3>1, <3>2, <3>3 DEF Shows
        <4>2. PICK m \in 1 .. N - 1 : e[m] = k
          BY <2>7, <4>1
        <4>3. Shows(l2, w, m) /\ FileAt(l2, w, m) = q
          BY <2>8, <2>12, <3>2, <3>3, <4>1, <4>2 DEF Shows, FileAt, RowIn
        <4> QED BY <4>3
      <3>4. CASE w # B + 1
        <4>1. w \in 1 .. B + 1
          BY <2>12, <3>2 DEF Shows
        <4>2. w \in 1 .. B
          BY <4>1, <3>4, <2>1
        <4>3. Shows(l2, w, k) /\ FileAt(l2, w, k) = q
          BY <2>12, <3>2, <4>1, <4>2 DEF Shows, FileAt, RowIn
        <4> QED BY <4>3
      <3> QED BY <3>3, <3>4
    <2>16. Tidy(l2, bad)
      BY <2>11, <2>14, <2>15 DEF Tidy, ShownIsMapped, MappedIsShown
    <2> QED BY <2>16 DEF l2
  <1> QED BY <1>1, <1>2

\* What one round of addFilesToListStore does with a file that is not in the
\* map: it may fail, leave a row without a path, or list the file.
AddsRow(l, l2, p, o) ==
    /\ l2.map = l.map \cup {p} /\ l2.before = l.before
    /\ o \notin {NoStat, NotSet} => l2.count = l.count + 1 /\ l2.size = l.size + o
    /\ o \in {NoStat, NotSet} => l2.count = l.count /\ l2.size = l.size
    /\ \/ o = NoStat /\ l2.rows = l.rows
       \/ o = NotSet /\ \E r : r.path = NoPath /\ l2.rows = Append(l.rows, r)
       \/ /\ o \notin {NoStat, NotSet}
          /\ l2.rows = Append(l.rows, [path |-> p, size |-> o])

LEMMA AddCases ==
    ASSUME NEW l \in ListType, NEW p \in Paths, NEW o \in Outcomes, ~Known(l, p)
    PROVE  AddsRow(l, AddFile(l, p, o), p, o)
  <1> DEFINE seen == [l EXCEPT !.map = @ \cup {p}]
             r == NewRow(p, o)
             grown == [seen EXCEPT !.rows = Append(@, r)]
  <1>1. /\ seen.map = l.map \cup {p} /\ seen.before = l.before /\ seen.rows = l.rows
        /\ grown.map = l.map \cup {p} /\ grown.before = l.before
        /\ grown.rows = Append(l.rows, r)
        /\ seen.count = l.count /\ seen.size = l.size
        /\ grown.count = l.count /\ grown.size = l.size
    BY DEF ListType
  <1>2. CASE o = NoStat
    <2>1. AddFile(l, p, o) = seen
      BY <1>2 DEF AddFile
    <2> QED BY <1>1, <1>2, <2>1 DEF NoStat, NotSet, AddsRow
  <1>3. CASE o # NoStat
    <2>1. AddFile(l, p, o) = Counted(grown, o)
      BY <1>3 DEF AddFile
    <2>2. /\ Counted(grown, o).map = grown.map /\ Counted(grown, o).before = grown.before
          /\ Counted(grown, o).rows = grown.rows
          /\ o = NotSet => /\ Counted(grown, o).count = grown.count
                           /\ Counted(grown, o).size = grown.size
          /\ o # NotSet => /\ Counted(grown, o).count = grown.count + 1
                           /\ Counted(grown, o).size = grown.size + o
      BY DEF Counted, ListType
    <2>3. o = NotSet => r.path = NoPath
      BY DEF NewRow
    <2>4. o # NotSet => r = [path |-> p, size |-> o]
      BY DEF NewRow
    <2> HIDE DEF grown, seen, r
    <2>5. /\ AddFile(l, p, o).rows = Append(l.rows, r)
          /\ AddFile(l, p, o).map = l.map \cup {p} /\ AddFile(l, p, o).before = l.before
          /\ o = NotSet => /\ AddFile(l, p, o).count = l.count
                           /\ AddFile(l, p, o).size = l.size
          /\ o # NotSet => /\ AddFile(l, p, o).count = l.count + 1
                           /\ AddFile(l, p, o).size = l.size + o
      BY <1>1, <2>1, <2>2
    <2>6. CASE o = NotSet
      BY <2>3, <2>5, <2>6 DEF NoStat, NotSet, AddsRow
    <2>7. CASE o # NotSet
      BY <1>3, <2>4, <2>5, <2>7 DEF AddsRow
    <2> QED BY <2>6, <2>7
  <1> QED BY <1>2, <1>3

\* A round that is not passed over shows what was shown, and besides, unless it
\* fails, p in a new last row; that row is counted.
OneMore(l, l2, p, o) ==
    LET w == Len(l.before) + 1
        k == Len(l.rows) + 1
        listed == o \notin {NoStat, NotSet}
    IN  /\ \A v, j : Shows(l, v, j) => Shows(l2, v, j) /\ RowIn(l2, v, j) = RowIn(l, v, j)
        /\ \A v, j : Shows(l2, v, j) /\ ~(v = w /\ j = k) => Shows(l, v, j)
        /\ ~Shows(l, w, k) /\ (Shows(l2, w, k) <=> listed)
        /\ listed => /\ RowIn(l2, w, k) = [path |-> p, size |-> o]
                     /\ l2.count = l.count + 1 /\ l2.size = l.size + o
        /\ ~listed => l2.count = l.count /\ l2.size = l.size

LEMMA AddShows ==
    ASSUME NEW l \in ListType, NEW p \in Paths, NEW o \in Outcomes, ~Known(l, p)
    PROVE  OneMore(l, AddFile(l, p, o), p, o)
  <1> DEFINE l2 == AddFile(l, p, o)
             N == Len(l.rows)
             B == Len(l.before)
  <1>1. l.rows \in Seq(Row) /\ N \in Nat /\ B \in Nat /\ DOMAIN l.rows = 1 .. N
    BY StoreIs DEF ListType
  <1>2. l2 \in ListType
    BY AddFileTyped
  <1>3. /\ l2.map = l.map \cup {p} /\ l2.before = l.before
        /\ o \notin {NoStat, NotSet} => l2.count = l.count + 1 /\ l2.size = l.size + o
        /\ o \in {NoStat, NotSet} => l2.count = l.count /\ l2.size = l.size
        /\ \/ o = NoStat /\ l2.rows = l.rows
           \/ o = NotSet /\ \E r : r.path = NoPath /\ l2.rows = Append(l.rows, r)
           \/ o \notin {NoStat, NotSet} /\ l2.rows = Append(l.rows, [path |-> p, size |-> o])
    BY AddCases DEF AddsRow
  <1>4. p \notin l.map /\ p # NoPath
    BY FileListAssumption DEF Known
  <1> HIDE DEF l2, N, B
  <1>5. /\ DOMAIN StoresOf(l) = 1 .. B + 1 /\ DOMAIN StoresOf(l2) = 1 .. B + 1
        /\ StoresOf(l)[B + 1] = l.rows /\ StoresOf(l2)[B + 1] = l2.rows
        /\ DOMAIN l2.rows = 1 .. Len(l2.rows)
        /\ \A w \in 1 .. B : StoresOf(l)[w] = StoresOf(l2)[w]
    BY <1>2, <1>3, StoreIs DEF B
  <1>6. ASSUME NEW r, l2.rows = Append(l.rows, r)
        PROVE  /\ Len(l2.rows) = N + 1 /\ l2.rows[N + 1] = r
               /\ \A k \in 1 .. N : l2.rows[k] = l.rows[k]
    BY <1>1, <1>6 DEF N
  \* What was shown is still shown where it was.
  <1>7. ASSUME NEW w, NEW k, Shows(l, w, k)
        PROVE  Shows(l2, w, k) /\ RowIn(l2, w, k) = RowIn(l, w, k)
    <2>1. w \in 1 .. B + 1
      BY <1>5, <1>7 DEF Shows
    <2>2. CASE w = B + 1
      <3>1. k \in 1 .. N /\ l.rows[k].path # NoPath
        BY <1>1, <1>5, <1>7, <2>2 DEF Shows
      <3>2. k \in 1 .. Len(l2.rows) /\ l2.rows[k] = l.rows[k]
        <4>1. CASE l2.rows = l.rows
          BY <3>1, <4>1 DEF N
        <4>2. CASE \E r : l2.rows = Append(l.rows, r)
          BY <1>1, <1>6, <3>1, <4>2
        <4> QED BY <1>3, <4>1, <4>2
      <3> QED BY <1>5, <2>1, <2>2, <3>1, <3>2 DEF Shows, FileAt, RowIn
    <2>3. CASE w # B + 1
      <3>1. w \in 1 .. B
        BY <2>1, <2>3, <1>1
      <3> QED BY <1>5, <1>7, <2>1, <3>1 DEF Shows, FileAt, RowIn
    <2> QED BY <2>2, <2>3
  \* The new row aside, nothing else is shown.
  <1>8. ASSUME NEW w, NEW k, Shows(l2, w, k), ~(w = B + 1 /\ k = N + 1)
        PROVE  Shows(l, w, k)
    <2>1. w \in 1 .. B + 1
      BY <1>5, <1>8 DEF Shows
    <2>2. CASE w = B + 1
      <3>1. k \in 1 .. Len(l2.rows) /\ l2.rows[k].path # NoPath
        BY <1>5, <1>8, <2>2 DEF Shows
      <3>2. k \in 1 .. N /\ l2.rows[k] = l.rows[k]
        <4>1. CASE l2.rows = l.rows
          BY <3>1, <4>1 DEF N
        <4>2. CASE \E r : l2.rows = Append(l.rows, r)
          <5>1. Len(l2.rows) = N + 1 /\ \A j \in 1 .. N : l2.rows[j] = l.rows[j]
            BY <1>6, <4>2
          <5>2. k \in 1 .. N
            BY <5>1, <1>1, <1>8, <2>2, <3>1
          <5> QED BY <5>1, <5>2
        <4> QED BY <1>3, <4>1, <4>2
      <3> QED BY <1>1, <1>5, <2>1, <2>2, <3>1, <3>2 DEF Shows, FileAt, RowIn
    <2>3. CASE w # B + 1
      <3>1. w \in 1 .. B
        BY <2>1, <2>3, <1>1
      <3> QED BY <1>5, <1>8, <2>1, <3>1 DEF Shows, FileAt, RowIn
    <2> QED BY <2>2, <2>3
  \* The new row.
  <1>9. /\ ~Shows(l, B + 1, N + 1)
        /\ Shows(l2, B + 1, N + 1) <=> o \notin {NoStat, NotSet}
        /\ o \notin {NoStat, NotSet} => RowIn(l2, B + 1, N + 1) = [path |-> p, size |-> o]
    <2>1. ~Shows(l, B + 1, N + 1)
      BY <1>1, <1>5 DEF Shows
    <2>2. CASE o = NoStat
      <3>1. l2.rows = l.rows
        BY <1>3, <2>2 DEF NoStat, NotSet
      <3>2. ~Shows(l2, B + 1, N + 1)
        BY <1>1, <1>5, <3>1 DEF Shows
      <3> QED BY <2>1, <2>2, <3>2
    <2>3. CASE o = NotSet
      <3>1. l2.rows[N + 1].path = NoPath
        BY <1>3, <1>6, <2>3 DEF NoStat, NotSet
      <3>2. ~Shows(l2, B + 1, N + 1)
        BY <1>5, <3>1 DEF Shows
      <3> QED BY <2>1, <2>3, <3>2
    <2>4. CASE o \notin {NoStat, NotSet}
      <3>1. /\ Len(l2.rows) = N + 1
            /\ l2.rows[N + 1] = [path |-> p, size |-> o]
        BY <1>3, <1>6, <2>4
      <3>2. N + 1 \in 1 .. Len(l2.rows) /\ B + 1 \in 1 .. B + 1
        BY <3>1, <1>1
      <3>3. l2.rows[N + 1].path # NoPath
        BY <3>1, <1>4
      <3>4. Shows(l2, B + 1, N + 1)
        BY <1>5, <3>2, <3>3 DEF Shows
      <3> QED BY <1>5, <2>1, <2>4, <3>1, <3>4 DEF RowIn
    <2> QED BY <2>2, <2>3, <2>4
  <1> QED BY <1>3, <1>7, <1>8, <1>9 DEF OneMore, N, B, l2

LEMMA AddTidy ==
    ASSUME NEW l \in ListType, NEW bad, NEW p \in Paths, NEW o \in Outcomes,
           Tidy(l, bad), ~Known(l, p) /\ o \in {NoStat, NotSet} => p \in bad
    PROVE  Tidy(AddFile(l, p, o), bad)
  <1>1. CASE Known(l, p)
    BY <1>1 DEF AddFile
  <1>2. CASE ~Known(l, p)
    <2> DEFINE l2 == AddFile(l, p, o)
               N == Len(l.rows)
               B == Len(l.before)
    <2>1. N \in Nat /\ B \in Nat
      BY StoreIs
    <2>2. AddsRow(l, l2, p, o)
      BY <1>2, AddCases
    <2>3. l2.map = l.map \cup {p}
      BY <2>2 DEF AddsRow
    <2>4. p \notin l.map
      BY <1>2 DEF Known
    <2>5. OneMore(l, l2, p, o)
      BY <1>2, AddShows
    <2> HIDE DEF l2, N, B
    <2>7. \A w, k : Shows(l, w, k) => Shows(l2, w, k) /\ FileAt(l2, w, k) = FileAt(l, w, k)
      BY <2>5 DEF OneMore, FileAt
    <2>8. \A w, k : Shows(l2, w, k) /\ ~(w = B + 1 /\ k = N + 1) =>
              Shows(l, w, k) /\ FileAt(l2, w, k) = FileAt(l, w, k)
      BY <2>5, <2>7 DEF OneMore, B, N
    <2>6. /\ Shows(l2, B + 1, N + 1) <=> o \notin {NoStat, NotSet}
          /\ Shows(l2, B + 1, N + 1) => FileAt(l2, B + 1, N + 1) = p
      BY <2>5 DEF OneMore, FileAt, B, N
    <2>9. Shows(l2, B + 1, N + 1) => FileAt(l2, B + 1, N + 1) = p
      BY <2>6
    <2>10. ShownOnce(l2)
      <3> SUFFICES ASSUME NEW v, NEW w, NEW j, NEW k, Shows(l2, v, j), Shows(l2, w, k),
                          FileAt(l2, v, j) = FileAt(l2, w, k)
                   PROVE  v = w /\ j = k
        BY DEF ShownOnce
      <3> DEFINE isNew(x, y) == x = B + 1 /\ y = N + 1
      <3>1. \A x, y : Shows(l2, x, y) /\ ~isNew(x, y) => FileAt(l2, x, y) # p
        BY <2>4, <2>8 DEF Tidy, ShownIsMapped
      <3>2. isNew(v, j) <=> isNew(w, k)
        BY <2>9, <3>1
      <3>3. CASE isNew(v, j)
        BY <3>2, <3>3
      <3>4. CASE ~isNew(v, j)
        <4>1. /\ Shows(l, v, j) /\ FileAt(l2, v, j) = FileAt(l, v, j)
              /\ Shows(l, w, k) /\ FileAt(l2, w, k) = FileAt(l, w, k)
          BY <2>8, <3>2, <3>4
        <4> QED BY <4>1 DEF Tidy, ShownOnce
      <3> QED BY <3>3, <3>4
    <2>11. ShownIsMapped(l2)
      <3> SUFFICES ASSUME NEW w, NEW k, Shows(l2, w, k)
                   PROVE  FileAt(l2, w, k) \in l2.map
        BY DEF ShownIsMapped
      <3>1. CASE w = B + 1 /\ k = N + 1
        BY <2>3, <2>9, <3>1
      <3>2. CASE ~(w = B + 1 /\ k = N + 1)
        BY <2>3, <2>8, <3>2 DEF Tidy, ShownIsMapped
      <3> QED BY <3>1, <3>2
    <2>12. MappedIsShown(l2, bad)
      <3> SUFFICES ASSUME NEW q \in l2.map, q \notin bad
                   PROVE  \E w, k : Shows(l2, w, k) /\ FileAt(l2, w, k) = q
        BY DEF MappedIsShown
      <3>1. CASE q \in l.map
        <4>1. PICK w, k : Shows(l, w, k) /\ FileAt(l, w, k) = q
          BY <3>1 DEF Tidy, MappedIsShown
        <4> QED BY <2>7, <4>1
      <3>2. CASE q \notin l.map
        <4>1. q = p
          BY <2>3, <3>2
        <4>2. o \notin {NoStat, NotSet}
          BY <1>2, <4>1
        <4> QED BY <2>6, <4>1, <4>2
      <3> QED BY <3>1, <3>2
    <2>13. Tidy(l2, bad)
      BY <2>10, <2>11, <2>12 DEF Tidy
    <2> QED BY <2>13 DEF l2
  <1> QED BY <1>1, <1>2

LEMMA SortedTidy ==
    ASSUME list \in ListType, Tidy(list, failed), Sorted
    PROVE  Tidy(list', failed')
  <1> DEFINE N == Len(list.rows)
             B == Len(list.before)
  <1>1. PICK e : /\ list' = [list EXCEPT !.rows = [i \in DOMAIN list.rows |->
                                                      list.rows[e[i]]]]
                 /\ e \in [1 .. N -> 1 .. N]
                 /\ \A i, j \in 1 .. N : e[i] = e[j] => i = j
                 /\ \A i \in 1 .. N : \E j \in 1 .. N : e[j] = i
    BY SortedRows
  <1>2. list' \in ListType /\ failed' = failed
    BY ListTypeKept DEF Sorted, Next
  <1>3. N \in Nat /\ B \in Nat /\ DOMAIN list.rows = 1 .. N
    BY StoreIs
  <1>4. /\ list'.before = list.before /\ list'.map = list.map
        /\ list'.rows = [i \in 1 .. N |-> list.rows[e[i]]]
    BY <1>1, <1>3 DEF ListType
  <1> HIDE DEF N, B
  <1>5. Len(list'.rows) = N /\ DOMAIN list'.rows = 1 .. N
        /\ \A i \in 1 .. N : list'.rows[i] = list.rows[e[i]]
    <2>1. Len(list'.rows) = N
      BY <1>3, <1>4
    <2> QED BY <1>4, <2>1
  <1>6. Moved(list, list', e)
    <2>1. \A k \in 1 .. N : e[k] \in 1 .. N
      BY <1>1
    <2>2. list'.before = list.before
      BY <1>4
    <2>3. \A k \in 1 .. N : list'.rows[k] = list.rows[e[k]]
      BY <1>5
    <2>4. \A i, j \in 1 .. N : e[i] = e[j] => i = j
      BY <1>1
    <2>5. Len(list.rows) = N /\ Len(list'.rows) = N
      BY <1>5 DEF N
    <2> QED BY ONLY <2>1, <2>2, <2>3, <2>4, <2>5 DEF Moved
  <1>7. /\ DOMAIN StoresOf(list) = 1 .. B + 1 /\ DOMAIN StoresOf(list') = 1 .. B + 1
        /\ StoresOf(list)[B + 1] = list.rows /\ StoresOf(list')[B + 1] = list'.rows
        /\ \A w \in 1 .. B : StoresOf(list)[w] = StoresOf(list')[w]
    BY <1>2, <1>4, StoreIs DEF B
  <1>8. ShownOnce(list') /\ ShownIsMapped(list')
    BY <1>2, <1>4, <1>6, MovedShows DEF Tidy, ShownIsMapped
  <1>9. ASSUME NEW q \in list'.map, q \notin failed'
        PROVE  \E w, k : Shows(list', w, k) /\ FileAt(list', w, k) = q
    <2>1. PICK w, k : Shows(list, w, k) /\ FileAt(list, w, k) = q
      BY <1>2, <1>4, <1>9 DEF Tidy, MappedIsShown
    <2>2. w \in 1 .. B + 1
      BY <1>7, <2>1 DEF Shows
    <2>3. CASE w = B + 1
      <3>1. k \in 1 .. N
        BY <1>3, <1>7, <2>1, <2>3 DEF Shows
      <3>2. PICK j \in 1 .. N : e[j] = k
        BY <1>1, <3>1
      <3>3. Shows(list', w, j) /\ FileAt(list', w, j) = q
        BY <1>5, <1>7, <2>1, <2>2, <2>3, <3>2 DEF Shows, FileAt, RowIn
      <3> QED BY <3>3
    <2>4. CASE w # B + 1
      <3>1. w \in 1 .. B
        BY <2>2, <2>4, <1>3
      <3>2. Shows(list', w, k) /\ FileAt(list', w, k) = q
        BY <1>7, <2>1, <2>2, <3>1 DEF Shows, FileAt, RowIn
      <3> QED BY <3>2
    <2> QED BY <2>3, <2>4
  <1> QED BY <1>8, <1>9 DEF Tidy, MappedIsShown

\* The rows of the last window become those of an earlier one.
LEMMA ActivateTidy ==
    ASSUME list \in ListType, Tidy(list, failed), Activate
    PROVE  Tidy(list', failed')
  <1> DEFINE B == Len(list.before)
  <1>1. list' \in ListType /\ failed' = failed
    BY ListTypeKept DEF Activate, Next
  <1>2. /\ list'.before = Append(list.before, list.rows) /\ list'.rows = <<>>
        /\ list'.map = list.map
    BY DEF Activate, Activated, ListType
  <1>3. /\ B \in Nat /\ Len(list'.before) = B + 1
        /\ DOMAIN StoresOf(list) = 1 .. B + 1 /\ list'.before = StoresOf(list)
    BY <1>2, StoreIs DEF StoresOf, ListType
  <1>4. /\ DOMAIN StoresOf(list') = 1 .. B + 1 + 1
        /\ StoresOf(list')[B + 1 + 1] = <<>>
        /\ \A w \in 1 .. B + 1 : StoresOf(list')[w] = StoresOf(list)[w]
    BY <1>1, <1>2, <1>3, StoreIs
  <1> HIDE DEF B
  <1>5. ASSUME NEW w, NEW k
        PROVE  /\ Shows(list', w, k) <=> Shows(list, w, k)
               /\ Shows(list, w, k) => FileAt(list', w, k) = FileAt(list, w, k)
    <2>1. w \in 1 .. B + 1 + 1 <=> (w \in 1 .. B + 1 \/ w = B + 1 + 1)
      BY <1>3
    <2>2. w = B + 1 + 1 => ~Shows(list', w, k) /\ w \notin 1 .. B + 1
      BY <1>3, <1>4 DEF Shows
    <2> QED BY <1>3, <1>4, <2>1, <2>2 DEF Shows, FileAt, RowIn
  <1> QED BY <1>1, <1>2, <1>5 DEF Tidy, ShownOnce, ShownIsMapped, MappedIsShown

LEMMA RemoveAllTidy ==
    ASSUME NEW l \in ListType, NEW bad, Tidy(l, bad), NEW order \in Seq(Nat)
    PROVE  Tidy(RemoveAll(l, order), bad)
  <1> DEFINE N == Len(order)
  <1>1. PICK a : Removes(l, order, a)
    BY RemoveRounds
  <1>0. N \in Nat
    BY LenProperties
  <1>2. /\ N \in Nat /\ a[0] = l /\ RemoveAll(l, order) = a[N]
        /\ \A n \in 0 .. N : a[n] \in ListType
        /\ \A n \in 1 .. N : a[n] = RemoveRow(a[n - 1], order[n])
    BY <1>0, <1>1 DEF Removes
  <1> HIDE DEF N
  <1> DEFINE P == {n \in 0 .. N : Tidy(a[n], bad)}
  <1>3. 0 \in P /\ P \in SUBSET (0 .. N)
    BY <1>2
  <1>4. ASSUME NEW n \in 1 .. N, n - 1 \in P
        PROVE  n \in P
    <2>1. a[n - 1] \in ListType /\ Tidy(a[n - 1], bad) /\ n \in 0 .. N
      BY <1>2, <1>4
    <2> QED BY <1>2, <2>1, RemoveTidy
  <1> HIDE DEF P
  <1>5. N \in P
    <2>1. P = 0 .. N
      BY <1>0, <1>3, <1>4, LoopKeeps
    <2>2. N \in 0 .. N
      BY <1>0
    <2> QED BY <2>1, <2>2
  <1> QED BY <1>2, <1>5 DEF P

LEMMA AddFilesTidy ==
    ASSUME list \in ListType, Tidy(list, failed), NEW S \in SUBSET Paths,
           NEW names \in SetToSeqs(S), NEW out \in [S -> Outcomes], AddFiles(names, out)
    PROVE  Tidy(list', failed')
  <1> DEFINE N == Len(names)
  <1>1. /\ names \in Seq(Paths) /\ N \in Nat /\ ToSet(names) = S
        /\ \A n \in 1 .. N : names[n] \in S /\ out[names[n]] \in Outcomes
    BY NamesOf
  <1>2. PICK a : Adds(list, names, out, a)
    BY <1>1, AddRounds
  <1>3. /\ a[0] = list /\ list' = a[N] /\ \A n \in 0 .. N : a[n] \in ListType
        /\ \A n \in 1 .. N : a[n] = AddFile(a[n - 1], names[n], out[names[n]])
    BY <1>2 DEF Adds, AddFiles
  <1>4. failed' = failed \cup {p \in S \ list.map : out[p] \in {NoStat, NotSet}}
    BY <1>1 DEF AddFiles
  <1> HIDE DEF N
  <1> DEFINE P == {n \in 0 .. N : Tidy(a[n], failed') /\ list.map \subseteq a[n].map}
  <1>5. 0 \in P /\ P \in SUBSET (0 .. N)
    <2>1. Tidy(list, failed')
      BY <1>4 DEF Tidy, MappedIsShown
    <2> QED BY <1>1, <1>3, <2>1
  <1>6. ASSUME NEW n \in 1 .. N, n - 1 \in P
        PROVE  n \in P
    <2> DEFINE l == a[n - 1]
               p == names[n]
               o == out[names[n]]
    <2>1. /\ l \in ListType /\ Tidy(l, failed') /\ list.map \subseteq l.map
          /\ n \in 0 .. N /\ p \in Paths /\ p \in S /\ o \in Outcomes
          /\ a[n] = AddFile(l, p, o)
      BY <1>1, <1>3, <1>6
    <2>2. ~Known(l, p) /\ o \in {NoStat, NotSet} => p \in failed'
      BY <1>4, <2>1 DEF Known
    <2> HIDE DEF l, p, o
    <2>3. Tidy(AddFile(l, p, o), failed')
      BY <2>1, <2>2, AddTidy
    <2>4. l.map \subseteq AddFile(l, p, o).map
      <3>1. CASE Known(l, p)
        BY <3>1 DEF AddFile
      <3>2. CASE ~Known(l, p)
        <4>1. AddsRow(l, AddFile(l, p, o), p, o)
          BY <2>1, <3>2, AddCases
        <4> QED BY <4>1 DEF AddsRow
      <3> QED BY <3>1, <3>2
    <2> QED BY <2>1, <2>3, <2>4
  <1> HIDE DEF P
  <1>7. N \in P
    <2>1. P = 0 .. N
      BY <1>1, <1>5, <1>6, LoopKeeps
    <2>2. N \in 0 .. N
      BY <1>1
    <2> QED BY <2>1, <2>2
  <1> QED BY <1>3, <1>7 DEF P

ListInv == list \in ListType /\ Tidy(list, failed)

LEMMA ListInvInit == Init => ListInv
  <1> SUFFICES ASSUME Init PROVE ListInv
    OBVIOUS
  <1>1. list \in ListType
    BY EmptySeq DEF Init, ListType
  <1>2. DOMAIN StoresOf(list) = {1} /\ StoresOf(list)[1] = <<>>
    BY DEF Init, StoresOf
  <1>3. \A w, k : ~Shows(list, w, k)
    BY <1>2 DEF Shows
  <1>4. list.map = {}
    BY DEF Init
  <1> QED BY <1>1, <1>3, <1>4 DEF ListInv, Tidy, ShownOnce, ShownIsMapped, MappedIsShown

LEMMA ListInvStep == ListInv /\ [Next]_vars => ListInv'
  <1> SUFFICES ASSUME ListInv, [Next]_vars PROVE Tidy(list', failed')
    BY ListTypeKept DEF ListInv
  <1>1. list \in ListType /\ Tidy(list, failed)
    BY DEF ListInv
  <1>2. CASE \E S \in SUBSET Paths : \E names \in SetToSeqs(S) :
                 \E out \in [S -> Outcomes] : AddFiles(names, out)
    BY <1>1, <1>2, AddFilesTidy
  <1>3. CASE \E order \in Seq(Nat) :
                 list' = RemoveAll(list, order) /\ UNCHANGED failed
    BY <1>1, <1>3, RemoveAllTidy
  <1>4. CASE Sorted
    BY <1>1, <1>4, SortedTidy
  <1>5. CASE Activate
    BY <1>1, <1>5, ActivateTidy
  <1>6. CASE UNCHANGED vars
    BY <1>1, <1>6 DEF vars
  <1> QED BY <1>1, <1>2, <1>3, <1>4, <1>5, <1>6, Steps

LEMMA ListKept == Spec => []ListInv
  BY ListInvInit, ListInvStep, PTL DEF Spec

\* The places where the property looks for rows are those Shows describes.
LEMMA ListedShown ==
    ASSUME NEW at
    PROVE  at \in Listed <=> /\ Shows(list, at[1], at[2])
                             /\ at = <<at[1], at[2]>>
  <1>1. Stores = StoresOf(list)
    BY DEF Stores, StoresOf
  <1>2. at \in UNION {{w} \X DOMAIN Stores[w] : w \in DOMAIN Stores}
            <=> /\ at[1] \in DOMAIN Stores /\ at[2] \in DOMAIN Stores[at[1]]
                /\ at = <<at[1], at[2]>>
    OBVIOUS
  <1> QED BY <1>1, <1>2 DEF Listed, Shows

\* "File is already added": no file is listed twice, in one window or in two
\* (ui.go:570), for any number of files and windows.
THEOREM NeverListedTwice == Spec => []ListedOnce
  <1>1. ListInv => ListedOnce
    <2> SUFFICES ASSUME ListInv, NEW a1 \in Listed, NEW a2 \in Listed,
                        RowAt(a1).path = RowAt(a2).path
                 PROVE  a1 = a2
      BY DEF ListedOnce
    <2>1. Shows(list, a1[1], a1[2]) /\ Shows(list, a2[1], a2[2])
          /\ a1 = <<a1[1], a1[2]>> /\ a2 = <<a2[1], a2[2]>>
      BY ListedShown
    <2>2. FileAt(list, a1[1], a1[2]) = FileAt(list, a2[1], a2[2])
      BY DEF FileAt, RowIn, RowAt, Stores, StoresOf
    <2>3. a1[1] = a2[1] /\ a1[2] = a2[2]
      BY <2>1, <2>2 DEF ListInv, Tidy, ShownOnce
    <2> QED BY <2>1, <2>3
  <1> QED BY <1>1, ListKept, PTL

\* A removed file can be added again: ui.fileMap holds no file beside those
\* listed, except one whose addition failed (ui.go:533, ui.go:576).
THEOREM RemovedAreForgotten == Spec => []RemovedMayReturn
  <1>1. ListInv => RemovedMayReturn
    <2> SUFFICES ASSUME ListInv, NEW p \in list.map, p \notin failed
                 PROVE  \E at \in Listed : RowAt(at).path = p
      BY DEF RemovedMayReturn
    <2>1. PICK w, k : Shows(list, w, k) /\ FileAt(list, w, k) = p
      BY DEF ListInv, Tidy, MappedIsShown
    <2> DEFINE at == <<w, k>>
    <2>2. at \in Listed
      BY <2>1, ListedShown
    <2>3. RowAt(at).path = p
      BY <2>1 DEF RowAt, FileAt, RowIn, Stores, StoresOf
    <2> QED BY <2>2, <2>3
  <1> QED BY <1>1, ListKept, PTL

-----------------------------------------------------------------------------
(* The totals of the info box. Rows keep their sizes when they move, so that *)
(* a step changes the number of rows that show a file, and the sum of their  *)
(* sizes, by one row or not at all.                                          *)

Spots(l) ==
    {at \in UNION {{w} \X DOMAIN StoresOf(l)[w] : w \in DOMAIN StoresOf(l)} :
        RowIn(l, at[1], at[2]).path # NoPath}
Weights(l) == [at \in Spots(l) |-> RowIn(l, at[1], at[2]).size]

Totals(l) ==
    /\ l.count = Cardinality(Spots(l))
    /\ \E g : IsSum(Weights(l), Spots(l), g) /\ l.size = g[Spots(l)]

LEMMA SpotShows ==
    ASSUME NEW l, NEW at
    PROVE  at \in Spots(l) <=> Shows(l, at[1], at[2]) /\ at = <<at[1], at[2]>>
  <1>1. at \in UNION {{w} \X DOMAIN StoresOf(l)[w] : w \in DOMAIN StoresOf(l)}
            <=> /\ at[1] \in DOMAIN StoresOf(l) /\ at[2] \in DOMAIN StoresOf(l)[at[1]]
                /\ at = <<at[1], at[2]>>
    OBVIOUS
  <1> QED BY <1>1 DEF Spots, Shows, RowIn

LEMMA SpotsWeigh ==
    ASSUME NEW l \in ListType
    PROVE  /\ IsFiniteSet(Spots(l)) /\ Cardinality(Spots(l)) \in Nat
           /\ Weigh(Weights(l), Spots(l))
  <1> DEFINE D == DOMAIN StoresOf(l)
             f == [w \in D |-> {w} \X DOMAIN StoresOf(l)[w]]
             T == {f[w] : w \in D}
  <1>1. StoresOf(l) \in Seq(Seq(Row))
    BY AppendProperties DEF StoresOf, ListType
  <1>2. D = 1 .. Len(StoresOf(l)) /\ Len(StoresOf(l)) \in Nat
    BY <1>1
  <1>3. IsFiniteSet(D)
    BY <1>2, FS_Interval
  <1>4. IsFiniteSet(T)
    <2>1. f \in Surjection(D, T)
      BY DEF Surjection
    <2> HIDE DEF f, T, D
    <2> QED BY <1>3, <2>1, FS_Surjection
  <1>5. ASSUME NEW w \in D
        PROVE  /\ IsFiniteSet({w} \X DOMAIN StoresOf(l)[w])
               /\ \A k \in DOMAIN StoresOf(l)[w] : RowIn(l, w, k).size \in Nat
    <2>1. StoresOf(l)[w] \in Seq(Row)
      BY <1>1, <1>2
    <2>2. DOMAIN StoresOf(l)[w] = 1 .. Len(StoresOf(l)[w]) /\ Len(StoresOf(l)[w]) \in Nat
      BY <2>1
    <2>3. IsFiniteSet(DOMAIN StoresOf(l)[w])
      BY <2>2, FS_Interval
    <2>4. \A k \in DOMAIN StoresOf(l)[w] : RowIn(l, w, k) \in Row
      BY <2>1 DEF RowIn
    <2> QED BY <2>3, <2>4, FS_Singleton, FS_Product DEF Row
  <1>6. IsFiniteSet(UNION T)
    <2>1. \A s \in T : IsFiniteSet(s)
      BY <1>5
    <2> HIDE DEF T
    <2> QED BY <1>4, <2>1, FS_UNION
  <1>7. UNION T = UNION {{w} \X DOMAIN StoresOf(l)[w] : w \in D}
    OBVIOUS
  <1>8. Spots(l) \in SUBSET UNION T
    BY <1>7 DEF Spots
  <1> HIDE DEF T
  <1>9. IsFiniteSet(Spots(l)) /\ Cardinality(Spots(l)) \in Nat
    BY <1>6, <1>8, FS_Subset, FS_CardinalityType
  <1>10. \A at \in Spots(l) : RowIn(l, at[1], at[2]).size \in Nat
    BY <1>5, SpotShows DEF Shows
  <1> QED BY <1>9, <1>10 DEF Weigh, Weights

\* The rows that l shows, each found again in m, at b[at], with its size.
Carries(l, m, b) ==
    /\ b \in [Spots(l) -> Spots(m)]
    /\ \A x, y \in Spots(l) : b[x] = b[y] => x = y
    /\ \A x \in Spots(l) : Weights(m)[b[x]] = Weights(l)[x]

LEMMA CarriedSum ==
    ASSUME NEW l \in ListType, NEW m \in ListType, NEW b, Carries(l, m, b),
           NEW g, IsSum(Weights(l), Spots(l), g), NEW h, IsSum(Weights(m), Spots(m), h)
    PROVE  /\ g[Spots(l)] = h[{b[x] : x \in Spots(l)}]
           /\ Cardinality(Spots(l)) = Cardinality({b[x] : x \in Spots(l)})
  <1> DEFINE S == Spots(l)
             Im == {b[x] : x \in S}
  <1>1. /\ b \in [S -> Spots(m)] /\ \A x, y \in S : b[x] = b[y] => x = y
        /\ \A x \in S : Weights(m)[b[x]] = Weights(l)[x]
    BY DEF Carries
  <1>2. /\ IsFiniteSet(S) /\ Weigh(Weights(l), S)
        /\ IsFiniteSet(Spots(m)) /\ Weigh(Weights(m), Spots(m))
    BY SpotsWeigh
  <1>3. b \in Bijection(S, Im)
    BY <1>1 DEF Bijection, Injection, Surjection, IsInjective
  <1>4. Cardinality(S) = Cardinality(Im)
    <2>1. ExistsBijection(S, Im)
      BY <1>3 DEF ExistsBijection
    <2> HIDE DEF S, Im
    <2> QED BY <1>2, <2>1, FS_Bijection
  <1>5. g[S] = h[Im]
    <2> HIDE DEF S
    <2>1. IsSum(Weights(l), S, g)
      BY DEF S
    <2> QED BY <1>1, <1>2, <2>1, SumRenamed
  <1> QED BY <1>4, <1>5

\* Nothing is added.
LEMMA TotalsSame ==
    ASSUME NEW l \in ListType, NEW m \in ListType, NEW b, Carries(l, m, b),
           {b[x] : x \in Spots(l)} = Spots(m), l.count = m.count, l.size = m.size
    PROVE  Totals(l) <=> Totals(m)
  <1>1. PICK g0 : IsSum(Weights(l), Spots(l), g0)
    BY SpotsWeigh, SumExists
  <1>2. PICK h0 : IsSum(Weights(m), Spots(m), h0)
    BY SpotsWeigh, SumExists
  <1>3. \A g, h : IsSum(Weights(l), Spots(l), g) /\ IsSum(Weights(m), Spots(m), h) =>
            g[Spots(l)] = h[Spots(m)] /\ Cardinality(Spots(l)) = Cardinality(Spots(m))
    BY CarriedSum
  <1> QED BY <1>1, <1>2, <1>3 DEF Totals

\* One row is added.
LEMMA TotalsOneMore ==
    ASSUME NEW l \in ListType, NEW m \in ListType, NEW b, Carries(l, m, b),
           NEW x \in Spots(m), {b[y] : y \in Spots(l)} = Spots(m) \ {x},
           m.count = l.count + 1, m.size = l.size + Weights(m)[x]
    PROVE  Totals(l) <=> Totals(m)
  <1>1. PICK g0 : IsSum(Weights(l), Spots(l), g0)
    BY SpotsWeigh, SumExists
  <1>2. PICK h0 : IsSum(Weights(m), Spots(m), h0)
    BY SpotsWeigh, SumExists
  <1>3. /\ IsFiniteSet(Spots(m)) /\ Weigh(Weights(m), Spots(m))
        /\ Cardinality(Spots(m) \ {x}) = Cardinality(Spots(m)) - 1
        /\ Cardinality(Spots(m)) \in Nat
    BY SpotsWeigh, FS_RemoveElement
  <1>4. l.count \in Int /\ l.size \in Int /\ Weights(m)[x] \in Nat
    BY <1>3 DEF ListType, Weigh
  <1>5. ASSUME NEW g, NEW h, IsSum(Weights(l), Spots(l), g), IsSum(Weights(m), Spots(m), h)
        PROVE  /\ h[Spots(m)] = Weights(m)[x] + g[Spots(l)] /\ g[Spots(l)] \in Nat
               /\ Cardinality(Spots(m)) = Cardinality(Spots(l)) + 1
               /\ Cardinality(Spots(l)) \in Nat
    <2>1. g[Spots(l)] = h[Spots(m) \ {x}]
          /\ Cardinality(Spots(l)) = Cardinality(Spots(m) \ {x})
      BY <1>5, CarriedSum
    <2>2. SumSplits(Weights(m), Spots(m), h)
      BY <1>3, <1>5, SumOthers
    <2>3. h[Spots(m)] = Weights(m)[x] + h[Spots(m) \ {x}] /\ h[Spots(m) \ {x}] \in Nat
      BY <2>2 DEF SumSplits
    <2>4. Cardinality(Spots(l)) \in Nat
      BY SpotsWeigh
    <2> QED BY <1>3, <2>1, <2>3, <2>4
  <1>6. ASSUME Totals(l) PROVE Totals(m)
    <2>1. PICK g : IsSum(Weights(l), Spots(l), g) /\ l.size = g[Spots(l)]
      BY <1>6 DEF Totals
    <2>2. l.count = Cardinality(Spots(l))
      BY <1>6 DEF Totals
    <2>3. m.size = h0[Spots(m)] /\ m.count = Cardinality(Spots(m))
      BY <1>2, <1>4, <1>5, <2>1, <2>2
    <2> QED BY <1>2, <2>3 DEF Totals
  <1>7. ASSUME Totals(m) PROVE Totals(l)
    <2>1. PICK h : IsSum(Weights(m), Spots(m), h) /\ m.size = h[Spots(m)]
      BY <1>7 DEF Totals
    <2>2. m.count = Cardinality(Spots(m))
      BY <1>7 DEF Totals
    <2>3. l.size = g0[Spots(l)] /\ l.count = Cardinality(Spots(l))
      BY <1>1, <1>4, <1>5, <2>1, <2>2
    <2> QED BY <1>1, <2>3 DEF Totals
  <1> QED BY <1>6, <1>7

\* Rows that moved, but for the one that was at d, carry their sizes along.
\* e reaches every row of l but d, which is 0 when it reaches them all.
AllBut(l, m, e, d) ==
    /\ \A k \in 1 .. Len(m.rows) : e[k] # d /\ m.rows[k] = l.rows[e[k]]
    /\ \A k \in 1 .. Len(l.rows) : k # d => \E j \in 1 .. Len(m.rows) : e[j] = k

LEMMA MovedCarries ==
    ASSUME NEW l \in ListType, NEW m \in ListType, NEW e, Moved(l, m, e),
           NEW d, AllBut(l, m, e, d)
    PROVE  \E b : /\ Carries(m, l, b)
                  /\ {b[x] : x \in Spots(m)} = Spots(l) \ {<<Len(l.before) + 1, d>>}
  <1> DEFINE B == Len(l.before)
             b == [x \in Spots(m) |-> <<x[1], Was(l, e, x[1], x[2])>>]
  <1> USE DEF AllBut
  <1>1. B \in Nat /\ m.before = l.before
    BY StoreIs DEF Moved
  <1>2. /\ DOMAIN StoresOf(l) = 1 .. B + 1 /\ DOMAIN StoresOf(m) = 1 .. B + 1
        /\ StoresOf(l)[B + 1] = l.rows /\ StoresOf(m)[B + 1] = m.rows
        /\ DOMAIN l.rows = 1 .. Len(l.rows) /\ DOMAIN m.rows = 1 .. Len(m.rows)
        /\ \A w \in 1 .. B : StoresOf(l)[w] = StoresOf(m)[w]
    BY <1>1, StoreIs
  <1>3. \A w, k : Shows(m, w, k) => /\ Shows(l, w, Was(l, e, w, k))
                                   /\ RowIn(m, w, k) = RowIn(l, w, Was(l, e, w, k))
    BY MovedShows
  <1> HIDE DEF B
  <1>4. ASSUME NEW w, NEW j, NEW k, Shows(m, w, j), Shows(m, w, k),
               Was(l, e, w, j) = Was(l, e, w, k)
        PROVE  j = k
    <2>1. CASE w = B + 1
      <3>1. j \in 1 .. Len(m.rows) /\ m.rows[j].path # NoPath
            /\ k \in 1 .. Len(m.rows) /\ m.rows[k].path # NoPath
        BY <1>2, <1>4, <2>1 DEF Shows
      <3>2. e[j] = e[k]
        BY <1>4, <2>1 DEF Was, B
      <3> QED BY <3>1, <3>2 DEF Moved
    <2>2. CASE w # B + 1
      BY <1>4, <2>2 DEF Was, B
    <2> QED BY <2>1, <2>2
  <1>5. ASSUME NEW x \in Spots(m)
        PROVE  /\ b[x] \in Spots(l) /\ b[x] # <<B + 1, d>>
               /\ Weights(l)[b[x]] = Weights(m)[x]
    <2> DEFINE w == x[1]
               k == x[2]
               y == <<w, Was(l, e, w, k)>>
    <2>1. Shows(m, w, k) /\ b[x] = y
      BY SpotShows
    <2>2. Shows(l, w, Was(l, e, w, k)) /\ RowIn(m, w, k) = RowIn(l, w, Was(l, e, w, k))
      BY <1>3, <2>1
    <2>3. y \in Spots(l)
      BY <2>2, SpotShows
    <2>4. Weights(l)[y] = Weights(m)[x]
      BY <2>2, <2>3 DEF Weights
    <2>5. y # <<B + 1, d>>
      <3>1. SUFFICES ASSUME w = B + 1, Was(l, e, w, k) = d PROVE FALSE
        OBVIOUS
      <3>2. k \in 1 .. Len(m.rows)
        BY <1>2, <2>1, <3>1 DEF Shows
      <3> QED BY <3>1, <3>2 DEF Was, B
    <2> HIDE DEF y, b
    <2> QED BY <2>1, <2>3, <2>4, <2>5
  <1>6. ASSUME NEW x \in Spots(m), NEW y \in Spots(m), b[x] = b[y]
        PROVE  x = y
    <2>1. /\ Shows(m, x[1], x[2]) /\ x = <<x[1], x[2]>>
          /\ Shows(m, y[1], y[2]) /\ y = <<y[1], y[2]>>
      BY SpotShows
    <2>2. x[1] = y[1] /\ Was(l, e, x[1], x[2]) = Was(l, e, x[1], y[2])
      BY <1>6
    <2>3. x[2] = y[2]
      BY <1>4, <2>1, <2>2
    <2> QED BY <2>1, <2>2, <2>3
  <1>7. ASSUME NEW x \in Spots(l), x # <<B + 1, d>>
        PROVE  \E y \in Spots(m) : b[y] = x
    <2> DEFINE w == x[1]
               k == x[2]
    <2>1. Shows(l, w, k) /\ x = <<w, k>>
      BY SpotShows
    <2>2. w \in 1 .. B + 1
      BY <1>2, <2>1 DEF Shows
    <2>3. CASE w = B + 1
      <3>1. k \in 1 .. Len(l.rows) /\ k # d /\ l.rows[k].path # NoPath
        BY <1>2, <1>7, <2>1, <2>3 DEF Shows
      <3>2. PICK j \in 1 .. Len(m.rows) : e[j] = k
        BY <3>1
      <3>3. m.rows[j].path # NoPath
        BY <3>1, <3>2
      <3>4. Shows(m, w, j)
        BY <1>2, <2>2, <2>3, <3>2, <3>3 DEF Shows
      <3> DEFINE y == <<w, j>>
      <3>5. y \in Spots(m)
        BY <3>4, SpotShows
      <3>6. b[y] = x
        BY <2>1, <2>3, <3>2, <3>5 DEF Was, B
      <3> QED BY <3>5, <3>6
    <2>4. CASE w # B + 1
      <3>1. w \in 1 .. B
        BY <1>1, <2>2, <2>4
      <3>2. Shows(m, w, k)
        BY <1>2, <2>1, <2>2, <3>1 DEF Shows
      <3>3. x \in Spots(m)
        BY <2>1, <3>2, SpotShows
      <3>4. b[x] = x
        BY <2>1, <2>4, <3>3 DEF Was, B
      <3> QED BY <3>3, <3>4
    <2> QED BY <2>3, <2>4
  <1>8. b \in [Spots(m) -> Spots(l)]
    <2>1. \A x \in Spots(m) : b[x] \in Spots(l)
      BY <1>5
    <2> QED BY <2>1
  <1> HIDE DEF b
  <1>9. Carries(m, l, b)
    BY <1>5, <1>6, <1>8 DEF Carries
  <1>10. {b[x] : x \in Spots(m)} = Spots(l) \ {<<B + 1, d>>}
    BY <1>5, <1>7
  <1> QED BY <1>9, <1>10 DEF B

LEMMA RemoveTotals ==
    ASSUME NEW l \in ListType, NEW i, Totals(l)
    PROVE  Totals(RemoveRow(l, i))
  <1>1. CASE i \notin DOMAIN l.rows \/ PassedOver(l.rows[i])
    BY <1>1 DEF RemoveRow
  <1>2. CASE ~(i \notin DOMAIN l.rows \/ PassedOver(l.rows[i]))
    <2> DEFINE m == RemoveRow(l, i)
               x == <<Len(l.before) + 1, i>>
    <2>1. m \in ListType
      BY RemoveRowTyped
    <2>2. PICK e : Closes(l, m, i, e)
      BY <1>2, RemoveMoves
    <2>3. m.count = l.count - 1 /\ m.size = l.size - l.rows[i].size
          /\ l.count \in Int /\ l.size \in Int
      BY <1>2 DEF RemoveRow, ListType
    <2> HIDE DEF m
    <2>4. Len(l.rows) \in Nat /\ Len(m.rows) = Len(l.rows) - 1
      BY <2>2, StoreIs DEF Closes
    <2>5. Moved(l, m, e) /\ AllBut(l, m, e, i)
      BY <2>2, <2>4 DEF Closes, AllBut
    <2>6. PICK b : Carries(m, l, b) /\ {b[y] : y \in Spots(m)} = Spots(l) \ {x}
      BY <2>1, <2>5, MovedCarries
    <2>7. Shows(l, Len(l.before) + 1, i) /\ RowIn(l, Len(l.before) + 1, i) = l.rows[i]
      <3>1. /\ Len(l.before) \in Nat /\ DOMAIN StoresOf(l) = 1 .. Len(l.before) + 1
            /\ StoresOf(l)[Len(l.before) + 1] = l.rows
        BY StoreIs
      <3>2. Len(l.before) + 1 \in 1 .. Len(l.before) + 1
        BY <3>1
      <3> QED BY <1>2, <3>1, <3>2 DEF Shows, RowIn, PassedOver
    <2>8. x \in Spots(l) /\ Weights(l)[x] = l.rows[i].size
      <3>1. x \in Spots(l)
        BY <2>7, SpotShows
      <3> QED BY <2>7, <3>1 DEF Weights
    <2>9. Weights(l)[x] \in Nat
      BY <2>8, SpotsWeigh DEF Weigh
    <2>10. l.count = m.count + 1 /\ l.size = m.size + Weights(l)[x]
      BY <2>3, <2>8, <2>9
    <2> HIDE DEF x
    <2>11. Totals(m)
      BY <2>1, <2>6, <2>8, <2>10, TotalsOneMore
    <2> QED BY <2>11 DEF m
  <1> QED BY <1>1, <1>2

LEMMA AddTotals ==
    ASSUME NEW l \in ListType, NEW p \in Paths, NEW o \in Outcomes, Totals(l)
    PROVE  Totals(AddFile(l, p, o))
  <1>1. CASE Known(l, p)
    BY <1>1 DEF AddFile
  <1>2. CASE ~Known(l, p)
    <2> DEFINE m == AddFile(l, p, o)
               w == Len(l.before) + 1
               k == Len(l.rows) + 1
               x == <<w, k>>
               b == [at \in Spots(l) |-> at]
               listed == o \notin {NoStat, NotSet}
    <2>1. m \in ListType
      BY AddFileTyped
    <2>2. OneMore(l, m, p, o)
      BY <1>2, AddShows
    <2> HIDE DEF m
    <2>3. /\ \A v, j : Shows(l, v, j) => Shows(m, v, j) /\ RowIn(m, v, j) = RowIn(l, v, j)
          /\ \A v, j : Shows(m, v, j) /\ ~(v = w /\ j = k) => Shows(l, v, j)
          /\ ~Shows(l, w, k) /\ (Shows(m, w, k) <=> listed)
          /\ listed => /\ RowIn(m, w, k) = [path |-> p, size |-> o]
                       /\ m.count = l.count + 1 /\ m.size = l.size + o
          /\ ~listed => m.count = l.count /\ m.size = l.size
      BY <2>2 DEF OneMore
    <2> HIDE DEF w, k, listed
    <2>4. \A at \in Spots(l) : /\ at \in Spots(m) /\ at # x
                               /\ Weights(m)[at] = Weights(l)[at]
      <3> SUFFICES ASSUME NEW at \in Spots(l)
                   PROVE  at \in Spots(m) /\ at # x /\ Weights(m)[at] = Weights(l)[at]
        OBVIOUS
      <3>1. Shows(l, at[1], at[2]) /\ at = <<at[1], at[2]>>
        BY SpotShows
      <3>2. Shows(m, at[1], at[2]) /\ RowIn(m, at[1], at[2]) = RowIn(l, at[1], at[2])
        BY <2>3, <3>1
      <3>3. at \in Spots(m)
        BY <3>1, <3>2, SpotShows
      <3>4. at # x
        BY <2>3, <3>1
      <3> QED BY <3>2, <3>3, <3>4 DEF Weights
    <2>5. Carries(l, m, b) /\ {b[y] : y \in Spots(l)} = Spots(l)
      BY <2>4 DEF Carries
    <2>6. \A at \in Spots(m) : at # x => at \in Spots(l)
      <3> SUFFICES ASSUME NEW at \in Spots(m), at # x
                   PROVE  at \in Spots(l)
        OBVIOUS
      <3>1. Shows(m, at[1], at[2]) /\ at = <<at[1], at[2]>>
        BY SpotShows
      <3>2. Shows(l, at[1], at[2])
        BY <2>3, <3>1
      <3> QED BY <3>1, <3>2, SpotShows
    <2>7. x \in Spots(m) <=> Shows(m, w, k)
      BY SpotShows
    <2> HIDE DEF b
    <2>8. CASE listed
      <3>1. x \in Spots(m) /\ RowIn(m, w, k).size = o
        BY <2>3, <2>7, <2>8
      <3>2. Weights(m)[x] = o
        BY <3>1 DEF Weights
      <3>3. {b[y] : y \in Spots(l)} = Spots(m) \ {x}
        BY <2>4, <2>5, <2>6
      <3>4. m.count = l.count + 1 /\ m.size = l.size + Weights(m)[x]
        BY <2>3, <2>8, <3>2
      <3> HIDE DEF x
      <3>5. Totals(m)
        BY <2>1, <2>5, <3>1, <3>3, <3>4, TotalsOneMore
      <3> QED BY <3>5 DEF m
    <2>9. CASE ~listed
      <3>1. {b[y] : y \in Spots(l)} = Spots(m)
        BY <2>3, <2>4, <2>5, <2>6, <2>7, <2>9
      <3>2. l.count = m.count /\ l.size = m.size
        BY <2>3, <2>9
      <3>3. Totals(m)
        BY <2>1, <2>5, <3>1, <3>2, TotalsSame
      <3> QED BY <3>3 DEF m
    <2> QED BY <2>8, <2>9
  <1> QED BY <1>1, <1>2

\* m is l with its rows in another order: row i of m was row e[i] of l.
Reordered(l, m, e) ==
    LET N == Len(l.rows) IN
    /\ m.before = l.before /\ m.count = l.count /\ m.size = l.size
    /\ m.rows = [i \in 1 .. N |-> l.rows[e[i]]]
    /\ e \in [1 .. N -> 1 .. N]
    /\ \A i, j \in 1 .. N : e[i] = e[j] => i = j
    /\ \A i \in 1 .. N : \E j \in 1 .. N : e[j] = i

LEMMA ReorderedTotals ==
    ASSUME NEW l \in ListType, NEW m \in ListType, NEW e, Reordered(l, m, e), Totals(l)
    PROVE  Totals(m)
  <1> DEFINE N == Len(l.rows)
             d == 0
  <1>1. N \in Nat
    BY StoreIs
  <1>2. Len(m.rows) = N
    BY <1>1 DEF Reordered
  <1>3. \A k \in 1 .. N : e[k] \in 1 .. N /\ m.rows[k] = l.rows[e[k]]
    BY <1>1 DEF Reordered
  <1>4. Moved(l, m, e)
    BY <1>1, <1>2, <1>3 DEF Reordered, Moved
  <1>5. AllBut(l, m, e, d)
    <2>1. \A k \in 1 .. N : e[k] # d
      BY <1>1, <1>3
    <2>2. \A k \in 1 .. N : \E j \in 1 .. N : e[j] = k
      BY DEF Reordered
    <2> HIDE DEF d, N
    <2> QED BY <1>2, <1>3, <2>1, <2>2 DEF AllBut, N
  <1>6. <<Len(l.before) + 1, d>> \notin Spots(l)
    <2>1. StoresOf(l)[Len(l.before) + 1] = l.rows /\ DOMAIN l.rows = 1 .. N
      BY StoreIs
    <2>2. ~Shows(l, Len(l.before) + 1, d)
      BY <1>1, <2>1 DEF Shows
    <2> QED BY <2>2, SpotShows
  <1> HIDE DEF N, d
  <1>7. PICK b : /\ Carries(m, l, b)
                 /\ {b[x] : x \in Spots(m)} = Spots(l) \ {<<Len(l.before) + 1, d>>}
    BY <1>4, <1>5, MovedCarries
  <1>8. {b[x] : x \in Spots(m)} = Spots(l)
    BY <1>6, <1>7
  <1>9. m.count = l.count /\ m.size = l.size
    BY DEF Reordered
  <1> QED BY <1>7, <1>8, <1>9, TotalsSame

LEMMA SortedTotals ==
    ASSUME list \in ListType, Totals(list), Sorted
    PROVE  Totals(list')
  <1> DEFINE N == Len(list.rows)
  <1>1. PICK e : /\ list' = [list EXCEPT !.rows = [i \in DOMAIN list.rows |->
                                                      list.rows[e[i]]]]
                 /\ e \in [1 .. N -> 1 .. N]
                 /\ \A i, j \in 1 .. N : e[i] = e[j] => i = j
                 /\ \A i \in 1 .. N : \E j \in 1 .. N : e[j] = i
    BY SortedRows
  <1>2. list' \in ListType
    BY ListTypeKept DEF Sorted, Next
  <1>3. DOMAIN list.rows = 1 .. N
    BY StoreIs
  <1>4. Reordered(list, list', e)
    BY <1>1, <1>3 DEF ListType, Reordered
  <1> QED BY <1>2, <1>4, ReorderedTotals

LEMMA ActivateTotals ==
    ASSUME list \in ListType, Totals(list), Activate
    PROVE  Totals(list')
  <1> DEFINE B == Len(list.before)
             b == [x \in Spots(list) |-> x]
  <1>1. list' \in ListType
    BY ListTypeKept DEF Activate, Next
  <1>2. /\ list'.before = Append(list.before, list.rows) /\ list'.rows = <<>>
        /\ list'.count = list.count /\ list'.size = list.size
    BY DEF Activate, Activated, ListType
  <1>3. /\ B \in Nat /\ Len(list'.before) = B + 1
        /\ DOMAIN StoresOf(list) = 1 .. B + 1
    BY <1>2, StoreIs DEF ListType
  <1>4. /\ DOMAIN StoresOf(list') = 1 .. B + 1 + 1
        /\ StoresOf(list')[B + 1 + 1] = <<>>
        /\ \A w \in 1 .. B + 1 : StoresOf(list')[w] = StoresOf(list)[w]
    <2>1. list'.before = StoresOf(list)
      BY <1>2 DEF StoresOf
    <2> QED BY <1>1, <1>2, <1>3, <2>1, StoreIs
  <1> HIDE DEF B
  <1>5. ASSUME NEW w, NEW k
        PROVE  /\ Shows(list', w, k) <=> Shows(list, w, k)
               /\ Shows(list, w, k) => RowIn(list', w, k) = RowIn(list, w, k)
    <2>1. w \in 1 .. B + 1 + 1 <=> (w \in 1 .. B + 1 \/ w = B + 1 + 1)
      BY <1>3
    <2>2. w = B + 1 + 1 => ~Shows(list', w, k) /\ w \notin 1 .. B + 1
      BY <1>3, <1>4 DEF Shows
    <2> QED BY <1>3, <1>4, <2>1, <2>2 DEF Shows, RowIn
  <1>6. Spots(list') = Spots(list)
    <2>1. \A x : x \in Spots(list') <=> x \in Spots(list)
      BY <1>5, SpotShows
    <2> QED BY <2>1
  <1>7. \A x \in Spots(list) : Weights(list')[x] = Weights(list)[x]
    BY <1>5, <1>6, SpotShows DEF Weights
  <1>8. Carries(list, list', b) /\ {b[x] : x \in Spots(list)} = Spots(list')
    BY <1>6, <1>7 DEF Carries
  <1> HIDE DEF b
  <1> QED BY <1>1, <1>2, <1>8, TotalsSame

LEMMA RemoveAllTotals ==
    ASSUME NEW l \in ListType, Totals(l), NEW order \in Seq(Nat)
    PROVE  Totals(RemoveAll(l, order))
  <1> DEFINE N == Len(order)
  <1>1. PICK a : Removes(l, order, a)
    BY RemoveRounds
  <1>0. N \in Nat
    BY LenProperties
  <1>2. /\ N \in Nat /\ a[0] = l /\ RemoveAll(l, order) = a[N]
        /\ \A n \in 0 .. N : a[n] \in ListType
        /\ \A n \in 1 .. N : a[n] = RemoveRow(a[n - 1], order[n])
    BY <1>0, <1>1 DEF Removes
  <1> HIDE DEF N
  <1> DEFINE P == {n \in 0 .. N : Totals(a[n])}
  <1>3. 0 \in P /\ P \in SUBSET (0 .. N)
    BY <1>2
  <1>4. ASSUME NEW n \in 1 .. N, n - 1 \in P
        PROVE  n \in P
    <2>1. a[n - 1] \in ListType /\ Totals(a[n - 1]) /\ n \in 0 .. N
      BY <1>2, <1>4
    <2> QED BY <1>2, <2>1, RemoveTotals
  <1> HIDE DEF P
  <1>5. N \in P
    <2>1. P = 0 .. N
      BY <1>0, <1>3, <1>4, LoopKeeps
    <2>2. N \in 0 .. N
      BY <1>0
    <2> QED BY <2>1, <2>2
  <1> QED BY <1>2, <1>5 DEF P

LEMMA AddFilesTotals ==
    ASSUME list \in ListType, Totals(list), NEW S \in SUBSET Paths,
           NEW names \in SetToSeqs(S), NEW out \in [S -> Outcomes], AddFiles(names, out)
    PROVE  Totals(list')
  <1> DEFINE N == Len(names)
  <1>1. /\ names \in Seq(Paths) /\ N \in Nat
        /\ \A n \in 1 .. N : names[n] \in Paths /\ out[names[n]] \in Outcomes
    BY NamesOf
  <1>2. PICK a : Adds(list, names, out, a)
    BY <1>1, AddRounds
  <1>3. /\ a[0] = list /\ list' = a[N] /\ \A n \in 0 .. N : a[n] \in ListType
        /\ \A n \in 1 .. N : a[n] = AddFile(a[n - 1], names[n], out[names[n]])
    BY <1>2 DEF Adds, AddFiles
  <1> HIDE DEF N
  <1> DEFINE P == {n \in 0 .. N : Totals(a[n])}
  <1>4. 0 \in P /\ P \in SUBSET (0 .. N)
    BY <1>1, <1>3
  <1>5. ASSUME NEW n \in 1 .. N, n - 1 \in P
        PROVE  n \in P
    <2>1. a[n - 1] \in ListType /\ Totals(a[n - 1]) /\ n \in 0 .. N
      BY <1>3, <1>5
    <2> QED BY <1>1, <1>3, <2>1, AddTotals
  <1> HIDE DEF P
  <1>6. N \in P
    <2>1. P = 0 .. N
      BY <1>1, <1>4, <1>5, LoopKeeps
    <2>2. N \in 0 .. N
      BY <1>1
    <2> QED BY <2>1, <2>2
  <1> QED BY <1>3, <1>6 DEF P

SumInv == list \in ListType /\ Totals(list)

LEMMA SumInvInit == Init => SumInv
  <1> SUFFICES ASSUME Init PROVE SumInv
    OBVIOUS
  <1>1. list \in ListType
    BY EmptySeq DEF Init, ListType
  <1>2. DOMAIN StoresOf(list) = {1} /\ StoresOf(list)[1] = <<>>
    BY DEF Init, StoresOf
  <1>3. Spots(list) = {}
    BY <1>2 DEF Spots
  <1>4. list.count = 0 /\ list.size = 0
    BY DEF Init
  <1>5. PICK g : IsSum(Weights(list), Spots(list), g)
    BY <1>1, SpotsWeigh, SumExists
  <1>6. g[Spots(list)] = 0
    <2>1. SumPicks(Weights(list), Spots(list), g)
      BY <1>5, SumIs
    <2> QED BY <1>3, <2>1 DEF SumPicks
  <1>7. Cardinality(Spots(list)) = 0
    BY <1>3, FS_EmptySet
  <1> QED BY <1>1, <1>4, <1>5, <1>6, <1>7 DEF SumInv, Totals

LEMMA SumInvStep == SumInv /\ [Next]_vars => SumInv'
  <1> SUFFICES ASSUME SumInv, [Next]_vars PROVE Totals(list')
    BY ListTypeKept DEF SumInv
  <1>1. list \in ListType /\ Totals(list)
    BY DEF SumInv
  <1>2. CASE \E S \in SUBSET Paths : \E names \in SetToSeqs(S) :
                 \E out \in [S -> Outcomes] : AddFiles(names, out)
    BY <1>1, <1>2, AddFilesTotals
  <1>3. CASE \E order \in Seq(Nat) :
                 list' = RemoveAll(list, order) /\ UNCHANGED failed
    BY <1>1, <1>3, RemoveAllTotals
  <1>4. CASE Sorted
    BY <1>1, <1>4, SortedTotals
  <1>5. CASE Activate
    BY <1>1, <1>5, ActivateTotals
  <1>6. CASE UNCHANGED vars
    BY <1>1, <1>6 DEF vars
  <1> QED BY <1>1, <1>2, <1>3, <1>4, <1>5, <1>6, Steps

LEMMA SumKept == Spec => []SumInv
  BY SumInvInit, SumInvStep, PTL DEF Spec

\* The totals of the info box, kept by addition and subtraction, are those of
\* the rows of all windows (ui.go:600, ui.go:538), for any number of files.
THEOREM TotalsAgree == Spec => []TotalsMatch
  <1>1. SumInv => TotalsMatch
    <2> SUFFICES ASSUME SumInv PROVE TotalsMatch
      OBVIOUS
    <2>1. Listed = Spots(list)
      BY DEF Listed, Spots, Stores, StoresOf, RowIn
    <2>2. IsFiniteSet(Spots(list))
      BY SpotsWeigh DEF SumInv
    <2>3. \A at \in Spots(list) : Weights(list)[at] = RowAt(at).size
      BY DEF Weights, RowAt, RowIn, Stores, StoresOf
    <2> DEFINE T == Spots(list)
               Adding(g) == g = [s \in SUBSET T |-> IF s = {} THEN 0
                   ELSE RowAt(CHOOSE x \in s : TRUE).size + g[s \ {CHOOSE x \in s : TRUE}]]
               sum == CHOOSE g : Adding(g)
    <2>4. MapThenSumSet(LAMBDA at : RowAt(at).size, Listed) = sum[T]
      BY <2>1 DEF MapThenSumSet, MapThenFoldSet
    <2>5. \A g : Adding(g) <=> IsSum(Weights(list), T, g)
      <3> SUFFICES ASSUME NEW g
                   PROVE  Adding(g) <=> IsSum(Weights(list), T, g)
        OBVIOUS
      <3>1. \A s \in SUBSET T : s # {} =>
                RowAt(CHOOSE x \in s : TRUE).size = Weights(list)[Pick(s)]
        BY <2>3, Picked DEF Pick
      <3> DEFINE u(s) == IF s = {} THEN 0
                         ELSE RowAt(CHOOSE x \in s : TRUE).size + g[s \ {CHOOSE x \in s : TRUE}]
                 v(s) == IF s = {} THEN 0
                         ELSE Weights(list)[Pick(s)] + g[s \ {Pick(s)}]
      <3>2. \A s \in SUBSET T : u(s) = v(s)
        BY <3>1 DEF Pick
      <3>3. (Adding(g) <=> g = [s \in SUBSET T |-> u(s)])
            /\ (IsSum(Weights(list), T, g) <=> g = [s \in SUBSET T |-> v(s)])
        BY DEF IsSum
      <3> HIDE DEF u, v, T, Adding
      <3> QED BY <3>2, <3>3
    <2>6. IsSum(Weights(list), T, sum)
      <3>1. \E g : IsSum(Weights(list), T, g)
        BY <2>2, SumExists
      <3> HIDE DEF Adding, T
      <3>2. \E g : Adding(g)
        <4>1. PICK g : IsSum(Weights(list), T, g)
          BY <3>1
        <4> QED BY <2>5, <4>1
      <3>3. Adding(sum)
        BY <3>2
      <3> HIDE DEF sum
      <3> QED BY <2>5, <3>3
    <2> HIDE DEF sum
    <2>7. PICK g : IsSum(Weights(list), T, g) /\ list.size = g[T]
      BY DEF SumInv, Totals
    <2>8. g[T] = sum[T]
      <3>1. Weigh(Weights(list), T)
        BY SpotsWeigh DEF SumInv
      <3> DEFINE b == [x \in T |-> x]
      <3>2. /\ b \in [T -> T] /\ \A x, y \in T : b[x] = b[y] => x = y
            /\ \A x \in T : Weights(list)[b[x]] = Weights(list)[x]
            /\ {b[x] : x \in T} = T
        OBVIOUS
      <3> HIDE DEF b, T
      <3>3. IsFiniteSet(T)
        BY <2>2 DEF T
      <3>4. g[T] = sum[{b[x] : x \in T}]
        BY <2>6, <2>7, <3>1, <3>2, <3>3, SumRenamed
      <3> QED BY <3>2, <3>4
    <2>9. list.count = Cardinality(Listed)
      BY <2>1 DEF SumInv, Totals
    <2> HIDE DEF T
    <2> QED BY <2>4, <2>7, <2>8, <2>9 DEF TotalsMatch
  <1> QED BY <1>1, SumKept, PTL

\* The list, the map and the totals keep their types: the totals never fall
\* below zero, though they are kept by subtraction (ui.go:538).
THEOREM ListTypeCorrect == Spec => []TypeOK
  <1>1. SumInv => list.count \in Nat /\ list.size \in Nat
    <2> SUFFICES ASSUME SumInv PROVE list.count \in Nat /\ list.size \in Nat
      OBVIOUS
    <2>1. IsFiniteSet(Spots(list)) /\ Cardinality(Spots(list)) \in Nat
          /\ Weigh(Weights(list), Spots(list))
      BY SpotsWeigh DEF SumInv
    <2>2. PICK g : IsSum(Weights(list), Spots(list), g) /\ list.size = g[Spots(list)]
      BY DEF SumInv, Totals
    <2>3. SumSplits(Weights(list), Spots(list), g)
      BY <2>1, <2>2, SumOthers
    <2>4. g[Spots(list)] \in Nat
      BY <2>3 DEF SumSplits
    <2> QED BY <2>1, <2>2, <2>4 DEF SumInv, Totals
  <1>2. Init => failed \in SUBSET Paths
    BY DEF Init
  <1>3. list \in ListType /\ failed \in SUBSET Paths /\ [Next]_vars
            => (failed \in SUBSET Paths)'
    <2> SUFFICES ASSUME list \in ListType, failed \in SUBSET Paths, [Next]_vars
                 PROVE  failed' \in SUBSET Paths
      OBVIOUS
    <2>1. CASE \E S \in SUBSET Paths : \E names \in SetToSeqs(S) :
                   \E out \in [S -> Outcomes] : AddFiles(names, out)
      <3>1. PICK S \in SUBSET Paths :
                \E names \in SetToSeqs(S) : \E out \in [S -> Outcomes] : AddFiles(names, out)
        BY <2>1
      <3>2. PICK names \in SetToSeqs(S), out \in [S -> Outcomes] : AddFiles(names, out)
        BY <3>1
      <3>3. ToSet(names) = S
        BY NamesOf
      <3> QED BY <3>2, <3>3 DEF AddFiles
    <2>2. CASE UNCHANGED failed
      BY <2>2
    <2> QED BY <2>1, <2>2, Steps DEF Sorted, Activate, vars
  <1>4. SumInv /\ failed \in SUBSET Paths => TypeOK
    <2> SUFFICES ASSUME SumInv, failed \in SUBSET Paths PROVE TypeOK
      OBVIOUS
    <2>1. list.count \in Nat /\ list.size \in Nat
      BY <1>1
    <2> DEFINE R == Seq(Row)
               B == Seq(R)
               M == SUBSET Paths
    <2>2. list \in [rows : R, before : B, map : M, count : Int, size : Int]
      BY DEF SumInv, ListType
    <2> HIDE DEF R, B, M
    <2>3. list \in [rows : R, before : B, map : M, count : Nat, size : Nat]
      BY <2>1, <2>2
    <2> QED BY <2>3 DEF TypeOK, R, B, M
  <1> QED BY <1>2, <1>3, <1>4, ListTyped, SumKept, PTL DEF Spec
==============================================================================
