------------------------------ MODULE Inductions ------------------------------
(***************************************************************************)
(* Facts about the recursive functions the modules are built from: sums of *)
(* functions, flattened sequences and walks over cells, each a CHOOSE of a *)
(* function that satisfies its equation.  Induction goes by the least      *)
(* counterexample.                                                         *)
(***************************************************************************)
EXTENDS Integers, SequencesExt, SequenceTheorems, FiniteSetTheorems,
        WellFoundedInduction, TLAPS

----------------------------------------------------------------------------
(* Least elements *)

\* A smallest set, of those the set Bad holds.
LEMMA LeastSubset ==
  ASSUME NEW S, IsFiniteSet(S), NEW Bad, Bad \subseteq SUBSET S, Bad # {}
  PROVE  \E T \in Bad : \A U \in SUBSET T : U # T => U \notin Bad
<1>1. IsWellFoundedOn(StrictSubsetOrdering(S), SUBSET S)
  BY FS_StrictSubsetOrderingWellFounded, FS_FiniteSubsetsOfFinite
<1>2. PICK T \in Bad : \A U \in Bad : ~(<<U, T>> \in StrictSubsetOrdering(S))
  BY <1>1, WFMin
<1> QED
  BY <1>2 DEF StrictSubsetOrdering

\* A least number, of those the set Bad holds.
LEMMA LeastNumber ==
  ASSUME NEW Bad, Bad \subseteq Nat, Bad # {}
  PROVE  \E n \in Bad : \A m \in Bad : n <= m
<1> DEFINE below == {ss \in Nat \X Nat : ss[1] < ss[2]}
<1>1. IsWellFoundedOn(below, Nat)
  BY NatLessThanWellFounded, Zenon DEF OpToRel
<1> HIDE DEF below
<1>2. PICK n \in Bad : \A m \in Bad : ~(<<m, n>> \in below)
  BY <1>1, WFMin
<1>3. ASSUME NEW m \in Bad PROVE n <= m
  <2>1. m \in Nat /\ n \in Nat
    OBVIOUS
  <2>2. ~(<<m, n>> \in below)
    BY <1>2
  <2>3. ~(m < n)
    BY <2>1, <2>2 DEF below
  <2> QED
    BY <2>1, <2>3
<1> QED
  BY <1>3

----------------------------------------------------------------------------
(* Sums *)

\* Sums of functions, as the community modules fold them.
Pick(S) == CHOOSE x \in S : TRUE

\* sum is a running sum of f over the subsets of S.
SumsTo(sum, f, S) ==
    sum = [T \in SUBSET S |->
              IF T = {} THEN 0 ELSE f[Pick(T)] + sum[T \ {Pick(T)}]]

Sums(f) == CHOOSE sum : SumsTo(sum, f, DOMAIN f)

\* The fold is the running sum of the whole domain.
LEMMA SumFunctionIs ==
  ASSUME NEW f
  PROVE  SumFunction(f) = Sums(f)[DOMAIN f]
BY DEF SumFunction, SumFunctionOnSet, FoldFunctionOnSet, MapThenFoldSet, SumsTo,
       Sums, Pick

\* The picked element is one of the set.
LEMMA PickFrom ==
  ASSUME NEW S, NEW T \in SUBSET S, T # {}
  PROVE  Pick(T) \in T /\ T \ {Pick(T)} \in SUBSET S
BY DEF Pick

\* The sums of the subsets of up to n elements.
SumsUpTo(n, sum, f, S) ==
    /\ sum \in [SUBSET S -> Int]
    /\ \A T \in SUBSET S :
          Cardinality(T) <= n =>
            sum[T] = IF T = {} THEN 0 ELSE f[Pick(T)] + sum[T \ {Pick(T)}]

\* Running sums up to every size exist.
LEMMA SumsUpToEach ==
  ASSUME NEW S, IsFiniteSet(S), NEW f \in [S -> Int]
  PROVE  \A n \in Nat : \E sum : SumsUpTo(n, sum, f, S)
<1> DEFINE Bad == {n \in Nat : ~ \E sum : SumsUpTo(n, sum, f, S)}
<1>0. ASSUME NEW T \in SUBSET S
      PROVE  /\ Cardinality(T) \in Nat
             /\ Cardinality(T) = 0 <=> T = {}
             /\ T # {} => Cardinality(T \ {Pick(T)}) = Cardinality(T) - 1
  BY FS_Subset, FS_CardinalityType, FS_EmptySet, FS_RemoveElement, PickFrom
<1>1. SUFFICES ASSUME Bad # {} PROVE FALSE
  OBVIOUS
<1>2. PICK n \in Bad : \A m \in Bad : n <= m
  BY <1>1, LeastNumber
<1>3. n \in Nat /\ ~ \E sum : SumsUpTo(n, sum, f, S)
  BY <1>2
<1>4. CASE n = 0
  <2> DEFINE new == [T \in SUBSET S |-> 0]
  <2>1. ASSUME NEW T \in SUBSET S, Cardinality(T) <= 0 PROVE T = {}
    <3>1. Cardinality(T) \in Nat
      BY <1>0
    <3>2. Cardinality(T) = 0
      BY <2>1, <3>1
    <3> QED
      BY <1>0, <3>2
  <2>2. new \in [SUBSET S -> Int] /\ new[{}] = 0
    OBVIOUS
  <2> HIDE DEF new
  <2>3. SumsUpTo(0, new, f, S)
    BY <2>1, <2>2 DEF SumsUpTo
  <2> QED
    BY <1>3, <1>4, <2>3
<1>5. CASE n # 0
  <2>1. n - 1 \in Nat /\ ~(n <= n - 1)
    BY <1>3, <1>5
  <2>2. PICK old : SumsUpTo(n - 1, old, f, S)
    BY <1>2, <2>1
  <2> DEFINE new == [T \in SUBSET S |->
                       IF T = {} THEN 0 ELSE f[Pick(T)] + old[T \ {Pick(T)}]]
  <2>3. new \in [SUBSET S -> Int]
    BY <2>2, PickFrom DEF SumsUpTo
  <2>4. ASSUME NEW T \in SUBSET S, Cardinality(T) <= n - 1 PROVE new[T] = old[T]
    BY <2>2, <2>4 DEF SumsUpTo
  <2>5. ASSUME NEW T \in SUBSET S, Cardinality(T) <= n, T # {}
        PROVE  new[T] = f[Pick(T)] + new[T \ {Pick(T)}]
    <3>1. /\ T \ {Pick(T)} \in SUBSET S /\ Cardinality(T) \in Nat
          /\ Cardinality(T \ {Pick(T)}) = Cardinality(T) - 1
      BY <1>0, <2>5
    <3>3. Cardinality(T \ {Pick(T)}) <= n - 1
      BY <1>3, <2>5, <3>1
    <3>2. new[T \ {Pick(T)}] = old[T \ {Pick(T)}]
      BY <2>4, <3>1, <3>3
    <3> QED
      BY <2>5, <3>2
  <2>6. new[{}] = 0
    OBVIOUS
  <2> HIDE DEF new
  <2>7. SumsUpTo(n, new, f, S)
    BY <2>3, <2>5, <2>6 DEF SumsUpTo
  <2> QED
    BY <1>3, <2>7
<1> QED
  BY <1>4, <1>5

RunningSum(sum, f, S) ==
    /\ sum \in [SUBSET S -> Int]
    /\ sum[{}] = 0
    /\ \A T \in SUBSET S : T # {} => sum[T] = f[Pick(T)] + sum[T \ {Pick(T)}]

\* The chosen running sum is one.
LEMMA SumsAreSums ==
  ASSUME NEW S, IsFiniteSet(S), NEW f \in [S -> Int]
  PROVE  RunningSum(Sums(f), f, S)
<1>1. Cardinality(S) \in Nat
  BY FS_CardinalityType
<1>2. \A T \in SUBSET S : Cardinality(T) <= Cardinality(S)
  BY FS_Subset
<1>3. PICK sum : SumsUpTo(Cardinality(S), sum, f, S)
  BY <1>1, SumsUpToEach
<1>4. SumsTo(sum, f, S)
  BY <1>2, <1>3 DEF SumsUpTo, SumsTo
<1>5. SumsTo(Sums(f), f, S)
  BY <1>4 DEF Sums
<1> DEFINE total == Sums(f)
<1>6. total = [T \in SUBSET S |->
                  IF T = {} THEN 0 ELSE f[Pick(T)] + total[T \ {Pick(T)}]]
  BY <1>5 DEF SumsTo
<1>7. \A T \in SUBSET S :
         total[T] = IF T = {} THEN 0 ELSE f[Pick(T)] + total[T \ {Pick(T)}]
  BY <1>6
<1>8. \A T \in SUBSET S : total[T] \in Int
  <2> DEFINE Bad == {T \in SUBSET S : total[T] \notin Int}
  <2>1. SUFFICES ASSUME Bad # {} PROVE FALSE
    OBVIOUS
  <2>0. Bad \subseteq SUBSET S
    OBVIOUS
  <2> HIDE DEF Bad
  <2>2. PICK T \in Bad : \A U \in SUBSET T : U # T => U \notin Bad
    BY <2>0, <2>1, LeastSubset
  <2>5. T \in SUBSET S /\ total[T] \notin Int
    BY DEF Bad
  <2>3. CASE T = {}
    <3>1. total[T] = 0
      BY <1>7, <2>3, <2>5
    <3> QED
      BY <2>5, <3>1
  <2>4. CASE T # {}
    <3>1. Pick(T) \in S /\ T \ {Pick(T)} \in SUBSET S /\ T \ {Pick(T)} # T
      BY <2>4, <2>5, PickFrom
    <3>2. total[T \ {Pick(T)}] \in Int
      BY <2>2, <3>1 DEF Bad
    <3>3. total[T] = f[Pick(T)] + total[T \ {Pick(T)}]
      BY <1>7, <2>4, <2>5
    <3> QED
      BY <2>5, <3>1, <3>2, <3>3
  <2> QED
    BY <2>3, <2>4
<1>9. DOMAIN total = SUBSET S
  BY <1>6
<1> HIDE DEF total
<1>10. total \in [SUBSET S -> Int]
  <2>1. total = [T \in SUBSET S |-> total[T]]
    BY <1>6
  <2> QED
    BY <1>8, <2>1
<1> QED
  BY <1>7, <1>10 DEF total, RunningSum

\* Any element can be taken out first.
LEMMA SumsTakeOut ==
  ASSUME NEW S, IsFiniteSet(S), NEW f \in [S -> Int],
         NEW T \in SUBSET S, NEW x \in T
  PROVE  Sums(f)[T] = f[x] + Sums(f)[T \ {x}]
<1> DEFINE sum == Sums(f)
           Bad == {U \in SUBSET S : \E y \in U : sum[U] # f[y] + sum[U \ {y}]}
<1>0. /\ sum \in [SUBSET S -> Int]
      /\ \A U \in SUBSET S : U # {} => sum[U] = f[Pick(U)] + sum[U \ {Pick(U)}]
  <2>1. RunningSum(Sums(f), f, S)
    BY SumsAreSums
  <2> QED
    BY <2>1 DEF RunningSum
<1> HIDE DEF sum
<1>1. SUFFICES ASSUME Bad # {} PROVE FALSE
  BY DEF sum
<1>2. Bad \subseteq SUBSET S
  OBVIOUS
<1> HIDE DEF Bad
<1>3. PICK U \in Bad : \A V \in SUBSET U : V # U => V \notin Bad
  BY <1>1, <1>2, LeastSubset
<1>4. PICK y \in U : sum[U] # f[y] + sum[U \ {y}]
  BY DEF Bad
<1> DEFINE z == Pick(U)
           A == U \ {y}
           B == U \ {z}
<1>5. U \in SUBSET S /\ z \in U /\ sum[U] = f[z] + sum[B] /\ z # y
  BY <1>0, <1>2, <1>4, PickFrom
<1> HIDE DEF z
<1>6. sum[A] = f[z] + sum[A \ {z}]
  <2>1. A \in SUBSET U /\ A # U /\ z \in A /\ A \in SUBSET S
    BY <1>5
  <2> HIDE DEF A
  <2> QED
    BY <1>3, <2>1 DEF Bad
<1>7. sum[B] = f[y] + sum[B \ {y}]
  <2>1. B \in SUBSET U /\ B # U /\ y \in B /\ B \in SUBSET S
    BY <1>4, <1>5
  <2> HIDE DEF B
  <2> QED
    BY <1>3, <2>1 DEF Bad
<1>8. A \ {z} = B \ {y} /\ A \ {z} \in SUBSET S
  BY <1>5
<1>9. sum[U] # f[y] + sum[A]
  BY <1>4
<1> HIDE DEF A, B
<1>10. f[y] \in Int /\ f[z] \in Int /\ sum[A \ {z}] \in Int
  BY <1>0, <1>5, <1>8
<1>11. sum[U] = f[z] + sum[B] /\ sum[B] = f[y] + sum[A \ {z}]
  BY <1>5, <1>7, <1>8
<1> QED
  BY <1>6, <1>9, <1>10, <1>11

\* Functions that agree have the same sum.
LEMMA SumsAgree ==
  ASSUME NEW S, IsFiniteSet(S), NEW f \in [S -> Int], NEW g \in [S -> Int],
         NEW T \in SUBSET S, \A x \in T : f[x] = g[x]
  PROVE  Sums(f)[T] = Sums(g)[T]
<1> DEFINE Bad == {U \in SUBSET T : Sums(f)[U] # Sums(g)[U]}
<1>1. SUFFICES ASSUME Bad # {} PROVE FALSE
  OBVIOUS
<1>2. IsFiniteSet(T) /\ Bad \subseteq SUBSET T
  BY FS_Subset
<1> HIDE DEF Bad
<1>3. PICK U \in Bad : \A V \in SUBSET U : V # U => V \notin Bad
  BY <1>1, <1>2, LeastSubset
<1>4. U \in SUBSET S /\ U \in SUBSET T /\ Sums(f)[U] # Sums(g)[U]
  BY <1>2 DEF Bad
<1>0. RunningSum(Sums(f), f, S) /\ RunningSum(Sums(g), g, S)
  BY SumsAreSums
<1>5. Sums(f)[{}] = 0 /\ Sums(g)[{}] = 0
  BY <1>0 DEF RunningSum
<1>6. U # {}
  BY <1>4, <1>5
<1>7. Pick(U) \in U /\ U \ {Pick(U)} \in SUBSET T /\ U \ {Pick(U)} # U
  BY <1>4, <1>6, PickFrom
<1>8. Sums(f)[U \ {Pick(U)}] = Sums(g)[U \ {Pick(U)}]
  BY <1>3, <1>7 DEF Bad
<1>9. /\ Sums(f)[U] = f[Pick(U)] + Sums(f)[U \ {Pick(U)}]
      /\ Sums(g)[U] = g[Pick(U)] + Sums(g)[U \ {Pick(U)}]
  BY <1>0, <1>4, <1>6 DEF RunningSum
<1>10. f[Pick(U)] = g[Pick(U)]
  BY <1>4, <1>7
<1> QED
  BY <1>4, <1>8, <1>9, <1>10

\* A sum moves by what its one changed entry moves.
LEMMA SumMovesWithOneEntry ==
  ASSUME NEW S, IsFiniteSet(S), NEW f \in [S -> Int], NEW g \in [S -> Int],
         NEW x \in S, \A y \in S \ {x} : f[y] = g[y]
  PROVE  /\ SumFunction(f) \in Int
         /\ SumFunction(g) = SumFunction(f) + (g[x] - f[x])
<1> DEFINE rest == S \ {x}
<1>0. S \in SUBSET S /\ rest \in SUBSET S
  OBVIOUS
<1>1. SumFunction(f) = Sums(f)[S] /\ SumFunction(g) = Sums(g)[S]
  BY SumFunctionIs
<1>2. Sums(f)[S] = f[x] + Sums(f)[rest] /\ Sums(g)[S] = g[x] + Sums(g)[rest]
  <2>1. Sums(f)[S] = f[x] + Sums(f)[rest]
    BY <1>0, SumsTakeOut
  <2>2. Sums(g)[S] = g[x] + Sums(g)[rest]
    BY <1>0, SumsTakeOut
  <2> QED
    BY <2>1, <2>2
<1>3. Sums(f)[rest] = Sums(g)[rest]
  BY <1>0, SumsAgree
<1>4. Sums(f)[rest] \in Int
  <2>1. Sums(f) \in [SUBSET S -> Int]
    BY SumsAreSums DEF RunningSum
  <2> QED
    BY <1>0, <2>1
<1>5. f[x] \in Int /\ g[x] \in Int
  OBVIOUS
<1> HIDE DEF rest
<1> QED
  BY <1>1, <1>2, <1>3, <1>4, <1>5

----------------------------------------------------------------------------
(* Sequences *)

\* Concatenation, cell by cell.
LEMMA ConcatenatedCells ==
  ASSUME NEW X, NEW s \in Seq(X), NEW t \in Seq(X)
  PROVE  /\ s \o t \in Seq(X)
         /\ Len(s) \in Nat /\ Len(t) \in Nat
         /\ Len(s \o t) = Len(s) + Len(t)
         /\ \A i \in 1 .. Len(s) : i \in 1 .. Len(s \o t) /\ (s \o t)[i] = s[i]
         /\ \A i \in 1 .. Len(t) : /\ Len(s) + i \in 1 .. Len(s \o t)
                                   /\ (s \o t)[Len(s) + i] = t[i]
<1>1. /\ s \o t \in Seq(X) /\ Len(s \o t) = Len(s) + Len(t)
      /\ Len(s) \in Nat /\ Len(t) \in Nat
  OBVIOUS
<1>2. \A i \in 1 .. Len(s) + Len(t) :
         (s \o t)[i] = IF i <= Len(s) THEN s[i] ELSE t[i - Len(s)]
  BY ConcatProperties
<1>3. ASSUME NEW i \in 1 .. Len(t)
      PROVE  /\ Len(s) + i \in 1 .. Len(s \o t)
             /\ (s \o t)[Len(s) + i] = t[i]
  <2>1. /\ Len(s) + i \in 1 .. Len(s) + Len(t) /\ ~(Len(s) + i <= Len(s))
        /\ (Len(s) + i) - Len(s) = i
    BY <1>1
  <2> QED
    BY <1>1, <1>2, <2>1
<1> QED
  BY <1>1, <1>2, <1>3

\* f runs through the concatenations of the first n of seqs.
Flattens(f, seqs, n) ==
    f = [i \in 1 .. n |-> IF i = 1 THEN seqs[i] ELSE f[i - 1] \o seqs[i]]

Flattened(seqs) == CHOOSE f : Flattens(f, seqs, Len(seqs))

\* FlattenSeq is the last of them.
LEMMA FlattenSeqIs ==
  ASSUME NEW seqs, Len(seqs) # 0
  PROVE  FlattenSeq(seqs) = Flattened(seqs)[Len(seqs)]
BY DEF FlattenSeq, Flattened, Flattens

\* They exist, for every number of sequences.
LEMMA FlattensUpToEach ==
  ASSUME NEW seqs
  PROVE  \A n \in Nat : \E f : Flattens(f, seqs, n)
<1> DEFINE Bad == {n \in Nat : ~ \E f : Flattens(f, seqs, n)}
<1>1. SUFFICES ASSUME Bad # {} PROVE FALSE
  OBVIOUS
<1>2. PICK n \in Bad : \A m \in Bad : n <= m
  BY <1>1, LeastNumber
<1>3. n \in Nat /\ ~ \E f : Flattens(f, seqs, n)
  BY <1>2
<1>4. CASE n = 0
  <2> DEFINE new == [i \in 1 .. 0 |-> seqs[i]]
  <2>1. Flattens(new, seqs, 0)
    BY DEF Flattens
  <2> QED
    BY <1>3, <1>4, <2>1
<1>5. CASE n # 0
  <2>1. n - 1 \in Nat /\ ~(n <= n - 1)
    BY <1>3, <1>5
  <2>2. PICK old : Flattens(old, seqs, n - 1)
    BY <1>2, <2>1
  <2> DEFINE new == [i \in 1 .. n |-> IF i = 1 THEN seqs[i] ELSE old[i - 1] \o seqs[i]]
  <2>3. ASSUME NEW i \in 1 .. n - 1 PROVE new[i] = old[i]
    <3>1. old[i] = IF i = 1 THEN seqs[i] ELSE old[i - 1] \o seqs[i]
      BY <2>2 DEF Flattens
    <3> QED
      BY <1>3, <3>1
  <2>4. ASSUME NEW i \in 1 .. n, i # 1 PROVE new[i - 1] = old[i - 1]
    <3>1. i - 1 \in 1 .. n - 1
      BY <1>3, <2>4
    <3> QED
      BY <2>3, <3>1
  <2>5. new = [i \in 1 .. n |-> IF i = 1 THEN seqs[i] ELSE new[i - 1] \o seqs[i]]
    BY <2>4
  <2> HIDE DEF new
  <2> QED
    BY <1>3, <2>5 DEF Flattens
<1> QED
  BY <1>4, <1>5

\* Sequence i lies in flat behind cell start[i - 1], and nothing between them.
StartsOf(start, seqs) ==
    /\ start \in [0 .. Len(seqs) -> Nat]
    /\ start[0] = 0
    /\ \A i \in 1 .. Len(seqs) : start[i] = start[i - 1] + Len(seqs[i])

Placed(start, seqs, flat) ==
    /\ StartsOf(start, seqs)
    /\ Len(flat) = start[Len(seqs)]
    /\ \A i \in 1 .. Len(seqs), j \in Nat :
          j \in 1 .. Len(seqs[i]) => flat[start[i - 1] + j] = seqs[i][j]

\* Flattening gives the cells of each sequence in order, from where the
\* sequences before it end.
LEMMA FlattenedCells ==
  ASSUME NEW X, NEW seqs \in Seq(Seq(X))
  PROVE  /\ FlattenSeq(seqs) \in Seq(X)
         /\ \E start : Placed(start, seqs, FlattenSeq(seqs))
<1> DEFINE n == Len(seqs)
           f == Flattened(seqs)
           start == [i \in 0 .. n |-> IF i = 0 THEN 0 ELSE Len(f[i])]
           Cells(i) == /\ f[i] \in Seq(X)
                       /\ Len(f[i]) = start[i - 1] + Len(seqs[i])
                       /\ \A k \in 1 .. i, j \in Nat :
                             j \in 1 .. Len(seqs[k]) =>
                               /\ start[k - 1] + j \in 1 .. Len(f[i])
                               /\ f[i][start[k - 1] + j] = seqs[k][j]
           Bad == {i \in 1 .. n : ~Cells(i)}
<1>1. n \in Nat /\ \A i \in 1 .. n : seqs[i] \in Seq(X) /\ Len(seqs[i]) \in Nat
  OBVIOUS
<1>2. \A i \in 1 .. n : f[i] = IF i = 1 THEN seqs[i] ELSE f[i - 1] \o seqs[i]
  <2>1. \E g : Flattens(g, seqs, n)
    BY <1>1, FlattensUpToEach
  <2>2. Flattens(f, seqs, n)
    BY <2>1 DEF Flattened
  <2> HIDE DEF f, n
  <2> QED
    BY <2>2 DEF Flattens
<1>3. \A i \in 1 .. n : start[i] = Len(f[i])
  BY <1>1
<1>4. start[0] = 0
  BY <1>1
<1> HIDE DEF n, f, start
<1>5. ASSUME Bad # {} PROVE FALSE
  <2>1. Bad \subseteq Nat
    BY <1>1
  <2> HIDE DEF Bad
  <2>2. PICK i \in Bad : \A m \in Bad : i <= m
    BY <1>5, <2>1, LeastNumber
  <2>3. i \in 1 .. n /\ ~Cells(i)
    BY <2>2 DEF Bad
  <2>4. CASE i = 1
    <3>1. f[1] = seqs[1] /\ seqs[1] \in Seq(X)
      BY <1>1, <1>2, <2>3, <2>4
    <3>2. \A k \in 1 .. 1 : k = 1
      OBVIOUS
    <3>3. Cells(1)
      BY <1>1, <1>4, <3>1, <3>2
    <3> QED
      BY <2>3, <2>4, <3>3
  <2>5. CASE i # 1
    <3>1. i - 1 \in 1 .. n /\ ~(i <= i - 1)
      BY <1>1, <2>3, <2>5
    <3>2. Cells(i - 1)
      BY <2>2, <3>1 DEF Bad
    <3>3. f[i] = f[i - 1] \o seqs[i] /\ seqs[i] \in Seq(X) /\ f[i - 1] \in Seq(X)
      BY <1>1, <1>2, <2>3, <2>5, <3>2
    <3> DEFINE s == f[i - 1]
               t == seqs[i]
    <3>4. /\ f[i] \in Seq(X) /\ Len(f[i]) = Len(f[i - 1]) + Len(seqs[i])
          /\ \A x \in 1 .. Len(f[i - 1]) : x \in 1 .. Len(f[i]) /\ f[i][x] = f[i - 1][x]
          /\ \A j \in 1 .. Len(seqs[i]) :
                /\ Len(f[i - 1]) + j \in 1 .. Len(f[i])
                /\ f[i][Len(f[i - 1]) + j] = seqs[i][j]
      <4>1. f[i] = s \o t /\ s \in Seq(X) /\ t \in Seq(X)
        BY <3>3
      <4> HIDE DEF s, t
      <4>2. /\ f[i] \in Seq(X) /\ Len(f[i]) = Len(s) + Len(t)
            /\ \A x \in 1 .. Len(s) : x \in 1 .. Len(f[i]) /\ f[i][x] = s[x]
            /\ \A j \in 1 .. Len(t) : /\ Len(s) + j \in 1 .. Len(f[i])
                                      /\ f[i][Len(s) + j] = t[j]
        BY <4>1, ConcatenatedCells
      <4> QED
        BY <4>2 DEF s, t
    <3>5. start[i - 1] = Len(f[i - 1])
      BY <1>3, <3>1
    <3>8. ASSUME NEW k \in 1 .. i, NEW j \in Nat, j \in 1 .. Len(seqs[k])
          PROVE  /\ start[k - 1] + j \in 1 .. Len(f[i])
                 /\ f[i][start[k - 1] + j] = seqs[k][j]
      <4>1. CASE k = i
        BY <3>4, <3>5, <3>8, <4>1
      <4>2. CASE k # i
        <5>1. k \in 1 .. i - 1
          BY <2>3, <4>2
        <5>2. /\ start[k - 1] + j \in 1 .. Len(f[i - 1])
              /\ f[i - 1][start[k - 1] + j] = seqs[k][j]
          BY <3>2, <3>8, <5>1
        <5> QED
          BY <3>4, <5>2
      <4> QED
        BY <4>1, <4>2
    <3>9. Cells(i)
      BY <3>4, <3>5, <3>8
    <3> QED
      BY <2>3, <3>9
  <2> QED
    BY <2>4, <2>5
<1>6. \A i \in 1 .. n : Cells(i)
  BY <1>5
<1>7. StartsOf(start, seqs)
  <2>1. \A i \in 1 .. n : start[i] = start[i - 1] + Len(seqs[i])
    BY <1>3, <1>6
  <2>2. \A i \in 0 .. n : start[i] \in Nat
    <3>1. \A i \in 1 .. n : Len(f[i]) \in Nat
      BY <1>6
    <3> QED
      BY <1>1, <1>3, <1>4, <3>1
  <2>3. start = [i \in 0 .. n |-> start[i]]
    BY DEF start
  <2> QED
    BY <1>4, <2>1, <2>2, <2>3 DEF StartsOf, n
<1>8. CASE n = 0
  <2>1. FlattenSeq(seqs) = seqs /\ seqs = <<>> 
    BY <1>8 DEF FlattenSeq, n
  <2>2. /\ FlattenSeq(seqs) \in Seq(X) /\ Len(FlattenSeq(seqs)) = start[n]
        /\ 1 .. n = {}
    BY <1>4, <1>8, <2>1
  <2> QED
    BY <1>7, <2>2 DEF n, Placed
<1>9. CASE n # 0
  <2>1. FlattenSeq(seqs) = f[n]
    BY <1>9, FlattenSeqIs DEF f, n
  <2>2. n \in 1 .. n
    BY <1>1, <1>9
  <2>3. Cells(n)
    BY <1>6, <2>2
  <2>4. Len(f[n]) = start[n]
    BY <1>3, <2>2
  <2> QED
    <3>1. \A i \in 1 .. n, j \in Nat :
             j \in 1 .. Len(seqs[i]) => f[n][start[i - 1] + j] = seqs[i][j]
      BY <2>3
    <3>2. f[n] \in Seq(X)
      BY <2>3
    <3> HIDE DEF Cells
    <3> QED
      BY <1>7, <2>1, <2>4, <3>1, <3>2 DEF n, Placed
<1> QED
  BY <1>8, <1>9

----------------------------------------------------------------------------
(* Walks *)

\* A recursion over 1 .. N that goes on from the cells of going only, always to
\* a later cell, and f, its solution.
MovesForward(N, V, going, next, last, step) ==
    /\ N \in Nat /\ going \subseteq 1 .. N /\ last \in [1 .. N -> V]
    /\ \A c \in going : next[c] \in Nat /\ c < next[c] /\ next[c] <= N
    /\ \A c \in going : \A x \in V : step[c][x] \in V

Recursion(f, N, V, going, next, last, step) ==
    /\ f \in [1 .. N -> V]
    /\ \A c \in 1 .. N :
          f[c] = IF c \in going THEN step[c][f[next[c]]] ELSE last[c]

\* A recursion that only moves forward has a solution.
LEMMA ForwardRecursion ==
  ASSUME NEW N, NEW V, NEW going, NEW next, NEW last, NEW step,
         MovesForward(N, V, going, next, last, step)
  PROVE  \E f : Recursion(f, N, V, going, next, last, step)
<1> DEFINE Solves(f, n) ==
             /\ f \in [1 .. N -> V]
             /\ \A c \in 1 .. N : N - n < c =>
                   f[c] = IF c \in going THEN step[c][f[next[c]]] ELSE last[c]
           Bad == {n \in Nat : ~ \E f : Solves(f, n)}
<1>0. /\ N \in Nat /\ going \subseteq 1 .. N /\ last \in [1 .. N -> V]
      /\ \A c \in going : next[c] \in Nat /\ c < next[c] /\ next[c] <= N
      /\ \A c \in going : \A x \in V : step[c][x] \in V
  BY DEF MovesForward
<1>1. ASSUME Bad # {} PROVE FALSE
  <2>1. Bad \subseteq Nat
    OBVIOUS
  <2> HIDE DEF Bad
  <2>2. PICK n \in Bad : \A m \in Bad : n <= m
    BY <1>1, <2>1, LeastNumber
  <2>3. n \in Nat /\ ~ \E f : Solves(f, n)
    BY <2>2 DEF Bad
  <2>4. CASE n = 0
    <3>1. \A c \in 1 .. N : ~(N - 0 < c)
      BY <1>0
    <3>2. Solves(last, 0)
      BY <1>0, <3>1
    <3> QED
      BY <2>3, <2>4, <3>2
  <2>5. CASE n # 0
    <3>1. n - 1 \in Nat /\ ~(n <= n - 1)
      BY <2>3, <2>5
    <3>2. PICK old : Solves(old, n - 1)
      BY <2>2, <3>1 DEF Bad
    <3> DEFINE new == [c \in 1 .. N |->
                         IF c \in going THEN step[c][old[next[c]]] ELSE last[c]]
    <3>3. old \in [1 .. N -> V]
      BY <3>2
    <3>4. \A c \in going : next[c] \in 1 .. N
      BY <1>0
    <3>5. new \in [1 .. N -> V]
      BY <1>0, <3>3, <3>4
    <3>6. ASSUME NEW c \in 1 .. N, N - (n - 1) < c PROVE new[c] = old[c]
      <4>1. N - (n - 1) < c => old[c] = IF c \in going THEN step[c][old[next[c]]] ELSE last[c]
        BY <3>2, <3>6
      <4>2. new[c] = IF c \in going THEN step[c][old[next[c]]] ELSE last[c]
        OBVIOUS
      <4> HIDE DEF new
      <4> QED
        BY <3>6, <4>1, <4>2
    <3>7. ASSUME NEW c \in 1 .. N, N - n < c, c \in going
          PROVE  new[next[c]] = old[next[c]]
      <4>1. next[c] \in 1 .. N /\ c < next[c]
        BY <1>0, <3>4, <3>7
      <4>2. N - (n - 1) < next[c]
        BY <1>0, <2>3, <3>7, <4>1
      <4> QED
        BY <3>6, <4>1, <4>2
    <3>8. ASSUME NEW c \in 1 .. N, N - n < c
          PROVE  new[c] = IF c \in going THEN step[c][new[next[c]]] ELSE last[c]
      BY <3>7, <3>8
    <3> HIDE DEF new
    <3>9. Solves(new, n)
      BY <3>5, <3>8
    <3> QED
      BY <2>3, <3>9
  <2> QED
    BY <2>4, <2>5
<1>2. PICK f : Solves(f, N)
  BY <1>0, <1>1
<1>3. \A c \in 1 .. N : N - N < c
  BY <1>0
<1> QED
  BY <1>2, <1>3 DEF Recursion
===============================================================================
