------------------------ MODULE MintExtensions_proofs -------------------------
(***************************************************************************)
(* For every mint, whatever its extensions and whatever their bodies hold: *)
(* the walkers of the program read its account data as the token program   *)
(* wrote it, and the fee they read changes as announced.                   *)
(***************************************************************************)
EXTENDS MintExtensions, Inductions

----------------------------------------------------------------------------
(* The account data, cell by cell *)

\* The account data of a mint with these extensions.
DataOf(exts, zeros) ==
    FlattenSeq([i \in DOMAIN exts |-> Entry(exts[i])])
        \o [i \in 1 .. zeros |-> Uninitialized]

\* Entry i of the data starts at cell at[i], and zeros follow the last.
Describes(at, data, exts) ==
    LET n == Len(exts)
    IN  /\ data \in Seq(Nat)
        /\ at \in [1 .. n + 1 -> 1 .. Len(data) + 1]
        /\ at[1] = 1
        /\ \A i \in 1 .. n :
              /\ data[at[i]] = exts[i].type
              /\ EndOf(data, at[i]) = at[i + 1]
              /\ at[i] + 2 <= at[i + 1]
              /\ SubSeq(data, at[i] + 2, at[i + 1] - 1) = exts[i].body
        /\ \A c \in at[n + 1] .. Len(data) : data[c] = Uninitialized

\* An entry: type, length, body.
LEMMA EntryCells ==
  ASSUME NEW ext \in Extension
  PROVE  /\ Entry(ext) \in Seq(Nat)
         /\ Len(ext.body) \in Nat /\ Len(Entry(ext)) = 2 + Len(ext.body)
         /\ Entry(ext)[1] = ext.type /\ Entry(ext)[2] = Len(ext.body)
         /\ \A j \in 1 .. Len(ext.body) : Entry(ext)[2 + j] = ext.body[j]
<1> DEFINE head == <<ext.type, Len(ext.body)>>
           body == ext.body
<1>1. body \in Seq(Nat) /\ ext.type \in Nat
  BY DEF Extension
<1>2. head \in Seq(Nat) /\ Len(head) = 2 /\ head[1] = ext.type /\ head[2] = Len(body)
  BY <1>1
<1>3. Entry(ext) = head \o body
  BY DEF Entry
<1> HIDE DEF head, body
<1>4. /\ head \o body \in Seq(Nat)
      /\ Len(body) \in Nat
      /\ Len(head \o body) = Len(head) + Len(body)
      /\ \A i \in 1 .. Len(head) : (head \o body)[i] = head[i]
      /\ \A j \in 1 .. Len(body) : (head \o body)[Len(head) + j] = body[j]
  <2>1. head \in Seq(Nat) /\ body \in Seq(Nat)
    BY <1>1, <1>2
  <2> QED
    BY <2>1, ConcatenatedCells
<1>5. 1 \in 1 .. Len(head) /\ 2 \in 1 .. Len(head)
  BY <1>2
<1> QED
  BY <1>2, <1>3, <1>4, <1>5 DEF body

\* Sequences start one after the other.
LEMMA StartsRise ==
  ASSUME NEW seqs, Len(seqs) \in Nat, \A i \in 1 .. Len(seqs) : Len(seqs[i]) \in Nat,
         NEW start, StartsOf(start, seqs)
  PROVE  \A i \in 0 .. Len(seqs) : start[i] \in Nat /\ start[i] <= start[Len(seqs)]
<1> DEFINE n == Len(seqs)
           Bad == {k \in 0 .. n : ~(start[n - k] <= start[n])}
<1>1. /\ \A i \in 0 .. n : start[i] \in Nat
      /\ \A i \in 1 .. n : start[i] = start[i - 1] + Len(seqs[i])
  BY DEF StartsOf
<1>2. n \in Nat /\ \A i \in 1 .. n : Len(seqs[i]) \in Nat
  OBVIOUS
<1> HIDE DEF n
<1>3. ASSUME Bad # {} PROVE FALSE
  <2>1. Bad \subseteq Nat
    BY <1>2
  <2> HIDE DEF Bad
  <2>2. PICK k \in Bad : \A m \in Bad : k <= m
    BY <1>3, <2>1, LeastNumber
  <2>3. k \in 0 .. n /\ ~(start[n - k] <= start[n])
    BY <2>2 DEF Bad
  <2>4. k # 0
    <3>1. n - 0 = n /\ n \in 0 .. n
      BY <1>2
    <3>2. start[n] \in Nat
      BY <1>1, <3>1
    <3> QED
      BY <2>3, <3>1, <3>2
  <2>5. k - 1 \in 0 .. n /\ ~(k <= k - 1)
    BY <1>2, <2>3, <2>4
  <2>6. start[n - (k - 1)] <= start[n]
    BY <2>2, <2>5 DEF Bad
  <2>7. n - (k - 1) \in 1 .. n /\ (n - (k - 1)) - 1 = n - k /\ n - k \in 0 .. n
        /\ n \in 0 .. n
    BY <1>2, <2>3, <2>5
  <2>8. start[n - (k - 1)] = start[n - k] + Len(seqs[n - (k - 1)])
    BY <1>1, <2>7
  <2>9. /\ start[n - k] \in Nat /\ start[n - (k - 1)] \in Nat /\ start[n] \in Nat
        /\ Len(seqs[n - (k - 1)]) \in Nat
    BY <1>1, <1>2, <2>7
  <2> QED
    BY <2>3, <2>6, <2>8, <2>9
<1>4. ASSUME NEW i \in 0 .. n PROVE start[i] <= start[n]
  <2>1. n - i \in 0 .. n /\ n - (n - i) = i
    BY <1>2
  <2> QED
    BY <1>3, <2>1
<1> QED
  BY <1>1, <1>4 DEF n

\* Such data has cursors at which each entry starts.
LEMMA DataIsDescribed ==
  ASSUME NEW exts \in Seq(Extension), NEW zeros \in Nat
  PROVE  \E at : Describes(at, DataOf(exts, zeros), exts)
<1> DEFINE n == Len(exts)
           seqs == [i \in DOMAIN exts |-> Entry(exts[i])]
           flat == FlattenSeq(seqs)
           pad == [i \in 1 .. zeros |-> Uninitialized]
           data == DataOf(exts, zeros)
<1>1. n \in Nat /\ DOMAIN exts = 1 .. n /\ \A i \in 1 .. n : exts[i] \in Extension
  OBVIOUS
<1>2. \A i \in 1 .. n :
        /\ seqs[i] = Entry(exts[i]) /\ seqs[i] \in Seq(Nat)
        /\ Len(exts[i].body) \in Nat /\ Len(seqs[i]) = 2 + Len(exts[i].body)
        /\ exts[i].body \in Seq(Nat)
  BY <1>1, EntryCells DEF Extension
<1>3. seqs \in Seq(Seq(Nat)) /\ Len(seqs) = n
  BY <1>1, <1>2
<1>4. pad \in Seq(Nat) /\ Len(pad) = zeros /\ \A i \in 1 .. zeros : pad[i] = Uninitialized
  BY DEF Uninitialized
<1>5. data = flat \o pad
  BY DEF DataOf
<1> HIDE DEF n, seqs, flat, pad, data
<1>6. PICK start : Placed(start, seqs, flat)
  <2>1. \E start : Placed(start, seqs, FlattenSeq(seqs))
    BY <1>3, FlattenedCells
  <2> QED
    BY <2>1 DEF flat
<1>6a. flat \in Seq(Nat)
  <2>1. FlattenSeq(seqs) \in Seq(Nat)
    BY <1>3, FlattenedCells
  <2> QED
    BY <2>1 DEF flat
<1>6b. /\ StartsOf(start, seqs)
       /\ Len(flat) = start[n]
       /\ \A i \in 1 .. n, j \in Nat :
             j \in 1 .. Len(seqs[i]) => flat[start[i - 1] + j] = seqs[i][j]
  BY <1>3, <1>6 DEF Placed
<1>7. /\ data \in Seq(Nat) /\ Len(data) = start[n] + zeros
      /\ \A c \in 1 .. start[n] : data[c] = flat[c]
      /\ \A c \in 1 .. zeros : data[start[n] + c] = Uninitialized
  <2>1. flat \in Seq(Nat) /\ pad \in Seq(Nat)
    BY <1>4, <1>6a
  <2>2. /\ flat \o pad \in Seq(Nat)
        /\ Len(flat \o pad) = Len(flat) + Len(pad)
        /\ \A c \in 1 .. Len(flat) : (flat \o pad)[c] = flat[c]
        /\ \A c \in 1 .. Len(pad) : (flat \o pad)[Len(flat) + c] = pad[c]
    BY <2>1, ConcatenatedCells
  <2> QED
    BY <1>4, <1>5, <1>6b, <2>2
<1>8. /\ \A i \in 0 .. n : start[i] \in Nat /\ start[i] <= start[n]
      /\ start[0] = 0
      /\ \A i \in 1 .. n : start[i] = start[i - 1] + 2 + Len(exts[i].body)
  <2>1. \A i \in 0 .. n : start[i] \in Nat /\ start[i] <= start[n]
    <3>1. Len(seqs) = n /\ Len(seqs) \in Nat
      BY <1>1, <1>3
    <3>2. \A i \in 1 .. Len(seqs) : Len(seqs[i]) \in Nat
      BY <1>2, <3>1
    <3>3. StartsOf(start, seqs)
      BY <1>6b
    <3>4. \A i \in 0 .. Len(seqs) : start[i] \in Nat /\ start[i] <= start[Len(seqs)]
      BY <3>1, <3>2, <3>3, StartsRise
    <3> QED
      BY <3>1, <3>4
  <2>2. start[0] = 0 /\ \A i \in 1 .. n : start[i] = start[i - 1] + Len(seqs[i])
    BY <1>3, <1>6b DEF StartsOf
  <2>3. ASSUME NEW i \in 1 .. n
        PROVE  start[i] = start[i - 1] + 2 + Len(exts[i].body)
    <3>1. i - 1 \in 0 .. n
      BY <1>1
    <3> DEFINE a == start[i - 1]
               b == Len(exts[i].body)
    <3>2. start[i] = a + Len(seqs[i]) /\ Len(seqs[i]) = 2 + b /\ b \in Nat /\ a \in Nat
      BY <1>2, <2>1, <2>2, <3>1
    <3>3. start[i] = a + 2 + b
      <4> HIDE DEF a, b
      <4> QED
        BY <3>2
    <3> QED
      BY <3>3
  <2> QED
    BY <2>1, <2>2, <2>3
<1>9. start[n] \in Nat /\ n \in 0 .. n
  BY <1>1, <1>8
<1> DEFINE at == [i \in 1 .. n + 1 |-> start[i - 1] + 1]
<1>10. at \in [1 .. n + 1 -> 1 .. Len(data) + 1] /\ at[1] = 1
  <2>1. ASSUME NEW i \in 1 .. n + 1 PROVE start[i - 1] + 1 \in 1 .. Len(data) + 1
    <3>1. i - 1 \in 0 .. n
      BY <1>1
    <3>2. start[i - 1] \in Nat /\ start[i - 1] <= start[n]
      BY <1>8, <3>1
    <3> QED
      BY <1>7, <1>9, <3>2
  <2>2. 1 \in 1 .. n + 1 /\ 1 - 1 = 0
    BY <1>1
  <2>3. at[1] = start[0] + 1
    BY <2>2
  <2> QED
    BY <1>8, <2>1, <2>3
<1>11. ASSUME NEW i \in 1 .. n
       PROVE  /\ data[at[i]] = exts[i].type
              /\ EndOf(data, at[i]) = at[i + 1]
              /\ at[i] + 2 <= at[i + 1]
              /\ SubSeq(data, at[i] + 2, at[i + 1] - 1) = exts[i].body
  <2> DEFINE s == start[i - 1]
             body == exts[i].body
             k == Len(body)
  <2>1. /\ i - 1 \in 0 .. n /\ i \in 0 .. n /\ i \in 1 .. n + 1 /\ i + 1 \in 1 .. n + 1
        /\ (i + 1) - 1 = i
    BY <1>1
  <2>2. s \in Nat /\ k \in Nat /\ start[i] = s + 2 + k /\ start[i] <= start[n]
    BY <1>2, <1>8, <2>1
  <2>3. at[i] = s + 1 /\ at[i + 1] = s + 3 + k
    <3>1. at[i] = s + 1 /\ at[i + 1] = start[i] + 1
      BY <2>1
    <3> HIDE DEF at, s, k, body
    <3> QED
      BY <2>2, <3>1
  <2>4. body \in Seq(Nat) /\ exts[i] \in Extension
    BY <1>1, <1>2
  <2>5. ASSUME NEW j \in 1 .. 2 + k PROVE data[s + j] = Entry(exts[i])[j]
    <3>1. j \in Nat /\ j \in 1 .. Len(seqs[i])
      BY <1>2, <2>2
    <3>2. s + j \in 1 .. start[n]
      <4> HIDE DEF s, k, body
      <4> QED
        BY <1>9, <2>2, <2>5
    <3>3. flat[s + j] = seqs[i][j]
      BY <1>6b, <3>1
    <3> QED
      BY <1>2, <1>7, <3>2, <3>3
  <2> HIDE DEF s, k, body
  <2>6. 1 \in 1 .. 2 + k /\ 2 \in 1 .. 2 + k
    BY <2>2
  <2>7. data[s + 1] = exts[i].type /\ data[s + 2] = k
    BY <2>4, <2>5, <2>6, EntryCells DEF k, body
  <2>8. ASSUME NEW j \in 1 .. k PROVE data[s + 2 + j] = body[j]
    <3>1. 2 + j \in 1 .. 2 + k /\ s + (2 + j) = s + 2 + j
      BY <2>2
    <3>2. data[s + (2 + j)] = Entry(exts[i])[2 + j]
      BY <2>5, <3>1
    <3>3. Entry(exts[i])[2 + j] = exts[i].body[j]
      BY <2>4, EntryCells DEF k, body
    <3> QED
      BY <3>1, <3>2, <3>3 DEF body
  <2> DEFINE sub == SubSeq(data, s + 3, s + 2 + k)
  <2>9. /\ sub \in Seq(Nat) /\ Len(sub) = k
        /\ \A j \in 1 .. k : sub[j] = data[s + 3 + j - 1]
    <3>1. s + 3 \in 1 .. Len(data) + 1 /\ s + 2 + k \in s + 3 - 1 .. Len(data)
      BY <1>7, <1>9, <2>2
    <3>2. (s + 2 + k) - (s + 3) + 1 = k
      BY <2>2
    <3> QED
      BY <1>7, <2>2, <3>1, <3>2, SubSeqProperties
  <2>10. sub = body
    <3>1. \A j \in 1 .. k : s + 3 + j - 1 = s + 2 + j
      BY <2>2
    <3>2. \A j \in 1 .. k : sub[j] = body[j]
      BY <2>8, <2>9, <3>1
    <3>3. Len(body) = k
      BY DEF k
    <3> HIDE DEF sub
    <3> QED
      BY <2>4, <2>9, <3>2, <3>3, SeqEqual
  <2>11. EndOf(data, s + 1) = s + 3 + k
    <3>1. s + 1 + 1 = s + 2
      BY <2>2
    <3>2. EndOf(data, s + 1) = s + 1 + 2 + data[s + 2]
      BY <3>1 DEF EndOf
    <3> QED
      BY <2>2, <2>7, <3>2
  <2>12. /\ (s + 1) + 2 = s + 3 /\ (s + 3 + k) - 1 = s + 2 + k
         /\ (s + 1) + 2 <= s + 3 + k
    BY <2>2
  <2> HIDE DEF at
  <2> QED
    BY <2>3, <2>7, <2>10, <2>11, <2>12 DEF body
<1>12. ASSUME NEW c \in at[n + 1] .. Len(data) PROVE data[c] = Uninitialized
  <2>1. n + 1 \in 1 .. n + 1 /\ (n + 1) - 1 = n
    BY <1>1
  <2>2. at[n + 1] = start[n] + 1
    BY <2>1
  <2> HIDE DEF at
  <2>3. c - start[n] \in 1 .. zeros /\ start[n] + (c - start[n]) = c
    BY <1>7, <1>9, <2>2
  <2> QED
    BY <1>7, <2>3
<1> HIDE DEF at
<1>13. Describes(at, data, exts)
  BY <1>7, <1>10, <1>11, <1>12 DEF Describes, n
<1> QED
  BY <1>13 DEF data

----------------------------------------------------------------------------
(* The walk over the extensions *)

\* The walk of Entries stops at this cursor, or reads one entry here.
Stops(data, c) ==
    \/ c + 1 > Len(data)
    \/ data[c] = Uninitialized
    \/ EndOf(data, c) > Len(data) + 1
ReadAt(data, c) ==
    [type |-> data[c], body |-> SubSeq(data, c + 2, EndOf(data, c) - 1)]

WalksEntries(walk, data) ==
    walk = [cursor \in 1 .. Len(data) + 1 |->
              IF Stops(data, cursor) THEN <<>>
              ELSE <<ReadAt(data, cursor)>> \o walk[NextEntry(data, cursor)]]
EntryWalk(data) == CHOOSE walk : WalksEntries(walk, data)

\* The entries are the value of the walk at the first cell.
LEMMA EntriesIs ==
  ASSUME NEW data
  PROVE  Entries(data) = EntryWalk(data)[1]
BY DEF Entries, EntryWalk, WalksEntries, Stops, ReadAt

\* The walk exists: its cursor only moves forward.
LEMMA EntryWalkWalks ==
  ASSUME NEW data \in Seq(Nat)
  PROVE  WalksEntries(EntryWalk(data), data)
<1> DEFINE N == Len(data) + 1
           V == Seq(Extension)
           going == {c \in 1 .. N : ~Stops(data, c)}
           next == [c \in 1 .. N |-> EndOf(data, c)]
           last == [c \in 1 .. N |-> <<>>]
           step == [c \in 1 .. N |-> [x \in V |-> <<ReadAt(data, c)>> \o x]]
<1>1. N \in Nat
  OBVIOUS
<1>2. ASSUME NEW c \in going
      PROVE  /\ next[c] \in Nat /\ c < next[c] /\ next[c] <= N
             /\ next[c] = EndOf(data, c)
             /\ ReadAt(data, c) \in Extension
  <2>1. c \in 1 .. N /\ c + 1 \in 1 .. Len(data) /\ c \in 1 .. Len(data)
        /\ EndOf(data, c) <= N
    <3>1. c \in 1 .. N /\ ~Stops(data, c)
      OBVIOUS
    <3> DEFINE end == EndOf(data, c)
    <3>2. ~(c + 1 > Len(data)) /\ ~(end > Len(data) + 1)
      BY <3>1 DEF Stops
    <3>3. Len(data) \in Nat
      OBVIOUS
    <3>4. end \in Int
      <4>1. data[c + 1] \in Nat
        BY <3>1, <3>2
      <4> QED
        BY <3>1, <4>1 DEF EndOf
    <3> HIDE DEF end
    <3> QED
      BY <3>1, <3>2, <3>3, <3>4 DEF end
  <2>2. data[c] \in Nat /\ data[c + 1] \in Nat
    BY <2>1
  <2>3. EndOf(data, c) = c + 2 + data[c + 1]
    BY DEF EndOf
  <2>4. EndOf(data, c) \in Nat /\ c < EndOf(data, c)
    BY <2>1, <2>2, <2>3
  <2>5. next[c] = EndOf(data, c)
    BY <2>1
  <2> DEFINE from == c + 2
             to == EndOf(data, c) - 1
  <2>6. from \in Int /\ to \in Int /\ \A i \in from .. to : data[i] \in Nat
    <3>1. \A i \in from .. to : i \in 1 .. Len(data)
      BY <2>1, <2>4
    <3> QED
      BY <2>4, <3>1
  <2> HIDE DEF from, to
  <2>7. SubSeq(data, from, to) \in Seq(Nat)
    BY <2>6, SubSeqProperties
  <2>8. ReadAt(data, c) \in Extension
    BY <2>2, <2>7 DEF ReadAt, Extension, from, to
  <2> QED
    BY <2>1, <2>4, <2>5, <2>8
<1>3. going \in SUBSET (1 .. N)
  OBVIOUS
<1>4. last \in [1 .. N -> V]
  OBVIOUS
<1>5. ASSUME NEW c \in going, NEW x \in V
      PROVE  step[c][x] \in V /\ step[c][x] = <<ReadAt(data, c)>> \o x
  <2>1. c \in 1 .. N
    OBVIOUS
  <2>2. step[c][x] = <<ReadAt(data, c)>> \o x
    BY <2>1
  <2>3. <<ReadAt(data, c)>> \in Seq(Extension)
    BY <1>2
  <2>4. \A s, t \in Seq(Extension) : s \o t \in Seq(Extension)
    OBVIOUS
  <2> QED
    BY <2>2, <2>3, <2>4
<1>6. \A c \in going : next[c] \in Nat /\ c < next[c] /\ next[c] <= N
  BY <1>2
<1>6a. \A c \in going, x \in V : step[c][x] \in V
  BY <1>5
<1> HIDE DEF N, V, going, next, last, step
<1>6b. MovesForward(N, V, going, next, last, step)
  BY <1>1, <1>3, <1>4, <1>6, <1>6a DEF MovesForward
<1>6c. PICK f : Recursion(f, N, V, going, next, last, step)
  BY <1>6b, ForwardRecursion
<1>7. /\ f \in [1 .. N -> V]
      /\ \A c \in 1 .. N :
            f[c] = IF c \in going THEN step[c][f[next[c]]] ELSE last[c]
  BY <1>6c DEF Recursion
<1>8. ASSUME NEW c \in 1 .. N
      PROVE  f[c] = IF Stops(data, c) THEN <<>>
                    ELSE <<ReadAt(data, c)>> \o f[NextEntry(data, c)]
  <2>1. CASE c \in going
    <3>1. next[c] \in 1 .. N /\ next[c] = NextEntry(data, c)
      BY <1>1, <1>2, <2>1 DEF NextEntry
    <3>2. f[next[c]] \in V
      BY <1>7, <3>1
    <3>3. step[c][f[next[c]]] = <<ReadAt(data, c)>> \o f[next[c]]
      BY <1>5, <2>1, <3>2
    <3>4. ~Stops(data, c)
      BY <2>1 DEF going
    <3> QED
      BY <1>7, <2>1, <3>1, <3>3, <3>4
  <2>2. CASE c \notin going
    <3>1. Stops(data, c)
      BY <2>2 DEF going
    <3>2. last[c] = <<>>
      BY DEF last
    <3> QED
      BY <1>7, <2>2, <3>1, <3>2
  <2> QED
    BY <2>1, <2>2
<1>9. WalksEntries(f, data)
  <2>1. f = [c \in 1 .. N |-> f[c]]
    BY <1>7
  <2>2. f = [c \in 1 .. N |-> IF Stops(data, c) THEN <<>>
                              ELSE <<ReadAt(data, c)>> \o f[NextEntry(data, c)]]
    BY <1>8, <2>1
  <2> QED
    BY <2>2 DEF WalksEntries, N
<1> QED
  BY <1>9 DEF EntryWalk

\* What is described by a list of extensions is read back as that list.
LEMMA EntriesAreExtensions ==
  ASSUME NEW exts \in Seq(Extension), NEW data, NEW at, Describes(at, data, exts),
         \A i \in 1 .. Len(exts) : exts[i].type # Uninitialized
  PROVE  Entries(data) = exts
<1> DEFINE n == Len(exts)
           walk == EntryWalk(data)
           Rest(i) == SubSeq(exts, i, n)
           Bad == {k \in 0 .. n : walk[at[n + 1 - k]] # Rest(n + 1 - k)}
<1>1. n \in Nat /\ \A i \in 1 .. n : exts[i] \in Extension
  OBVIOUS
<1>2. data \in Seq(Nat) /\ at[1] = 1 /\ Len(data) \in Nat
  BY DEF Describes
<1>3. \A i \in 1 .. n + 1 : at[i] \in 1 .. Len(data) + 1
  BY DEF Describes
<1>4. \A i \in 1 .. n : /\ data[at[i]] = exts[i].type
                        /\ EndOf(data, at[i]) = at[i + 1]
                        /\ at[i] + 2 <= at[i + 1]
                        /\ SubSeq(data, at[i] + 2, at[i + 1] - 1) = exts[i].body
  BY DEF Describes
<1>5. \A c \in at[n + 1] .. Len(data) : data[c] = Uninitialized
  BY DEF Describes
<1>6. \A i \in 1 .. n : exts[i].type # Uninitialized
  OBVIOUS
<1>7. \A c \in 1 .. Len(data) + 1 :
         walk[c] = IF Stops(data, c) THEN <<>>
                   ELSE <<ReadAt(data, c)>> \o walk[NextEntry(data, c)]
  <2>1. WalksEntries(walk, data)
    BY <1>2, EntryWalkWalks
  <2> HIDE DEF walk
  <2> QED
    BY <2>1 DEF WalksEntries
<1> HIDE DEF walk, n
<1>8. ASSUME Bad # {} PROVE FALSE
  <2>1. Bad \subseteq Nat
    BY <1>1
  <2> HIDE DEF Bad
  <2>2. PICK k \in Bad : \A m \in Bad : k <= m
    BY <1>8, <2>1, LeastNumber
  <2>3. k \in 0 .. n /\ walk[at[n + 1 - k]] # Rest(n + 1 - k)
    BY <2>2 DEF Bad
  <2>4. CASE k = 0
    <3>1. n + 1 - 0 = n + 1 /\ n + 1 \in 1 .. n + 1 /\ n + 1 \in Int /\ n \in Int /\ n < n + 1
      BY <1>1
    <3>2. Rest(n + 1) = <<>>
      BY <3>1, SubSeqEmpty
    <3>3. at[n + 1] \in 1 .. Len(data) + 1
      BY <1>3, <3>1
    <3>4. Stops(data, at[n + 1])
      <4>1. CASE at[n + 1] = Len(data) + 1
        BY <1>2, <4>1 DEF Stops
      <4>2. CASE at[n + 1] # Len(data) + 1
        BY <1>2, <1>5, <3>3, <4>2 DEF Stops
      <4> QED
        BY <4>1, <4>2
    <3>5. walk[at[n + 1]] = <<>>
      BY <1>7, <3>3, <3>4
    <3> QED
      BY <2>3, <2>4, <3>1, <3>2, <3>5
  <2>5. CASE k # 0
    <3> DEFINE i == n + 1 - k
    <3>1. /\ i \in 1 .. n /\ i \in 1 .. n + 1 /\ i + 1 \in 1 .. n + 1
          /\ k - 1 \in 0 .. n /\ ~(k <= k - 1) /\ n + 1 - (k - 1) = i + 1
          /\ n \in i .. n
      BY <1>1, <2>3, <2>5
    <3>2. walk[at[i + 1]] = Rest(i + 1)
      BY <2>2, <3>1 DEF Bad
    <3> HIDE DEF i
    <3>3. at[i] \in 1 .. Len(data) + 1 /\ at[i + 1] \in 1 .. Len(data) + 1
      BY <1>3, <3>1
    <3>4. ~Stops(data, at[i])
      <4> DEFINE a == at[i]
                 b == at[i + 1]
      <4>1. /\ a \in 1 .. Len(data) + 1 /\ b \in 1 .. Len(data) + 1 /\ a + 2 <= b
            /\ EndOf(data, a) = b /\ data[a] # Uninitialized
        BY <1>4, <1>6, <3>1, <3>3
      <4> HIDE DEF a, b
      <4>2. ~(a + 1 > Len(data)) /\ ~(b > Len(data) + 1)
        BY <1>2, <4>1
      <4> QED
        BY <4>1, <4>2 DEF Stops, a
    <3>5. ReadAt(data, at[i]) = exts[i]
      <4>1. ReadAt(data, at[i]) = [type |-> exts[i].type, body |-> exts[i].body]
        BY <1>4, <3>1 DEF ReadAt
      <4>2. exts[i] \in Extension
        BY <1>1, <3>1
      <4> QED
        BY <4>1, <4>2 DEF Extension
    <3>6. NextEntry(data, at[i]) = at[i + 1]
      BY <1>4, <3>1 DEF NextEntry
    <3>7. walk[at[i]] = <<exts[i]>> \o Rest(i + 1)
      BY <1>7, <3>2, <3>3, <3>4, <3>5, <3>6
    <3>8. Rest(i) = <<exts[i]>> \o Rest(i + 1)
      BY <3>1, SubSeqRecursiveFirst DEF n
    <3> QED
      BY <2>3, <3>7, <3>8 DEF i
  <2> QED
    BY <2>4, <2>5
<1>9. walk[at[1]] = Rest(1)
  <2>1. n \in 0 .. n /\ n + 1 - n = 1
    BY <1>1
  <2>2. n \notin Bad
    BY <1>8
  <2> QED
    BY <2>1, <2>2
<1>10. Rest(1) = exts
  BY SubSeqFull DEF n
<1> QED
  BY <1>2, <1>9, <1>10, EntriesIs DEF walk

\* What the token program writes is read back, for every list of extensions and
\* every padding: the walk of token_2022.rs inverts the layout of the account.
THEOREM EntriesAreReadBack ==
  ASSUME NEW exts \in Seq(Extension), NEW zeros \in Nat,
         \A i \in 1 .. Len(exts) : exts[i].type # Uninitialized
  PROVE  Entries(DataOf(exts, zeros)) = exts
<1>1. PICK at : Describes(at, DataOf(exts, zeros), exts)
  BY DataIsDescribed
<1> QED
  BY <1>1, EntriesAreExtensions

----------------------------------------------------------------------------
(* The walk of create_vault *)

\* The least of two numbers.
LEMMA MinOfTwo ==
  ASSUME NEW a \in Nat, NEW b \in Nat
  PROVE  Min({a, b}) = IF a <= b THEN a ELSE b
<1> DEFINE m == IF a <= b THEN a ELSE b
           IsMin(x) == x \in {a, b} /\ \A y \in {a, b} : x <= y
<1>1. IsMin(m)
  OBVIOUS
<1>2. \A x : IsMin(x) => x = m
  OBVIOUS
<1>3. Min({a, b}) = CHOOSE x : IsMin(x)
  BY DEF Min
<1> HIDE DEF IsMin, m
<1>4. Min({a, b}) = m
  BY <1>1, <1>2, <1>3
<1> QED
  BY <1>4 DEF m

\* The least of one number.
LEMMA MinOfOne ==
  ASSUME NEW a \in Nat
  PROVE  Min({a}) = a
BY DEF Min

\* The walk of CheckNoNonTransferableExtension.
After(data, c) == Min({EndOf(data, c), Len(data) + 1})
WalksTypes(walk, data) ==
    walk = [cursor \in 1 .. Len(data) + 1 |->
              IF cursor + 1 > Len(data) THEN TRUE
              ELSE data[cursor] # NonTransferable /\ walk[After(data, cursor)]]
TypeWalk(data) == CHOOSE walk : WalksTypes(walk, data)

\* The check is the value of its walk at the first cell.
LEMMA CheckIs ==
  ASSUME NEW data
  PROVE  CheckNoNonTransferableExtension(data) = TypeWalk(data)[1]
BY DEF CheckNoNonTransferableExtension, TypeWalk, WalksTypes, After

\* The next cursor is ahead of this one and never beyond the end.
LEMMA AfterIsAhead ==
  ASSUME NEW data \in Seq(Nat), NEW c \in 1 .. Len(data) + 1, ~(c + 1 > Len(data))
  PROVE  /\ EndOf(data, c) \in Nat /\ After(data, c) \in Nat
         /\ After(data, c) = IF EndOf(data, c) <= Len(data) + 1 THEN EndOf(data, c)
                             ELSE Len(data) + 1
         /\ c < After(data, c) /\ After(data, c) <= Len(data) + 1
         /\ c + 2 <= EndOf(data, c)
<1> DEFINE N == Len(data)
           end == EndOf(data, c)
<1>1. N \in Nat /\ c \in 1 .. N + 1 /\ ~(c + 1 > N)
  OBVIOUS
<1>2. end \in Nat /\ c + 2 <= end
  <2>1. data[c + 1] \in Nat
    BY <1>1
  <2> QED
    BY <1>1, <2>1 DEF EndOf
<1>3. After(data, c) = Min({end, N + 1})
  BY DEF After
<1> HIDE DEF N, end
<1>4. After(data, c) = IF end <= N + 1 THEN end ELSE N + 1
  BY <1>1, <1>2, <1>3, MinOfTwo
<1>5. /\ end \in Nat /\ After(data, c) \in Nat
      /\ c < After(data, c) /\ After(data, c) <= N + 1
  BY <1>1, <1>2, <1>4
<1> QED
  BY <1>2, <1>4, <1>5 DEF N, end

\* The walk exists: its cursor only moves forward.
LEMMA TypeWalkWalks ==
  ASSUME NEW data \in Seq(Nat)
  PROVE  WalksTypes(TypeWalk(data), data)
<1> DEFINE N == Len(data) + 1
           going == {c \in 1 .. N : ~(c + 1 > Len(data))}
           next == [c \in 1 .. N |-> After(data, c)]
           last == [c \in 1 .. N |-> TRUE]
           step == [c \in 1 .. N |-> [x \in BOOLEAN |-> data[c] # NonTransferable /\ x]]
<1>1. N \in Nat
  OBVIOUS
<1>2. ASSUME NEW c \in going
      PROVE  /\ next[c] \in Nat /\ c < next[c] /\ next[c] <= N
             /\ next[c] = After(data, c)
  <2>1. c \in 1 .. N /\ c \in 1 .. Len(data) + 1 /\ ~(c + 1 > Len(data))
    OBVIOUS
  <2>2. next[c] = After(data, c)
    BY <2>1
  <2> HIDE DEF next, going
  <2> QED
    BY <2>1, <2>2, AfterIsAhead
<1>3. going \subseteq 1 .. N
  OBVIOUS
<1>4. last \in [1 .. N -> BOOLEAN]
  OBVIOUS
<1>5. ASSUME NEW c \in going, NEW x \in BOOLEAN
      PROVE  step[c][x] \in BOOLEAN /\ step[c][x] = (data[c] # NonTransferable /\ x)
  <2>1. c \in 1 .. N
    OBVIOUS
  <2>2. step[c] = [y \in BOOLEAN |-> data[c] # NonTransferable /\ y]
    BY <2>1
  <2>3. step[c][x] = (data[c] # NonTransferable /\ x)
    BY <2>2
  <2> HIDE DEF step
  <2> QED
    BY <2>3
<1>6. \A c \in going : next[c] \in Nat /\ c < next[c] /\ next[c] <= N
  BY <1>2
<1>7. \A c \in going, x \in BOOLEAN : step[c][x] \in BOOLEAN
  BY <1>5
<1> HIDE DEF N, going, next, last, step
<1>8. MovesForward(N, BOOLEAN, going, next, last, step)
  BY <1>1, <1>3, <1>4, <1>6, <1>7 DEF MovesForward
<1>9. PICK f : Recursion(f, N, BOOLEAN, going, next, last, step)
  BY <1>8, ForwardRecursion
<1>10. /\ f \in [1 .. N -> BOOLEAN]
       /\ \A c \in 1 .. N :
             f[c] = IF c \in going THEN step[c][f[next[c]]] ELSE last[c]
  BY <1>9 DEF Recursion
<1>11. ASSUME NEW c \in 1 .. N
       PROVE  f[c] = IF c + 1 > Len(data) THEN TRUE
                     ELSE data[c] # NonTransferable /\ f[After(data, c)]
  <2>1. CASE c \in going
    <3>1. next[c] \in 1 .. N /\ next[c] = After(data, c)
      BY <1>1, <1>2, <2>1
    <3>2. f[next[c]] \in BOOLEAN
      BY <1>10, <3>1
    <3>3. step[c][f[next[c]]] = (data[c] # NonTransferable /\ f[next[c]])
      BY <1>5, <2>1, <3>2
    <3>4. ~(c + 1 > Len(data))
      BY <2>1 DEF going
    <3> QED
      BY <1>10, <2>1, <3>1, <3>3, <3>4
  <2>2. CASE c \notin going
    <3>1. c + 1 > Len(data)
      BY <2>2 DEF going
    <3>2. last[c] = TRUE
      BY DEF last
    <3> QED
      BY <1>10, <2>2, <3>1, <3>2
  <2> QED
    BY <2>1, <2>2
<1>12. WalksTypes(f, data)
  <2>1. f = [c \in 1 .. N |-> f[c]]
    BY <1>10
  <2>2. f = [c \in 1 .. N |-> IF c + 1 > Len(data) THEN TRUE
                              ELSE data[c] # NonTransferable /\ f[After(data, c)]]
    BY <1>11, <2>1
  <2> QED
    BY <2>2 DEF WalksTypes, N
<1> QED
  BY <1>12 DEF TypeWalk

\* The walk meets the type of each entry and no other cell but zeros.
LEMMA CheckFindsNonTransferable ==
  ASSUME NEW exts \in Seq(Extension), NEW data, NEW at, Describes(at, data, exts)
  PROVE  CheckNoNonTransferableExtension(data)
           <=> \A i \in 1 .. Len(exts) : exts[i].type # NonTransferable
<1> DEFINE n == Len(exts)
           N == Len(data)
           walk == TypeWalk(data)
           Good(i) == \A j \in i .. n : exts[j].type # NonTransferable
           Passes(c) == walk[c] = TRUE
           BadCell == {k \in 0 .. N + 1 - at[n + 1] : ~Passes(N + 1 - k)}
           Bad == {k \in 0 .. n : ~(Passes(at[n + 1 - k]) <=> Good(n + 1 - k))}
<1>1. n \in Nat /\ N \in Nat /\ data \in Seq(Nat) /\ at[1] = 1
  BY DEF Describes
<1>2. \A i \in 1 .. n + 1 : at[i] \in 1 .. N + 1
  BY DEF Describes
<1>3. \A i \in 1 .. n : /\ data[at[i]] = exts[i].type
                        /\ EndOf(data, at[i]) = at[i + 1]
                        /\ at[i] + 2 <= at[i + 1]
  BY DEF Describes
<1>4. \A c \in at[n + 1] .. N : data[c] = Uninitialized
  BY DEF Describes
<1>4a. \A c \in 1 .. N + 1 :
         walk[c] = IF c + 1 > N THEN TRUE
                   ELSE data[c] # NonTransferable /\ walk[After(data, c)]
  <2>1. WalksTypes(walk, data)
    BY <1>1, TypeWalkWalks
  <2> HIDE DEF walk
  <2> QED
    BY <2>1 DEF WalksTypes
<1>4b. \A c \in 1 .. N + 1 : walk[c] \in BOOLEAN
  BY <1>4a
<1>4c. \A c \in 1 .. N + 1 : ~(c + 1 > N) => After(data, c) \in 1 .. N + 1
  BY <1>1, AfterIsAhead
<1>5. \A c \in 1 .. N + 1 :
         Passes(c) <=> (c + 1 > N \/ (data[c] # NonTransferable /\ Passes(After(data, c))))
  BY <1>4a, <1>4b, <1>4c
<1>6. \A c \in 1 .. N + 1 : ~(c + 1 > N) =>
         /\ EndOf(data, c) \in Nat /\ After(data, c) \in Nat
         /\ After(data, c) = IF EndOf(data, c) <= N + 1 THEN EndOf(data, c) ELSE N + 1
         /\ c < After(data, c) /\ After(data, c) <= N + 1
  BY <1>1, AfterIsAhead
<1>7. at[n + 1] \in 1 .. N + 1
  BY <1>1, <1>2
<1> HIDE DEF walk, n, N, Passes, Good
<1>8. ASSUME BadCell # {} PROVE FALSE
  <2>1. BadCell \subseteq Nat
    BY <1>1, <1>7
  <2> HIDE DEF BadCell
  <2>2. PICK k \in BadCell : \A m \in BadCell : k <= m
    BY <1>8, <2>1, LeastNumber
  <2> DEFINE c == N + 1 - k
             a == at[n + 1]
  <2>3. k \in 0 .. N + 1 - a /\ ~Passes(c)
    BY <2>2 DEF BadCell
  <2>4. a \in 1 .. N + 1
    BY <1>7
  <2>5. \A m \in 0 .. N + 1 - a : m < k => Passes(N + 1 - m)
    BY <1>1, <2>2, <2>3, <2>4 DEF BadCell
  <2>6. \A x \in a .. N : data[x] = Uninitialized
    BY <1>4
  <2> HIDE DEF a
  <2>7. c \in 1 .. N + 1 /\ c \in a .. N + 1 /\ k \in Nat /\ a \in Nat
    BY <1>1, <2>3, <2>4
  <2>8. ~(c + 1 > N)
    BY <1>5, <2>3, <2>7
  <2> DEFINE d == After(data, c)
  <2>9. d \in Nat /\ c < d /\ d <= N + 1
    BY <1>6, <2>7, <2>8
  <2>10. data[c] = Uninitialized
    BY <1>1, <2>6, <2>7, <2>8
  <2>11. Passes(d)
    <3> HIDE DEF d
    <3>1. N + 1 - d \in 0 .. N + 1 - a /\ N + 1 - d < k /\ N + 1 - (N + 1 - d) = d
      BY <1>1, <2>7, <2>9
    <3> QED
      BY <2>5, <3>1
  <2>12. Passes(c) <=> data[c] # NonTransferable /\ Passes(d)
    BY <1>5, <2>7, <2>8
  <2> HIDE DEF c, d
  <2> QED
    BY <2>3, <2>10, <2>11, <2>12 DEF Uninitialized, NonTransferable
<1>9. Passes(at[n + 1])
  <2> DEFINE k == N + 1 - at[n + 1]
  <2>1. k \in 0 .. N + 1 - at[n + 1] /\ N + 1 - k = at[n + 1]
    BY <1>1, <1>7
  <2>2. k \notin BadCell
    BY <1>8
  <2> QED
    BY <2>1, <2>2
<1> HIDE DEF BadCell
<1>10. ASSUME Bad # {} PROVE FALSE
  <2>1. Bad \subseteq Nat
    BY <1>1
  <2> HIDE DEF Bad
  <2>2. PICK k \in Bad : \A m \in Bad : k <= m
    BY <1>10, <2>1, LeastNumber
  <2>3. k \in 0 .. n /\ ~(Passes(at[n + 1 - k]) <=> Good(n + 1 - k))
    BY <2>2 DEF Bad
  <2>4. CASE k = 0
    <3>1. n + 1 - 0 = n + 1 /\ n + 1 .. n = {}
      BY <1>1
    <3>2. Good(n + 1)
      BY <3>1 DEF Good
    <3> QED
      BY <1>9, <2>3, <2>4, <3>1, <3>2
  <2>5. CASE k # 0
    <3> DEFINE i == n + 1 - k
    <3>1. /\ i \in 1 .. n /\ i \in 1 .. n + 1 /\ i + 1 \in 1 .. n + 1
          /\ k - 1 \in 0 .. n /\ ~(k <= k - 1) /\ n + 1 - (k - 1) = i + 1
      BY <1>1, <2>3, <2>5
    <3>2. Passes(at[i + 1]) <=> Good(i + 1)
      BY <2>2, <3>1 DEF Bad
    <3> HIDE DEF i
    <3> DEFINE c == at[i]
               d == at[i + 1]
    <3>3. /\ c \in 1 .. N + 1 /\ d \in 1 .. N + 1 /\ c + 2 <= d
          /\ EndOf(data, c) = d /\ data[c] = exts[i].type
      BY <1>2, <1>3, <3>1
    <3>4. Passes(d) <=> Good(i + 1)
      BY <3>2
    <3> HIDE DEF c, d
    <3>5. ~(c + 1 > N)
      BY <1>1, <3>3
    <3>6. After(data, c) = d
      BY <1>1, <1>6, <3>3, <3>5
    <3>7. Passes(c) <=> exts[i].type # NonTransferable /\ Good(i + 1)
      BY <1>5, <3>3, <3>4, <3>5, <3>6
    <3>8. Good(i) <=> exts[i].type # NonTransferable /\ Good(i + 1)
      <4>1. i .. n = {i} \cup (i + 1 .. n)
        BY <1>1, <3>1
      <4> QED
        BY <4>1 DEF Good
    <3> QED
      BY <2>3, <3>7, <3>8 DEF c, i
  <2> QED
    BY <2>4, <2>5
<1>11. Passes(at[1]) <=> Good(1)
  <2>1. n \in 0 .. n /\ n + 1 - n = 1
    BY <1>1
  <2>2. n \notin Bad
    BY <1>10
  <2> QED
    BY <2>1, <2>2
<1>12. CheckNoNonTransferableExtension(data) <=> Passes(1)
  <2>1. CheckNoNonTransferableExtension(data) = walk[1]
    BY CheckIs DEF walk
  <2>2. walk[1] \in BOOLEAN
    BY <1>1, <1>4b
  <2> QED
    BY <2>1, <2>2 DEF Passes
<1> HIDE DEF Bad
<1> QED
  BY <1>1, <1>11, <1>12 DEF n, Good

----------------------------------------------------------------------------
(* What the walkers read of a mint *)

\* The mint and its transfer fee have their types.
MintInv ==
    /\ layout \in Layouts
    /\ fee \in [older : Nat, newer_epoch : Nat, newer : Nat]
    /\ epoch \in Nat

\* Announcing a fee and a new epoch keep it.
LEMMA StepKeepsMintInv == MintInv /\ [Next]_vars => MintInv'
<1> SUFFICES ASSUME MintInv, [Next]_vars PROVE MintInv'
  OBVIOUS
<1>1. layout \in Layouts /\ epoch \in Nat
      /\ fee \in [older : Nat, newer_epoch : Nat, newer : Nat]
  BY DEF MintInv
<1>2. ASSUME NEW f \in Fees, SetTransferFee(f) PROVE MintInv'
  <2>1. f \in Nat
    BY MintExtensionsAssumption
  <2>2. fee' = [older |-> IF epoch >= fee.newer_epoch THEN fee.newer ELSE fee.older,
                newer_epoch |-> epoch + 2, newer |-> f]
        /\ layout' = layout /\ epoch' = epoch
    BY <1>2 DEF SetTransferFee
  <2> QED
    BY <1>1, <2>1, <2>2 DEF MintInv
<1>3. CASE NewEpoch
  BY <1>1, <1>3 DEF NewEpoch, MintInv
<1>4. CASE UNCHANGED vars
  BY <1>1, <1>4 DEF vars, MintInv
<1> QED
  BY <1>2, <1>3, <1>4 DEF Next

\* The invariant holds in every behaviour.
LEMMA MintInvariant == Spec => []MintInv
<1>1. Init => MintInv
  BY MintExtensionsAssumption DEF Init, MintInv
<1> QED
  BY <1>1, StepKeepsMintInv, PTL DEF Spec

\* The entry the token program keeps for the transfer fee.
Config == [type |-> TransferFeeConfig, body |-> FeeBody(fee)]

\* Its body has the three fields the readers look at.
LEMMA ConfigIsExtension ==
  ASSUME MintInv
  PROVE  /\ Config \in Extension /\ Config.type = TransferFeeConfig
         /\ Config.body = FeeBody(fee) /\ FeeBody(fee) # <<>>
         /\ FeeBody(fee)[1] = fee.older /\ FeeBody(fee)[2] = fee.newer_epoch
         /\ FeeBody(fee)[3] = fee.newer
<1>1. fee.older \in Nat /\ fee.newer_epoch \in Nat /\ fee.newer \in Nat
  BY DEF MintInv
<1>2. FeeBody(fee) \in Seq(Nat) /\ Len(FeeBody(fee)) = 3
  BY <1>1 DEF FeeBody
<1>3. FeeBody(fee) # <<>>
  <2>1. \A s \in Seq(Nat) : Len(s) # 0 => s # <<>>
    OBVIOUS
  <2>2. Len(FeeBody(fee)) # 0
    BY <1>2
  <2> QED
    BY <1>2, <2>1, <2>2
<1>4. /\ FeeBody(fee)[1] = fee.older /\ FeeBody(fee)[2] = fee.newer_epoch
      /\ FeeBody(fee)[3] = fee.newer
  BY DEF FeeBody
<1> QED
  BY <1>2, <1>3, <1>4 DEF Config, Extension, TransferFeeConfig

\* The other extensions have types, and none is a second config.
LEMMA LayoutExtensions ==
  ASSUME MintInv
  PROVE  /\ layout.before \in Seq(Extension) /\ layout.after \in Seq(Extension)
         /\ layout.fee \in BOOLEAN /\ layout.padding \in Nat
         /\ \A i \in 1 .. Len(layout.before) :
               layout.before[i].type \notin {Uninitialized, TransferFeeConfig}
         /\ \A i \in 1 .. Len(layout.after) :
               layout.after[i].type \notin {Uninitialized, TransferFeeConfig}
<1> DEFINE s == layout.before
           t == layout.after
<1>1. layout \in Layouts /\ layout \in Layout
  BY MintExtensionsAssumption DEF MintInv
<1>2. /\ s \in Seq(Extension) /\ t \in Seq(Extension)
      /\ layout.fee \in BOOLEAN /\ layout.padding \in Nat
  BY <1>1 DEF Layout
<1>3. \A ext \in ToSet(s \o t) : ext.type \notin {Uninitialized, TransferFeeConfig}
  BY <1>1, MintExtensionsAssumption
<1> HIDE DEF s, t
<1>4. /\ s \o t \in Seq(Extension) /\ Len(s \o t) = Len(s) + Len(t)
      /\ \A i \in 1 .. Len(s) : (s \o t)[i] = s[i]
      /\ \A j \in 1 .. Len(t) : (s \o t)[Len(s) + j] = t[j]
  BY <1>2, ConcatenatedCells
<1>5. Len(s) \in Nat /\ Len(t) \in Nat /\ DOMAIN (s \o t) = 1 .. Len(s) + Len(t)
  BY <1>2, <1>4
<1>6. \A i \in 1 .. Len(s) + Len(t) : (s \o t)[i] \in ToSet(s \o t)
  BY <1>5 DEF ToSet
<1>7. ASSUME NEW i \in 1 .. Len(s)
      PROVE  s[i].type \notin {Uninitialized, TransferFeeConfig}
  <2>1. i \in 1 .. Len(s) + Len(t)
    BY <1>5
  <2> QED
    BY <1>3, <1>4, <1>6, <2>1
<1>8. ASSUME NEW j \in 1 .. Len(t)
      PROVE  t[j].type \notin {Uninitialized, TransferFeeConfig}
  <2>1. Len(s) + j \in 1 .. Len(s) + Len(t)
    BY <1>5
  <2> QED
    BY <1>3, <1>4, <1>6, <2>1
<1> QED
  BY <1>2, <1>7, <1>8 DEF s, t

\* What the token program keeps: no entry has type 0, and the config is the one
\* entry of its type.
LEMMA MintExtensionsAre ==
  ASSUME MintInv
  PROVE  /\ Extensions \in Seq(Extension)
         /\ \A i \in 1 .. Len(Extensions) : Extensions[i].type # Uninitialized
         /\ layout.fee =>
               \E k \in 1 .. Len(Extensions) :
                  /\ Extensions[k] = Config
                  /\ \A i \in 1 .. Len(Extensions) \ {k} :
                        Extensions[i].type # TransferFeeConfig
         /\ ~layout.fee =>
               \A i \in 1 .. Len(Extensions) : Extensions[i].type # TransferFeeConfig
<1> DEFINE s == layout.before
           m == IF layout.fee THEN <<Config>> ELSE <<>>
           t == layout.after
           a == Len(s)
           b == Len(m)
           c == Len(t)
           sm == s \o m
           all == sm \o t
<1>1. /\ s \in Seq(Extension) /\ t \in Seq(Extension) /\ layout.fee \in BOOLEAN
      /\ \A i \in 1 .. a : s[i].type \notin {Uninitialized, TransferFeeConfig}
      /\ \A i \in 1 .. c : t[i].type \notin {Uninitialized, TransferFeeConfig}
  BY LayoutExtensions
<1>2. Config \in Extension /\ Config.type = TransferFeeConfig
  BY ConfigIsExtension
<1>3. m \in Seq(Extension) /\ (layout.fee => m = <<Config>> /\ b = 1 /\ m[1] = Config)
      /\ (~layout.fee => b = 0)
  <2>1. CASE layout.fee
    BY <1>2, <2>1
  <2>2. CASE ~layout.fee
    BY <2>2
  <2> QED
    BY <1>1, <2>1, <2>2
<1>4. Extensions = all
  BY DEF Extensions, Config
<1> HIDE DEF s, m, t
<1>5. a \in Nat /\ b \in Nat /\ c \in Nat
  BY <1>1, <1>3
<1>6. /\ sm \in Seq(Extension) /\ Len(sm) = a + b
      /\ \A i \in 1 .. a : sm[i] = s[i]
      /\ \A j \in 1 .. b : sm[a + j] = m[j]
  BY <1>1, <1>3, ConcatenatedCells
<1> HIDE DEF sm, a, b, c
<1>6a. /\ sm \o t \in Seq(Extension) /\ Len(sm \o t) = Len(sm) + Len(t)
       /\ \A i \in 1 .. Len(sm) : (sm \o t)[i] = sm[i]
       /\ \A j \in 1 .. Len(t) : (sm \o t)[Len(sm) + j] = t[j]
  <2>1. sm \in Seq(Extension) /\ t \in Seq(Extension)
    BY <1>1, <1>6
  <2> QED
    BY <2>1, ConcatenatedCells
<1>7. /\ all \in Seq(Extension) /\ Len(all) = Len(sm) + c
      /\ \A i \in 1 .. Len(sm) : all[i] = sm[i]
      /\ \A j \in 1 .. c : all[Len(sm) + j] = t[j]
  BY <1>6a DEF c
<1> HIDE DEF all
<1>8. Len(all) = a + b + c
  BY <1>5, <1>6, <1>7
<1>9. \A i \in 1 .. a : all[i] = s[i]
  BY <1>5, <1>6, <1>7
<1>10. \A j \in 1 .. b : all[a + j] = m[j]
  BY <1>5, <1>6, <1>7
<1>11. \A j \in 1 .. c : all[a + b + j] = t[j]
  BY <1>5, <1>6, <1>7
<1>12. ASSUME NEW i \in 1 .. Len(all)
       PROVE  \/ i \in 1 .. a /\ all[i] = s[i]
              \/ layout.fee /\ i = a + 1 /\ all[i] = Config
              \/ \E j \in 1 .. c : all[i] = t[j] /\ i = a + b + j
  <2>1. CASE i \in 1 .. a
    BY <1>9, <2>1
  <2>2. CASE i > a /\ i <= a + b
    <3>1. b # 0
      BY <1>5, <2>2
    <3>2. layout.fee /\ b = 1 /\ m[1] = Config
      BY <1>1, <1>3, <3>1
    <3>3. i = a + 1 /\ 1 \in 1 .. b
      BY <1>5, <2>2, <3>2
    <3> QED
      BY <1>10, <3>2, <3>3
  <2>3. CASE i > a + b
    <3>1. i - (a + b) \in 1 .. c /\ a + b + (i - (a + b)) = i
      BY <1>5, <1>8, <2>3
    <3> QED
      BY <1>11, <3>1
  <2> QED
    BY <1>5, <1>8, <2>1, <2>2, <2>3
<1>13. ASSUME NEW i \in 1 .. Len(all)
       PROVE  /\ all[i].type # Uninitialized
              /\ all[i].type = TransferFeeConfig => layout.fee /\ i = a + 1
  <2>1. Config.type # Uninitialized
    BY <1>2 DEF Uninitialized, TransferFeeConfig
  <2> QED
    BY <1>1, <1>2, <1>12, <2>1 DEF a, c
<1>14. ASSUME layout.fee
       PROVE  a + 1 \in 1 .. Len(all) /\ all[a + 1] = Config
  BY <1>3, <1>5, <1>8, <1>10, <1>14
<1>15. layout.fee =>
          \E k \in 1 .. Len(all) :
             /\ all[k] = Config
             /\ \A i \in 1 .. Len(all) \ {k} : all[i].type # TransferFeeConfig
  BY <1>13, <1>14
<1> QED
  BY <1>4, <1>7, <1>13, <1>15

\* The account data is those entries, one behind the other, then zeros.
LEMMA MintDataIsDescribed ==
  ASSUME MintInv
  PROVE  \E at : Describes(at, MintData, Extensions)
<1>1. Extensions \in Seq(Extension) /\ layout.padding \in Nat
  BY MintExtensionsAre, LayoutExtensions
<1>2. MintData = DataOf(Extensions, layout.padding)
  BY DEF MintData, DataOf
<1> QED
  BY <1>1, <1>2, DataIsDescribed

\* The fee the program reads from the data is the one the token program charges.
LEMMA FeeReadIsFeeCharged ==
  ASSUME MintInv
  PROVE  /\ Entries(MintData) = Extensions
         /\ ReadEpochTransferFee(MintData, epoch) = ChargedFee
         /\ ReadTransferFeeConfig(MintData) = IF layout.fee THEN fee.newer ELSE 0
<1>1. Extensions \in Seq(Extension)
      /\ \A i \in 1 .. Len(Extensions) : Extensions[i].type # Uninitialized
  BY MintExtensionsAre
<1>2. Entries(MintData) = Extensions
  BY <1>1, MintDataIsDescribed, EntriesAreExtensions
<1> DEFINE configs == {i \in DOMAIN Extensions : Extensions[i].type = TransferFeeConfig}
           body == FindTransferFeeConfigBody(MintData)
<1>3. body = IF configs = {} THEN <<>> ELSE Extensions[Min(configs)].body
  BY <1>1, <1>2 DEF FindTransferFeeConfigBody, FirstConfigBody
<1>4. DOMAIN Extensions = 1 .. Len(Extensions) /\ Len(Extensions) \in Nat
  BY <1>1
<1>5. layout.fee \in BOOLEAN
  BY LayoutExtensions
<1>6. CASE layout.fee
  <2>1. PICK k \in 1 .. Len(Extensions) :
              /\ Extensions[k] = Config
              /\ \A i \in 1 .. Len(Extensions) \ {k} :
                    Extensions[i].type # TransferFeeConfig
    BY <1>6, MintExtensionsAre
  <2>2. Config.type = TransferFeeConfig /\ Config.body = FeeBody(fee)
    BY ConfigIsExtension
  <2>3. configs = {k}
    BY <1>4, <2>1, <2>2
  <2>4. k \in Nat
    BY <1>4
  <2>5. Min(configs) = k
    BY <2>3, <2>4, MinOfOne
  <2> HIDE DEF configs, body
  <2>6. body = FeeBody(fee)
    BY <1>3, <2>1, <2>2, <2>3, <2>5
  <2>7. /\ body # <<>> /\ body[1] = fee.older /\ body[2] = fee.newer_epoch
        /\ body[3] = fee.newer
    BY <2>6, ConfigIsExtension
  <2>8. ReadEpochTransferFee(MintData, epoch)
          = IF epoch >= fee.newer_epoch THEN fee.newer ELSE fee.older
    BY <2>7 DEF ReadEpochTransferFee, body, NewerEpochOffset, NewerFeeOffset, OlderFeeOffset
  <2>9. ReadTransferFeeConfig(MintData) = fee.newer
    BY <2>7 DEF ReadTransferFeeConfig, body, NewerFeeOffset
  <2>10. ChargedFee = IF epoch >= fee.newer_epoch THEN fee.newer ELSE fee.older
    BY <1>6 DEF ChargedFee
  <2> QED
    BY <1>2, <1>6, <2>8, <2>9, <2>10
<1>7. CASE ~layout.fee
  <2>1. configs = {}
    BY <1>4, <1>7, MintExtensionsAre
  <2>2. body = <<>>
    BY <1>3, <2>1
  <2>3. ReadEpochTransferFee(MintData, epoch) = 0 /\ ReadTransferFeeConfig(MintData) = 0
    BY <2>2 DEF ReadEpochTransferFee, ReadTransferFeeConfig
  <2>4. ChargedFee = 0
    BY <1>7 DEF ChargedFee
  <2> QED
    BY <1>2, <1>7, <2>3, <2>4
<1> QED
  BY <1>5, <1>6, <1>7

\* Whatever extensions a mint carries, in whatever order, and whatever their
\* bodies hold, each walker answers what the token program would (token_2022.rs,
\* check_no_non_transferable_extension).
THEOREM WalkersReadEveryMint == Spec => []WalkersAgreeWithTheTokenProgram
<1>1. ASSUME MintInv PROVE WalkersAgreeWithTheTokenProgram
  <2>1. Extensions \in Seq(Extension)
    BY <1>1, MintExtensionsAre
  <2>2. DOMAIN Extensions = 1 .. Len(Extensions)
    BY <2>1
  <2>3. Entries(MintData) = Extensions
        /\ ReadEpochTransferFee(MintData, epoch) = ChargedFee
    BY <1>1, FeeReadIsFeeCharged
  <2>4. CheckNoNonTransferableExtension(MintData)
          <=> \A i \in 1 .. Len(Extensions) : Extensions[i].type # NonTransferable
    BY <1>1, <2>1, MintDataIsDescribed, CheckFindsNonTransferable
  <2>5. CheckNoNonTransferableExtension(MintData) <=> ~HasExtension(NonTransferable)
    BY <2>2, <2>4 DEF HasExtension, TypesIn
  <2>6. RequireV2TransferableMint(MintData)
          <=> ~HasExtension(NonTransferable) /\ ~HasExtension(TransferHook)
    BY <2>3 DEF RequireV2TransferableMint, HasExtension
  <2> QED
    BY <2>3, <2>5, <2>6 DEF WalkersAgreeWithTheTokenProgram
<1> QED
  BY <1>1, MintInvariant, PTL

\* The fee read is the one charged, as a formula that can be primed.
FeeIsCharged == ReadEpochTransferFee(MintData, epoch) = ChargedFee

\* The fee the program reads changes only to the one it read as the newer fee
\* before (read_epoch_transfer_fee, read_transfer_fee_config).
THEOREM FeesChangeAsAnnounced == Spec => FeeChangesAsAnnounced
<1>1. MintInv => FeeIsCharged
  BY FeeReadIsFeeCharged DEF FeeIsCharged
<1>2. MintInv /\ MintInv' /\ FeeIsCharged' /\ [Next]_vars =>
        [LET now == ReadEpochTransferFee(MintData, epoch)
             next == ReadEpochTransferFee(MintData, epoch)'
         IN  next # now => next = ReadTransferFeeConfig(MintData)]_vars
  <2> SUFFICES ASSUME MintInv, MintInv', FeeIsCharged', Next,
                      ReadEpochTransferFee(MintData, epoch)'
                        # ReadEpochTransferFee(MintData, epoch)
               PROVE  ReadEpochTransferFee(MintData, epoch)'
                        = ReadTransferFeeConfig(MintData)
    OBVIOUS
  <2>1. /\ ReadEpochTransferFee(MintData, epoch) = ChargedFee
        /\ ReadTransferFeeConfig(MintData) = IF layout.fee THEN fee.newer ELSE 0
    BY FeeReadIsFeeCharged
  <2>2. ReadEpochTransferFee(MintData, epoch)' = ChargedFee'
    BY DEF FeeIsCharged
  <2>3. ChargedFee' # ChargedFee
    BY <2>1, <2>2
  <2>4. layout.fee \in BOOLEAN /\ epoch \in Nat /\ fee.newer_epoch \in Nat
    BY LayoutExtensions DEF MintInv
  <2>5. ASSUME NEW f \in Fees, SetTransferFee(f) PROVE FALSE
    <3>1. /\ layout.fee /\ layout' = layout /\ epoch' = epoch
          /\ fee' = [older |-> IF epoch >= fee.newer_epoch THEN fee.newer ELSE fee.older,
                     newer_epoch |-> epoch + 2, newer |-> f]
      BY <2>5 DEF SetTransferFee
    <3>2. ChargedFee = IF epoch >= fee.newer_epoch THEN fee.newer ELSE fee.older
      BY <3>1 DEF ChargedFee
    <3>3. /\ layout'.fee /\ ~(epoch' >= fee'.newer_epoch)
          /\ fee'.older = IF epoch >= fee.newer_epoch THEN fee.newer ELSE fee.older
      BY <2>4, <3>1
    <3>4. ChargedFee' = fee'.older
      BY <3>3 DEF ChargedFee
    <3> QED
      BY <2>3, <3>2, <3>3, <3>4
  <2>6. CASE NewEpoch
    <3>1. layout' = layout /\ fee' = fee /\ epoch' = epoch + 1
      BY <2>6 DEF NewEpoch
    <3>2. CASE layout.fee
      <4>1. /\ ChargedFee = IF epoch >= fee.newer_epoch THEN fee.newer ELSE fee.older
            /\ ChargedFee' = IF epoch + 1 >= fee.newer_epoch THEN fee.newer
                             ELSE fee.older
        BY <3>1, <3>2 DEF ChargedFee
      <4>2. ChargedFee' = fee.newer
        BY <2>3, <2>4, <4>1
      <4> QED
        BY <2>1, <2>2, <3>2, <4>2
    <3>3. CASE ~layout.fee
      BY <2>3, <3>1, <3>3 DEF ChargedFee
    <3> QED
      BY <2>4, <3>2, <3>3
  <2> QED
    BY <2>5, <2>6 DEF Next
<1> QED
  BY <1>1, <1>2, MintInvariant, PTL DEF Spec, FeeChangesAsAnnounced
===============================================================================
