------------------------- MODULE ExcludeFile_proofs -------------------------
(***************************************************************************)
(* Theorems on .git/info/exclude: however it is rewritten it keeps one     *)
(* block, and it implements a set of entries beside the user's lines.      *)
(***************************************************************************)
EXTENDS ExcludeFile, FiniteSetTheorems, SequenceTheorems, TLAPS

(***************************************************************************)
(* Lines picked out and put in order                                       *)
(***************************************************************************)
Orders(order, picked) ==
  /\ \A i, j \in picked : <<i, j>> \in order \/ <<j, i>> \in order
  /\ \A i, j \in picked : <<i, j>> \in order /\ <<j, i>> \in order => i = j
  /\ \A i, j, k \in picked : <<i, j>> \in order /\ <<j, k>> \in order => <<i, k>> \in order

(* The ranks of the positions picked are the numbers up to how many there  *)
(* are, each of one position.                                              *)
LEMMA RanksCount ==
  ASSUME NEW picked, NEW order, IsFiniteSet(picked), Orders(order, picked)
  PROVE  /\ Cardinality(picked) \in Nat
         /\ \A i \in picked : Rank(picked, order, i) \in 1..Cardinality(picked)
         /\ \A i, j \in picked : Rank(picked, order, i) = Rank(picked, order, j) => i = j
         /\ \A k \in 1..Cardinality(picked) : \E i \in picked : Rank(picked, order, i) = k
<1> DEFINE Below(i) == {j \in picked : <<j, i>> \in order}
           n == Cardinality(picked)
<1>1. \A i : Rank(picked, order, i) = Cardinality(Below(i))
  BY DEF Rank
<1>2. n \in Nat
  BY FS_CardinalityType
<1>3. ASSUME NEW i \in picked
      PROVE  IsFiniteSet(Below(i)) /\ Cardinality(Below(i)) \in 1..n
  <2>1. Below(i) \in SUBSET picked /\ i \in Below(i)
    BY DEF Orders
  <2>2. IsFiniteSet(Below(i)) /\ Cardinality(Below(i)) <= n
    BY <2>1, FS_Subset
  <2>3. Cardinality(Below(i)) \in Nat /\ Cardinality(Below(i)) # 0
    BY <2>1, <2>2, FS_CardinalityType, FS_EmptySet
  <2>. QED BY <1>2, <2>2, <2>3
<1>4. ASSUME NEW i \in picked, NEW j \in picked, <<i, j>> \in order, i # j
      PROVE  Cardinality(Below(i)) # Cardinality(Below(j))
  <2>1. Below(i) \in SUBSET Below(j)
    BY <1>4 DEF Orders
  <2>2. j \in Below(j) /\ j \notin Below(i)
    BY <1>4 DEF Orders
  <2>. QED BY <1>3, <2>1, <2>2, FS_Subset
<1>5. \A i, j \in picked : Cardinality(Below(i)) = Cardinality(Below(j)) => i = j
  <2> HIDE DEF Below
  <2> SUFFICES ASSUME NEW i \in picked, NEW j \in picked, i # j
               PROVE  Cardinality(Below(i)) # Cardinality(Below(j))
    OBVIOUS
  <2>1. CASE <<i, j>> \in order
    BY <1>4, <2>1
  <2>2. CASE <<j, i>> \in order
    BY <1>4, <2>2
  <2>. QED BY <2>1, <2>2 DEF Orders
<1>6. \A k \in 1..n : \E i \in picked : Cardinality(Below(i)) = k
  <2> DEFINE f == [i \in picked |-> Cardinality(Below(i))]
  <2> HIDE DEF Below
  <2>1. f \in [picked -> 1..n]
    BY <1>3
  <2>2. \A i, j \in picked : f[i] = f[j] => i = j
    BY <1>5
  <2>3. f \in Injection(picked, 1..n)
    BY <2>1, <2>2 DEF Injection, IsInjective
  <2>4. IsFiniteSet(1..n) /\ Cardinality(1..n) = n
    BY <1>2, FS_Interval
  <2>5. f \in Surjection(picked, 1..n)
    BY <2>3, <2>4, FS_Injection
  <2>. QED BY <2>5 DEF Surjection
<1> HIDE DEF Below
<1>. QED BY <1>1, <1>2, <1>3, <1>5, <1>6

(* Lines arranged are the lines picked, one for each position.             *)
Holds(out, lines, picked) ==
  /\ \A x : x \in ToSet(out) <=> \E i \in picked : lines[i] = x
  /\ out = <<>> <=> picked = {}
  /\ out \in Seq(ToSet(out))

(* Arranging the positions picked gives one line for each, in the order    *)
(* given.                                                                  *)
LEMMA ArrangedLines ==
  ASSUME NEW lines, NEW picked, NEW order, IsFiniteSet(picked), Orders(order, picked)
  PROVE  Holds(Arranged(lines, picked, order), lines, picked)
<1> DEFINE out == Arranged(lines, picked, order)
           n == Cardinality(picked)
           At1(k) == CHOOSE i \in picked : Rank(picked, order, i) = k
<1>1. n \in Nat
  BY RanksCount
<1>2. out = [k \in 1..n |-> lines[At1(k)]]
  BY DEF Arranged
<1>3. \A k \in 1..n : At1(k) \in picked /\ Rank(picked, order, At1(k)) = k
  BY RanksCount
<1>4. \A i \in picked : Rank(picked, order, i) \in 1..n /\ At1(Rank(picked, order, i)) = i
  <2> TAKE i \in picked
  <2>1. Rank(picked, order, i) \in 1..n
    BY RanksCount
  <2>2. At1(Rank(picked, order, i)) \in picked
        /\ Rank(picked, order, At1(Rank(picked, order, i))) = Rank(picked, order, i)
    BY <1>3, <2>1
  <2>. QED BY <2>1, <2>2, RanksCount
<1> HIDE DEF At1
<1>5. \A x : x \in ToSet(out) <=> \E i \in picked : lines[i] = x
  BY <1>2, <1>3, <1>4 DEF ToSet
<1>6. out = <<>> <=> picked = {}
  <2>1. n = 0 <=> picked = {}
    BY FS_EmptySet
  <2>2. n = 0 => out = <<>>
    BY <1>2
  <2>3. out = <<>> => 1..n = {}
    BY <1>2
  <2>. QED BY <1>1, <2>1, <2>2, <2>3
<1>7. out \in Seq(ToSet(out))
  <2>1. out \in [1..n -> ToSet(out)]
    BY <1>2 DEF ToSet
  <2>. QED BY <1>1, <2>1
<1>. QED BY <1>5, <1>6, <1>7 DEF Holds

(* The positions of two files that correspond to each other, in the same   *)
(* order and with the same lines, make the same lines.                     *)
Corresponds(h, lines, picked, lines2, picked2) ==
  /\ h \in [picked -> picked2]
  /\ \A i \in picked : lines2[h[i]] = lines[i]
  /\ \A j \in picked2 : \E i \in picked : h[i] = j

KeepsOrder(h, picked, order, order2) ==
  \A i, j \in picked : <<i, j>> \in order <=> <<h[i], h[j]>> \in order2

(* Two pickings whose positions correspond in order give the same lines.   *)
LEMMA ArrangedAlike ==
  ASSUME NEW lines, NEW picked, NEW order, IsFiniteSet(picked), Orders(order, picked),
         NEW lines2, NEW picked2, NEW order2, Orders(order2, picked2),
         NEW h, Corresponds(h, lines, picked, lines2, picked2),
         KeepsOrder(h, picked, order, order2)
  PROVE  Arranged(lines, picked, order) = Arranged(lines2, picked2, order2)
<1> USE DEF Corresponds, KeepsOrder
<1>1. \A i, j \in picked : h[i] = h[j] => i = j
  BY DEF Orders
<1>2. h \in Bijection(picked, picked2)
  BY <1>1 DEF Bijection, Injection, Surjection, IsInjective
<1>3. IsFiniteSet(picked2) /\ Cardinality(picked2) = Cardinality(picked)
  BY <1>2, FS_Bijection DEF ExistsBijection
<1>4. ASSUME NEW i \in picked
      PROVE  Rank(picked2, order2, h[i]) = Rank(picked, order, i)
  <2> DEFINE S == {j \in picked : <<j, i>> \in order}
             T == {j \in picked2 : <<j, h[i]>> \in order2}
             g == [j \in S |-> h[j]]
  <2>1. g \in [S -> T]
    OBVIOUS
  <2>2. \A a, b \in S : g[a] = g[b] => a = b
    BY <1>1
  <2>3. \A t \in T : \E s \in S : g[s] = t
    OBVIOUS
  <2>4. g \in Bijection(S, T)
    BY <2>1, <2>2, <2>3 DEF Bijection, Injection, Surjection, IsInjective
  <2>5. IsFiniteSet(S)
    BY FS_Subset
  <2>6. Cardinality(T) = Cardinality(S)
    BY <2>4, <2>5, FS_Bijection DEF ExistsBijection
  <2>. QED BY <2>6 DEF Rank
<1> DEFINE n == Cardinality(picked)
           One(k) == CHOOSE i \in picked : Rank(picked, order, i) = k
           Two(k) == CHOOSE i \in picked2 : Rank(picked2, order2, i) = k
<1>5. ASSUME NEW k \in 1..n
      PROVE  lines2[Two(k)] = lines[One(k)]
  <2>1. One(k) \in picked /\ Rank(picked, order, One(k)) = k
    BY RanksCount
  <2>2. h[One(k)] \in picked2 /\ Rank(picked2, order2, h[One(k)]) = k
    BY <1>4, <2>1
  <2>3. Two(k) \in picked2 /\ Rank(picked2, order2, Two(k)) = k
    BY <2>2
  <2>4. Two(k) = h[One(k)]
    <3> HIDE DEF One, Two
    <3>. QED BY <1>3, <2>2, <2>3, RanksCount
  <2> HIDE DEF One, Two
  <2>. QED BY <2>1, <2>4
<1>6. Arranged(lines, picked, order) = [k \in 1..n |-> lines[One(k)]]
  BY DEF Arranged
<1>7. Arranged(lines2, picked2, order2) = [k \in 1..n |-> lines2[Two(k)]]
  BY <1>3 DEF Arranged
<1> HIDE DEF One, Two, n
<1>. QED BY <1>5, <1>6, <1>7

(***************************************************************************)
(* Lines                                                                   *)
(***************************************************************************)
Lines == Seq(Nat)

InTurn(picked) == {p \in picked \X picked : p[1] <= p[2]}

(* A set of positions is finite.                                           *)
LEMMA PickedFinite ==
  ASSUME NEW n \in Nat, NEW picked \in SUBSET (1..n)
  PROVE  IsFiniteSet(picked)
<1>1. IsFiniteSet(1..n)
  BY FS_Interval
<1>. QED BY <1>1, FS_Subset

(* The order of the positions themselves is an order.                      *)
LEMMA InTurnOrders ==
  ASSUME NEW picked \in SUBSET Nat
  PROVE  Orders(InTurn(picked), picked)
<1>1. \A i, j \in picked : <<i, j>> \in InTurn(picked) <=> i <= j
  BY DEF InTurn
<1>. QED BY <1>1 DEF Orders

(* Selecting is arranging by it.                                           *)
LEMMA InTurnIs ==
  ASSUME NEW lines, NEW picked
  PROVE  Selected(lines, picked) = Arranged(lines, picked, InTurn(picked))
BY DEF Selected, InTurn

(* What a selection of lines has. *)
LEMMA SelectedLines ==
  ASSUME NEW lines, NEW n \in Nat, NEW picked \in SUBSET (1..n)
  PROVE  Holds(Selected(lines, picked), lines, picked)
<1>1. IsFiniteSet(picked)
  BY PickedFinite
<1>2. Orders(InTurn(picked), picked)
  BY InTurnOrders
<1>. QED BY <1>1, <1>2, InTurnIs, ArrangedLines

Rising(h, picked) == \A i, j \in picked : i <= j <=> h[i] <= h[j]

(* Two files with corresponding positions have the same selected lines.    *)
LEMMA SelectedAlike ==
  ASSUME NEW lines, NEW picked \in SUBSET Nat, IsFiniteSet(picked),
         NEW lines2, NEW picked2 \in SUBSET Nat,
         NEW h, Corresponds(h, lines, picked, lines2, picked2),
         Rising(h, picked)
  PROVE  Selected(lines, picked) = Selected(lines2, picked2)
<1> DEFINE one == InTurn(picked)
           two == InTurn(picked2)
<1>2. Orders(one, picked) /\ Orders(two, picked2)
  BY InTurnOrders
<1>3. KeepsOrder(h, picked, one, two)
  BY DEF InTurn, Corresponds, KeepsOrder, Rising
<1>4. Selected(lines, picked) = Arranged(lines, picked, one) /\ Selected(lines2, picked2) = Arranged(lines2, picked2, two)
  BY InTurnIs
<1> HIDE DEF one, two
<1>5. Arranged(lines, picked, one) = Arranged(lines2, picked2, two)
  BY <1>2, <1>3, ArrangedAlike
<1>. QED BY <1>4, <1>5

(* Sorting keeps the lines. *)
LEMMA SortedKeeps ==
  ASSUME NEW lines \in Lines
  PROVE  Holds(SortedLines(lines), lines, DOMAIN lines)
<1> DEFINE D == DOMAIN lines
           order == {p \in D \X D : \/ lines[p[1]] < lines[p[2]]
                                    \/ lines[p[1]] = lines[p[2]] /\ p[1] <= p[2]}
<1>1. D = 1..Len(lines) /\ Len(lines) \in Nat /\ \A i \in D : lines[i] \in Nat
  BY DEF Lines
<1>2. IsFiniteSet(D)
  BY <1>1, FS_Interval
<1>3. \A i, j \in D : <<i, j>> \in order <=> lines[i] < lines[j] \/ (lines[i] = lines[j] /\ i <= j)
  OBVIOUS
<1>4. Orders(order, D)
  <2> HIDE DEF order
  <2>1. ASSUME NEW i \in D, NEW j \in D
        PROVE  <<i, j>> \in order \/ <<j, i>> \in order
    <3>1. i \in Nat /\ j \in Nat /\ lines[i] \in Nat /\ lines[j] \in Nat
      BY <1>1
    <3>2. \/ lines[i] < lines[j] \/ (lines[i] = lines[j] /\ i <= j)
          \/ lines[j] < lines[i] \/ (lines[j] = lines[i] /\ j <= i)
      BY <3>1
    <3>. QED BY <1>3, <3>2
  <2>2. \A i, j \in D : <<i, j>> \in order /\ <<j, i>> \in order => i = j
    BY <1>1, <1>3
  <2>3. \A i, j, k \in D : <<i, j>> \in order /\ <<j, k>> \in order => <<i, k>> \in order
    BY <1>1, <1>3
  <2>. QED BY <2>1, <2>2, <2>3 DEF Orders
<1>5. SortedLines(lines) = Arranged(lines, D, order)
  BY DEF SortedLines
<1>. QED BY <1>2, <1>4, <1>5, ArrangedLines

(* The lines of a set, in any order. *)
LEMMA LinesOfSet ==
  ASSUME NEW S \in SUBSET Nat, IsFiniteSet(S)
  PROVE  /\ SetToSeq(S) \in Seq(S)
         /\ SetToSeq(S) \in Lines
         /\ ToSet(SetToSeq(S)) = S
<1> DEFINE n == Cardinality(S)
           f == SetToSeq(S)
<1>1. n \in Nat /\ ExistsBijection(1..n, S)
  BY FS_CardinalityType
<1>2. f \in [1..n -> S] /\ IsInjective(f)
  <2>1. PICK g : g \in Bijection(1..n, S)
    BY <1>1 DEF ExistsBijection
  <2>2. g \in [1..n -> S] /\ IsInjective(g)
    BY <2>1 DEF Bijection, Injection
  <2>. QED BY <2>2 DEF SetToSeq
<1> HIDE DEF f
<1>3. f \in Surjection(1..n, S)
  <2>1. f \in Injection(1..n, S)
    BY <1>2 DEF Injection
  <2>2. Cardinality(1..n) = n
    BY <1>1, FS_Interval
  <2>. QED BY <2>1, <2>2, FS_Injection
<1>4. f \in Seq(S) /\ DOMAIN f = 1..n
  BY <1>1, <1>2
<1>5. ToSet(f) = S
  BY <1>2, <1>3 DEF ToSet, Surjection
<1>6. f \in Lines
  <2>1. f \in [1..n -> Nat]
    BY <1>2
  <2>. QED BY <1>1, <2>1 DEF Lines
<1>. QED BY <1>4, <1>5, <1>6 DEF f

(* Part of a file, and two files one after the other. *)
LEMMA CutLines ==
  ASSUME NEW f \in Lines, NEW m \in 1..Len(f) + 1, NEW n \in m - 1..Len(f)
  PROVE  /\ SubSeq(f, m, n) \in Lines
         /\ Len(SubSeq(f, m, n)) = n - m + 1
         /\ DOMAIN SubSeq(f, m, n) = 1..n - m + 1
         /\ \A i \in 1..n - m + 1 : SubSeq(f, m, n)[i] = f[m + i - 1]
<1>1. f \in Seq(Nat) /\ Len(f) \in Nat
  BY DEF Lines
<1>2. SubSeq(f, m, n) = [i \in 1..n - m + 1 |-> f[m + i - 1]]
  BY <1>1
<1>3. \A i \in 1..n - m + 1 : m + i - 1 \in 1..Len(f)
  BY <1>1
<1>4. [i \in 1..n - m + 1 |-> f[m + i - 1]] \in [1..n - m + 1 -> Nat]
  BY <1>1, <1>3
<1>5. n - m + 1 \in Nat
  BY <1>1
<1>. QED BY <1>2, <1>4, <1>5 DEF Lines

(* The first lines of a file.                                              *)
LEMMA FirstLines ==
  ASSUME NEW f \in Lines, NEW n \in 0..Len(f)
  PROVE  /\ SubSeq(f, 1, n) \in Lines /\ Len(SubSeq(f, 1, n)) = n
         /\ \A i \in 1..n : SubSeq(f, 1, n)[i] = f[i] /\ i \in 1..Len(f)
<1>1. Len(f) \in Nat /\ n \in Nat /\ n <= Len(f)
  BY DEF Lines
<1>2. 1 \in 1..Len(f) + 1 /\ n \in 1 - 1..Len(f) /\ n - 1 + 1 = n
  BY <1>1
<1>3. \A i \in 1..n : 1 + i - 1 = i /\ i \in 1..Len(f)
  BY <1>1
<1>. QED BY <1>2, <1>3, CutLines

(* The last lines of a file.                                               *)
LEMMA LastLines ==
  ASSUME NEW f \in Lines, NEW m \in 0..Len(f)
  PROVE  /\ SubSeq(f, m + 1, Len(f)) \in Lines /\ Len(SubSeq(f, m + 1, Len(f))) = Len(f) - m
         /\ \A i \in 1..Len(f) - m : SubSeq(f, m + 1, Len(f))[i] = f[m + i]
<1> DEFINE k == m + 1
<1>1. Len(f) \in Nat /\ m \in Nat /\ m <= Len(f)
  BY DEF Lines
<1>2. k \in 1..Len(f) + 1 /\ Len(f) \in k - 1..Len(f) /\ Len(f) - k + 1 = Len(f) - m
  BY <1>1
<1>3. \A i \in 1..Len(f) - m : k + i - 1 = m + i
  BY <1>1
<1> HIDE DEF k
<1>4. /\ SubSeq(f, k, Len(f)) \in Lines /\ Len(SubSeq(f, k, Len(f))) = Len(f) - m
      /\ \A i \in 1..Len(f) - m : SubSeq(f, k, Len(f))[i] = f[m + i]
  BY <1>2, <1>3, CutLines
<1>. QED BY <1>4 DEF k

(* The lines of two files one after the other.                             *)
LEMMA JoinedLines ==
  ASSUME NEW f \in Lines, NEW g \in Lines
  PROVE  /\ f \o g \in Lines
         /\ Len(f \o g) = Len(f) + Len(g)
         /\ DOMAIN (f \o g) = 1..Len(f) + Len(g)
         /\ \A i \in 1..Len(f) : (f \o g)[i] = f[i]
         /\ \A i \in 1..Len(g) : (f \o g)[Len(f) + i] = g[i]
         /\ \A i \in Len(f) + 1..Len(f) + Len(g) : (f \o g)[i] = g[i - Len(f)]
  BY DEF Lines

(***************************************************************************)
(* A file and its block                                                    *)
(***************************************************************************)
Delimiters == {BeginMark, EndMark}

Special == {Blank, BeginMark, EndMark}

(* The three lines that are not text are different.                        *)
LEMMA SpecialLines == Blank = 0 /\ BeginMark = 1 /\ EndMark = 2
BY DEF Blank, BeginMark, EndMark

NoDelimiters(f) == \A i \in 1..Len(f) : f[i] \notin Delimiters

BlockAt(f, b, e) ==
  /\ b \in 1..Len(f) /\ e \in 1..Len(f) /\ b < e
  /\ \A i \in 1..Len(f) : f[i] = BeginMark <=> i = b
  /\ \A i \in 1..Len(f) : f[i] = EndMark <=> i = e

(* A line occurs finitely often.                                           *)
LEMMA OccurrencesFinite ==
  ASSUME NEW f \in Lines, NEW line
  PROVE  /\ Occurrences(f, line) \in SUBSET (1..Len(f))
         /\ IsFiniteSet(Occurrences(f, line))
         /\ Cardinality(Occurrences(f, line)) \in Nat
<1>1. Occurrences(f, line) \in SUBSET (1..Len(f)) /\ Len(f) \in Nat
  BY DEF Occurrences, Lines
<1>2. IsFiniteSet(Occurrences(f, line))
  BY <1>1, PickedFinite
<1>. QED BY <1>1, <1>2, FS_CardinalityType

(* parse_checked accepts a file without delimiters, or with one block.     *)
LEMMA WellFormedIs ==
  ASSUME NEW f \in Lines
  PROVE  WellFormed(f) <=> NoDelimiters(f) \/ \E b, e : BlockAt(f, b, e)
<1> DEFINE begins == Occurrences(f, BeginMark)
           ends == Occurrences(f, EndMark)
<1>1. /\ begins = {i \in 1..Len(f) : f[i] = BeginMark}
      /\ ends = {i \in 1..Len(f) : f[i] = EndMark}
  BY DEF Occurrences, Lines
<1>2. IsFiniteSet(begins) /\ IsFiniteSet(ends)
  BY OccurrencesFinite
<1>3. begins = {} /\ ends = {} <=> NoDelimiters(f)
  BY <1>1 DEF NoDelimiters, Delimiters
<1>4. ASSUME Cardinality(begins) = 1, Cardinality(ends) = 1,
             Position(f, BeginMark) < Position(f, EndMark)
      PROVE  \E b, e : BlockAt(f, b, e)
  <2>1. PICK b : begins = {b}
    BY <1>2, <1>4, FS_Singleton
  <2>2. PICK e : ends = {e}
    BY <1>2, <1>4, FS_Singleton
  <2>3. Position(f, BeginMark) = b /\ Position(f, EndMark) = e
    BY <2>1, <2>2 DEF Position
  <2>4. BlockAt(f, b, e)
    BY <1>1, <1>4, <2>1, <2>2, <2>3 DEF BlockAt
  <2>. QED BY <2>4
<1>5. ASSUME NEW b, NEW e, BlockAt(f, b, e)
      PROVE  /\ Cardinality(begins) = 1 /\ Cardinality(ends) = 1
             /\ Position(f, BeginMark) < Position(f, EndMark)
  <2>1. begins = {b} /\ ends = {e}
    BY <1>1, <1>5 DEF BlockAt
  <2>2. Position(f, BeginMark) = b /\ Position(f, EndMark) = e
    BY <2>1 DEF Position
  <2>. QED BY <1>5, <2>1, <2>2, FS_Singleton DEF BlockAt
<1>. QED BY <1>3, <1>4, <1>5 DEF WellFormed

(* What parse makes of the file, and which lines are the block's.          *)
LEMMA ParseWithout ==
  ASSUME NEW f \in Lines, NoDelimiters(f)
  PROVE  /\ Parse(f).before = f /\ Parse(f).managed = <<>> /\ Parse(f).after = <<>>
         /\ InBlock(f) = {}
<1>1. Occurrences(f, BeginMark) = {}
  BY DEF Occurrences, NoDelimiters, Delimiters, Lines
<1>. QED BY <1>1 DEF Parse, InBlock

(* What the parser makes of a file with a block.                           *)
LEMMA ParseWith ==
  ASSUME NEW f \in Lines, NEW b, NEW e, BlockAt(f, b, e)
  PROVE  /\ Parse(f).before = SubSeq(f, 1, b - 1)
         /\ Parse(f).managed = Selected(f, {i \in b + 1..e - 1 : IsText(f[i])})
         /\ Parse(f).after = SubSeq(f, e + 1, Len(f))
         /\ InBlock(f) = b..e
<1>1. Occurrences(f, BeginMark) = {b} /\ Occurrences(f, EndMark) = {e}
  BY DEF Occurrences, BlockAt, Lines
<1>2. Position(f, BeginMark) = b /\ Position(f, EndMark) = e
  BY <1>1 DEF Position
<1>3. WellFormed(f)
  BY WellFormedIs
<1>4. InBlock(f) = {i \in DOMAIN f : i \in b..e}
  BY <1>1, <1>3 DEF InBlock
<1>5. b..e \subseteq DOMAIN f
  BY DEF BlockAt, Lines
<1>. QED BY <1>1, <1>2, <1>4, <1>5 DEF Parse

(***************************************************************************)
(* What a rewrite leaves of the lines before the block                     *)
(***************************************************************************)
LEMMA Least ==
  ASSUME NEW S \in SUBSET Nat, S # {}
  PROVE  \E n \in S : \A k \in S : n <= k
<1>1. IsWellFoundedOn(OpToRel(<, Nat), Nat)
  BY NatLessThanWellFounded
<1>2. PICK n \in S : \A k \in S : ~(<<k, n>> \in OpToRel(<, Nat))
  BY <1>1, WFMin
<1>3. \A k \in S : ~(k < n)
  BY <1>2 DEF OpToRel
<1>. QED BY <1>3

(* A set of positions that is not empty has a last one.                    *)
LEMMA Greatest ==
  ASSUME NEW n \in Nat, NEW S \in SUBSET (1..n), S # {}
  PROVE  Max(S) \in S /\ \A k \in S : k <= Max(S)
<1> DEFINE gaps == {d \in Nat : \E k \in S : d = n - k}
<1>1. gaps \in SUBSET Nat /\ gaps # {}
  <2>1. PICK k \in S : TRUE
    OBVIOUS
  <2>2. n - k \in Nat
    OBVIOUS
  <2>. QED BY <2>2
<1>2. PICK d \in gaps : \A c \in gaps : d <= c
  <2> HIDE DEF gaps
  <2>. QED BY <1>1, Least
<1>3. PICK m \in S : d = n - m
  BY <1>2
<1>4. ASSUME NEW k \in S
      PROVE  k <= m
  <2>1. n - k \in gaps
    OBVIOUS
  <2>. QED BY <1>2, <1>3, <2>1
<1>. QED BY <1>3, <1>4 DEF Max

(* trim_end_matches: a part of the file up to its last line of text.       *)
TrimsTo(n, f) ==
  /\ n \in 0..Len(f)
  /\ TrimmedEnd(f) = SubSeq(f, 1, n)
  /\ \A i \in n + 1..Len(f) : f[i] = Blank
  /\ n # 0 => f[n] # Blank

(* Trimming takes the blank lines at the end away, and no other.           *)
LEMMA TrimmedIs ==
  ASSUME NEW f \in Lines
  PROVE  \E n : TrimsTo(n, f)
<1> DEFINE I == {i \in 1..Len(f) : IsText(f[i])}
           n == IF I # {} THEN Max(I) ELSE 0
<1>0. Len(f) \in Nat
  BY DEF Lines
<1>1. TrimmedEnd(f) = SubSeq(f, 1, n)
  BY DEF TrimmedEnd, SelectLastInSeq
<1>2. CASE I = {}
  <2>1. n = 0 /\ \A i \in 1..Len(f) : f[i] = Blank
    BY <1>2 DEF IsText
  <2> HIDE DEF n
  <2>2. TrimsTo(n, f)
    BY <1>0, <1>1, <2>1 DEF TrimsTo
  <2>. QED BY <2>2
<1>3. CASE I # {}
  <2>1. n \in I /\ \A k \in I : k <= n
    BY <1>0, <1>3, Greatest
  <2>2. n \in 0..Len(f) /\ f[n] # Blank
    BY <1>0, <2>1 DEF IsText
  <2>3. \A i \in n + 1..Len(f) : f[i] = Blank
    BY <1>0, <2>1 DEF IsText
  <2>4. TrimsTo(n, f)
    BY <1>1, <2>2, <2>3 DEF TrimsTo
  <2>. QED BY <2>4
<1>. QED BY <1>2, <1>3

Count(f) == Cardinality(Occurrences(f, Blank))

(* Which of two files has more blank lines. *)
LEMMA CountMonotone ==
  ASSUME NEW f \in Lines, NEW g \in Lines, Occurrences(g, Blank) \subseteq Occurrences(f, Blank)
  PROVE  /\ Count(g) \in Nat /\ Count(f) \in Nat /\ Count(g) <= Count(f)
         /\ Occurrences(g, Blank) # Occurrences(f, Blank) => Count(g) + 1 <= Count(f)
<1>1. IsFiniteSet(Occurrences(f, Blank)) /\ Count(f) \in Nat /\ Count(g) \in Nat
  BY OccurrencesFinite DEF Count
<1>2. Count(g) <= Count(f) /\ (Count(g) = Count(f) => Occurrences(g, Blank) = Occurrences(f, Blank))
  BY <1>1, FS_Subset DEF Count
<1>. QED BY <1>1, <1>2

(* render puts a blank line before the block unless there is one.          *)
LEMMA SeparatedIs ==
  ASSUME NEW f \in Lines
  PROVE  /\ Separated(f) \in Lines
         /\ Separated(f) = f \/ Separated(f) = Append(f, Blank)
         /\ Separated(Separated(f)) = Separated(f)
         /\ Len(f) <= Len(Separated(f))
         /\ \A i \in 1..Len(f) : Separated(f)[i] = f[i]
         /\ \A i \in Len(f) + 1..Len(Separated(f)) : Separated(f)[i] = Blank
         /\ Separated(f) = f /\ f # <<>> => f[Len(f)] = Blank
         /\ Count(f) \in Nat /\ Count(Separated(f)) = Count(f) + (IF Separated(f) = f THEN 0 ELSE 1)
<1>1. f \in Seq(Nat) /\ Len(f) \in Nat /\ Blank \in Nat
  BY DEF Lines, Blank
<1>2. /\ Append(f, Blank) \in Seq(Nat) /\ Len(Append(f, Blank)) = Len(f) + 1
      /\ \A i \in 1..Len(f) : Append(f, Blank)[i] = f[i]
      /\ Append(f, Blank)[Len(f) + 1] = Blank
      /\ Append(f, Blank) # f /\ Append(f, Blank) # <<>>
  BY <1>1, AppendProperties
<1>3. f = <<>> <=> Len(f) = 0
  BY <1>1
<1>4. CASE f = <<>> \/ (Len(f) > 1 /\ Last(f) = Blank)
  <2>1. Separated(f) = f
    BY <1>4 DEF Separated
  <2>2. f # <<>> => f[Len(f)] = Blank
    BY <1>4 DEF Last
  <2>3. Count(f) \in Nat
    BY OccurrencesFinite DEF Count
  <2>. QED BY <1>1, <2>1, <2>2, <2>3
<1>5. CASE ~(f = <<>> \/ (Len(f) > 1 /\ Last(f) = Blank))
  <2> DEFINE g == Append(f, Blank)
  <2>1. Separated(f) = g
    BY <1>5 DEF Separated
  <2>2. Separated(g) = g
    BY <1>1, <1>2, <1>3, <1>5 DEF Separated, Last
  <2>3. Occurrences(g, Blank) = Occurrences(f, Blank) \cup {Len(f) + 1}
    <3>1. DOMAIN g = 1..Len(f) + 1 /\ DOMAIN f = 1..Len(f)
      BY <1>1, <1>2
    <3>2. \A i \in 1..Len(f) : g[i] = f[i]
      BY <1>2
    <3>3. g[Len(f) + 1] = Blank
      BY <1>2
    <3> HIDE DEF g
    <3>4. Occurrences(g, Blank) = {i \in 1..Len(f) + 1 : g[i] = Blank}
      BY <3>1 DEF Occurrences
    <3>5. Occurrences(f, Blank) = {i \in 1..Len(f) : f[i] = Blank}
      BY <3>1 DEF Occurrences
    <3>. QED BY <1>1, <3>2, <3>3, <3>4, <3>5
  <2>4. Len(f) + 1 \notin Occurrences(f, Blank)
    BY <1>1 DEF Occurrences
  <2>5. Count(f) \in Nat /\ Count(g) = Count(f) + 1
    BY <2>3, <2>4, OccurrencesFinite, FS_AddElement DEF Count
  <2> HIDE DEF g
  <2>6. g \in Lines /\ Len(f) <= Len(g) /\ g # f
    BY <1>1, <1>2 DEF g, Lines
  <2>7. \A i \in 1..Len(f) : g[i] = f[i]
    BY <1>2 DEF g
  <2>8. \A i \in Len(f) + 1..Len(g) : g[i] = Blank
    BY <1>1, <1>2 DEF g
  <2>. QED BY <2>1, <2>2, <2>5, <2>6, <2>7, <2>8 DEF g
<1>. QED BY <1>4, <1>5

(***************************************************************************)
(* What a rewrite leaves of the user's lines                               *)
(***************************************************************************)

(* The file g has, outside of its block and blank lines aside, the lines   *)
(* of before and after it those of after.                                  *)
Keeps(g, before, after) ==
  /\ Len(after) <= Len(g)
  /\ \A j \in 1..Len(after) :
       /\ g[Len(g) - Len(after) + j] = after[j]
       /\ Len(g) - Len(after) + j \notin InBlock(g)
  /\ \A i \in 1..Len(before) : before[i] # Blank =>
       /\ i <= Len(g) - Len(after)
       /\ g[i] = before[i]
       /\ i \notin InBlock(g)
  /\ \A i \in 1..Len(g) - Len(after) : g[i] # Blank /\ i \notin InBlock(g) =>
       i <= Len(before) /\ before[i] = g[i]

OwnAt(f) == {i \in 1..Len(f) : i \notin InBlock(f) /\ f[i] # Blank}

Moved(i, f, g, after) == IF i <= Len(f) - Len(after) THEN i ELSE i + Len(g) - Len(f)

(* The user's lines are the text outside the block.                        *)
LEMMA OwnLinesAre ==
  ASSUME NEW f \in Lines
  PROVE  OwnLines(f) = Selected(f, OwnAt(f))
<1>1. {i \in DOMAIN f \ InBlock(f) : IsText(f[i])} = OwnAt(f)
  BY DEF OwnAt, IsText, Lines
<1>. QED BY <1>1 DEF OwnLines

(* A line of the user's in one such file is in the other, at its place.    *)
LEMMA MovesOver ==
  ASSUME NEW f \in Lines, NEW g \in Lines, NEW before \in Lines, NEW after \in Lines,
         Keeps(f, before, after), Keeps(g, before, after), NEW i \in OwnAt(f)
  PROVE  /\ Moved(i, f, g, after) \in OwnAt(g)
         /\ g[Moved(i, f, g, after)] = f[i]
         /\ i <= Len(f) - Len(after) <=> Moved(i, f, g, after) <= Len(g) - Len(after)
         /\ Moved(Moved(i, f, g, after), g, f, after) = i
<1> DEFINE a == Len(after)
           F == Len(f)
           G == Len(g)
<1>1. a \in Nat /\ F \in Nat /\ G \in Nat /\ Len(before) \in Nat /\ a <= F /\ a <= G
  BY DEF Lines, Keeps
<1>2. i \in 1..F /\ f[i] # Blank /\ i \notin InBlock(f)
  BY DEF OwnAt
<1>3. CASE i <= F - a
  <2>1. Moved(i, f, g, after) = i
    BY <1>3 DEF Moved
  <2>2. i \in 1..Len(before) /\ before[i] = f[i]
    BY <1>1, <1>2, <1>3 DEF Keeps
  <2>3. i <= G - a /\ g[i] = before[i] /\ i \notin InBlock(g)
    BY <1>2, <2>2 DEF Keeps
  <2>4. i \in OwnAt(g)
    BY <1>1, <1>2, <2>2, <2>3 DEF OwnAt
  <2>5. Moved(i, g, f, after) = i
    BY <2>3 DEF Moved
  <2>. QED BY <1>3, <2>1, <2>2, <2>3, <2>4, <2>5
<1>4. CASE ~(i <= F - a)
  <2> DEFINE j == i - (F - a)
             k == i + G - F
  <2>1. Moved(i, f, g, after) = k
    BY <1>4 DEF Moved
  <2>2. j \in 1..a /\ i = F - a + j /\ k = G - a + j
    BY <1>1, <1>2, <1>4
  <2>3. k \in 1..G /\ ~(k <= G - a)
    BY <1>1, <2>2
  <2> HIDE DEF j, k
  <2>4. f[i] = after[j]
    BY <2>2 DEF Keeps
  <2>5. g[k] = after[j] /\ k \notin InBlock(g)
    BY <2>2 DEF Keeps
  <2>6. k \in OwnAt(g)
    BY <1>2, <2>3, <2>4, <2>5 DEF OwnAt
  <2>7. Moved(k, g, f, after) = k + F - G
    BY <2>3 DEF Moved
  <2>8. k + F - G = i
    BY <1>1, <1>2 DEF k
  <2>. QED BY <1>4, <2>1, <2>3, <2>4, <2>5, <2>6, <2>7, <2>8
<1>. QED BY <1>3, <1>4

(* Two files that keep the same parts around a block have the same lines   *)
(* of the user.                                                            *)
LEMMA KeepsOwnLines ==
  ASSUME NEW f \in Lines, NEW g \in Lines, NEW before \in Lines, NEW after \in Lines,
         Keeps(f, before, after), Keeps(g, before, after)
  PROVE  OwnLines(f) = OwnLines(g)
<1> DEFINE h == [i \in OwnAt(f) |-> Moved(i, f, g, after)]
<1>1. Len(f) \in Nat /\ Len(g) \in Nat /\ Len(after) \in Nat
  BY DEF Lines
<1>2. OwnAt(f) \in SUBSET Nat /\ OwnAt(g) \in SUBSET Nat /\ IsFiniteSet(OwnAt(f))
  <2>1. OwnAt(f) \in SUBSET (1..Len(f)) /\ OwnAt(g) \in SUBSET Nat
    BY <1>1 DEF OwnAt
  <2>2. IsFiniteSet(OwnAt(f))
    BY <1>1, <2>1, PickedFinite
  <2>. QED BY <2>1, <2>2
<1>3. Corresponds(h, f, OwnAt(f), g, OwnAt(g))
  <2>1. h \in [OwnAt(f) -> OwnAt(g)]
    BY MovesOver
  <2>2. \A i \in OwnAt(f) : g[h[i]] = f[i]
    BY MovesOver
  <2>3. \A j \in OwnAt(g) : \E i \in OwnAt(f) : h[i] = j
    <3> TAKE j \in OwnAt(g)
    <3>1. Moved(j, g, f, after) \in OwnAt(f) /\ Moved(Moved(j, g, f, after), f, g, after) = j
      BY MovesOver
    <3>. QED BY <3>1
  <2>. QED BY <2>1, <2>2, <2>3 DEF Corresponds
<1>4. ASSUME NEW i \in OwnAt(f), NEW j \in OwnAt(f)
      PROVE  i <= j <=> h[i] <= h[j]
  <2>1. /\ i <= Len(f) - Len(after) <=> h[i] <= Len(g) - Len(after)
        /\ j <= Len(f) - Len(after) <=> h[j] <= Len(g) - Len(after)
    BY MovesOver
  <2>2. /\ h[i] = IF i <= Len(f) - Len(after) THEN i ELSE i + Len(g) - Len(f)
        /\ h[j] = IF j <= Len(f) - Len(after) THEN j ELSE j + Len(g) - Len(f)
    BY DEF Moved
  <2>3. i \in Nat /\ j \in Nat
    BY <1>2
  <2> HIDE DEF h
  <2>. QED BY <1>1, <2>1, <2>2, <2>3
<1>5. Rising(h, OwnAt(f))
  BY <1>4 DEF Rising
<1> HIDE DEF h
<1>6. Selected(f, OwnAt(f)) = Selected(g, OwnAt(g))
  BY <1>2, <1>3, <1>5, SelectedAlike
<1>. QED BY <1>6, OwnLinesAre

(***************************************************************************)
(* What render writes                                                      *)
(***************************************************************************)
NoBlanks(f) == \A i \in 1..Len(f) : f[i] # Blank

(* No blank line follows a delimiter. *)
NoBlanksBehind(f) ==
  \A i, j \in 1..Len(f) : i < j /\ f[i] \in Delimiters => f[j] # Blank

(* A file with a block, line by line. *)
HasBlock(g, sep, managed, after) ==
  /\ Len(g) = Len(sep) + Len(managed) + 2 + Len(after)
  /\ \A i \in 1..Len(sep) : g[i] = sep[i]
  /\ g[Len(sep) + 1] = BeginMark
  /\ \A i \in 1..Len(managed) : g[Len(sep) + 1 + i] = managed[i]
  /\ g[Len(sep) + Len(managed) + 2] = EndMark
  /\ \A i \in 1..Len(after) : g[Len(sep) + Len(managed) + 2 + i] = after[i]

(* The lines of a file rendered with a block, place by place.              *)
LEMMA BlockLines ==
  ASSUME NEW sep \in Lines, NEW managed \in Lines, NEW after \in Lines
  PROVE  LET g == sep \o <<BeginMark>> \o managed \o <<EndMark>> \o after
         IN  g \in Lines /\ HasBlock(g, sep, managed, after)
<1> DEFINE g1 == sep \o <<BeginMark>>
           g2 == g1 \o managed
           g3 == g2 \o <<EndMark>>
           g4 == g3 \o after
           s == Len(sep)
           m == Len(managed)
           a == Len(after)
<1>1. /\ <<BeginMark>> \in Lines /\ Len(<<BeginMark>>) = 1 /\ <<BeginMark>>[1] = BeginMark
      /\ <<EndMark>> \in Lines /\ Len(<<EndMark>>) = 1 /\ <<EndMark>>[1] = EndMark
  BY SpecialLines DEF Lines
<1>2. s \in Nat /\ m \in Nat /\ a \in Nat
  BY DEF Lines
<1>3. /\ g1 \in Lines /\ Len(g1) = s + 1 /\ \A i \in 1..s : g1[i] = sep[i]
      /\ g1[s + 1] = BeginMark
  BY <1>1, <1>2, JoinedLines
<1> HIDE DEF g1
<1>4. /\ g2 \in Lines /\ Len(g2) = s + 1 + m /\ \A i \in 1..s + 1 : g2[i] = g1[i]
      /\ \A i \in 1..m : g2[s + 1 + i] = managed[i]
  <2>1. /\ g2 \in Lines /\ Len(g2) = Len(g1) + m /\ \A i \in 1..Len(g1) : g2[i] = g1[i]
        /\ \A i \in 1..m : g2[Len(g1) + i] = managed[i]
    BY <1>3, JoinedLines
  <2>. QED BY <1>3, <2>1
<1> HIDE DEF g2
<1>5. /\ g3 \in Lines /\ Len(g3) = s + m + 2 /\ \A i \in 1..s + 1 + m : g3[i] = g2[i]
      /\ g3[s + m + 2] = EndMark
  <2>1. /\ g3 \in Lines /\ Len(g3) = Len(g2) + 1 /\ \A i \in 1..Len(g2) : g3[i] = g2[i]
        /\ \A i \in 1..1 : g3[Len(g2) + i] = <<EndMark>>[i]
    BY <1>1, <1>4, JoinedLines
  <2>2. s + 1 + m + 1 = s + m + 2 /\ 1 \in 1..1
    BY <1>2
  <2>. QED BY <1>1, <1>4, <2>1, <2>2
<1> HIDE DEF g3
<1>6. /\ g4 \in Lines /\ Len(g4) = s + m + 2 + a /\ \A i \in 1..s + m + 2 : g4[i] = g3[i]
      /\ \A i \in 1..a : g4[s + m + 2 + i] = after[i]
  <2>1. /\ g4 \in Lines /\ Len(g4) = Len(g3) + a /\ \A i \in 1..Len(g3) : g4[i] = g3[i]
        /\ \A i \in 1..a : g4[Len(g3) + i] = after[i]
    BY <1>5, JoinedLines
  <2>. QED BY <1>5, <2>1
<1> HIDE DEF g4
<1>7. \A i \in 1..s : g4[i] = sep[i]
  <2> TAKE i \in 1..s
  <2>1. i \in 1..s + 1 /\ i \in 1..s + 1 + m /\ i \in 1..s + m + 2
    BY <1>2
  <2>. QED BY <1>3, <1>4, <1>5, <1>6, <2>1
<1>8. g4[s + 1] = BeginMark
  <2>1. s + 1 \in 1..s + 1 /\ s + 1 \in 1..s + 1 + m /\ s + 1 \in 1..s + m + 2
    BY <1>2
  <2>. QED BY <1>3, <1>4, <1>5, <1>6, <2>1
<1>9. \A i \in 1..m : g4[s + 1 + i] = managed[i]
  <2> TAKE i \in 1..m
  <2>1. s + 1 + i \in 1..s + 1 + m /\ s + 1 + i \in 1..s + m + 2
    BY <1>2
  <2>. QED BY <1>4, <1>5, <1>6, <2>1
<1>10. g4[s + m + 2] = EndMark
  <2>1. s + m + 2 \in 1..s + m + 2
    BY <1>2
  <2>. QED BY <1>5, <1>6, <2>1
<1>11. HasBlock(g4, sep, managed, after)
  BY <1>6, <1>7, <1>8, <1>9, <1>10 DEF HasBlock
<1>. QED BY <1>6, <1>11 DEF g1, g2, g3, g4

(* With entries there is one block, behind the separated lines.            *)
LEMMA RenderedWith ==
  ASSUME NEW before \in Lines, NEW managed \in Lines, NEW after \in Lines,
         NoDelimiters(before), NoDelimiters(after),
         managed # <<>>, \A i \in 1..Len(managed) : managed[i] \notin Special
  PROVE  LET g == Render(before, managed, after)
             s == Len(Separated(before))
             m == Len(managed)
         IN  /\ g \in Lines
             /\ BlockAt(g, s + 1, s + m + 2)
             /\ Parse(g).before = Separated(before)
             /\ Keeps(g, before, after)
             /\ EntriesOf(g) = ToSet(managed)
             /\ NoBlanks(after) => /\ NoBlanksBehind(g)
                                   /\ Occurrences(g, Blank) = Occurrences(Separated(before), Blank)
<1> DEFINE g == Render(before, managed, after)
           sep == Separated(before)
           s == Len(sep)
           m == Len(managed)
           a == Len(after)
           n == Len(before)
<1>1. g = sep \o <<BeginMark>> \o managed \o <<EndMark>> \o after
  BY DEF Render
<1>2. sep \in Lines /\ n <= s /\ (\A i \in 1..n : sep[i] = before[i]) /\ (\A i \in n + 1..s : sep[i] = Blank)
  BY SeparatedIs
<1>3. s \in Nat /\ m \in Nat /\ a \in Nat /\ n \in Nat
  BY <1>2 DEF Lines
<1>4. g \in Lines /\ HasBlock(g, sep, managed, after)
  <2> DEFINE text == sep \o <<BeginMark>> \o managed \o <<EndMark>> \o after
  <2> HIDE DEF sep
  <2>1. text \in Lines /\ HasBlock(text, sep, managed, after)
    BY <1>2, BlockLines
  <2>2. g = text
    BY <1>1
  <2> HIDE DEF text, g
  <2>. QED BY <2>1, <2>2
<1> HIDE DEF g, sep
<1>5. Len(g) = s + m + 2 + a /\ Len(g) \in Nat
  BY <1>3, <1>4 DEF HasBlock
<1>6. \A i \in 1..s : g[i] = sep[i] /\ g[i] \notin Delimiters
  <2> TAKE i \in 1..s
  <2>1. g[i] = sep[i]
    BY <1>4 DEF HasBlock
  <2>2. CASE i \in 1..n
    BY <1>2, <2>1, <2>2 DEF NoDelimiters
  <2>3. CASE i \in n + 1..s
    BY <1>2, <2>1, <2>3, SpecialLines DEF Delimiters
  <2>. QED BY <1>3, <2>1, <2>2, <2>3
<1>7. g[s + 1] = BeginMark /\ g[s + m + 2] = EndMark
  BY <1>4 DEF HasBlock
<1>8. \A i \in s + 2..s + m + 1 : /\ i - s - 1 \in 1..m /\ g[i] = managed[i - s - 1]
                                  /\ g[i] \notin Special
  <2> TAKE i \in s + 2..s + m + 1
  <2>1. i - s - 1 \in 1..m /\ s + 1 + (i - s - 1) = i
    BY <1>3
  <2>. QED BY <1>4, <2>1 DEF HasBlock
<1>9. \A i \in s + m + 3..s + m + 2 + a : /\ i - (s + m + 2) \in 1..a /\ g[i] = after[i - (s + m + 2)]
                                          /\ g[i] \notin Delimiters
  <2> TAKE i \in s + m + 3..s + m + 2 + a
  <2>1. i - (s + m + 2) \in 1..a /\ s + m + 2 + (i - (s + m + 2)) = i
    BY <1>3
  <2>. QED BY <1>4, <2>1 DEF HasBlock, NoDelimiters
<1>10. \A i \in 1..Len(g) : \/ i \in 1..s \/ i = s + 1 \/ i \in s + 2..s + m + 1
                            \/ i = s + m + 2 \/ i \in s + m + 3..s + m + 2 + a
  BY <1>3, <1>5
<1>11. BlockAt(g, s + 1, s + m + 2)
  <2>1. s + 1 \in 1..Len(g) /\ s + m + 2 \in 1..Len(g) /\ s + 1 < s + m + 2
    BY <1>3, <1>5
  <2>2. ASSUME NEW i \in 1..Len(g)
        PROVE  (g[i] = BeginMark <=> i = s + 1) /\ (g[i] = EndMark <=> i = s + m + 2)
    <3>1. i # s + 1 /\ i # s + m + 2 => g[i] \notin Delimiters
      BY <1>6, <1>8, <1>9, <1>10 DEF Special, Delimiters
    <3>. QED BY <1>3, <1>7, <3>1, SpecialLines DEF Delimiters
  <2>. QED BY <2>1, <2>2 DEF BlockAt
<1>12. InBlock(g) = s + 1..s + m + 2
  BY <1>4, <1>11, ParseWith
<1>13. Parse(g).before = sep
  <2> DEFINE b == s + 1
             e == s + m + 2
  <2>0. BlockAt(g, b, e)
    BY <1>11
  <2> HIDE DEF b, e
  <2>1. Parse(g).before = SubSeq(g, 1, b - 1)
    BY <1>4, <2>0, ParseWith
  <2>2. SubSeq(g, 1, s) \in Lines /\ Len(SubSeq(g, 1, s)) = s /\ \A i \in 1..s : SubSeq(g, 1, s)[i] = g[i]
    <3>1. s \in 0..Len(g)
      BY <1>3, <1>5
    <3>. QED BY <1>4, <3>1, FirstLines
  <2>3. SubSeq(g, 1, s) = sep
    BY <1>2, <1>6, <2>2, SeqEqual DEF Lines
  <2>4. b - 1 = s
    BY <1>3 DEF b
  <2>. QED BY <2>1, <2>3, <2>4
<1>14. Keeps(g, before, after)
  <2>1. a <= Len(g) /\ Len(g) - a = s + m + 2
    BY <1>3, <1>5
  <2>2. ASSUME NEW j \in 1..a
        PROVE  g[Len(g) - a + j] = after[j] /\ Len(g) - a + j \notin InBlock(g)
    <3>1. Len(g) - a + j \in s + m + 3..s + m + 2 + a /\ Len(g) - a + j - (s + m + 2) = j
      BY <1>3, <1>5
    <3>2. Len(g) - a + j \notin s + 1..s + m + 2
      BY <1>3, <1>5
    <3>. QED BY <1>9, <1>12, <3>1, <3>2
  <2>3. ASSUME NEW i \in 1..n
        PROVE  i <= Len(g) - a /\ g[i] = before[i] /\ i \notin InBlock(g)
    BY <1>2, <1>3, <1>6, <1>12, <2>1
  <2>4. ASSUME NEW i \in 1..Len(g) - a, g[i] # Blank, i \notin InBlock(g)
        PROVE  i <= n /\ before[i] = g[i]
    <3>1. i \in 1..s
      BY <1>3, <1>12, <2>1, <2>4
    <3>2. i \notin n + 1..s
      BY <1>2, <1>6, <2>4, <3>1
    <3>. QED BY <1>2, <1>3, <1>6, <3>1, <3>2
  <2>. QED BY <2>1, <2>2, <2>3, <2>4 DEF Keeps
<1>15. EntriesOf(g) = ToSet(managed)
  <2>1. EntriesOf(g) = {g[i] : i \in s + 1..s + m + 2} \ Special
    BY <1>12 DEF EntriesOf, Special
  <2>2. ASSUME NEW i \in s + 1..s + m + 2, g[i] \notin Special
        PROVE  g[i] \in ToSet(managed)
    <3>1. i \in s + 2..s + m + 1
      BY <1>3, <1>7, <2>2 DEF Special
    <3>2. DOMAIN managed = 1..m
      BY DEF Lines
    <3>. QED BY <1>8, <3>1, <3>2 DEF ToSet
  <2>3. ASSUME NEW k \in 1..m
        PROVE  \E i \in s + 1..s + m + 2 : g[i] = managed[k] /\ g[i] \notin Special
    <3>1. s + 1 + k \in s + 1..s + m + 2
      BY <1>3
    <3>2. g[s + 1 + k] = managed[k]
      BY <1>4 DEF HasBlock
    <3>. QED BY <3>1, <3>2
  <2>4. ToSet(managed) = {managed[k] : k \in 1..m}
    BY DEF ToSet, Lines
  <2>. QED BY <2>1, <2>2, <2>3, <2>4
<1>16. ASSUME NoBlanks(after)
       PROVE  NoBlanksBehind(g) /\ Occurrences(g, Blank) = Occurrences(sep, Blank)
  <2>1. \A i \in 1..Len(g) : i > s => g[i] # Blank
    <3> TAKE i \in 1..Len(g)
    <3>1. i \in s + m + 3..s + m + 2 + a => g[i] # Blank
      BY <1>9, <1>16 DEF NoBlanks
    <3>2. i \in s + 2..s + m + 1 => g[i] # Blank
      BY <1>8 DEF Special
    <3>. QED BY <1>3, <1>7, <1>10, <3>1, <3>2, SpecialLines
  <2>2. NoBlanksBehind(g)
    <3> SUFFICES ASSUME NEW i \in 1..Len(g), NEW j \in 1..Len(g), i < j, g[i] \in Delimiters
                 PROVE  g[j] # Blank
      BY DEF NoBlanksBehind
    <3>1. i > s
      BY <1>3, <1>5, <1>6
    <3>2. j > s
      BY <1>3, <1>5, <3>1
    <3>. QED BY <2>1, <3>2
  <2>3. DOMAIN g = 1..Len(g) /\ DOMAIN sep = 1..s
    BY <1>2, <1>4 DEF Lines
  <2>4. \A i : i \in Occurrences(g, Blank) <=> i \in 1..Len(g) /\ g[i] = Blank
    BY <2>3 DEF Occurrences
  <2>5. \A i : i \in Occurrences(sep, Blank) <=> i \in 1..s /\ sep[i] = Blank
    BY <2>3 DEF Occurrences
  <2>6. \A i : i \in 1..Len(g) /\ g[i] = Blank <=> i \in 1..s /\ sep[i] = Blank
    BY <1>3, <1>5, <1>6, <2>1
  <2>. QED BY <2>2, <2>4, <2>5, <2>6
<1>. QED BY <1>4, <1>11, <1>13, <1>14, <1>15, <1>16 DEF g, sep

(* Without entries there is no block, and no blank line where it was.      *)
LEMMA RenderedWithout ==
  ASSUME NEW before \in Lines, NEW after \in Lines, NoDelimiters(before), NoDelimiters(after)
  PROVE  LET g == Render(before, <<>>, after)
         IN  /\ g \in Lines
             /\ NoDelimiters(g)
             /\ Keeps(g, before, after)
             /\ NoBlanks(after) =>
                  \/ Count(g) = 1
                  \/ /\ Count(g) \in Nat /\ Count(before) \in Nat /\ Count(g) <= Count(before)
                     /\ before # <<>> /\ before[Len(before)] = Blank => Count(g) + 1 <= Count(before)
<1> DEFINE g == Render(before, <<>>, after)
           n == Len(before)
           a == Len(after)
<1>1. n \in Nat /\ a \in Nat /\ before \in Seq(Nat) /\ DOMAIN before = 1..n
  BY DEF Lines
<1>2. PICK t : TrimsTo(t, before)
  BY TrimmedIs
<1>3. /\ t \in 0..n /\ (\A i \in t + 1..n : before[i] = Blank) /\ (t # 0 => before[t] # Blank)
      /\ TrimmedEnd(before) = SubSeq(before, 1, t)
  BY <1>2 DEF TrimsTo
<1> DEFINE trimmed == SubSeq(before, 1, t)
<1>4. trimmed \in Lines /\ Len(trimmed) = t /\ \A i \in 1..t : trimmed[i] = before[i]
  <2>1. 1 \in 1..n + 1 /\ t \in 1 - 1..n /\ t - 1 + 1 = t /\ \A i \in 1..t : 1 + i - 1 = i
    BY <1>1, <1>3
  <2>. QED BY <2>1, CutLines
<1> HIDE DEF trimmed
<1>5. trimmed = <<>> <=> t = 0
  BY <1>4 DEF Lines
<1> DEFINE front == IF t = 0 THEN <<Blank>> ELSE trimmed
           f == Len(front)
<1>6. g = front \o after
  BY <1>3, <1>5 DEF Render, trimmed
<1>7. /\ front \in Lines /\ f \in Nat
      /\ t = 0 => f = 1 /\ front[1] = Blank
      /\ t # 0 => f = t
      /\ \A i \in 1..t : front[i] = before[i]
  <2>1. CASE t = 0
    <3>1. front = <<Blank>> /\ <<Blank>> \in Seq(Nat) /\ Len(<<Blank>>) = 1 /\ <<Blank>>[1] = Blank
      BY <2>1, SpecialLines
    <3> HIDE DEF front
    <3>. QED BY <2>1, <3>1 DEF Lines
  <2>2. CASE t # 0
    BY <1>3, <1>4, <2>2
  <2>. QED BY <2>1, <2>2
<1> HIDE DEF front, g
<1>8. /\ g \in Lines /\ Len(g) = f + a /\ DOMAIN g = 1..f + a
      /\ \A i \in 1..f : g[i] = front[i]
      /\ \A i \in 1..a : g[f + i] = after[i]
      /\ \A i \in f + 1..f + a : g[i] = after[i - f]
  BY <1>6, <1>7, JoinedLines
<1>9. NoDelimiters(g)
  <2> SUFFICES ASSUME NEW i \in 1..f + a
               PROVE  g[i] \notin Delimiters
    BY <1>8 DEF NoDelimiters
  <2>1. CASE i \in 1..f /\ t = 0
    <3>1. f = 1 /\ front[1] = Blank
      BY <1>7, <2>1
    <3>2. i = 1
      BY <2>1, <3>1
    <3>3. g[i] = Blank
      BY <1>8, <2>1, <3>1, <3>2
    <3>. QED BY <3>3, SpecialLines DEF Delimiters
  <2>2. CASE i \in 1..f /\ t # 0
    BY <1>1, <1>3, <1>7, <1>8, <2>2 DEF NoDelimiters
  <2>3. CASE i \in f + 1..f + a
    <3>1. i - f \in 1..a
      BY <1>1, <1>7, <2>3
    <3>. QED BY <1>8, <2>3, <3>1 DEF NoDelimiters
  <2>. QED BY <1>1, <1>7, <2>1, <2>2, <2>3
<1>10. InBlock(g) = {}
  BY <1>8, <1>9, ParseWithout
<1>11. Keeps(g, before, after)
  <2>1. a <= Len(g) /\ Len(g) - a = f
    BY <1>1, <1>7, <1>8
  <2>2. ASSUME NEW i \in 1..n, before[i] # Blank
        PROVE  i <= f /\ g[i] = before[i]
    <3>1. i \in 1..t /\ t # 0
      BY <1>1, <1>3, <2>2
    <3>. QED BY <1>3, <1>7, <1>8, <3>1
  <2>3. ASSUME NEW i \in 1..f, g[i] # Blank
        PROVE  i <= n /\ before[i] = g[i]
    <3>1. t # 0 /\ i \in 1..t
      BY <1>7, <1>8, <2>3
    <3>. QED BY <1>1, <1>3, <1>7, <1>8, <3>1
  <2>. QED BY <1>8, <1>10, <2>1, <2>2, <2>3 DEF Keeps
<1>12. ASSUME NoBlanks(after)
       PROVE  \/ Count(g) = 1
              \/ /\ Count(g) \in Nat /\ Count(before) \in Nat /\ Count(g) <= Count(before)
                 /\ before # <<>> /\ before[Len(before)] = Blank => Count(g) + 1 <= Count(before)
  <2>1. \A i \in f + 1..f + a : g[i] # Blank
    <3> TAKE i \in f + 1..f + a
    <3>1. i - f \in 1..a
      BY <1>1, <1>7
    <3>. QED BY <1>8, <1>12, <3>1 DEF NoBlanks
  <2>2. \A i : i \in Occurrences(g, Blank) <=> i \in 1..f /\ front[i] = Blank
    <3>1. \A i : i \in Occurrences(g, Blank) <=> i \in 1..f + a /\ g[i] = Blank
      BY <1>8 DEF Occurrences
    <3>2. \A i \in 1..f + a : g[i] = Blank <=> i \in 1..f /\ front[i] = Blank
      BY <1>1, <1>7, <1>8, <2>1
    <3>3. \A i \in 1..f : i \in 1..f + a
      BY <1>1, <1>7
    <3>. QED BY <3>1, <3>2, <3>3
  <2>3. CASE t = 0
    <3>1. Occurrences(g, Blank) = {1}
      <4>1. f = 1 /\ front[1] = Blank /\ 1..1 = {1}
        BY <1>7, <2>3
      <4>2. \A i : i \in Occurrences(g, Blank) <=> i \in {1} /\ front[i] = Blank
        BY <2>2, <4>1
      <4>. QED BY <4>1, <4>2
    <3>. QED BY <3>1, FS_Singleton DEF Count
  <2>4. CASE t # 0
    <3>1. \A i : i \in Occurrences(g, Blank) <=> i \in 1..t /\ before[i] = Blank
      BY <1>7, <2>2, <2>4
    <3>2. \A i : i \in Occurrences(before, Blank) <=> i \in 1..n /\ before[i] = Blank
      BY <1>1 DEF Occurrences
    <3>3. Occurrences(g, Blank) \subseteq Occurrences(before, Blank)
      BY <1>1, <1>3, <3>1, <3>2
    <3>4. ASSUME before # <<>>, before[n] = Blank
          PROVE  Occurrences(g, Blank) # Occurrences(before, Blank)
      <4>1. n \in 1..n
        BY <1>1, <3>4
      <4>2. n \notin 1..t
        BY <1>1, <1>3, <2>4, <3>4
      <4>. QED BY <3>1, <3>2, <3>4, <4>1, <4>2
    <3>. QED BY <1>8, <3>3, <3>4, CountMonotone
  <2>. QED BY <2>3, <2>4
<1>. QED BY <1>8, <1>9, <1>11, <1>12 DEF g

(* The parts parse makes of a well-formed file.                            *)
LEMMA PartsAre ==
  ASSUME NEW f \in Lines, WellFormed(f)
  PROVE  LET parts == Parse(f)
         IN  /\ parts.before \in Lines /\ parts.managed \in Lines /\ parts.after \in Lines
             /\ NoDelimiters(parts.before) /\ NoDelimiters(parts.after)
             /\ \A i \in 1..Len(parts.managed) : parts.managed[i] \notin Special
             /\ EntriesOf(f) = ToSet(parts.managed)
             /\ Keeps(f, parts.before, parts.after)
             /\ NoBlanksBehind(f) => /\ NoBlanks(parts.after)
                                     /\ Occurrences(f, Blank) = Occurrences(parts.before, Blank)
<1> DEFINE before == Parse(f).before
           managed == Parse(f).managed
           after == Parse(f).after
           F == Len(f)
<1>1. f \in Seq(Nat) /\ F \in Nat /\ DOMAIN f = 1..F /\ \A i \in 1..F : f[i] \in Nat
  BY DEF Lines
<1>2. CASE NoDelimiters(f)
  <2>1. before = f /\ managed = <<>> /\ after = <<>> /\ InBlock(f) = {}
    BY <1>2, ParseWithout
  <2>2. <<>> \in Lines /\ Len(<<>>) = 0 /\ NoDelimiters(<<>>) /\ NoBlanks(<<>>) /\ ToSet(<<>>) = {}
    BY DEF Lines, NoDelimiters, NoBlanks, ToSet
  <2>3. EntriesOf(f) = {}
    BY <2>1 DEF EntriesOf
  <2>4. Keeps(f, f, <<>>)
    BY <1>1, <2>1, <2>2 DEF Keeps
  <2> HIDE DEF before, managed, after
  <2>. QED BY <1>2, <2>1, <2>2, <2>3, <2>4 DEF before, managed, after
<1>3. ASSUME NEW b, NEW e, BlockAt(f, b, e)
      PROVE  /\ before \in Lines /\ managed \in Lines /\ after \in Lines
             /\ NoDelimiters(before) /\ NoDelimiters(after)
             /\ \A i \in 1..Len(managed) : managed[i] \notin Special
             /\ EntriesOf(f) = ToSet(managed)
             /\ Keeps(f, before, after)
             /\ NoBlanksBehind(f) => /\ NoBlanks(after)
                                     /\ Occurrences(f, Blank) = Occurrences(before, Blank)
  <2> DEFINE inner == {i \in b + 1..e - 1 : IsText(f[i])}
  <2>1. /\ before = SubSeq(f, 1, b - 1) /\ managed = Selected(f, inner)
        /\ after = SubSeq(f, e + 1, F) /\ InBlock(f) = b..e
    BY <1>3, ParseWith
  <2>2. /\ b \in 1..F /\ e \in 1..F /\ b < e
        /\ f[b] = BeginMark /\ f[e] = EndMark
        /\ \A i \in 1..F : i # b /\ i # e => f[i] \notin Delimiters
    BY <1>3 DEF BlockAt, Delimiters
  <2> HIDE DEF before, managed, after
  <2>3. before \in Lines /\ Len(before) = b - 1 /\ \A i \in 1..b - 1 : before[i] = f[i]
    <3>1. b - 1 \in 0..F
      BY <1>1, <2>2
    <3>. QED BY <2>1, <3>1, FirstLines
  <2>4. after \in Lines /\ Len(after) = F - e /\ \A i \in 1..F - e : after[i] = f[e + i]
    <3>1. e \in 0..F
      BY <1>1, <2>2
    <3>. QED BY <2>1, <3>1, LastLines
  <2>5. \A i \in e + 1..F : i - e \in 1..F - e /\ f[i] = after[i - e]
    BY <1>1, <2>2, <2>4
  <2>6. NoDelimiters(before) /\ NoDelimiters(after)
    <3>1. \A i \in 1..b - 1 : f[i] \notin Delimiters
      BY <1>1, <2>2
    <3>2. \A i \in 1..F - e : f[e + i] \notin Delimiters
      BY <1>1, <2>2
    <3>. QED BY <2>3, <2>4, <3>1, <3>2 DEF NoDelimiters
  <2>7. inner \in SUBSET (1..F) /\ \A i \in inner : f[i] \in Nat \ Special
    BY <1>1, <2>2 DEF IsText, Delimiters, Special
  <2>8. Holds(managed, f, inner)
    BY <1>1, <2>1, <2>7, SelectedLines
  <2>9. /\ managed \in Lines /\ DOMAIN managed = 1..Len(managed)
        /\ \A i \in 1..Len(managed) : managed[i] \notin Special
    <3>1. ToSet(managed) \subseteq Nat \ Special
      BY <2>7, <2>8 DEF Holds
    <3>2. managed \in Seq(ToSet(managed))
      BY <2>8 DEF Holds
    <3>. QED BY <3>1, <3>2 DEF Lines
  <2>10. EntriesOf(f) = ToSet(managed)
    <3>1. \A x : x \in EntriesOf(f) <=> \E i \in b..e : f[i] = x /\ x \notin Special
      BY <2>1 DEF EntriesOf, Special
    <3>2. \A i \in b..e : f[i] \notin Special <=> i \in inner
      BY <1>1, <2>2 DEF IsText, Special, Delimiters
    <3>3. inner \subseteq b..e
      BY <1>1, <2>2
    <3>4. \A x : x \in ToSet(managed) <=> \E i \in inner : f[i] = x
      BY <2>8 DEF Holds
    <3> HIDE DEF inner
    <3>. QED BY <3>1, <3>2, <3>3, <3>4
  <2>11. Keeps(f, before, after)
    <3>1. Len(after) <= F /\ F - Len(after) = e
      BY <1>1, <2>2, <2>4
    <3>2. \A j \in 1..F - e : e + j \notin b..e
      BY <1>1, <2>2
    <3>3. \A i \in 1..b - 1 : i <= e /\ i \notin b..e
      BY <1>1, <2>2
    <3>4. \A i \in 1..e : i \notin b..e => i \in 1..b - 1 /\ i <= b - 1
      BY <1>1, <2>2
    <3>. QED BY <2>1, <2>3, <2>4, <3>1, <3>2, <3>3, <3>4 DEF Keeps
  <2>12. ASSUME NoBlanksBehind(f)
         PROVE  NoBlanks(after) /\ Occurrences(f, Blank) = Occurrences(before, Blank)
    <3>1. \A i \in 1..F : i >= b => f[i] # Blank
      <4> TAKE i \in 1..F
      <4>1. i > b => f[i] # Blank
        BY <2>2, <2>12 DEF NoBlanksBehind, Delimiters
      <4>. QED BY <1>1, <2>2, <4>1, SpecialLines
    <3>2. \A i \in 1..F - e : e + i \in 1..F /\ e + i >= b
      BY <1>1, <2>2
    <3>3. NoBlanks(after)
      BY <2>4, <3>1, <3>2 DEF NoBlanks
    <3>4. \A i : i \in Occurrences(f, Blank) <=> i \in 1..F /\ f[i] = Blank
      BY <1>1 DEF Occurrences
    <3>5. \A i : i \in Occurrences(before, Blank) <=> i \in 1..b - 1 /\ before[i] = Blank
      BY <2>3 DEF Occurrences, Lines
    <3>6. \A i \in 1..F : i < b <=> i \in 1..b - 1
      BY <1>1, <2>2
    <3>7. \A i \in 1..b - 1 : i \in 1..F
      BY <1>1, <2>2
    <3>8. \A i \in 1..F : i < b \/ i >= b
      BY <1>1, <2>2
    <3>. QED BY <2>3, <3>1, <3>3, <3>4, <3>5, <3>6, <3>7, <3>8
  <2>. QED BY <2>3, <2>4, <2>6, <2>9, <2>10, <2>11, <2>12
<1>. QED BY <1>2, <1>3, WellFormedIs

(***************************************************************************)
(* A rewrite                                                               *)
(***************************************************************************)
Asked(op, set, entries) ==
  CASE op = "add"     -> entries \cup set
    [] op = "remove"  -> entries \ set
    [] op = "replace" -> set
    [] OTHER -> entries

(* The lines of the block after it are those asked for. *)
LEMMA ManagingAsked ==
  ASSUME NEW op \in RewriteOps, NEW set \in SUBSET Entries, NEW managed \in Lines,
         \A i \in 1..Len(managed) : managed[i] \notin Special
  PROVE  LET out == Managing(op, set, managed)
         IN  /\ out \in Lines
             /\ \A i \in 1..Len(out) : out[i] \notin Special
             /\ ToSet(out) = Asked(op, set, ToSet(managed))
<1> DEFINE out == Managing(op, set, managed)
           old == ToSet(managed)
<1>1. /\ managed \in Seq(Nat) /\ Len(managed) \in Nat /\ DOMAIN managed = 1..Len(managed)
      /\ \A i \in 1..Len(managed) : managed[i] \in Nat
  BY DEF Lines
<1>2. old \subseteq Nat \ Special
  BY <1>1 DEF ToSet
<1>3. set \subseteq Nat \ Special /\ IsFiniteSet(set)
  BY LinesTyped, FS_Subset DEF Special
<1>4. ASSUME NEW lines \in Lines
      PROVE  ToSet(lines) = {lines[i] : i \in 1..Len(lines)} /\ ToSet(lines) \subseteq Nat
  BY DEF Lines, ToSet
<1>5. ASSUME NEW lines \in Lines
      PROVE  ToSet(SortedLines(lines)) = ToSet(lines) /\ SortedLines(lines) \in Seq(ToSet(SortedLines(lines)))
  <2>1. Holds(SortedLines(lines), lines, DOMAIN lines)
    BY SortedKeeps
  <2>2. \A x : x \in ToSet(SortedLines(lines)) <=> x \in ToSet(lines)
    BY <2>1 DEF Holds, ToSet
  <2>. QED BY <2>1, <2>2 DEF Holds
<1>6. ToSet(out) = Asked(op, set, old) /\ out \in Seq(ToSet(out))
  <2>1. CASE op = "add"
    <3> DEFINE new == SetToSeq(set \ old)
    <3>1. IsFiniteSet(set \ old) /\ set \ old \in SUBSET Nat
      BY <1>3, FS_Subset
    <3>2. new \in Lines /\ ToSet(new) = set \ old
      BY <3>1, LinesOfSet
    <3> HIDE DEF new
    <3>3. managed \o new \in Lines
      BY <3>2, JoinedLines
    <3>4. ToSet(managed \o new) = old \cup set
      <4>1. ToSet(managed \o new) = old \cup ToSet(new)
        <5>1. /\ DOMAIN (managed \o new) = 1..Len(managed) + Len(new)
              /\ \A i \in 1..Len(managed) : (managed \o new)[i] = managed[i]
              /\ \A i \in 1..Len(new) : (managed \o new)[Len(managed) + i] = new[i]
              /\ \A i \in Len(managed) + 1..Len(managed) + Len(new) : (managed \o new)[i] = new[i - Len(managed)]
          BY <3>2, JoinedLines
        <5>2. Len(new) \in Nat /\ DOMAIN new = 1..Len(new)
          BY <3>2 DEF Lines
        <5> DEFINE both == managed \o new
        <5> HIDE DEF both
        <5>3. \A x : x \in ToSet(both) <=> \E i \in 1..Len(managed) + Len(new) : both[i] = x
          BY <5>1 DEF both, ToSet
        <5>4. \A x : x \in old <=> \E i \in 1..Len(managed) : managed[i] = x
          BY <1>1 DEF ToSet
        <5>5. \A x : x \in ToSet(new) <=> \E i \in 1..Len(new) : new[i] = x
          BY <5>2 DEF ToSet
        <5>6. \A i \in 1..Len(managed) : i \in 1..Len(managed) + Len(new) /\ both[i] = managed[i]
          BY <1>1, <5>1, <5>2 DEF both
        <5>7. \A i \in 1..Len(new) : Len(managed) + i \in 1..Len(managed) + Len(new) /\ both[Len(managed) + i] = new[i]
          BY <1>1, <5>1, <5>2 DEF both
        <5>8. \A i \in 1..Len(managed) + Len(new) :
                 i \in 1..Len(managed) \/ (i - Len(managed) \in 1..Len(new) /\ both[i] = new[i - Len(managed)])
          BY <1>1, <5>1, <5>2 DEF both
        <5> HIDE DEF old
        <5>9. \A x : x \in ToSet(both) <=> x \in old \/ x \in ToSet(new)
          BY <5>3, <5>4, <5>5, <5>6, <5>7, <5>8
        <5>. QED BY <5>9 DEF both
      <4>. QED BY <3>2, <4>1
    <3>5. out = SortedLines(managed \o new)
      BY <2>1 DEF Managing, new
    <3>. QED BY <1>5, <2>1, <3>3, <3>4, <3>5 DEF Asked
  <2>2. CASE op = "remove"
    <3> DEFINE kept == {i \in DOMAIN managed : managed[i] \notin set}
    <3>1. kept \in SUBSET (1..Len(managed))
      BY <1>1
    <3>2. out = Selected(managed, kept)
      BY <2>2 DEF Managing
    <3>3. Holds(out, managed, kept)
      BY <1>1, <3>1, <3>2, SelectedLines
    <3>4. \A x : x \in ToSet(out) <=> x \in old /\ x \notin set
      BY <3>3 DEF Holds, ToSet
    <3>. QED BY <2>2, <3>3, <3>4 DEF Asked, Holds
  <2>3. CASE op = "replace"
    <3>1. SetToSeq(set) \in Lines /\ ToSet(SetToSeq(set)) = set
      BY <1>3, LinesOfSet
    <3>2. out = SortedLines(SetToSeq(set))
      BY <2>3 DEF Managing
    <3>. QED BY <1>5, <2>3, <3>1, <3>2 DEF Asked
  <2>. QED BY <2>1, <2>2, <2>3 DEF RewriteOps
<1>7. ToSet(out) \subseteq Nat \ Special
  BY <1>2, <1>3, <1>6 DEF Asked, RewriteOps
<1> HIDE DEF out
<1>8. out \in Seq(Nat) /\ \A i \in 1..Len(out) : out[i] \in Nat \ Special
  BY <1>6, <1>7
<1>. QED BY <1>6, <1>8 DEF Lines, out

(* Whether the next rewrite may add a separator. *)
Pending(f) ==
  IF WellFormed(f) /\ Separated(Parse(f).before) # Parse(f).before THEN 1 ELSE 0

Single(f, line) == \A i, j \in 1..Len(f) : f[i] = line /\ f[j] = line => i = j

(* What every version of the file is: at most one of each delimiter, no    *)
(* blank line behind them, and no more blank lines than n, one that the    *)
(* next rewrite may add included.                                          *)
Sound(f, n) ==
  /\ f \in Lines
  /\ Single(f, BeginMark) /\ Single(f, EndMark)
  /\ NoBlanksBehind(f)
  /\ Count(f) + Pending(f) <= n

(* At most one blank line is pending, and none if the separator is there.  *)
LEMMA PendingIs ==
  ASSUME NEW f
  PROVE  /\ Pending(f) = 0 \/ Pending(f) = 1
         /\ ~WellFormed(f) => Pending(f) = 0
         /\ Pending(f) = 0 /\ WellFormed(f) => Separated(Parse(f).before) = Parse(f).before
         /\ Separated(Parse(f).before) = Parse(f).before => Pending(f) = 0
BY DEF Pending

(* A file that can be parsed has one of each delimiter at most.            *)
LEMMA BlocksAreSingle ==
  ASSUME NEW f \in Lines, WellFormed(f)
  PROVE  Single(f, BeginMark) /\ Single(f, EndMark)
<1>1. CASE NoDelimiters(f)
  BY <1>1 DEF NoDelimiters, Delimiters, Single
<1>2. ASSUME NEW b, NEW e, BlockAt(f, b, e)
      PROVE  Single(f, BeginMark) /\ Single(f, EndMark)
  BY <1>2 DEF BlockAt, Single
<1>. QED BY <1>1, <1>2, WellFormedIs

(* Whatever the file looked like, if the parser accepts it: a rewrite      *)
(* (add_entries, remove_entries, update_entries of git/exclude.rs) changes *)
(* the entries as asked and none of the user's lines, and the parser       *)
(* accepts what it writes.                                                 *)
THEOREM RewritesKeepLines ==
  ASSUME NEW op \in RewriteOps, NEW set \in SUBSET Entries, NEW f \in Lines, WellFormed(f)
  PROVE  LET g == Rewritten(op, set, f)
         IN  /\ g \in Lines /\ WellFormed(g)
             /\ EntriesOf(g) = Asked(op, set, EntriesOf(f))
             /\ OwnLines(g) = OwnLines(f)
<1> DEFINE before == Parse(f).before
           old == Parse(f).managed
           after == Parse(f).after
           managed == Managing(op, set, old)
           g == Rewritten(op, set, f)
<1>1. /\ before \in Lines /\ old \in Lines /\ after \in Lines
      /\ NoDelimiters(before) /\ NoDelimiters(after)
      /\ \A i \in 1..Len(old) : old[i] \notin Special
      /\ EntriesOf(f) = ToSet(old)
      /\ Keeps(f, before, after)
  BY PartsAre
<1> HIDE DEF before, old, after
<1>2. /\ managed \in Lines /\ \A i \in 1..Len(managed) : managed[i] \notin Special
      /\ ToSet(managed) = Asked(op, set, EntriesOf(f))
  BY <1>1, ManagingAsked
<1>3. g = Render(before, managed, after)
  BY DEF Rewritten, before, old, after
<1> HIDE DEF managed, g
<1>4. CASE managed # <<>>
  <2>1. g \in Lines /\ Keeps(g, before, after) /\ EntriesOf(g) = ToSet(managed) /\ \E b, e : BlockAt(g, b, e)
    BY <1>1, <1>2, <1>3, <1>4, RenderedWith
  <2>2. WellFormed(g)
    BY <2>1, WellFormedIs
  <2>. QED BY <1>1, <1>2, <2>1, <2>2, KeepsOwnLines DEF g
<1>5. CASE managed = <<>>
  <2>1. g \in Lines /\ Keeps(g, before, after) /\ NoDelimiters(g)
    BY <1>1, <1>3, <1>5, RenderedWithout
  <2>2. WellFormed(g)
    BY <2>1, WellFormedIs
  <2>3. EntriesOf(g) = {}
    BY <2>1, ParseWithout DEF EntriesOf
  <2>4. ToSet(managed) = {}
    BY <1>5 DEF ToSet
  <2>. QED BY <1>1, <1>2, <2>1, <2>2, <2>3, <2>4, KeepsOwnLines DEF g
<1>. QED BY <1>4, <1>5

(* A rewrite adds a blank line only where one was pending.                 *)
LEMMA RewriteSound ==
  ASSUME NEW op \in RewriteOps, NEW set \in SUBSET Entries, NEW n \in Nat, n >= 2,
         NEW f, Sound(f, n), WellFormed(f)
  PROVE  Sound(Rewritten(op, set, f), n)
<1> DEFINE before == Parse(f).before
           old == Parse(f).managed
           after == Parse(f).after
           managed == Managing(op, set, old)
           g == Rewritten(op, set, f)
<1>1. f \in Lines /\ NoBlanksBehind(f) /\ Count(f) + Pending(f) <= n
  BY DEF Sound
<1>2. /\ before \in Lines /\ old \in Lines /\ after \in Lines
      /\ NoDelimiters(before) /\ NoDelimiters(after)
      /\ \A i \in 1..Len(old) : old[i] \notin Special
      /\ NoBlanks(after) /\ Occurrences(f, Blank) = Occurrences(before, Blank)
  BY <1>1, PartsAre
<1>3. /\ Pending(f) = 0 \/ Pending(f) = 1
      /\ Pending(f) = 0 => Separated(before) = before
      /\ Separated(before) = before => Pending(f) = 0
  BY PendingIs
<1>4. g \in Lines /\ WellFormed(g)
  BY <1>1, RewritesKeepLines
<1>5. Single(g, BeginMark) /\ Single(g, EndMark)
  BY <1>4, BlocksAreSingle
<1>6. Count(f) = Count(before) /\ Count(f) \in Nat
  BY <1>1, <1>2, OccurrencesFinite DEF Count
<1>7. /\ Pending(g) = 0 \/ Pending(g) = 1
      /\ Separated(Parse(g).before) = Parse(g).before => Pending(g) = 0
  BY PendingIs
<1> HIDE DEF before, old, after
<1>8. managed \in Lines /\ \A i \in 1..Len(managed) : managed[i] \notin Special
  BY <1>2, ManagingAsked
<1>9. g = Render(before, managed, after)
  BY DEF Rewritten, before, old, after
<1> HIDE DEF managed, g
<1>10. /\ Separated(Separated(before)) = Separated(before)
       /\ Separated(before) = before /\ before # <<>> => before[Len(before)] = Blank
       /\ Count(Separated(before)) = Count(before) + (IF Separated(before) = before THEN 0 ELSE 1)
  BY <1>2, SeparatedIs
<1>11. CASE managed # <<>>
  <2>1. /\ Parse(g).before = Separated(before) /\ NoBlanksBehind(g)
        /\ Occurrences(g, Blank) = Occurrences(Separated(before), Blank)
    BY <1>2, <1>8, <1>9, <1>11, RenderedWith
  <2>2. Pending(g) = 0
    BY <1>7, <1>10, <2>1
  <2>3. Count(g) = Count(before) + (IF Separated(before) = before THEN 0 ELSE 1)
    BY <1>10, <2>1 DEF Count
  <2>4. Count(g) + Pending(g) <= n
    BY <1>1, <1>3, <1>6, <2>2, <2>3
  <2>. QED BY <1>4, <1>5, <2>1, <2>4 DEF Sound, g
<1>12. CASE managed = <<>>
  <2>1. /\ NoDelimiters(g)
        /\ \/ Count(g) = 1
           \/ /\ Count(g) \in Nat /\ Count(before) \in Nat /\ Count(g) <= Count(before)
              /\ before # <<>> /\ before[Len(before)] = Blank => Count(g) + 1 <= Count(before)
    BY <1>2, <1>9, <1>12, RenderedWithout
  <2>2. NoBlanksBehind(g)
    BY <2>1 DEF NoDelimiters, NoBlanksBehind
  <2>3. before = <<>> => Count(g) = 1 \/ Count(g) = 0
    <3>1. Count(<<>>) = 0
      <4>1. Occurrences(<<>>, Blank) = {}
        BY DEF Occurrences
      <4>. QED BY <4>1, FS_EmptySet DEF Count
    <3>. QED BY <2>1, <3>1
  <2>4. Count(g) + Pending(g) <= n
    BY <1>1, <1>3, <1>6, <1>7, <1>10, <2>1, <2>3
  <2>. QED BY <1>4, <1>5, <2>2, <2>4 DEF Sound, g
<1>. QED BY <1>11, <1>12 DEF g

(* So does what a power loss leaves of it.                                 *)
LEMMA PrefixSound ==
  ASSUME NEW n \in Nat, NEW f, Sound(f, n), WellFormed(f), NEW l \in 0..Len(f)
  PROVE  Sound(SubSeq(f, 1, l), n)
<1> DEFINE F == Len(f)
           p == SubSeq(f, 1, l)
           before == Parse(f).before
           h == Len(before)
<1>1. /\ f \in Lines /\ Single(f, BeginMark) /\ Single(f, EndMark) /\ NoBlanksBehind(f)
      /\ Count(f) + Pending(f) <= n /\ F \in Nat
  BY DEF Sound, Lines
<1>2. p \in Lines /\ Len(p) = l /\ \A i \in 1..l : p[i] = f[i] /\ i \in 1..F
  BY <1>1, FirstLines
<1> HIDE DEF p
<1>3. Single(p, BeginMark) /\ Single(p, EndMark) /\ NoBlanksBehind(p)
  BY <1>1, <1>2 DEF Single, NoBlanksBehind
<1>4. /\ \A i : i \in Occurrences(p, Blank) <=> i \in 1..l /\ f[i] = Blank
      /\ \A i : i \in Occurrences(f, Blank) <=> i \in 1..F /\ f[i] = Blank
  <2>1. DOMAIN p = 1..l /\ DOMAIN f = 1..F
    BY <1>1, <1>2 DEF Lines
  <2>. QED BY <1>2, <2>1 DEF Occurrences
<1>5. /\ Count(p) \in Nat /\ Count(f) \in Nat /\ Count(p) <= Count(f)
      /\ \A i \in l + 1..F : f[i] = Blank => Count(p) + 1 <= Count(f)
  <2>1. Occurrences(p, Blank) \subseteq Occurrences(f, Blank)
    BY <1>2, <1>4
  <2>2. ASSUME NEW i \in l + 1..F, f[i] = Blank
        PROVE  Occurrences(p, Blank) # Occurrences(f, Blank)
    <3>1. i \in 1..F /\ i \notin 1..l
      BY <1>1
    <3>. QED BY <1>4, <2>2, <3>1
  <2>. QED BY <1>1, <1>2, <2>1, <2>2, CountMonotone
<1>6. before \in Lines /\ h \in Nat
  BY <1>1, PartsAre DEF Lines
<1>7. /\ Pending(f) = 0 \/ Pending(f) = 1
      /\ Pending(f) = 0 => Separated(before) = before
      /\ Separated(before) = before => Pending(f) = 0
      /\ Pending(p) = 0 \/ Pending(p) = 1
      /\ ~WellFormed(p) => Pending(p) = 0
      /\ Separated(Parse(p).before) = Parse(p).before => Pending(p) = 0
  BY PendingIs
<1>8. h <= F /\ \A i \in 1..h : before[i] = f[i]
  <2>1. CASE NoDelimiters(f)
    BY <1>1, <2>1, ParseWithout
  <2>2. ASSUME NEW b, NEW e, BlockAt(f, b, e)
        PROVE  h <= F /\ \A i \in 1..h : before[i] = f[i]
    <3>1. before = SubSeq(f, 1, b - 1)
      BY <1>1, <2>2, ParseWith
    <3>2. b \in 1..F
      BY <2>2 DEF BlockAt
    <3>3. b - 1 \in 0..F /\ b - 1 <= F
      BY <1>1, <3>2
    <3>. QED BY <1>1, <3>1, <3>3, FirstLines
  <2>. QED BY <1>1, <2>1, <2>2, WellFormedIs
<1>9. CASE l < h
  <2>1. CASE Pending(f) = 1
    BY <1>1, <1>2, <1>3, <1>5, <1>7, <2>1 DEF Sound, p
  <2>2. CASE Pending(f) = 0
    <3>1. before # <<>> /\ h \in 1..h
      BY <1>6, <1>9
    <3>2. before[h] = Blank
      BY <1>6, <1>7, <2>2, <3>1, SeparatedIs
    <3>3. f[h] = Blank /\ h \in l + 1..F
      BY <1>6, <1>8, <1>9, <3>1, <3>2
    <3>4. Count(p) + 1 <= Count(f)
      BY <1>5, <3>3
    <3>. QED BY <1>1, <1>2, <1>3, <1>5, <1>7, <2>2, <3>4 DEF Sound, p
  <2>. QED BY <1>7, <2>1, <2>2
<1>10. CASE l >= h
  <2>1. WellFormed(p) => Parse(p).before = before
    <3>1. CASE NoDelimiters(f)
      <4>1. before = f
        BY <1>1, <3>1, ParseWithout
      <4>2. l = F
        BY <1>1, <1>10, <4>1
      <4>3. p = f
        BY <1>1, <1>2, <4>2, SeqEqual DEF Lines
      <4>. QED BY <4>3
    <3>2. ASSUME NEW b, NEW e, BlockAt(f, b, e), WellFormed(p)
          PROVE  Parse(p).before = before
      <4>1. before = SubSeq(f, 1, b - 1)
        BY <1>1, <3>2, ParseWith
      <4>2. /\ b \in 1..F /\ e \in 1..F /\ b < e
            /\ \A i \in 1..F : f[i] = BeginMark <=> i = b
            /\ \A i \in 1..F : f[i] = EndMark <=> i = e
        BY <3>2 DEF BlockAt
      <4>3. h = b - 1
        <5>1. b - 1 \in 0..F
          BY <1>1, <4>2
        <5>. QED BY <1>1, <4>1, <5>1, FirstLines
      <4>4. CASE NoDelimiters(p)
        <5>1. b \notin 1..l
          BY <1>2, <4>2, <4>4 DEF NoDelimiters, Delimiters
        <5>2. l = b - 1
          BY <1>1, <1>10, <4>2, <4>3, <5>1
        <5>3. p = before
          BY <4>1, <5>2 DEF p
        <5>4. Parse(p).before = p
          BY <1>2, <4>4, ParseWithout
        <5>. QED BY <5>3, <5>4
      <4>5. ASSUME NEW c, NEW d, BlockAt(p, c, d)
            PROVE  Parse(p).before = before
        <5>1. Parse(p).before = SubSeq(p, 1, c - 1)
          BY <1>2, <4>5, ParseWith
        <5>2. c \in 1..l /\ p[c] = BeginMark
          BY <1>2, <4>5 DEF BlockAt
        <5>3. c = b
          BY <1>2, <4>2, <5>2
        <5>4. /\ SubSeq(p, 1, b - 1) \in Lines /\ Len(SubSeq(p, 1, b - 1)) = b - 1
              /\ \A i \in 1..b - 1 : SubSeq(p, 1, b - 1)[i] = p[i]
          <6>1. b - 1 \in 0..Len(p)
            BY <1>1, <1>2, <4>2, <5>2, <5>3
          <6>. QED BY <1>2, <6>1, FirstLines
        <5>5. \A i \in 1..b - 1 : p[i] = before[i]
          <6>1. \A i \in 1..b - 1 : i \in 1..l
            BY <1>1, <4>2, <5>2, <5>3
          <6>. QED BY <1>2, <1>8, <4>3, <6>1
        <5>6. SubSeq(p, 1, b - 1) = before
          <6>1. Len(before) = b - 1
            BY <4>3
          <6> HIDE DEF before
          <6>. QED BY <1>6, <5>4, <5>5, <6>1, SeqEqual DEF Lines
        <5>. QED BY <5>1, <5>3, <5>6
      <4>. QED BY <1>2, <3>2, <4>4, <4>5, WellFormedIs
    <3>. QED BY <1>1, <3>1, <3>2, WellFormedIs
  <2>2. Pending(p) <= Pending(f)
    BY <1>7, <2>1
  <2>3. Count(p) + Pending(p) <= n
    BY <1>1, <1>5, <1>7, <2>2
  <2>. QED BY <1>2, <1>3, <2>3 DEF Sound, p
<1>11. l < h \/ l >= h
  BY <1>6
<1>. QED BY <1>9, <1>10, <1>11 DEF p

(***************************************************************************)
(* An edit by the user                                                     *)
(***************************************************************************)

(* Where the blank lines and delimiters of g come from in f. *)
ComesFrom(h, g, f) ==
  /\ \A k \in 1..Len(g) : g[k] \in Special => h[k] \in 1..Len(f) /\ f[h[k]] = g[k]
  /\ \A j, k \in 1..Len(g) : g[j] \in Special /\ g[k] \in Special /\ j < k => h[j] < h[k]

(* A file whose special lines all come from a sound one, in order, is as   *)
(* sound but for one blank line that may be pending.                       *)
LEMMA EditSound ==
  ASSUME NEW n \in Nat, NEW f, Sound(f, n), NEW g \in Lines, NEW h, ComesFrom(h, g, f)
  PROVE  Sound(g, n + 1)
<1>1. /\ f \in Lines /\ Single(f, BeginMark) /\ Single(f, EndMark) /\ NoBlanksBehind(f)
      /\ Count(f) + Pending(f) <= n /\ Len(f) \in Nat /\ Len(g) \in Nat
  BY DEF Sound, Lines
<1>2. \A k \in 1..Len(g) : g[k] \in Special => h[k] \in 1..Len(f) /\ f[h[k]] = g[k]
  BY DEF ComesFrom
<1>3. \A j, k \in 1..Len(g) : g[j] \in Special /\ g[k] \in Special /\ j < k => h[j] < h[k]
  BY DEF ComesFrom
<1>4. \A j, k \in 1..Len(g) : g[j] \in Special /\ g[k] \in Special /\ h[j] = h[k] => j = k
  BY <1>1, <1>2, <1>3
<1>5. Single(g, BeginMark) /\ Single(g, EndMark)
  <2>1. ASSUME NEW line \in Special, Single(f, line)
        PROVE  Single(g, line)
    <3> SUFFICES ASSUME NEW i \in 1..Len(g), NEW j \in 1..Len(g), g[i] = line, g[j] = line
                 PROVE  i = j
      BY DEF Single
    <3>1. h[i] \in 1..Len(f) /\ h[j] \in 1..Len(f) /\ f[h[i]] = line /\ f[h[j]] = line
      BY <1>2, <2>1
    <3>2. h[i] = h[j]
      BY <2>1, <3>1 DEF Single
    <3>. QED BY <1>4, <2>1, <3>2
  <2>2. BeginMark \in Special /\ EndMark \in Special
    BY DEF Special
  <2>. QED BY <1>1, <2>1, <2>2
<1>6. NoBlanksBehind(g)
  <2> SUFFICES ASSUME NEW i \in 1..Len(g), NEW j \in 1..Len(g), i < j, g[i] \in Delimiters
               PROVE  g[j] # Blank
    BY DEF NoBlanksBehind
  <2>1. g[i] \in Special /\ (g[j] = Blank => g[j] \in Special)
    BY DEF Special, Delimiters
  <2>. QED BY <1>1, <1>2, <1>3, <2>1 DEF NoBlanksBehind
<1>7. Count(g) \in Nat /\ Count(f) \in Nat /\ Count(g) <= Count(f)
  <2> DEFINE S == Occurrences(g, Blank)
             T == Occurrences(f, Blank)
             m == [k \in S |-> h[k]]
  <2>1. /\ \A k : k \in S <=> k \in 1..Len(g) /\ g[k] = Blank
        /\ \A k : k \in T <=> k \in 1..Len(f) /\ f[k] = Blank
    BY <1>1 DEF Occurrences, Lines
  <2>2. Blank \in Special
    BY DEF Special
  <2>3. m \in [S -> T]
    BY <1>2, <2>1, <2>2
  <2>4. \A j, k \in S : m[j] = m[k] => j = k
    BY <1>4, <2>1, <2>2
  <2>5. m \in Injection(S, T)
    BY <2>3, <2>4 DEF Injection, IsInjective
  <2>6. IsFiniteSet(T) /\ Cardinality(S) \in Nat /\ Cardinality(T) \in Nat
    BY <1>1, OccurrencesFinite
  <2>. QED BY <2>5, <2>6, FS_Injection DEF Count
<1>8. (Pending(f) = 0 \/ Pending(f) = 1) /\ (Pending(g) = 0 \/ Pending(g) = 1)
  BY PendingIs
<1>9. Count(g) + Pending(g) <= n + 1
  BY <1>1, <1>7, <1>8
<1>. QED BY <1>5, <1>6, <1>9 DEF Sound

(* The user adds a line of text.                                           *)
LEMMA InsertSound ==
  ASSUME NEW n \in Nat, NEW f, Sound(f, n), NEW i \in 1..Len(f) + 1, NEW l \in UserLines
  PROVE  Sound(InsertAt(f, i, l), n + 1)
<1> DEFINE F == Len(f)
           head == SubSeq(f, 1, i - 1)
           tail == SubSeq(f, i, F)
           g == InsertAt(f, i, l)
           h == [k \in 1..F + 1 |-> IF k < i THEN k ELSE k - 1]
<1>1. f \in Lines /\ F \in Nat
  BY DEF Sound, Lines
<1>2. l \in Nat /\ l \notin Special
  BY LinesTyped DEF Special
<1>3. head \in Lines /\ Len(head) = i - 1 /\ \A k \in 1..i - 1 : head[k] = f[k]
  <2>1. i - 1 \in 0..F
    BY <1>1
  <2>. QED BY <1>1, <2>1, FirstLines
<1>4. tail \in Lines /\ Len(tail) = F - i + 1 /\ \A k \in 1..F - i + 1 : tail[k] = f[i + k - 1]
  <2>1. F \in i - 1..F
    BY <1>1
  <2>. QED BY <1>1, <2>1, CutLines
<1> DEFINE mid == head \o <<l>>
<1>5. <<l>> \in Lines /\ Len(<<l>>) = 1 /\ <<l>>[1] = l
  BY <1>2 DEF Lines
<1>6. g = mid \o tail
  BY DEF InsertAt
<1> HIDE DEF head, tail, g
<1>7. /\ mid \in Lines /\ Len(mid) = i /\ (\A k \in 1..i - 1 : mid[k] = head[k]) /\ mid[i] = l
  <2>1. /\ mid \in Lines /\ Len(mid) = Len(head) + 1 /\ \A k \in 1..Len(head) : mid[k] = head[k]
        /\ \A k \in 1..1 : mid[Len(head) + k] = <<l>>[k]
    BY <1>3, <1>5, JoinedLines
  <2>2. i - 1 + 1 = i /\ 1 \in 1..1
    BY <1>1
  <2>. QED BY <1>3, <1>5, <2>1, <2>2
<1> HIDE DEF mid
<1>8. /\ g \in Lines /\ Len(g) = F + 1
      /\ \A k \in 1..i : g[k] = mid[k]
      /\ \A k \in i + 1..F + 1 : g[k] = tail[k - i]
  <2>1. /\ g \in Lines /\ Len(g) = Len(mid) + Len(tail)
        /\ \A k \in 1..Len(mid) : g[k] = mid[k]
        /\ \A k \in Len(mid) + 1..Len(mid) + Len(tail) : g[k] = tail[k - Len(mid)]
    BY <1>4, <1>6, <1>7, JoinedLines
  <2>2. i + (F - i + 1) = F + 1
    BY <1>1
  <2>. QED BY <1>4, <1>7, <2>1, <2>2
<1>9. \A k \in 1..F + 1 : k # i => h[k] \in 1..F /\ g[k] = f[h[k]]
  <2> SUFFICES ASSUME NEW k \in 1..F + 1, k # i
               PROVE  h[k] \in 1..F /\ g[k] = f[h[k]]
    OBVIOUS
  <2>1. CASE k < i
    <3>1. k \in 1..i - 1 /\ k \in 1..i /\ k \in 1..F /\ h[k] = k
      BY <1>1, <2>1
    <3> HIDE DEF h
    <3>. QED BY <1>3, <1>7, <1>8, <3>1
  <2>2. CASE k > i
    <3>1. k \in i + 1..F + 1 /\ k - i \in 1..F - i + 1 /\ i + (k - i) - 1 = k - 1 /\ h[k] = k - 1 /\ k - 1 \in 1..F
      BY <1>1, <2>2
    <3> HIDE DEF h
    <3>. QED BY <1>4, <1>8, <3>1
  <2>. QED BY <1>1, <2>1, <2>2
<1>10. g[i] = l
  BY <1>1, <1>7, <1>8
<1>11. \A j, k \in 1..F + 1 : j < k /\ j # i /\ k # i => h[j] < h[k]
  BY <1>1
<1> HIDE DEF h
<1>12. ComesFrom(h, g, f)
  BY <1>2, <1>8, <1>9, <1>10, <1>11 DEF ComesFrom
<1>13. Sound(g, n + 1)
  BY <1>8, <1>12, EditSound
<1>. QED BY <1>13 DEF g

(* The user takes a line away, a delimiter included.                       *)
LEMMA RemoveSound ==
  ASSUME NEW n \in Nat, NEW f, Sound(f, n), NEW i \in DOMAIN f
  PROVE  Sound(RemoveAt(f, i), n + 1)
<1> DEFINE F == Len(f)
           head == SubSeq(f, 1, i - 1)
           tail == SubSeq(f, i + 1, F)
           g == RemoveAt(f, i)
           h == [k \in 1..F - 1 |-> IF k < i THEN k ELSE k + 1]
<1>1. f \in Lines /\ F \in Nat /\ i \in 1..F
  BY DEF Sound, Lines
<1>2. head \in Lines /\ Len(head) = i - 1 /\ \A k \in 1..i - 1 : head[k] = f[k]
  <2>1. i - 1 \in 0..F
    BY <1>1
  <2>. QED BY <1>1, <2>1, FirstLines
<1>3. tail \in Lines /\ Len(tail) = F - i /\ \A k \in 1..F - i : tail[k] = f[i + k]
  <2>1. i \in 0..F
    BY <1>1
  <2>. QED BY <1>1, <2>1, LastLines
<1>4. g = head \o tail
  BY DEF RemoveAt
<1> HIDE DEF head, tail, g
<1>5. /\ g \in Lines /\ Len(g) = F - 1
      /\ \A k \in 1..i - 1 : g[k] = head[k]
      /\ \A k \in i..F - 1 : g[k] = tail[k - (i - 1)]
  <2>1. /\ g \in Lines /\ Len(g) = Len(head) + Len(tail)
        /\ \A k \in 1..Len(head) : g[k] = head[k]
        /\ \A k \in Len(head) + 1..Len(head) + Len(tail) : g[k] = tail[k - Len(head)]
    BY <1>2, <1>3, <1>4, JoinedLines
  <2>2. i - 1 + (F - i) = F - 1 /\ i - 1 + 1 = i
    BY <1>1
  <2>. QED BY <1>2, <1>3, <2>1, <2>2
<1>6. \A k \in 1..F - 1 : h[k] \in 1..F /\ g[k] = f[h[k]]
  <2> TAKE k \in 1..F - 1
  <2>1. CASE k < i
    <3>1. k \in 1..i - 1 /\ k \in 1..F /\ h[k] = k
      BY <1>1, <2>1
    <3> HIDE DEF h
    <3>. QED BY <1>2, <1>5, <3>1
  <2>2. CASE k >= i
    <3>1. k \in i..F - 1 /\ k - (i - 1) \in 1..F - i /\ i + (k - (i - 1)) = k + 1 /\ h[k] = k + 1 /\ k + 1 \in 1..F
      BY <1>1, <2>2
    <3> HIDE DEF h
    <3>. QED BY <1>3, <1>5, <3>1
  <2>. QED BY <1>1, <2>1, <2>2
<1>7. \A j, k \in 1..F - 1 : j < k => h[j] < h[k]
  BY <1>1
<1> HIDE DEF h
<1>8. ComesFrom(h, g, f)
  BY <1>5, <1>6, <1>7 DEF ComesFrom
<1>9. Sound(g, n + 1)
  BY <1>5, <1>8, EditSound
<1>. QED BY <1>9 DEF g

(***************************************************************************)
(* The inductive invariant                                                 *)
(***************************************************************************)
(* Every version of the file there is, or may be after a power loss, is    *)
(* sound.                                                                  *)
FilesInv ==
  /\ Sound(exclude, 2 + edits)
  /\ \A file \in disk : Sound(file, 2 + edits)

(* A rewrite writes what its operation makes of what it read, and that was *)
(* the file, unless the user edited it since.                              *)
JobInv ==
  rewriting # Nothing =>
    /\ rewriting \in Jobs
    /\ WellFormed(rewriting.read)
    /\ rewriting.value = Rewritten(rewriting.op, rewriting.set, rewriting.read)
    /\ Sound(rewriting.value, 2 + edits)
    /\ cut = FALSE
    /\ rewriting.step = "truncate" /\ ~raced => exclude = rewriting.read

ExcludeInv == edits \in Nat /\ losses \in Nat /\ FilesInv /\ JobInv

(* A sound file stays sound when more blank lines are allowed.             *)
LEMMA SoundLonger ==
  ASSUME NEW f, NEW n \in Nat, NEW m \in Nat, n <= m, Sound(f, n)
  PROVE  Sound(f, m)
<1>1. f \in Lines /\ (Pending(f) = 0 \/ Pending(f) = 1) /\ Count(f) \in Nat
  BY PendingIs, OccurrencesFinite DEF Sound, Count
<1>. QED BY <1>1 DEF Sound

(* A file without a block and with one blank line at most is sound.        *)
LEMMA InitHolds == ExcludeInit => ExcludeInv
<1> SUFFICES ASSUME ExcludeInit PROVE ExcludeInv
  OBVIOUS
<1>1. edits = 0 /\ losses = 0 /\ rewriting = Nothing /\ disk = {exclude}
  BY DEF ExcludeInit
<1>2. Sound(exclude, 2)
  <2> DEFINE F == Len(exclude)
  <2>1. /\ exclude \in Lines /\ F \in Nat /\ \A i \in 1..F : exclude[i] \notin Delimiters
        /\ \A i, j \in 1..F : exclude[i] = Blank /\ exclude[j] = Blank => i = j
    <3>1. \A l \in UserLines : l \in Nat /\ l \notin Special
      BY LinesTyped DEF Special
    <3>2. CASE exclude = <<>>
      BY <3>2 DEF Lines
    <3>3. ASSUME NEW l \in UserLines \cup {Blank}, exclude = <<l>>
          PROVE  /\ exclude \in Lines /\ F \in Nat /\ \A i \in 1..F : exclude[i] \notin Delimiters
                 /\ \A i, j \in 1..F : exclude[i] = Blank /\ exclude[j] = Blank => i = j
      <4>1. l \in Nat /\ l \notin Delimiters
        BY <3>1, SpecialLines DEF Special, Delimiters
      <4>. QED BY <3>3, <4>1 DEF Lines
    <3>4. ASSUME NEW l \in UserLines, NEW m \in UserLines, exclude = <<l, Blank, m>>
          PROVE  /\ exclude \in Lines /\ F \in Nat /\ \A i \in 1..F : exclude[i] \notin Delimiters
                 /\ \A i, j \in 1..F : exclude[i] = Blank /\ exclude[j] = Blank => i = j
      <4>1. l \in Nat /\ l \notin Special /\ m \in Nat /\ m \notin Special /\ Blank \in Nat /\ Blank \notin Delimiters
        BY <3>1, SpecialLines DEF Delimiters
      <4>2. exclude \in Seq(Nat) /\ F = 3
        BY <3>4, <4>1
      <4>3. exclude[1] = l /\ exclude[2] = Blank /\ exclude[3] = m
        BY <3>4
      <4>4. \A i \in 1..3 : i = 1 \/ i = 2 \/ i = 3
        OBVIOUS
      <4>. QED BY <4>1, <4>2, <4>3, <4>4 DEF Lines, Special, Delimiters
    <3>. QED BY <3>2, <3>3, <3>4 DEF ExcludeInit
  <2>2. Single(exclude, BeginMark) /\ Single(exclude, EndMark) /\ NoBlanksBehind(exclude)
    BY <2>1 DEF Single, NoBlanksBehind, Delimiters
  <2>3. Count(exclude) = 0 \/ Count(exclude) = 1
    <3> DEFINE S == Occurrences(exclude, Blank)
    <3>1. IsFiniteSet(S)
      BY <2>1, OccurrencesFinite
    <3>2. S = {} \/ \E i : S = {i}
      <4>1. \A i : i \in S <=> i \in 1..F /\ exclude[i] = Blank
        BY <2>1 DEF Occurrences, Lines
      <4>2. \A i, j \in S : i = j
        BY <2>1, <4>1
      <4> HIDE DEF S
      <4>. QED BY <4>2
    <3>. QED BY <3>1, <3>2, FS_EmptySet, FS_Singleton DEF Count
  <2>4. Count(exclude) + Pending(exclude) <= 2
    BY <2>3, PendingIs
  <2>. QED BY <2>1, <2>2, <2>4 DEF Sound
<1>3. 2 + 0 = 2
  OBVIOUS
<1>. QED BY <1>1, <1>2, <1>3 DEF ExcludeInv, FilesInv, JobInv

(* The file that a truncation leaves is sound.                             *)
LEMMA EmptySound == ASSUME NEW n \in Nat, n >= 2 PROVE Sound(<<>>, n)
<1> DEFINE f == <<>>
<1>1. f \in Lines /\ Len(f) = 0
  BY DEF Lines
<1> HIDE DEF f
<1>2. Single(f, BeginMark) /\ Single(f, EndMark) /\ NoBlanksBehind(f)
  BY <1>1 DEF Single, NoBlanksBehind
<1>3. Occurrences(f, Blank) = {}
  BY <1>1 DEF Occurrences, Lines
<1>4. Count(f) = 0
  BY <1>3, FS_EmptySet DEF Count
<1>5. Sound(f, n)
  BY <1>1, <1>2, <1>4, PendingIs DEF Sound
<1>. QED BY <1>5 DEF f

(* What a rewrite under way will have done when it is written.             *)
LEMMA JobIs ==
  ASSUME ExcludeInv, rewriting # Nothing
  PROVE  /\ rewriting \in Jobs /\ rewriting.read \in Lines /\ rewriting.value \in Lines
         /\ rewriting.op \in RewriteOps /\ rewriting.set \in SUBSET Entries
         /\ WellFormed(rewriting.read) /\ WellFormed(rewriting.value)
         /\ EntriesOf(rewriting.value) = Asked(rewriting.op, rewriting.set, EntriesOf(rewriting.read))
         /\ OwnLines(rewriting.value) = OwnLines(rewriting.read)
<1>1. rewriting \in Jobs /\ WellFormed(rewriting.read) /\ rewriting.value = Rewritten(rewriting.op, rewriting.set, rewriting.read)
  BY DEF ExcludeInv, JobInv
<1>2. /\ rewriting.op \in RewriteOps /\ rewriting.set \in SUBSET Entries
      /\ rewriting.read \in Lines /\ rewriting.value \in Lines
  BY <1>1 DEF Jobs, Lines
<1>. QED BY <1>1, <1>2, RewritesKeepLines

(* A rewrite that reads a sound file prepares a sound one.                 *)
LEMMA ReadKeeps ==
  ASSUME ExcludeInv, NEW op \in RewriteOps, NEW set \in SUBSET Entries, Read(op, set)
  PROVE  ExcludeInv'
<1> DEFINE new == Rewritten(op, set, exclude)
<1>1. /\ WellFormed(exclude) /\ Sound(exclude, 2 + edits) /\ edits \in Nat /\ exclude \in Lines
      /\ losses \in Nat
  BY DEF Read, ExcludeInv, FilesInv, Sound
<1>2. new \in Lines
  BY <1>1, RewritesKeepLines
<1>3. Sound(new, 2 + edits)
  BY <1>1, RewriteSound
<1> HIDE DEF new
<1>4. /\ rewriting' = [op |-> op, set |-> set, read |-> exclude, value |-> new, step |-> "truncate"]
      /\ cut' = FALSE /\ exclude' = exclude /\ disk' = disk /\ edits' = edits /\ losses' = losses
  BY DEF Read, Rewrite, new
<1>5. rewriting' \in Jobs
  BY <1>1, <1>2, <1>4 DEF Jobs, Lines
<1>6. FilesInv'
  BY <1>4 DEF ExcludeInv, FilesInv
<1>7. JobInv'
  <2>1. WellFormed(exclude)'
    BY <1>1, <1>4
  <2>2. /\ rewriting'.op = op /\ rewriting'.set = set /\ rewriting'.read = exclude /\ rewriting'.value = new
    BY <1>4
  <2>. QED BY <1>1, <1>3, <1>4, <1>5, <2>1, <2>2 DEF JobInv, new
<1>. QED BY <1>1, <1>4, <1>6, <1>7 DEF ExcludeInv

(* Truncating leaves the file empty, or the old one after a power loss.    *)
LEMMA TruncateKeeps == ASSUME ExcludeInv, Truncate PROVE ExcludeInv'
<1>1. /\ rewriting # Nothing /\ exclude' = <<>> /\ disk' = {exclude, <<>>}
      /\ rewriting' = [rewriting EXCEPT !.step = "write"]
      /\ edits' = edits /\ losses' = losses /\ cut' = cut /\ raced' = raced
  BY DEF Truncate, RewriteAt, counts, ghosts
<1>2. edits \in Nat /\ losses \in Nat /\ Sound(exclude, 2 + edits) /\ JobInv
  BY DEF ExcludeInv, FilesInv
<1>3. Sound(<<>>, 2 + edits)
  BY <1>2, EmptySound
<1>4. FilesInv'
  BY <1>1, <1>2, <1>3 DEF FilesInv
<1>5. /\ rewriting' \in Jobs /\ rewriting'.step = "write" /\ rewriting'.op = rewriting.op /\ rewriting'.set = rewriting.set
      /\ rewriting'.read = rewriting.read /\ rewriting'.value = rewriting.value
  BY <1>1, <1>2 DEF JobInv, Jobs
<1>6. JobInv'
  BY <1>1, <1>2, <1>5 DEF JobInv
<1>. QED BY <1>1, <1>2, <1>4, <1>6 DEF ExcludeInv

(* Writing may leave any prefix of the new file after a power loss.        *)
LEMMA WriteKeeps == ASSUME ExcludeInv, Write PROVE ExcludeInv'
<1>1. /\ rewriting # Nothing /\ exclude' = rewriting.value /\ disk' = disk \cup Prefixes(rewriting.value)
      /\ rewriting' = Nothing /\ edits' = edits /\ losses' = losses
  BY DEF Write, RewriteAt, counts
<1>2. /\ edits \in Nat /\ losses \in Nat /\ Sound(rewriting.value, 2 + edits)
      /\ \A file \in disk : Sound(file, 2 + edits)
  BY <1>1 DEF ExcludeInv, FilesInv, JobInv
<1>3. rewriting.value \in Lines /\ WellFormed(rewriting.value)
  BY <1>1, JobIs
<1>4. \A file \in Prefixes(rewriting.value) : Sound(file, 2 + edits)
  <2>1. \A file \in Prefixes(rewriting.value) : \E l \in 0..Len(rewriting.value) : file = SubSeq(rewriting.value, 1, l)
    BY DEF Prefixes
  <2>2. 2 + edits \in Nat
    BY <1>2
  <2>. QED BY <1>2, <1>3, <2>1, <2>2, PrefixSound
<1>5. FilesInv'
  BY <1>1, <1>2, <1>4 DEF FilesInv
<1>6. JobInv'
  BY <1>1 DEF JobInv
<1>. QED BY <1>1, <1>2, <1>5, <1>6 DEF ExcludeInv

(* A stop only drops the rewrite.                                          *)
LEMMA StopKeeps == ASSUME ExcludeInv, Stop PROVE ExcludeInv'
<1>1. rewriting' = Nothing /\ exclude' = exclude /\ disk' = disk /\ edits' = edits /\ losses' = losses
  BY DEF Stop, counts
<1>. QED BY <1>1 DEF ExcludeInv, FilesInv, JobInv

(* A power loss leaves one of the versions the disk may hold.              *)
LEMMA PowerLossKeeps == ASSUME ExcludeInv, PowerLoss PROVE ExcludeInv'
<1>1. /\ rewriting' = Nothing /\ exclude' \in disk /\ disk' = {exclude'} /\ edits' = edits
      /\ losses' = losses + 1
  BY DEF PowerLoss
<1>. QED BY <1>1 DEF ExcludeInv, FilesInv, JobInv

(* One edit makes room for one more blank line.                            *)
LEMMA EditKeeps == ASSUME ExcludeInv, Edit PROVE ExcludeInv'
<1>1. /\ edits' = edits + 1 /\ disk' = disk \cup {exclude'} /\ raced' = (rewriting # Nothing)
      /\ rewriting' = rewriting /\ losses' = losses /\ cut' = cut
  BY DEF Edit
<1>2. edits \in Nat /\ losses \in Nat /\ JobInv /\ Sound(exclude, 2 + edits)
      /\ \A file \in disk : Sound(file, 2 + edits)
  BY DEF ExcludeInv, FilesInv
<1>3. 2 + edits \in Nat /\ 2 + (edits + 1) \in Nat /\ 2 + (edits + 1) = 2 + edits + 1
      /\ 2 + edits <= 2 + (edits + 1)
  BY <1>2
<1>4. Sound(exclude', 2 + edits + 1)
  <2>1. CASE \E i \in 1..Len(exclude) + 1, l \in UserLines : exclude' = InsertAt(exclude, i, l)
    BY <1>2, <1>3, <2>1, InsertSound
  <2>2. CASE \E i \in DOMAIN exclude : exclude' = RemoveAt(exclude, i)
    BY <1>2, <1>3, <2>2, RemoveSound
  <2>. QED BY <2>1, <2>2 DEF Edit
<1>5. \A file : Sound(file, 2 + edits) => Sound(file, 2 + (edits + 1))
  BY <1>3, SoundLonger
<1>6. FilesInv'
  BY <1>1, <1>2, <1>3, <1>4, <1>5 DEF FilesInv
<1>7. JobInv'
  BY <1>1, <1>2, <1>5 DEF JobInv
<1>. QED BY <1>1, <1>2, <1>6, <1>7 DEF ExcludeInv

(* No step leaves the invariant.                                           *)
LEMMA ExcludeInvKept == ExcludeInv /\ [ExcludeNext]_excludeVars => ExcludeInv'
<1> SUFFICES ASSUME ExcludeInv, [ExcludeNext]_excludeVars PROVE ExcludeInv'
  OBVIOUS
<1>1. ASSUME NEW op \in {"add", "remove"}, NEW e \in Entries, Read(op, {e})
      PROVE  ExcludeInv'
  BY <1>1, ReadKeeps DEF RewriteOps
<1>2. ASSUME NEW set \in SUBSET Entries, Read("replace", set)
      PROVE  ExcludeInv'
  BY <1>2, ReadKeeps DEF RewriteOps
<1>3. CASE UNCHANGED excludeVars
  BY <1>3 DEF excludeVars, counts, ghosts, ExcludeInv, FilesInv, JobInv
<1>. QED BY <1>1, <1>2, <1>3, TruncateKeeps, WriteKeeps, StopKeeps, PowerLossKeeps, EditKeeps DEF ExcludeNext

(* The invariant holds in every behaviour.                                 *)
LEMMA ExcludeInvHolds == ExcludeSpec => []ExcludeInv
BY InitHolds, ExcludeInvKept, PTL DEF ExcludeSpec

(* Rewriting over and over leaves one block and one separator: the file    *)
(* never has a second BEGIN line, nor more blank lines than the user left  *)
(* and one separator, and what a rewrite writes can be parsed again        *)
(* (add_entries, remove_entries, update_entries).                          *)
THEOREM OneBlockHolds == ExcludeSpec => []OneBlock
<1>1. ExcludeInv => OneBlock
  <2> SUFFICES ASSUME ExcludeInv PROVE OneBlock
    OBVIOUS
  <2>1. /\ edits \in Nat /\ exclude \in Lines /\ Single(exclude, BeginMark) /\ Single(exclude, EndMark)
        /\ Count(exclude) + Pending(exclude) <= 2 + edits
    BY DEF ExcludeInv, FilesInv, Sound
  <2>2. Cardinality(Occurrences(exclude, Blank)) <= 2 + edits
    <3>1. Count(exclude) \in Nat /\ (Pending(exclude) = 0 \/ Pending(exclude) = 1)
      BY <2>1, OccurrencesFinite, PendingIs DEF Count
    <3>. QED BY <2>1, <3>1 DEF Count
  <2>3. ASSUME NEW line \in {BeginMark, EndMark}
        PROVE  Cardinality(Occurrences(exclude, line)) <= 1
    <3> DEFINE S == Occurrences(exclude, line)
    <3>1. \A i, j \in S : i = j
      BY <2>1 DEF Occurrences, Lines, Single
    <3> HIDE DEF S
    <3>2. S = {} \/ \E i : S = {i}
      BY <3>1
    <3>3. Cardinality(S) = 0 \/ Cardinality(S) = 1
      BY <3>2, FS_EmptySet, FS_Singleton
    <3>. QED BY <3>3 DEF S
  <2>4. rewriting # Nothing => WellFormed(rewriting.value)
    BY JobIs
  <2>. QED BY <2>2, <2>3, <2>4 DEF OneBlock
<1>. QED BY <1>1, ExcludeInvHolds, PTL

(***************************************************************************)
(* The file implements a set of entries, beside lines of the user          *)
(***************************************************************************)
Request == IF rewriting = Nothing THEN [op |-> "none", set |-> {}] ELSE [op |-> rewriting.op, set |-> rewriting.set]

(* Reading the file is asking for the change.                              *)
LEMMA ReadAsks ==
  ASSUME ExcludeInv, NEW op \in RewriteOps, NEW set \in SUBSET Entries, Read(op, set)
  PROVE  [Set!Next]_(Set!vars)
<1>1. /\ rewriting = Nothing /\ rewriting'.step = "truncate" /\ exclude' = exclude
      /\ raced' = FALSE /\ cut' = FALSE /\ edits' = edits /\ losses' = losses
  BY DEF Read, Rewrite
<1>2. ~RewriteAt("write") /\ ~RewriteAt("write")'
  BY <1>1 DEF RewriteAt
<1>3. Meant = exclude /\ Meant' = exclude
  BY <1>1, <1>2 DEF Meant
<1>4. EntriesOf(Meant)' = EntriesOf(Meant) /\ OwnLines(Meant)' = OwnLines(Meant)
  BY <1>3
<1>5. Set!Ask
  BY <1>1, <1>4 DEF Set!Ask
<1>. QED BY <1>5 DEF Set!Next

(* Truncating shows nothing: the file still means what the rewrite read.   *)
LEMMA TruncateIsHidden == ASSUME ExcludeInv, Truncate PROVE [Set!Next]_(Set!vars)
<1>1. /\ rewriting # Nothing /\ rewriting.step = "truncate" /\ exclude' = <<>>
      /\ rewriting' = [rewriting EXCEPT !.step = "write"]
      /\ edits' = edits /\ losses' = losses /\ cut' = cut /\ raced' = raced
  BY DEF Truncate, RewriteAt, counts, ghosts
<1>2. CASE raced
  BY <1>2 DEF Set!Excused, Set!Next
<1>3. CASE ~raced
  <2>1. exclude = rewriting.read /\ rewriting \in Jobs
    BY <1>1, <1>3 DEF ExcludeInv, JobInv
  <2>2. /\ rewriting' \in Jobs /\ rewriting'.step = "write" /\ rewriting'.read = rewriting.read
        /\ rewriting'.op = rewriting.op /\ rewriting'.set = rewriting.set
    BY <1>1, <2>1 DEF Jobs
  <2>3. rewriting' # Nothing
    BY <2>2, NothingDistinct
  <2>4. ~RewriteAt("write") /\ RewriteAt("write")'
    BY <1>1, <2>2, <2>3 DEF RewriteAt
  <2>5. Meant = exclude /\ Meant' = exclude
    BY <2>1, <2>2, <2>4 DEF Meant
  <2>6. EntriesOf(Meant)' = EntriesOf(Meant) /\ OwnLines(Meant)' = OwnLines(Meant)
    BY <2>5
  <2>7. Request' = Request
    BY <1>1, <2>2, <2>3 DEF Request
  <2>. QED BY <1>1, <2>6, <2>7 DEF Set!vars, Request
<1>. QED BY <1>2, <1>3

(* Writing performs what was asked for, at once.                           *)
LEMMA WritePerforms == ASSUME ExcludeInv, Write PROVE [Set!Next]_(Set!vars)
<1>1. /\ rewriting # Nothing /\ RewriteAt("write") /\ exclude' = rewriting.value /\ rewriting' = Nothing
      /\ edits' = edits /\ losses' = losses /\ cut' = cut /\ raced' = raced
  BY DEF Write, RewriteAt, counts, ghosts
<1>2. /\ rewriting.op \in RewriteOps
      /\ EntriesOf(rewriting.value) = Asked(rewriting.op, rewriting.set, EntriesOf(rewriting.read))
      /\ OwnLines(rewriting.value) = OwnLines(rewriting.read)
  BY <1>1, JobIs
<1>3. ~RewriteAt("write")'
  BY <1>1 DEF RewriteAt
<1>4. Meant = rewriting.read /\ Meant' = rewriting.value
  BY <1>1, <1>3 DEF Meant
<1>5. OwnLines(Meant)' = OwnLines(Meant)
  BY <1>2, <1>4
<1>6. EntriesOf(Meant)' = Asked(rewriting.op, rewriting.set, EntriesOf(Meant))
  BY <1>2, <1>4
<1>7. Request.op = rewriting.op /\ Request.set = rewriting.set /\ Request'.op = "none"
  BY <1>1 DEF Request
<1>8. EntriesOf(Meant)' =
        CASE Request.op = "add"     -> EntriesOf(Meant) \cup Request.set
          [] Request.op = "remove"  -> EntriesOf(Meant) \ Request.set
          [] Request.op = "replace" -> Request.set
          [] OTHER -> EntriesOf(Meant)
  BY <1>6, <1>7 DEF Asked
<1>9. Set!Perform
  BY <1>1, <1>5, <1>7, <1>8 DEF Set!Perform, Request
<1>. QED BY <1>9 DEF Set!Next

(* A stop forgets the request, or is half-way and excused.                 *)
LEMMA StopForgets == ASSUME ExcludeInv, Stop PROVE [Set!Next]_(Set!vars)
<1>1. /\ rewriting # Nothing /\ rewriting' = Nothing /\ cut' = RewriteAt("write") /\ exclude' = exclude
      /\ edits' = edits /\ losses' = losses /\ raced' = raced
  BY DEF Stop, counts
<1>2. cut = FALSE
  BY <1>1 DEF ExcludeInv, JobInv
<1>3. CASE RewriteAt("write")
  BY <1>1, <1>2, <1>3 DEF Set!Excused, Set!Next
<1>4. CASE ~RewriteAt("write")
  <2>1. ~RewriteAt("write")'
    BY <1>1 DEF RewriteAt
  <2>2. Meant = exclude /\ Meant' = exclude
    BY <1>1, <1>4, <2>1 DEF Meant
  <2>3. EntriesOf(Meant)' = EntriesOf(Meant) /\ OwnLines(Meant)' = OwnLines(Meant)
    BY <2>2
  <2>4. cut' = cut
    BY <1>1, <1>2, <1>4 DEF RewriteAt
  <2>5. Set!Forget
    BY <1>1, <2>3, <2>4 DEF Set!Forget
  <2>. QED BY <2>5 DEF Set!Next
<1>. QED BY <1>3, <1>4

(* A power loss and an edit may change more.                               *)
LEMMA OthersAreExcused == ASSUME ExcludeInv, PowerLoss \/ Edit PROVE [Set!Next]_(Set!vars)
<1>1. edits \in Nat /\ losses \in Nat
  BY DEF ExcludeInv
<1>2. losses' = losses + 1 \/ edits' = edits + 1
  BY DEF PowerLoss, Edit
<1>3. losses' > losses \/ edits' > edits
  BY <1>1, <1>2
<1>. QED BY <1>3 DEF Set!Excused, Set!Next

(* The file behaves as a set of entries that each rewrite changes as asked, *)
(* beside lines of the user that it leaves alone, unless an edit, a power  *)
(* loss or a stop half-way came in between.                                *)
THEOREM ExcludeFileImplementsSet == ExcludeSpec => ImplementsExcludeSet
<1>1. ExcludeInit => Set!Init
  BY DEF ExcludeInit, Set!Init
<1>2. ExcludeInv /\ [ExcludeNext]_excludeVars => [Set!Next]_(Set!vars)
  <2> SUFFICES ASSUME ExcludeInv, [ExcludeNext]_excludeVars PROVE [Set!Next]_(Set!vars)
    OBVIOUS
  <2>1. ASSUME NEW op \in {"add", "remove"}, NEW e \in Entries, Read(op, {e})
        PROVE  [Set!Next]_(Set!vars)
    BY <2>1, ReadAsks DEF RewriteOps
  <2>2. ASSUME NEW set \in SUBSET Entries, Read("replace", set)
        PROVE  [Set!Next]_(Set!vars)
    BY <2>2, ReadAsks DEF RewriteOps
  <2>3. CASE UNCHANGED excludeVars
    <3>1. /\ exclude' = exclude /\ rewriting' = rewriting /\ edits' = edits /\ losses' = losses
          /\ raced' = raced /\ cut' = cut
      BY <2>3 DEF excludeVars, counts, ghosts
    <3>2. Meant' = Meant
      BY <3>1 DEF Meant, RewriteAt
    <3>3. EntriesOf(Meant)' = EntriesOf(Meant) /\ OwnLines(Meant)' = OwnLines(Meant)
      BY <3>2
    <3>. QED BY <3>1, <3>3 DEF Set!vars
  <2>. QED BY <2>1, <2>2, <2>3, TruncateIsHidden, WritePerforms, StopForgets, OthersAreExcused DEF ExcludeNext
<1>. QED BY <1>1, <1>2, ExcludeInvHolds, PTL DEF ExcludeSpec, ImplementsExcludeSet, Set!Spec
=============================================================================
