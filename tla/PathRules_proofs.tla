--------------------------- MODULE PathRules_proofs ---------------------------
(***************************************************************************)
(* That a path a user types names the entry the user means, and that what  *)
(* is made and removed on the way to an item is the way and nothing else:  *)
(* for trees with links, roots and paths of any size.  The walks of        *)
(* PathRules are recursive functions; what holds of them is shown stage    *)
(* by stage, by LeastOne and Stages.                                       *)
(***************************************************************************)
EXTENDS BatchPaths, SequenceTheorems, WellFoundedInduction, TLAPS

(***************************************************************************)
(* Paths                                                                   *)
(***************************************************************************)

(* A set of numbers that is not empty has a least one.                     *)
LEMMA LeastOne ==
  ASSUME NEW S \in SUBSET Nat, S # {}
  PROVE  \E n \in S : \A k \in S : n <= k
<1>1. IsWellFoundedOn(OpToRel(<, Nat), Nat)
  BY NatLessThanWellFounded
<1>2. PICK n \in S : \A k \in S : ~(<<k, n>> \in OpToRel(<, Nat))
  BY <1>1, WFMin
<1>3. \A k \in S : ~(k < n)
  BY <1>2 DEF OpToRel
<1>. QED BY <1>3

(* A claim about every stage of something that goes on for n stages holds  *)
(* if it holds at first and is handed on.  bad is where it fails.          *)
LEMMA Stages ==
  ASSUME NEW n \in Nat, NEW bad \in SUBSET (0..n), 0 \notin bad,
         \A k \in 0..n - 1 : k \notin bad => k + 1 \notin bad
  PROVE  bad = {}
<1> SUFFICES ASSUME bad # {} PROVE FALSE
  OBVIOUS
<1>1. bad \in SUBSET Nat
  OBVIOUS
<1>2. PICK m \in bad : \A k \in bad : m <= k
  BY <1>1, LeastOne
<1>3. m \in 1..n /\ m - 1 \in 0..n - 1 /\ m - 1 + 1 = m
  BY <1>2
<1>4. m - 1 \notin bad
  BY <1>2, <1>3
<1>. QED BY <1>2, <1>3, <1>4

(* g is what a recursion over n stages gives, from b on.                   *)
Recurs(g, b, n, step) == g[0] = b /\ \A k \in 1..n : g[k] = step[k][g[k - 1]]

(* A recursion has a solution.                                             *)
LEMMA RecursionExists ==
  ASSUME NEW S, NEW b \in S, NEW n \in Nat, NEW step \in [1..n -> [S -> S]]
  PROVE  \E g \in [0..n -> S] : Recurs(g, b, n, step)
<1> DEFINE bad == {m \in 0..n : ~ \E g \in [0..m -> S] : Recurs(g, b, m, step)}
<1>1. 0 \notin bad
  <2>1. [k \in 0..0 |-> b] \in [0..0 -> S] /\ Recurs([k \in 0..0 |-> b], b, 0, step)
    BY DEF Recurs
  <2>. QED BY <2>1
<1>2. ASSUME NEW m \in 0..n - 1, m \notin bad
      PROVE  m + 1 \notin bad
  <2>1. m \in 0..n /\ m + 1 \in 1..n /\ m + 1 \in 0..n /\ m \in 0..m
    OBVIOUS
  <2>2. PICK g \in [0..m -> S] : Recurs(g, b, m, step)
    BY <1>2, <2>1
  <2> DEFINE h == [k \in 0..m + 1 |-> IF k = m + 1 THEN step[m + 1][g[m]] ELSE g[k]]
  <2>3. step[m + 1][g[m]] \in S
    BY <2>1
  <2>4. \A k \in 0..m + 1 : k # m + 1 => k \in 0..m
    BY <2>1
  <2>5. h \in [0..m + 1 -> S]
    BY <2>3, <2>4
  <2>6. \A k \in 0..m : k \in 0..m + 1 /\ h[k] = g[k]
    BY <2>1
  <2>7. h[m + 1] = step[m + 1][g[m]]
    BY <2>1
  <2> HIDE DEF h
  <2>8. 0 \in 0..m /\ h[0] = b
    BY <2>1, <2>2, <2>6 DEF Recurs
  <2>9. ASSUME NEW k \in 1..m + 1
        PROVE  h[k] = step[k][h[k - 1]]
    <3>1. CASE k = m + 1
      <4>1. k - 1 = m
        BY <2>1, <3>1
      <4>. QED BY <2>1, <2>6, <2>7, <3>1, <4>1
    <3>2. CASE k # m + 1
      <4>1. k \in 1..m /\ k \in 0..m /\ k - 1 \in 0..m
        BY <2>1, <3>2
      <4>. QED BY <2>2, <2>6, <4>1 DEF Recurs
    <3>. QED BY <3>1, <3>2
  <2>. QED BY <2>5, <2>8, <2>9 DEF Recurs
<1> HIDE DEF bad
<1>3. bad \in SUBSET (0..n)
  BY DEF bad
<1>4. bad = {}
  BY <1>1, <1>2, <1>3, Stages
<1>5. n \notin bad /\ n \in 0..n
  BY <1>4
<1>. QED BY <1>5 DEF bad

(* The first components of a path.                                         *)
LEMMA FirstPart ==
  ASSUME NEW S, NEW p \in Seq(S), NEW n \in 0..Len(p)
  PROVE  /\ SubSeq(p, 1, n) \in Seq(S) /\ Len(SubSeq(p, 1, n)) = n
         /\ \A i \in 1..n : i \in 1..Len(p) /\ SubSeq(p, 1, n)[i] = p[i]
<1>1. Len(p) \in Nat /\ n \in Nat /\ n <= Len(p)
  OBVIOUS
<1>2. SubSeq(p, 1, n) = [i \in 1..n |-> p[i]]
  <2>1. SubSeq(p, 1, n) = [i \in 1..1 + n - 1 |-> p[1 + i - 1]]
    BY <1>1
  <2>2. 1 + n - 1 = n /\ \A i \in 1..n : 1 + i - 1 = i
    BY <1>1
  <2>. QED BY <2>1, <2>2
<1>3. \A i \in 1..n : i \in 1..Len(p)
  BY <1>1
<1>4. [i \in 1..n |-> p[i]] \in [1..n -> S]
  BY <1>1, <1>3
<1>. QED BY <1>1, <1>2, <1>3, <1>4

(* The first k components of a path.                                       *)
Part(p, k) == SubSeq(p, 1, k)

(* A part of a path is a path, and its parts are parts of the whole.       *)
LEMMA Parts ==
  ASSUME NEW p \in Paths, NEW k \in 0..Len(p)
  PROVE  /\ Part(p, k) \in Paths /\ Len(Part(p, k)) = k
         /\ \A i \in 1..k : Part(p, k)[i] = p[i]
         /\ \A j \in 0..k : Part(Part(p, k), j) = Part(p, j)
<1>1. Len(p) \in Nat /\ p \in Seq(Names)
  BY DEF Paths
<1>2. /\ Part(p, k) \in Paths /\ Len(Part(p, k)) = k
      /\ \A i \in 1..k : i \in 1..Len(p) /\ Part(p, k)[i] = p[i]
  BY <1>1, FirstPart DEF Part, Paths
<1>3. ASSUME NEW j \in 0..k
      PROVE  Part(Part(p, k), j) = Part(p, j)
  <2> DEFINE q == Part(p, k)
             r == Part(q, j)
             s == Part(p, j)
  <2>1. /\ q \in Seq(Names) /\ Len(q) = k /\ (\A i \in 1..k : q[i] = p[i])
        /\ j \in 0..Len(p) /\ j \in 0..Len(q)
    BY <1>1, <1>2 DEF Paths
  <2> HIDE DEF q
  <2>2. r \in Seq(Names) /\ Len(r) = j /\ \A i \in 1..j : i \in 1..k /\ r[i] = q[i]
    BY <2>1, FirstPart DEF Part
  <2>3. s \in Seq(Names) /\ Len(s) = j /\ \A i \in 1..j : s[i] = p[i]
    BY <1>1, <2>1, FirstPart DEF Part
  <2> HIDE DEF r, s
  <2>4. \A i \in 1..j : r[i] = s[i]
    BY <2>1, <2>2, <2>3
  <2>5. r = s
    BY <2>2, <2>3, <2>4, SeqEqual
  <2>. QED BY <2>5 DEF r, s, q
<1>. QED BY <1>2, <1>3

(* Each part of a path is the one before it and one more component.        *)
LEMMA PartSteps ==
  ASSUME NEW p \in Paths, NEW k \in 1..Len(p)
  PROVE  /\ Append(Part(p, k - 1), p[k]) = Part(p, k)
         /\ Part(p, k) # <<>> /\ Front(Part(p, k)) = Part(p, k - 1) /\ Last(Part(p, k)) = p[k]
         /\ p[k] \in Names
<1>1. /\ Len(p) \in Nat /\ k - 1 \in 0..k /\ k \in 0..Len(p)
      /\ k - 1 \in 0..Len(p) /\ k \in Nat /\ p[k] \in Names
  BY DEF Paths
<1> DEFINE q == Part(p, k)
           r == Part(p, k - 1)
           s == Append(r, p[k])
<1>2. q \in Seq(Names) /\ Len(q) = k /\ (\A i \in 1..k : q[i] = p[i]) /\ Part(q, k - 1) = r
  BY <1>1, Parts DEF Paths
<1>3. r \in Seq(Names) /\ Len(r) = k - 1 /\ \A i \in 1..k - 1 : r[i] = p[i]
  BY <1>1, Parts DEF Paths
<1> HIDE DEF q, r
<1>4. s \in Seq(Names) /\ Len(s) = k /\ \A i \in 1..k : s[i] = p[i]
  <2>1. /\ s \in Seq(Names) /\ Len(s) = k - 1 + 1
        /\ s[k - 1 + 1] = p[k] /\ \A i \in 1..k - 1 : s[i] = r[i]
    BY <1>1, <1>3
  <2>2. k - 1 + 1 = k /\ \A i \in 1..k : i = k \/ i \in 1..k - 1
    BY <1>1
  <2> HIDE DEF s
  <2>. QED BY <1>3, <2>1, <2>2
<1> HIDE DEF s
<1>5. s = q
  <2>1. \A i \in 1..k : s[i] = q[i]
    BY <1>2, <1>4
  <2>. QED BY <1>2, <1>4, <2>1, SeqEqual
<1>6. q # <<>> /\ Front(q) = r /\ Last(q) = p[k]
  BY <1>1, <1>2 DEF Front, Last, Part
<1>. QED BY <1>1, <1>5, <1>6 DEF q, r, s

(* The first and the last part of a path are nothing and all of it.        *)
LEMMA WholePart ==
  ASSUME NEW p \in Paths
  PROVE  Part(p, Len(p)) = p /\ Part(p, 0) = <<>> /\ Len(p) \in Nat
<1>1. Len(p) \in Nat /\ p \in Seq(Names)
  BY DEF Paths
<1>2. Len(p) \in 0..Len(p) /\ 0 \in 0..Len(p)
  BY <1>1
<1> DEFINE q == Part(p, Len(p))
           r == Part(p, 0)
<1>3. q \in Seq(Names) /\ Len(q) = Len(p) /\ \A i \in 1..Len(p) : q[i] = p[i]
  BY <1>2, Parts DEF Paths
<1>4. r \in Seq(Names) /\ Len(r) = 0
  BY <1>2, Parts DEF Paths
<1> HIDE DEF q, r
<1>5. q = p
  BY <1>1, <1>3, SeqEqual
<1>6. r = <<>>
  BY <1>4
<1>. QED BY <1>1, <1>5, <1>6 DEF q, r

(***************************************************************************)
(* Where a path leads                                                      *)
(***************************************************************************)

(* What is found of one more component from each of the entries in found.  *)
Reached(fs, found, name) == UNION {Entered(fs, at, name) : at \in found}

(* The parts of a tree that is one.                                        *)
LEMMA TreeIs ==
  ASSUME NEW fs, IsTree(fs), NEW at \in DOMAIN fs
  PROVE  at \in Paths /\ fs[at].to \in Paths /\ Kind(fs, at) = fs[at].kind
BY DEF IsTree, Kind

(* One more component leads to one entry at most.                          *)
LEMMA EnteredIs ==
  ASSUME NEW fs, IsTree(fs), NEW at \in Paths, NEW name \in Names
  PROVE  /\ Entered(fs, at, name) \in SUBSET Paths
         /\ \A x, y \in Entered(fs, at, name) : x = y
<1> DEFINE next == Append(at, name)
<1>1. next \in Paths
  BY DEF Paths
<1>2. at # <<>> => Front(at) \in Paths
  <2>1. at # <<>> => Len(at) - 1 \in 0..Len(at)
    BY DEF Paths
  <2>. QED BY <2>1, FirstPart DEF Front, Paths
<1>3. Kind(fs, next) = "link" => next \in DOMAIN fs /\ fs[next].to \in Paths
  BY TreeIs DEF Kind
<1> HIDE DEF next
<1>4. Entered(fs, at, name) =
        IF Kind(fs, at) # "dir" THEN {}
        ELSE IF name = Up THEN {IF at = <<>> THEN at ELSE Front(at)}
        ELSE CASE Kind(fs, next) = "missing" -> {}
               [] Kind(fs, next) = "link" -> {to \in {fs[next].to} : Kind(fs, to) # "missing"}
               [] OTHER -> {next}
  BY DEF Entered, next
<1>5. CASE Kind(fs, at) # "dir"
  BY <1>4, <1>5
<1>6. CASE Kind(fs, at) = "dir" /\ name = Up
  BY <1>2, <1>4, <1>6
<1>7. CASE Kind(fs, at) = "dir" /\ name # Up
  <2>1. \/ Entered(fs, at, name) = {}
        \/ Kind(fs, next) = "link" /\ Entered(fs, at, name) = {fs[next].to}
        \/ Entered(fs, at, name) = {next}
    BY <1>4, <1>7
  <2>. QED BY <1>1, <1>3, <2>1
<1>. QED BY <1>5, <1>6, <1>7

(* One more component, from each of the entries that were found.           *)
LEMMA ReachedIs ==
  ASSUME NEW fs, IsTree(fs), NEW found \in SUBSET Paths, NEW name \in Names
  PROVE  /\ Reached(fs, found, name) \in SUBSET Paths
         /\ \A x : x \in Reached(fs, found, name) <=> \E at \in found : x \in Entered(fs, at, name)
<1>1. \A x : x \in Reached(fs, found, name) <=> \E at \in found : x \in Entered(fs, at, name)
  BY DEF Reached
<1>. QED BY <1>1, EnteredIs

(* A walk follows one component after the other.                           *)
LEMMA WalkIs ==
  ASSUME NEW fs, IsTree(fs), NEW path \in Paths
  PROVE  /\ Walk(fs, path) \in [0..Len(path) -> SUBSET Paths]
         /\ Walk(fs, path)[0] = {<<>>}
         /\ \A k \in 1..Len(path) :
              Walk(fs, path)[k] = Reached(fs, Walk(fs, path)[k - 1], path[k])
<1> DEFINE n == Len(path)
           Walked(w) == [k \in 0..n |-> IF k = 0 THEN {<<>>} ELSE Reached(fs, w[k - 1], path[k])]
           step == [k \in 1..n |-> [found \in SUBSET Paths |-> Reached(fs, found, path[k])]]
<1>1. n \in Nat /\ \A k \in 1..n : path[k] \in Names
  BY DEF Paths
<1>2. {<<>>} \in SUBSET Paths
  BY DEF Paths
<1>3. \A k \in 1..n : \A found \in SUBSET Paths : Reached(fs, found, path[k]) \in SUBSET Paths
  BY <1>1, ReachedIs
<1>4. step \in [1..n -> [SUBSET Paths -> SUBSET Paths]]
  BY <1>3
<1>5. PICK g \in [0..n -> SUBSET Paths] : Recurs(g, {<<>>}, n, step)
  <2> HIDE DEF step
  <2>. QED BY <1>1, <1>2, <1>4, RecursionExists
<1>6. g = Walked(g)
  <2>1. g[0] = {<<>>} /\ \A k \in 1..n : g[k] = step[k][g[k - 1]]
    BY <1>5 DEF Recurs
  <2>2. \A k \in 1..n : k - 1 \in 0..n /\ g[k] = Reached(fs, g[k - 1], path[k])
    <3> TAKE k \in 1..n
    <3>1. k - 1 \in 0..n
      BY <1>1
    <3>2. g[k - 1] \in SUBSET Paths
      BY <1>5, <3>1
    <3>3. step[k][g[k - 1]] = Reached(fs, g[k - 1], path[k])
      BY <3>2
    <3>. QED BY <2>1, <3>1, <3>3
  <2>3. \A k \in 0..n : k # 0 => k \in 1..n
    BY <1>1
  <2>4. \A k \in 0..n : g[k] = Walked(g)[k]
    BY <2>1, <2>2, <2>3
  <2>. QED BY <1>5, <2>4
<1>7. Walk(fs, path) = CHOOSE w : w = Walked(w)
  BY DEF Walk, Reached
<1>8. Walk(fs, path) = Walked(Walk(fs, path))
  <2> HIDE DEF Walked
  <2>. QED BY <1>6, <1>7, Zenon
<1> DEFINE w == Walk(fs, path)
<1> HIDE DEF w
<1>9. w = [k \in 0..n |-> IF k = 0 THEN {<<>>} ELSE Reached(fs, w[k - 1], path[k])]
  BY <1>8 DEF w
<1>10. w[0] = {<<>>} /\ \A k \in 1..n : w[k] = Reached(fs, w[k - 1], path[k])
  <2>1. 0 \in 0..n /\ \A k \in 1..n : k \in 0..n /\ k # 0
    BY <1>1
  <2>. QED BY <1>9, <2>1
<1>11. \A k \in 0..n : w[k] \in SUBSET Paths
  <2> DEFINE bad == {k \in 0..n : w[k] \notin SUBSET Paths}
  <2>1. 0 \notin bad
    BY <1>2, <1>10
  <2>2. \A k \in 0..n - 1 : k \notin bad => k + 1 \notin bad
    <3> TAKE k \in 0..n - 1
    <3> HAVE k \notin bad
    <3>1. k \in 0..n /\ k + 1 \in 1..n /\ k + 1 - 1 = k
      BY <1>1
    <3>2. w[k + 1] = Reached(fs, w[k], path[k + 1])
      BY <1>10, <3>1
    <3>3. w[k] \in SUBSET Paths
      BY <3>1
    <3>4. path[k + 1] \in Names
      BY <1>1, <3>1
    <3>5. Reached(fs, w[k], path[k + 1]) \in SUBSET Paths
      BY <3>3, <3>4, ReachedIs
    <3>6. w[k + 1] \in SUBSET Paths
      BY <3>2, <3>5
    <3>. QED BY <3>6
  <2>3. bad \in SUBSET (0..n)
    OBVIOUS
  <2> HIDE DEF bad
  <2>4. bad = {}
    BY <1>1, <2>1, <2>2, <2>3, Stages
  <2>. QED BY <2>4 DEF bad
<1>12. DOMAIN w = 0..n /\ w = [k \in DOMAIN w |-> w[k]]
  BY <1>9
<1>13. w \in [0..n -> SUBSET Paths]
  BY <1>11, <1>12
<1>. QED BY <1>10, <1>13 DEF w

(* What a path leads to is a step from where its front leads.              *)
LEMMA RealSteps ==
  ASSUME NEW fs, IsTree(fs), NEW path \in Paths
  PROVE  /\ RealPath(fs, Part(path, 0)) = {<<>>}
         /\ \A k \in 0..Len(path) : RealPath(fs, Part(path, k)) \in SUBSET Paths
         /\ \A k \in 1..Len(path) :
              RealPath(fs, Part(path, k)) = Reached(fs, RealPath(fs, Part(path, k - 1)), path[k])
<1> DEFINE w == Walk(fs, path)
           n == Len(path)
<1>1. n \in Nat
  BY WholePart
<1>2. /\ w \in [0..n -> SUBSET Paths] /\ w[0] = {<<>>}
      /\ \A k \in 1..n : w[k] = Reached(fs, w[k - 1], path[k])
  BY WalkIs
<1> HIDE DEF w
<1>3. ASSUME NEW k \in 0..n
      PROVE  RealPath(fs, Part(path, k)) = w[k]
  <2> DEFINE v == Walk(fs, Part(path, k))
             bad == {i \in 0..k : v[i] # w[i]}
  <2>1. /\ Part(path, k) \in Paths /\ Len(Part(path, k)) = k
        /\ \A i \in 1..k : Part(path, k)[i] = path[i]
    BY Parts
  <2>2. v[0] = {<<>>} /\ \A i \in 1..k : v[i] = Reached(fs, v[i - 1], path[i])
    BY <2>1, WalkIs
  <2> HIDE DEF v
  <2>3. 0 \notin bad
    BY <1>2, <2>2
  <2>4. \A i \in 0..k - 1 : i \notin bad => i + 1 \notin bad
    <3> TAKE i \in 0..k - 1
    <3> HAVE i \notin bad
    <3>1. i \in 0..k /\ i + 1 \in 1..k /\ i + 1 \in 1..n /\ i + 1 - 1 = i
      BY <1>1
    <3>2. v[i] = w[i]
      BY <3>1
    <3>3. v[i + 1] = Reached(fs, v[i], path[i + 1]) /\ w[i + 1] = Reached(fs, w[i], path[i + 1])
      BY <1>2, <2>2, <3>1
    <3>. QED BY <3>2, <3>3
  <2>5. bad \in SUBSET (0..k) /\ k \in Nat
    BY <1>1
  <2> HIDE DEF bad
  <2>6. bad = {}
    BY <2>3, <2>4, <2>5, Stages
  <2>7. k \in 0..k
    BY <2>5
  <2>8. v[k] = w[k]
    BY <2>6, <2>7 DEF bad
  <2>. QED BY <2>1, <2>8 DEF RealPath, v
<1>4. 0 \in 0..n /\ \A k \in 1..n : k \in 0..n /\ k - 1 \in 0..n
  BY <1>1
<1>5. \A k \in 1..n : RealPath(fs, Part(path, k)) = Reached(fs, RealPath(fs, Part(path, k - 1)), path[k])
  <2> TAKE k \in 1..n
  <2>1. RealPath(fs, Part(path, k)) = w[k] /\ RealPath(fs, Part(path, k - 1)) = w[k - 1]
    BY <1>3, <1>4
  <2>. QED BY <1>2, <2>1
<1>. QED BY <1>2, <1>3, <1>4, <1>5

(* A path leads to one entry at most.                                      *)
LEMMA LeadsToOne ==
  ASSUME NEW fs, IsTree(fs), NEW path \in Paths
  PROVE  /\ RealPath(fs, path) \in SUBSET Paths
         /\ \A x, y \in RealPath(fs, path) : x = y
<1> DEFINE n == Len(path)
           bad == {k \in 0..n : \E x, y \in RealPath(fs, Part(path, k)) : x # y}
<1>1. n \in Nat
  BY WholePart
<1>2. 0 \notin bad
  BY RealSteps
<1>3. \A k \in 0..n - 1 : k \notin bad => k + 1 \notin bad
  <2> TAKE k \in 0..n - 1
  <2> HAVE k \notin bad
  <2>1. k \in 0..n /\ k + 1 \in 1..n /\ k + 1 - 1 = k
    BY <1>1
  <2>2. path[k + 1] \in Names
    BY <2>1, PartSteps
  <2> DEFINE found == RealPath(fs, Part(path, k))
  <2>3. found \in SUBSET Paths /\ RealPath(fs, Part(path, k + 1)) = Reached(fs, found, path[k + 1])
    BY <2>1, RealSteps
  <2>4. \A x, y \in found : x = y
    BY <2>1
  <2> HIDE DEF found
  <2>5. \A x, y \in Reached(fs, found, path[k + 1]) : x = y
    <3> SUFFICES ASSUME NEW x \in Reached(fs, found, path[k + 1]), NEW y \in Reached(fs, found, path[k + 1])
                 PROVE  x = y
      OBVIOUS
    <3>1. PICK at \in found : x \in Entered(fs, at, path[k + 1])
      BY <2>2, <2>3, ReachedIs
    <3>2. PICK also \in found : y \in Entered(fs, also, path[k + 1])
      BY <2>2, <2>3, ReachedIs
    <3>3. at = also /\ at \in Paths
      BY <2>3, <2>4
    <3>4. \A u, v \in Entered(fs, at, path[k + 1]) : u = v
      BY <2>2, <3>3, EnteredIs
    <3>. QED BY <3>1, <3>2, <3>3, <3>4
  <2>. QED BY <2>3, <2>5
<1>4. bad \in SUBSET (0..n) /\ n \in 0..n
  BY <1>1
<1> HIDE DEF bad
<1>5. bad = {}
  BY <1>1, <1>2, <1>3, <1>4, Stages
<1>6. \A x, y \in RealPath(fs, Part(path, n)) : x = y
  BY <1>4, <1>5 DEF bad
<1>. QED BY <1>4, <1>6, WholePart, RealSteps

(* What is found in a tree is an entry of a known kind, in a directory,    *)
(* under a name of its own.                                                *)
LEMMA FoundInTree ==
  ASSUME NEW fs, IsTree(fs), NEW at, Kind(fs, at) # "missing"
  PROVE  /\ at \in DOMAIN fs /\ at \in Paths /\ Kind(fs, at) = fs[at].kind
         /\ Kind(fs, at) \in {"file", "dir", "link"}
         /\ at # <<>> => Last(at) # Up /\ Kind(fs, Front(at)) = "dir"
BY DEF IsTree, Kind

(* On the way to what is there, there are directories.                     *)
LEMMA AncestorsAreDirs ==
  ASSUME NEW fs, IsTree(fs), NEW p \in Paths, Kind(fs, p) # "missing"
  PROVE  /\ \A k \in 0..Len(p) - 1 : Kind(fs, Part(p, k)) = "dir"
         /\ \A k \in 1..Len(p) : p[k] # Up
<1> DEFINE n == Len(p)
           There(k) == Kind(fs, Part(p, k)) # "missing" /\ (k # n => Kind(fs, Part(p, k)) = "dir")
           bad == {d \in 0..n : ~There(n - d)}
<1>1. n \in Nat /\ Part(p, n) = p
  BY WholePart
<1>2. n - 0 = n /\ There(n)
  BY <1>1
<1>3. \A d \in 0..n - 1 : There(n - d) => There(n - (d + 1))
  <2> TAKE d \in 0..n - 1
  <2> HAVE There(n - d)
  <2> DEFINE k == n - d
  <2>0. There(k)
    OBVIOUS
  <2>1. k \in 1..n /\ n - (d + 1) = k - 1 /\ k - 1 # n
    BY <1>1
  <2> HIDE DEF k, There
  <2>2. Part(p, k) # <<>> /\ Front(Part(p, k)) = Part(p, k - 1)
    BY <2>1, PartSteps
  <2>3. Kind(fs, Part(p, k - 1)) = "dir"
    BY <2>0, <2>2, FoundInTree DEF There
  <2>. QED BY <2>1, <2>3 DEF There
<1> HIDE DEF There
<1>4. bad = {}
  <2>1. 0 \notin bad
    BY <1>2
  <2>2. \A d \in 0..n - 1 : d \notin bad => d + 1 \notin bad
    <3> TAKE d \in 0..n - 1
    <3> HAVE d \notin bad
    <3>1. d \in 0..n
      BY <1>1
    <3>2. There(n - d)
      BY <3>1
    <3>. QED BY <1>3, <3>2
  <2>3. bad \in SUBSET (0..n)
    OBVIOUS
  <2> HIDE DEF bad
  <2>. QED BY <1>1, <2>1, <2>2, <2>3, Stages
<1>5. \A k \in 0..n : There(k)
  <2> TAKE k \in 0..n
  <2>1. n - k \in 0..n /\ n - (n - k) = k
    BY <1>1
  <2>2. n - k \notin bad
    BY <1>4
  <2>. QED BY <2>1, <2>2
<1>6. \A k \in 0..n - 1 : Kind(fs, Part(p, k)) = "dir"
  <2> TAKE k \in 0..n - 1
  <2>1. k \in 0..n /\ k # n
    BY <1>1
  <2>. QED BY <1>5, <2>1 DEF There
<1>7. \A k \in 1..n : p[k] # Up
  <2> TAKE k \in 1..n
  <2>1. k \in 0..n /\ Part(p, k) # <<>> /\ Last(Part(p, k)) = p[k]
    BY <1>1, PartSteps
  <2>2. Kind(fs, Part(p, k)) # "missing"
    BY <1>5, <2>1 DEF There
  <2>. QED BY <2>1, <2>2, FoundInTree
<1>. QED BY <1>6, <1>7

(* One more component from one entry.                                      *)
LEMMA ReachedFromOne ==
  ASSUME NEW fs, NEW at, NEW name
  PROVE  Reached(fs, {at}, name) = Entered(fs, at, name)
BY DEF Reached

(* The cases of a component that is looked up: no directory, the way up,   *)
(* nothing there, a link, or a directory or file.                          *)
LEMMA EnteredCases ==
  ASSUME NEW fs, NEW at, NEW name
  PROVE  LET next == Append(at, name)
         IN  /\ Kind(fs, at) # "dir" => Entered(fs, at, name) = {}
             /\ Kind(fs, at) = "dir" /\ name = Up =>
                  Entered(fs, at, name) = {IF at = <<>> THEN at ELSE Front(at)}
             /\ Kind(fs, at) = "dir" /\ name # Up =>
                  /\ Kind(fs, next) = "missing" => Entered(fs, at, name) = {}
                  /\ Kind(fs, next) = "link" =>
                       Entered(fs, at, name) =
                         IF Kind(fs, fs[next].to) = "missing" THEN {} ELSE {fs[next].to}
                  /\ Kind(fs, next) \notin {"missing", "link"} => Entered(fs, at, name) = {next}
<1> DEFINE next == Append(at, name)
<1>1. Entered(fs, at, name) =
        IF Kind(fs, at) # "dir" THEN {}
        ELSE IF name = Up THEN {IF at = <<>> THEN at ELSE Front(at)}
        ELSE CASE Kind(fs, next) = "missing" -> {}
               [] Kind(fs, next) = "link" -> {to \in {fs[next].to} : Kind(fs, to) # "missing"}
               [] OTHER -> {next}
  BY DEF Entered
<1> HIDE DEF next
<1>2. Kind(fs, at) # "dir" => Entered(fs, at, name) = {}
  BY <1>1
<1>3. Kind(fs, at) = "dir" /\ name = Up => Entered(fs, at, name) = {IF at = <<>> THEN at ELSE Front(at)}
  BY <1>1
<1>4. ASSUME Kind(fs, at) = "dir", name # Up
      PROVE  /\ Kind(fs, next) = "missing" => Entered(fs, at, name) = {}
             /\ Kind(fs, next) = "link" =>
                  Entered(fs, at, name) =
                    IF Kind(fs, fs[next].to) = "missing" THEN {} ELSE {fs[next].to}
             /\ Kind(fs, next) \notin {"missing", "link"} => Entered(fs, at, name) = {next}
  <2> DEFINE k == Kind(fs, next)
             t == Kind(fs, fs[next].to)
  <2>1. Entered(fs, at, name) =
          CASE k = "missing" -> {}
            [] k = "link" -> {to \in {fs[next].to} : Kind(fs, to) # "missing"}
            [] OTHER -> {next}
    BY <1>1, <1>4
  <2> HIDE DEF k, t
  <2>2. k = "missing" => Entered(fs, at, name) = {}
    BY <2>1
  <2>3. k = "link" => Entered(fs, at, name) = IF t = "missing" THEN {} ELSE {fs[next].to}
    <3> SUFFICES ASSUME k = "link" PROVE Entered(fs, at, name) = IF t = "missing" THEN {} ELSE {fs[next].to}
      OBVIOUS
    <3>1. Entered(fs, at, name) = {to \in {fs[next].to} : Kind(fs, to) # "missing"}
      BY <2>1
    <3>. QED BY <3>1 DEF t
  <2>4. k \notin {"missing", "link"} => Entered(fs, at, name) = {next}
    BY <2>1
  <2>. QED BY <2>2, <2>3, <2>4 DEF k, t
<1>. QED BY <1>2, <1>3, <1>4 DEF next

(* A directory or a file is reached under its own name.                    *)
LEMMA EnterPlain ==
  ASSUME NEW fs, NEW at, NEW name, Kind(fs, at) = "dir", name # Up,
         Kind(fs, Append(at, name)) \in {"dir", "file"}
  PROVE  Entered(fs, at, name) = {Append(at, name)}
BY EnteredCases

(* What is there and is not a link is reached by its own path.             *)
LEMMA RealIsItself ==
  ASSUME NEW fs, IsTree(fs), NEW p \in Paths, Kind(fs, p) \in {"dir", "file"}
  PROVE  RealPath(fs, p) = {p}
<1> DEFINE n == Len(p)
           bad == {k \in 0..n : RealPath(fs, Part(p, k)) # {Part(p, k)}}
<1>1. n \in Nat /\ Part(p, n) = p /\ Part(p, 0) = <<>>
  BY WholePart
<1>2. 0 \notin bad
  BY <1>1, RealSteps
<1>3. \A k \in 0..n - 1 : k \notin bad => k + 1 \notin bad
  <2> TAKE k \in 0..n - 1
  <2> HAVE k \notin bad
  <2> DEFINE l == k + 1
  <2>1. k \in 0..n /\ l \in 1..n /\ l - 1 = k /\ (l = n \/ l \in 0..n - 1)
    BY <1>1
  <2>2. RealPath(fs, Part(p, k)) = {Part(p, k)}
    BY <2>1
  <2> HIDE DEF l
  <2>3. Append(Part(p, k), p[l]) = Part(p, l)
    BY <2>1, PartSteps
  <2>4. Kind(fs, Part(p, k)) = "dir" /\ p[l] # Up /\ Kind(fs, Part(p, l)) \in {"dir", "file"}
    BY <1>1, <2>1, AncestorsAreDirs
  <2> DEFINE at == Part(p, k)
             name == p[l]
  <2>5. Entered(fs, at, name) = {Part(p, l)}
    <3>1. Kind(fs, at) = "dir" /\ name # Up /\ Append(at, name) = Part(p, l)
          /\ Kind(fs, Part(p, l)) \in {"dir", "file"}
      BY <2>3, <2>4
    <3> HIDE DEF at, name
    <3>2. Kind(fs, Append(at, name)) \in {"dir", "file"}
      BY <3>1
    <3>3. Entered(fs, at, name) = {Append(at, name)}
      BY <3>1, <3>2, EnterPlain
    <3>. QED BY <3>1, <3>3
  <2>6. RealPath(fs, Part(p, l)) = {Part(p, l)}
    BY <2>1, <2>2, <2>5, ReachedFromOne, RealSteps
  <2>. QED BY <2>6 DEF l
<1>4. bad \in SUBSET (0..n) /\ n \in 0..n
  BY <1>1
<1> HIDE DEF bad
<1>5. bad = {}
  BY <1>1, <1>2, <1>3, <1>4, Stages
<1>6. RealPath(fs, Part(p, n)) = {Part(p, n)}
  BY <1>4, <1>5 DEF bad
<1>. QED BY <1>1, <1>6

(* Only what was missing is new.                                           *)
Grown(fs, made) ==
  \A at : Kind(fs, at) # "missing" => at \in DOMAIN made /\ made[at] = fs[at]

(* Making what is missing leads no path elsewhere.                         *)
LEMMA GrownLeadsTheSame ==
  ASSUME NEW fs, IsTree(fs), NEW made, IsTree(made), Grown(fs, made), NEW path \in Paths,
         RealPath(fs, path) # {}
  PROVE  RealPath(made, path) = RealPath(fs, path)
<1> DEFINE n == Len(path)
           bad == {k \in 0..n : /\ RealPath(fs, Part(path, k)) # {}
                                /\ RealPath(made, Part(path, k)) # RealPath(fs, Part(path, k))}
<1>1. n \in Nat /\ Part(path, n) = path
  BY WholePart
<1>2. 0 \notin bad
  BY RealSteps
<1>3. \A k \in 0..n - 1 : k \notin bad => k + 1 \notin bad
  <2> TAKE k \in 0..n - 1
  <2> HAVE k \notin bad
  <2> DEFINE l == k + 1
             found == RealPath(fs, Part(path, k))
             name == path[l]
  <2>1. k \in 0..n /\ l \in 1..n /\ l - 1 = k /\ l \in 0..n
    BY <1>1
  <2>2. found # {} => RealPath(made, Part(path, k)) = found
    BY <2>1
  <2> HIDE DEF l
  <2>3. name \in Names /\ Part(path, k) \in Paths
    BY <2>1, PartSteps, Parts
  <2>4. /\ found \in SUBSET Paths
        /\ RealPath(fs, Part(path, l)) = Reached(fs, found, name)
        /\ RealPath(made, Part(path, l)) = Reached(made, RealPath(made, Part(path, k)), name)
    BY <2>1, RealSteps
  <2>5. \A x, y \in found : x = y
    BY <2>3, LeadsToOne
  <2> HIDE DEF found, name
  <2>6. ASSUME Reached(fs, found, name) # {}
        PROVE  Reached(made, found, name) = Reached(fs, found, name) /\ found # {}
    <3>1. PICK at \in found : Entered(fs, at, name) # {}
      BY <2>3, <2>4, <2>6, ReachedIs
    <3>2. found = {at}
      BY <2>5, <3>1
    <3>3. Kind(fs, at) = "dir" /\ Kind(made, at) = "dir"
      <4>1. Kind(fs, at) = "dir"
        BY <3>1, EnteredCases
      <4>. QED BY <4>1 DEF Grown, Kind
    <3> DEFINE next == Append(at, name)
    <3>4. CASE name = Up
      <4>1. Entered(made, at, name) = Entered(fs, at, name)
        BY <3>3, <3>4, EnteredCases
      <4>. QED BY <3>2, <4>1, ReachedFromOne
    <3>5. CASE name # Up
      <4>1. Kind(fs, next) # "missing"
        BY <3>1, <3>3, <3>5, EnteredCases
      <4>2. /\ next \in DOMAIN fs /\ next \in DOMAIN made
            /\ made[next] = fs[next] /\ Kind(made, next) = Kind(fs, next)
        BY <4>1 DEF Grown, Kind
      <4>3. Kind(fs, next) = "link" => Kind(fs, fs[next].to) # "missing"
        BY <3>1, <3>3, <3>5, <4>1, EnteredCases
      <4>4. Kind(fs, next) = "link" => Kind(made, made[next].to) # "missing"
        BY <4>2, <4>3 DEF Grown, Kind
      <4> HIDE DEF next
      <4>5. Entered(made, at, name) = Entered(fs, at, name)
        <5>1. Kind(fs, next) \in {"link", "file", "dir"}
          BY <4>1, FoundInTree
        <5>2. CASE Kind(fs, next) = "link"
          BY <3>3, <3>5, <4>2, <4>3, <4>4, <5>2, EnteredCases DEF next
        <5>3. CASE Kind(fs, next) # "link"
          BY <3>3, <3>5, <4>2, <5>1, <5>3, EnteredCases DEF next
        <5>. QED BY <5>2, <5>3
      <4>. QED BY <3>2, <4>5, ReachedFromOne
    <3>. QED BY <3>2, <3>4, <3>5
  <2>7. RealPath(fs, Part(path, l)) # {} => RealPath(made, Part(path, l)) = RealPath(fs, Part(path, l))
    BY <2>2, <2>4, <2>6
  <2>. QED BY <2>7 DEF l
<1>4. bad \in SUBSET (0..n) /\ n \in 0..n
  BY <1>1
<1> HIDE DEF bad
<1>5. bad = {}
  BY <1>1, <1>2, <1>3, <1>4, Stages
<1>. QED BY <1>1, <1>4, <1>5 DEF bad

(***************************************************************************)
(* The way from the root to an item                                        *)
(***************************************************************************)

(* The way from the root to an item: the root, k components further.       *)
Under(rel, k) == Root \o Part(rel, k)

(* Paths one after the other.                                              *)
LEMMA JoinedPaths ==
  ASSUME NEW p \in Paths, NEW q \in Paths
  PROVE  /\ p \o q \in Paths /\ Len(p \o q) = Len(p) + Len(q)
         /\ \A i \in 1..Len(p) : (p \o q)[i] = p[i]
         /\ \A i \in 1..Len(q) : (p \o q)[Len(p) + i] = q[i]
BY DEF Paths

(* Paths with the same components are equal.                               *)
LEMMA PathEqual ==
  ASSUME NEW p \in Paths, NEW q \in Paths, Len(p) = Len(q), \A i \in 1..Len(p) : p[i] = q[i]
  PROVE  p = q
BY SeqEqual DEF Paths

(* The components of a path on the way.                                    *)
LEMMA UnderIs ==
  ASSUME NEW rel \in Paths, NEW k \in 0..Len(rel)
  PROVE  /\ Under(rel, k) \in Paths /\ Len(Under(rel, k)) = Len(Root) + k
         /\ \A i \in 1..Len(Root) : Under(rel, k)[i] = Root[i]
         /\ \A i \in 1..k : Under(rel, k)[Len(Root) + i] = rel[i]
<1>1. Root \in Paths
  BY PathsTyped
<1>2. Part(rel, k) \in Paths /\ Len(Part(rel, k)) = k /\ \A i \in 1..k : Part(rel, k)[i] = rel[i]
  BY Parts
<1> DEFINE q == Part(rel, k)
<1>3. Under(rel, k) = Root \o q
  BY DEF Under
<1> HIDE DEF q
<1>4. q \in Paths /\ Len(q) = k /\ \A i \in 1..k : q[i] = rel[i]
  BY <1>2 DEF q
<1>5. /\ Root \o q \in Paths /\ Len(Root \o q) = Len(Root) + Len(q)
      /\ \A i \in 1..Len(Root) : (Root \o q)[i] = Root[i]
      /\ \A i \in 1..Len(q) : (Root \o q)[Len(Root) + i] = q[i]
  BY <1>1, <1>4, JoinedPaths
<1>. QED BY <1>3, <1>4, <1>5

(* The way starts at the root and ends at the item.                        *)
LEMMA UnderEnds ==
  ASSUME NEW rel \in Paths
  PROVE  Under(rel, 0) = Root /\ Under(rel, Len(rel)) = Root \o rel /\ Root \in Paths /\ Len(Root) \in Nat
<1>1. Root \in Paths /\ Root \in Seq(Names)
  BY PathsTyped DEF Paths
<1>2. Part(rel, 0) = <<>> /\ Part(rel, Len(rel)) = rel
  BY WholePart
<1>3. Root \o <<>> = Root
  BY <1>1
<1>. QED BY <1>1, <1>2, <1>3 DEF Under

(* Each path on the way is the one before it and one more component.       *)
LEMMA UnderSteps ==
  ASSUME NEW rel \in Paths, NEW k \in 1..Len(rel)
  PROVE  /\ Under(rel, k) # <<>> /\ Last(Under(rel, k)) = rel[k]
         /\ Front(Under(rel, k)) = Under(rel, k - 1)
         /\ Append(Under(rel, k - 1), rel[k]) = Under(rel, k)
         /\ rel[k] \in Names
<1> DEFINE p == Under(rel, k)
           q == Under(rel, k - 1)
           r == Len(Root)
<1>1. r \in Nat /\ Len(rel) \in Nat /\ k \in 0..Len(rel) /\ k - 1 \in 0..Len(rel) /\ k \in Nat
  BY PathsTyped, WholePart DEF Paths
<1>2. /\ p \in Paths /\ Len(p) = r + k /\ (\A i \in 1..r : p[i] = Root[i])
      /\ \A i \in 1..k : p[r + i] = rel[i]
  BY <1>1, UnderIs
<1>3. /\ q \in Paths /\ Len(q) = r + (k - 1) /\ (\A i \in 1..r : q[i] = Root[i])
      /\ \A i \in 1..k - 1 : q[r + i] = rel[i]
  BY <1>1, UnderIs
<1> HIDE DEF p, q, r
<1>4. Len(p) \in 1..Len(p) /\ Len(p) - 1 = Len(q) /\ Len(q) \in 0..Len(p)
  BY <1>1, <1>2, <1>3
<1>5. p # <<>> /\ Last(p) = rel[k]
  <2>1. k \in 1..k /\ r + k = Len(p)
    BY <1>1, <1>2
  <2>2. p[Len(p)] = rel[k]
    BY <1>2, <2>1
  <2>. QED BY <1>4, <2>2 DEF Last
<1>6. Part(p, Len(q)) = q
  <2> DEFINE s == Part(p, Len(q))
  <2>1. s \in Paths /\ Len(s) = Len(q) /\ \A i \in 1..Len(q) : s[i] = p[i]
    BY <1>2, <1>4, Parts
  <2> HIDE DEF s
  <2>2. \A i \in 1..Len(q) : p[i] = q[i]
    <3> TAKE i \in 1..Len(q)
    <3>1. CASE i \in 1..r
      BY <1>2, <1>3, <3>1
    <3>2. CASE i \notin 1..r
      <4>1. i - r \in 1..k - 1 /\ i - r \in 1..k /\ r + (i - r) = i
        BY <1>1, <1>3, <3>2
      <4>. QED BY <1>2, <1>3, <4>1
    <3>. QED BY <3>1, <3>2
  <2>3. s = q
    BY <1>3, <2>1, <2>2, PathEqual
  <2>. QED BY <2>3 DEF s
<1>7. Front(p) = Part(p, Len(p) - 1)
  BY DEF Front, Part
<1>8. Append(Part(p, Len(p) - 1), p[Len(p)]) = Part(p, Len(p)) /\ Part(p, Len(p)) = p
  BY <1>2, <1>4, PartSteps, WholePart
<1>9. Append(q, rel[k]) = p
  BY <1>4, <1>5, <1>6, <1>8 DEF Last
<1>10. rel[k] \in Names
  BY PartSteps
<1>. QED BY <1>4, <1>5, <1>6, <1>7, <1>9, <1>10 DEF p, q

(* The directories that are checked are those of the way.                  *)
LEMMA AncestorsAre ==
  ASSUME NEW rel
  PROVE  Ancestors(rel) = {Under(rel, k) : k \in 1..Len(rel) - 1}
BY DEF Ancestors, Under, Part

(* The entry of a path is in the directory its front leads to.             *)
LEMMA EntryIs ==
  ASSUME NEW fs, NEW path, path # <<>>, NEW at, RealPath(fs, Front(path)) = {at}, Kind(fs, at) = "dir"
  PROVE  EntryKind(fs, path) = Kind(fs, Append(at, Last(path)))
<1>1. (CHOOSE x \in {at} : TRUE) = at
  OBVIOUS
<1>. QED BY <1>1 DEF EntryKind

(* Below what leads nowhere there is no entry.                             *)
LEMMA NoEntry ==
  ASSUME NEW fs, NEW path, path # <<>>, RealPath(fs, Front(path)) = {}
  PROVE  EntryKind(fs, path) = "missing"
BY DEF EntryKind

(* There are directories all the way, the root included.                   *)
WayOfDirs(fs, rel) == \A k \in 0..Len(rel) - 1 : Kind(fs, Under(rel, k)) = "dir"

(* The check before a write finds directories all the way.                 *)
LEMMA ValidMeansDirs ==
  ASSUME NEW fs, IsTree(fs), Kind(fs, Root) = "dir", NEW rel \in Paths, ParentValid(fs, rel)
  PROVE  WayOfDirs(fs, rel)
<1> DEFINE n == Len(rel) - 1
           bad == {k \in 0..n : Kind(fs, Under(rel, k)) # "dir"}
<1>1. Len(rel) \in Nat
  BY WholePart
<1>2. CASE n \notin Nat
  BY <1>1, <1>2 DEF WayOfDirs
<1>3. CASE n \in Nat
  <2>1. 0 \notin bad
    BY UnderEnds
  <2>2. \A k \in 0..n - 1 : k \notin bad => k + 1 \notin bad
    <3> TAKE k \in 0..n - 1
    <3> HAVE k \notin bad
    <3> DEFINE l == k + 1
    <3>1. k \in 0..n /\ l \in 1..Len(rel) - 1 /\ l \in 1..Len(rel) /\ l - 1 = k /\ k \in 0..Len(rel)
      BY <1>1, <1>3
    <3>2. Kind(fs, Under(rel, k)) = "dir" /\ Under(rel, k) \in Paths
      BY <3>1, UnderIs
    <3> HIDE DEF l
    <3>3. RealPath(fs, Under(rel, k)) = {Under(rel, k)}
      BY <3>2, RealIsItself
    <3>4. /\ Under(rel, l) # <<>> /\ Last(Under(rel, l)) = rel[l] /\ Front(Under(rel, l)) = Under(rel, k)
          /\ Append(Under(rel, k), rel[l]) = Under(rel, l)
      BY <3>1, UnderSteps
    <3>5. EntryKind(fs, Under(rel, l)) = "dir"
      BY <3>1, AncestorsAre DEF ParentValid
    <3>6. EntryKind(fs, Under(rel, l)) = Kind(fs, Under(rel, l))
      BY <3>2, <3>3, <3>4, EntryIs
    <3>. QED BY <3>5, <3>6 DEF l
  <2>3. bad \in SUBSET (0..n)
    OBVIOUS
  <2> HIDE DEF bad
  <2>4. bad = {}
    BY <1>3, <2>1, <2>2, <2>3, Stages
  <2>. QED BY <2>4 DEF WayOfDirs, bad
<1>. QED BY <1>2, <1>3

(* What the check before a directory is made finds on the way:             *)
(* directories, and from one place on nothing.                             *)
WayOpen(fs, rel) ==
  \A k \in 0..Len(rel) - 1 :
    \/ Kind(fs, Under(rel, k)) = "dir" /\ (k # 0 => EntryKind(fs, Under(rel, k)) = "dir")
    \/ /\ k # 0 /\ Kind(fs, Under(rel, k)) = "missing" /\ EntryKind(fs, Under(rel, k)) = "missing"
       /\ RealPath(fs, Under(rel, k)) = {}

(* What leads nowhere leads nowhere with more components.                  *)
LEMMA NothingBelowNothing ==
  ASSUME NEW fs, IsTree(fs), NEW path \in Paths, path # <<>>, RealPath(fs, Front(path)) = {}
  PROVE  RealPath(fs, path) = {}
<1> DEFINE n == Len(path)
<1>1. n \in 1..n /\ n - 1 \in 0..n /\ Part(path, n) = path
  BY WholePart, EmptySeq DEF Paths
<1>2. Front(path) = Part(path, n - 1)
  BY DEF Front, Part
<1>3. RealPath(fs, Part(path, n)) = Reached(fs, RealPath(fs, Part(path, n - 1)), path[n])
  BY <1>1, RealSteps
<1>. QED BY <1>1, <1>2, <1>3 DEF Reached

(* The check before a directory is made: once something is missing, it is  *)
(* missing, and leads nowhere, from there on                               *)
(* (validate_existing_parent_path).                                        *)
LEMMA WayIsOpen ==
  ASSUME NEW fs, IsTree(fs), Kind(fs, Root) = "dir", NEW rel \in Paths, RelativePath(rel),
         ExistingParentValid(fs, rel)
  PROVE  WayOpen(fs, rel)
<1> DEFINE n == Len(rel) - 1
           IsOpen(k) ==
             \/ Kind(fs, Under(rel, k)) = "dir" /\ (k # 0 => EntryKind(fs, Under(rel, k)) = "dir")
             \/ /\ k # 0 /\ Kind(fs, Under(rel, k)) = "missing" /\ EntryKind(fs, Under(rel, k)) = "missing"
                /\ RealPath(fs, Under(rel, k)) = {}
           bad == {k \in 0..n : ~IsOpen(k)}
<1>1. Len(rel) \in Nat /\ n \in Nat /\ Len(rel) = n + 1
  BY WholePart, EmptySeq DEF RelativePath, Paths
<1>2. 0 \notin bad
  BY UnderEnds
<1>3. \A k \in 0..n - 1 : k \notin bad => k + 1 \notin bad
  <2> TAKE k \in 0..n - 1
  <2> HAVE k \notin bad
  <2> DEFINE l == k + 1
             p == Under(rel, k)
             q == Under(rel, l)
  <2>1. /\ k \in 0..n /\ l \in 1..n /\ l \in 1..Len(rel) - 1 /\ l \in 1..Len(rel)
        /\ l - 1 = k /\ k \in 0..Len(rel) /\ l \in 0..Len(rel) /\ l # 0
    BY <1>1
  <2>2. IsOpen(k)
    BY <2>1
  <2>3. Kind(fs, p) = "dir" \/ (Kind(fs, p) = "missing" /\ RealPath(fs, p) = {})
    BY <2>2
  <2> HIDE DEF IsOpen
  <2> HIDE DEF l
  <2>4. /\ q # <<>> /\ Last(q) = rel[l] /\ Front(q) = p
        /\ Append(p, rel[l]) = q /\ p \in Paths /\ q \in Paths
    BY <2>1, UnderSteps, UnderIs
  <2>5. EntryKind(fs, q) \in {"dir", "missing"}
    BY <2>1, AncestorsAre DEF ExistingParentValid
  <2>6. rel[l] # Up /\ rel[l] \in Names
    BY <2>1, PartSteps DEF RelativePath, Paths
  <2> HIDE DEF p, q
  <2>7. CASE Kind(fs, p) = "dir"
    <3>1. RealPath(fs, p) = {p}
      BY <2>4, <2>7, RealIsItself
    <3>2. EntryKind(fs, q) = Kind(fs, q)
      <4>1. Append(p, Last(q)) = q /\ RealPath(fs, Front(q)) = {p}
        BY <2>4, <3>1
      <4>2. EntryKind(fs, q) = Kind(fs, Append(p, Last(q)))
        BY <2>4, <2>7, <4>1, EntryIs
      <4>. QED BY <4>1, <4>2
    <3>3. CASE Kind(fs, q) = "dir"
      BY <2>1, <3>2, <3>3 DEF IsOpen, q
    <3>4. CASE Kind(fs, q) = "missing"
      <4> DEFINE m == Len(q)
      <4>1. m \in 1..m /\ Part(q, m) = q
        BY <2>4, WholePart, EmptySeq DEF Paths
      <4>2. Part(q, m - 1) = p /\ q[m] = rel[l]
        BY <2>4 DEF Front, Last, Part
      <4>3. RealPath(fs, q) = Reached(fs, {p}, rel[l])
        <5>1. RealPath(fs, Part(q, m)) = Reached(fs, RealPath(fs, Part(q, m - 1)), q[m])
          BY <2>4, <4>1, RealSteps
        <5>. QED BY <3>1, <4>1, <4>2, <5>1
      <4>4. Entered(fs, p, rel[l]) = {}
        BY <2>4, <2>6, <2>7, <3>4, EnteredCases
      <4>5. RealPath(fs, q) = {}
        BY <4>3, <4>4, ReachedFromOne
      <4>. QED BY <2>1, <3>2, <3>4, <4>5 DEF IsOpen, q
    <3>. QED BY <2>5, <3>2, <3>3, <3>4
  <2>8. CASE Kind(fs, p) = "missing" /\ RealPath(fs, p) = {}
    <3>1. RealPath(fs, q) = {} /\ EntryKind(fs, q) = "missing"
      BY <2>4, <2>8, NothingBelowNothing, NoEntry
    <3>2. Kind(fs, q) = "missing"
      BY <2>4, <2>8, FoundInTree
    <3>. QED BY <2>1, <3>1, <3>2 DEF IsOpen, q
  <2>. QED BY <2>3, <2>7, <2>8
<1>4. bad \in SUBSET (0..n)
  OBVIOUS
<1> HIDE DEF bad
<1>5. bad = {}
  BY <1>1, <1>2, <1>3, <1>4, Stages
<1>. QED BY <1>5 DEF WayOpen, bad

(* Making the directories that are missing leaves a tree, in which nothing *)
(* that was there has changed.                                             *)
LEMMA EnsuredGrows ==
  ASSUME NEW fs, IsTree(fs), Kind(fs, Root) = "dir", NEW rel \in Paths, RelativePath(rel),
         NEW made \in Ensured(fs, rel)
  PROVE  IsTree(made) /\ Grown(fs, made) /\ Kind(made, Root) = "dir"
<1> DEFINE A == Ancestors(rel)
           New(at) == at \in A /\ EntryKind(fs, at) = "missing"
           entry == [kind |-> "dir", to |-> <<>>]
<1>1. /\ ExistingParentValid(fs, rel)
      /\ made = [at \in DOMAIN fs \cup A |-> IF New(at) THEN entry ELSE fs[at]]
  BY DEF Ensured
<1>2. WayOpen(fs, rel)
  BY <1>1, WayIsOpen
<1>3. Len(rel) \in Nat /\ Root \in Paths
  BY WholePart, PathsTyped
<1>4. ASSUME NEW at \in A
      PROVE  /\ at \in Paths /\ at # <<>> /\ Last(at) # Up /\ (Front(at) = Root \/ Front(at) \in A)
             /\ Kind(fs, at) \in {"dir", "missing"} /\ EntryKind(fs, at) = Kind(fs, at)
  <2>1. PICK k \in 1..Len(rel) - 1 : at = Under(rel, k)
    BY AncestorsAre
  <2>2. /\ k \in 0..Len(rel) - 1 /\ k \in 0..Len(rel) /\ k \in 1..Len(rel)
        /\ k # 0 /\ (k - 1 = 0 \/ k - 1 \in 1..Len(rel) - 1)
    BY <1>3
  <2>3. at \in Paths /\ at # <<>> /\ Last(at) = rel[k] /\ Front(at) = Under(rel, k - 1)
    BY <2>1, <2>2, UnderIs, UnderSteps
  <2>4. Front(at) = Root \/ Front(at) \in A
    BY <2>2, <2>3, UnderEnds, AncestorsAre
  <2>5. rel[k] # Up
    BY <2>2 DEF RelativePath, Paths
  <2>6. Kind(fs, at) \in {"dir", "missing"} /\ EntryKind(fs, at) = Kind(fs, at)
    BY <1>2, <2>1, <2>2 DEF WayOpen
  <2>. QED BY <2>3, <2>4, <2>5, <2>6
<1> HIDE DEF A
<1>5. \A at : Kind(fs, at) # "missing" => ~New(at) /\ at \in DOMAIN fs
  BY <1>4 DEF Kind
<1>6. \A at \in A : New(at) \/ Kind(fs, at) = "dir"
  BY <1>4
<1>7. \A at \in DOMAIN fs : ~New(at) => made[at] = fs[at]
  BY <1>1
<1>8. \A at \in A : New(at) => made[at] = entry
  BY <1>1
<1>9. DOMAIN made = DOMAIN fs \cup A
  BY <1>1
<1>10. Grown(fs, made)
  BY <1>5, <1>7, <1>9 DEF Grown
<1> HIDE DEF New
<1>11. \A at : Kind(fs, at) = "dir" => Kind(made, at) = "dir"
  BY <1>5, <1>7, <1>9 DEF Kind
<1>12. \A at \in A : Kind(made, at) = "dir"
  BY <1>6, <1>8, <1>9, <1>11 DEF Kind
<1>13. \A at \in DOMAIN made : New(at) \/ at \in DOMAIN fs
  BY <1>6, <1>9 DEF Kind
<1>14. \A at : New(at) => at \in A
  BY DEF New
<1> DEFINE Entries == [kind : {"missing", "file", "dir", "link"}, to : Paths]
<1>15. entry \in Entries
  BY DEF Paths
<1>16. \A at \in DOMAIN made : made[at] \in Entries
  <2>1. \A at \in DOMAIN fs : fs[at] \in Entries
    BY DEF IsTree
  <2> HIDE DEF entry, Entries
  <2>. QED BY <1>7, <1>8, <1>13, <1>14, <1>15, <2>1
<1> HIDE DEF Entries
<1>17. made \in [DOMAIN made -> Entries]
  BY <1>1, <1>16
<1>18. DOMAIN made \subseteq Paths
  BY <1>4, <1>9 DEF IsTree
<1>19. ASSUME NEW at \in DOMAIN made \ {<<>>}, made[at].kind # "missing"
       PROVE  Last(at) # Up /\ Kind(made, Front(at)) = "dir"
  <2>1. CASE New(at)
    <3>1. at \in A
      BY <1>14, <2>1
    <3>2. Last(at) # Up /\ (Front(at) = Root \/ Front(at) \in A)
      BY <1>4, <3>1
    <3>. QED BY <1>11, <1>12, <3>2
  <2>2. CASE ~New(at)
    <3>1. at \in DOMAIN fs /\ made[at] = fs[at]
      BY <1>7, <1>13, <2>2
    <3>2. Last(at) # Up /\ Kind(fs, Front(at)) = "dir"
      BY <1>19, <3>1 DEF IsTree
    <3>. QED BY <1>11, <3>2
  <2>. QED BY <2>1, <2>2
<1>20. IsTree(made)
  BY <1>17, <1>18, <1>19 DEF IsTree, Entries
<1>. QED BY <1>10, <1>11, <1>20

(***************************************************************************)
(* What a path is accepted as                                              *)
(***************************************************************************)

(* The front and the last component of a path that is not empty.           *)
LEMMA PathEnds ==
  ASSUME NEW p \in Paths, p # <<>>
  PROVE  /\ Len(p) \in Nat /\ Len(p) \in 1..Len(p) /\ Len(p) - 1 \in 0..Len(p)
         /\ Front(p) = Part(p, Len(p) - 1) /\ Last(p) = p[Len(p)]
         /\ Front(p) \in Paths /\ Append(Front(p), Last(p)) = p /\ Last(p) \in Names
<1>1. Len(p) \in Nat /\ Len(p) \in 1..Len(p) /\ Len(p) - 1 \in 0..Len(p) /\ Part(p, Len(p)) = p
  BY WholePart, EmptySeq DEF Paths
<1>2. Front(p) = Part(p, Len(p) - 1) /\ Last(p) = p[Len(p)]
  BY DEF Front, Last, Part
<1>3. Append(Part(p, Len(p) - 1), p[Len(p)]) = p /\ p[Len(p)] \in Names
  BY <1>1, PartSteps
<1>4. Part(p, Len(p) - 1) \in Paths
  BY <1>1, Parts
<1>. QED BY <1>1, <1>2, <1>3, <1>4

(* The way under the root to the front of an item's path.                  *)
LEMMA UnderFront ==
  ASSUME NEW rel \in Paths, rel # <<>>
  PROVE  Under(rel, Len(rel) - 1) = Root \o Front(rel)
BY PathEnds DEF Under

(* From where a path reaches the way under the root it follows it, if the  *)
(* rest of its components are those of the item's path.                    *)
LEMMA LeadsOn ==
  ASSUME NEW made, IsTree(made), NEW rel \in Paths, RelativePath(rel), WayOfDirs(made, rel),
         NEW path \in Paths, NEW k \in Nat, NEW j \in Nat, NEW d \in Nat, d >= 1,
         Len(path) = k + d, Len(rel) = j + d,
         RealPath(made, Part(path, k)) = {Under(rel, j)},
         \A i \in 1..d : path[k + i] = rel[j + i]
  PROVE  path # <<>> /\ SameEntry(made, path, rel)
<1> DEFINE n == d - 1
           Leads(i) == RealPath(made, Part(path, k + i)) = {Under(rel, j + i)}
           bad == {i \in 0..n : ~Leads(i)}
<1>1. n \in Nat /\ n + 1 = d
  OBVIOUS
<1>2. 0 \notin bad
  BY <1>1
<1>3. \A i \in 0..n - 1 : i \notin bad => i + 1 \notin bad
  <2> TAKE i \in 0..n - 1
  <2> HAVE i \notin bad
  <2> DEFINE l == k + i + 1
             m == j + i + 1
  <2>1. /\ i \in 0..n /\ l \in 1..Len(path) /\ m \in 1..Len(rel) /\ m \in 0..Len(rel) - 1 /\ m - 1 \in 0..Len(rel) - 1
        /\ l - 1 = k + i /\ m - 1 = j + i /\ i + 1 \in 1..d /\ l = k + (i + 1) /\ m = j + (i + 1)
    BY <1>1
  <2>2. RealPath(made, Part(path, k + i)) = {Under(rel, j + i)}
    <3>1. Leads(i)
      <4> HIDE DEF Leads
      <4>. QED BY <2>1
    <3>. QED BY <3>1
  <2>. HIDE DEF l, m
  <2>3. path[l] = rel[m]
    <3>1. i + 1 \in 1..d
      BY <2>1
    <3>2. path[k + (i + 1)] = rel[j + (i + 1)]
      BY <3>1
    <3>. QED BY <2>1, <3>2
  <2> DEFINE at == Under(rel, m - 1)
             next == Under(rel, m)
             name == rel[m]
  <2>4. Append(at, name) = next
    BY <2>1, UnderSteps
  <2>5. Kind(made, at) = "dir" /\ Kind(made, next) = "dir"
    BY <2>1 DEF WayOfDirs
  <2>6. name # Up
    BY <2>1 DEF RelativePath, Paths
  <2>7. RealPath(made, Part(path, l)) = Reached(made, {at}, name)
    <3>1. RealPath(made, Part(path, l)) = Reached(made, RealPath(made, Part(path, l - 1)), path[l])
      BY <2>1, RealSteps
    <3>2. RealPath(made, Part(path, l - 1)) = {at}
      BY <2>1, <2>2
    <3>. QED BY <2>3, <3>1, <3>2
  <2> HIDE DEF at, next, name
  <2>8. Kind(made, Append(at, name)) \in {"dir", "file"}
    BY <2>4, <2>5
  <2>9. Entered(made, at, name) = {next}
    <3>1. Entered(made, at, name) = {Append(at, name)}
      BY <2>5, <2>6, <2>8, EnterPlain
    <3>. QED BY <2>4, <3>1
  <2>10. RealPath(made, Part(path, l)) = {next}
    BY <2>7, <2>9, ReachedFromOne
  <2>11. Leads(i + 1)
    BY <2>1, <2>10 DEF next
  <2> HIDE DEF Leads
  <2>. QED BY <2>11
<1>4. bad \in SUBSET (0..n) /\ n \in 0..n
  BY <1>1
<1> HIDE DEF bad
<1>5. bad = {}
  BY <1>1, <1>2, <1>3, <1>4, Stages
<1>6. RealPath(made, Part(path, k + n)) = {Under(rel, j + n)}
  BY <1>4, <1>5 DEF bad
<1>7. k + n = Len(path) - 1 /\ j + n = Len(rel) - 1 /\ d \in 1..d /\ Len(path) # 0 /\ Len(rel) # 0
  BY <1>1
<1>8. path # <<>> /\ rel # <<>>
  BY <1>7
<1>9. path[Len(path)] = rel[Len(rel)]
  BY <1>7
<1>10. RealPath(made, Front(path)) = {Root \o Front(rel)}
  BY <1>6, <1>7, <1>8, PathEnds, UnderFront
<1>11. Last(path) = Last(rel)
  BY <1>8, <1>9, PathEnds
<1>. QED BY <1>8, <1>10, <1>11 DEF SameEntry

(* What is left of a path after some of its components.                    *)
LEMMA RestIs ==
  ASSUME NEW p \in Paths, NEW k \in 0..Len(p)
  PROVE  /\ SubSeq(p, k + 1, Len(p)) \in Paths /\ Len(SubSeq(p, k + 1, Len(p))) = Len(p) - k
         /\ \A i \in 1..Len(p) - k : SubSeq(p, k + 1, Len(p))[i] = p[k + i]
<1>1. Len(p) \in Nat /\ k \in Nat /\ k <= Len(p) /\ p \in Seq(Names)
  BY WholePart DEF Paths
<1>2. SubSeq(p, k + 1, Len(p)) = [i \in 1..Len(p) - k |-> p[k + i]]
  <2>1. SubSeq(p, k + 1, Len(p)) = [i \in 1..1 + Len(p) - (k + 1) |-> p[k + 1 + i - 1]]
    BY <1>1
  <2>2. 1 + Len(p) - (k + 1) = Len(p) - k /\ \A i \in 1..Len(p) - k : k + 1 + i - 1 = k + i
    BY <1>1
  <2>. QED BY <2>1, <2>2
<1>3. \A i \in 1..Len(p) - k : k + i \in 1..Len(p)
  BY <1>1
<1>4. [i \in 1..Len(p) - k |-> p[k + i]] \in [1..Len(p) - k -> Names]
  BY <1>1, <1>3
<1>5. Len(p) - k \in Nat
  BY <1>1
<1>. QED BY <1>2, <1>4, <1>5 DEF Paths

(* What is below a directory by its text.                                  *)
LEMMA BelowIs ==
  ASSUME NEW p \in Paths, NEW rel \in Below(Root, p)
  PROVE  /\ rel \in Paths /\ p = Root \o rel /\ Part(p, Len(Root)) = Root
         /\ Len(p) = Len(Root) + Len(rel) /\ Len(Root) \in 0..Len(p)
         /\ \A i \in 1..Len(rel) : p[Len(Root) + i] = rel[i]
<1> DEFINE r == Len(Root)
<1>1. Root \in Paths /\ r \in Nat /\ Len(p) \in Nat
  BY PathsTyped, WholePart
<1>2. IsPrefix(Root, p) /\ rel = SubSeq(p, r + 1, Len(p))
  BY DEF Below
<1>3. r <= Len(p) /\ Part(Root, r) = Part(p, r)
  BY <1>2 DEF IsPrefix, Part
<1>4. r \in 0..Len(p)
  BY <1>1, <1>3
<1>5. rel \in Paths /\ Len(rel) = Len(p) - r /\ \A i \in 1..Len(p) - r : rel[i] = p[r + i]
  BY <1>2, <1>4, RestIs
<1>6. Part(p, r) = Root
  BY <1>1, <1>3, WholePart
<1>7. \A i \in 1..r : p[i] = Root[i]
  BY <1>4, <1>6, Parts
<1>8. p = Root \o rel
  <2> DEFINE q == Root \o rel
  <2>1. /\ q \in Paths /\ Len(q) = r + Len(rel)
        /\ (\A i \in 1..r : q[i] = Root[i]) /\ \A i \in 1..Len(rel) : q[r + i] = rel[i]
    BY <1>1, <1>5, JoinedPaths
  <2> HIDE DEF q, r
  <2>2. Len(q) = Len(p)
    BY <1>1, <1>4, <1>5, <2>1
  <2>3. \A i \in 1..Len(p) : p[i] = q[i]
    <3> TAKE i \in 1..Len(p)
    <3>1. CASE i \in 1..r
      BY <1>7, <2>1, <3>1
    <3>2. CASE i \notin 1..r
      <4>1. i - r \in 1..Len(p) - r /\ i - r \in 1..Len(rel) /\ r + (i - r) = i
        BY <1>1, <1>4, <1>5, <3>2
      <4>. QED BY <1>5, <2>1, <4>1
    <3>. QED BY <3>1, <3>2
  <2>4. p = q
    BY <2>1, <2>2, <2>3, PathEqual
  <2>. QED BY <2>4 DEF q
<1>. QED BY <1>1, <1>3, <1>4, <1>5, <1>6, <1>8

(* A path taken by its text.                                               *)
LEMMA TextNamesOne ==
  ASSUME NEW made, IsTree(made), Kind(made, Root) = "dir",
         NEW path \in Paths, NEW rel \in Below(Root, path), RelativePath(rel), WayOfDirs(made, rel)
  PROVE  path # <<>> /\ SameEntry(made, path, rel)
<1> DEFINE r == Len(Root)
           d == Len(rel)
<1>1. /\ rel \in Paths /\ Part(path, r) = Root /\ Len(path) = r + d
      /\ \A i \in 1..d : path[r + i] = rel[i]
  BY BelowIs
<1>2. Root \in Paths /\ r \in Nat /\ d \in Nat /\ d >= 1
  BY <1>1, PathsTyped, WholePart, EmptySeq DEF RelativePath, Paths
<1>3. RealPath(made, Part(path, r)) = {Under(rel, 0)}
  BY <1>1, <1>2, RealIsItself, UnderEnds
<1> HIDE DEF r, d
<1>4. Len(rel) = 0 + d /\ \A i \in 1..d : path[r + i] = rel[0 + i]
  BY <1>1, <1>2 DEF d
<1>5. 0 \in Nat /\ Len(path) = r + d
  BY <1>1
<1>. QED BY <1>1, <1>2, <1>3, <1>4, <1>5, LeadsOn

(* A path taken from where a part of it turns out to be the root.          *)
LEMMA RootOnTheWay ==
  ASSUME NEW fs, IsTree(fs), NEW made, IsTree(made), Grown(fs, made),
         NEW path \in Paths, NEW k \in 0..Len(path), RealPath(fs, Part(path, k)) = {Root},
         NEW rel \in {SubSeq(path, k + 1, Len(path))}, RelativePath(rel), WayOfDirs(made, rel)
  PROVE  path # <<>> /\ SameEntry(made, path, rel)
<1> DEFINE d == Len(rel)
<1>1. /\ rel \in Paths /\ d = Len(path) - k
      /\ \A i \in 1..Len(path) - k : rel[i] = path[k + i]
  BY RestIs
<1>2. k \in Nat /\ Len(path) \in Nat /\ d \in Nat /\ d >= 1
  BY <1>1, WholePart, EmptySeq DEF RelativePath, Paths
<1>3. Part(path, k) \in Paths
  BY Parts
<1>4. RealPath(made, Part(path, k)) = {Root}
  BY <1>3, GrownLeadsTheSame
<1>5. RealPath(made, Part(path, k)) = {Under(rel, 0)}
  BY <1>1, <1>4, UnderEnds
<1>6. Len(path) = k + d /\ \A i \in 1..d : path[k + i] = rel[0 + i]
  BY <1>1, <1>2
<1> HIDE DEF d
<1>7. Len(rel) = 0 + d /\ 0 \in Nat
  BY <1>2 DEF d
<1>. QED BY <1>1, <1>2, <1>5, <1>6, <1>7, LeadsOn

(* Nothing but a link can change where a part of the root's own path       *)
(* leads.                                                                  *)
LEMMA NextOfRoot ==
  ASSUME NEW fs, IsTree(fs), Kind(fs, Root) = "dir", NEW m \in 1..Len(Root)
  PROVE  Entered(fs, Part(Root, m - 1), Root[m]) = {Part(Root, m)}
<1> DEFINE at == Part(Root, m - 1)
           next == Part(Root, m)
           name == Root[m]
<1>1. Root \in Paths /\ Len(Root) \in Nat
  BY PathsTyped, WholePart
<1>2. Append(at, name) = next /\ name \in Names
  BY <1>1, PartSteps
<1>3. m - 1 \in 0..Len(Root) - 1 /\ (m = Len(Root) \/ m \in 0..Len(Root) - 1)
  BY <1>1
<1>4. Kind(fs, at) = "dir" /\ name # Up
  BY <1>1, <1>3, AncestorsAreDirs
<1>5. Kind(fs, next) = "dir"
  <2>1. Part(Root, Len(Root)) = Root
    BY <1>1, WholePart
  <2>. QED BY <1>1, <1>3, <2>1, AncestorsAreDirs
<1> HIDE DEF at, next, name
<1>6. Kind(fs, Append(at, name)) \in {"dir", "file"}
  BY <1>2, <1>5
<1>7. Entered(fs, at, name) = {Append(at, name)}
  BY <1>4, <1>6, EnterPlain
<1>. QED BY <1>2, <1>7 DEF at, next, name

(* The root leads to itself.                                               *)
LEMMA RootWithMissingTail ==
  ASSUME NEW fs, IsTree(fs), Kind(fs, Root) = "dir"
  PROVE  WithMissingTail(fs, Root) = {Root}
<1>1. Root \in Paths
  BY PathsTyped
<1>2. EntryKind(fs, Root) = "dir"
  <2>1. CASE Root = <<>>
    BY <2>1 DEF EntryKind
  <2>2. CASE Root # <<>>
    <3> DEFINE at == Front(Root)
    <3>1. at \in Paths /\ Append(at, Last(Root)) = Root
      BY <1>1, <2>2, PathEnds
    <3>2. Kind(fs, at) = "dir"
      BY <2>2, FoundInTree
    <3>3. RealPath(fs, at) = {at}
      BY <3>1, <3>2, RealIsItself
    <3>. QED BY <2>2, <3>1, <3>2, <3>3, EntryIs
  <2>. QED BY <2>1, <2>2
<1>3. RealPath(fs, Root) = {Root}
  BY <1>1, RealIsItself
<1>. QED BY <1>2, <1>3 DEF WithMissingTail

(* A path that leads to an entry, taken from where it leads.               *)
LEMMA ResolvedNamesOne ==
  ASSUME NEW fs, IsTree(fs), NEW path \in Paths, EntryKind(fs, path) \in {"dir", "file"},
         NEW at \in RealPath(fs, path), NEW rel \in Below(Root, at), RelativePath(rel)
  PROVE  path # <<>> /\ SameEntry(fs, path, rel)
<1>1. at \in Paths
  BY LeadsToOne
<1>2. rel \in Paths /\ at = Root \o rel /\ Root \in Paths /\ rel # <<>>
  BY <1>1, BelowIs, PathsTyped DEF RelativePath
<1>3. at # <<>> /\ Front(at) = Root \o Front(rel) /\ Last(at) = Last(rel)
  <2> DEFINE n == Len(rel)
  <2>1. n \in Nat /\ n \in 1..n /\ Last(rel) = rel[n]
    BY <1>2, PathEnds
  <2>2. /\ Under(rel, n) # <<>> /\ Last(Under(rel, n)) = rel[n]
        /\ Front(Under(rel, n)) = Under(rel, n - 1)
    BY <1>2, <2>1, UnderSteps
  <2>3. Under(rel, n) = at /\ Under(rel, n - 1) = Root \o Front(rel)
    BY <1>2, UnderEnds, UnderFront
  <2>. QED BY <2>1, <2>2, <2>3
<1>4. path # <<>>
  <2>1. RealPath(fs, <<>>) = {<<>>}
    BY RealSteps, WholePart
  <2>. QED BY <1>3, <2>1
<1> DEFINE front == RealPath(fs, Front(path))
           n == Len(path)
           name == Last(path)
<1>5. /\ n \in 1..n /\ Part(path, n) = path /\ Front(path) = Part(path, n - 1) /\ name = path[n]
      /\ Front(path) \in Paths /\ name \in Names
  BY <1>4, PathEnds, WholePart
<1>6. RealPath(fs, path) = Reached(fs, front, name) /\ front \in SUBSET Paths
  <2>1. RealPath(fs, Part(path, n)) = Reached(fs, RealPath(fs, Part(path, n - 1)), path[n])
    BY <1>5, RealSteps
  <2>. QED BY <1>5, <2>1, LeadsToOne
<1>7. \A x, y \in front : x = y
  BY <1>5, LeadsToOne
<1> HIDE DEF front, name
<1>8. PICK x \in front : at \in Entered(fs, x, name)
  BY <1>5, <1>6, ReachedIs
<1>9. front = {x} /\ x \in Paths
  BY <1>6, <1>7, <1>8
<1>10. Kind(fs, x) = "dir"
  BY <1>8, EnteredCases
<1>11. EntryKind(fs, path) = Kind(fs, Append(x, name))
  BY <1>4, <1>9, <1>10, EntryIs DEF front, name
<1>12. Append(x, name) # <<>> /\ Last(Append(x, name)) = name /\ Front(Append(x, name)) = x
  BY <1>5, <1>9, AppendProperties DEF Paths, Front, Last
<1>13. Kind(fs, Append(x, name)) \in {"dir", "file"} /\ name # Up
  BY <1>11, <1>12, FoundInTree
<1>14. at = Append(x, name)
  BY <1>8, <1>10, <1>13, EnterPlain
<1>. QED BY <1>3, <1>4, <1>9, <1>12, <1>14 DEF SameEntry, front, name

(* A set of numbers up to a bound that is not empty has a greatest one.    *)
LEMMA GreatestOne ==
  ASSUME NEW n \in Nat, NEW S \in SUBSET (0..n), S # {}
  PROVE  \E k \in S : \A j \in S : j <= k
<1> DEFINE R == {m \in 0..n : n - m \in S}
<1>0. R \in SUBSET (0..n)
  OBVIOUS
<1>1. R # {}
  <2>1. PICK j \in S : TRUE
    OBVIOUS
  <2> DEFINE i == n - j
  <2>2. i \in 0..n /\ n - i = j
    BY <2>1
  <2>3. n - i \in S
    BY <2>1, <2>2
  <2> HIDE DEF i
  <2>4. i \in R
    BY <2>2, <2>3
  <2>. QED BY <2>4
<1> HIDE DEF R
<1>2. PICK m \in R : \A i \in R : m <= i
  <2>1. R \in SUBSET Nat
    BY <1>0
  <2>. QED BY <1>1, <2>1, LeastOne
<1>3. n - m \in S /\ m \in 0..n
  BY <1>2 DEF R
<1>4. ASSUME NEW j \in S
      PROVE  j <= n - m
  <2>1. j \in 0..n /\ n - j \in 0..n /\ n - (n - j) = j
    OBVIOUS
  <2>2. n - j \in R
    BY <2>1 DEF R
  <2>3. m <= n - j
    BY <1>2, <2>2
  <2>. QED BY <1>3, <2>1, <2>3
<1>. QED BY <1>3, <1>4

(* The lengths of the parts of a path that lead somewhere.                 *)
Resolved(fs, path) == {k \in 0..Len(path) - 1 : RealPath(fs, Part(path, k)) # {}}

(* The greatest of a set of lengths.                                       *)
Longest(S) == CHOOSE k \in S : \A j \in S : j <= k

(* Where there is no directory and no file, the longest part that leads    *)
(* somewhere and the rest of the path.                                     *)
LEMMA MissingTailIs ==
  ASSUME NEW fs, IsTree(fs), NEW path \in Paths, EntryKind(fs, path) \notin {"dir", "file"},
         NEW at \in WithMissingTail(fs, path)
  PROVE  \E k \in 0..Len(path) - 1 : \E x \in Paths :
           /\ RealPath(fs, Part(path, k)) = {x}
           /\ at = x \o SubSeq(path, k + 1, Len(path))
           /\ k + 1 <= Len(path) - 1 => RealPath(fs, Part(path, k + 1)) = {}
<1> DEFINE S == Resolved(fs, path)
           k == Longest(S)
           n == Len(path)
<1>1. path # <<>>
  BY DEF EntryKind
<1>2. n \in Nat /\ n - 1 \in Nat
  BY <1>1, PathEnds
<1>3. S \in SUBSET (0..n - 1) /\ S # {}
  <2>1. 0 \in 0..n - 1 /\ RealPath(fs, Part(path, 0)) # {}
    BY <1>2, RealSteps
  <2>. QED BY <2>1 DEF Resolved
<1> HIDE DEF S
<1>4. k \in S /\ \A j \in S : j <= k
  BY <1>2, <1>3, GreatestOne DEF Longest
<1>5. at \in {y \o SubSeq(path, k + 1, Len(path)) : y \in RealPath(fs, Part(path, k))}
  BY DEF WithMissingTail, S, Resolved, Longest, Part
<1> HIDE DEF k
<1>6. k \in 0..n - 1 /\ k \in 0..n
  BY <1>2, <1>3, <1>4
<1>7. PICK x \in RealPath(fs, Part(path, k)) : at = x \o SubSeq(path, k + 1, Len(path))
  BY <1>5
<1>8. Part(path, k) \in Paths
  BY <1>6, Parts
<1>9. RealPath(fs, Part(path, k)) = {x} /\ x \in Paths
  BY <1>7, <1>8, LeadsToOne
<1>10. k + 1 <= n - 1 => RealPath(fs, Part(path, k + 1)) = {}
  <2> DEFINE l == k + 1
  <2>1. l \notin S /\ (l <= n - 1 => l \in 0..n - 1)
    <3>1. ~(l <= k)
      BY <1>6
    <3>. QED BY <1>2, <1>4, <1>6, <3>1
  <2> HIDE DEF l
  <2>2. l <= n - 1 => RealPath(fs, Part(path, l)) = {}
    BY <2>1 DEF S, Resolved
  <2>. QED BY <2>2 DEF l
<1>. QED BY <1>6, <1>7, <1>9, <1>10

(* A path of which the end is missing, taken from where the rest leads.    *)
LEMMA MissingTailNamesOne ==
  ASSUME NEW fs, IsTree(fs), Kind(fs, Root) = "dir", NEW made, IsTree(made), Grown(fs, made),
         NEW path \in Paths, EntryKind(fs, path) \notin {"dir", "file"},
         NEW at \in WithMissingTail(fs, path), NEW rel \in Below(Root, at), RelativePath(rel),
         WayOfDirs(made, rel)
  PROVE  path # <<>> /\ SameEntry(made, path, rel)
<1> DEFINE r == Len(Root)
           n == Len(path)
<1>1. PICK k \in 0..n - 1, x \in Paths :
        /\ RealPath(fs, Part(path, k)) = {x}
        /\ at = x \o SubSeq(path, k + 1, n)
        /\ k + 1 <= n - 1 => RealPath(fs, Part(path, k + 1)) = {}
  BY MissingTailIs
<1> DEFINE tail == SubSeq(path, k + 1, n)
           d == Len(tail)
           c == Len(x)
           e == Len(rel)
<1>2. n \in Nat /\ k \in 0..n /\ Root \in Paths /\ r \in Nat /\ c \in Nat /\ k \in Nat
  <2>1. n \in Nat /\ Root \in Paths /\ r \in Nat /\ c \in Nat
    BY WholePart, PathsTyped
  <2>. QED BY <2>1
<1>3. tail \in Paths /\ d = n - k /\ \A i \in 1..n - k : tail[i] = path[k + i]
  BY <1>2, RestIs
<1> HIDE DEF tail
<1>4. /\ at \in Paths /\ Len(at) = c + d
      /\ (\A i \in 1..c : at[i] = x[i]) /\ \A i \in 1..d : at[c + i] = tail[i]
  BY <1>1, <1>3, JoinedPaths DEF tail
<1>5. /\ rel \in Paths /\ at = Root \o rel /\ Len(at) = r + e
      /\ \A i \in 1..e : at[r + i] = rel[i]
  BY <1>4, BelowIs
<1>6. \A i \in 1..r : at[i] = Root[i]
  BY <1>2, <1>5, JoinedPaths
<1>7. e \in Nat /\ e >= 1 /\ d \in Nat /\ d >= 1
  <2>1. e \in Nat /\ e >= 1
    BY <1>5, WholePart, EmptySeq DEF RelativePath, Paths
  <2>. QED BY <1>2, <1>3, <2>1
<1> HIDE DEF d, c, e, r, n
<1>8. CASE d <= e
  <2> DEFINE j == e - d
  <2>1. j \in Nat /\ c = r + j /\ e = j + d /\ n = k + d
    BY <1>2, <1>3, <1>4, <1>5, <1>7, <1>8
  <2> HIDE DEF j
  <2>2. x = Under(rel, j)
    <3>1. j \in 0..Len(rel)
      BY <1>7, <2>1 DEF e
    <3>2. /\ Under(rel, j) \in Paths /\ Len(Under(rel, j)) = r + j
          /\ \A i \in 1..r : Under(rel, j)[i] = Root[i]
          /\ \A i \in 1..j : Under(rel, j)[r + i] = rel[i]
      BY <1>5, <3>1, UnderIs DEF r
    <3> DEFINE u == Under(rel, j)
    <3> HIDE DEF u
    <3>3. /\ u \in Paths /\ Len(u) = r + j /\ (\A i \in 1..r : u[i] = Root[i])
          /\ \A i \in 1..j : u[r + i] = rel[i]
      BY <3>2 DEF u
    <3>4. ASSUME NEW i \in 1..c
          PROVE  x[i] = u[i]
      <4>1. at[i] = x[i]
        BY <1>4
      <4>2. CASE i \in 1..r
        BY <1>6, <3>3, <4>1, <4>2
      <4>3. CASE i \notin 1..r
        <5>1. i - r \in 1..j /\ i - r \in 1..e /\ r + (i - r) = i
          BY <1>2, <1>7, <2>1, <4>3
        <5>. QED BY <1>5, <3>3, <4>1, <5>1
      <4>. QED BY <4>2, <4>3
    <3>5. x = u
      BY <2>1, <3>3, <3>4, PathEqual DEF c
    <3>. QED BY <3>5 DEF u
  <2>3. \A i \in 1..d : path[k + i] = rel[j + i]
    <3> TAKE i \in 1..d
    <3>1. i \in 1..n - k /\ j + i \in 1..e /\ c + i = r + (j + i)
      BY <1>2, <1>3, <1>7, <2>1
    <3>2. at[c + i] = path[k + i] /\ at[r + (j + i)] = rel[j + i]
      BY <1>3, <1>4, <1>5, <3>1
    <3>. QED BY <3>1, <3>2
  <2>4. RealPath(made, Part(path, k)) = {Under(rel, j)}
    <3>1. Part(path, k) \in Paths
      BY <1>2, Parts DEF n
    <3>. QED BY <1>1, <2>2, <3>1, GrownLeadsTheSame
  <2>5. Len(path) = k + d /\ Len(rel) = j + d
    BY <2>1 DEF n, e
  <2>. QED BY <1>2, <1>5, <1>7, <2>1, <2>3, <2>4, <2>5, LeadsOn
<1>9. CASE ~(d <= e)
  <2> DEFINE m == c + 1
  <2>1. /\ m \in 1..r /\ m - 1 = c /\ k + 1 \in 1..n /\ k + 1 <= n - 1
        /\ 1 \in 1..d /\ 1 \in 1..n - k /\ m \in 1..r
    BY <1>2, <1>3, <1>4, <1>5, <1>7, <1>9
  <2>2. path[k + 1] = Root[m]
    BY <1>3, <1>4, <1>6, <2>1
  <2> HIDE DEF m
  <2>3. c \in 0..Len(Root)
    BY <1>2, <2>1 DEF r
  <2>4. x = Part(Root, c)
    <3> DEFINE u == Part(Root, c)
    <3>1. u \in Paths /\ Len(u) = c /\ \A i \in 1..c : u[i] = Root[i]
      BY <1>2, <2>3, Parts
    <3> HIDE DEF u
    <3>2. \A i \in 1..c : x[i] = u[i]
      <4> TAKE i \in 1..c
      <4>1. i \in 1..r
        BY <1>2, <2>1
      <4>. QED BY <1>4, <1>6, <3>1, <4>1
    <3>3. x = u
      BY <3>1, <3>2, PathEqual DEF c
    <3>. QED BY <3>3 DEF u
  <2> DEFINE l == k + 1
  <2>5. l - 1 = k /\ l \in 1..n /\ RealPath(fs, Part(path, l)) = {} /\ path[l] = Root[m]
    BY <1>1, <1>2, <2>1, <2>2 DEF n
  <2> HIDE DEF l
  <2>6. RealPath(fs, Part(path, l)) = Reached(fs, {x}, Root[m])
    <3>1. RealPath(fs, Part(path, l)) = Reached(fs, RealPath(fs, Part(path, l - 1)), path[l])
      BY <2>5, RealSteps DEF n
    <3>. QED BY <1>1, <2>5, <3>1
  <2>7. Entered(fs, Part(Root, m - 1), Root[m]) # {}
    <3>1. m \in 1..Len(Root)
      BY <2>1 DEF r
    <3>. QED BY <3>1, NextOfRoot
  <2>8. Entered(fs, x, Root[m]) = {}
    BY <2>5, <2>6, ReachedFromOne
  <2>. QED BY <2>1, <2>4, <2>7, <2>8
<1>. QED BY <1>8, <1>9

(***************************************************************************)
(* What a path is by its text                                              *)
(***************************************************************************)

(* One more component of a path that is normalised.                        *)
LEMMA LexicallyIs ==
  ASSUME NEW out \in Paths, NEW name \in Names
  PROVE  Lexically(out, name) \in Paths /\ (name # Up => Lexically(out, name) = Append(out, name))
<1>1. CASE name # Up
  BY <1>1 DEF Lexically, Paths
<1>2. CASE name = Up
  BY <1>2, PathEnds DEF Lexically
<1>. QED BY <1>1, <1>2

(* Normalising a path takes one component after the other.                 *)
LEMMA NormalizingIs ==
  ASSUME NEW path \in Paths
  PROVE  /\ Normalizing(path) \in [0..Len(path) -> Paths]
         /\ Normalizing(path)[0] = <<>>
         /\ \A k \in 1..Len(path) :
              Normalizing(path)[k] = Lexically(Normalizing(path)[k - 1], path[k])
<1> DEFINE n == Len(path)
           Outcome(w) == [k \in 0..n |-> IF k = 0 THEN <<>> ELSE Lexically(w[k - 1], path[k])]
           step == [k \in 1..n |-> [out \in Paths |-> Lexically(out, path[k])]]
<1>1. n \in Nat /\ \A k \in 1..n : path[k] \in Names
  BY DEF Paths
<1>2. <<>> \in Paths
  BY DEF Paths
<1>3. \A k \in 1..n : \A out \in Paths : Lexically(out, path[k]) \in Paths
  BY <1>1, LexicallyIs
<1>4. step \in [1..n -> [Paths -> Paths]]
  BY <1>3
<1>5. PICK g \in [0..n -> Paths] : Recurs(g, <<>>, n, step)
  <2> HIDE DEF step
  <2>. QED BY <1>1, <1>2, <1>4, RecursionExists
<1>6. g = Outcome(g)
  <2>1. g[0] = <<>> /\ \A k \in 1..n : g[k] = step[k][g[k - 1]]
    BY <1>5 DEF Recurs
  <2>2. \A k \in 1..n : g[k] = Lexically(g[k - 1], path[k])
    <3> TAKE k \in 1..n
    <3>1. k - 1 \in 0..n
      BY <1>1
    <3>2. g[k - 1] \in Paths
      BY <1>5, <3>1
    <3>3. step[k][g[k - 1]] = Lexically(g[k - 1], path[k])
      BY <3>2
    <3>. QED BY <2>1, <3>3
  <2>3. \A k \in 0..n : k # 0 => k \in 1..n
    BY <1>1
  <2>4. \A k \in 0..n : g[k] = Outcome(g)[k]
    BY <2>1, <2>2, <2>3
  <2>. QED BY <1>5, <2>4
<1>7. Normalizing(path) = CHOOSE w : w = Outcome(w)
  BY DEF Normalizing
<1>8. Normalizing(path) = Outcome(Normalizing(path))
  <2> HIDE DEF Outcome
  <2>. QED BY <1>6, <1>7, Zenon
<1> DEFINE w == Normalizing(path)
<1> HIDE DEF w
<1>9. w = [k \in 0..n |-> IF k = 0 THEN <<>> ELSE Lexically(w[k - 1], path[k])]
  BY <1>8 DEF w
<1>10. w[0] = <<>> /\ \A k \in 1..n : w[k] = Lexically(w[k - 1], path[k])
  <2>1. 0 \in 0..n /\ \A k \in 1..n : k \in 0..n /\ k # 0
    BY <1>1
  <2>. QED BY <1>9, <2>1
<1>11. \A k \in 0..n : w[k] \in Paths
  <2> DEFINE bad == {k \in 0..n : w[k] \notin Paths}
  <2>1. 0 \notin bad
    BY <1>2, <1>10
  <2>2. \A k \in 0..n - 1 : k \notin bad => k + 1 \notin bad
    <3> TAKE k \in 0..n - 1
    <3> HAVE k \notin bad
    <3>1. k \in 0..n /\ k + 1 \in 1..n /\ k + 1 - 1 = k
      BY <1>1
    <3>2. w[k + 1] = Lexically(w[k], path[k + 1])
      BY <1>10, <3>1
    <3>3. w[k] \in Paths /\ path[k + 1] \in Names
      BY <1>1, <3>1
    <3>4. Lexically(w[k], path[k + 1]) \in Paths
      BY <3>3, LexicallyIs
    <3>5. w[k + 1] \in Paths
      BY <3>2, <3>4
    <3>. QED BY <3>5
  <2>3. bad \in SUBSET (0..n)
    OBVIOUS
  <2> HIDE DEF bad
  <2>4. bad = {}
    BY <1>1, <2>1, <2>2, <2>3, Stages
  <2>. QED BY <2>4 DEF bad
<1>12. DOMAIN w = 0..n /\ w = [k \in DOMAIN w |-> w[k]]
  BY <1>9
<1>13. w \in [0..n -> Paths]
  BY <1>11, <1>12
<1>. QED BY <1>10, <1>13 DEF w

(* What is normalised is a path.                                           *)
LEMMA NormalizedIs ==
  ASSUME NEW path \in Paths
  PROVE  Normalized(path) \in Paths
<1>1. Len(path) \in 0..Len(path)
  BY WholePart
<1>. QED BY <1>1, NormalizingIs DEF Normalized

(***************************************************************************)
(* The names of an entry                                                   *)
(***************************************************************************)

(* A path that is accepted names one entry, in the tree with what has been *)
(* made of it.                                                             *)
LEMMA AcceptedNamesOne ==
  ASSUME NEW fs, IsTree(fs), Kind(fs, Root) = "dir",
         NEW made, IsTree(made), Grown(fs, made), Kind(made, Root) = "dir",
         NEW path \in Paths, NEW rel \in Accepted(fs, path), ParentValid(made, rel), rel \in Paths
  PROVE  path # <<>> /\ SameEntry(made, path, rel)
<1>1. RelativePath(rel) /\ (rel \in RepoRelative(fs, path) \/ rel \in TrustedRelative(fs, path))
  BY DEF Accepted
<1>2. WayOfDirs(made, rel)
  BY ValidMeansDirs
<1>3. CASE rel \in Below(Root, path)
  BY <1>1, <1>2, <1>3, TextNamesOne
<1>4. CASE Below(Root, path) = {} /\ rel \in RepoRelative(fs, path)
  <2>1. RepoRelative(fs, path) = UNION {Below(root, at) : root \in {Root}, at \in WithMissingTail(fs, path)}
    BY <1>4, RootWithMissingTail DEF RepoRelative
  <2>2. PICK at \in WithMissingTail(fs, path) : rel \in Below(Root, at)
    BY <1>4, <2>1
  <2>3. CASE EntryKind(fs, path) \in {"dir", "file"}
    <3>1. at \in RealPath(fs, path)
      BY <2>2, <2>3 DEF WithMissingTail
    <3>2. path # <<>> /\ SameEntry(fs, path, rel)
      BY <1>1, <2>2, <2>3, <3>1, ResolvedNamesOne
    <3>3. RealPath(fs, Front(path)) = {Root \o Front(rel)} /\ Last(path) = Last(rel)
      BY <3>2 DEF SameEntry
    <3>4. Front(path) \in Paths
      BY <3>2, PathEnds
    <3>5. RealPath(fs, Front(path)) # {}
      BY <3>3
    <3>6. RealPath(made, Front(path)) = RealPath(fs, Front(path))
      BY <3>4, <3>5, GrownLeadsTheSame
    <3>. QED BY <3>2, <3>3, <3>6 DEF SameEntry
  <2>4. CASE EntryKind(fs, path) \notin {"dir", "file"}
    BY <1>1, <1>2, <2>2, <2>4, MissingTailNamesOne
  <2>. QED BY <2>3, <2>4
<1>5. CASE Below(Root, path) = {} /\ rel \in TrustedRelative(fs, path)
  <2>1. PICK k \in 0..Len(path) : /\ RealPath(fs, Part(path, k)) = {Root}
                                  /\ rel = SubSeq(path, k + 1, Len(path))
    BY <1>5 DEF TrustedRelative, Part
  <2>2. rel \in {SubSeq(path, k + 1, Len(path))}
    BY <2>1
  <2>. QED BY <1>1, <1>2, <2>1, <2>2, RootOnTheWay
<1>6. Below(Root, path) # {} => RepoRelative(fs, path) = Below(Root, path) /\ TrustedRelative(fs, path) = Below(Root, path)
  BY DEF RepoRelative, TrustedRelative
<1>. QED BY <1>1, <1>3, <1>4, <1>5, <1>6

(* What is accepted is a path.                                             *)
LEMMA AcceptedIs ==
  ASSUME NEW fs, IsTree(fs), Kind(fs, Root) = "dir", NEW path \in Paths, NEW rel \in Accepted(fs, path)
  PROVE  rel \in Paths /\ RelativePath(rel)
<1>1. RelativePath(rel) /\ (rel \in RepoRelative(fs, path) \/ rel \in TrustedRelative(fs, path))
  BY DEF Accepted
<1>2. CASE rel \in Below(Root, path)
  BY <1>1, <1>2, BelowIs
<1>3. CASE Below(Root, path) = {} /\ rel \in RepoRelative(fs, path)
  <2>1. RepoRelative(fs, path) = UNION {Below(root, at) : root \in {Root}, at \in WithMissingTail(fs, path)}
    BY <1>3, RootWithMissingTail DEF RepoRelative
  <2>2. PICK at \in WithMissingTail(fs, path) : rel \in Below(Root, at)
    BY <1>3, <2>1
  <2>3. at \in Paths
    <3>1. CASE EntryKind(fs, path) \in {"dir", "file"}
      <4>1. at \in RealPath(fs, path)
        BY <2>2, <3>1 DEF WithMissingTail
      <4>. QED BY <4>1, LeadsToOne
    <3>2. CASE EntryKind(fs, path) \notin {"dir", "file"}
      <4>1. PICK k \in 0..Len(path) - 1, x \in Paths :
              /\ RealPath(fs, Part(path, k)) = {x}
              /\ at = x \o SubSeq(path, k + 1, Len(path))
              /\ k + 1 <= Len(path) - 1 => RealPath(fs, Part(path, k + 1)) = {}
        BY <2>2, <3>2, MissingTailIs
      <4> DEFINE tail == SubSeq(path, k + 1, Len(path))
      <4>2. k \in 0..Len(path)
        BY WholePart
      <4>3. tail \in Paths
        BY <4>2, RestIs
      <4> HIDE DEF tail
      <4>4. x \o tail \in Paths
        BY <4>3, JoinedPaths
      <4>. QED BY <4>1, <4>4 DEF tail
    <3>. QED BY <3>1, <3>2
  <2>. QED BY <1>1, <2>2, <2>3, BelowIs
<1>4. CASE Below(Root, path) = {} /\ rel \in TrustedRelative(fs, path)
  <2>1. PICK k \in 0..Len(path) : rel = SubSeq(path, k + 1, Len(path))
    BY <1>4 DEF TrustedRelative
  <2>. QED BY <1>1, <2>1, RestIs
<1>5. Below(Root, path) # {} => RepoRelative(fs, path) = Below(Root, path) /\ TrustedRelative(fs, path) = Below(Root, path)
  BY DEF RepoRelative, TrustedRelative
<1>. QED BY <1>1, <1>2, <1>3, <1>4, <1>5

(* Whatever a user types, and however the root and links to it are         *)
(* spelled: a path that is accepted (repo_relative_path,                   *)
(* relative_path_in_trusted_root), and that passes the check before a      *)
(* write, names the one entry the user means, after the directories it     *)
(* lacks have been made as well.                                           *)
THEOREM NamesOneEntryHolds == NamesOneEntry
<1> SUFFICES ASSUME NEW fs \in Trees, NEW typed \in Typed,
                    NEW rel \in Accepted(fs, Normalized(typed)),
                    NEW made \in Ensured(fs, rel) \cup {fs}, ParentValid(made, rel)
             PROVE  SameEntry(made, Normalized(typed), rel)
  BY DEF NamesOneEntry
<1> DEFINE path == Normalized(typed)
<1>1. IsTree(fs) /\ Kind(fs, Root) = "dir" /\ path \in Paths
  BY PathsTyped, NormalizedIs
<1> HIDE DEF path
<1>2. rel \in Paths /\ RelativePath(rel)
  BY <1>1, AcceptedIs DEF path
<1>3. IsTree(made) /\ Grown(fs, made) /\ Kind(made, Root) = "dir"
  <2>1. CASE made \in Ensured(fs, rel)
    BY <1>1, <1>2, <2>1, EnsuredGrows
  <2>2. CASE made = fs
    BY <1>1, <2>2 DEF Grown, Kind
  <2>. QED BY <2>1, <2>2
<1>. QED BY <1>1, <1>2, <1>3, AcceptedNamesOne DEF path

(* Where nothing is a link, the system takes one component as the text     *)
(* does.                                                                   *)
LEMMA EnteredByText ==
  ASSUME NEW fs, IsTree(fs), \A p \in DOMAIN fs : fs[p].kind # "link",
         NEW at \in Paths, NEW name \in Names
  PROVE  Entered(fs, at, name) \subseteq {Lexically(at, name)}
<1> DEFINE next == Append(at, name)
<1>1. Kind(fs, next) # "link"
  BY DEF Kind
<1>2. CASE Kind(fs, at) # "dir"
  BY <1>2, EnteredCases
<1>3. CASE Kind(fs, at) = "dir" /\ name = Up
  BY <1>3, EnteredCases DEF Lexically
<1>4. CASE Kind(fs, at) = "dir" /\ name # Up
  <2>1. Entered(fs, at, name) = {} \/ Entered(fs, at, name) = {next}
    BY <1>1, <1>4, EnteredCases
  <2>. QED BY <1>4, <2>1 DEF Lexically
<1>. QED BY <1>2, <1>3, <1>4

(* Without links, taking `..` by the text leads where the system would go, *)
(* or to nothing (normalize_path).                                         *)
THEOREM DotsMeanTheSameHolds == DotsMeanTheSame
<1> SUFFICES ASSUME NEW fs \in Trees, \A p \in DOMAIN fs : fs[p].kind # "link", NEW typed \in Typed
             PROVE  RealPath(fs, typed) \subseteq {Normalized(typed)}
  BY DEF DotsMeanTheSame
<1> DEFINE n == Len(typed)
           out == Normalizing(typed)
           walk == Walk(fs, typed)
           bad == {k \in 0..n : ~(walk[k] \subseteq {out[k]})}
<1>1. IsTree(fs) /\ typed \in Paths
  BY PathsTyped
<1>2. n \in Nat /\ n \in 0..n
  BY <1>1, WholePart
<1>3. /\ walk \in [0..n -> SUBSET Paths] /\ walk[0] = {<<>>}
      /\ \A k \in 1..n : walk[k] = Reached(fs, walk[k - 1], typed[k])
  BY <1>1, WalkIs
<1>4. /\ out \in [0..n -> Paths] /\ out[0] = <<>>
      /\ \A k \in 1..n : out[k] = Lexically(out[k - 1], typed[k])
  BY <1>1, NormalizingIs
<1> HIDE DEF walk, out
<1>5. 0 \notin bad
  BY <1>3, <1>4
<1>6. \A k \in 0..n - 1 : k \notin bad => k + 1 \notin bad
  <2> TAKE k \in 0..n - 1
  <2> HAVE k \notin bad
  <2> DEFINE l == k + 1
             name == typed[l]
  <2>1. k \in 0..n /\ l \in 1..n /\ l - 1 = k
    BY <1>2
  <2>2. walk[k] \subseteq {out[k]}
    BY <2>1
  <2> HIDE DEF l
  <2>3. /\ walk[l] = Reached(fs, walk[k], name) /\ out[l] = Lexically(out[k], name)
        /\ out[k] \in Paths /\ name \in Names /\ walk[k] \in SUBSET Paths
    BY <1>1, <1>3, <1>4, <2>1, PartSteps
  <2> HIDE DEF name
  <2>4. Entered(fs, out[k], name) \subseteq {out[l]}
    BY <1>1, <2>3, EnteredByText
  <2>5. walk[l] \subseteq {out[l]}
    <3> SUFFICES ASSUME NEW x \in walk[l] PROVE x = out[l]
      OBVIOUS
    <3>1. PICK at \in walk[k] : x \in Entered(fs, at, name)
      BY <1>1, <2>3, ReachedIs
    <3>. QED BY <2>2, <2>4, <3>1
  <2>. QED BY <2>5 DEF l
<1>7. bad \in SUBSET (0..n)
  OBVIOUS
<1> HIDE DEF bad
<1>8. bad = {}
  BY <1>2, <1>5, <1>6, <1>7, Stages
<1>9. walk[n] \subseteq {out[n]}
  BY <1>2, <1>8 DEF bad
<1>. QED BY <1>9 DEF RealPath, Normalized, walk, out

(***************************************************************************)
(* What pruning takes                                                      *)
(***************************************************************************)

(* A path that starts with another one and goes on.                        *)
LEMMA StrictPrefixIs ==
  ASSUME NEW p \in Paths, NEW q \in Paths
  PROVE  IsStrictPrefix(p, q) <=> Len(p) < Len(q) /\ Part(q, Len(p)) = p
<1> DEFINE n == Len(p)
           m == Len(q)
<1>1. n \in Nat /\ m \in Nat /\ Part(p, n) = p /\ Part(q, m) = q
  BY WholePart
<1>2. IsStrictPrefix(p, q) <=> n <= m /\ Part(p, n) = Part(q, n) /\ p # q
  BY DEF IsStrictPrefix, IsPrefix, Part
<1> HIDE DEF n, m
<1>3. n = m /\ p = Part(q, n) => p = q
  BY <1>1
<1>4. p = q => n = m
  BY DEF n, m
<1>. QED BY <1>1, <1>2, <1>3, <1>4 DEF n, m

(* The parts of the way under the root.                                    *)
LEMMA UnderParts ==
  ASSUME NEW rel \in Paths, NEW k \in 0..Len(rel), NEW j \in 0..k
  PROVE  Part(Under(rel, k), Len(Root) + j) = Under(rel, j) /\ Len(Root) + j \in 0..Len(Under(rel, k))
<1> DEFINE r == Len(Root)
           n == r + j
           p == Under(rel, k)
           q == Under(rel, j)
           s == Part(p, n)
<1>1. r \in Nat /\ Len(rel) \in Nat /\ k \in Nat /\ j \in Nat /\ j <= k /\ j \in 0..Len(rel)
  BY PathsTyped, WholePart
<1>2. /\ p \in Paths /\ Len(p) = r + k /\ (\A i \in 1..r : p[i] = Root[i])
      /\ \A i \in 1..k : p[r + i] = rel[i]
  BY UnderIs
<1>3. /\ q \in Paths /\ Len(q) = n /\ (\A i \in 1..r : q[i] = Root[i])
      /\ \A i \in 1..j : q[r + i] = rel[i]
  BY <1>1, UnderIs
<1> HIDE DEF p, q, r
<1>4. n \in 0..Len(p)
  BY <1>1, <1>2
<1>5. s \in Paths /\ Len(s) = n /\ \A i \in 1..n : s[i] = p[i]
  BY <1>2, <1>4, Parts
<1> HIDE DEF s
<1>6. \A i \in 1..n : s[i] = q[i]
  <2> TAKE i \in 1..n
  <2>1. CASE i \in 1..r
    BY <1>2, <1>3, <1>5, <2>1
  <2>2. CASE i \notin 1..r
    <3>1. i - r \in 1..j /\ i - r \in 1..k /\ r + (i - r) = i
      BY <1>1, <2>2
    <3>. QED BY <1>2, <1>3, <1>5, <3>1
  <2>. QED BY <2>1, <2>2
<1>7. s = q
  BY <1>3, <1>5, <1>6, PathEqual
<1>. QED BY <1>4, <1>7 DEF p, q, r, s

(* The directories on the way are different ones.                          *)
LEMMA UnderDiffer ==
  ASSUME NEW rel \in Paths, NEW j \in 0..Len(rel), NEW k \in 0..Len(rel), Under(rel, j) = Under(rel, k)
  PROVE  j = k
<1>1. Len(Under(rel, j)) = Len(Root) + j /\ Len(Under(rel, k)) = Len(Root) + k
  BY UnderIs
<1>2. Len(Root) \in Nat
  BY PathsTyped, WholePart
<1>. QED BY <1>1, <1>2

(* Directories that go, with all that is in them, leave a tree.            *)
Lost(fs, gone) ==
  [p \in DOMAIN fs |-> IF p \in gone THEN [fs[p] EXCEPT !.kind = "missing"] ELSE fs[p]]

(* What is found after some directories have gone.                         *)
LEMMA LostIs ==
  ASSUME NEW fs, IsTree(fs), NEW gone
  PROVE  /\ DOMAIN Lost(fs, gone) = DOMAIN fs
         /\ \A at : Kind(Lost(fs, gone), at) = IF at \in gone THEN "missing" ELSE Kind(fs, at)
         /\ \A at \in DOMAIN fs : Lost(fs, gone)[at] \in [kind : {"missing", "file", "dir", "link"}, to : Paths]
<1> DEFINE Entries == [kind : {"missing", "file", "dir", "link"}, to : Paths]
           T == Lost(fs, gone)
<1>1. DOMAIN T = DOMAIN fs
  BY DEF Lost
<1>2. \A at \in DOMAIN fs : T[at] = IF at \in gone THEN [fs[at] EXCEPT !.kind = "missing"] ELSE fs[at]
  BY DEF Lost
<1>3. \A at \in DOMAIN fs : fs[at] \in Entries
  BY DEF IsTree
<1> HIDE DEF T
<1>4. \A e \in Entries : [e EXCEPT !.kind = "missing"] \in Entries /\ [e EXCEPT !.kind = "missing"].kind = "missing"
  OBVIOUS
<1> HIDE DEF Entries
<1>5. \A at \in DOMAIN fs : T[at] \in Entries /\ (at \in gone => T[at].kind = "missing")
  BY <1>2, <1>3, <1>4
<1>6. \A at : Kind(T, at) = IF at \in gone THEN "missing" ELSE Kind(fs, at)
  BY <1>1, <1>2, <1>5 DEF Kind
<1>. QED BY <1>1, <1>5, <1>6 DEF T, Entries

(* A tree stays one if, with a directory, all that is in it goes.          *)
LEMMA LostIsTree ==
  ASSUME NEW fs, IsTree(fs), NEW gone,
         \A p \in Paths : p # <<>> /\ Kind(fs, p) # "missing" /\ Front(p) \in gone => p \in gone
  PROVE  IsTree(Lost(fs, gone))
<1> DEFINE T == Lost(fs, gone)
           Entries == [kind : {"missing", "file", "dir", "link"}, to : Paths]
<1>1. /\ DOMAIN T = DOMAIN fs
      /\ \A at : Kind(T, at) = IF at \in gone THEN "missing" ELSE Kind(fs, at)
      /\ \A at \in DOMAIN fs : T[at] \in Entries
  BY LostIs
<1>2. T = [p \in DOMAIN T |-> T[p]]
  BY DEF Lost
<1> HIDE DEF T, Entries
<1>3. DOMAIN T \subseteq Paths /\ T \in [DOMAIN T -> Entries]
  BY <1>1, <1>2 DEF IsTree
<1>4. ASSUME NEW at \in DOMAIN T \ {<<>>}, T[at].kind # "missing"
      PROVE  Last(at) # Up /\ Kind(T, Front(at)) = "dir"
  <2>1. Kind(T, at) # "missing" /\ at \in Paths
    BY <1>3, <1>4 DEF Kind
  <2>2. at \notin gone /\ Kind(fs, at) # "missing"
    BY <1>1, <2>1
  <2>3. Last(at) # Up /\ Kind(fs, Front(at)) = "dir"
    BY <1>4, <2>2, FoundInTree
  <2>4. Front(at) \notin gone
    BY <1>4, <2>1, <2>2
  <2>. QED BY <1>1, <2>3, <2>4
<1>. QED BY <1>3, <1>4 DEF IsTree, T, Entries

(* The directories on the way that hold nothing but the way.               *)
GoneWay(fs, rel) ==
  {at \in Ancestors(rel) :
     {p \in DOMAIN fs : IsStrictPrefix(at, p) /\ fs[p].kind # "missing"} \subseteq Ancestors(rel)}

(* What lies in a directory of the way that goes is the way.               *)
LEMMA GoneHoldsTheWay ==
  ASSUME NEW fs, IsTree(fs), NEW rel \in Paths, NEW j \in 1..Len(rel) - 1,
         Under(rel, j) \in GoneWay(fs, rel),
         NEW p \in Paths, Kind(fs, p) # "missing", Len(p) > Len(Root) + j,
         Part(p, Len(Root) + j) = Under(rel, j)
  PROVE  \E i \in j + 1..Len(rel) - 1 : p = Under(rel, i)
<1>1. j \in 0..Len(rel) /\ Len(rel) \in Nat /\ Len(Root) \in Nat
  BY PathsTyped, WholePart
<1>2. Under(rel, j) \in Paths /\ Len(Under(rel, j)) = Len(Root) + j
  BY <1>1, UnderIs
<1>3. IsStrictPrefix(Under(rel, j), p)
  <2>1. Len(Under(rel, j)) < Len(p) /\ Part(p, Len(Under(rel, j))) = Under(rel, j)
    BY <1>1, <1>2, WholePart
  <2>. QED BY <1>2, <2>1, StrictPrefixIs
<1>4. p \in DOMAIN fs /\ fs[p].kind # "missing"
  BY FoundInTree
<1>5. p \in Ancestors(rel)
  BY <1>3, <1>4 DEF GoneWay
<1>6. PICK i \in 1..Len(rel) - 1 : p = Under(rel, i)
  BY <1>5, AncestorsAre
<1>7. i \in 0..Len(rel)
  BY <1>1
<1>8. Len(p) = Len(Root) + i
  BY <1>6, <1>7, UnderIs
<1>9. i \in j + 1..Len(rel) - 1
  BY <1>1, <1>8
<1>. QED BY <1>6, <1>9

(* If a directory of the way holds nothing but the way, so does the next   *)
(* one.                                                                    *)
LEMMA GoneGoesOn ==
  ASSUME NEW fs, IsTree(fs), NEW rel \in Paths, NEW j \in 1..Len(rel) - 2,
         Under(rel, j) \in GoneWay(fs, rel)
  PROVE  Under(rel, j + 1) \in GoneWay(fs, rel)
<1> DEFINE l == j + 1
           n == Len(rel)
           r == Len(Root)
<1>1. /\ n \in Nat /\ r \in Nat /\ l \in 1..n - 1 /\ l \in 0..n
      /\ j \in 0..l /\ j \in 1..n - 1 /\ j \in Nat /\ l = j + 1
  BY PathsTyped, WholePart
<1> HIDE DEF l
<1>2. Under(rel, l) \in Ancestors(rel)
  BY <1>1, AncestorsAre
<1>3. ASSUME NEW p \in DOMAIN fs, IsStrictPrefix(Under(rel, l), p), fs[p].kind # "missing"
      PROVE  p \in Ancestors(rel)
  <2>1. p \in Paths /\ Kind(fs, p) # "missing" /\ Len(p) \in Nat
    BY <1>3, TreeIs, WholePart
  <2>2. Under(rel, l) \in Paths /\ Len(Under(rel, l)) = r + l
    BY <1>1, UnderIs
  <2>3. r + l < Len(p) /\ Part(p, r + l) = Under(rel, l)
    BY <1>3, <2>1, <2>2, StrictPrefixIs
  <2>4. Part(Under(rel, l), r + j) = Under(rel, j)
    BY <1>1, UnderParts
  <2>5. r + l \in 0..Len(p) /\ r + j \in 0..r + l /\ Len(p) > r + j
    BY <1>1, <2>1, <2>3
  <2>6. Part(Part(p, r + l), r + j) = Part(p, r + j)
    BY <2>1, <2>5, Parts
  <2>7. Part(p, r + j) = Under(rel, j)
    BY <2>3, <2>4, <2>6
  <2>8. PICK i \in j + 1..n - 1 : p = Under(rel, i)
    BY <1>1, <2>1, <2>5, <2>7, GoneHoldsTheWay
  <2>9. i \in 1..n - 1
    BY <1>1
  <2>. QED BY <2>8, <2>9, AncestorsAre
<1>4. Under(rel, l) \in GoneWay(fs, rel)
  BY <1>2, <1>3 DEF GoneWay
<1>. QED BY <1>4 DEF l

(* After the k innermost directories of the way have been looked at.       *)
GoneSoFar(fs, rel, k) ==
  {at \in GoneWay(fs, rel) : \E j \in Len(rel) - k..Len(rel) - 1 : at = Under(rel, j)}

(* Pruning has found no directory yet that holds something else.           *)
StillGoing(fs, rel, k) == k = 0 \/ Under(rel, Len(rel) - k) \in GoneWay(fs, rel)

(* What pruning has come to after k directories.                           *)
PrunedSoFar(fs, rel, k) ==
  [tree |-> Lost(fs, GoneSoFar(fs, rel, k)), going |-> StillGoing(fs, rel, k)]

(* The directories of the way that have gone are the innermost ones.       *)
LEMMA GoneSoFarIs ==
  ASSUME NEW fs, NEW rel \in Paths, NEW k \in 0..Len(rel) - 1, NEW j \in 0..Len(rel) - 1
  PROVE  Under(rel, j) \in GoneSoFar(fs, rel, k) <=> j >= Len(rel) - k /\ Under(rel, j) \in GoneWay(fs, rel)
<1> DEFINE n == Len(rel)
<1>1. n \in Nat /\ j \in 0..n
  BY WholePart
<1>2. ASSUME NEW i \in n - k..n - 1, Under(rel, j) = Under(rel, i)
      PROVE  j >= n - k
  <2>1. i \in 0..n
    BY <1>1
  <2>2. i = j
    BY <1>1, <1>2, <2>1, UnderDiffer
  <2>. QED BY <1>1, <2>2
<1>3. j >= n - k => j \in n - k..n - 1
  BY <1>1
<1>. QED BY <1>2, <1>3 DEF GoneSoFar

(* What lies in a directory that has gone has gone before.                 *)
LEMMA GoneSoFarIsAll ==
  ASSUME NEW fs, IsTree(fs), NEW rel \in Paths, NEW k \in 0..Len(rel) - 1,
         NEW p \in Paths, p # <<>>, Kind(fs, p) # "missing", Front(p) \in GoneSoFar(fs, rel, k)
  PROVE  p \in GoneSoFar(fs, rel, k)
<1> DEFINE n == Len(rel)
           r == Len(Root)
<1>1. n \in Nat /\ r \in Nat
  BY PathsTyped, WholePart
<1>2. PICK j \in n - k..n - 1 : Front(p) = Under(rel, j) /\ Under(rel, j) \in GoneWay(fs, rel)
  BY DEF GoneSoFar
<1>3. j \in 0..n
  BY <1>1
<1>4. PICK i \in 1..n - 1 : Under(rel, j) = Under(rel, i)
  BY <1>2, AncestorsAre DEF GoneWay
<1>5. i \in 0..n
  BY <1>1
<1>6. j = i /\ j \in 1..n - 1
  BY <1>3, <1>4, <1>5, UnderDiffer
<1>7. Len(p) \in Nat /\ Front(p) = Part(p, Len(p) - 1) /\ Len(p) - 1 \in 0..Len(p)
  BY PathEnds
<1>8. Len(Front(p)) = Len(p) - 1 /\ Len(Under(rel, j)) = r + j
  BY <1>3, <1>7, Parts, UnderIs
<1>9. Len(p) > r + j /\ Part(p, r + j) = Under(rel, j)
  BY <1>1, <1>2, <1>6, <1>7, <1>8
<1>10. PICK m \in j + 1..n - 1 : p = Under(rel, m)
  BY <1>1, <1>2, <1>6, <1>9, GoneHoldsTheWay
<1>11. m \in 0..n /\ m \in 0..n - 1 /\ m >= n - k
  BY <1>1, <1>2, <1>6
<1>12. Len(p) = r + m
  BY <1>10, <1>11, UnderIs
<1>13. m = j + 1 /\ j \in 1..n - 2
  BY <1>1, <1>2, <1>6, <1>8, <1>10, <1>12
<1>14. p \in GoneWay(fs, rel)
  BY <1>2, <1>10, <1>13, GoneGoesOn
<1>. QED BY <1>10, <1>11, <1>14, GoneSoFarIs

(* What pruning leaves is a tree at every stage.                           *)
LEMMA TreeSoFar ==
  ASSUME NEW fs, IsTree(fs), NEW rel \in Paths, NEW k \in 0..Len(rel) - 1
  PROVE  IsTree(Lost(fs, GoneSoFar(fs, rel, k)))
BY GoneSoFarIsAll, LostIsTree

(* A directory of the way is empty, once those in it have been looked at,  *)
(* if and only if it holds nothing but the way.                            *)
LEMMA EmptyMeansGone ==
  ASSUME NEW fs, IsTree(fs), NEW rel \in Paths, WayOfDirs(fs, rel), NEW m \in 1..Len(rel) - 1,
         NEW k \in 0..Len(rel) - 1, k = Len(rel) - m - 1, StillGoing(fs, rel, k)
  PROVE  Children(Lost(fs, GoneSoFar(fs, rel, k)), Under(rel, m)) = {} <=> Under(rel, m) \in GoneWay(fs, rel)
<1> DEFINE n == Len(rel)
           r == Len(Root)
           l == m + 1
           gone == GoneSoFar(fs, rel, k)
           T == Lost(fs, gone)
           at == Under(rel, m)
<1>1. n \in Nat /\ r \in Nat /\ m \in Nat /\ m \in 0..n /\ m \in 0..n - 1 /\ l = n - k /\ l = m + 1
      /\ (k = 0 <=> l = n) /\ (l # n => l \in 1..n - 1 /\ l \in 0..n - 1 /\ l \in 0..n)
  BY PathsTyped, WholePart
<1>2. at \in Paths /\ Len(at) = r + m
  BY <1>1, UnderIs
<1>3. /\ DOMAIN T = DOMAIN fs
      /\ \A p : Kind(T, p) = IF p \in gone THEN "missing" ELSE Kind(fs, p)
  BY LostIs
<1>4. at \in Ancestors(rel)
  BY AncestorsAre
<1>5. l # n => Under(rel, l) \in gone
  BY <1>1, GoneSoFarIs DEF StillGoing
<1> HIDE DEF n, r, l, gone, T
<1>6. ASSUME at \in GoneWay(fs, rel), NEW p \in Children(T, at)
      PROVE  FALSE
  <2>1. p \in DOMAIN fs /\ p # <<>> /\ Front(p) = at /\ Kind(T, p) # "missing"
    BY <1>3, <1>6 DEF Children, Kind
  <2>2. p \in Paths /\ p \notin gone /\ Kind(fs, p) # "missing"
    BY <1>3, <2>1, TreeIs
  <2>3. Len(p) \in Nat /\ Front(p) = Part(p, Len(p) - 1) /\ Len(p) - 1 \in 0..Len(p)
    BY <2>1, <2>2, PathEnds
  <2>4. Len(p) - 1 = r + m
    <3>1. Len(Part(p, Len(p) - 1)) = Len(p) - 1
      BY <2>2, <2>3, Parts
    <3>. QED BY <1>2, <2>1, <2>3, <3>1
  <2>5. Len(p) > r + m /\ Part(p, r + m) = at
    BY <1>1, <2>1, <2>3, <2>4
  <2>6. PICK i \in m + 1..n - 1 : p = Under(rel, i)
    BY <1>6, <2>2, <2>5, GoneHoldsTheWay DEF n, r
  <2>7. i \in 0..n
    BY <1>1
  <2>8. Len(p) = r + i
    BY <2>6, <2>7, UnderIs DEF n, r
  <2>9. i = l /\ l # n
    BY <1>1, <2>3, <2>4, <2>6, <2>8
  <2>. QED BY <1>5, <2>2, <2>6, <2>9
<1>7. ASSUME at \notin GoneWay(fs, rel)
      PROVE  Children(T, at) # {}
  <2>1. PICK p \in DOMAIN fs : IsStrictPrefix(at, p) /\ fs[p].kind # "missing" /\ p \notin Ancestors(rel)
    BY <1>4, <1>7 DEF GoneWay
  <2>2. p \in Paths /\ Kind(fs, p) # "missing" /\ Len(p) \in Nat
    BY <2>1, TreeIs, WholePart
  <2>3. r + m < Len(p) /\ Part(p, r + m) = at
    BY <1>2, <2>1, <2>2, StrictPrefixIs
  <2> DEFINE d == r + l
             child == Part(p, d)
  <2>4. /\ d \in 1..Len(p) /\ d - 1 = r + m /\ r + m \in 0..Len(p)
        /\ d \in 0..Len(p) /\ (d = Len(p) \/ d \in 0..Len(p) - 1)
    BY <1>1, <2>2, <2>3
  <2>5. child # <<>> /\ Front(child) = at /\ child \in Paths /\ Len(child) = d
    BY <2>2, <2>3, <2>4, PartSteps, Parts
  <2>6. Kind(fs, child) # "missing"
    <3>1. Part(p, Len(p)) = p
      BY <2>2, WholePart
    <3>. QED BY <2>2, <2>4, <3>1, AncestorsAreDirs
  <2> HIDE DEF d, child
  <2>7. child \notin gone
    <3> SUFFICES ASSUME child \in gone PROVE FALSE
      OBVIOUS
    <3>1. PICK i \in n - k..n - 1 : child = Under(rel, i) /\ child \in GoneWay(fs, rel)
      BY DEF gone, GoneSoFar, n
    <3>2. i \in 0..n /\ i \in 1..n - 1
      BY <1>1
    <3>3. d = r + i
      BY <2>5, <3>1, <3>2, UnderIs DEF n, r
    <3>4. i = l
      BY <1>1, <3>3 DEF d
    <3>5. CASE d = Len(p)
      <4>1. p = child
        BY <2>2, <3>5, WholePart DEF child
      <4>. QED BY <2>1, <3>1, <3>2, <4>1, AncestorsAre DEF n
    <3>6. CASE d # Len(p)
      <4>1. Len(p) > r + i /\ Part(p, r + i) = Under(rel, i)
        BY <2>2, <2>4, <3>1, <3>3, <3>6 DEF child
      <4>2. PICK h \in i + 1..n - 1 : p = Under(rel, h)
        BY <2>2, <3>1, <3>2, <4>1, GoneHoldsTheWay DEF n, r
      <4>3. h \in 1..n - 1
        BY <1>1, <3>2
      <4>. QED BY <2>1, <4>2, <4>3, AncestorsAre DEF n
    <3>. QED BY <3>5, <3>6
  <2>8. Kind(T, child) # "missing"
    BY <1>3, <2>6, <2>7
  <2>9. child \in Children(T, at)
    BY <2>5, <2>8 DEF Children, Kind
  <2>. QED BY <2>9
<1>. QED BY <1>6, <1>7 DEF T, gone

(* One directory further out.                                              *)
LEMMA PruneStep ==
  ASSUME NEW fs, IsTree(fs), NEW rel \in Paths, WayOfDirs(fs, rel), NEW k \in 1..Len(rel) - 1
  PROVE  Prune(PrunedSoFar(fs, rel, k - 1), Under(rel, Len(rel) - k)) = PrunedSoFar(fs, rel, k)
<1> DEFINE n == Len(rel)
           h == k - 1
           m == n - k
           gone == GoneSoFar(fs, rel, h)
           T == Lost(fs, gone)
           at == Under(rel, m)
<1>1. /\ n \in Nat /\ m \in 1..n - 1 /\ h \in 0..n - 1 /\ h = n - m - 1 /\ m \in 0..n - 1 /\ m - 1 \in 0..n - 1
      /\ m \in 1..n /\ m - 1 \in 0..n /\ m \in 0..n /\ n - h = m + 1 /\ n - k = m /\ k \in 0..n - 1
  BY WholePart
<1> HIDE DEF h, m, n
<1>2. IsTree(T)
  BY <1>1, TreeSoFar DEF n
<1>3. \A p : Kind(T, p) = IF p \in gone THEN "missing" ELSE Kind(fs, p)
  BY LostIs
<1>4. at \notin gone /\ Under(rel, m - 1) \notin gone
  <2>1. \A j \in 0..n - 1 : Under(rel, j) \in gone <=> j >= n - h /\ Under(rel, j) \in GoneWay(fs, rel)
    BY <1>1, GoneSoFarIs DEF n
  <2>2. ~(m >= n - h) /\ ~(m - 1 >= n - h)
    BY <1>1
  <2>. QED BY <1>1, <2>1, <2>2
<1>5. Kind(T, at) = "dir" /\ Kind(T, Under(rel, m - 1)) = "dir"
  BY <1>1, <1>3, <1>4 DEF WayOfDirs, n
<1>6. EntryKind(T, at) = "dir"
  <2> DEFINE up == Under(rel, m - 1)
  <2>1. up \in Paths /\ at # <<>> /\ Front(at) = up /\ Append(up, Last(at)) = at
    BY <1>1, UnderIs, UnderSteps DEF n
  <2> HIDE DEF up, at
  <2>2. Kind(T, up) = "dir"
    BY <1>5 DEF up
  <2> HIDE DEF T
  <2>3. RealPath(T, up) = {up}
    BY <1>2, <2>1, <2>2, RealIsItself
  <2>4. RealPath(T, Front(at)) = {up}
    BY <2>1, <2>3
  <2>5. EntryKind(T, at) = Kind(T, Append(up, Last(at)))
    BY <2>1, <2>2, <2>4, EntryIs
  <2>. QED BY <1>5, <2>1, <2>5
<1>7. /\ PrunedSoFar(fs, rel, h) = [tree |-> T, going |-> StillGoing(fs, rel, h)]
      /\ PrunedSoFar(fs, rel, k) = [tree |-> Lost(fs, GoneSoFar(fs, rel, k)), going |-> at \in GoneWay(fs, rel)]
  <2>1. StillGoing(fs, rel, k) = (at \in GoneWay(fs, rel))
    BY <1>1 DEF StillGoing, n
  <2>. QED BY <2>1 DEF PrunedSoFar
<1>8. StillGoing(fs, rel, h) => (Children(T, at) = {} <=> at \in GoneWay(fs, rel))
  BY <1>1, EmptyMeansGone DEF n
<1>9. at \in GoneWay(fs, rel) => StillGoing(fs, rel, h)
  <2> SUFFICES ASSUME at \in GoneWay(fs, rel), h # 0 PROVE Under(rel, m + 1) \in GoneWay(fs, rel)
    BY <1>1 DEF StillGoing, n
  <2>1. m \in 1..n - 2
    BY <1>1
  <2>. QED BY <2>1, GoneGoesOn DEF n
<1>10. GoneSoFar(fs, rel, k) = IF at \in GoneWay(fs, rel) THEN gone \cup {at} ELSE gone
  <2>1. \A x : x \in GoneSoFar(fs, rel, k) <=> x \in GoneWay(fs, rel) /\ \E j \in m..n - 1 : x = Under(rel, j)
    BY <1>1 DEF GoneSoFar, n
  <2>2. \A x : x \in gone <=> x \in GoneWay(fs, rel) /\ \E j \in m + 1..n - 1 : x = Under(rel, j)
    BY <1>1 DEF GoneSoFar, n
  <2>3. \A j : j \in m..n - 1 <=> j = m \/ j \in m + 1..n - 1
    BY <1>1
  <2> HIDE DEF gone
  <2>. QED BY <2>1, <2>2, <2>3
<1>11. Without(T, at) = Lost(fs, gone \cup {at})
  <2>1. at \in DOMAIN fs /\ at \in DOMAIN T /\ DOMAIN T = DOMAIN fs
    BY <1>3, <1>4, <1>5, LostIs DEF Kind
  <2>2. \A p \in DOMAIN fs : T[p] = IF p \in gone THEN [fs[p] EXCEPT !.kind = "missing"] ELSE fs[p]
    BY DEF Lost
  <2>3. T = [p \in DOMAIN fs |-> T[p]]
    BY DEF Lost
  <2> DEFINE L == Lost(fs, gone \cup {at})
             W == Without(T, at)
  <2>4. L = [p \in DOMAIN fs |-> L[p]]
    BY DEF Lost
  <2>5. \A p \in DOMAIN fs : L[p] = IF p \in gone \cup {at} THEN [fs[p] EXCEPT !.kind = "missing"] ELSE fs[p]
    BY DEF Lost
  <2> HIDE DEF T, L, gone, at
  <2>6. W = [p \in DOMAIN T |-> IF p = at THEN [T[at] EXCEPT !.kind = "missing"] ELSE T[p]]
    BY <2>1, <2>3 DEF Without
  <2>7. \A p \in DOMAIN fs : W[p] = L[p]
    BY <1>4, <2>1, <2>2, <2>5, <2>6
  <2>8. W = [p \in DOMAIN fs |-> W[p]]
    BY <2>1, <2>6
  <2> HIDE DEF W
  <2>9. W = L
    BY <2>4, <2>7, <2>8
  <2>. QED BY <2>9 DEF W, L
<1> HIDE DEF T, at, gone
<1>12. PrunedSoFar(fs, rel, k) = [tree |-> IF at \in GoneWay(fs, rel) THEN Without(T, at) ELSE T,
                                  going |-> at \in GoneWay(fs, rel)]
  BY <1>7, <1>10, <1>11 DEF T
<1>13. Prune([tree |-> T, going |-> StillGoing(fs, rel, h)], at)
         = [tree |-> IF at \in GoneWay(fs, rel) THEN Without(T, at) ELSE T, going |-> at \in GoneWay(fs, rel)]
  <2>1. CASE at \in GoneWay(fs, rel)
    BY <1>6, <1>8, <1>9, <2>1 DEF Prune
  <2>2. CASE at \notin GoneWay(fs, rel)
    <3>1. (at \in GoneWay(fs, rel)) = FALSE
      BY <2>2
    <3>2. ~(StillGoing(fs, rel, h) /\ Children(T, at) = {})
      BY <1>8, <2>2
    <3>3. Prune([tree |-> T, going |-> StillGoing(fs, rel, h)], at) = [tree |-> T, going |-> FALSE]
      BY <3>2 DEF Prune
    <3>. QED BY <2>2, <3>1, <3>3
  <2>. QED BY <2>1, <2>2
<1>. QED BY <1>7, <1>12, <1>13 DEF h, m, n, at

(* Pruning goes from the innermost directory outwards.                     *)
LEMMA PruningIs ==
  ASSUME NEW fs, IsTree(fs), NEW rel \in Paths, rel # <<>>, WayOfDirs(fs, rel)
  PROVE  \A k \in 0..Len(rel) - 1 : Pruning(fs, rel)[k] = PrunedSoFar(fs, rel, k)
<1> DEFINE n == Len(rel) - 1
           first == [tree |-> fs, going |-> TRUE]
           at(k) == Under(rel, Len(rel) - k)
           Outcome(w) == [k \in 0..n |-> IF k = 0 THEN first ELSE Prune(w[k - 1], at(k))]
           g == [k \in 0..n |-> PrunedSoFar(fs, rel, k)]
<1>1. n \in Nat
  BY PathEnds
<1>2. PrunedSoFar(fs, rel, 0) = first
  <2>1. GoneSoFar(fs, rel, 0) = {}
    BY <1>1 DEF GoneSoFar
  <2>2. Lost(fs, {}) = fs
    BY DEF Lost, IsTree
  <2>. QED BY <2>1, <2>2 DEF PrunedSoFar, StillGoing
<1>3. g = Outcome(g)
  <2>1. \A k \in 0..n : g[k] = PrunedSoFar(fs, rel, k)
    OBVIOUS
  <2>2. \A k \in 1..n : Prune(PrunedSoFar(fs, rel, k - 1), at(k)) = PrunedSoFar(fs, rel, k)
    BY PruneStep
  <2>3. \A k \in 0..n : k = 0 \/ (k \in 1..n /\ k - 1 \in 0..n)
    BY <1>1
  <2>4. g = [k \in 0..n |-> g[k]]
    OBVIOUS
  <2> HIDE DEF g, first, at
  <2>5. \A k \in 0..n : g[k] = IF k = 0 THEN first ELSE Prune(g[k - 1], at(k))
    <3> TAKE k \in 0..n
    <3>1. CASE k = 0
      BY <1>1, <1>2, <2>1, <3>1
    <3>2. CASE k # 0
      <4>1. k \in 1..n /\ k - 1 \in 0..n
        BY <2>3, <3>2
      <4>2. g[k - 1] = PrunedSoFar(fs, rel, k - 1) /\ g[k] = PrunedSoFar(fs, rel, k)
        BY <2>1, <4>1
      <4>3. Prune(PrunedSoFar(fs, rel, k - 1), at(k)) = PrunedSoFar(fs, rel, k)
        BY <2>2, <4>1
      <4>. QED BY <3>2, <4>2, <4>3
    <3>. QED BY <3>1, <3>2
  <2>. QED BY <2>4, <2>5
<1>4. Pruning(fs, rel) = CHOOSE w : w = Outcome(w)
  BY DEF Pruning, Under, Part
<1>5. Pruning(fs, rel) = Outcome(Pruning(fs, rel))
  <2> HIDE DEF Outcome, g
  <2>. QED BY <1>3, <1>4, Zenon
<1> DEFINE w == Pruning(fs, rel)
           bad == {k \in 0..n : w[k] # PrunedSoFar(fs, rel, k)}
<1> HIDE DEF w, first, at
<1>6. w = [k \in 0..n |-> IF k = 0 THEN first ELSE Prune(w[k - 1], at(k))]
  BY <1>5 DEF w
<1>7. w[0] = first /\ \A k \in 1..n : w[k] = Prune(w[k - 1], at(k))
  <2>1. 0 \in 0..n /\ \A k \in 1..n : k \in 0..n /\ k # 0
    BY <1>1
  <2>. QED BY <1>6, <2>1
<1>8. 0 \notin bad
  BY <1>2, <1>7
<1>9. \A k \in 0..n - 1 : k \notin bad => k + 1 \notin bad
  <2> TAKE k \in 0..n - 1
  <2> HAVE k \notin bad
  <2> DEFINE l == k + 1
  <2>1. k \in 0..n /\ l \in 1..n /\ l - 1 = k
    BY <1>1
  <2>2. w[k] = PrunedSoFar(fs, rel, k)
    BY <2>1
  <2> HIDE DEF l
  <2>3. w[l] = Prune(w[k], at(l))
    BY <1>7, <2>1
  <2>4. Prune(PrunedSoFar(fs, rel, l - 1), at(l)) = PrunedSoFar(fs, rel, l)
    BY <2>1, PruneStep DEF at
  <2>5. w[l] = PrunedSoFar(fs, rel, l)
    BY <2>1, <2>2, <2>3, <2>4
  <2>. QED BY <2>5 DEF l
<1>10. bad \in SUBSET (0..n)
  OBVIOUS
<1> HIDE DEF bad
<1>11. bad = {}
  BY <1>1, <1>8, <1>9, <1>10, Stages
<1>. QED BY <1>11 DEF bad, w

(* What a check finds on the way to an item it finds on the way to its     *)
(* directory.                                                              *)
LEMMA FrontValid ==
  ASSUME NEW fs, NEW rel \in Paths, rel # <<>>, ParentValid(fs, rel)
  PROVE  ParentValid(fs, Front(rel))
<1> DEFINE n == Len(rel)
           q == Front(rel)
<1>1. n \in Nat /\ q = Part(rel, n - 1) /\ n - 1 \in 0..n
  BY PathEnds
<1>2. Len(q) = n - 1 /\ \A k \in 0..n - 1 : Part(q, k) = Part(rel, k)
  BY <1>1, Parts
<1>3. Ancestors(q) \subseteq Ancestors(rel)
  <2> SUFFICES ASSUME NEW k \in 1..Len(q) - 1 PROVE Under(q, k) \in Ancestors(rel)
    BY AncestorsAre
  <2>1. k \in 1..n - 1 /\ k \in 0..n - 1
    BY <1>1, <1>2
  <2>2. Under(q, k) = Under(rel, k)
    BY <1>2, <2>1 DEF Under
  <2>. QED BY <2>1, <2>2, AncestorsAre
<1>. QED BY <1>3 DEF ParentValid

(* Pruning takes the directories that hold nothing but the way.            *)
LEMMA PrunedIs ==
  ASSUME NEW fs, IsTree(fs), Kind(fs, Root) = "dir", NEW rel \in Paths, rel # <<>>, ParentValid(fs, rel)
  PROVE  Pruned(fs, rel) = Lost(fs, GoneWay(fs, rel))
<1> DEFINE n == Len(rel)
<1>1. n \in Nat /\ n - 1 \in 0..n - 1
  BY PathEnds
<1>2. WayOfDirs(fs, rel) /\ ParentValid(fs, Front(rel))
  BY ValidMeansDirs, FrontValid
<1>3. Pruning(fs, rel)[n - 1] = PrunedSoFar(fs, rel, n - 1)
  BY <1>1, <1>2, PruningIs
<1>4. GoneSoFar(fs, rel, n - 1) = GoneWay(fs, rel)
  <2> SUFFICES ASSUME NEW at \in GoneWay(fs, rel) PROVE \E j \in n - (n - 1)..n - 1 : at = Under(rel, j)
    BY DEF GoneSoFar
  <2>1. n - (n - 1) = 1
    BY <1>1
  <2>. QED BY <2>1, AncestorsAre DEF GoneWay
<1>. QED BY <1>2, <1>3, <1>4 DEF Pruned, PrunedSoFar

(* Pruning after an item has gone (prune_empty_item_ancestors) removes the *)
(* directories that held nothing but the way to it, all of them, and       *)
(* changes nothing else.                                                   *)
THEOREM PrunesOnlyTheWayHolds == PrunesOnlyTheWay
<1> SUFFICES ASSUME NEW fs \in Trees, NEW typed \in Typed,
                    NEW rel \in Below(Root, Normalized(typed)) \ {<<>>}, ParentValid(fs, rel)
             PROVE  Pruned(fs, rel) = Lost(fs, GoneWay(fs, rel))
  BY DEF PrunesOnlyTheWay, Lost, GoneWay
<1>1. IsTree(fs) /\ Kind(fs, Root) = "dir" /\ Normalized(typed) \in Paths
  BY PathsTyped, NormalizedIs
<1>2. rel \in Paths /\ rel # <<>>
  BY <1>1, BelowIs
<1>. QED BY <1>1, <1>2, PrunedIs

(***************************************************************************)
(* All of them                                                             *)
(***************************************************************************)

(* The rules for paths are sound in every tree and for every path a user   *)
(* can type.                                                               *)
THEOREM PathsSoundHolds == PathsSound
BY NamesOneEntryHolds, DotsMeanTheSameHolds, PrunesOnlyTheWayHolds DEF PathsSound

(* Whatever paths a running command is given, the rules it goes by name    *)
(* the entries the user means.                                             *)
THEOREM CommandPathsSoundHolds == BatchSpec => []CommandPathsSound
<1>1. CommandPathsSound
  BY PathsSoundHolds DEF CommandPathsSound
<1>. QED BY <1>1, PTL
===============================================================================
