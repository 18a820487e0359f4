--------------------------- MODULE TopologyProofs ---------------------------
(***************************************************************************)
(* Proofs about the compact topology, for any reports, limits and bundles. *)
(* They are about the operators alone, not about a specification: the      *)
(* arithmetic of the model's lists and sums, the invariant of the fair     *)
(* selection and where it ends, the topologies that come of it and their   *)
(* cuts, and the topology the client makes of a whole report.              *)
(* ReportProofs uses them for the behaviours they occur in.                *)
(***************************************************************************)
EXTENDS TopologyModel, FiniteSetTheorems, FunctionTheorems, SequenceTheorems,
        WellFoundedInduction, TLAPS

(* Numbers, lists and sums.                                                *)

(* A set of numbers that is not empty has a least one. *)
LEMMA LeastNumber ==
    ASSUME NEW T \in SUBSET Nat, T # {}
    PROVE  \E x \in T : \A y \in T : x <= y
<1>1. PICK x \in T : \A y \in T : ~(<<y, x>> \in OpToRel(<, Nat))
  BY NatLessThanWellFounded, WFMin
<1>2. \A y \in T : ~(y < x)
  BY <1>1 DEF OpToRel
<1> QED BY <1>2

(* Sets are as large as each other if one maps onto the other, one to one. *)
LEMMA SameSize ==
    ASSUME NEW S, NEW T, NEW F \in [S -> T], IsFiniteSet(S),
           \A a, b \in S : F[a] = F[b] => a = b,
           \A t \in T : \E s \in S : F[s] = t
    PROVE  IsFiniteSet(T) /\ Cardinality(T) = Cardinality(S)
<1>1. F \in Bijection(S, T)
  BY Fun_IsBij
<1>2. ExistsBijection(S, T)
  BY <1>1, Fun_ExistsBij
<1> QED BY <1>2, FS_Bijection

(* An image is finite and no larger. *)
LEMMA ImageSize ==
    ASSUME NEW S, NEW T, NEW F \in [S -> T], IsFiniteSet(S),
           \A t \in T : \E s \in S : F[s] = t
    PROVE  IsFiniteSet(T) /\ Cardinality(T) <= Cardinality(S)
<1>1. F \in Surjection(S, T)
  BY Fun_IsSurj
<1> QED BY <1>1, FS_Surjection

(* Ascending enumerates a finite set of numbers: the place of a number is  *)
(* one more than how many are below it, and the places are all taken.      *)
LEMMA AscendingHolds ==
    ASSUME NEW S \in SUBSET Nat, IsFiniteSet(S)
    PROVE  /\ Cardinality(S) \in Nat
           /\ Ascending(S) \in [1 .. Cardinality(S) -> S]
           /\ \A i, j \in 1 .. Cardinality(S) : i < j => Ascending(S)[i] < Ascending(S)[j]
           /\ \A x \in S : \E i \in 1 .. Cardinality(S) : Ascending(S)[i] = x
           /\ \A i \in 1 .. Cardinality(S) :
                 Cardinality({y \in S : y < Ascending(S)[i]}) = i - 1
<1> DEFINE c == Cardinality(S)
           below(x) == {y \in S : y < x}
           rank == [x \in S |-> Cardinality(below(x)) + 1]
<1>1. c \in Nat
  BY FS_CardinalityType
<1>2. ASSUME NEW x \in S
      PROVE  rank[x] \in 1 .. c
  <2>1. below(x) \in SUBSET S /\ below(x) # S
    OBVIOUS
  <2>2. IsFiniteSet(below(x)) /\ Cardinality(below(x)) <= c /\ Cardinality(below(x)) # c
    BY <2>1, FS_Subset
  <2>3. Cardinality(below(x)) \in Nat
    BY <2>2, FS_CardinalityType
  <2> QED BY <1>1, <2>2, <2>3
<1>3. ASSUME NEW x \in S, NEW y \in S, x < y
      PROVE  rank[x] < rank[y]
  <2>1. below(x) \in SUBSET below(y) /\ below(x) # below(y)
    <3>1. x \in Nat /\ y \in Nat /\ \A z \in S : z \in Nat
      OBVIOUS
    <3>2. x \in below(y) /\ x \notin below(x)
      BY <1>3, <3>1
    <3>3. \A z \in S : z < x => z < y
      BY <1>3, <3>1
    <3> QED BY <3>2, <3>3
  <2>2. IsFiniteSet(below(y)) /\ IsFiniteSet(below(x))
    BY FS_Subset
  <2>3. /\ Cardinality(below(x)) <= Cardinality(below(y))
        /\ Cardinality(below(x)) # Cardinality(below(y))
    BY <2>1, <2>2, FS_Subset
  <2>4. Cardinality(below(x)) \in Nat /\ Cardinality(below(y)) \in Nat
    BY <2>2, FS_CardinalityType
  <2>5. rank[x] = Cardinality(below(x)) + 1 /\ rank[y] = Cardinality(below(y)) + 1
    OBVIOUS
  <2> HIDE DEF rank, below
  <2> QED BY <2>3, <2>4, <2>5
<1>4. rank \in [S -> 1 .. c] /\ \A x, y \in S : rank[x] = rank[y] => x = y
  <2>1. rank \in [S -> 1 .. c]
    BY <1>2
  <2>2. ASSUME NEW x \in S, NEW y \in S, rank[x] = rank[y]
        PROVE  x = y
    <3>1. x \in Nat /\ y \in Nat /\ rank[x] \in 1 .. c /\ rank[y] \in 1 .. c
      BY <1>2
    <3>2. ~(x < y) /\ ~(y < x)
      BY <1>1, <1>3, <2>2, <3>1
    <3> QED BY <3>1, <3>2
  <2> QED BY <2>1, <2>2
<1>5. \A n \in 1 .. c : \E x \in S : rank[x] = n
  <2>1. IsFiniteSet(1 .. c) /\ Cardinality(1 .. c) = c
    BY <1>1, FS_Interval
  <2>2. rank \in Injection(S, 1 .. c)
    BY <1>4, Fun_IsInj
  <2>3. rank \in Surjection(S, 1 .. c)
    BY <2>1, <2>2, FS_Injection
  <2> HIDE DEF rank
  <2> QED BY <2>3, Fun_SurjectionProperties
<1>6. ASSUME NEW n \in 1 .. c
      PROVE  Ascending(S)[n] \in S /\ rank[Ascending(S)[n]] = n
  <2>1. \A x \in S : (Cardinality({y \in S : y < x}) = n - 1) <=> (rank[x] = n)
    <3>1. ASSUME NEW x \in S
          PROVE  (Cardinality({y \in S : y < x}) = n - 1) <=> (rank[x] = n)
      <4>1. IsFiniteSet(below(x))
        BY FS_Subset
      <4>2. Cardinality(below(x)) \in Nat
        BY <4>1, FS_CardinalityType
      <4> QED BY <1>1, <4>2
    <3> QED BY <3>1
  <2>2. Ascending(S)[n] = CHOOSE x \in S : Cardinality({y \in S : y < x}) = n - 1
    BY DEF Ascending
  <2>3. \E x \in S : Cardinality({y \in S : y < x}) = n - 1
    BY <1>5, <2>1
  <2>4. /\ Ascending(S)[n] \in S
        /\ Cardinality({y \in S : y < Ascending(S)[n]}) = n - 1
    BY <2>2, <2>3
  <2> QED BY <2>1, <2>4
<1>7. Ascending(S) \in [1 .. c -> S]
  BY <1>6 DEF Ascending
<1>8. ASSUME NEW i \in 1 .. c, NEW j \in 1 .. c, i < j
      PROVE  Ascending(S)[i] < Ascending(S)[j]
  <2>x. PICK x, y : x = Ascending(S)[i] /\ y = Ascending(S)[j]
    OBVIOUS
  <2>1. x \in S /\ y \in S /\ rank[x] = i /\ rank[y] = j
    BY <1>6, <2>x
  <2> HIDE DEF rank
  <2>2. ~(y < x) /\ x # y
    BY <1>1, <1>3, <1>8, <2>1
  <2> QED BY <2>x, <2>1, <2>2
<1>9. ASSUME NEW x \in S
      PROVE  \E i \in 1 .. c : Ascending(S)[i] = x
  <2>1. rank[x] \in 1 .. c
    BY <1>2
  <2>n. PICK n : n = rank[x]
    OBVIOUS
  <2>2. Ascending(S)[n] \in S /\ rank[Ascending(S)[n]] = rank[x]
    BY <1>6, <2>1, <2>n
  <2> QED BY <1>4, <2>1, <2>2, <2>n
<1>10. ASSUME NEW i \in 1 .. c
       PROVE  Cardinality({y \in S : y < Ascending(S)[i]}) = i - 1
  <2>x. PICK x : x = Ascending(S)[i]
    OBVIOUS
  <2>1. x \in S /\ rank[x] = i /\ IsFiniteSet(below(x))
    BY <1>6, <2>x, FS_Subset
  <2>2. Cardinality(below(x)) \in Nat /\ Cardinality(below(x)) + 1 = i
    BY <2>1, FS_CardinalityType
  <2> QED BY <1>1, <2>x, <2>2
<1> QED BY <1>1, <1>7, <1>8, <1>9, <1>10

(* What At takes from a sequence, in the order of the places. *)
LEMMA AtHolds ==
    ASSUME NEW X, NEW s \in Seq(X), NEW S \in SUBSET (DOMAIN s)
    PROVE  /\ IsFiniteSet(S) /\ Cardinality(S) \in Nat /\ Cardinality(S) <= Len(s)
           /\ At(s, S) \in Seq(X) /\ Len(At(s, S)) = Cardinality(S)
           /\ DOMAIN At(s, S) = 1 .. Cardinality(S)
           /\ \A n \in 1 .. Cardinality(S) : /\ Ascending(S)[n] \in S
                                             /\ At(s, S)[n] = s[Ascending(S)[n]]
           /\ \A i \in S : \E n \in 1 .. Cardinality(S) : At(s, S)[n] = s[i]
<1>1. DOMAIN s = 1 .. Len(s) /\ Len(s) \in Nat /\ \A n \in 1 .. Len(s) : s[n] \in X
  OBVIOUS
<1>2. IsFiniteSet(1 .. Len(s)) /\ Cardinality(1 .. Len(s)) = Len(s)
  BY <1>1, FS_Interval
<1>3. IsFiniteSet(S) /\ Cardinality(S) <= Len(s) /\ S \in SUBSET Nat
  BY <1>1, <1>2, FS_Subset
<1>4. /\ Cardinality(S) \in Nat
      /\ Ascending(S) \in [1 .. Cardinality(S) -> S]
      /\ \A x \in S : \E i \in 1 .. Cardinality(S) : Ascending(S)[i] = x
  BY <1>3, AscendingHolds
<1>5. At(s, S) = [n \in 1 .. Cardinality(S) |-> s[Ascending(S)[n]]]
  BY <1>4 DEF At
<1>6. \A n \in 1 .. Cardinality(S) : Ascending(S)[n] \in S /\ s[Ascending(S)[n]] \in X
  BY <1>1, <1>4
<1>7. At(s, S) \in [1 .. Cardinality(S) -> X]
  BY <1>5, <1>6
<1>8. At(s, S) \in Seq(X) /\ Len(At(s, S)) = Cardinality(S)
  BY <1>4, <1>7
<1> QED BY <1>3, <1>4, <1>5, <1>6, <1>8

(* The units of a function with natural values. *)
LEMMA UnitsHold ==
    ASSUME NEW D, IsFiniteSet(D), NEW f \in [D -> Nat]
    PROVE  /\ IsFiniteSet(Units(f)) /\ Total(f) \in Nat
           /\ \A x, n : <<x, n>> \in Units(f) <=> x \in D /\ n \in 1 .. f[x]
           /\ \A o \in Units(f) : o = <<o[1], o[2]>> /\ o[1] \in D /\ o[2] \in 1 .. f[o[1]]
<1> DEFINE part == [x \in D |-> {x} \X (1 .. f[x])]
           parts == {{x} \X (1 .. f[x]) : x \in D}
<1>1. Units(f) = UNION parts
  BY DEF Units
<1>2. IsFiniteSet(parts)
  <2>1. part \in [D -> parts] /\ \A t \in parts : \E x \in D : part[x] = t
    OBVIOUS
  <2> HIDE DEF part, parts
  <2> QED BY <2>1, ImageSize
<1>3. \A t \in parts : IsFiniteSet(t)
  <2>1. ASSUME NEW x \in D
        PROVE  IsFiniteSet({x} \X (1 .. f[x]))
    <3>1. IsFiniteSet({x}) /\ f[x] \in Nat
      BY FS_Singleton
    <3>2. IsFiniteSet(1 .. f[x])
      BY <3>1, FS_Interval
    <3> QED BY <3>1, <3>2, FS_Product
  <2> QED BY <2>1
<1>4. IsFiniteSet(Units(f))
  <2> HIDE DEF parts
  <2> QED BY <1>1, <1>2, <1>3, FS_UNION
<1>5. Total(f) \in Nat
  BY <1>4, FS_CardinalityType DEF Total
<1>6. \A x, n : <<x, n>> \in Units(f) <=> x \in D /\ n \in 1 .. f[x]
  BY <1>1
<1>7. \A o \in Units(f) : o = <<o[1], o[2]>> /\ o[1] \in D /\ o[2] \in 1 .. f[o[1]]
  BY <1>1
<1> QED BY <1>4, <1>5, <1>6, <1>7

(* A sum of more and larger values is no smaller. *)
LEMMA TotalGrows ==
    ASSUME NEW D, IsFiniteSet(D), NEW f \in [D -> Nat],
           NEW C \in SUBSET D, NEW g \in [C -> Nat], \A x \in C : g[x] <= f[x]
    PROVE  Total(g) \in Nat /\ Total(f) \in Nat /\ Total(g) <= Total(f)
<1>1. IsFiniteSet(C)
  BY FS_Subset
<1>2. /\ IsFiniteSet(Units(f)) /\ Total(f) \in Nat /\ Total(g) \in Nat
      /\ \A x, n : <<x, n>> \in Units(f) <=> x \in D /\ n \in 1 .. f[x]
      /\ \A o \in Units(g) : o = <<o[1], o[2]>> /\ o[1] \in C /\ o[2] \in 1 .. g[o[1]]
  BY <1>1, UnitsHold
<1>3. Units(g) \subseteq Units(f)
  <2>1. ASSUME NEW o \in Units(g)
        PROVE  o \in Units(f)
    <3>1. o = <<o[1], o[2]>> /\ o[1] \in C /\ o[2] \in 1 .. g[o[1]]
      BY <1>2
    <3>2. o[1] \in D /\ f[o[1]] \in Nat /\ g[o[1]] \in Nat /\ g[o[1]] <= f[o[1]]
      BY <3>1
    <3>3. o[2] \in 1 .. f[o[1]]
      BY <3>1, <3>2
    <3> QED BY <1>2, <3>1, <3>2, <3>3
  <2> QED BY <2>1
<1> QED BY <1>2, <1>3, FS_Subset DEF Total

(* The sizes of the parts of a set sum up to its size: the units of the    *)
(* sizes map onto the set, one to one.                                     *)
LEMMA PartsAddUp ==
    ASSUME NEW A, IsFiniteSet(A), NEW D, IsFiniteSet(D), NEW p \in [A -> D],
           NEW f \in [D -> Nat], \A d \in D : f[d] = Cardinality({a \in A : p[a] = d})
    PROVE  Total(f) = Cardinality(A)
<1> DEFINE part(d) == {a \in A : p[a] = d}
           count == [d \in D |-> CHOOSE h : h \in Bijection(1 .. f[d], part(d))]
           place == [o \in Units(f) |-> count[o[1]][o[2]]]
<1>1. ASSUME NEW d \in D
      PROVE  count[d] \in Bijection(1 .. f[d], part(d))
  <2>1. IsFiniteSet(part(d))
    BY FS_Subset
  <2>2. ExistsBijection(1 .. f[d], part(d))
    BY <2>1, FS_CardinalityType
  <2>3. \E h : h \in Bijection(1 .. f[d], part(d))
    BY <2>2, Fun_ExistsBij
  <2>4. count[d] = CHOOSE h : h \in Bijection(1 .. f[d], part(d))
    OBVIOUS
  <2> QED BY <2>3, <2>4
<1> HIDE DEF count
<1>2. /\ IsFiniteSet(Units(f))
      /\ \A x, n : <<x, n>> \in Units(f) <=> x \in D /\ n \in 1 .. f[x]
      /\ \A o \in Units(f) : o = <<o[1], o[2]>> /\ o[1] \in D /\ o[2] \in 1 .. f[o[1]]
  BY UnitsHold
<1>3. ASSUME NEW d \in D
      PROVE  /\ count[d] \in [1 .. f[d] -> part(d)]
             /\ \A a, b \in 1 .. f[d] : count[d][a] = count[d][b] => a = b
             /\ \A t \in part(d) : \E n \in 1 .. f[d] : count[d][n] = t
  <2> HIDE DEF part
  <2>h. PICK h : h = count[d]
    OBVIOUS
  <2>1. h \in Bijection(1 .. f[d], part(d))
    BY <1>1, <2>h
  <2>2. /\ h \in [1 .. f[d] -> part(d)]
        /\ \A a, b \in 1 .. f[d] : h[a] = h[b] => a = b
        /\ \A t \in part(d) : \E n \in 1 .. f[d] : h[n] = t
    <3>t. PICK T : T = part(d)
      OBVIOUS
    <3>1. h \in Bijection(1 .. f[d], T)
      BY <2>1, <3>t
    <3>2. /\ h \in [1 .. f[d] -> T]
          /\ \A a, b \in 1 .. f[d] : h[a] = h[b] => a = b
          /\ \A t \in T : \E n \in 1 .. f[d] : h[n] = t
      BY <3>1, Fun_BijectionProperties
    <3> QED BY <3>t, <3>2
  <2> QED BY <2>h, <2>2
<1>4. ASSUME NEW o \in Units(f)
      PROVE  place[o] \in A /\ p[place[o]] = o[1]
  <2>1. o[1] \in D /\ o[2] \in 1 .. f[o[1]]
    BY <1>2
  <2>2. count[o[1]][o[2]] \in part(o[1])
    BY <1>3, <2>1
  <2> QED BY <2>2
<1>5. place \in [Units(f) -> A]
  BY <1>4
<1>6. ASSUME NEW o \in Units(f), NEW q \in Units(f), place[o] = place[q]
      PROVE  o = q
  <2>1. o[1] = q[1]
    BY <1>4, <1>6
  <2>2. /\ o = <<o[1], o[2]>> /\ q = <<q[1], q[2]>> /\ o[1] \in D
        /\ o[2] \in 1 .. f[o[1]] /\ q[2] \in 1 .. f[o[1]]
    BY <1>2, <2>1
  <2>3. count[o[1]][o[2]] = count[o[1]][q[2]]
    BY <1>6, <2>1
  <2>4. o[2] = q[2]
    BY <1>3, <2>2, <2>3
  <2> QED BY <2>1, <2>2, <2>4
<1>7. ASSUME NEW a \in A
      PROVE  \E o \in Units(f) : place[o] = a
  <2>1. p[a] \in D /\ a \in part(p[a])
    OBVIOUS
  <2>2. PICK n \in 1 .. f[p[a]] : count[p[a]][n] = a
    BY <1>3, <2>1
  <2>3. <<p[a], n>> \in Units(f)
    BY <1>2, <2>1
  <2>4. place[<<p[a], n>>] = a
    BY <2>2, <2>3
  <2> QED BY <2>3, <2>4
<1> HIDE DEF place
<1>8. Cardinality(A) = Cardinality(Units(f))
  BY <1>2, <1>5, <1>6, <1>7, SameSize
<1> QED BY <1>8 DEF Total

(* What holds of zero and of the successor of each number holds of all. *)
LEMMA NumbersByStep ==
    ASSUME NEW G \in SUBSET Nat, 0 \in G, \A n \in G : n + 1 \in G
    PROVE  \A n \in Nat : n \in G
<1>1. SUFFICES ASSUME Nat \ G # {} PROVE FALSE
  OBVIOUS
<1>2. PICK m \in Nat \ G : \A n \in Nat \ G : m <= n
  BY <1>1, LeastNumber
<1>3. m # 0 /\ m - 1 \in Nat
  BY <1>2
<1>4. m - 1 \in G
  BY <1>2, <1>3
<1>5. m \in G
  <2>1. (m - 1) + 1 \in G
    BY <1>4
  <2> QED BY <2>1
<1> QED BY <1>2, <1>5

(* A first value and a step determine a sequence of values. *)
IsRun(h, S, first, step) ==
    /\ h \in [Nat -> S] /\ h[0] = first
    /\ \A n \in Nat : h[n + 1] = step[<<n, h[n]>>]

(* For every first value and step there is such a sequence.                *)
LEMMA Iteration ==
    ASSUME NEW S, NEW first \in S, NEW step, step \in [Nat \X S -> S]
    PROVE  \E h : IsRun(h, S, first, step)
<1> DEFINE Runs(m, h) == /\ h \in [0 .. m -> S] /\ h[0] = first
                         /\ \A n \in 0 .. m - 1 : h[n + 1] = step[<<n, h[n]>>]
           G == {m \in Nat : \E h : Runs(m, h)}
           run == [m \in Nat |-> CHOOSE h : Runs(m, h)]
           all == [m \in Nat |-> run[m][m]]
<1>1. 0 \in G
  <2>h. PICK h : h = [n \in 0 .. 0 |-> first]
    OBVIOUS
  <2>1. Runs(0, h)
    BY <2>h
  <2> QED BY <2>1
<1>2. ASSUME NEW m \in G
      PROVE  m + 1 \in G
  <2>1. m \in Nat
    OBVIOUS
  <2>2. PICK h : Runs(m, h)
    OBVIOUS
  <2>k. PICK k : k = [n \in 0 .. m + 1 |-> IF n <= m THEN h[n] ELSE step[<<m, h[m]>>]]
    OBVIOUS
  <2>3. h[m] \in S /\ step[<<m, h[m]>>] \in S
    BY <2>1, <2>2
  <2>4. k \in [0 .. m + 1 -> S]
    BY <2>1, <2>2, <2>3, <2>k
  <2>5. k[0] = first
    BY <2>1, <2>2, <2>k
  <2>6. \A n \in 0 .. m : k[n + 1] = step[<<n, k[n]>>]
    <3>1. ASSUME NEW n \in 0 .. m
          PROVE  k[n + 1] = step[<<n, k[n]>>]
      <4>1. k[n] = h[n]
        BY <2>1, <2>k
      <4>2. CASE n = m
        BY <2>1, <2>k, <4>1, <4>2
      <4>3. CASE n # m
        <5>1. n \in 0 .. m - 1 /\ n + 1 <= m /\ n + 1 \in 0 .. m + 1
          BY <2>1, <4>3
        <5>2. k[n + 1] = h[n + 1]
          BY <2>k, <5>1
        <5> QED BY <2>2, <4>1, <5>1, <5>2
      <4> QED BY <4>2, <4>3
    <3> QED BY <3>1
  <2>7. (m + 1) - 1 = m
    BY <2>1
  <2> QED BY <2>1, <2>4, <2>5, <2>6, <2>7
<1>3. \A m \in Nat : m \in G
  <2>1. G \in SUBSET Nat
    OBVIOUS
  <2> HIDE DEF G
  <2> QED BY <1>1, <1>2, <2>1, NumbersByStep
<1>4. ASSUME NEW m \in Nat
      PROVE  Runs(m, run[m])
  <2>1. \E h : Runs(m, h)
    BY <1>3
  <2>2. run[m] = CHOOSE h : Runs(m, h)
    OBVIOUS
  <2> HIDE DEF Runs, run
  <2> QED BY <2>1, <2>2
<1> HIDE DEF run, G
<1>5. ASSUME NEW m \in Nat
      PROVE  \A n \in 0 .. m : run[m + 1][n] = run[m][n]
  <2> DEFINE A == {n \in Nat : n <= m => run[m + 1][n] = run[m][n]}
  <2>1. Runs(m, run[m]) /\ Runs(m + 1, run[m + 1])
    BY <1>4
  <2>2. 0 \in A
    BY <2>1
  <2>3. ASSUME NEW n \in A
        PROVE  n + 1 \in A
    <3>1. SUFFICES ASSUME n + 1 <= m
                   PROVE  run[m + 1][n + 1] = run[m][n + 1]
      OBVIOUS
    <3>2. run[m + 1][n] = run[m][n] /\ n \in 0 .. m - 1 /\ n \in 0 .. (m + 1) - 1
      BY <3>1
    <3> QED BY <2>1, <3>2
  <2>4. A \in SUBSET Nat
    OBVIOUS
  <2>5. \A n \in Nat : n \in A
    <3> HIDE DEF A
    <3> QED BY <2>2, <2>3, <2>4, NumbersByStep
  <2> QED BY <2>5
<1>6. all \in [Nat -> S]
  <2>1. ASSUME NEW m \in Nat
        PROVE  run[m][m] \in S
    BY <1>4
  <2> QED BY <2>1
<1>7. all[0] = first
  BY <1>4
<1>8. ASSUME NEW n \in Nat
      PROVE  all[n + 1] = step[<<n, all[n]>>]
  <2>1. Runs(n + 1, run[n + 1]) /\ run[n + 1][n] = run[n][n]
    BY <1>4, <1>5
  <2>2. n \in 0 .. (n + 1) - 1
    OBVIOUS
  <2>3. run[n + 1][n + 1] = step[<<n, run[n + 1][n]>>]
    BY <2>1, <2>2
  <2> QED BY <2>1, <2>3
<1> HIDE DEF all
<1> QED BY <1>6, <1>7, <1>8 DEF IsRun

(* Sequences are put one after the other from the first to the last. *)
LEMMA FlattenSteps ==
    ASSUME NEW X, NEW seqs \in Seq(Seq(X)), Len(seqs) # 0
    PROVE  \E f : /\ FlattenSeq(seqs) = f[Len(seqs)]
                 /\ \A i \in 1 .. Len(seqs) :
                       /\ f[i] \in Seq(X)
                       /\ f[i] = IF i = 1 THEN seqs[i] ELSE f[i - 1] \o seqs[i]
<1> DEFINE L == Len(seqs)
           is(f) == f = [i \in 1 .. L |-> IF i = 1 THEN seqs[i] ELSE f[i - 1] \o seqs[i]]
           step == [o \in Nat \X Seq(X) |->
                        IF o[1] + 2 <= L THEN o[2] \o seqs[o[1] + 2] ELSE o[2]]
<1>a. L \in Nat /\ \A i \in 1 .. L : seqs[i] \in Seq(X)
  OBVIOUS
<1>b. L # 0
  OBVIOUS
<1>1. FlattenSeq(seqs) = (CHOOSE f : is(f))[L]
  BY <1>b DEF FlattenSeq
<1>2. \E f : is(f)
  <2>1. step \in [Nat \X Seq(X) -> Seq(X)]
    <3>1. ASSUME NEW o \in Nat \X Seq(X)
          PROVE  (IF o[1] + 2 <= L THEN o[2] \o seqs[o[1] + 2] ELSE o[2]) \in Seq(X)
      <4>1. o[1] \in Nat /\ o[2] \in Seq(X)
        OBVIOUS
      <4>2. CASE o[1] + 2 <= L
        <5>1. seqs[o[1] + 2] \in Seq(X)
          BY <1>a, <4>1, <4>2
        <5> QED BY <4>1, <4>2, <5>1
      <4>3. CASE ~(o[1] + 2 <= L)
        BY <4>1, <4>3
      <4> QED BY <4>2, <4>3
    <3> QED BY <3>1
  <2>2. seqs[1] \in Seq(X)
    BY <1>a, <1>b
  <2>3. PICK h \in [Nat -> Seq(X)] :
              /\ h[0] = seqs[1]
              /\ \A n \in Nat : h[n + 1] = step[<<n, h[n]>>]
    <3> HIDE DEF step
    <3>1. \E h : IsRun(h, Seq(X), seqs[1], step)
      BY <2>1, <2>2, Iteration
    <3> QED BY <3>1 DEF IsRun
  <2>f. PICK f : f = [i \in 1 .. L |-> h[i - 1]]
    OBVIOUS
  <2>4. \A i \in 1 .. L : f[i] = IF i = 1 THEN seqs[i] ELSE f[i - 1] \o seqs[i]
    <3>1. ASSUME NEW i \in 1 .. L
          PROVE  f[i] = IF i = 1 THEN seqs[i] ELSE f[i - 1] \o seqs[i]
      <4>1. CASE i = 1
        BY <2>3, <2>f, <4>1
      <4>2. CASE i # 1
        <5>1. i - 2 \in Nat /\ (i - 2) + 1 = i - 1 /\ (i - 2) + 2 = i /\ i - 1 \in 1 .. L
          BY <1>a, <4>2
        <5>2. h[i - 1] = step[<<i - 2, h[i - 2]>>]
          BY <2>3, <5>1
        <5>3. h[i - 2] \in Seq(X)
          BY <2>3, <5>1
        <5>4. step[<<i - 2, h[i - 2]>>] = h[i - 2] \o seqs[i]
          <6>o. PICK o : o = <<i - 2, h[i - 2]>>
            OBVIOUS
          <6>1. o \in Nat \X Seq(X) /\ o[1] = i - 2 /\ o[2] = h[i - 2] /\ o[1] + 2 = i
            BY <5>1, <5>3, <6>o
          <6>2. step[o] = IF o[1] + 2 <= L THEN o[2] \o seqs[o[1] + 2] ELSE o[2]
            BY <6>1
          <6>3. i <= L
            BY <1>a
          <6> HIDE DEF step
          <6> QED BY <6>o, <6>1, <6>2, <6>3
        <5>5. f[i] = h[i - 1] /\ f[i - 1] = h[(i - 1) - 1] /\ (i - 1) - 1 = i - 2
          BY <1>a, <2>f, <5>1
        <5> QED BY <4>2, <5>2, <5>4, <5>5
      <4> QED BY <4>1, <4>2
    <3> QED BY <3>1
  <2>5. is(f)
    <3>1. DOMAIN f = 1 .. L /\ f = [i \in 1 .. L |-> f[i]]
      BY <2>f
    <3> QED BY <2>4, <3>1
  <2> QED BY <2>5
<1>f. PICK f : f = CHOOSE g : is(g)
  OBVIOUS
<1>3. is(f)
  <2> HIDE DEF is
  <2> QED BY <1>2, <1>f
<1>4. \A i \in Nat : i + 1 <= L => f[i + 1] \in Seq(X)
  <2> DEFINE A == {i \in Nat : i + 1 <= L => f[i + 1] \in Seq(X)}
  <2>1. 0 \in A
    BY <1>a, <1>3
  <2>2. ASSUME NEW i \in A
        PROVE  i + 1 \in A
    <3>1. SUFFICES ASSUME (i + 1) + 1 <= L
                   PROVE  f[(i + 1) + 1] \in Seq(X)
      OBVIOUS
    <3>2. /\ f[i + 1] \in Seq(X) /\ (i + 1) + 1 \in 1 .. L
          /\ ((i + 1) + 1) - 1 = i + 1 /\ (i + 1) + 1 # 1
      BY <1>a, <3>1
    <3>3. f[(i + 1) + 1] = f[i + 1] \o seqs[(i + 1) + 1]
      BY <1>3, <3>2
    <3>4. seqs[(i + 1) + 1] \in Seq(X)
      BY <1>a, <3>2
    <3> QED BY <3>2, <3>3, <3>4
  <2>3. A \in SUBSET Nat
    OBVIOUS
  <2>4. \A i \in Nat : i \in A
    <3> HIDE DEF A
    <3> QED BY <2>1, <2>2, <2>3, NumbersByStep
  <2> QED BY <2>4
<1>5. ASSUME NEW i \in 1 .. L
      PROVE  /\ f[i] \in Seq(X)
             /\ f[i] = IF i = 1 THEN seqs[i] ELSE f[i - 1] \o seqs[i]
  <2>1. i - 1 \in Nat /\ (i - 1) + 1 = i /\ i <= L
    BY <1>a
  <2>2. (i - 1) + 1 <= L => f[(i - 1) + 1] \in Seq(X)
    BY <1>4, <2>1
  <2>3. f[i] = IF i = 1 THEN seqs[i] ELSE f[i - 1] \o seqs[i]
    BY <1>3
  <2> HIDE DEF L
  <2> QED BY <2>1, <2>2, <2>3
<1>6. FlattenSeq(seqs) = f[L]
  <2> HIDE DEF is
  <2> QED BY <1>1, <1>f
<1> HIDE DEF is
<1> QED BY <1>5, <1>6

(* So the whole has the elements of them, and nothing else. *)
LEMMA FlattenHolds ==
    ASSUME NEW X, NEW seqs \in Seq(Seq(X))
    PROVE  /\ FlattenSeq(seqs) \in Seq(X)
           /\ \A i \in DOMAIN seqs : \A n \in DOMAIN seqs[i] :
                 \E m \in DOMAIN FlattenSeq(seqs) : FlattenSeq(seqs)[m] = seqs[i][n]
<1>l. PICK L : L = Len(seqs)
  OBVIOUS
<1>1. L \in Nat /\ DOMAIN seqs = 1 .. L /\ \A i \in 1 .. L : seqs[i] \in Seq(X)
  BY <1>l
<1>2. CASE L = 0
  <2>1. seqs = <<>> /\ DOMAIN seqs = {}
    BY <1>1, <1>2, <1>l
  <2>2. FlattenSeq(seqs) = seqs
    BY <1>2, <1>l DEF FlattenSeq
  <2>3. <<>> \in Seq(X)
    OBVIOUS
  <2> QED BY <2>1, <2>2, <2>3
<1>3. CASE L # 0
  <2>f. PICK f : /\ FlattenSeq(seqs) = f[L]
                 /\ \A i \in 1 .. L :
                       /\ f[i] \in Seq(X)
                       /\ f[i] = IF i = 1 THEN seqs[i] ELSE f[i - 1] \o seqs[i]
    BY <1>3, <1>l, FlattenSteps
  <2> DEFINE Has(s, i) == \A n \in DOMAIN seqs[i] : \E m \in DOMAIN s : s[m] = seqs[i][n]
             G == {j \in Nat : j + 1 <= L => \A i \in 1 .. j + 1 : Has(f[j + 1], i)}
  <2>1. 0 \in G
    <3>1. 1 .. 0 + 1 = {1}
      OBVIOUS
    <3>2. 0 + 1 <= L => f[1] = seqs[1]
      BY <1>1, <2>f
    <3>3. 0 + 1 <= L => Has(f[1], 1)
      BY <3>2
    <3> QED BY <3>1, <3>3
  <2>2. ASSUME NEW j \in G
        PROVE  j + 1 \in G
    <3>0. j + 1 \in Nat
      OBVIOUS
    <3>1. SUFFICES ASSUME (j + 1) + 1 <= L, NEW i \in 1 .. (j + 1) + 1
                   PROVE  Has(f[(j + 1) + 1], i)
      <4> HIDE DEF Has
      <4> QED BY <3>0
    <3>k. PICK k : k = j + 1
      OBVIOUS
    <3>2. j \in Nat /\ k \in 1 .. L /\ k + 1 \in 1 .. L /\ (k + 1) - 1 = k /\ k + 1 # 1 /\ i \in 1 .. k + 1
      BY <1>1, <3>1, <3>k
    <3>3. \A x \in 1 .. k : Has(f[k], x)
      BY <3>2, <3>k
    <3>g. PICK g, s : g = f[k] /\ s = seqs[k + 1]
      OBVIOUS
    <3>4. f[k + 1] = g \o s /\ g \in Seq(X) /\ s \in Seq(X)
      BY <1>1, <2>f, <3>2, <3>g
    <3>5. /\ \A m \in DOMAIN g : m \in DOMAIN (g \o s) /\ (g \o s)[m] = g[m]
          /\ \A m \in DOMAIN s : Len(g) + m \in DOMAIN (g \o s) /\ (g \o s)[Len(g) + m] = s[m]
      BY <3>4
    <3>6. CASE i = k + 1
      <4>1. seqs[i] = s
        BY <3>6, <3>g
      <4> QED BY <3>4, <3>5, <3>k, <4>1
    <3>7. CASE i # k + 1
      <4>1. i \in 1 .. k
        BY <3>2, <3>7
      <4>2. Has(g, i)
        BY <3>3, <3>g, <4>1
      <4>3. Has(g \o s, i)
        <5>1. ASSUME NEW n \in DOMAIN seqs[i]
              PROVE  \E m \in DOMAIN (g \o s) : (g \o s)[m] = seqs[i][n]
          <6>1. PICK m \in DOMAIN g : g[m] = seqs[i][n]
            BY <4>2
          <6> QED BY <3>5, <6>1
        <5> QED BY <5>1
      <4> QED BY <3>4, <3>k, <4>3
    <3> QED BY <3>6, <3>7
  <2>3. G \in SUBSET Nat
    OBVIOUS
  <2>4. \A j \in Nat : j \in G
    <3> HIDE DEF G
    <3> QED BY <2>1, <2>2, <2>3, NumbersByStep
  <2>5. \A i \in 1 .. L : Has(f[L], i)
    <3>1. L - 1 \in Nat /\ (L - 1) + 1 = L
      BY <1>1, <1>3
    <3>2. L - 1 \in G
      BY <2>4, <3>1
    <3>3. (L - 1) + 1 <= L => \A i \in 1 .. (L - 1) + 1 : Has(f[(L - 1) + 1], i)
      <4> HIDE DEF Has
      <4> QED BY <3>2
    <3> HIDE DEF Has
    <3> QED BY <1>1, <3>1, <3>3
  <2>6. f[L] \in Seq(X)
    BY <1>1, <1>3, <2>f
  <2> QED BY <1>1, <2>5, <2>6, <2>f
<1> QED BY <1>2, <1>3

-----------------------------------------------------------------------------
(* The selection: its invariant, kept by every turn.                       *)

Keys == [kind : {"local", "ip", "unknown"}, at : Seq(Nat)]

(* The hops of a trace: they begin at the local node, and neighbours differ. *)
HopLists ==
    {s \in Seq(Keys) : /\ Len(s) >= 1 /\ Len(s) <= MaxRouteNodes /\ s[1] = Local
                       /\ \A n \in 1 .. Len(s) - 1 : s[n] # s[n + 1]}

TraceSet == [result : Nat, attempt : Nat, reached : BOOLEAN, keys : HopLists]

ResultsOf(routes) == {routes[i].result : i \in DOMAIN routes}

Selections(routes) ==
    [nodes : Seq(Keys), links : SUBSET (Keys \X Keys), accepted : [DOMAIN routes -> Nat],
     blocked : SUBSET (DOMAIN routes), cursor : [ResultsOf(routes) -> Nat],
     limited : SUBSET {"node_limit", "link_limit"}, taken : Nat]

Distinctly(s) == \A m, n \in DOMAIN s : s[m] = s[n] => m = n

Holds(s, k) == \E n \in DOMAIN s : s[n] = k

(* What is accepted of an attempt is a part of it that was selected. *)
Selected(st, routes, i) ==
    /\ st.accepted[i] <= Len(routes[i].keys) - 1
    /\ \A n \in 1 .. st.accepted[i] : /\ Edge(routes, i, n) \in st.links
                                      /\ Holds(st.nodes, routes[i].keys[n])
                                      /\ Holds(st.nodes, routes[i].keys[n + 1])

SelectionInv(st, routes) ==
    /\ st \in Selections(routes)
    /\ Len(st.nodes) <= MaxNodes /\ Distinctly(st.nodes)
    /\ IsFiniteSet(st.links) /\ Cardinality(st.links) <= MaxLinks
    /\ \A i \in DOMAIN routes : Selected(st, routes, i)

(* The attempts have at least one hop. *)
LEMMA HopsOf ==
    ASSUME NEW routes \in Seq(TraceSet), NEW i \in DOMAIN routes
    PROVE  /\ routes[i] \in TraceSet /\ routes[i].result \in Nat
           /\ routes[i].keys \in Seq(Keys) /\ Len(routes[i].keys) \in Nat \ {0}
           /\ Len(routes[i].keys) <= MaxRouteNodes
           /\ DOMAIN routes[i].keys = 1 .. Len(routes[i].keys)
           /\ \A n \in 1 .. Len(routes[i].keys) : routes[i].keys[n] \in Keys
           /\ routes[i].keys[1] = Local
           /\ \A n \in 1 .. Len(routes[i].keys) - 1 : routes[i].keys[n] # routes[i].keys[n + 1]
<1>r. PICK trace : trace = routes[i]
  OBVIOUS
<1>1. trace \in TraceSet
  BY <1>r
<1>2. trace.result \in Nat /\ trace.keys \in HopLists
  BY <1>1 DEF TraceSet
<1>k. PICK s : s = trace.keys
  OBVIOUS
<1>3. /\ s \in Seq(Keys) /\ Len(s) >= 1 /\ Len(s) <= MaxRouteNodes /\ s[1] = Local
      /\ \A n \in 1 .. Len(s) - 1 : s[n] # s[n + 1]
  BY <1>2, <1>k DEF HopLists
<1>4. Len(s) \in Nat \ {0} /\ DOMAIN s = 1 .. Len(s) /\ \A n \in 1 .. Len(s) : s[n] \in Keys
  BY <1>3
<1> QED BY <1>r, <1>k, <1>1, <1>2, <1>3, <1>4

(* A selection runs over finitely many attempts, and a turn finds the      *)
(* attempts of its target.                                                 *)
LEMMA RoutesAreFinite ==
    ASSUME NEW routes \in Seq(TraceSet)
    PROVE  /\ IsFiniteSet(DOMAIN routes) /\ DOMAIN routes \in SUBSET Nat
           /\ DOMAIN routes = 1 .. Len(routes) /\ Len(routes) \in Nat
           /\ IsFiniteSet(ResultsOf(routes)) /\ ResultsOf(routes) \in SUBSET Nat
<1>1. DOMAIN routes = 1 .. Len(routes) /\ Len(routes) \in Nat
  OBVIOUS
<1>2. IsFiniteSet(DOMAIN routes)
  BY <1>1, FS_Interval
<1>f. PICK f : f = [i \in DOMAIN routes |-> routes[i].result]
  OBVIOUS
<1>3. f \in [DOMAIN routes -> ResultsOf(routes)] /\ \A r \in ResultsOf(routes) : \E i \in DOMAIN routes : f[i] = r
  BY <1>f DEF ResultsOf
<1>4. IsFiniteSet(ResultsOf(routes))
  BY <1>2, <1>3, ImageSize
<1>5. ResultsOf(routes) \in SUBSET Nat
  BY HopsOf DEF ResultsOf
<1> QED BY <1>1, <1>2, <1>4, <1>5

(* A node is added once. *)
LEMMA WithHolds ==
    ASSUME NEW s \in Seq(Keys), NEW k \in Keys
    PROVE  /\ With(s, k) \in Seq(Keys) /\ Holds(With(s, k), k)
           /\ \A other : Holds(s, other) => Holds(With(s, k), other)
           /\ Distinctly(s) => Distinctly(With(s, k))
<1>1. DOMAIN s = 1 .. Len(s) /\ Len(s) \in Nat
  OBVIOUS
<1>2. CASE Holds(s, k)
  <2>1. With(s, k) = s
    BY <1>1, <1>2 DEF With, Contains, Holds
  <2> QED BY <1>2, <2>1
<1>3. CASE ~Holds(s, k)
  <2>t. PICK t : t = Append(s, k)
    OBVIOUS
  <2>1. With(s, k) = t
    BY <1>1, <1>3, <2>t DEF With, Contains, Holds
  <2>2. /\ t \in Seq(Keys) /\ DOMAIN t = 1 .. Len(s) + 1 /\ t[Len(s) + 1] = k
        /\ \A n \in 1 .. Len(s) : t[n] = s[n]
    BY <1>1, <2>t
  <2>3. Holds(t, k)
    BY <1>1, <2>2 DEF Holds
  <2>4. \A other : Holds(s, other) => Holds(t, other)
    BY <1>1, <2>2 DEF Holds
  <2>5. Distinctly(s) => Distinctly(t)
    <3>1. SUFFICES ASSUME Distinctly(s), NEW m \in DOMAIN t, NEW n \in DOMAIN t, t[m] = t[n]
                   PROVE  m = n
      BY DEF Distinctly
    <3>2. CASE m \in 1 .. Len(s) /\ n \in 1 .. Len(s)
      BY <1>1, <2>2, <3>1, <3>2 DEF Distinctly
    <3>3. CASE m = Len(s) + 1 /\ n \in 1 .. Len(s)
      BY <1>1, <1>3, <2>2, <3>1, <3>3 DEF Holds
    <3>4. CASE n = Len(s) + 1 /\ m \in 1 .. Len(s)
      BY <1>1, <1>3, <2>2, <3>1, <3>4 DEF Holds
    <3>5. CASE m = Len(s) + 1 /\ n = Len(s) + 1
      BY <3>5
    <3>6. m \in 1 .. Len(s) \cup {Len(s) + 1} /\ n \in 1 .. Len(s) \cup {Len(s) + 1}
      BY <1>1, <2>2
    <3> QED BY <3>2, <3>3, <3>4, <3>5, <3>6
  <2> QED BY <2>1, <2>2, <2>3, <2>4, <2>5
<1> QED BY <1>2, <1>3

(* An attempt that is open gets one hop further, or is blocked and leaves  *)
(* what was selected alone.                                                *)
LEMMA AcceptFields ==
    ASSUME NEW routes \in Seq(TraceSet), NEW st \in Selections(routes), IsFiniteSet(st.links),
           NEW i \in DOMAIN routes, Open(st, routes, i)
    PROVE  LET y == Accept(st, routes, i)
               edge == Edge(routes, i, st.accepted[i] + 1)
               nodes == With(With(st.nodes, edge[1]), edge[2])
               links == st.links \cup {edge}
           IN  /\ y \in Selections(routes) /\ y.cursor = st.cursor
               /\ \/ /\ y.nodes = st.nodes /\ y.links = st.links
                     /\ y.accepted = st.accepted /\ y.taken = st.taken
                  \/ /\ Len(nodes) <= MaxNodes /\ Cardinality(links) <= MaxLinks
                     /\ y.nodes = nodes /\ y.links = links
                     /\ y.accepted = [st.accepted EXCEPT ![i] = @ + 1] /\ y.taken = st.taken + 1
<1>y. PICK y : y = Accept(st, routes, i)
  OBVIOUS
<1>e. PICK edge : edge = Edge(routes, i, st.accepted[i] + 1)
  OBVIOUS
<1>n. PICK nodes : nodes = With(With(st.nodes, edge[1]), edge[2])
  OBVIOUS
<1>l. PICK links : links = st.links \cup {edge}
  OBVIOUS
<1>t. /\ st.nodes \in Seq(Keys) /\ st.links \in SUBSET (Keys \X Keys)
      /\ st.accepted \in [DOMAIN routes -> Nat] /\ st.blocked \in SUBSET (DOMAIN routes)
      /\ st.limited \in SUBSET {"node_limit", "link_limit"} /\ st.taken \in Nat
  BY DEF Selections
<1>1. st.accepted[i] \in Nat /\ st.accepted[i] < Len(routes[i].keys) - 1
  BY <1>t DEF Open
<1>2. edge \in Keys \X Keys
  <2>1. st.accepted[i] + 1 \in 1 .. Len(routes[i].keys) /\ st.accepted[i] + 2 \in 1 .. Len(routes[i].keys)
    <3>1. PICK n, size : n = st.accepted[i] /\ size = Len(routes[i].keys)
      OBVIOUS
    <3>2. n \in Nat /\ size \in Nat /\ n < size - 1
      BY <1>1, <3>1, HopsOf
    <3>3. n + 1 \in 1 .. size /\ n + 2 \in 1 .. size
      BY ONLY <3>2
    <3> QED BY ONLY <3>1, <3>3
  <2>2. (st.accepted[i] + 1) + 1 = st.accepted[i] + 2
    BY <1>1
  <2>3. routes[i].keys[st.accepted[i] + 1] \in Keys /\ routes[i].keys[st.accepted[i] + 2] \in Keys
    BY <2>1, HopsOf
  <2> QED BY <1>e, <2>2, <2>3 DEF Edge
<1>3. nodes \in Seq(Keys) /\ links \in SUBSET (Keys \X Keys)
  <2>1. edge[1] \in Keys /\ edge[2] \in Keys
    BY <1>2
  <2>2. With(st.nodes, edge[1]) \in Seq(Keys)
    BY <1>t, <2>1, WithHolds
  <2> QED BY <1>t, <1>l, <1>n, <1>2, <2>1, <2>2, WithHolds
<1>4. y = IF Len(nodes) > MaxNodes
          THEN [st EXCEPT !.blocked = @ \cup {i}, !.limited = @ \cup {"node_limit"}]
          ELSE IF Cardinality(links) > MaxLinks
          THEN [st EXCEPT !.blocked = @ \cup {i}, !.limited = @ \cup {"link_limit"}]
          ELSE [st EXCEPT !.nodes = nodes, !.links = links, !.accepted[i] = @ + 1, !.taken = @ + 1]
  BY <1>y, <1>e, <1>n, <1>l DEF Accept
<1>5. CASE Len(nodes) > MaxNodes
  <2>1. y = [st EXCEPT !.blocked = @ \cup {i}, !.limited = @ \cup {"node_limit"}]
    BY <1>4, <1>5
  <2>2. /\ y \in Selections(routes) /\ y.cursor = st.cursor /\ y.nodes = st.nodes
        /\ y.links = st.links /\ y.accepted = st.accepted /\ y.taken = st.taken
    BY <2>1 DEF Selections
  <2> QED BY <1>y, <2>2
<1>6. CASE ~(Len(nodes) > MaxNodes) /\ Cardinality(links) > MaxLinks
  <2>1. y = [st EXCEPT !.blocked = @ \cup {i}, !.limited = @ \cup {"link_limit"}]
    BY <1>4, <1>6
  <2>2. /\ y \in Selections(routes) /\ y.cursor = st.cursor /\ y.nodes = st.nodes
        /\ y.links = st.links /\ y.accepted = st.accepted /\ y.taken = st.taken
    BY <2>1 DEF Selections
  <2> QED BY <1>y, <2>2
<1>7. CASE ~(Len(nodes) > MaxNodes) /\ ~(Cardinality(links) > MaxLinks)
  <2>1. y = [st EXCEPT !.nodes = nodes, !.links = links, !.accepted[i] = @ + 1, !.taken = @ + 1]
    BY <1>4, <1>7
  <2>a. PICK acc : acc = [st.accepted EXCEPT ![i] = @ + 1]
    OBVIOUS
  <2>2. acc \in [DOMAIN routes -> Nat]
    BY <1>t, <2>a
  <2>3. y = [st EXCEPT !.nodes = nodes, !.links = links, !.accepted = acc, !.taken = @ + 1]
    BY <2>1, <2>a
  <2>z. PICK z : z = [st EXCEPT !.nodes = nodes, !.links = links]
    OBVIOUS
  <2>6. /\ z \in Selections(routes) /\ z.cursor = st.cursor /\ z.nodes = nodes
        /\ z.links = links /\ z.taken = st.taken
    BY <1>3, <2>z DEF Selections
  <2>7. y = [z EXCEPT !.accepted = acc, !.taken = st.taken + 1]
    BY <2>3, <2>z DEF Selections
  <2>8. st.taken + 1 \in Nat
    BY <1>t
  <2>4. /\ y \in Selections(routes) /\ y.cursor = st.cursor /\ y.nodes = nodes
        /\ y.links = links /\ y.accepted = acc /\ y.taken = st.taken + 1
    BY <2>2, <2>6, <2>7, <2>8 DEF Selections
  <2>5. Len(nodes) <= MaxNodes /\ Cardinality(links) <= MaxLinks
    <3>1. Len(nodes) \in Nat
      BY <1>3
    <3>2. Cardinality(links) \in Nat
      BY <1>l, FS_AddElement, FS_CardinalityType
    <3>3. MaxNodes \in Nat /\ MaxLinks \in Nat
      BY PrefixAssumption
    <3> QED BY <1>7, <3>1, <3>2, <3>3
  <2> QED BY <1>y, <1>e, <1>n, <1>l, <2>a, <2>4, <2>5
<1> QED BY <1>5, <1>6, <1>7

(* A remainder stays below its divisor.                                    *)
LEMMA ModRange ==
    ASSUME NEW a \in Nat, NEW b \in Nat \ {0}
    PROVE  a % b \in 0 .. b - 1
OBVIOUS

(* What a step of the selection leaves alone if it accepts no hop. *)
SameSelection(st, y) ==
    y.nodes = st.nodes /\ y.links = st.links /\ y.accepted = st.accepted /\ y.taken = st.taken

(* The types of a selection.                                               *)
LEMMA SelectionTypes ==
    ASSUME NEW routes, NEW st, SelectionInv(st, routes)
    PROVE  /\ st.nodes \in Seq(Keys) /\ st.links \in SUBSET (Keys \X Keys)
           /\ st.accepted \in [DOMAIN routes -> Nat] /\ st.taken \in Nat
           /\ st.cursor \in [ResultsOf(routes) -> Nat]
           /\ st.limited \in SUBSET {"node_limit", "link_limit"}
BY DEF SelectionInv, Selections

(* Accepting keeps the selection sound. *)
LEMMA AcceptHolds ==
    ASSUME NEW routes \in Seq(TraceSet), NEW st, SelectionInv(st, routes),
           NEW i \in DOMAIN routes, Open(st, routes, i)
    PROVE  LET y == Accept(st, routes, i)
           IN  SelectionInv(y, routes) /\ (SameSelection(st, y) \/ y.taken = st.taken + 1)
<1>y. PICK y : y = Accept(st, routes, i)
  OBVIOUS
<1>e. PICK edge : edge = Edge(routes, i, st.accepted[i] + 1)
  OBVIOUS
<1>n. PICK nodes : nodes = With(With(st.nodes, edge[1]), edge[2])
  OBVIOUS
<1>l. PICK links : links = st.links \cup {edge}
  OBVIOUS
<1>1. /\ y \in Selections(routes)
      /\ \/ SameSelection(st, y)
         \/ /\ Len(nodes) <= MaxNodes /\ Cardinality(links) <= MaxLinks
            /\ y.nodes = nodes /\ y.links = links
            /\ y.accepted = [st.accepted EXCEPT ![i] = @ + 1] /\ y.taken = st.taken + 1
  <2>1. st \in Selections(routes) /\ IsFiniteSet(st.links)
    BY DEF SelectionInv
  <2>2. /\ y \in Selections(routes)
        /\ \/ /\ y.nodes = st.nodes /\ y.links = st.links
              /\ y.accepted = st.accepted /\ y.taken = st.taken
           \/ /\ Len(nodes) <= MaxNodes /\ Cardinality(links) <= MaxLinks
              /\ y.nodes = nodes /\ y.links = links
              /\ y.accepted = [st.accepted EXCEPT ![i] = @ + 1] /\ y.taken = st.taken + 1
    <3>1. LET z == Accept(st, routes, i)
              step == Edge(routes, i, st.accepted[i] + 1)
              more == With(With(st.nodes, step[1]), step[2])
              joined == st.links \cup {step}
          IN  /\ z \in Selections(routes) /\ z.cursor = st.cursor
              /\ \/ /\ z.nodes = st.nodes /\ z.links = st.links
                    /\ z.accepted = st.accepted /\ z.taken = st.taken
                 \/ /\ Len(more) <= MaxNodes /\ Cardinality(joined) <= MaxLinks
                    /\ z.nodes = more /\ z.links = joined
                    /\ z.accepted = [st.accepted EXCEPT ![i] = @ + 1] /\ z.taken = st.taken + 1
      BY ONLY <2>1, Open(st, routes, i), i \in DOMAIN routes, routes \in Seq(TraceSet), AcceptFields
    <3> QED BY <1>y, <1>e, <1>n, <1>l, <3>1
  <2> QED BY <2>2 DEF SameSelection
<1>2. CASE SameSelection(st, y)
  <2>1. SelectionInv(y, routes)
    BY <1>1, <1>2 DEF SelectionInv, SameSelection, Selected
  <2> QED BY <1>2, <1>y, <2>1
<1>3. CASE /\ Len(nodes) <= MaxNodes /\ Cardinality(links) <= MaxLinks
           /\ y.nodes = nodes /\ y.links = links
           /\ y.accepted = [st.accepted EXCEPT ![i] = @ + 1] /\ y.taken = st.taken + 1
  <2>1. /\ st.nodes \in Seq(Keys) /\ Distinctly(st.nodes) /\ IsFiniteSet(st.links)
        /\ st.accepted \in [DOMAIN routes -> Nat]
        /\ \A j \in DOMAIN routes : Selected(st, routes, j)
    BY SelectionTypes DEF SelectionInv
  <2>a. PICK a : a = st.accepted[i]
    OBVIOUS
  <2>k. PICK keys : keys = routes[i].keys
    OBVIOUS
  <2>2. /\ a \in Nat /\ a < Len(keys) - 1 /\ keys \in Seq(Keys) /\ Len(keys) \in Nat
        /\ \A n \in 1 .. Len(keys) : keys[n] \in Keys
    BY <2>1, <2>a, <2>k, HopsOf DEF Open
  <2>3. edge = <<keys[a + 1], keys[a + 2]>> /\ keys[a + 1] \in Keys /\ keys[a + 2] \in Keys
    <3>1. (a + 1) + 1 = a + 2 /\ a + 1 \in 1 .. Len(keys) /\ a + 2 \in 1 .. Len(keys)
      BY <2>2
    <3> QED BY <1>e, <2>a, <2>k, <2>2, <3>1 DEF Edge
  <2>4. edge[1] = keys[a + 1] /\ edge[2] = keys[a + 2]
    BY <2>3
  <2>w. PICK w : w = With(st.nodes, edge[1])
    OBVIOUS
  <2>5. /\ w \in Seq(Keys) /\ Holds(w, keys[a + 1]) /\ Distinctly(w)
        /\ \A other : Holds(st.nodes, other) => Holds(w, other)
    BY <2>1, <2>3, <2>4, <2>w, WithHolds
  <2>6. /\ nodes \in Seq(Keys) /\ Holds(nodes, keys[a + 2]) /\ Distinctly(nodes)
        /\ \A other : Holds(w, other) => Holds(nodes, other)
    BY <1>n, <2>3, <2>4, <2>5, <2>w, WithHolds
  <2>7. Holds(nodes, keys[a + 1]) /\ \A other : Holds(st.nodes, other) => Holds(nodes, other)
    BY <2>5, <2>6
  <2>8. IsFiniteSet(links)
    BY <1>l, <2>1, FS_AddElement
  <2>9. ASSUME NEW j \in DOMAIN routes
        PROVE  Selected(y, routes, j)
    <3>1. Selected(st, routes, j)
      BY <2>1
    <3>2. CASE j = i
      <4>1. y.accepted[j] = a + 1
        BY <1>3, <2>1, <2>a, <3>2
      <4>2. ASSUME NEW n \in 1 .. a + 1
            PROVE  /\ Edge(routes, j, n) \in links
                   /\ Holds(nodes, routes[j].keys[n]) /\ Holds(nodes, routes[j].keys[n + 1])
        <5>1. CASE n = a + 1
          <6>1. n + 1 = a + 2
            BY <2>2, <5>1
          <6>2. Edge(routes, j, n) = edge
            BY <1>e, <2>a, <3>2, <5>1
          <6> QED BY <1>l, <2>6, <2>7, <2>k, <3>2, <5>1, <6>1, <6>2
        <5>2. CASE n # a + 1
          <6>1. n \in 1 .. a
            BY <2>2, <5>2
          <6>2. /\ Edge(routes, j, n) \in st.links
                /\ Holds(st.nodes, routes[j].keys[n]) /\ Holds(st.nodes, routes[j].keys[n + 1])
            BY <2>a, <3>1, <3>2, <6>1 DEF Selected
          <6> QED BY <1>l, <2>7, <6>2
        <5> QED BY <5>1, <5>2
      <4>3. a + 1 <= Len(routes[j].keys) - 1
        BY <2>2, <2>k, <3>2
      <4> QED BY <1>3, <4>1, <4>2, <4>3 DEF Selected
    <3>3. CASE j # i
      <4>1. y.accepted[j] = st.accepted[j]
        BY <1>3, <2>1, <3>3
      <4> QED BY <1>3, <1>l, <2>7, <3>1, <4>1 DEF Selected
    <3> QED BY <3>2, <3>3
  <2>10. SelectionInv(y, routes)
    BY <1>1, <1>3, <2>6, <2>8, <2>9 DEF SelectionInv
  <2> QED BY <1>3, <1>y, <2>10
<1> QED BY <1>1, <1>2, <1>3

(* A turn accepts or blocks an open attempt of its result, or has none. *)
LEMMA TurnHolds ==
    ASSUME NEW routes \in Seq(TraceSet), NEW st, SelectionInv(st, routes), NEW r,
           NEW limit \in Int
    PROVE  LET y == Turn(st, routes, r, limit)
           IN  /\ SelectionInv(y, routes) /\ (SameSelection(st, y) \/ y.taken = st.taken + 1)
               /\ limit >= 0 /\ st.taken >= limit => y = st
               /\ ~(limit >= 0 /\ st.taken >= limit) => y = Turn(st, routes, r, -1)
<1> DEFINE S == {i \in DOMAIN routes : routes[i].result = r}
           group == Ascending(S)
           at(k) == (st.cursor[r] + k) % Len(group)
           offered == {k \in 0 .. Len(group) - 1 : Open(st, routes, group[at(k) + 1])}
           first == CHOOSE k \in offered : \A other \in offered : k <= other
           z == [st EXCEPT !.cursor[r] = (at(first) + 1) % Len(group)]
           i == group[at(first) + 1]
<1>1. Turn(st, routes, r, limit) =
        IF offered = {} \/ (limit >= 0 /\ st.taken >= limit) THEN st ELSE Accept(z, routes, i)
  BY DEF Turn
<1>2. Turn(st, routes, r, -1) = IF offered = {} THEN st ELSE Accept(z, routes, i)
  BY DEF Turn
<1>3. SameSelection(st, st)
  BY DEF SameSelection
<1>4. ASSUME offered # {}
      PROVE  /\ SelectionInv(Accept(z, routes, i), routes)
             /\ SameSelection(st, Accept(z, routes, i)) \/ Accept(z, routes, i).taken = st.taken + 1
  <2> HIDE DEF offered, first, at, S, group, z, i
  <2>1. S \in SUBSET Nat /\ IsFiniteSet(S)
    BY RoutesAreFinite, FS_Subset DEF S
  <2>2. group \in [1 .. Cardinality(S) -> S] /\ Cardinality(S) \in Nat
    BY <2>1, AscendingHolds DEF group
  <2>3. Len(group) = Cardinality(S)
    BY <2>2
  <2>4. Len(group) \in Nat \ {0} /\ offered \in SUBSET Nat
    BY <1>4, <2>2, <2>3 DEF offered
  <2>5. first \in offered
    <3>1. \E k \in offered : \A other \in offered : k <= other
      BY <1>4, <2>4, LeastNumber
    <3> QED BY <3>1 DEF first
  <2>6. r \in ResultsOf(routes)
    <3>1. group[1] \in S
      BY <2>2, <2>3, <2>4
    <3> QED BY <3>1 DEF S, ResultsOf
  <2>7. /\ st.cursor \in [ResultsOf(routes) -> Nat] /\ st.cursor[r] \in Nat
    BY <2>6, SelectionTypes
  <2>8. first \in Nat /\ first \in 0 .. Len(group) - 1
    BY <2>4, <2>5 DEF offered
  <2>9. at(first) \in 0 .. Len(group) - 1
    <3>1. st.cursor[r] + first \in Nat
      BY <2>7, <2>8
    <3> QED BY <2>4, <3>1, ModRange DEF at
  <2>10. i \in DOMAIN routes
    <3>1. at(first) + 1 \in 1 .. Cardinality(S)
      BY <2>2, <2>3, <2>9
    <3>2. i \in S
      BY <2>2, <3>1 DEF i
    <3> QED BY <3>2 DEF S
  <2>11. Open(st, routes, i)
    BY <2>5 DEF offered, i
  <2>12. (at(first) + 1) % Len(group) \in Nat
    <3>1. at(first) + 1 \in Nat
      BY <2>4, <2>9
    <3>2. (at(first) + 1) % Len(group) \in 0 .. Len(group) - 1
      BY <2>4, <3>1, ModRange
    <3> QED BY <2>4, <3>2
  <2>c. PICK c : c = [st.cursor EXCEPT ![r] = (at(first) + 1) % Len(group)]
    OBVIOUS
  <2>13. c \in [ResultsOf(routes) -> Nat]
    BY <2>7, <2>12, <2>c
  <2>14. st \in Selections(routes)
    BY DEF SelectionInv
  <2>15. z = [st EXCEPT !.cursor = c]
    BY <2>c, <2>14 DEF z, Selections
  <2>16. /\ z \in Selections(routes) /\ z.nodes = st.nodes /\ z.links = st.links
         /\ z.accepted = st.accepted /\ z.taken = st.taken /\ z.blocked = st.blocked
    BY <2>13, <2>14, <2>15 DEF Selections
  <2>17. SelectionInv(z, routes) /\ Open(z, routes, i)
    BY <2>11, <2>16 DEF SelectionInv, Selected, Open
  <2>a. PICK y : y = Accept(z, routes, i)
    OBVIOUS
  <2>18. SelectionInv(y, routes) /\ (SameSelection(z, y) \/ y.taken = z.taken + 1)
    BY <2>10, <2>17, <2>a, AcceptHolds
  <2> QED BY <2>16, <2>18, <2>a DEF SameSelection
<1>y. PICK y : y = Turn(st, routes, r, limit)
  OBVIOUS
<1> HIDE DEF offered, z, i
<1> QED BY <1>1, <1>2, <1>3, <1>4, <1>y

(* The selection starts with at most the local node. *)
LEMMA StartHolds ==
    ASSUME NEW routes \in Seq(TraceSet)
    PROVE  SelectionInv(Start(routes), routes) /\ Start(routes).taken = 0
<1>s. PICK st : st = Start(routes)
  OBVIOUS
<1>1. Local \in Keys
  <2>1. <<>> \in Seq(Nat)
    OBVIOUS
  <2> QED BY <2>1 DEF Local, Keys
<1>2. /\ st.nodes \in {<<>>, <<Local>>} /\ st.links = {} /\ st.taken = 0
      /\ st.accepted = [i \in DOMAIN routes |-> 0] /\ st.blocked = {} /\ st.limited = {}
      /\ st.cursor = [r \in ResultsOf(routes) |-> 0]
  BY <1>s DEF Start, ResultsOf
<1>3. st.nodes \in Seq(Keys)
  <2>1. <<>> \in Seq(Keys) /\ <<Local>> \in Seq(Keys)
    BY <1>1
  <2> QED BY <1>2, <2>1
<1>4. st \in Selections(routes)
  <2>n. PICK nodes, acc, cur : nodes = st.nodes /\ acc = st.accepted /\ cur = st.cursor
    OBVIOUS
  <2>1. st = [nodes |-> nodes, links |-> {}, accepted |-> acc, blocked |-> {}, cursor |-> cur,
              limited |-> {}, taken |-> 0]
    BY <1>s, <2>n DEF Start
  <2>2. acc \in [DOMAIN routes -> Nat] /\ cur \in [ResultsOf(routes) -> Nat]
    BY <1>2, <2>n
  <2> QED BY <1>3, <2>1, <2>2, <2>n DEF Selections
<1>5. Len(st.nodes) <= MaxNodes /\ Distinctly(st.nodes)
  <2>1. MaxNodes \in Nat \ {0}
    BY PrefixAssumption
  <2>2. /\ Len(<<>>) = 0 /\ Distinctly(<<>>)
        /\ Len(<<Local>>) = 1 /\ DOMAIN <<Local>> = {1} /\ Distinctly(<<Local>>)
    BY DEF Distinctly
  <2>3. 0 <= MaxNodes /\ 1 <= MaxNodes
    BY <2>1
  <2>4. CASE st.nodes = <<>>
    BY <2>2, <2>3, <2>4
  <2>5. CASE st.nodes = <<Local>>
    BY <2>2, <2>3, <2>5
  <2> QED BY <1>2, <2>4, <2>5
<1>6. IsFiniteSet(st.links) /\ Cardinality(st.links) <= MaxLinks
  BY <1>2, FS_EmptySet, PrefixAssumption
<1>7. \A i \in DOMAIN routes : Selected(st, routes, i)
  <2>1. ASSUME NEW i \in DOMAIN routes
        PROVE  Selected(st, routes, i)
    <3>1. st.accepted[i] = 0 /\ 1 .. 0 = {}
      BY <1>2
    <3>2. 0 <= Len(routes[i].keys) - 1
      BY HopsOf
    <3> QED BY <3>1, <3>2 DEF Selected
  <2> QED BY <2>1
<1> QED BY <1>2, <1>4, <1>5, <1>6, <1>7, <1>s DEF SelectionInv

TurnOf(routes, n) == Results(routes)[1 + (n % Len(Results(routes)))]

(* The turns: each starts from what the one before it selected. *)
LEMMA TurnsHold ==
    ASSUME NEW routes \in Seq(TraceSet), NEW limit \in Int
    PROVE  LET after == Turns(routes, limit)
           IN  /\ after[0] = Start(routes)
               /\ \A n \in Nat : /\ SelectionInv(after[n], routes)
                                 /\ after[n + 1] = Turn(after[n], routes, TurnOf(routes, n), limit)
<1> DEFINE S == {st \in Selections(routes) : SelectionInv(st, routes)}
           step == [o \in Nat \X S |-> Turn(o[2], routes, TurnOf(routes, o[1]), limit)]
           is(f) == f = [n \in Nat |->
                            IF n = 0 THEN Start(routes)
                            ELSE Turn(f[n - 1], routes,
                                      Results(routes)[1 + ((n - 1) % Len(Results(routes)))], limit)]
<1>1. Start(routes) \in S
  BY StartHolds DEF SelectionInv
<1>2. step \in [Nat \X S -> S]
  <2>1. ASSUME NEW o \in Nat \X S
        PROVE  Turn(o[2], routes, TurnOf(routes, o[1]), limit) \in S
    <3>1. o[2] \in S
      OBVIOUS
    <3>2. SelectionInv(o[2], routes)
      BY <3>1
    <3>y. PICK y : y = Turn(o[2], routes, TurnOf(routes, o[1]), limit)
      OBVIOUS
    <3>3. SelectionInv(y, routes)
      BY <3>2, <3>y, TurnHolds
    <3> QED BY <3>3, <3>y DEF SelectionInv
  <2> QED BY <2>1
<1>3. PICK h : IsRun(h, S, Start(routes), step)
  <2> HIDE DEF S, step
  <2> QED BY <1>1, <1>2, Iteration
<1>4. /\ h \in [Nat -> S] /\ h[0] = Start(routes)
      /\ \A n \in Nat : h[n + 1] = Turn(h[n], routes, TurnOf(routes, n), limit)
  <2>1. h \in [Nat -> S] /\ h[0] = Start(routes) /\ \A n \in Nat : h[n + 1] = step[<<n, h[n]>>]
    BY <1>3 DEF IsRun
  <2>2. ASSUME NEW n \in Nat
        PROVE  step[<<n, h[n]>>] = Turn(h[n], routes, TurnOf(routes, n), limit)
    <3>1. h[n] \in S
      BY <2>1
    <3>o. PICK o : o = <<n, h[n]>>
      OBVIOUS
    <3>2. o \in Nat \X S /\ o[1] = n /\ o[2] = h[n]
      BY <3>1, <3>o
    <3>3. step[o] = Turn(o[2], routes, TurnOf(routes, o[1]), limit)
      BY <3>2
    <3> HIDE DEF step
    <3> QED BY <3>2, <3>3, <3>o
  <2> HIDE DEF step
  <2> QED BY <2>1, <2>2
<1>5. is(h)
  <2>1. ASSUME NEW n \in Nat
        PROVE  h[n] = IF n = 0 THEN Start(routes)
                      ELSE Turn(h[n - 1], routes,
                                Results(routes)[1 + ((n - 1) % Len(Results(routes)))], limit)
    <3>1. CASE n = 0
      BY <1>4, <3>1
    <3>2. CASE n # 0
      <4>1. n - 1 \in Nat /\ (n - 1) + 1 = n
        BY <3>2
      <4> QED BY <1>4, <3>2, <4>1 DEF TurnOf
    <3> QED BY <3>1, <3>2
  <2>2. h = [n \in Nat |-> h[n]]
    BY <1>4
  <2> QED BY <2>1, <2>2
<1>f. PICK f : f = Turns(routes, limit)
  OBVIOUS
<1>6. is(f)
  <2>1. f = CHOOSE g : is(g)
    BY <1>f DEF Turns
  <2> HIDE DEF is
  <2> QED BY <1>5, <2>1
<1>7. f[0] = Start(routes)
  BY <1>6
<1>8. ASSUME NEW n \in Nat
      PROVE  f[n + 1] = Turn(f[n], routes, TurnOf(routes, n), limit)
  <2>1. n + 1 \in Nat /\ n + 1 # 0 /\ (n + 1) - 1 = n
    OBVIOUS
  <2> QED BY <1>6, <2>1 DEF TurnOf
<1> HIDE DEF is
<1>9. ASSUME NEW n \in Nat
      PROVE  SelectionInv(f[n], routes)
  <2> DEFINE A == {m \in Nat : SelectionInv(f[m], routes)}
  <2>1. 0 \in A
    BY <1>7, StartHolds
  <2>2. ASSUME NEW m \in A
        PROVE  m + 1 \in A
    <3>y. PICK y : y = Turn(f[m], routes, TurnOf(routes, m), limit)
      OBVIOUS
    <3>1. SelectionInv(y, routes)
      BY <3>y, TurnHolds
    <3> QED BY <1>8, <3>y, <3>1
  <2>3. A \in SUBSET Nat
    OBVIOUS
  <2>4. n \in A
    <3> HIDE DEF A
    <3> QED BY <2>1, <2>2, <2>3, NumbersByStep
  <2> QED BY <2>4
<1> QED BY <1>7, <1>8, <1>9, <1>f

(* As many turns as Select takes are a number of turns. *)
LEMMA TurnsCounted ==
    ASSUME NEW routes \in Seq(TraceSet)
    PROVE  Total([i \in DOMAIN routes |-> Len(routes[i].keys)]) * Len(Results(routes)) \in Nat
<1>1. [i \in DOMAIN routes |-> Len(routes[i].keys)] \in [DOMAIN routes -> Nat]
  BY HopsOf
<1>2. Total([i \in DOMAIN routes |-> Len(routes[i].keys)]) \in Nat
  BY <1>1, RoutesAreFinite, UnitsHold
<1>3. Results(routes) = Ascending(ResultsOf(routes))
  BY DEF Results, ResultsOf
<1>4. /\ Ascending(ResultsOf(routes)) \in [1 .. Cardinality(ResultsOf(routes)) -> ResultsOf(routes)]
      /\ Cardinality(ResultsOf(routes)) \in Nat
  BY RoutesAreFinite, AscendingHolds
<1>5. Len(Results(routes)) \in Nat
  BY <1>3, <1>4
<1> QED BY <1>2, <1>5

(* A selection is sound at its end, whatever it is limited to. *)
THEOREM SelectHolds ==
    ASSUME NEW routes \in Seq(TraceSet), NEW limit \in Int
    PROVE  SelectionInv(Select(routes, limit), routes)
BY TurnsHold, TurnsCounted DEF Select

(* A limit cuts the selection where it has accepted so many hops, and does *)
(* not change what it has selected until then.                             *)
THEOREM LimitHolds ==
    ASSUME NEW routes \in Seq(TraceSet), NEW limit \in Nat
    PROVE  LET all == Select(routes, -1)
               some == Select(routes, limit)
           IN  /\ all.taken >= limit => some.taken = limit
               /\ all.taken <= limit => SameSelection(all, some)
<1>0. -1 \in Int /\ limit \in Int
  OBVIOUS
<1>a. PICK all : all = Turns(routes, -1)
  OBVIOUS
<1>b. PICK some : some = Turns(routes, limit)
  OBVIOUS
<1>1. /\ all[0] = Start(routes)
      /\ \A n \in Nat : /\ SelectionInv(all[n], routes)
                        /\ all[n + 1] = Turn(all[n], routes, TurnOf(routes, n), -1)
  <2>1. LET after == Turns(routes, -1)
        IN  /\ after[0] = Start(routes)
            /\ \A n \in Nat : /\ SelectionInv(after[n], routes)
                              /\ after[n + 1] = Turn(after[n], routes, TurnOf(routes, n), -1)
    BY <1>0, TurnsHold
  <2> QED BY <1>a, <2>1
<1>2. /\ some[0] = Start(routes)
      /\ \A n \in Nat : /\ SelectionInv(some[n], routes)
                        /\ some[n + 1] = Turn(some[n], routes, TurnOf(routes, n), limit)
  <2>1. LET after == Turns(routes, limit)
        IN  /\ after[0] = Start(routes)
            /\ \A n \in Nat : /\ SelectionInv(after[n], routes)
                              /\ after[n + 1] = Turn(after[n], routes, TurnOf(routes, n), limit)
    BY <1>0, TurnsHold
  <2> QED BY <1>b, <2>1
<1> DEFINE Agree(n) == /\ all[n].taken < limit => some[n] = all[n]
                       /\ all[n].taken <= limit => SameSelection(all[n], some[n])
                       /\ all[n].taken >= limit => some[n].taken = limit
           A == {n \in Nat : Agree(n)}
<1>3. 0 \in A
  <2>1. all[0].taken = 0 /\ some[0] = all[0]
    BY <1>1, <1>2, StartHolds
  <2>2. SameSelection(all[0], some[0])
    BY <2>1 DEF SameSelection
  <2> QED BY <2>1, <2>2
<1>4. ASSUME NEW n \in A
      PROVE  n + 1 \in A
  <2>s. PICK x, y, u, v : /\ x = all[n] /\ y = some[n]
                          /\ u = all[n + 1] /\ v = some[n + 1]
    OBVIOUS
  <2>1. /\ SelectionInv(x, routes) /\ SelectionInv(y, routes)
        /\ u = Turn(x, routes, TurnOf(routes, n), -1)
        /\ v = Turn(y, routes, TurnOf(routes, n), limit)
    BY <1>1, <1>2, <2>s
  <2>2. x.taken \in Nat /\ y.taken \in Nat /\ u.taken \in Nat
    <3>1. SelectionInv(u, routes)
      <4>1. n + 1 \in Nat
        OBVIOUS
      <4> QED BY <1>1, <2>s, <4>1
    <3> QED BY <2>1, <3>1, SelectionTypes
  <2>3. SameSelection(x, u) \/ u.taken = x.taken + 1
    BY <2>1, TurnHolds
  <2>4. /\ x.taken < limit => y = x
        /\ x.taken <= limit => SameSelection(x, y)
        /\ x.taken >= limit => y.taken = limit
    BY <2>s
  <2>5. CASE x.taken < limit
    <3>1. ~(limit >= 0 /\ y.taken >= limit)
      BY <2>2, <2>4, <2>5
    <3>2. v = Turn(y, routes, TurnOf(routes, n), -1)
      BY <2>1, <3>1, TurnHolds
    <3>3. v = u
      BY <2>1, <2>4, <2>5, <3>2
    <3>4. u.taken <= limit
      BY <2>2, <2>3, <2>5 DEF SameSelection
    <3>5. SameSelection(u, v)
      BY <3>3 DEF SameSelection
    <3>6. u.taken < limit \/ u.taken = limit
      BY <2>2, <3>4
    <3>7. Agree(n + 1)
      BY <2>2, <2>s, <3>3, <3>4, <3>5, <3>6
    <3> QED BY <3>7
  <2>6. CASE x.taken >= limit
    <3>1. limit >= 0 /\ y.taken >= limit
      BY <2>2, <2>4, <2>6
    <3>2. v = y
      BY <2>1, <3>1, TurnHolds
    <3>3. u.taken >= limit
      BY <2>2, <2>3, <2>6 DEF SameSelection
    <3>4. ASSUME u.taken <= limit
          PROVE  SameSelection(u, v)
      <4>1. x.taken <= limit /\ SameSelection(x, u)
        BY <2>2, <2>3, <2>6, <3>4 DEF SameSelection
      <4> QED BY <2>4, <3>2, <4>1 DEF SameSelection
    <3>5. v.taken = limit
      BY <2>4, <2>6, <3>2
    <3>6. Agree(n + 1)
      BY <2>2, <2>s, <3>3, <3>4, <3>5
    <3> QED BY <3>6
  <2> QED BY <2>2, <2>5, <2>6
<1>5. \A n \in Nat : n \in A
  <2>1. A \in SUBSET Nat
    OBVIOUS
  <2> HIDE DEF A
  <2> QED BY <1>3, <1>4, <2>1, NumbersByStep
<1>m. PICK m \in Nat :
        m = Total([i \in DOMAIN routes |-> Len(routes[i].keys)]) * Len(Results(routes))
  BY TurnsCounted
<1>6. Select(routes, -1) = all[m] /\ Select(routes, limit) = some[m]
  BY <1>a, <1>b, <1>m DEF Select
<1>7. Agree(m)
  BY <1>5
<1> QED BY <1>6, <1>7

-----------------------------------------------------------------------------
(* The traces of a report.                                                 *)

(* Of the keys of a trace, neighbours that are the same become one hop: a  *)
(* hop that is kept differs from the kept one before it, because what was  *)
(* left out between them is the same as that.                              *)
LEMMA MergedHolds ==
    ASSUME NEW s \in Seq(Keys), Len(s) >= 1, Len(s) <= MaxRouteNodes, s[1] = Local
    PROVE  Merged(s) \in HopLists
<1> DEFINE S == {i \in DOMAIN s : i = 1 \/ s[i] # s[i - 1]}
           a == Ascending(S)
           c == Cardinality(S)
<1>1. Len(s) \in Nat /\ DOMAIN s = 1 .. Len(s)
  OBVIOUS
<1>m. PICK m : m = Merged(s)
  OBVIOUS
<1>2. m = At(s, S)
  BY <1>m DEF Merged
<1>3. S \in SUBSET (DOMAIN s) /\ S \in SUBSET Nat /\ 1 \in S
  BY <1>1
<1>c. c = Cardinality(S)
  OBVIOUS
<1> HIDE DEF S
<1>4. /\ IsFiniteSet(S) /\ m \in Seq(Keys) /\ Len(m) = c
      /\ \A n \in 1 .. c : m[n] = s[a[n]]
  BY <1>2, <1>3, AtHolds
<1>5. /\ c \in Nat /\ a \in [1 .. c -> S]
      /\ \A i, j \in 1 .. c : i < j => a[i] < a[j]
      /\ \A x \in S : \E i \in 1 .. c : a[i] = x
  BY <1>3, <1>4, AscendingHolds
<1> HIDE DEF a, c
<1>6. c >= 1 /\ a[1] = 1
  <2>1. PICK i \in 1 .. c : a[i] = 1
    BY <1>3, <1>5
  <2>2. i = 1
    <3>1. SUFFICES ASSUME 1 < i PROVE FALSE
      BY <1>5, <2>1
    <3>2. 1 \in 1 .. c
      BY <1>5, <2>1
    <3>3. a[1] < a[i] /\ a[1] \in S
      BY <1>5, <2>1, <3>1, <3>2
    <3> QED BY <1>1, <1>3, <2>1, <3>3
  <2> QED BY <1>5, <2>1, <2>2
<1>7. ASSUME NEW n \in 1 .. c - 1
      PROVE  m[n] # m[n + 1]
  <2>1. n \in 1 .. c /\ n + 1 \in 1 .. c
    BY <1>5
  <2>p. PICK p, q : p = a[n] /\ q = a[n + 1]
    OBVIOUS
  <2>2. p \in S /\ q \in S /\ p < q /\ p \in 1 .. Len(s) /\ q \in 1 .. Len(s)
    BY <1>1, <1>3, <1>5, <2>1, <2>p
  <2>3. \A x \in S : ~(p < x /\ x < q)
    <3>1. SUFFICES ASSUME NEW x \in S, p < x, x < q
                   PROVE  FALSE
      OBVIOUS
    <3>2. PICK i \in 1 .. c : a[i] = x
      BY <1>5
    <3>3. i <= n \/ n + 1 <= i
      BY <1>5, <2>1
    <3>4. CASE i <= n
      <4>1. i = n \/ a[i] < a[n]
        BY <1>5, <2>1, <3>2, <3>4
      <4>2. x \in Nat /\ p \in Nat
        BY <1>3, <2>2
      <4> QED BY <2>p, <3>1, <3>2, <4>1, <4>2
    <3>5. CASE n + 1 <= i
      <4>1. i = n + 1 \/ a[n + 1] < a[i]
        BY <1>5, <2>1, <3>2, <3>5
      <4>2. x \in Nat /\ q \in Nat
        BY <1>3, <2>2
      <4> QED BY <2>p, <3>1, <3>2, <4>1, <4>2
    <3> QED BY <3>3, <3>4, <3>5
  <2>4. s[q - 1] = s[p]
    <3> DEFINE A == {d \in Nat : p + d < q => s[p + d] = s[p]}
    <3>1. 0 \in A
      BY <2>2
    <3>2. ASSUME NEW d \in A
          PROVE  d + 1 \in A
      <4>1. SUFFICES ASSUME p + (d + 1) < q
                     PROVE  s[p + (d + 1)] = s[p]
        OBVIOUS
      <4>x. PICK x : x = p + (d + 1)
        OBVIOUS
      <4>2. d \in Nat /\ s[p + d] = s[p]
        BY <2>2, <4>1
      <4>3. x \in 1 .. Len(s) /\ x # 1 /\ p < x /\ x < q /\ x - 1 = p + d
        BY <1>1, <2>2, <4>1, <4>2, <4>x
      <4>4. x \notin S
        BY <2>3, <4>3
      <4>5. s[x] = s[x - 1]
        BY <1>1, <4>3, <4>4 DEF S
      <4> QED BY <4>2, <4>3, <4>5, <4>x
    <3>3. A \in SUBSET Nat
      OBVIOUS
    <3>4. (q - 1) - p \in Nat /\ p + ((q - 1) - p) = q - 1 /\ q - 1 < q
      BY <2>2
    <3>d. PICK d : d = (q - 1) - p
      OBVIOUS
    <3>5. d \in A
      <4> HIDE DEF A
      <4> QED BY <3>1, <3>2, <3>3, <3>4, <3>d, NumbersByStep
    <3> QED BY <3>4, <3>5, <3>d
  <2>5. s[q] # s[q - 1]
    <3>1. q # 1
      BY <2>2
    <3> QED BY <2>2, <3>1 DEF S
  <2> QED BY <1>4, <2>1, <2>4, <2>5, <2>p
<1>8. m[1] = Local
  BY <1>4, <1>5, <1>6
<1>9. Len(m) <= MaxRouteNodes
  <2>1. IsFiniteSet(DOMAIN s) /\ Cardinality(DOMAIN s) = Len(s)
    BY <1>1, FS_Interval
  <2>2. c <= Len(s)
    BY <1>3, <1>c, <2>1, FS_Subset
  <2>3. MaxRouteNodes \in Nat
    BY CompactAssumption DEF MaxRouteNodes
  <2> QED BY <1>1, <1>4, <1>5, <2>2, <2>3
<1> QED BY <1>4, <1>6, <1>7, <1>8, <1>9, <1>m DEF HopLists

ReportSet == Seq([kind : STRING, attempts : Seq(Attempts)])

(* The traces of a report are those of its traceroutes' attempts. *)
TracesOf(rep) ==
    {x \in TraceSet : /\ x.result \in DOMAIN rep /\ rep[x.result].kind = "traceroute"
                      /\ x.attempt \in DOMAIN rep[x.result].attempts}

(* The hops of an attempt, after the local node and merged, are a trace.   *)
LEMMA KeysOfHops ==
    ASSUME NEW hops \in Seq(Nat), Len(hops) <= MaxTraceHops + 1, NEW r \in Nat, NEW j \in Nat
    PROVE  Merged(<<Local>> \o [h \in DOMAIN hops |-> NodeKey(hops[h], r, j, h)]) \in HopLists
<1>k. PICK k : k = [h \in DOMAIN hops |-> NodeKey(hops[h], r, j, h)]
  OBVIOUS
<1>1. Local \in Keys
  <2>1. <<>> \in Seq(Nat)
    OBVIOUS
  <2> QED BY <2>1 DEF Local, Keys
<1>2. \A h \in DOMAIN hops : NodeKey(hops[h], r, j, h) \in Keys
  <2>1. ASSUME NEW h \in DOMAIN hops
        PROVE  NodeKey(hops[h], r, j, h) \in Keys
    <3>1. hops[h] \in Nat /\ h \in Nat
      OBVIOUS
    <3>2. <<hops[h]>> \in Seq(Nat) /\ <<r, j, h>> \in Seq(Nat)
      BY <3>1
    <3> QED BY <3>2 DEF NodeKey, Keys
  <2> QED BY <2>1
<1>3. k \in Seq(Keys)
  <2>1. DOMAIN hops = 1 .. Len(hops) /\ Len(hops) \in Nat
    OBVIOUS
  <2>2. k \in [1 .. Len(hops) -> Keys]
    BY <1>2, <1>k, <2>1
  <2> QED BY <2>1, <2>2
<1>s. PICK s : s = <<Local>> \o k
  OBVIOUS
<1>4. s \in Seq(Keys) /\ Len(s) >= 1 /\ Len(s) <= MaxRouteNodes /\ s[1] = Local
  <2>1. <<Local>> \in Seq(Keys) /\ Len(<<Local>>) = 1 /\ <<Local>>[1] = Local
    BY <1>1
  <2>2. Len(k) \in Nat /\ Len(k) = Len(hops)
    BY <1>3, <1>k
  <2>3. Len(s) = 1 + Len(k)
    BY <1>3, <1>s, <2>1, <2>2
  <2>4. Len(s) <= MaxRouteNodes
    BY <2>2, <2>3, CompactAssumption DEF MaxRouteNodes
  <2> QED BY <1>3, <1>s, <2>1, <2>2, <2>4
<1> QED BY <1>4, <1>k, <1>s, MergedHolds

(* CompactRoutes finds traces of the report.                               *)
LEMMA CompactRoutesHold ==
    ASSUME NEW rep \in ReportSet, NEW r \in DOMAIN rep
    PROVE  CompactRoutes(rep, r) \in Seq(TracesOf(rep))
<1>x. PICK x : x = rep[r]
  OBVIOUS
<1>1. r \in Nat /\ x \in [kind : STRING, attempts : Seq(Attempts)]
  <2>t. PICK T : T = [kind : STRING, attempts : Seq(Attempts)]
    OBVIOUS
  <2>1. rep \in Seq(T)
    BY <2>t DEF ReportSet
  <2>2. r \in Nat /\ rep[r] \in T
    BY <2>1
  <2> QED BY <1>x, <2>t, <2>2
<1>2. x.attempts \in Seq(Attempts)
  BY <1>1
<1>a. PICK attempts : attempts = rep[r].attempts
  OBVIOUS
<1>3. attempts \in Seq(Attempts)
  BY <1>2, <1>a, <1>x
<1> DEFINE S == {j \in DOMAIN attempts : attempts[j].output = "completed"}
           keys(j) == Merged(<<Local>> \o [h \in DOMAIN attempts[j].hops |->
                                             NodeKey(attempts[j].hops[h], r, j, h)])
<1>t. PICK traced : traced = Ascending(S)
  OBVIOUS
<1>4. CASE rep[r].kind # "traceroute"
  <2>1. CompactRoutes(rep, r) = <<>>
    BY <1>4 DEF CompactRoutes
  <2>2. <<>> \in Seq(TracesOf(rep))
    OBVIOUS
  <2> QED BY <2>1, <2>2
<1>5. CASE rep[r].kind = "traceroute"
  <2>1. CompactRoutes(rep, r) =
            [n \in DOMAIN traced |-> [result |-> r, attempt |-> traced[n],
                                      reached |-> attempts[traced[n]].reached,
                                      keys |-> keys(traced[n])]]
    BY <1>5, <1>a, <1>t DEF CompactRoutes
  <2>2. S \in SUBSET Nat /\ IsFiniteSet(S)
    <3>1. DOMAIN attempts = 1 .. Len(attempts) /\ Len(attempts) \in Nat
      BY <1>3
    <3>2. IsFiniteSet(DOMAIN attempts)
      BY <3>1, FS_Interval
    <3> QED BY <3>1, <3>2, FS_Subset
  <2>3. traced \in [1 .. Cardinality(S) -> S] /\ Cardinality(S) \in Nat
    BY <1>t, <2>2, AscendingHolds
  <2>4. ASSUME NEW j \in DOMAIN attempts
        PROVE  [result |-> r, attempt |-> j, reached |-> attempts[j].reached, keys |-> keys(j)]
                    \in TracesOf(rep)
    <3>1. attempts[j] \in Attempts /\ j \in Nat
      BY <1>3
    <3>2. /\ attempts[j].hops \in Seq(Nat) /\ attempts[j].reached \in BOOLEAN
          /\ Len(attempts[j].hops) <= MaxTraceHops + 1
      BY <3>1, CompactAssumption DEF Attempts
    <3>k. PICK k : k = keys(j)
      OBVIOUS
    <3>3. k \in HopLists
      BY <1>1, <3>1, <3>2, <3>k, KeysOfHops
    <3>y. PICK y : y = [result |-> r, attempt |-> j, reached |-> attempts[j].reached, keys |-> k]
      OBVIOUS
    <3>4. y \in TraceSet /\ y.result = r /\ y.attempt = j
      BY <1>1, <3>1, <3>2, <3>3, <3>y DEF TraceSet
    <3>5. y \in TracesOf(rep)
      BY <1>5, <1>a, <3>4 DEF TracesOf
    <3> QED BY <3>5, <3>k, <3>y
  <2> HIDE DEF keys, S
  <2>5. \A n \in 1 .. Cardinality(S) : traced[n] \in DOMAIN attempts
    BY <2>3 DEF S
  <2>6. CompactRoutes(rep, r) \in [1 .. Cardinality(S) -> TracesOf(rep)]
    BY <2>1, <2>3, <2>4, <2>5
  <2> QED BY <2>3, <2>6
<1> QED BY <1>4, <1>5

(* The attempts a compact topology is built from. *)
RoutesOf(rep) == FlattenSeq([r \in DOMAIN rep |-> CompactRoutes(rep, r)])

(* So does the sequence of all of them.                                    *)
LEMMA RoutesOfHold ==
    ASSUME NEW rep \in ReportSet
    PROVE  RoutesOf(rep) \in Seq(TracesOf(rep)) /\ RoutesOf(rep) \in Seq(TraceSet)
<1>q. PICK seqs : seqs = [r \in DOMAIN rep |-> CompactRoutes(rep, r)]
  OBVIOUS
<1>1. seqs \in Seq(Seq(TracesOf(rep)))
  <2>1. DOMAIN rep = 1 .. Len(rep) /\ Len(rep) \in Nat
    BY DEF ReportSet
  <2>2. seqs \in [1 .. Len(rep) -> Seq(TracesOf(rep))]
    BY <1>q, <2>1, CompactRoutesHold
  <2> QED BY <2>1, <2>2
<1>2. FlattenSeq(seqs) \in Seq(TracesOf(rep))
  BY <1>1, FlattenHolds
<1>3. \A s \in Seq(TracesOf(rep)) : s \in Seq(TraceSet)
  BY DEF TracesOf
<1> QED BY <1>2, <1>3, <1>q DEF RoutesOf

-----------------------------------------------------------------------------
(* What is displayed of a selection: nodes, links and attempts.            *)

(* What is displayed of an attempt: its accepted hops and the one they     *)
(* lead to, all of them selected.                                          *)
LEMMA DisplayedHolds ==
    ASSUME NEW routes \in Seq(TraceSet), NEW st, SelectionInv(st, routes),
           NEW i \in DOMAIN routes
    PROVE  LET d == Displayed(st, routes, i)
               keys == routes[i].keys
           IN  /\ st.accepted[i] \in Nat /\ st.accepted[i] <= Len(keys) - 1
               /\ d \in 0 .. Len(keys)
               /\ d = 0 => st.accepted[i] = 0
               /\ d > 0 => d = st.accepted[i] + 1
               /\ \A n \in 1 .. d : Holds(st.nodes, keys[n])
               /\ \A n \in 1 .. st.accepted[i] : Edge(routes, i, n) \in st.links
               /\ Prefix(st, routes, i) \in Seq(Keys) /\ Len(Prefix(st, routes, i)) = d
               /\ \A n \in 1 .. d : Prefix(st, routes, i)[n] = keys[n]
<1>k. PICK keys : keys = routes[i].keys
  OBVIOUS
<1>a. PICK a : a = st.accepted[i]
  OBVIOUS
<1>d. PICK d : d = Displayed(st, routes, i)
  OBVIOUS
<1>1. /\ keys \in Seq(Keys) /\ Len(keys) \in Nat \ {0} /\ DOMAIN keys = 1 .. Len(keys)
  BY <1>k, HopsOf
<1>2. /\ a \in Nat /\ a <= Len(keys) - 1 /\ st.nodes \in Seq(Keys)
      /\ \A n \in 1 .. a : /\ Edge(routes, i, n) \in st.links
                           /\ Holds(st.nodes, keys[n]) /\ Holds(st.nodes, keys[n + 1])
  <2>1. Selected(st, routes, i)
    BY DEF SelectionInv
  <2>2. /\ st.accepted[i] <= Len(routes[i].keys) - 1
        /\ \A n \in 1 .. st.accepted[i] : /\ Edge(routes, i, n) \in st.links
                                          /\ Holds(st.nodes, routes[i].keys[n])
                                          /\ Holds(st.nodes, routes[i].keys[n + 1])
    BY ONLY <2>1 DEF Selected
  <2>3. st.nodes \in Seq(Keys) /\ st.accepted \in [DOMAIN routes -> Nat]
    BY SelectionTypes
  <2>4. st.accepted[i] \in Nat
    BY <2>3
  <2>5. /\ a <= Len(keys) - 1
        /\ \A n \in 1 .. a : /\ Edge(routes, i, n) \in st.links
                              /\ Holds(st.nodes, keys[n]) /\ Holds(st.nodes, keys[n + 1])
    BY ONLY <1>a, <1>k, <2>2
  <2> QED BY ONLY <1>a, <2>3, <2>4, <2>5
<1>3. d = IF a > 0 THEN a + 1
          ELSE IF Len(keys) = 1 /\ Contains(st.nodes, keys[1]) THEN 1 ELSE 0
  BY <1>a, <1>d, <1>k DEF Displayed
<1>4. d \in 0 .. Len(keys) /\ (d = 0 => a = 0) /\ (d > 0 => d = a + 1)
  BY <1>1, <1>2, <1>3
<1>5. \A n \in 1 .. d : Holds(st.nodes, keys[n])
  <2>1. CASE a > 0
    <3>1. ASSUME NEW n \in 1 .. d
          PROVE  Holds(st.nodes, keys[n])
      <4>1. CASE n <= a
        <5>1. n \in 1 .. a
          BY <1>2, <4>1
        <5> QED BY <1>2, <5>1
      <4>2. CASE n = a + 1
        <5>1. a \in 1 .. a
          BY <1>2, <2>1
        <5> QED BY <1>2, <4>2, <5>1
      <4> QED BY <1>2, <1>3, <2>1, <4>1, <4>2
    <3> QED BY <3>1
  <2>2. CASE ~(a > 0) /\ Len(keys) = 1 /\ Contains(st.nodes, keys[1])
    <3>1. d = 1
      BY <1>3, <2>2
    <3>2. Holds(st.nodes, keys[1])
      <4>1. DOMAIN st.nodes = 1 .. Len(st.nodes)
        BY <1>2
      <4> QED BY <2>2, <4>1 DEF Holds, Contains
    <3>3. \A n \in 1 .. d : n = 1
      BY <3>1
    <3> QED BY <3>2, <3>3
  <2>3. CASE ~(a > 0) /\ ~(Len(keys) = 1 /\ Contains(st.nodes, keys[1]))
    BY <1>3, <2>3
  <2> QED BY <2>1, <2>2, <2>3
<1>p. PICK p : p = Prefix(st, routes, i)
  OBVIOUS
<1>6. p \in Seq(Keys) /\ Len(p) = d /\ \A n \in 1 .. d : p[n] = keys[n]
  <2>1. p = SubSeq(keys, 1, d)
    BY <1>d, <1>k, <1>p DEF Prefix
  <2>2. \A n \in 1 .. d : n \in 1 .. Len(keys)
    BY <1>1, <1>4
  <2> QED BY <1>1, <1>4, <2>1, <2>2
<1> QED BY <1>a, <1>d, <1>k, <1>p, <1>2, <1>4, <1>5, <1>6

(* The nodes of a topology: each once, no more than may be, and all that   *)
(* are displayed of some attempt.                                          *)
LEMMA SelectedKeysHold ==
    ASSUME NEW routes \in Seq(TraceSet), NEW st, SelectionInv(st, routes)
    PROVE  LET ks == SelectedKeys(st, routes)
           IN  /\ ks \in Seq(Keys) /\ Len(ks) <= MaxNodes /\ Distinctly(ks)
               /\ \A i \in DOMAIN routes : \A n \in 1 .. Displayed(st, routes, i) :
                     Holds(ks, routes[i].keys[n])
               /\ \A m \in DOMAIN ks : \E i \in DOMAIN routes :
                     \E n \in 1 .. Len(routes[i].keys) : ks[m] = routes[i].keys[n]
<1> DEFINE S == {n \in DOMAIN st.nodes :
                    \E i \in DOMAIN routes : Contains(Prefix(st, routes, i), st.nodes[n])}
<1>k. PICK ks : ks = SelectedKeys(st, routes)
  OBVIOUS
<1>n. PICK nodes : nodes = st.nodes
  OBVIOUS
<1>1. /\ nodes \in Seq(Keys) /\ Len(nodes) \in Nat /\ Len(nodes) <= MaxNodes /\ Distinctly(nodes)
      /\ DOMAIN nodes = 1 .. Len(nodes)
  <2>1. nodes \in Seq(Keys) /\ Len(nodes) <= MaxNodes /\ Distinctly(nodes)
    BY <1>n, SelectionTypes DEF SelectionInv
  <2> QED BY <2>1
<1>2. ks = At(nodes, S) /\ S \in SUBSET (DOMAIN nodes)
  BY <1>k, <1>n DEF SelectedKeys
<1>3. \A n \in DOMAIN nodes : n \in S <=> \E i \in DOMAIN routes : Contains(Prefix(st, routes, i), nodes[n])
  BY <1>n
<1> HIDE DEF S
<1>4. /\ IsFiniteSet(S) /\ Cardinality(S) \in Nat /\ Cardinality(S) <= Len(nodes)
      /\ ks \in Seq(Keys) /\ Len(ks) = Cardinality(S)
      /\ DOMAIN ks = 1 .. Cardinality(S)
      /\ \A n \in 1 .. Cardinality(S) : /\ Ascending(S)[n] \in S
                                        /\ ks[n] = nodes[Ascending(S)[n]]
      /\ \A i \in S : \E n \in 1 .. Cardinality(S) : ks[n] = nodes[i]
  BY <1>1, <1>2, AtHolds
<1>5. Len(ks) <= MaxNodes
  BY <1>1, <1>4, PrefixAssumption
<1>6. Distinctly(ks)
  <2>1. S \in SUBSET Nat
    BY <1>1, <1>2
  <2>2. \A i, j \in 1 .. Cardinality(S) : i < j => Ascending(S)[i] < Ascending(S)[j]
    BY <1>4, <2>1, AscendingHolds
  <2>3. SUFFICES ASSUME NEW m \in 1 .. Cardinality(S), NEW n \in 1 .. Cardinality(S), ks[m] = ks[n]
                 PROVE  m = n
    BY <1>4 DEF Distinctly
  <2>p. PICK p, q : p = Ascending(S)[m] /\ q = Ascending(S)[n]
    OBVIOUS
  <2>4. p \in DOMAIN nodes /\ q \in DOMAIN nodes /\ nodes[p] = nodes[q]
    BY <1>2, <1>4, <2>3, <2>p
  <2>5. p = q /\ p \in Nat
    BY <1>1, <2>4 DEF Distinctly
  <2>6. ~(m < n) /\ ~(n < m)
    <3>1. m < n => p < q
      BY <2>2, <2>p
    <3>2. n < m => q < p
      BY <2>2, <2>p
    <3> QED BY <2>5, <3>1, <3>2
  <2> QED BY <1>4, <2>6
<1>7. ASSUME NEW i \in DOMAIN routes, NEW n \in 1 .. Displayed(st, routes, i)
      PROVE  Holds(ks, routes[i].keys[n])
  <2>d. PICK d : d = Displayed(st, routes, i)
    OBVIOUS
  <2>p. PICK p : p = Prefix(st, routes, i)
    OBVIOUS
  <2>1. /\ Holds(nodes, routes[i].keys[n])
        /\ p \in Seq(Keys) /\ Len(p) = d /\ p[n] = routes[i].keys[n] /\ d \in Nat
    BY <1>n, <2>d, <2>p, DisplayedHolds, HopsOf
  <2>2. PICK m \in DOMAIN nodes : nodes[m] = routes[i].keys[n]
    BY <2>1 DEF Holds
  <2>3. Contains(p, nodes[m])
    BY <2>1, <2>2, <2>d DEF Contains
  <2>4. m \in S
    BY <1>3, <2>3, <2>p
  <2>5. PICK l \in 1 .. Cardinality(S) : ks[l] = nodes[m]
    BY <1>4, <2>4
  <2> QED BY <1>4, <2>2, <2>5 DEF Holds
<1>8. ASSUME NEW m \in DOMAIN ks
      PROVE  \E i \in DOMAIN routes : \E n \in 1 .. Len(routes[i].keys) : ks[m] = routes[i].keys[n]
  <2>l. PICK l : l = Ascending(S)[m]
    OBVIOUS
  <2>1. l \in S /\ l \in DOMAIN nodes /\ ks[m] = nodes[l]
    BY <1>2, <1>4, <2>l
  <2>2. PICK i \in DOMAIN routes : Contains(Prefix(st, routes, i), nodes[l])
    BY <1>3, <2>1
  <2>d. PICK d : d = Displayed(st, routes, i)
    OBVIOUS
  <2>p. PICK p : p = Prefix(st, routes, i)
    OBVIOUS
  <2>3. /\ d \in 0 .. Len(routes[i].keys) /\ Len(p) = d
        /\ \A n \in 1 .. d : p[n] = routes[i].keys[n]
    BY <2>d, <2>p, DisplayedHolds
  <2>4. PICK n \in 1 .. d : p[n] = nodes[l]
    BY <2>2, <2>3, <2>p DEF Contains
  <2>5. n \in 1 .. Len(routes[i].keys)
    BY <2>3, HopsOf
  <2> QED BY <2>1, <2>3, <2>4, <2>5
<1> QED BY <1>4, <1>5, <1>6, <1>7, <1>8, <1>k

(* A key has one id, and an id one key. *)
LEMMA IdOfHolds ==
    ASSUME NEW ks \in Seq(Keys), Distinctly(ks), NEW k, Holds(ks, k)
    PROVE  \E n \in DOMAIN ks : IdOf(ks, k) = <<n>> /\ ks[n] = k
<1>n. PICK n : n = CHOOSE m \in DOMAIN ks : ks[m] = k
  OBVIOUS
<1>1. n \in DOMAIN ks /\ ks[n] = k
  BY <1>n DEF Holds
<1> QED BY <1>1, <1>n DEF IdOf

(* Different nodes have different ids.                                     *)
LEMMA IdsDiffer ==
    ASSUME NEW ks \in Seq(Keys), Distinctly(ks), NEW k, Holds(ks, k), NEW l, Holds(ks, l),
           IdOf(ks, k) = IdOf(ks, l)
    PROVE  k = l
<1>1. PICK m \in DOMAIN ks : IdOf(ks, k) = <<m>> /\ ks[m] = k
  BY IdOfHolds
<1>2. PICK n \in DOMAIN ks : IdOf(ks, l) = <<n>> /\ ks[n] = l
  BY IdOfHolds
<1>3. m = n
  <2>1. <<m>> = <<n>>
    BY <1>1, <1>2
  <2> QED BY <2>1
<1> QED BY <1>1, <1>2, <1>3

(* The links of a topology are the accepted hops. *)
LEMMA PrefixPairs ==
    ASSUME NEW routes \in Seq(TraceSet), NEW st, SelectionInv(st, routes),
           NEW i \in DOMAIN routes
    PROVE  Pairs(Prefix(st, routes, i)) = {Edge(routes, i, n) : n \in 1 .. st.accepted[i]}
<1>k. PICK keys : keys = routes[i].keys
  OBVIOUS
<1>a. PICK a : a = st.accepted[i]
  OBVIOUS
<1>d. PICK d : d = Displayed(st, routes, i)
  OBVIOUS
<1>p. PICK p : p = Prefix(st, routes, i)
  OBVIOUS
<1>1. /\ a \in Nat /\ d \in Nat /\ (d = 0 => a = 0) /\ (d > 0 => d = a + 1)
      /\ Len(p) = d /\ \A n \in 1 .. d : p[n] = keys[n]
  <2>1. d \in 0 .. Len(keys) /\ Len(keys) \in Nat
    BY <1>d, <1>k, DisplayedHolds, HopsOf
  <2> QED BY <1>a, <1>d, <1>k, <1>p, <2>1, DisplayedHolds
<1>2. 1 .. Len(p) - 1 = 1 .. a
  BY <1>1
<1>3. \A n \in 1 .. a : <<p[n], p[n + 1]>> = Edge(routes, i, n)
  <2>1. ASSUME NEW n \in 1 .. a
        PROVE  <<p[n], p[n + 1]>> = Edge(routes, i, n)
    <3>1. n \in 1 .. d /\ n + 1 \in 1 .. d
      BY <1>1
    <3> QED BY <1>1, <1>k, <3>1 DEF Edge
  <2> QED BY <2>1
<1>4. Pairs(p) = {<<p[n], p[n + 1]>> : n \in 1 .. a}
  BY <1>2 DEF Pairs
<1> QED BY <1>3, <1>4, <1>a, <1>p

(* The links that are displayed. *)
EdgesShown(st, routes) == UNION {Pairs(Prefix(st, routes, i)) : i \in DOMAIN routes}

EdgeOf(routes, o) == Edge(routes, o[1], o[2])

(* A link is displayed because of the accepted hops that have it, and the  *)
(* nodes it joins are displayed and differ.                                *)
LEMMA EdgesHold ==
    ASSUME NEW routes \in Seq(TraceSet), NEW st, SelectionInv(st, routes)
    PROVE  LET ks == SelectedKeys(st, routes)
               E == EdgesShown(st, routes)
           IN  /\ IsFiniteSet(Units(st.accepted))
               /\ \A o \in Units(st.accepted) : EdgeOf(routes, o) \in E
               /\ \A e \in E : \E o \in Units(st.accepted) : e = EdgeOf(routes, o)
               /\ IsFiniteSet(E) /\ Cardinality(E) \in Nat /\ Cardinality(E) <= MaxLinks
               /\ \A e \in E : /\ e = <<e[1], e[2]>> /\ e[1] # e[2]
                               /\ Holds(ks, e[1]) /\ Holds(ks, e[2])
               /\ \A i \in DOMAIN routes : \A n \in 1 .. st.accepted[i] : Edge(routes, i, n) \in E
<1>k. PICK ks : ks = SelectedKeys(st, routes)
  OBVIOUS
<1>e. PICK E : E = EdgesShown(st, routes)
  OBVIOUS
<1>a. PICK acc : acc = st.accepted
  OBVIOUS
<1>1. acc \in [DOMAIN routes -> Nat] /\ IsFiniteSet(DOMAIN routes)
  BY <1>a, SelectionTypes, RoutesAreFinite
<1>2. /\ IsFiniteSet(Units(acc))
      /\ \A x, n : <<x, n>> \in Units(acc) <=> x \in DOMAIN routes /\ n \in 1 .. acc[x]
      /\ \A o \in Units(acc) : o = <<o[1], o[2]>> /\ o[1] \in DOMAIN routes /\ o[2] \in 1 .. acc[o[1]]
  BY <1>1, UnitsHold
<1>3. E = UNION {{Edge(routes, i, n) : n \in 1 .. acc[i]} : i \in DOMAIN routes}
  BY <1>a, <1>e, PrefixPairs DEF EdgesShown
<1>4. \A i \in DOMAIN routes : \A n \in 1 .. acc[i] : Edge(routes, i, n) \in E
  BY <1>3
<1>5. \A o \in Units(acc) : EdgeOf(routes, o) \in E
  BY <1>2, <1>4 DEF EdgeOf
<1>6. \A e \in E : \E o \in Units(acc) : e = EdgeOf(routes, o)
  <2>1. ASSUME NEW e \in E
        PROVE  \E o \in Units(acc) : e = EdgeOf(routes, o)
    <3>0. PICK i \in DOMAIN routes : \E n \in 1 .. acc[i] : e = Edge(routes, i, n)
      BY <1>3
    <3>1. PICK n \in 1 .. acc[i] : e = Edge(routes, i, n)
      BY <3>0
    <3>o. PICK o : o = <<i, n>>
      OBVIOUS
    <3>2. o \in Units(acc) /\ o[1] = i /\ o[2] = n
      BY <1>2, <3>o
    <3> QED BY <3>1, <3>2 DEF EdgeOf
  <2> QED BY <2>1
<1>7. \A e \in E : /\ e \in st.links /\ e = <<e[1], e[2]>> /\ e[1] # e[2]
                   /\ Holds(ks, e[1]) /\ Holds(ks, e[2])
  <2>1. ASSUME NEW e \in E
        PROVE  /\ e \in st.links /\ e = <<e[1], e[2]>> /\ e[1] # e[2]
               /\ Holds(ks, e[1]) /\ Holds(ks, e[2])
    <3>0. PICK i \in DOMAIN routes : \E n \in 1 .. acc[i] : e = Edge(routes, i, n)
      BY <1>3
    <3>1. PICK n \in 1 .. acc[i] : e = Edge(routes, i, n)
      BY <3>0
    <3>d. PICK d : d = Displayed(st, routes, i)
      OBVIOUS
    <3>k. PICK keys : keys = routes[i].keys
      OBVIOUS
    <3>2. /\ acc[i] \in Nat /\ acc[i] <= Len(keys) - 1 /\ d \in 0 .. Len(keys)
          /\ d = 0 => acc[i] = 0
          /\ d > 0 => d = acc[i] + 1
          /\ \A m \in 1 .. acc[i] : Edge(routes, i, m) \in st.links
      BY <1>a, <3>d, <3>k, DisplayedHolds
    <3>3. Len(keys) \in Nat /\ \A m \in 1 .. Len(keys) - 1 : keys[m] # keys[m + 1]
      BY <3>k, HopsOf
    <3>4. n \in 1 .. d /\ n + 1 \in 1 .. d /\ n \in 1 .. Len(keys) - 1
      BY <3>2, <3>3
    <3>5. e = <<keys[n], keys[n + 1]>> /\ e[1] = keys[n] /\ e[2] = keys[n + 1]
      BY <3>1, <3>k DEF Edge
    <3>6. Holds(ks, keys[n]) /\ Holds(ks, keys[n + 1])
      BY <1>k, <3>4, <3>d, <3>k, SelectedKeysHold
    <3> QED BY <3>1, <3>2, <3>3, <3>4, <3>5, <3>6
  <2> QED BY <2>1
<1>8. IsFiniteSet(E) /\ Cardinality(E) \in Nat /\ Cardinality(E) <= MaxLinks
  <2>1. IsFiniteSet(st.links) /\ Cardinality(st.links) <= MaxLinks
    BY DEF SelectionInv
  <2>2. E \subseteq st.links
    BY <1>7
  <2>3. IsFiniteSet(E) /\ Cardinality(E) <= Cardinality(st.links)
    BY <2>1, <2>2, FS_Subset
  <2>4. Cardinality(E) \in Nat /\ Cardinality(st.links) \in Nat
    BY <2>1, <2>3, FS_CardinalityType
  <2> QED BY <2>1, <2>3, <2>4, PrefixAssumption
<1> QED BY <1>2, <1>4, <1>5, <1>6, <1>7, <1>8, <1>a, <1>e, <1>k

(* The links of a topology: one for each displayed pair of nodes, observed *)
(* as often as hops were accepted along it.                                *)
LEMMA LinksHold ==
    ASSUME NEW routes \in Seq(TraceSet), NEW st, SelectionInv(st, routes)
    PROVE  LET ks == SelectedKeys(st, routes)
               links == SelectedLinks(st, routes, ks)
               E == EdgesShown(st, routes)
           IN  /\ IsFiniteSet(links) /\ Cardinality(links) = Cardinality(E)
               /\ \A l \in links : /\ {l.from, l.to} \subseteq {<<n>> : n \in DOMAIN ks}
                                   /\ l.from # l.to /\ l.observations \in Nat /\ l.observations >= 1
               /\ \A l1, l2 \in links : <<l1.from, l1.to>> = <<l2.from, l2.to>> => l1 = l2
               /\ \A e \in E : <<IdOf(ks, e[1]), IdOf(ks, e[2])>> \in {<<l.from, l.to>> : l \in links}
               /\ Total([l \in links |-> l.observations]) = Total(st.accepted)
<1>k. PICK ks : ks = SelectedKeys(st, routes)
  OBVIOUS
<1>e. PICK E : E = EdgesShown(st, routes)
  OBVIOUS
<1>u. PICK U : U = Units(st.accepted)
  OBVIOUS
<1>l. PICK links : links = SelectedLinks(st, routes, ks)
  OBVIOUS
<1> DEFINE link(e) == LinkOf(st, routes, ks, e)
<1>1. /\ IsFiniteSet(U) /\ IsFiniteSet(E)
      /\ \A o \in U : EdgeOf(routes, o) \in E
      /\ \A e \in E : \E o \in U : e = EdgeOf(routes, o)
      /\ \A e \in E : e = <<e[1], e[2]>> /\ e[1] # e[2] /\ Holds(ks, e[1]) /\ Holds(ks, e[2])
  BY <1>e, <1>k, <1>u, EdgesHold
<1>2. ks \in Seq(Keys) /\ Distinctly(ks)
  BY <1>k, SelectedKeysHold
<1>3. links = {link(e) : e \in E}
  BY <1>e, <1>l DEF SelectedLinks, EdgesShown
<1>4. \A e : /\ link(e).from = IdOf(ks, e[1]) /\ link(e).to = IdOf(ks, e[2])
             /\ link(e).observations = Cardinality({o \in U : EdgeOf(routes, o) = e})
  BY <1>u DEF LinkOf, EdgeOf
<1> HIDE DEF link
<1>5. \A e, f \in E : link(e).from = link(f).from /\ link(e).to = link(f).to => e = f
  <2>1. ASSUME NEW e \in E, NEW f \in E, link(e).from = link(f).from, link(e).to = link(f).to
        PROVE  e = f
    <3>1. e[1] = f[1] /\ e[2] = f[2]
      BY <1>1, <1>2, <1>4, <2>1, IdsDiffer
    <3> QED BY <1>1, <3>1
  <2> QED BY <2>1
<1>F. PICK F : F = [e \in E |-> link(e)]
  OBVIOUS
<1>6. IsFiniteSet(links) /\ Cardinality(links) = Cardinality(E)
  <2>1. F \in [E -> links] /\ (\A t \in links : \E e \in E : F[e] = t)
    BY <1>3, <1>F
  <2>2. \A e, f \in E : F[e] = F[f] => e = f
    BY <1>5, <1>F
  <2> QED BY <1>1, <2>1, <2>2, SameSize
<1>7. ASSUME NEW l \in links
      PROVE  /\ {l.from, l.to} \subseteq {<<n>> : n \in DOMAIN ks}
             /\ l.from # l.to /\ l.observations \in Nat /\ l.observations >= 1
  <2>1. PICK e \in E : l = link(e)
    BY <1>3
  <2>2. e[1] # e[2] /\ Holds(ks, e[1]) /\ Holds(ks, e[2])
    BY <1>1
  <2>3. l.from # l.to
    BY <1>2, <1>4, <2>1, <2>2, IdsDiffer
  <2>4. l.from \in {<<n>> : n \in DOMAIN ks} /\ l.to \in {<<n>> : n \in DOMAIN ks}
    BY <1>2, <1>4, <2>1, <2>2, IdOfHolds
  <2>p. PICK P : P = {o \in U : EdgeOf(routes, o) = e}
    OBVIOUS
  <2>5. IsFiniteSet(P)
    BY <1>1, <2>p, FS_Subset
  <2>6. P # {}
    BY <1>1, <2>p
  <2>7. Cardinality(P) \in Nat /\ Cardinality(P) # 0
    BY <2>5, <2>6, FS_CardinalityType, FS_EmptySet
  <2>8. l.observations = Cardinality(P)
    BY <1>4, <2>1, <2>p
  <2> QED BY <2>3, <2>4, <2>7, <2>8
<1>8. \A l1, l2 \in links : <<l1.from, l1.to>> = <<l2.from, l2.to>> => l1 = l2
  <2>1. ASSUME NEW l1 \in links, NEW l2 \in links, <<l1.from, l1.to>> = <<l2.from, l2.to>>
        PROVE  l1 = l2
    <3>1. PICK e \in E : l1 = link(e)
      BY <1>3
    <3>2. PICK f \in E : l2 = link(f)
      BY <1>3
    <3>3. l1.from = l2.from /\ l1.to = l2.to
      BY <2>1
    <3> QED BY <1>5, <3>1, <3>2, <3>3
  <2> QED BY <2>1
<1>9. \A e \in E : <<IdOf(ks, e[1]), IdOf(ks, e[2])>> \in {<<l.from, l.to>> : l \in links}
  <2>1. ASSUME NEW e \in E
        PROVE  <<IdOf(ks, e[1]), IdOf(ks, e[2])>> \in {<<l.from, l.to>> : l \in links}
    <3>1. link(e) \in links
      BY <1>3
    <3> QED BY <1>4, <3>1
  <2> QED BY <2>1
<1>10. Total([l \in links |-> l.observations]) = Total(st.accepted)
  <2>p. PICK p : p = [o \in U |-> link(EdgeOf(routes, o))]
    OBVIOUS
  <2>f. PICK f : f = [l \in links |-> l.observations]
    OBVIOUS
  <2>1. p \in [U -> links]
    BY <1>1, <1>3, <2>p
  <2>2. f \in [links -> Nat]
    BY <1>7, <2>f
  <2>3. ASSUME NEW l \in links
        PROVE  f[l] = Cardinality({o \in U : p[o] = l})
    <3>1. PICK e \in E : l = link(e)
      BY <1>3
    <3>2. \A o \in U : p[o] = l <=> EdgeOf(routes, o) = e
      BY <1>1, <1>5, <2>p, <3>1
    <3>3. {o \in U : p[o] = l} = {o \in U : EdgeOf(routes, o) = e}
      BY <3>2
    <3> QED BY <1>4, <2>f, <3>1, <3>3
  <2>4. IsFiniteSet(U) /\ IsFiniteSet(links)
    BY <1>1, <1>6
  <2>5. \A l \in links : f[l] = Cardinality({o \in U : p[o] = l})
    BY <2>3
  <2>6. Total(f) = Cardinality(U)
    BY ONLY <2>1, <2>2, <2>4, <2>5, PartsAddUp
  <2> QED BY <2>6, <2>f, <1>u DEF Total
<1> QED BY <1>6, <1>7, <1>8, <1>9, <1>10, <1>k, <1>e, <1>l

-----------------------------------------------------------------------------
(* Sums over parts, and the counts of what is displayed.                   *)

(* A sum of differences is the difference of the sums. *)
LEMMA TotalLess ==
    ASSUME NEW D, IsFiniteSet(D), NEW f \in [D -> Nat], NEW g \in [D -> Nat],
           \A x \in D : g[x] <= f[x]
    PROVE  Total([x \in D |-> f[x] - g[x]]) = Total(f) - Total(g)
<1>h. PICK h : h = [x \in D |-> f[x] - g[x]]
  OBVIOUS
<1>1. h \in [D -> Nat]
  BY <1>h
<1>2. /\ IsFiniteSet(Units(f)) /\ Total(f) \in Nat
      /\ \A x, n : <<x, n>> \in Units(f) <=> x \in D /\ n \in 1 .. f[x]
      /\ \A o \in Units(f) : o = <<o[1], o[2]>> /\ o[1] \in D /\ o[2] \in 1 .. f[o[1]]
  BY UnitsHold
<1>3. /\ IsFiniteSet(Units(g)) /\ Total(g) \in Nat
      /\ \A x, n : <<x, n>> \in Units(g) <=> x \in D /\ n \in 1 .. g[x]
      /\ \A o \in Units(g) : o = <<o[1], o[2]>> /\ o[1] \in D /\ o[2] \in 1 .. g[o[1]]
  BY UnitsHold
<1>4. /\ IsFiniteSet(Units(h)) /\ Total(h) \in Nat
      /\ \A x, n : <<x, n>> \in Units(h) <=> x \in D /\ n \in 1 .. h[x]
      /\ \A o \in Units(h) : o = <<o[1], o[2]>> /\ o[1] \in D /\ o[2] \in 1 .. h[o[1]]
  BY <1>1, UnitsHold
<1>r. PICK R : R = Units(f) \ Units(g)
  OBVIOUS
<1>5. \A o \in Units(g) : o \in Units(f)
  <2>1. ASSUME NEW o \in Units(g)
        PROVE  o \in Units(f)
    <3>1. o = <<o[1], o[2]>> /\ o[1] \in D /\ o[2] \in 1 .. g[o[1]]
      BY <1>3
    <3>2. o[2] \in 1 .. f[o[1]]
      BY <3>1
    <3> QED BY <1>2, <3>1, <3>2
  <2> QED BY <2>1
<1>6. IsFiniteSet(R) /\ Cardinality(R) = Total(f) - Total(g)
  <2>1. Units(f) \cap Units(g) = Units(g)
    BY <1>5
  <2> QED BY <1>2, <1>r, <2>1, FS_Difference DEF Total
<1>F. PICK F : F = [o \in Units(h) |-> <<o[1], g[o[1]] + o[2]>>]
  OBVIOUS
<1>7. \A o \in Units(h) : F[o] \in R
  <2>1. ASSUME NEW o \in Units(h)
        PROVE  F[o] \in R
    <3>1. o[1] \in D /\ o[2] \in 1 .. h[o[1]] /\ F[o] = <<o[1], g[o[1]] + o[2]>>
      BY <1>4, <1>F
    <3>2. /\ f[o[1]] \in Nat /\ g[o[1]] \in Nat /\ h[o[1]] = f[o[1]] - g[o[1]]
      BY <1>h, <3>1
    <3>3. g[o[1]] + o[2] \in 1 .. f[o[1]] /\ g[o[1]] + o[2] \notin 1 .. g[o[1]]
      BY <3>1, <3>2
    <3>4. F[o] \in Units(f) /\ F[o] \notin Units(g)
      BY <1>2, <1>3, <3>1, <3>3
    <3> QED BY <1>r, <3>4
  <2> QED BY <2>1
<1>8. \A a, b \in Units(h) : F[a] = F[b] => a = b
  <2>1. ASSUME NEW a \in Units(h), NEW b \in Units(h), F[a] = F[b]
        PROVE  a = b
    <3>1. a = <<a[1], a[2]>> /\ a[1] \in D /\ a[2] \in 1 .. h[a[1]]
      BY <1>4
    <3>2. b = <<b[1], b[2]>> /\ b[1] \in D /\ b[2] \in 1 .. h[b[1]]
      BY <1>4
    <3>3. <<a[1], g[a[1]] + a[2]>> = <<b[1], g[b[1]] + b[2]>>
      BY <1>F, <2>1
    <3>4. a[1] = b[1] /\ g[a[1]] + a[2] = g[b[1]] + b[2]
      BY <3>3
    <3>5. g[a[1]] \in Nat /\ a[2] \in Nat /\ b[2] \in Nat
      BY <1>1, <3>1, <3>2
    <3>6. a[2] = b[2]
      BY <3>4, <3>5
    <3> QED BY <3>1, <3>2, <3>4, <3>6
  <2> QED BY <2>1
<1>9. \A t \in R : \E o \in Units(h) : F[o] = t
  <2>1. ASSUME NEW t \in R
        PROVE  \E o \in Units(h) : F[o] = t
    <3>x. PICK x, n : x = t[1] /\ n = t[2]
      OBVIOUS
    <3>1. t = <<x, n>> /\ x \in D /\ n \in 1 .. f[x] /\ <<x, n>> \notin Units(g)
      BY <1>2, <1>r, <3>x
    <3>2. n \notin 1 .. g[x]
      BY <1>3, <3>1
    <3>3. f[x] \in Nat /\ g[x] \in Nat /\ h[x] = f[x] - g[x]
      BY <1>h, <3>1
    <3>4. n - g[x] \in 1 .. h[x] /\ g[x] + (n - g[x]) = n
      BY <3>1, <3>2, <3>3
    <3>o. PICK o : o = <<x, n - g[x]>>
      OBVIOUS
    <3>5. o \in Units(h) /\ o[1] = x /\ o[2] = n - g[x]
      BY <1>4, <3>1, <3>4, <3>o
    <3> QED BY <1>F, <3>1, <3>4, <3>5
  <2> QED BY <2>1
<1>10. F \in [Units(h) -> R]
  BY <1>7, <1>F
<1>11. Cardinality(R) = Cardinality(Units(h))
  BY ONLY <1>4, <1>8, <1>9, <1>10, SameSize
<1> QED BY <1>6, <1>11, <1>h DEF Total

(* A sum by parts is the sum of all. *)
ByParts(D, R, f, p) == [r \in R |-> Total([x \in {y \in D : p[y] = r} |-> f[x]])]

(* A sum is the sum of the sums of its parts.                              *)
LEMMA TotalByParts ==
    ASSUME NEW D, IsFiniteSet(D), NEW R, IsFiniteSet(R), NEW f \in [D -> Nat], NEW p \in [D -> R]
    PROVE  ByParts(D, R, f, p) \in [R -> Nat] /\ Total(ByParts(D, R, f, p)) = Total(f)
<1> DEFINE part(r) == {y \in D : p[y] = r}
           cut(r) == [x \in part(r) |-> f[x]]
<1>g. PICK g : g = [r \in R |-> Total(cut(r))]
  OBVIOUS
<1>q. PICK q : q = [o \in Units(f) |-> p[o[1]]]
  OBVIOUS
<1>2. /\ IsFiniteSet(Units(f))
      /\ \A x, n : <<x, n>> \in Units(f) <=> x \in D /\ n \in 1 .. f[x]
      /\ \A o \in Units(f) : o = <<o[1], o[2]>> /\ o[1] \in D /\ o[2] \in 1 .. f[o[1]]
  BY UnitsHold
<1>3. q \in [Units(f) -> R]
  BY <1>2, <1>q
<1>4. ASSUME NEW r \in R
      PROVE  g[r] \in Nat /\ g[r] = Cardinality({o \in Units(f) : q[o] = r})
  <2>c. PICK c : c = cut(r)
    OBVIOUS
  <2>d. PICK C : C = part(r)
    OBVIOUS
  <2>1. IsFiniteSet(C) /\ C \subseteq D /\ \A x \in D : x \in C <=> p[x] = r
    BY <2>d, FS_Subset
  <2>2. c \in [C -> Nat] /\ \A x \in C : c[x] = f[x]
    BY <2>1, <2>c, <2>d
  <2>3. /\ Total(c) \in Nat
        /\ \A x, n : <<x, n>> \in Units(c) <=> x \in C /\ n \in 1 .. c[x]
        /\ \A o \in Units(c) : o = <<o[1], o[2]>> /\ o[1] \in C /\ o[2] \in 1 .. c[o[1]]
    BY <2>1, <2>2, UnitsHold
  <2>4. \A o : o \in Units(c) <=> o \in {u \in Units(f) : q[u] = r}
    <3>1. ASSUME NEW o \in Units(c)
          PROVE  o \in Units(f) /\ q[o] = r
      <4>1. o = <<o[1], o[2]>> /\ o[1] \in C /\ o[2] \in 1 .. f[o[1]]
        BY <2>2, <2>3
      <4>2. o \in Units(f)
        BY <1>2, <2>1, <4>1
      <4> QED BY <1>q, <2>1, <4>1, <4>2
    <3>2. ASSUME NEW o \in Units(f), q[o] = r
          PROVE  o \in Units(c)
      <4>1. o = <<o[1], o[2]>> /\ o[1] \in D /\ o[2] \in 1 .. f[o[1]]
        BY <1>2
      <4>2. o[1] \in C
        BY <1>q, <2>1, <3>2, <4>1
      <4>3. o[2] \in 1 .. c[o[1]]
        BY <2>2, <4>1, <4>2
      <4> QED BY <2>3, <4>1, <4>2, <4>3
    <3> QED BY <3>1, <3>2
  <2>5. Units(c) = {u \in Units(f) : q[u] = r}
    BY <2>4
  <2>6. g[r] = Total(c)
    BY <1>g, <2>c
  <2> QED BY <2>3, <2>5, <2>6 DEF Total
<1>5. g \in [R -> Nat]
  BY <1>4, <1>g
<1>6. \A r \in R : g[r] = Cardinality({o \in Units(f) : q[o] = r})
  BY <1>4
<1>7. Total(g) = Cardinality(Units(f))
  BY ONLY IsFiniteSet(R), <1>2, <1>3, <1>5, <1>6, PartsAddUp
<1> QED BY <1>5, <1>7, <1>g DEF ByParts, Total

(* A sum does not depend on the names of what is summed. *)
Renames(F, S, T) ==
    /\ F \in [S -> T] /\ \A a, b \in S : F[a] = F[b] => a = b
    /\ \A t \in T : \E s \in S : F[s] = t

Renamed(S, F, g) == [s \in S |-> g[F[s]]]

(* A sum does not depend on what its places are called.                    *)
LEMMA TotalRenamed ==
    ASSUME NEW S, NEW T, IsFiniteSet(S), NEW F, Renames(F, S, T), NEW g \in [T -> Nat]
    PROVE  Total(Renamed(S, F, g)) = Total(g)
<1>0. /\ F \in [S -> T] /\ \A a, b \in S : F[a] = F[b] => a = b
      /\ \A t \in T : \E s \in S : F[s] = t
  BY DEF Renames
<1>h. PICK h : h = [s \in S |-> g[F[s]]]
  OBVIOUS
<1>1. h \in [S -> Nat]
  BY <1>0, <1>h
<1>2. IsFiniteSet(T)
  BY <1>0, SameSize
<1>3. /\ IsFiniteSet(Units(h))
      /\ \A x, n : <<x, n>> \in Units(h) <=> x \in S /\ n \in 1 .. h[x]
      /\ \A o \in Units(h) : o = <<o[1], o[2]>> /\ o[1] \in S /\ o[2] \in 1 .. h[o[1]]
  BY <1>1, UnitsHold
<1>4. /\ \A x, n : <<x, n>> \in Units(g) <=> x \in T /\ n \in 1 .. g[x]
      /\ \A o \in Units(g) : o = <<o[1], o[2]>> /\ o[1] \in T /\ o[2] \in 1 .. g[o[1]]
  BY <1>2, UnitsHold
<1>G. PICK G : G = [o \in Units(h) |-> <<F[o[1]], o[2]>>]
  OBVIOUS
<1>5. \A o \in Units(h) : G[o] \in Units(g)
  <2>1. ASSUME NEW o \in Units(h)
        PROVE  G[o] \in Units(g)
    <3>1. o[1] \in S /\ o[2] \in 1 .. g[F[o[1]]] /\ F[o[1]] \in T
      BY <1>0, <1>3, <1>h
    <3> QED BY <1>4, <1>G, <3>1
  <2> QED BY <2>1
<1>6. \A a, b \in Units(h) : G[a] = G[b] => a = b
  <2>1. ASSUME NEW a \in Units(h), NEW b \in Units(h), G[a] = G[b]
        PROVE  a = b
    <3>1. a = <<a[1], a[2]>> /\ a[1] \in S /\ b = <<b[1], b[2]>> /\ b[1] \in S
      BY <1>3
    <3>2. <<F[a[1]], a[2]>> = <<F[b[1]], b[2]>>
      BY <1>G, <2>1
    <3>3. F[a[1]] = F[b[1]] /\ a[2] = b[2]
      BY <3>2
    <3>4. a[1] = b[1]
      BY <1>0, <3>1, <3>3
    <3> QED BY <3>1, <3>3, <3>4
  <2> QED BY <2>1
<1>7. \A t \in Units(g) : \E o \in Units(h) : G[o] = t
  <2>1. ASSUME NEW t \in Units(g)
        PROVE  \E o \in Units(h) : G[o] = t
    <3>1. t = <<t[1], t[2]>> /\ t[1] \in T /\ t[2] \in 1 .. g[t[1]]
      BY <1>4
    <3>2. PICK s \in S : F[s] = t[1]
      BY <1>0, <3>1
    <3>o. PICK o : o = <<s, t[2]>>
      OBVIOUS
    <3>3. o[1] = s /\ o[2] = t[2] /\ o[2] \in 1 .. h[s]
      BY <1>h, <3>1, <3>2, <3>o
    <3>4. o \in Units(h)
      BY <1>3, <3>3, <3>o
    <3> QED BY <1>G, <3>1, <3>2, <3>3, <3>4
  <2> QED BY <2>1
<1>8. G \in [Units(h) -> Units(g)]
  BY <1>5, <1>G
<1>9. Cardinality(Units(g)) = Cardinality(Units(h))
  BY ONLY <1>3, <1>6, <1>7, <1>8, SameSize
<1> QED BY <1>9, <1>h DEF Renamed, Total

(* What is zero does not add to a sum. *)
LEMMA TotalOfSome ==
    ASSUME NEW D, IsFiniteSet(D), NEW C \in SUBSET D, NEW f \in [D -> Nat],
           \A x \in D : x \notin C => f[x] = 0
    PROVE  Total([x \in C |-> f[x]]) = Total(f)
<1>h. PICK h : h = [x \in C |-> f[x]]
  OBVIOUS
<1>1. h \in [C -> Nat] /\ IsFiniteSet(C)
  BY <1>h, FS_Subset
<1>3. /\ \A x, n : <<x, n>> \in Units(h) <=> x \in C /\ n \in 1 .. h[x]
      /\ \A o \in Units(h) : o = <<o[1], o[2]>> /\ o[1] \in C /\ o[2] \in 1 .. h[o[1]]
  BY <1>1, UnitsHold
<1>4. /\ \A x, n : <<x, n>> \in Units(f) <=> x \in D /\ n \in 1 .. f[x]
      /\ \A o \in Units(f) : o = <<o[1], o[2]>> /\ o[1] \in D /\ o[2] \in 1 .. f[o[1]]
  BY UnitsHold
<1>5. ASSUME NEW o \in Units(h)
      PROVE  o \in Units(f)
  <2>1. o = <<o[1], o[2]>> /\ o[1] \in C /\ o[2] \in 1 .. f[o[1]]
    BY <1>3, <1>h
  <2> QED BY <1>4, <2>1
<1>6. ASSUME NEW o \in Units(f)
      PROVE  o \in Units(h)
  <2>1. o = <<o[1], o[2]>> /\ o[1] \in D /\ o[2] \in 1 .. f[o[1]]
    BY <1>4
  <2>2. o[1] \in C
    BY <2>1
  <2>3. o[2] \in 1 .. h[o[1]]
    BY <1>h, <2>1, <2>2
  <2> QED BY <1>3, <2>1, <2>2, <2>3
<1>7. Units(h) = Units(f)
  BY <1>5, <1>6
<1> QED BY <1>7, <1>h DEF Total

(* The attempts that are displayed, of a set of them, and those of which   *)
(* nothing is missing.                                                     *)
ShownOf(st, routes, S) == {i \in S : Displayed(st, routes, i) > 0}
WholeOf(st, routes, S) == {i \in ShownOf(st, routes, S) : AcceptedWhole(st, routes, i)}

Lens(routes) == [i \in DOMAIN routes |-> Len(routes[i].keys)]
Steps(routes) == [i \in DOMAIN routes |-> Len(routes[i].keys) - 1]
Depths(st, routes) == [i \in DOMAIN routes |-> Displayed(st, routes, i)]

Only(f, S) == [x \in S |-> f[x]]

(* How many hops and links of an attempt there are and are displayed.      *)
LEMMA DepthsHold ==
    ASSUME NEW routes \in Seq(TraceSet), NEW st, SelectionInv(st, routes)
    PROVE  /\ Lens(routes) \in [DOMAIN routes -> Nat] /\ Steps(routes) \in [DOMAIN routes -> Nat]
           /\ Depths(st, routes) \in [DOMAIN routes -> Nat] /\ st.accepted \in [DOMAIN routes -> Nat]
           /\ \A i \in DOMAIN routes :
                 /\ Depths(st, routes)[i] <= Lens(routes)[i]
                 /\ st.accepted[i] <= Steps(routes)[i]
                 /\ Depths(st, routes)[i] = Displayed(st, routes, i)
                 /\ Displayed(st, routes, i) > 0 => Displayed(st, routes, i) - 1 = st.accepted[i]
                 /\ ~(Displayed(st, routes, i) > 0) => st.accepted[i] = 0
                 /\ Displayed(st, routes, i) \in Nat
<1>1. ASSUME NEW i \in DOMAIN routes
      PROVE  /\ Len(routes[i].keys) \in Nat /\ Len(routes[i].keys) - 1 \in Nat
             /\ Displayed(st, routes, i) \in Nat
             /\ Displayed(st, routes, i) <= Len(routes[i].keys)
             /\ st.accepted[i] <= Len(routes[i].keys) - 1
             /\ Displayed(st, routes, i) > 0 => Displayed(st, routes, i) - 1 = st.accepted[i]
             /\ ~(Displayed(st, routes, i) > 0) => st.accepted[i] = 0
  <2>d. PICK d : d = Displayed(st, routes, i)
    OBVIOUS
  <2>l. PICK l : l = Len(routes[i].keys)
    OBVIOUS
  <2>1. l \in Nat \ {0}
    BY <2>l, HopsOf
  <2>2. /\ st.accepted[i] \in Nat /\ st.accepted[i] <= l - 1 /\ d \in 0 .. l
        /\ d = 0 => st.accepted[i] = 0
        /\ d > 0 => d = st.accepted[i] + 1
    BY <2>d, <2>l, DisplayedHolds
  <2> QED BY <2>1, <2>2, <2>d, <2>l
<1>2. st.accepted \in [DOMAIN routes -> Nat]
  BY SelectionTypes
<1> QED BY <1>1, <1>2 DEF Lens, Steps, Depths

(* A count of what is displayed agrees if no more is displayed than there is. *)
LEMMA CountHolds ==
    ASSUME NEW a \in Nat, NEW b \in Nat, b <= a
    PROVE  /\ Count(a, b).total = a /\ Count(a, b).displayed = b /\ Count(a, b).omitted = a - b
           /\ CountAgrees(Count(a, b))
<1>c. PICK c : c = Count(a, b)
  OBVIOUS
<1>1. c.total = a /\ c.displayed = b /\ c.omitted = a - b
  BY <1>c DEF Count
<1>2. CountAgrees(c)
  BY <1>1 DEF CountAgrees
<1> QED BY <1>1, <1>2, <1>c

(* The counts of a set of attempts, in terms of all the attempts. *)
LEMMA StatsHold ==
    ASSUME NEW routes \in Seq(TraceSet), NEW st, SelectionInv(st, routes),
           NEW S \in SUBSET (DOMAIN routes)
    PROVE  LET x == ObservationStats(st, routes, S)
               shown == ShownOf(st, routes, S)
               whole == WholeOf(st, routes, S)
           IN  /\ IsFiniteSet(S) /\ IsFiniteSet(shown) /\ IsFiniteSet(whole)
               /\ x.routes = Count(Cardinality(S), Cardinality(shown))
               /\ x.complete = Cardinality(whole)
               /\ x.node_observations = Count(Total(Only(Lens(routes), S)),
                                              Total(Only(Depths(st, routes), shown)))
               /\ x.link_observations = Count(Total(Only(Steps(routes), S)),
                                              Total(Only(st.accepted, shown)))
               /\ Cardinality(S) \in Nat /\ Cardinality(shown) \in Nat /\ Cardinality(whole) \in Nat
               /\ Cardinality(shown) <= Cardinality(S)
               /\ Total(Only(Lens(routes), S)) \in Nat /\ Total(Only(Depths(st, routes), shown)) \in Nat
               /\ Total(Only(Depths(st, routes), shown)) <= Total(Only(Lens(routes), S))
               /\ Total(Only(Steps(routes), S)) \in Nat /\ Total(Only(st.accepted, shown)) \in Nat
               /\ Total(Only(st.accepted, shown)) <= Total(Only(Steps(routes), S))
               /\ StatsAgree(x)
<1>x. PICK x : x = ObservationStats(st, routes, S)
  OBVIOUS
<1>s. PICK shown : shown = ShownOf(st, routes, S)
  OBVIOUS
<1>w. PICK whole : whole = WholeOf(st, routes, S)
  OBVIOUS
<1>l. PICK lens, steps : lens = Only(Lens(routes), S) /\ steps = Only(Steps(routes), S)
  OBVIOUS
<1>d. PICK depths, acc : depths = Only(Depths(st, routes), shown) /\ acc = Only(st.accepted, shown)
  OBVIOUS
<1>1. shown \subseteq S /\ whole \subseteq shown /\ S \subseteq DOMAIN routes
  BY <1>s, <1>w DEF ShownOf, WholeOf
<1>2. IsFiniteSet(S) /\ IsFiniteSet(shown) /\ IsFiniteSet(whole)
  <2>1. IsFiniteSet(S)
    BY RoutesAreFinite, FS_Subset
  <2>2. IsFiniteSet(shown)
    BY <1>1, <2>1, FS_Subset
  <2> QED BY <1>1, <2>1, <2>2, FS_Subset
<1>3. /\ Cardinality(S) \in Nat /\ Cardinality(shown) \in Nat /\ Cardinality(whole) \in Nat
      /\ Cardinality(shown) <= Cardinality(S) /\ Cardinality(whole) <= Cardinality(shown)
  BY <1>1, <1>2, FS_CardinalityType, FS_Subset
<1>4. /\ lens \in [S -> Nat] /\ steps \in [S -> Nat] /\ depths \in [shown -> Nat] /\ acc \in [shown -> Nat]
      /\ \A i \in shown : depths[i] <= lens[i] /\ acc[i] <= steps[i]
  BY <1>1, <1>d, <1>l, DepthsHold DEF Only
<1>5. Total(lens) \in Nat /\ Total(depths) \in Nat /\ Total(depths) <= Total(lens)
  BY <1>1, <1>2, <1>4, TotalGrows
<1>6. Total(steps) \in Nat /\ Total(acc) \in Nat /\ Total(acc) <= Total(steps)
  BY <1>1, <1>2, <1>4, TotalGrows
<1>7. /\ [i \in S |-> Len(routes[i].keys)] = lens /\ [i \in S |-> Len(routes[i].keys) - 1] = steps
      /\ [i \in shown |-> Displayed(st, routes, i)] = depths /\ [i \in shown |-> st.accepted[i]] = acc
  <2>1. lens = [i \in S |-> Len(routes[i].keys)]
    BY <1>l DEF Only, Lens
  <2>2. steps = [i \in S |-> Len(routes[i].keys) - 1]
    BY <1>l DEF Only, Steps
  <2>3. depths = [i \in shown |-> Displayed(st, routes, i)]
    BY <1>1, <1>d DEF Only, Depths
  <2> QED BY <1>d, <2>1, <2>2, <2>3 DEF Only
<1>8. x = [routes |-> Count(Cardinality(S), Cardinality(shown)),
           complete |-> Cardinality(whole), partial |-> Cardinality(shown \ whole),
           node_observations |-> Count(Total(lens), Total(depths)),
           link_observations |-> Count(Total(steps), Total(acc))]
  <2>1. /\ shown = {i \in S : Displayed(st, routes, i) > 0}
        /\ whole = {i \in shown : AcceptedWhole(st, routes, i)}
    BY <1>s, <1>w DEF ShownOf, WholeOf
  <2> QED BY <1>7, <1>x, <2>1 DEF ObservationStats
<1>9. /\ x.routes = Count(Cardinality(S), Cardinality(shown))
      /\ x.complete = Cardinality(whole) /\ x.partial = Cardinality(shown \ whole)
      /\ x.node_observations = Count(Total(lens), Total(depths))
      /\ x.link_observations = Count(Total(steps), Total(acc))
  BY <1>8
<1>10. StatsAgree(x)
  <2>1. CountAgrees(x.routes) /\ x.routes.displayed = Cardinality(shown)
    BY <1>3, <1>9, CountHolds
  <2>2. CountAgrees(x.node_observations)
    BY <1>5, <1>9, CountHolds
  <2>3. CountAgrees(x.link_observations)
    BY <1>6, <1>9, CountHolds
  <2>4. Cardinality(shown \ whole) = Cardinality(shown) - Cardinality(whole)
    <3>1. shown \cap whole = whole
      BY <1>1
    <3> QED BY <1>2, <3>1, FS_Difference
  <2>5. x.routes.displayed = x.complete + x.partial
    BY <1>3, <1>9, <2>1, <2>4
  <2> QED BY <2>1, <2>2, <2>3, <2>5 DEF StatsAgree
<1> QED BY <1>2, <1>3, <1>5, <1>6, <1>9, <1>10, <1>x, <1>s, <1>w, <1>l, <1>d

CountsOf(R, a, b, part) == [r \in R |-> Count(a[r], b[r])[part]]

(* Counts of parts that add up.                                            *)
LEMMA CountsAddUp ==
    ASSUME NEW R, IsFiniteSet(R), NEW a \in [R -> Nat], NEW b \in [R -> Nat],
           \A r \in R : b[r] <= a[r]
    PROVE  \A part \in {"total", "displayed", "omitted"} :
              Total(CountsOf(R, a, b, part)) = Count(Total(a), Total(b))[part]
<1>1. \A r \in R : /\ Count(a[r], b[r])["total"] = a[r] /\ Count(a[r], b[r])["displayed"] = b[r]
                   /\ Count(a[r], b[r])["omitted"] = a[r] - b[r]
  BY DEF Count
<1>2. /\ Count(Total(a), Total(b))["total"] = Total(a) /\ Count(Total(a), Total(b))["displayed"] = Total(b)
      /\ Count(Total(a), Total(b))["omitted"] = Total(a) - Total(b)
  BY DEF Count
<1>3. Total([r \in R |-> a[r] - b[r]]) = Total(a) - Total(b)
  BY TotalLess
<1>4. /\ [r \in R |-> Count(a[r], b[r])["total"]] = a /\ [r \in R |-> Count(a[r], b[r])["displayed"]] = b
      /\ [r \in R |-> Count(a[r], b[r])["omitted"]] = [r \in R |-> a[r] - b[r]]
  BY <1>1
<1> QED BY <1>2, <1>3, <1>4 DEF CountsOf

(* The counts of the results add up to those of all attempts. *)
LEMMA SumsHold ==
    ASSUME NEW routes \in Seq(TraceSet), NEW st, SelectionInv(st, routes),
           NEW R, IsFiniteSet(R), \A i \in DOMAIN routes : routes[i].result \in R
    PROVE  LET part(r) == {i \in DOMAIN routes : routes[i].result = r}
               results == [r \in R |-> ObservationStats(st, routes, part(r))]
               stats == ObservationStats(st, routes, DOMAIN routes)
           IN  /\ \A field \in {"routes", "node_observations", "link_observations"},
                     p \in {"total", "displayed", "omitted"} :
                     Total([r \in R |-> results[r][field][p]]) = stats[field][p]
               /\ Total([r \in R |-> results[r].complete]) = stats.complete
<1>D. PICK D : D = DOMAIN routes
  OBVIOUS
<1>p. PICK p : p = [i \in D |-> routes[i].result]
  OBVIOUS
<1>1. IsFiniteSet(D) /\ p \in [D -> R]
  BY <1>D, <1>p, RoutesAreFinite
<1> DEFINE part(r) == {i \in D : p[i] = r}
           own(r) == ObservationStats(st, routes, part(r))
<1>r. PICK results : results = [r \in R |-> own(r)]
  OBVIOUS
<1>x. PICK stats : stats = ObservationStats(st, routes, D)
  OBVIOUS
<1>2. results = [r \in R |-> ObservationStats(st, routes, {i \in DOMAIN routes : routes[i].result = r})]
  <2>1. \A r : part(r) = {i \in DOMAIN routes : routes[i].result = r}
    BY <1>D, <1>p
  <2> QED BY <1>r, <2>1
<1>s. PICK shown, whole : shown = ShownOf(st, routes, D) /\ whole = WholeOf(st, routes, D)
  OBVIOUS
<1>3. \A r : /\ part(r) \in SUBSET (DOMAIN routes)
             /\ ShownOf(st, routes, part(r)) = {i \in shown : p[i] = r}
             /\ WholeOf(st, routes, part(r)) = {i \in whole : p[i] = r}
  BY <1>D, <1>s DEF ShownOf, WholeOf
<1>4. shown \subseteq D /\ whole \subseteq D /\ IsFiniteSet(shown) /\ IsFiniteSet(whole)
  <2>1. shown \subseteq D /\ whole \subseteq D
    BY <1>s DEF ShownOf, WholeOf
  <2> QED BY <1>1, <2>1, FS_Subset
<1>f. PICK lens, steps, depths, acc :
         /\ lens = Lens(routes) /\ steps = Steps(routes)
         /\ depths = Depths(st, routes) /\ acc = st.accepted
  OBVIOUS
<1>5. /\ lens \in [D -> Nat] /\ steps \in [D -> Nat] /\ depths \in [D -> Nat] /\ acc \in [D -> Nat]
  BY <1>D, <1>f, DepthsHold
(* What is counted of each result. *)
<1>c. PICK size, seen, full :
         /\ size = [r \in R |-> Cardinality(part(r))]
         /\ seen = [r \in R |-> Cardinality({i \in shown : p[i] = r})]
         /\ full = [r \in R |-> Cardinality({i \in whole : p[i] = r})]
  OBVIOUS
<1>t. PICK hops, hopsSeen, turns, turnsSeen :
         /\ hops = [r \in R |-> Total([x \in {y \in D : p[y] = r} |-> lens[x]])]
         /\ hopsSeen = [r \in R |-> Total([x \in {y \in shown : p[y] = r} |-> depths[x]])]
         /\ turns = [r \in R |-> Total([x \in {y \in D : p[y] = r} |-> steps[x]])]
         /\ turnsSeen = [r \in R |-> Total([x \in {y \in shown : p[y] = r} |-> acc[x]])]
  OBVIOUS
<1>6. ASSUME NEW r \in R
      PROVE  /\ results[r].routes = Count(size[r], seen[r]) /\ seen[r] <= size[r]
             /\ results[r].complete = full[r]
             /\ results[r].node_observations = Count(hops[r], hopsSeen[r]) /\ hopsSeen[r] <= hops[r]
             /\ results[r].link_observations = Count(turns[r], turnsSeen[r]) /\ turnsSeen[r] <= turns[r]
             /\ size[r] \in Nat /\ seen[r] \in Nat /\ full[r] \in Nat
             /\ hops[r] \in Nat /\ hopsSeen[r] \in Nat /\ turns[r] \in Nat /\ turnsSeen[r] \in Nat
  <2>S. PICK S, sh, wh : /\ S = part(r) /\ sh = ShownOf(st, routes, S)
                         /\ wh = WholeOf(st, routes, S)
    OBVIOUS
  <2>0. S \in SUBSET (DOMAIN routes)
    BY <1>3, <2>S
  <2>x. PICK x : x = ObservationStats(st, routes, S)
    OBVIOUS
  <2>1. /\ x.routes = Count(Cardinality(S), Cardinality(sh)) /\ x.complete = Cardinality(wh)
        /\ x.node_observations = Count(Total(Only(lens, S)), Total(Only(depths, sh)))
        /\ x.link_observations = Count(Total(Only(steps, S)), Total(Only(acc, sh)))
        /\ Cardinality(S) \in Nat /\ Cardinality(sh) \in Nat /\ Cardinality(wh) \in Nat
        /\ Cardinality(sh) <= Cardinality(S)
        /\ Total(Only(lens, S)) \in Nat /\ Total(Only(depths, sh)) \in Nat
        /\ Total(Only(depths, sh)) <= Total(Only(lens, S))
        /\ Total(Only(steps, S)) \in Nat /\ Total(Only(acc, sh)) \in Nat
        /\ Total(Only(acc, sh)) <= Total(Only(steps, S))
    BY <1>f, <2>0, <2>S, <2>x, StatsHold
  <2>2. results[r] = x
    BY <1>r, <2>S, <2>x
  <2>3. sh = {i \in shown : p[i] = r} /\ wh = {i \in whole : p[i] = r} /\ S = {i \in D : p[i] = r}
    BY <1>3, <2>S
  <2>4. size[r] = Cardinality(S) /\ seen[r] = Cardinality(sh) /\ full[r] = Cardinality(wh)
    BY <1>c, <2>3
  <2>5. /\ hops[r] = Total(Only(lens, S)) /\ hopsSeen[r] = Total(Only(depths, sh))
        /\ turns[r] = Total(Only(steps, S)) /\ turnsSeen[r] = Total(Only(acc, sh))
    BY <1>t, <2>3 DEF Only
  <2> QED BY <2>1, <2>2, <2>4, <2>5
<1>7. /\ size \in [R -> Nat] /\ seen \in [R -> Nat] /\ full \in [R -> Nat]
      /\ hops \in [R -> Nat] /\ hopsSeen \in [R -> Nat] /\ turns \in [R -> Nat] /\ turnsSeen \in [R -> Nat]
  BY <1>6, <1>c, <1>t
(* And of all. *)
<1>8. Total(size) = Cardinality(D)
  <2>1. \A r \in R : size[r] = Cardinality({a \in D : p[a] = r})
    BY <1>c
  <2>2. size \in [R -> Nat] /\ IsFiniteSet(D) /\ p \in [D -> R]
    BY <1>1, <1>7
  <2> QED BY ONLY <2>1, <2>2, IsFiniteSet(R), PartsAddUp
<1>9. Total(seen) = Cardinality(shown) /\ Total(full) = Cardinality(whole)
  <2>q. PICK q, q2 : q = [i \in shown |-> p[i]] /\ q2 = [i \in whole |-> p[i]]
    OBVIOUS
  <2>1. q \in [shown -> R] /\ q2 \in [whole -> R]
    BY <1>1, <1>4, <2>q
  <2>2. \A r \in R : seen[r] = Cardinality({a \in shown : q[a] = r})
    <3>1. ASSUME NEW r \in R
          PROVE  {a \in shown : q[a] = r} = {i \in shown : p[i] = r}
      BY <2>q
    <3> QED BY <1>c, <3>1
  <2>5. \A r \in R : full[r] = Cardinality({a \in whole : q2[a] = r})
    <3>2. ASSUME NEW r \in R
          PROVE  {a \in whole : q2[a] = r} = {i \in whole : p[i] = r}
      BY <2>q
    <3> QED BY <1>c, <3>2
  <2>3. Total(seen) = Cardinality(shown)
    <3>1. seen \in [R -> Nat] /\ IsFiniteSet(shown) /\ q \in [shown -> R]
      BY <1>4, <1>7, <2>1
    <3> QED BY ONLY <2>2, <3>1, IsFiniteSet(R), PartsAddUp
  <2>4. Total(full) = Cardinality(whole)
    <3>1. full \in [R -> Nat] /\ IsFiniteSet(whole) /\ q2 \in [whole -> R]
      BY <1>4, <1>7, <2>1
    <3> QED BY ONLY <2>5, <3>1, IsFiniteSet(R), PartsAddUp
  <2> QED BY <2>3, <2>4
<1>10. Total(hops) = Total(lens) /\ Total(turns) = Total(steps)
  <2>1. Total(ByParts(D, R, lens, p)) = Total(lens)
    <3>1. lens \in [D -> Nat] /\ p \in [D -> R] /\ IsFiniteSet(D)
      BY <1>1, <1>5
    <3> QED BY ONLY <3>1, IsFiniteSet(R), TotalByParts
  <2>2. Total(ByParts(D, R, steps, p)) = Total(steps)
    <3>1. steps \in [D -> Nat] /\ p \in [D -> R] /\ IsFiniteSet(D)
      BY <1>1, <1>5
    <3> QED BY ONLY <3>1, IsFiniteSet(R), TotalByParts
  <2> QED BY <1>t, <2>1, <2>2 DEF ByParts
<1>11. Total(hopsSeen) = Total(Only(depths, shown)) /\ Total(turnsSeen) = Total(Only(acc, shown))
  <2>q. PICK q : q = [i \in shown |-> p[i]]
    OBVIOUS
  <2>d. PICK d, a : d = Only(depths, shown) /\ a = Only(acc, shown)
    OBVIOUS
  <2>1. q \in [shown -> R] /\ d \in [shown -> Nat] /\ a \in [shown -> Nat]
    BY <1>1, <1>4, <1>5, <2>q, <2>d DEF Only
  <2>2. Total(ByParts(shown, R, d, q)) = Total(d)
    BY <1>4, <2>1, TotalByParts
  <2>3. Total(ByParts(shown, R, a, q)) = Total(a)
    BY <1>4, <2>1, TotalByParts
  <2>4. ASSUME NEW r \in R
        PROVE  /\ [x \in {y \in shown : q[y] = r} |-> d[x]] = [x \in {y \in shown : p[y] = r} |-> depths[x]]
               /\ [x \in {y \in shown : q[y] = r} |-> a[x]] = [x \in {y \in shown : p[y] = r} |-> acc[x]]
    <3>1. {y \in shown : q[y] = r} = {y \in shown : p[y] = r}
      BY <2>q
    <3> QED BY <2>d, <3>1 DEF Only
  <2>5. hopsSeen = ByParts(shown, R, d, q) /\ turnsSeen = ByParts(shown, R, a, q)
    BY <1>t, <2>4 DEF ByParts
  <2> QED BY <2>2, <2>3, <2>5, <2>d
<1>12. /\ stats.routes = Count(Total(size), Total(seen)) /\ stats.complete = Total(full)
       /\ stats.node_observations = Count(Total(hops), Total(hopsSeen))
       /\ stats.link_observations = Count(Total(turns), Total(turnsSeen))
  <2>1. D \in SUBSET (DOMAIN routes)
    BY <1>D
  <2>2. /\ stats.routes = Count(Cardinality(D), Cardinality(shown)) /\ stats.complete = Cardinality(whole)
        /\ stats.node_observations = Count(Total(Only(lens, D)), Total(Only(depths, shown)))
        /\ stats.link_observations = Count(Total(Only(steps, D)), Total(Only(acc, shown)))
    BY <1>f, <1>s, <1>x, <2>1, StatsHold
  <2>3. Only(lens, D) = lens /\ Only(steps, D) = steps
    BY <1>5 DEF Only
  <2> QED BY <1>8, <1>9, <1>10, <1>11, <2>2, <2>3
<1>13. ASSUME NEW part_ \in {"total", "displayed", "omitted"}
       PROVE  /\ Total([r \in R |-> results[r]["routes"][part_]]) = stats["routes"][part_]
              /\ Total([r \in R |-> results[r]["node_observations"][part_]]) = stats["node_observations"][part_]
              /\ Total([r \in R |-> results[r]["link_observations"][part_]]) = stats["link_observations"][part_]
  <2>1. Total(CountsOf(R, size, seen, part_)) = Count(Total(size), Total(seen))[part_]
    <3>1. size \in [R -> Nat] /\ seen \in [R -> Nat] /\ \A r \in R : seen[r] <= size[r]
      BY <1>6, <1>7
    <3> QED BY ONLY <3>1, IsFiniteSet(R), CountsAddUp
  <2>2. Total(CountsOf(R, hops, hopsSeen, part_)) = Count(Total(hops), Total(hopsSeen))[part_]
    <3>1. hops \in [R -> Nat] /\ hopsSeen \in [R -> Nat] /\ \A r \in R : hopsSeen[r] <= hops[r]
      BY <1>6, <1>7
    <3> QED BY ONLY <3>1, IsFiniteSet(R), CountsAddUp
  <2>3. Total(CountsOf(R, turns, turnsSeen, part_)) = Count(Total(turns), Total(turnsSeen))[part_]
    <3>1. turns \in [R -> Nat] /\ turnsSeen \in [R -> Nat] /\ \A r \in R : turnsSeen[r] <= turns[r]
      BY <1>6, <1>7
    <3> QED BY ONLY <3>1, IsFiniteSet(R), CountsAddUp
  <2>4. \A r \in R : /\ results[r]["routes"] = Count(size[r], seen[r])
                     /\ results[r]["node_observations"] = Count(hops[r], hopsSeen[r])
                     /\ results[r]["link_observations"] = Count(turns[r], turnsSeen[r])
    BY <1>6
  <2>5. /\ [r \in R |-> results[r]["routes"][part_]] = CountsOf(R, size, seen, part_)
        /\ [r \in R |-> results[r]["node_observations"][part_]] = CountsOf(R, hops, hopsSeen, part_)
        /\ [r \in R |-> results[r]["link_observations"][part_]] = CountsOf(R, turns, turnsSeen, part_)
    BY <2>4 DEF CountsOf
  <2> QED BY <1>12, <2>1, <2>2, <2>3, <2>5
<1>14. Total([r \in R |-> results[r].complete]) = stats.complete
  <2>1. [r \in R |-> results[r].complete] = full
    BY <1>6, <1>7
  <2> QED BY <1>12, <2>1
<1>15. \A field \in {"routes", "node_observations", "link_observations"},
          q \in {"total", "displayed", "omitted"} :
          Total([r \in R |-> results[r][field][q]]) = stats[field][q]
  BY <1>13
<1> QED BY <1>2, <1>14, <1>15, <1>x, <1>D

(* Where some numbers of a set are when it is listed. *)
PlacesIn(S, B) == {n \in 1 .. Cardinality(S) : Ascending(S)[n] \in B}

Listed(S, B, g) == [n \in PlacesIn(S, B) |-> g[Ascending(S)[n]]]

(* A sum over a set of numbers may as well run over their places.          *)
LEMMA PlacesHold ==
    ASSUME NEW S, S \in SUBSET Nat, IsFiniteSet(S), NEW B, B \in SUBSET S
    PROVE  /\ IsFiniteSet(PlacesIn(S, B)) /\ Cardinality(PlacesIn(S, B)) = Cardinality(B)
           /\ \A g \in [B -> Nat] : Total(Listed(S, B, g)) = Total(g)
<1>a. PICK a, c : a = Ascending(S) /\ c = Cardinality(S)
  OBVIOUS
<1>p. PICK P : P = PlacesIn(S, B)
  OBVIOUS
<1>1. /\ c \in Nat /\ a \in [1 .. c -> S]
      /\ \A i, j \in 1 .. c : i < j => a[i] < a[j]
      /\ \A x \in S : \E i \in 1 .. c : a[i] = x
  BY <1>a, AscendingHolds
<1>2. P = {n \in 1 .. c : a[n] \in B}
  BY <1>a, <1>p DEF PlacesIn
<1>3. IsFiniteSet(P)
  BY <1>1, <1>2, FS_Interval, FS_Subset
<1>F. PICK F : F = [n \in P |-> a[n]]
  OBVIOUS
<1>4. F \in [P -> B]
  BY <1>2, <1>F
<1>5. \A m, n \in P : F[m] = F[n] => m = n
  <2>1. SUFFICES ASSUME NEW m \in P, NEW n \in P, F[m] = F[n]
                 PROVE  m = n
    OBVIOUS
  <2>2. m \in 1 .. c /\ n \in 1 .. c /\ a[m] = a[n]
    BY <1>2, <1>F, <2>1
  <2>3. a[m] \in Nat
    BY <1>1, <2>2
  <2>4. ~(m < n) /\ ~(n < m)
    BY <1>1, <2>2, <2>3
  <2> QED BY <1>1, <2>2, <2>4
<1>6. \A x \in B : \E n \in P : F[n] = x
  BY <1>1, <1>2, <1>F
<1>7. Cardinality(B) = Cardinality(P)
  BY ONLY <1>3, <1>4, <1>5, <1>6, SameSize
<1>8. ASSUME NEW g \in [B -> Nat]
      PROVE  Total(Listed(S, B, g)) = Total(g)
  <2>1. Listed(S, B, g) = Renamed(P, F, g)
    BY <1>2, <1>F, <1>a, <1>p DEF Listed, Renamed
  <2>2. Total(Renamed(P, F, g)) = Total(g)
    <3>1. g \in [B -> Nat]
      OBVIOUS
    <3>2. Renames(F, P, B)
      BY <1>4, <1>5, <1>6 DEF Renames
    <3> QED BY ONLY <1>3, <3>1, <3>2, TotalRenamed
  <2> QED BY <2>1, <2>2
<1> QED BY <1>3, <1>7, <1>8, <1>p

-----------------------------------------------------------------------------
(* The routes of a topology. *)
RoutesDrawn(st, routes) ==
    [n \in DOMAIN Shown(st, routes) |->
        RouteOf(st, routes[Shown(st, routes)[n]], Prefix(st, routes, Shown(st, routes)[n]),
                SelectedKeys(st, routes), AcceptedWhole(st, routes, Shown(st, routes)[n]))]

(* The routes of some attempts, listed by a, with the ids of their hops. *)
DrawnFrom(drawn, ks, S, a, st, routes) ==
    /\ S \in SUBSET Nat /\ IsFiniteSet(S) /\ S \subseteq DOMAIN routes
    /\ Cardinality(S) \in Nat
    /\ DOMAIN drawn = 1 .. Cardinality(S) /\ Len(drawn) = Cardinality(S)
    /\ \A n \in 1 .. Cardinality(S) :
          /\ a[n] \in S
          /\ drawn[n].result = routes[a[n]].result
          /\ drawn[n].attempt = routes[a[n]].attempt
          /\ drawn[n].complete = AcceptedWhole(st, routes, a[n])
          /\ DOMAIN drawn[n].node_ids = 1 .. Displayed(st, routes, a[n])
          /\ Len(drawn[n].node_ids) = Displayed(st, routes, a[n])
          /\ \A m \in 1 .. Displayed(st, routes, a[n]) :
                drawn[n].node_ids[m] = IdOf(ks, routes[a[n]].keys[m])

(* What is drawn of the attempts: those that are displayed, in order.      *)
LEMMA RoutesDrawnHold ==
    ASSUME NEW routes \in Seq(TraceSet), NEW st, SelectionInv(st, routes)
    PROVE  DrawnFrom(RoutesDrawn(st, routes), SelectedKeys(st, routes),
                     ShownOf(st, routes, DOMAIN routes),
                     Ascending(ShownOf(st, routes, DOMAIN routes)), st, routes)
<1>S. PICK S : S = ShownOf(st, routes, DOMAIN routes)
  OBVIOUS
<1>a. PICK a, c : a = Ascending(S) /\ c = Cardinality(S)
  OBVIOUS
<1>k. PICK ks : ks = SelectedKeys(st, routes)
  OBVIOUS
<1>d. PICK drawn : drawn = RoutesDrawn(st, routes)
  OBVIOUS
<1>1. S \in SUBSET Nat /\ IsFiniteSet(S) /\ S \subseteq DOMAIN routes
  <2>1. S \subseteq DOMAIN routes
    BY <1>S DEF ShownOf
  <2> QED BY <2>1, RoutesAreFinite, FS_Subset
<1>2. c \in Nat /\ a \in [1 .. c -> S]
  BY <1>1, <1>a, AscendingHolds
<1>3. Shown(st, routes) = a
  BY <1>S, <1>a DEF Shown, ShownOf
<1>4. drawn = [n \in 1 .. c |-> RouteOf(st, routes[a[n]], Prefix(st, routes, a[n]), ks,
                                       AcceptedWhole(st, routes, a[n]))]
  BY <1>2, <1>3, <1>d, <1>k DEF RoutesDrawn
<1>5. DOMAIN drawn = 1 .. c /\ Len(drawn) = c
  BY <1>2, <1>4
<1>6. ASSUME NEW n \in 1 .. c
      PROVE  /\ a[n] \in S
             /\ drawn[n].result = routes[a[n]].result
             /\ drawn[n].attempt = routes[a[n]].attempt
             /\ drawn[n].complete = AcceptedWhole(st, routes, a[n])
             /\ DOMAIN drawn[n].node_ids = 1 .. Displayed(st, routes, a[n])
             /\ Len(drawn[n].node_ids) = Displayed(st, routes, a[n])
             /\ \A m \in 1 .. Displayed(st, routes, a[n]) :
                   drawn[n].node_ids[m] = IdOf(ks, routes[a[n]].keys[m])
  <2>i. PICK i : i = a[n]
    OBVIOUS
  <2>p. PICK p, d : p = Prefix(st, routes, i) /\ d = Displayed(st, routes, i)
    OBVIOUS
  <2>w. PICK w : w = AcceptedWhole(st, routes, i)
    OBVIOUS
  <2>1. i \in S /\ i \in DOMAIN routes
    BY <1>1, <1>2, <2>i
  <2>2. /\ d \in Nat /\ DOMAIN p = 1 .. d
        /\ \A m \in 1 .. d : p[m] = routes[i].keys[m]
    <3>1. /\ p \in Seq(Keys) /\ Len(p) = d
          /\ \A m \in 1 .. d : p[m] = routes[i].keys[m]
      BY <2>1, <2>p, DisplayedHolds
    <3> QED BY <3>1
  <2>x. PICK ids : ids = [m \in DOMAIN p |-> IdOf(ks, p[m])]
    OBVIOUS
  <2>3. drawn[n] = [result |-> routes[i].result, attempt |-> routes[i].attempt,
                    reached |-> routes[i].reached, complete |-> w, node_ids |-> ids]
    BY <1>4, <2>i, <2>p, <2>w, <2>x DEF RouteOf
  <2>4. DOMAIN ids = 1 .. d /\ Len(ids) = d /\ \A m \in 1 .. d : ids[m] = IdOf(ks, routes[i].keys[m])
    BY <2>2, <2>x
  <2>5. /\ drawn[n].result = routes[i].result /\ drawn[n].attempt = routes[i].attempt
        /\ drawn[n].complete = w /\ drawn[n].node_ids = ids
    BY <2>3
  <2> QED BY <2>1, <2>4, <2>5, <2>i, <2>p, <2>w
<1>7. DrawnFrom(drawn, ks, S, a, st, routes)
  BY <1>1, <1>2, <1>5, <1>6, <1>a DEF DrawnFrom
<1> QED BY <1>7, <1>S, <1>a, <1>k, <1>d

(* Every check of the routes is passed. *)
LEMMA RoutesAreAccepted ==
    ASSUME NEW rep \in ReportSet, NEW routes, routes \in Seq(TracesOf(rep)), routes \in Seq(TraceSet),
           NEW st, SelectionInv(st, routes), NEW t,
           t.routes = RoutesDrawn(st, routes),
           t.links = SelectedLinks(st, routes, SelectedKeys(st, routes)),
           {t.nodes[i].id : i \in DOMAIN t.nodes} = {<<n>> : n \in DOMAIN SelectedKeys(st, routes)}
    PROVE  RoutesAccepted(t, rep)
<1>S. PICK S : S = ShownOf(st, routes, DOMAIN routes)
  OBVIOUS
<1>a. PICK a, c : a = Ascending(S) /\ c = Cardinality(S)
  OBVIOUS
<1>k. PICK ks : ks = SelectedKeys(st, routes)
  OBVIOUS
<1>l. PICK pairs : pairs = {<<l.from, l.to>> : l \in t.links}
  OBVIOUS
<1>d. PICK drawn : drawn = RoutesDrawn(st, routes)
  OBVIOUS
<1>0. /\ S \subseteq DOMAIN routes /\ c \in Nat
      /\ DOMAIN drawn = 1 .. c
      /\ \A n \in 1 .. c :
            /\ a[n] \in S
            /\ drawn[n].result = routes[a[n]].result
            /\ drawn[n].attempt = routes[a[n]].attempt
            /\ DOMAIN drawn[n].node_ids = 1 .. Displayed(st, routes, a[n])
            /\ Len(drawn[n].node_ids) = Displayed(st, routes, a[n])
            /\ \A m \in 1 .. Displayed(st, routes, a[n]) :
                  drawn[n].node_ids[m] = IdOf(ks, routes[a[n]].keys[m])
  <2>1. DrawnFrom(RoutesDrawn(st, routes), SelectedKeys(st, routes),
                  ShownOf(st, routes, DOMAIN routes),
                  Ascending(ShownOf(st, routes, DOMAIN routes)), st, routes)
    BY RoutesDrawnHold
  <2>2. DrawnFrom(drawn, ks, S, a, st, routes)
    BY <1>S, <1>a, <1>d, <1>k, <2>1
  <2> QED BY <1>a, <2>2 DEF DrawnFrom
<1>1. /\ S \subseteq DOMAIN routes /\ c \in Nat
      /\ DOMAIN t.routes = 1 .. c
      /\ \A n \in 1 .. c :
            /\ a[n] \in S
            /\ t.routes[n].result = routes[a[n]].result
            /\ t.routes[n].attempt = routes[a[n]].attempt
            /\ DOMAIN t.routes[n].node_ids = 1 .. Displayed(st, routes, a[n])
            /\ Len(t.routes[n].node_ids) = Displayed(st, routes, a[n])
            /\ \A m \in 1 .. Displayed(st, routes, a[n]) :
                  t.routes[n].node_ids[m] = IdOf(ks, routes[a[n]].keys[m])
  <2>1. t.routes = drawn
    BY <1>d
  <2> QED BY <1>0, <2>1
<1>2. SUFFICES ASSUME NEW n \in DOMAIN t.routes
               PROVE  LET own == t.routes[n]
                      IN  /\ own.node_ids # <<>> /\ Len(own.node_ids) <= MaxRouteNodes
                          /\ ToSet(own.node_ids) \subseteq {t.nodes[i].id : i \in DOMAIN t.nodes}
                          /\ \A i \in 2 .. Len(own.node_ids) : own.node_ids[i] # own.node_ids[i - 1]
                          /\ Pairs(own.node_ids) \subseteq pairs
                          /\ AttemptReference(rep, own)
  BY <1>l DEF RoutesAccepted
<1>i. PICK i, d : i = a[n] /\ d = Displayed(st, routes, i)
  OBVIOUS
<1>r. PICK own, ids : own = t.routes[n] /\ ids = own.node_ids
  OBVIOUS
<1>y. PICK keys : keys = routes[i].keys
  OBVIOUS
<1>3. /\ i \in S /\ i \in DOMAIN routes /\ n \in 1 .. c
      /\ own.result = routes[i].result /\ own.attempt = routes[i].attempt
      /\ DOMAIN ids = 1 .. d /\ Len(ids) = d
      /\ \A m \in 1 .. d : ids[m] = IdOf(ks, keys[m])
  BY <1>1, <1>2, <1>i, <1>r, <1>y
<1>4. /\ d \in 0 .. Len(keys) /\ d > 0 /\ st.accepted[i] = d - 1 /\ Len(keys) \in Nat
      /\ Len(keys) <= MaxRouteNodes
      /\ \A m \in 1 .. d : Holds(ks, keys[m])
      /\ \A m \in 1 .. Len(keys) - 1 : keys[m] # keys[m + 1]
  <2>1. d > 0
    BY <1>3, <1>S, <1>i DEF ShownOf
  <2>2. d \in 0 .. Len(keys) /\ st.accepted[i] = d - 1
    <3>1. d \in 0 .. Len(keys) /\ st.accepted[i] \in Nat /\ d = st.accepted[i] + 1
      BY <1>3, <1>i, <1>y, <2>1, DisplayedHolds
    <3> QED BY ONLY <3>1
  <2>3. \A m \in 1 .. d : Holds(ks, keys[m])
    BY <1>3, <1>i, <1>k, <1>y, SelectedKeysHold
  <2>4. /\ Len(keys) \in Nat /\ Len(keys) <= MaxRouteNodes
        /\ \A m \in 1 .. Len(keys) - 1 : keys[m] # keys[m + 1]
    BY <1>3, <1>y, HopsOf
  <2> QED BY <2>1, <2>2, <2>3, <2>4
<1>5. ks \in Seq(Keys) /\ Distinctly(ks)
  BY <1>k, SelectedKeysHold
<1>6. ids # <<>> /\ Len(ids) <= MaxRouteNodes
  <2>1. Len(<<>>) = 0
    OBVIOUS
  <2>2. MaxRouteNodes \in Nat
    BY CompactAssumption DEF MaxRouteNodes
  <2> QED BY <1>3, <1>4, <2>1, <2>2
<1>7. ToSet(ids) \subseteq {t.nodes[j].id : j \in DOMAIN t.nodes}
  <2>1. ASSUME NEW x \in ToSet(ids)
        PROVE  x \in {<<m>> : m \in DOMAIN ks}
    <3>1. PICK m \in 1 .. d : x = ids[m]
      BY <1>3 DEF ToSet
    <3>2. x = IdOf(ks, keys[m]) /\ Holds(ks, keys[m])
      BY <1>3, <1>4, <3>1
    <3> QED BY <1>5, <3>2, IdOfHolds
  <2> QED BY <1>k, <2>1
<1>8. \A m \in 2 .. Len(ids) : ids[m] # ids[m - 1]
  <2>1. SUFFICES ASSUME NEW m \in 2 .. d, ids[m] = ids[m - 1]
                 PROVE  FALSE
    BY <1>3
  <2>l. PICK l : l = m - 1
    OBVIOUS
  <2>2. l \in 1 .. d /\ m \in 1 .. d /\ l \in 1 .. Len(keys) - 1 /\ l + 1 = m
    BY <1>4, <2>l
  <2>3. IdOf(ks, keys[m]) = IdOf(ks, keys[l])
    BY <1>3, <2>1, <2>2, <2>l
  <2>4. keys[m] = keys[l]
    BY <1>4, <1>5, <2>2, <2>3, IdsDiffer
  <2>5. keys[l] # keys[l + 1]
    BY <1>4, <2>2
  <2> QED BY <2>2, <2>4, <2>5
<1>9. Pairs(ids) \subseteq pairs
  <2>1. ASSUME NEW m \in 1 .. Len(ids) - 1
        PROVE  <<ids[m], ids[m + 1]>> \in pairs
    <3>e. PICK e : e = Edge(routes, i, m)
      OBVIOUS
    <3>1. m \in 1 .. st.accepted[i] /\ m \in 1 .. d /\ m + 1 \in 1 .. d
      BY <1>3, <1>4
    <3>2. e = <<keys[m], keys[m + 1]>> /\ e[1] = keys[m] /\ e[2] = keys[m + 1]
      BY <1>y, <3>e DEF Edge
    <3>3. e \in EdgesShown(st, routes)
      BY <1>3, <3>1, <3>e, EdgesHold
    <3>4. <<IdOf(ks, e[1]), IdOf(ks, e[2])>> \in pairs
      BY <1>k, <1>l, <3>3, LinksHold
    <3> QED BY <1>3, <3>1, <3>2, <3>4
  <2> QED BY <2>1 DEF Pairs
<1>10. AttemptReference(rep, own)
  <2>1. routes[i] \in TracesOf(rep)
    BY <1>3
  <2> QED BY <1>3, <2>1 DEF AttemptReference, TracesOf
<1> QED BY <1>6, <1>7, <1>8, <1>9, <1>10, <1>r

(* The drawn routes of a set P of attempts. *)
DrawnOf(st, routes, P) ==
    {n \in DOMAIN RoutesDrawn(st, routes) :
        Ascending(ShownOf(st, routes, DOMAIN routes))[n] \in P}

(* They are as many, as complete and as long as their attempts say. *)
OwnAgree(drawn, own, st, routes, P) ==
    /\ Cardinality(own) = Cardinality(ShownOf(st, routes, P))
    /\ Cardinality({n \in own : drawn[n].complete}) = Cardinality(WholeOf(st, routes, P))
    /\ Total([n \in own |-> Len(drawn[n].node_ids)])
         = Total(Only(Depths(st, routes), ShownOf(st, routes, P)))
    /\ Total([n \in own |-> Len(drawn[n].node_ids) - 1])
         = Total(Only(st.accepted, ShownOf(st, routes, P)))

(* What is drawn of one target's attempts agrees with their counts.        *)
LEMMA OwnRoutesHold ==
    ASSUME NEW routes, routes \in Seq(TraceSet), NEW st, SelectionInv(st, routes),
           NEW P, P \in SUBSET (DOMAIN routes)
    PROVE  OwnAgree(RoutesDrawn(st, routes), DrawnOf(st, routes, P), st, routes, P)
<1>S. PICK S : S = ShownOf(st, routes, DOMAIN routes)
  OBVIOUS
<1>a. PICK a, c : a = Ascending(S) /\ c = Cardinality(S)
  OBVIOUS
<1>k. PICK ks, drawn : ks = SelectedKeys(st, routes) /\ drawn = RoutesDrawn(st, routes)
  OBVIOUS
<1>o. PICK own : own = DrawnOf(st, routes, P)
  OBVIOUS
<1>B. PICK B, W : B = ShownOf(st, routes, P) /\ W = WholeOf(st, routes, P)
  OBVIOUS
<1>1. DrawnFrom(drawn, ks, S, a, st, routes)
  BY <1>S, <1>a, <1>k, RoutesDrawnHold
<1>2. /\ S \in SUBSET Nat /\ IsFiniteSet(S) /\ S \subseteq DOMAIN routes
      /\ DOMAIN drawn = 1 .. c
      /\ \A n \in 1 .. c : /\ a[n] \in S
                           /\ drawn[n].complete = AcceptedWhole(st, routes, a[n])
                           /\ Len(drawn[n].node_ids) = Displayed(st, routes, a[n])
  BY <1>1, <1>a DEF DrawnFrom
<1>3. B \in SUBSET S /\ W \in SUBSET S /\ W \subseteq B
  BY <1>B, <1>S DEF ShownOf, WholeOf
<1>4. own = PlacesIn(S, B)
  <2>1. \A i \in S : i \in P <=> i \in B
    BY <1>B, <1>S DEF ShownOf
  <2> QED BY <1>2, <1>a, <1>k, <1>o, <1>S, <2>1 DEF DrawnOf, PlacesIn
<1>5. {n \in own : drawn[n].complete} = PlacesIn(S, W)
  <2>1. \A i \in S : i \in W <=> i \in B /\ AcceptedWhole(st, routes, i)
    BY <1>B DEF WholeOf
  <2> QED BY <1>2, <1>3, <1>4, <1>a, <2>1 DEF PlacesIn
<1>f. PICK f, g : f = Only(Depths(st, routes), B) /\ g = Only(st.accepted, B)
  OBVIOUS
<1>6. f \in [B -> Nat] /\ g \in [B -> Nat]
  <2>1. B \subseteq DOMAIN routes
    BY <1>2, <1>3
  <2> QED BY <1>f, <2>1, DepthsHold DEF Only
<1>7. [n \in own |-> Len(drawn[n].node_ids)] = Listed(S, B, f)
  <2>1. \A n \in own : n \in 1 .. c /\ a[n] \in B /\ a[n] \in DOMAIN routes
    BY <1>2, <1>3, <1>4, <1>a DEF PlacesIn
  <2>2. \A n \in own : Len(drawn[n].node_ids) = f[a[n]]
    BY <1>2, <1>f, <2>1 DEF Only, Depths
  <2> QED BY <1>4, <1>a, <2>2 DEF Listed
<1>8. [n \in own |-> Len(drawn[n].node_ids) - 1] = Listed(S, B, g)
  <2>1. \A n \in own : n \in 1 .. c /\ a[n] \in B /\ a[n] \in DOMAIN routes
    BY <1>2, <1>3, <1>4, <1>a DEF PlacesIn
  <2>2. \A n \in own : Len(drawn[n].node_ids) - 1 = g[a[n]]
    <3>1. ASSUME NEW n \in own
          PROVE  Len(drawn[n].node_ids) - 1 = g[a[n]]
      <4>1. a[n] \in B /\ a[n] \in DOMAIN routes /\ Len(drawn[n].node_ids) = Displayed(st, routes, a[n])
        BY <1>2, <2>1
      <4>2. Displayed(st, routes, a[n]) > 0
        BY <1>B, <4>1 DEF ShownOf
      <4>3. Displayed(st, routes, a[n]) - 1 = st.accepted[a[n]]
        BY <4>1, <4>2, DepthsHold
      <4>4. g[a[n]] = st.accepted[a[n]]
        BY <1>f, <4>1 DEF Only
      <4> QED BY <4>1, <4>3, <4>4
    <3> QED BY <3>1
  <2> QED BY <1>4, <1>a, <2>2 DEF Listed
<1>9. Cardinality(PlacesIn(S, B)) = Cardinality(B) /\ Total(Listed(S, B, f)) = Total(f)
      /\ Total(Listed(S, B, g)) = Total(g)
  BY ONLY <1>2, <1>3, <1>6, PlacesHold
<1>10. Cardinality(PlacesIn(S, W)) = Cardinality(W)
  BY ONLY <1>2, <1>3, PlacesHold
<1>11. OwnAgree(drawn, own, st, routes, P)
  BY <1>4, <1>5, <1>7, <1>8, <1>9, <1>10, <1>B, <1>f DEF OwnAgree
<1> QED BY <1>11, <1>k, <1>o

(* The nodes and the links of all attempts are no fewer than the displayed. *)
LEMMA AllKeysHold ==
    ASSUME NEW routes, routes \in Seq(TraceSet), NEW st, SelectionInv(st, routes)
    PROVE  LET keys == UNION {ToSet(routes[i].keys) : i \in DOMAIN routes}
               pairs == UNION {Pairs(routes[i].keys) : i \in DOMAIN routes}
           IN  /\ Cardinality(keys) \in Nat /\ Cardinality(pairs) \in Nat
               /\ Len(SelectedKeys(st, routes)) <= Cardinality(keys)
               /\ Cardinality(EdgesShown(st, routes)) <= Cardinality(pairs)
<1>k. PICK keys : keys = UNION {ToSet(routes[i].keys) : i \in DOMAIN routes}
  OBVIOUS
<1>p. PICK pairs : pairs = UNION {Pairs(routes[i].keys) : i \in DOMAIN routes}
  OBVIOUS
<1>s. PICK ks : ks = SelectedKeys(st, routes)
  OBVIOUS
<1>E. PICK E : E = EdgesShown(st, routes)
  OBVIOUS
<1>f. PICK f, g : f = Lens(routes) /\ g = Steps(routes)
  OBVIOUS
<1>1. /\ IsFiniteSet(DOMAIN routes)
      /\ f \in [DOMAIN routes -> Nat] /\ g \in [DOMAIN routes -> Nat]
      /\ \A i \in DOMAIN routes : /\ f[i] = Len(routes[i].keys) /\ g[i] = Len(routes[i].keys) - 1
                                  /\ DOMAIN routes[i].keys = 1 .. f[i]
  <2>1. \A i \in DOMAIN routes : DOMAIN routes[i].keys = 1 .. Len(routes[i].keys)
    BY HopsOf
  <2> QED BY <1>f, <2>1, DepthsHold, RoutesAreFinite DEF Lens, Steps
<1>2. /\ IsFiniteSet(Units(f))
      /\ \A x, n : <<x, n>> \in Units(f) <=> x \in DOMAIN routes /\ n \in 1 .. f[x]
      /\ \A o \in Units(f) : o = <<o[1], o[2]>> /\ o[1] \in DOMAIN routes /\ o[2] \in 1 .. f[o[1]]
  BY <1>1, UnitsHold
<1>3. /\ IsFiniteSet(Units(g))
      /\ \A x, n : <<x, n>> \in Units(g) <=> x \in DOMAIN routes /\ n \in 1 .. g[x]
      /\ \A o \in Units(g) : o = <<o[1], o[2]>> /\ o[1] \in DOMAIN routes /\ o[2] \in 1 .. g[o[1]]
  BY <1>1, UnitsHold
<1>4. /\ \A i \in DOMAIN routes : \A n \in 1 .. f[i] : routes[i].keys[n] \in keys
      /\ \A k \in keys : \E i \in DOMAIN routes : \E n \in 1 .. f[i] : routes[i].keys[n] = k
  <2>1. \A i \in DOMAIN routes : ToSet(routes[i].keys) = {routes[i].keys[n] : n \in 1 .. f[i]}
    BY <1>1 DEF ToSet
  <2>2. \A k : k \in keys <=> \E i \in DOMAIN routes : k \in ToSet(routes[i].keys)
    BY <1>k
  <2>3. \A k : k \in keys <=> \E i \in DOMAIN routes : k \in {routes[i].keys[n] : n \in 1 .. f[i]}
    BY ONLY <2>1, <2>2
  <2> QED BY ONLY <2>3
<1>5. /\ \A i \in DOMAIN routes : \A n \in 1 .. g[i] : Edge(routes, i, n) \in pairs
      /\ \A e \in pairs : \E i \in DOMAIN routes : \E n \in 1 .. g[i] : Edge(routes, i, n) = e
  <2>1. \A i \in DOMAIN routes : Pairs(routes[i].keys) = {Edge(routes, i, n) : n \in 1 .. g[i]}
    BY <1>1 DEF Pairs, Edge
  <2>2. \A e : e \in pairs <=> \E i \in DOMAIN routes : e \in Pairs(routes[i].keys)
    BY <1>p
  <2>3. \A e : e \in pairs <=> \E i \in DOMAIN routes : e \in {Edge(routes, i, n) : n \in 1 .. g[i]}
    BY ONLY <2>1, <2>2
  <2> QED BY ONLY <2>3
<1>6. IsFiniteSet(keys)
  <2>F. PICK F : F = [o \in Units(f) |-> routes[o[1]].keys[o[2]]]
    OBVIOUS
  <2>1. F \in [Units(f) -> keys]
    BY <1>2, <1>4, <2>F
  <2>2. \A k \in keys : \E o \in Units(f) : F[o] = k
    <3>1. ASSUME NEW k \in keys
          PROVE  \E o \in Units(f) : F[o] = k
      <4>1. PICK i \in DOMAIN routes : \E n \in 1 .. f[i] : routes[i].keys[n] = k
        BY <1>4
      <4>2. PICK n \in 1 .. f[i] : routes[i].keys[n] = k
        BY <4>1
      <4>o. PICK o : o = <<i, n>>
        OBVIOUS
      <4>3. o \in Units(f) /\ o[1] = i /\ o[2] = n
        BY <1>2, <4>o
      <4> QED BY <2>F, <4>2, <4>3
    <3> QED BY <3>1
  <2> QED BY ONLY <1>2, <2>1, <2>2, ImageSize
<1>7. IsFiniteSet(pairs)
  <2>F. PICK F : F = [o \in Units(g) |-> Edge(routes, o[1], o[2])]
    OBVIOUS
  <2>1. F \in [Units(g) -> pairs]
    BY <1>3, <1>5, <2>F
  <2>2. \A e \in pairs : \E o \in Units(g) : F[o] = e
    <3>1. ASSUME NEW e \in pairs
          PROVE  \E o \in Units(g) : F[o] = e
      <4>1. PICK i \in DOMAIN routes : \E n \in 1 .. g[i] : Edge(routes, i, n) = e
        BY <1>5
      <4>2. PICK n \in 1 .. g[i] : Edge(routes, i, n) = e
        BY <4>1
      <4>o. PICK o : o = <<i, n>>
        OBVIOUS
      <4>3. o \in Units(g) /\ o[1] = i /\ o[2] = n
        BY <1>3, <4>o
      <4> QED BY <2>F, <4>2, <4>3
    <3> QED BY <3>1
  <2> QED BY ONLY <1>3, <2>1, <2>2, ImageSize
<1>8. Len(ks) <= Cardinality(keys)
  <2>1. /\ ks \in Seq(Keys) /\ Distinctly(ks)
        /\ \A m \in DOMAIN ks : \E i \in DOMAIN routes :
              \E n \in 1 .. Len(routes[i].keys) : ks[m] = routes[i].keys[n]
    <3>1. SelectedKeys(st, routes) \in Seq(Keys) /\ Distinctly(SelectedKeys(st, routes))
      BY SelectedKeysHold
    <3>2. \A m \in DOMAIN SelectedKeys(st, routes) : \E i \in DOMAIN routes :
              \E n \in 1 .. Len(routes[i].keys) : SelectedKeys(st, routes)[m] = routes[i].keys[n]
      BY SelectedKeysHold
    <3> QED BY ONLY <1>s, <3>1, <3>2
  <2>2. DOMAIN ks = 1 .. Len(ks) /\ Len(ks) \in Nat
    BY <2>1
  <2>3. \A m \in DOMAIN ks : ks[m] \in keys
    BY <1>1, <1>4, <2>1
  <2>T. PICK T : T = {ks[m] : m \in DOMAIN ks}
    OBVIOUS
  <2>F. PICK F : F = [m \in 1 .. Len(ks) |-> ks[m]]
    OBVIOUS
  <2>4. F \in [1 .. Len(ks) -> T] /\ \A t \in T : \E m \in 1 .. Len(ks) : F[m] = t
    BY <2>2, <2>F, <2>T
  <2>5. \A m, n \in 1 .. Len(ks) : F[m] = F[n] => m = n
    BY <2>1, <2>2, <2>F DEF Distinctly
  <2>6. IsFiniteSet(1 .. Len(ks)) /\ Cardinality(1 .. Len(ks)) = Len(ks)
    <3>l. PICK l : l = Len(ks)
      OBVIOUS
    <3>1. l \in Nat
      BY <2>2, <3>l
    <3>2. IsFiniteSet(1 .. l) /\ Cardinality(1 .. l) = l
      BY ONLY <3>1, FS_Interval
    <3> QED BY <3>2, <3>l
  <2>7. Cardinality(T) = Cardinality(1 .. Len(ks))
    BY ONLY <2>4, <2>5, <2>6, SameSize
  <2>8. T \subseteq keys
    BY <2>3, <2>T
  <2> QED BY <1>6, <2>6, <2>7, <2>8, FS_Subset
<1>9. Cardinality(E) <= Cardinality(pairs)
  <2>1. \A e \in E : e \in pairs
    <3>1. ASSUME NEW e \in E
          PROVE  e \in pairs
      <4>1. PICK o \in Units(st.accepted) : e = EdgeOf(routes, o)
        BY <1>E, EdgesHold
      <4>2. st.accepted \in [DOMAIN routes -> Nat]
        BY SelectionTypes
      <4>i. PICK i, n : i = o[1] /\ n = o[2]
        OBVIOUS
      <4>3. i \in DOMAIN routes /\ n \in 1 .. st.accepted[i]
        BY <1>1, <4>2, <4>i, UnitsHold
      <4>4. st.accepted[i] <= g[i] /\ st.accepted[i] \in Nat /\ g[i] \in Nat
        BY <1>1, <1>f, <4>2, <4>3, DepthsHold
      <4>5. n \in 1 .. g[i]
        BY <4>3, <4>4
      <4> QED BY <1>5, <4>1, <4>3, <4>5, <4>i DEF EdgeOf
    <3> QED BY <3>1
  <2> QED BY <1>7, <2>1, FS_Subset
<1> QED BY <1>6, <1>7, <1>8, <1>9, <1>k, <1>p, <1>s, <1>E, FS_CardinalityType

PartOf(routes, r) == {i \in DOMAIN routes : routes[i].result = r}

(* The counts of a topology. *)
HasStats(t, rep, st, routes) ==
    /\ t.nodeStats = Count(Cardinality(UNION {ToSet(routes[i].keys) : i \in DOMAIN routes}),
                           Len(SelectedKeys(st, routes)))
    /\ t.linkStats = Count(Cardinality(UNION {Pairs(routes[i].keys) : i \in DOMAIN routes}),
                           Cardinality(EdgesShown(st, routes)))
    /\ t.stats = ObservationStats(st, routes, DOMAIN routes)
    /\ t.result_stats = [r \in DOMAIN rep |-> ObservationStats(st, routes, PartOf(routes, r))]
    /\ t.routes = RoutesDrawn(st, routes)
    /\ t.links = SelectedLinks(st, routes, SelectedKeys(st, routes))
    /\ Len(t.nodes) = Len(SelectedKeys(st, routes))

(* A sum of nothing.                                                       *)
LEMMA EmptyTotal ==
    ASSUME NEW f \in [{} -> Nat]
    PROVE  Total(f) = 0
<1>1. DOMAIN f = {}
  OBVIOUS
<1>2. Units(f) = {}
  BY <1>1 DEF Units
<1> QED BY <1>2, FS_EmptySet DEF Total

(* What is checked of one result's counts. *)
ResultAgrees(stats, drawn, rep, r) ==
    LET own == {n \in DOMAIN drawn : drawn[n].result = r}
    IN  /\ StatsAgree(stats) /\ r \in DOMAIN rep
        /\ rep[r].kind # "traceroute" =>
              stats.routes.total + stats.node_observations.total
                  + stats.link_observations.total = 0
        /\ stats.routes.displayed = Cardinality(own)
        /\ stats.complete = Cardinality({n \in own : drawn[n].complete})
        /\ stats.node_observations.displayed = Total([n \in own |-> Len(drawn[n].node_ids)])
        /\ stats.link_observations.displayed = Total([n \in own |-> Len(drawn[n].node_ids) - 1])

(* The counts of one target.                                               *)
LEMMA ResultStatsHold ==
    ASSUME NEW rep, rep \in ReportSet, NEW routes, routes \in Seq(TracesOf(rep)), routes \in Seq(TraceSet),
           NEW st, SelectionInv(st, routes), NEW r, r \in DOMAIN rep
    PROVE  ResultAgrees(ObservationStats(st, routes, PartOf(routes, r)), RoutesDrawn(st, routes), rep, r)
<1>d. PICK drawn : drawn = RoutesDrawn(st, routes)
  OBVIOUS
<1>P. PICK P : P = PartOf(routes, r)
  OBVIOUS
<1>s. PICK stats : stats = ObservationStats(st, routes, P)
  OBVIOUS
<1>o. PICK own : own = DrawnOf(st, routes, P)
  OBVIOUS
<1>1. P \in SUBSET (DOMAIN routes)
  BY <1>P DEF PartOf
<1>2. own = {n \in DOMAIN drawn : drawn[n].result = r}
  <2>S. PICK S, a : S = ShownOf(st, routes, DOMAIN routes) /\ a = Ascending(S)
    OBVIOUS
  <2>k. PICK ks : ks = SelectedKeys(st, routes)
    OBVIOUS
  <2>1. DrawnFrom(drawn, ks, S, a, st, routes)
    BY <1>d, <2>S, <2>k, RoutesDrawnHold
  <2>2. \A n \in DOMAIN drawn : a[n] \in DOMAIN routes /\ drawn[n].result = routes[a[n]].result
    BY <2>1 DEF DrawnFrom
  <2>3. \A n \in DOMAIN drawn : drawn[n].result = r <=> a[n] \in P
    BY <1>P, <2>2 DEF PartOf
  <2> QED BY <1>d, <1>o, <2>3, <2>S DEF DrawnOf
<1>x. PICK shown, whole : shown = ShownOf(st, routes, P) /\ whole = WholeOf(st, routes, P)
  OBVIOUS
<1>f. PICK lens, steps, depths, acc :
         /\ lens = Only(Lens(routes), P) /\ steps = Only(Steps(routes), P)
         /\ depths = Only(Depths(st, routes), shown) /\ acc = Only(st.accepted, shown)
  OBVIOUS
<1>3. /\ stats.routes = Count(Cardinality(P), Cardinality(shown))
      /\ stats.complete = Cardinality(whole)
      /\ stats.node_observations = Count(Total(lens), Total(depths))
      /\ stats.link_observations = Count(Total(steps), Total(acc))
      /\ StatsAgree(stats)
  BY <1>1, <1>s, <1>x, <1>f, StatsHold
<1>4. /\ Cardinality(own) = Cardinality(shown)
      /\ Cardinality({n \in own : drawn[n].complete}) = Cardinality(whole)
      /\ Total([n \in own |-> Len(drawn[n].node_ids)]) = Total(depths)
      /\ Total([n \in own |-> Len(drawn[n].node_ids) - 1]) = Total(acc)
  <2>1. OwnAgree(drawn, own, st, routes, P)
    BY <1>1, <1>d, <1>o, OwnRoutesHold
  <2> QED BY <2>1, <1>x, <1>f DEF OwnAgree
<1>5. ASSUME rep[r].kind # "traceroute"
      PROVE  stats.routes.total + stats.node_observations.total + stats.link_observations.total = 0
  <2>1. P = {}
    <3>1. \A i \in DOMAIN routes : routes[i] \in TracesOf(rep)
      OBVIOUS
    <3>2. \A i \in DOMAIN routes : routes[i].result # r
      BY <1>5, <3>1 DEF TracesOf
    <3> QED BY <1>P, <3>2 DEF PartOf
  <2>2. lens \in [{} -> Nat] /\ steps \in [{} -> Nat]
    BY <1>f, <2>1 DEF Only
  <2>3. Total(lens) = 0 /\ Total(steps) = 0 /\ Cardinality(P) = 0
    BY <2>1, <2>2, EmptyTotal, FS_EmptySet
  <2>4. stats.routes.total = 0 /\ stats.node_observations.total = 0 /\ stats.link_observations.total = 0
    BY <1>3, <2>3 DEF Count
  <2> QED BY <2>4
<1>6. /\ stats.routes.displayed = Cardinality(shown)
      /\ stats.node_observations.displayed = Total(depths)
      /\ stats.link_observations.displayed = Total(acc)
  BY <1>3 DEF Count
<1>7. ResultAgrees(stats, drawn, rep, r)
  BY <1>2, <1>3, <1>4, <1>5, <1>6 DEF ResultAgrees
<1> QED BY <1>7, <1>d, <1>P, <1>s

(* StatsAccepted of the fields of a topology. *)
CountsAgree(nodes, links, drawn, nodeStats, linkStats, stats, results, rep) ==
    /\ CountAgrees(nodeStats) /\ CountAgrees(linkStats) /\ StatsAgree(stats)
    /\ nodeStats.displayed = Len(nodes) /\ linkStats.displayed = Cardinality(links)
    /\ stats.routes.displayed = Len(drawn)
    /\ stats.complete = Cardinality({n \in DOMAIN drawn : drawn[n].complete})
    /\ stats.link_observations.displayed = Total([l \in links |-> l.observations])
    /\ \A r \in DOMAIN results : ResultAgrees(results[r], drawn, rep, r)
    /\ \A field \in {"routes", "node_observations", "link_observations"},
          part \in {"total", "displayed", "omitted"} :
          Total([r \in DOMAIN results |-> results[r][field][part]]) = stats[field][part]
    /\ Total([r \in DOMAIN results |-> results[r].complete]) = stats.complete

(* A count of a topology, taken from those of its targets.                 *)
LEMMA CountsThatAgree ==
    ASSUME NEW t, NEW rep,
           CountsAgree(t.nodes, t.links, t.routes, t.nodeStats, t.linkStats, t.stats, t.result_stats, rep)
    PROVE  StatsAccepted(t, rep)
BY DEF CountsAgree, StatsAccepted, ResultAgrees

(* Every count that is checked agrees. *)
LEMMA StatsAreAccepted ==
    ASSUME NEW rep, rep \in ReportSet, NEW routes, routes \in Seq(TracesOf(rep)), routes \in Seq(TraceSet),
           NEW st, SelectionInv(st, routes), NEW t, HasStats(t, rep, st, routes)
    PROVE  StatsAccepted(t, rep)
<1>d. PICK drawn : drawn = RoutesDrawn(st, routes)
  OBVIOUS
<1>k. PICK ks : ks = SelectedKeys(st, routes)
  OBVIOUS
<1>l. PICK links, E : links = SelectedLinks(st, routes, ks) /\ E = EdgesShown(st, routes)
  OBVIOUS
<1>D. PICK D : D = DOMAIN routes
  OBVIOUS
<1>s. PICK stats : stats = ObservationStats(st, routes, D)
  OBVIOUS
<1>R. PICK R, results : /\ R = DOMAIN rep
                        /\ results = [r \in R |-> ObservationStats(st, routes, PartOf(routes, r))]
  OBVIOUS
<1>1. t.stats = stats /\ t.result_stats = results /\ t.routes = drawn /\ t.links = links
  BY <1>d, <1>k, <1>l, <1>D, <1>s, <1>R DEF HasStats
<1>2. ks \in Seq(Keys) /\ Len(ks) \in Nat
  BY <1>k, SelectedKeysHold
<1>3. CountAgrees(t.nodeStats) /\ t.nodeStats.displayed = Len(t.nodes)
  <2>k. PICK keys : keys = UNION {ToSet(routes[i].keys) : i \in DOMAIN routes}
    OBVIOUS
  <2>1. Cardinality(keys) \in Nat /\ Len(ks) <= Cardinality(keys)
    BY <1>k, <2>k, AllKeysHold
  <2>2. t.nodeStats = Count(Cardinality(keys), Len(ks)) /\ Len(t.nodes) = Len(ks)
    BY <1>k, <2>k DEF HasStats
  <2>c. PICK a, b : a = Cardinality(keys) /\ b = Len(ks)
    OBVIOUS
  <2>3. a \in Nat /\ b \in Nat /\ b <= a
    BY <1>2, <2>1, <2>c
  <2>4. CountAgrees(Count(a, b)) /\ Count(a, b).displayed = b
    BY ONLY <2>3, CountHolds
  <2> QED BY ONLY <2>2, <2>4, <2>c
<1>4. CountAgrees(t.linkStats) /\ t.linkStats.displayed = Cardinality(t.links)
  <2>p. PICK pairs : pairs = UNION {Pairs(routes[i].keys) : i \in DOMAIN routes}
    OBVIOUS
  <2>1. Cardinality(pairs) \in Nat /\ Cardinality(E) <= Cardinality(pairs)
    BY <1>l, <2>p, AllKeysHold
  <2>2. t.linkStats = Count(Cardinality(pairs), Cardinality(E))
    BY <1>l, <2>p DEF HasStats
  <2>3. Cardinality(E) \in Nat /\ Cardinality(links) = Cardinality(E)
    BY <1>k, <1>l, EdgesHold, LinksHold
  <2> QED BY <1>1, <2>1, <2>2, <2>3, CountHolds
<1>x. PICK shown, whole : shown = ShownOf(st, routes, D) /\ whole = WholeOf(st, routes, D)
  OBVIOUS
<1>f. PICK acc : acc = Only(st.accepted, shown)
  OBVIOUS
<1>5. /\ StatsAgree(stats)
      /\ stats.routes.displayed = Cardinality(shown) /\ stats.complete = Cardinality(whole)
      /\ stats.link_observations.displayed = Total(acc)
  <2>1. /\ stats.routes = Count(Cardinality(D), Cardinality(shown))
        /\ stats.complete = Cardinality(whole) /\ StatsAgree(stats)
        /\ stats.link_observations = Count(Total(Only(Steps(routes), D)), Total(acc))
    BY <1>D, <1>s, <1>x, <1>f, StatsHold
  <2> QED BY <2>1 DEF Count
<1>6. stats.routes.displayed = Len(drawn) /\ stats.complete = Cardinality({n \in DOMAIN drawn : drawn[n].complete})
  <2>S. PICK a : a = Ascending(shown)
    OBVIOUS
  <2>1. DrawnFrom(drawn, ks, shown, a, st, routes)
    BY <1>d, <1>D, <1>k, <1>x, <2>S, RoutesDrawnHold
  <2>2. Len(drawn) = Cardinality(shown)
    BY <2>1 DEF DrawnFrom
  <2>3. \A n \in DOMAIN drawn : a[n] \in D
    BY <1>D, <2>1 DEF DrawnFrom
  <2>4. DrawnOf(st, routes, D) = DOMAIN drawn
    BY <1>d, <1>D, <1>x, <2>3, <2>S DEF DrawnOf
  <2>5. Cardinality({n \in DOMAIN drawn : drawn[n].complete}) = Cardinality(whole)
    <3>1. D \in SUBSET (DOMAIN routes)
      BY <1>D
    <3>2. OwnAgree(drawn, DrawnOf(st, routes, D), st, routes, D)
      BY <1>d, <3>1, OwnRoutesHold
    <3> QED BY <1>x, <2>4, <3>2 DEF OwnAgree
  <2> QED BY <1>5, <2>2, <2>5
<1>7. stats.link_observations.displayed = Total([l \in links |-> l.observations])
  <2>1. Total([l \in links |-> l.observations]) = Total(st.accepted)
    BY <1>k, <1>l, LinksHold
  <2>2. /\ st.accepted \in [D -> Nat] /\ IsFiniteSet(D) /\ shown \in SUBSET D
        /\ \A i \in D : i \notin shown => st.accepted[i] = 0
    <3>1. \A i \in D : i \in shown <=> Displayed(st, routes, i) > 0
      BY <1>x DEF ShownOf
    <3>2. shown \in SUBSET D
      BY <1>x DEF ShownOf
    <3>3. \A i \in D : ~(Displayed(st, routes, i) > 0) => st.accepted[i] = 0
      BY <1>D, DepthsHold
    <3>4. st.accepted \in [D -> Nat] /\ IsFiniteSet(D)
      BY <1>D, DepthsHold, RoutesAreFinite
    <3> QED BY <3>1, <3>2, <3>3, <3>4
  <2>a. PICK all : all = st.accepted
    OBVIOUS
  <2>3. all \in [D -> Nat] /\ \A i \in D : i \notin shown => all[i] = 0
    BY <2>2, <2>a
  <2>4. Total([i \in shown |-> all[i]]) = Total(all)
    BY ONLY <2>2, <2>3, TotalOfSome
  <2>5. acc = [i \in shown |-> all[i]]
    BY <1>f, <2>a DEF Only
  <2> QED BY <1>5, <2>1, <2>4, <2>5, <2>a
<1>8. /\ \A field \in {"routes", "node_observations", "link_observations"},
            part \in {"total", "displayed", "omitted"} :
            Total([r \in R |-> results[r][field][part]]) = stats[field][part]
      /\ Total([r \in R |-> results[r].complete]) = stats.complete
  <2>1. IsFiniteSet(R) /\ \A i \in DOMAIN routes : routes[i].result \in R
    <3>1. DOMAIN rep = 1 .. Len(rep) /\ Len(rep) \in Nat
      BY DEF ReportSet
    <3>2. \A i \in DOMAIN routes : routes[i] \in TracesOf(rep)
      OBVIOUS
    <3>3. \A i \in DOMAIN routes : routes[i].result \in DOMAIN rep
      BY <3>2 DEF TracesOf
    <3>l. PICK l : l = Len(rep)
      OBVIOUS
    <3>4. IsFiniteSet(1 .. l)
      BY <3>1, <3>l, FS_Interval
    <3> QED BY <1>R, <3>1, <3>3, <3>4, <3>l
  <2>2. LET part(r) == {i \in DOMAIN routes : routes[i].result = r}
            results_ == [r \in R |-> ObservationStats(st, routes, part(r))]
            stats_ == ObservationStats(st, routes, DOMAIN routes)
        IN  /\ \A field \in {"routes", "node_observations", "link_observations"},
                  p \in {"total", "displayed", "omitted"} :
                  Total([r \in R |-> results_[r][field][p]]) = stats_[field][p]
            /\ Total([r \in R |-> results_[r].complete]) = stats_.complete
    BY ONLY routes \in Seq(TraceSet), SelectionInv(st, routes), <2>1, SumsHold
  <2>3. results = [r \in R |-> ObservationStats(st, routes, {i \in DOMAIN routes : routes[i].result = r})]
    BY <1>R DEF PartOf
  <2> QED BY ONLY <1>D, <1>s, <2>2, <2>3
<1>9. \A r \in R : ResultAgrees(results[r], drawn, rep, r)
  <2>1. ASSUME NEW r \in R
        PROVE  ResultAgrees(results[r], drawn, rep, r)
    <3>x. PICK x : x = ObservationStats(st, routes, PartOf(routes, r))
      OBVIOUS
    <3>1. results[r] = x /\ r \in DOMAIN rep
      BY <1>R, <3>x
    <3>2. ResultAgrees(x, drawn, rep, r)
      BY <1>d, <3>1, <3>x, ResultStatsHold
    <3> QED BY <3>1, <3>2
  <2> QED BY <2>1
<1>10. DOMAIN results = R
  BY <1>R
<1>11. /\ CountAgrees(t.nodeStats) /\ CountAgrees(t.linkStats) /\ StatsAgree(stats)
       /\ t.nodeStats.displayed = Len(t.nodes) /\ t.linkStats.displayed = Cardinality(t.links)
       /\ stats.routes.displayed = Len(drawn)
       /\ stats.complete = Cardinality({n \in DOMAIN drawn : drawn[n].complete})
       /\ stats.link_observations.displayed = Total([l \in links |-> l.observations])
  BY <1>3, <1>4, <1>5, <1>6, <1>7
<1>12. CountsAgree(t.nodes, links, drawn, t.nodeStats, t.linkStats, stats, results, rep)
  <2>1. /\ \A field \in {"routes", "node_observations", "link_observations"},
              part \in {"total", "displayed", "omitted"} :
              Total([r \in DOMAIN results |-> results[r][field][part]]) = stats[field][part]
        /\ Total([r \in DOMAIN results |-> results[r].complete]) = stats.complete
    BY ONLY <1>8, <1>10
  <2>2. \A r \in DOMAIN results : ResultAgrees(results[r], drawn, rep, r)
    BY ONLY <1>9, <1>10
  <2>3. t.linkStats.displayed = Cardinality(links)
    BY <1>1, <1>11
  <2> QED BY ONLY <1>11, <2>1, <2>2, <2>3 DEF CountsAgree
<1>13. CountsAgree(t.nodes, t.links, t.routes, t.nodeStats, t.linkStats, t.stats, t.result_stats, rep)
  BY ONLY <1>1, <1>12
<1> QED BY ONLY <1>13, CountsThatAgree

-----------------------------------------------------------------------------
(* The topologies the server can make, and that the client accepts them.   *)

(* A topology with some of the bundles that fit: whatever the server makes *)
(* is of this form.                                                        *)
Fitting(ks) == {n \in DOMAIN ks : BundleOf(ks[n]) = "fits"}

NodesDrawn(ks, B) ==
    [n \in DOMAIN ks |-> [id |-> <<n>>, key |-> ks[n], public |-> BundleOf(ks[n]) # "private",
                          geo |-> n \in B]]

Having(ks, bundles) == {n \in DOMAIN ks : BundleOf(ks[n]) \in bundles}

GeoDrawn(ks, B) ==
    [eligible |-> Cardinality(Having(ks, {"none", "fits", "large"})),
     available |-> Cardinality(Having(ks, {"fits", "large"})),
     included |-> Cardinality(B),
     omitted |-> Cardinality(Having(ks, {"fits", "large"})) - Cardinality(B),
     unavailable |-> Cardinality(Having(ks, {"none"}))]

Drawing(rep, routes, st, B, reasons) ==
    [nodes |-> NodesDrawn(SelectedKeys(st, routes), B),
     links |-> SelectedLinks(st, routes, SelectedKeys(st, routes)),
     routes |-> RoutesDrawn(st, routes),
     nodeStats |-> Count(Cardinality(UNION {ToSet(routes[i].keys) : i \in DOMAIN routes}),
                         Len(SelectedKeys(st, routes))),
     linkStats |-> Count(Cardinality(UNION {Pairs(routes[i].keys) : i \in DOMAIN routes}),
                         Cardinality(EdgesShown(st, routes))),
     stats |-> ObservationStats(st, routes, DOMAIN routes),
     result_stats |-> [r \in DOMAIN rep |-> ObservationStats(st, routes, PartOf(routes, r))],
     geo |-> GeoDrawn(SelectedKeys(st, routes), B),
     reasons |-> reasons,
     accepted |-> st.taken]

(* The four kinds of bundles.                                              *)
LEMMA BundleKinds ==
    ASSUME NEW k \in Keys
    PROVE  BundleOf(k) \in {"none", "fits", "large", "private"}
<1>1. CASE k.kind = "ip" /\ k.at[1] \in Public
  <2>1. Bundle[k.at[1]] \in {"none", "fits", "large"}
    BY <1>1, CompactAssumption
  <2> QED BY <1>1, <2>1 DEF BundleOf
<1>2. CASE ~(k.kind = "ip" /\ k.at[1] \in Public)
  BY <1>2 DEF BundleOf
<1> QED BY <1>1, <1>2

(* The sizes of what nodes have bundles. *)
LEMMA HavingHolds ==
    ASSUME NEW ks, ks \in Seq(Keys), Len(ks) <= MaxNodes, NEW B, B \in SUBSET Fitting(ks)
    PROVE  /\ \A bundles : /\ IsFiniteSet(Having(ks, bundles))
                           /\ Cardinality(Having(ks, bundles)) \in 0 .. MaxNodes
           /\ IsFiniteSet(B) /\ Cardinality(B) \in 0 .. MaxNodes
           /\ Cardinality(B) <= Cardinality(Having(ks, {"fits", "large"}))
           /\ Cardinality(Having(ks, {"none", "fits", "large"}))
                = Cardinality(Having(ks, {"fits", "large"})) + Cardinality(Having(ks, {"none"}))
           /\ IsFiniteSet(Fitting(ks)) /\ Fitting(ks) \in SUBSET Nat
<1>l. PICK l : l = Len(ks)
  OBVIOUS
<1>1. DOMAIN ks = 1 .. l /\ l \in Nat /\ MaxNodes \in Nat /\ l <= MaxNodes
  BY <1>l, PrefixAssumption
<1>2. IsFiniteSet(1 .. l) /\ Cardinality(1 .. l) = l
  <2>1. l \in Nat
    BY <1>1
  <2> QED BY ONLY <2>1, FS_Interval
<1>3. ASSUME NEW T, T \subseteq DOMAIN ks
      PROVE  IsFiniteSet(T) /\ Cardinality(T) \in 0 .. MaxNodes
  <2>1. T \subseteq 1 .. l
    BY <1>1, <1>3
  <2>2. IsFiniteSet(T) /\ Cardinality(T) <= l
    BY <1>2, <2>1, FS_Subset
  <2>3. Cardinality(T) \in Nat
    BY <2>2, FS_CardinalityType
  <2> QED BY <1>1, <2>2, <2>3
<1>4. \A bundles : /\ IsFiniteSet(Having(ks, bundles))
                   /\ Cardinality(Having(ks, bundles)) \in 0 .. MaxNodes
  <2>1. \A bundles : Having(ks, bundles) \subseteq DOMAIN ks
    BY DEF Having
  <2> QED BY <1>3, <2>1
<1>5. B \subseteq Having(ks, {"fits", "large"}) /\ B \subseteq DOMAIN ks
  BY DEF Having, Fitting
<1>6. IsFiniteSet(B) /\ Cardinality(B) \in 0 .. MaxNodes
  BY <1>3, <1>5
<1>h. PICK all, some, none :
         /\ all = Having(ks, {"none", "fits", "large"}) /\ some = Having(ks, {"fits", "large"})
         /\ none = Having(ks, {"none"})
  OBVIOUS
<1>7. Cardinality(B) <= Cardinality(some)
  BY <1>4, <1>5, <1>h, FS_Subset
<1>8. Cardinality(all) = Cardinality(some) + Cardinality(none)
  <2>1. all = some \cup none /\ some \cap none = {}
    BY <1>h DEF Having
  <2>2. IsFiniteSet(some) /\ IsFiniteSet(none) /\ Cardinality(some) \in Nat /\ Cardinality(none) \in Nat
    BY <1>1, <1>4, <1>h
  <2>3. Cardinality(some \cup none) = Cardinality(some) + Cardinality(none) - Cardinality(some \cap none)
    BY ONLY <2>2, FS_Union
  <2>4. Cardinality(some \cap none) = 0
    BY <2>1, FS_EmptySet
  <2> QED BY ONLY <2>1, <2>2, <2>3, <2>4
<1>9. IsFiniteSet(Fitting(ks)) /\ Fitting(ks) \in SUBSET Nat
  <2>1. Fitting(ks) \subseteq DOMAIN ks
    BY DEF Fitting
  <2> QED BY <1>1, <1>3, <2>1
<1> QED BY <1>4, <1>6, <1>7, <1>8, <1>9, <1>h

(* The nodes that are drawn have the ids, the keys and the bundles.        *)
LEMMA NodesHold ==
    ASSUME NEW ks, ks \in Seq(Keys), NEW B, B \in SUBSET Fitting(ks)
    PROVE  LET nodes == NodesDrawn(ks, B)
           IN  /\ DOMAIN nodes = DOMAIN ks /\ Len(nodes) = Len(ks) /\ DOMAIN ks = 1 .. Len(ks)
               /\ \A n \in DOMAIN ks :
                     /\ nodes[n].id = <<n>> /\ nodes[n].key = ks[n]
                     /\ nodes[n].public = (BundleOf(ks[n]) # "private")
                     /\ nodes[n].geo = (n \in B)
               /\ {nodes[i].id : i \in DOMAIN nodes} = {<<n>> : n \in DOMAIN ks}
               /\ {n \in DOMAIN nodes : nodes[n].public} = Having(ks, {"none", "fits", "large"})
               /\ {n \in DOMAIN nodes : nodes[n].geo} = B
<1>n. PICK nodes : nodes = NodesDrawn(ks, B)
  OBVIOUS
<1>1. DOMAIN nodes = DOMAIN ks /\ DOMAIN ks = 1 .. Len(ks) /\ Len(ks) \in Nat
  BY <1>n DEF NodesDrawn
<1>2. Len(nodes) = Len(ks)
  BY <1>1
<1>3. \A n \in DOMAIN ks : /\ nodes[n].id = <<n>> /\ nodes[n].key = ks[n]
                           /\ nodes[n].public = (BundleOf(ks[n]) # "private")
                           /\ nodes[n].geo = (n \in B)
  BY <1>n DEF NodesDrawn
<1>4. {nodes[i].id : i \in DOMAIN nodes} = {<<n>> : n \in DOMAIN ks}
  <2>1. \A i \in DOMAIN nodes : nodes[i].id = <<i>>
    BY <1>1, <1>3
  <2>2. DOMAIN nodes = DOMAIN ks
    BY <1>1
  <2>3. {nodes[i].id : i \in DOMAIN nodes} = {<<n>> : n \in DOMAIN nodes}
    BY ONLY <2>1
  <2> QED BY ONLY <2>2, <2>3
<1>5. {n \in DOMAIN nodes : nodes[n].public} = Having(ks, {"none", "fits", "large"})
  <2>1. \A n \in DOMAIN ks : BundleOf(ks[n]) \in {"none", "fits", "large", "private"}
    BY <1>1, BundleKinds
  <2> QED BY <1>1, <1>3, <2>1 DEF Having
<1>6. {n \in DOMAIN nodes : nodes[n].geo} = B
  <2>1. B \subseteq DOMAIN ks
    BY DEF Fitting
  <2> QED BY <1>1, <1>3, <2>1
<1> QED BY <1>1, <1>2, <1>3, <1>4, <1>5, <1>6, <1>n

(* The client accepts such a topology. *)
THEOREM DrawingIsAccepted ==
    ASSUME NEW rep, rep \in ReportSet, NEW routes, routes \in Seq(TracesOf(rep)), routes \in Seq(TraceSet),
           NEW st, SelectionInv(st, routes),
           NEW B, B \in SUBSET Fitting(SelectedKeys(st, routes)), NEW reasons
    PROVE  NormalizeCompactTopology(Drawing(rep, routes, st, B, reasons), rep)
<1>t. PICK t : t = Drawing(rep, routes, st, B, reasons)
  OBVIOUS
<1>k. PICK ks : ks = SelectedKeys(st, routes)
  OBVIOUS
<1>1. /\ t.nodes = NodesDrawn(ks, B) /\ t.links = SelectedLinks(st, routes, ks)
      /\ t.routes = RoutesDrawn(st, routes) /\ t.geo = GeoDrawn(ks, B)
      /\ t.nodeStats = Count(Cardinality(UNION {ToSet(routes[i].keys) : i \in DOMAIN routes}), Len(ks))
      /\ t.linkStats = Count(Cardinality(UNION {Pairs(routes[i].keys) : i \in DOMAIN routes}),
                             Cardinality(EdgesShown(st, routes)))
      /\ t.stats = ObservationStats(st, routes, DOMAIN routes)
      /\ t.result_stats = [r \in DOMAIN rep |-> ObservationStats(st, routes, PartOf(routes, r))]
  BY <1>k, <1>t DEF Drawing
<1>2. ks \in Seq(Keys) /\ Len(ks) <= MaxNodes /\ Distinctly(ks) /\ B \in SUBSET Fitting(ks)
  BY <1>k, SelectedKeysHold
<1>3. /\ DOMAIN t.nodes = DOMAIN ks /\ Len(t.nodes) = Len(ks) /\ DOMAIN ks = 1 .. Len(ks)
      /\ \A n \in DOMAIN ks :
            /\ t.nodes[n].id = <<n>> /\ t.nodes[n].key = ks[n]
            /\ t.nodes[n].public = (BundleOf(ks[n]) # "private")
            /\ t.nodes[n].geo = (n \in B)
      /\ {t.nodes[i].id : i \in DOMAIN t.nodes} = {<<n>> : n \in DOMAIN ks}
      /\ {n \in DOMAIN t.nodes : t.nodes[n].public} = Having(ks, {"none", "fits", "large"})
      /\ {n \in DOMAIN t.nodes : t.nodes[n].geo} = B
  <2>n. PICK nodes : nodes = NodesDrawn(ks, B)
    OBVIOUS
  <2>1. /\ DOMAIN nodes = DOMAIN ks /\ Len(nodes) = Len(ks) /\ DOMAIN ks = 1 .. Len(ks)
        /\ \A n \in DOMAIN ks :
              /\ nodes[n].id = <<n>> /\ nodes[n].key = ks[n]
              /\ nodes[n].public = (BundleOf(ks[n]) # "private")
              /\ nodes[n].geo = (n \in B)
        /\ {nodes[i].id : i \in DOMAIN nodes} = {<<n>> : n \in DOMAIN ks}
        /\ {n \in DOMAIN nodes : nodes[n].public} = Having(ks, {"none", "fits", "large"})
        /\ {n \in DOMAIN nodes : nodes[n].geo} = B
    BY ONLY <1>2, <2>n, NodesHold
  <2>2. t.nodes = nodes
    BY <1>1, <2>n
  <2> QED BY ONLY <2>1, <2>2
<1>4. Len(t.nodes) <= MaxNodes /\ Cardinality(t.links) <= MaxLinks
  <2>1. Cardinality(t.links) <= MaxLinks
    <3>e. PICK E, links : E = EdgesShown(st, routes) /\ links = SelectedLinks(st, routes, ks)
      OBVIOUS
    <3>1. Cardinality(E) <= MaxLinks
      BY <3>e, EdgesHold
    <3>2. Cardinality(links) = Cardinality(E)
      BY <1>k, <3>e, LinksHold
    <3> QED BY <1>1, <3>1, <3>2, <3>e
  <2> QED BY <1>2, <1>3, <2>1
<1>5. IsInjective([n \in DOMAIN t.nodes |-> t.nodes[n].id])
  <2>1. \A m, n \in DOMAIN t.nodes : t.nodes[m].id = t.nodes[n].id => m = n
    <3>1. ASSUME NEW m \in DOMAIN ks, NEW n \in DOMAIN ks, t.nodes[m].id = t.nodes[n].id
          PROVE  m = n
      <4>1. <<m>> = <<n>>
        BY <1>3, <3>1
      <4> QED BY <4>1
    <3> QED BY <1>3, <3>1
  <2> QED BY <2>1 DEF IsInjective
<1>6. \A n \in DOMAIN t.nodes : GeoBundleAccepted(t.nodes[n])
  <2>1. \A n \in B : BundleOf(ks[n]) = "fits"
    BY <1>2 DEF Fitting
  <2> QED BY <1>3, <2>1 DEF GeoBundleAccepted
<1>7. /\ \A l \in t.links :
            /\ {l.from, l.to} \subseteq {t.nodes[n].id : n \in DOMAIN t.nodes}
            /\ l.from # l.to /\ l.observations >= 1
      /\ \A l1, l2 \in t.links : <<l1.from, l1.to>> = <<l2.from, l2.to>> => l1 = l2
  <2>l. PICK links : links = t.links
    OBVIOUS
  <2>1. /\ \A l \in links : /\ {l.from, l.to} \subseteq {<<n>> : n \in DOMAIN ks}
                            /\ l.from # l.to /\ l.observations >= 1
        /\ \A l1, l2 \in links : <<l1.from, l1.to>> = <<l2.from, l2.to>> => l1 = l2
    <3>l. PICK sl : sl = SelectedLinks(st, routes, ks)
      OBVIOUS
    <3>1. /\ \A l \in sl : /\ {l.from, l.to} \subseteq {<<n>> : n \in DOMAIN ks}
                           /\ l.from # l.to /\ l.observations >= 1
          /\ \A l1, l2 \in sl : <<l1.from, l1.to>> = <<l2.from, l2.to>> => l1 = l2
      BY ONLY routes \in Seq(TraceSet), SelectionInv(st, routes), <1>k, <3>l, LinksHold
    <3>2. links = sl
      BY <1>1, <2>l, <3>l
    <3> QED BY ONLY <3>1, <3>2
  <2> QED BY ONLY <1>3, <2>1, <2>l
<1>8. RoutesAccepted(t, rep)
  BY <1>1, <1>3, <1>k, RoutesAreAccepted
<1>9. StatsAccepted(t, rep)
  <2>1. HasStats(t, rep, st, routes)
    BY <1>1, <1>3, <1>k DEF HasStats
  <2> QED BY <2>1, StatsAreAccepted
<1>10. GeoAccepted(t)
  <2>h. PICK all, some, none, in :
           /\ all = Cardinality(Having(ks, {"none", "fits", "large"}))
           /\ some = Cardinality(Having(ks, {"fits", "large"}))
           /\ none = Cardinality(Having(ks, {"none"})) /\ in = Cardinality(B)
    OBVIOUS
  <2>1. /\ all \in 0 .. MaxNodes /\ some \in 0 .. MaxNodes /\ none \in 0 .. MaxNodes
        /\ in \in 0 .. MaxNodes /\ in <= some /\ all = some + none
    BY ONLY <1>2, <2>h, HavingHolds
  <2>2. MaxNodes \in Nat
    BY PrefixAssumption
  <2>g. PICK geo : geo = t.geo
    OBVIOUS
  <2>3. /\ geo.eligible = all /\ geo.available = some /\ geo.included = in
        /\ geo.omitted = some - in /\ geo.unavailable = none
    BY <1>1, <2>g, <2>h DEF GeoDrawn
  <2>4. /\ some = in + (some - in)
        /\ {all, some, in, some - in, none} \subseteq 0 .. MaxNodes
    BY <2>1, <2>2
  <2>5. /\ geo.eligible = Cardinality({n \in DOMAIN t.nodes : t.nodes[n].public})
        /\ geo.included = Cardinality({n \in DOMAIN t.nodes : t.nodes[n].geo})
    BY <1>3, <2>3, <2>h
  <2> QED BY ONLY <2>1, <2>3, <2>4, <2>5, <2>g DEF GeoAccepted
<1> QED BY <1>4, <1>5, <1>6, <1>7, <1>8, <1>9, <1>10, <1>t DEF NormalizeCompactTopology

-----------------------------------------------------------------------------
(* The cuts, and the length that is left.                                  *)

(* A topology by its fields, and what a cut of its bundles replaces. *)
OfFields(nodes, links, rs, ns, ls, ss, rr, e, v, i, o, u, re, ac) ==
    [nodes |-> nodes, links |-> links, routes |-> rs, nodeStats |-> ns,
     linkStats |-> ls, stats |-> ss, result_stats |-> rr,
     geo |-> [eligible |-> e, available |-> v, included |-> i, omitted |-> o, unavailable |-> u],
     reasons |-> re, accepted |-> ac]

Recut(t, N, x, y) == [t EXCEPT !.nodes = N, !.geo.included = x, !.geo.omitted = y]

(* A cut replaces the nodes and two of the counts.                         *)
LEMMA CutRecord ==
    ASSUME NEW nodes, NEW links, NEW rs, NEW ns, NEW ls, NEW ss, NEW rr, NEW re, NEW ac,
           NEW e, NEW v, NEW i, NEW o, NEW u, NEW N, NEW x, NEW y
    PROVE  Recut(OfFields(nodes, links, rs, ns, ls, ss, rr, e, v, i, o, u, re, ac), N, x, y)
           = OfFields(N, links, rs, ns, ls, ss, rr, e, v, x, y, u, re, ac)
<1>t. PICK t : t = OfFields(nodes, links, rs, ns, ls, ss, rr, e, v, i, o, u, re, ac)
  OBVIOUS
<1>g. PICK g : g = [eligible |-> e, available |-> v, included |-> i, omitted |-> o, unavailable |-> u]
  OBVIOUS
<1>h. PICK h : h = [eligible |-> e, available |-> v, included |-> x, omitted |-> y, unavailable |-> u]
  OBVIOUS
<1>1. [[g EXCEPT !.included = x] EXCEPT !.omitted = y] = h
  <2>1. [g EXCEPT !.included = x]
          = [eligible |-> e, available |-> v, included |-> x, omitted |-> o, unavailable |-> u]
    BY ONLY <1>g
  <2>2. [[eligible |-> e, available |-> v, included |-> x, omitted |-> o, unavailable |-> u]
            EXCEPT !.omitted = y]
          = [eligible |-> e, available |-> v, included |-> x, omitted |-> y, unavailable |-> u]
    OBVIOUS
  <2> QED BY ONLY <1>h, <2>1, <2>2
<1>2. t = [nodes |-> nodes, links |-> links, routes |-> rs, nodeStats |-> ns,
                linkStats |-> ls, stats |-> ss, result_stats |-> rr, geo |-> g,
                reasons |-> re, accepted |-> ac]
  BY <1>g, <1>t DEF OfFields
<1>3. [t EXCEPT !.nodes = N, !.geo = h]
        = [nodes |-> N, links |-> links, routes |-> rs, nodeStats |-> ns,
                linkStats |-> ls, stats |-> ss, result_stats |-> rr, geo |-> h,
                reasons |-> re, accepted |-> ac]
  <2>1. [t EXCEPT !.nodes = N]
          = [nodes |-> N, links |-> links, routes |-> rs, nodeStats |-> ns,
             linkStats |-> ls, stats |-> ss, result_stats |-> rr, geo |-> g,
             reasons |-> re, accepted |-> ac]
    BY ONLY <1>2
  <2>2. [[nodes |-> N, links |-> links, routes |-> rs, nodeStats |-> ns,
          linkStats |-> ls, stats |-> ss, result_stats |-> rr, geo |-> g,
          reasons |-> re, accepted |-> ac] EXCEPT !.geo = h]
          = [nodes |-> N, links |-> links, routes |-> rs, nodeStats |-> ns,
             linkStats |-> ls, stats |-> ss, result_stats |-> rr, geo |-> h,
             reasons |-> re, accepted |-> ac]
    OBVIOUS
  <2>3. [t EXCEPT !.nodes = N, !.geo = h] = [[t EXCEPT !.nodes = N] EXCEPT !.geo = h]
    OBVIOUS
  <2> QED BY ONLY <2>1, <2>2, <2>3
<1>4. [t EXCEPT !.nodes = N, !.geo.included = x, !.geo.omitted = y] = [t EXCEPT !.nodes = N, !.geo = h]
  BY ONLY <1>1, <1>2
<1> QED BY <1>3, <1>4, <1>h, <1>t DEF Recut, OfFields

(* The numbers of B without the k last. *)
WithoutLast(B, k) == {n \in B : Cardinality({m \in B : m > n}) >= k}

(* Without the k last, a set is smaller by k.                              *)
LEMMA WithoutLastHolds ==
    ASSUME NEW B, B \in SUBSET Nat, IsFiniteSet(B), NEW k, k \in 0 .. Cardinality(B)
    PROVE  /\ WithoutLast(B, k) \in SUBSET B
           /\ Cardinality(WithoutLast(B, k)) = Cardinality(B) - k
<1>a. PICK a, c : a = Ascending(B) /\ c = Cardinality(B)
  OBVIOUS
<1>w. PICK W : W = WithoutLast(B, k)
  OBVIOUS
<1>1. /\ c \in Nat /\ a \in [1 .. c -> B]
      /\ \A i, j \in 1 .. c : i < j => a[i] < a[j]
      /\ \A x \in B : \E i \in 1 .. c : a[i] = x
      /\ \A i \in 1 .. c : Cardinality({y \in B : y < a[i]}) = i - 1
  BY ONLY <1>a, B \in SUBSET Nat, IsFiniteSet(B), AscendingHolds
<1>2. k \in Nat /\ k <= c /\ c - k \in Nat
  BY <1>1, <1>a
<1>3. ASSUME NEW j \in 1 .. c
      PROVE  Cardinality({m \in B : m > a[j]}) = c - j
  <2>s. PICK below, rest, above :
           /\ below = {y \in B : y < a[j]} /\ rest = B \ below
           /\ above = {m \in B : m > a[j]}
    OBVIOUS
  <2>1. a[j] \in B /\ \A y \in B : y \in Nat
    BY <1>1
  <2>2. IsFiniteSet(below) /\ Cardinality(below) = j - 1 /\ B \cap below = below
    BY <1>1, <2>s, FS_Subset
  <2>3. IsFiniteSet(rest) /\ Cardinality(rest) = c - (j - 1)
    <3>1. IsFiniteSet(B \ below) /\ Cardinality(B \ below) = Cardinality(B) - Cardinality(B \cap below)
      BY ONLY IsFiniteSet(B), FS_Difference
    <3> QED BY ONLY <1>a, <2>2, <2>s, <3>1
  <2>4. above = rest \ {a[j]} /\ a[j] \in rest
    <3>x. PICK x : x = a[j]
      OBVIOUS
    <3>1. /\ x \in B /\ \A y \in B : y \in Nat
          /\ below = {y \in B : y < x} /\ rest = B \ below /\ above = {m \in B : m > x}
      BY ONLY <2>1, <2>s, <3>x
    <3>2. above = rest \ {x} /\ x \in rest
      BY ONLY <3>1
    <3> QED BY ONLY <3>2, <3>x
  <2>5. Cardinality(rest \ {a[j]}) = Cardinality(rest) - 1
    BY <2>3, <2>4, FS_RemoveElement
  <2>6. Cardinality(above) = (c - (j - 1)) - 1
    BY ONLY <2>3, <2>4, <2>5
  <2> QED BY <1>1, <2>6, <2>s
<1>F. PICK F : F = [j \in 1 .. c - k |-> a[j]]
  OBVIOUS
<1>4. \A j \in 1 .. c : a[j] \in W <=> j \in 1 .. c - k
  <2>1. ASSUME NEW j \in 1 .. c
        PROVE  a[j] \in W <=> j \in 1 .. c - k
    <3>1. a[j] \in B
      BY <1>1
    <3>2. a[j] \in W <=> Cardinality({m \in B : m > a[j]}) >= k
      BY <1>w, <3>1 DEF WithoutLast
    <3>3. a[j] \in W <=> c - j >= k
      BY <1>3, <3>2
    <3>4. j \in Nat /\ 1 <= j /\ j <= c
      BY <1>1
    <3> QED BY ONLY <1>1, <1>2, <3>3, <3>4
  <2> QED BY <2>1
<1>5. F \in [1 .. c - k -> W]
  BY <1>1, <1>2, <1>4, <1>F
<1>6. \A i, j \in 1 .. c - k : F[i] = F[j] => i = j
  <2>1. ASSUME NEW i \in 1 .. c - k, NEW j \in 1 .. c - k, F[i] = F[j]
        PROVE  i = j
    <3>1. i \in 1 .. c /\ j \in 1 .. c /\ a[i] = a[j]
      BY <1>1, <1>2, <1>F, <2>1
    <3>2. a[i] \in Nat
      BY <1>1, <3>1
    <3>3. ~(i < j) /\ ~(j < i)
      BY <1>1, <3>1, <3>2
    <3> QED BY <1>1, <3>1, <3>3
  <2> QED BY <2>1
<1>7. \A x \in W : \E j \in 1 .. c - k : F[j] = x
  <2>1. \A x \in W : x \in B
    BY <1>w DEF WithoutLast
  <2>2. ASSUME NEW x \in W
        PROVE  \E j \in 1 .. c - k : F[j] = x
    <3>1. PICK j \in 1 .. c : a[j] = x
      BY <1>1, <2>1
    <3> QED BY <1>4, <1>F, <3>1
  <2> QED BY <2>2
<1>8. IsFiniteSet(1 .. c - k) /\ Cardinality(1 .. c - k) = c - k
  <2>d. PICK d : d = c - k
    OBVIOUS
  <2>1. d \in Nat
    BY <1>2, <2>d
  <2>2. IsFiniteSet(1 .. d) /\ Cardinality(1 .. d) = d
    BY ONLY <2>1, FS_Interval
  <2> QED BY <2>2, <2>d
<1>9. Cardinality(W) = Cardinality(1 .. c - k)
  <2>I. PICK I : I = 1 .. c - k
    OBVIOUS
  <2>1. /\ F \in [I -> W] /\ IsFiniteSet(I) /\ \A i, j \in I : F[i] = F[j] => i = j
        /\ \A x \in W : \E j \in I : F[j] = x
    BY ONLY <1>5, <1>6, <1>7, <1>8, <2>I
  <2>2. Cardinality(W) = Cardinality(I)
    BY ONLY <2>1, SameSize
  <2> QED BY ONLY <2>2, <2>I
<1>10. W \in SUBSET B
  BY <1>w DEF WithoutLast
<1> QED BY <1>8, <1>9, <1>10, <1>a, <1>w

(* Cutting bundles leaves a topology of the same form. *)
LEMMA CutHolds ==
    ASSUME NEW rep, NEW routes, routes \in Seq(TraceSet), NEW st, SelectionInv(st, routes),
           NEW B, B \in SUBSET Fitting(SelectedKeys(st, routes)), NEW reasons,
           NEW k, k \in 0 .. Cardinality(B)
    PROVE  WithoutLastGeoBundles(Drawing(rep, routes, st, B, reasons), k)
             = Drawing(rep, routes, st, WithoutLast(B, k), reasons)
<1>k. PICK ks : ks = SelectedKeys(st, routes)
  OBVIOUS
<1>t. PICK t : t = Drawing(rep, routes, st, B, reasons)
  OBVIOUS
<1>w. PICK W : W = WithoutLast(B, k)
  OBVIOUS
<1>n. PICK nodes : nodes = NodesDrawn(ks, B)
  OBVIOUS
<1>1. ks \in Seq(Keys) /\ Len(ks) <= MaxNodes /\ B \in SUBSET Fitting(ks)
  BY <1>k, SelectedKeysHold
<1>2. /\ DOMAIN nodes = DOMAIN ks
      /\ {n \in DOMAIN nodes : nodes[n].geo} = B
      /\ nodes = [n \in DOMAIN ks |-> [id |-> <<n>>, key |-> ks[n],
                                       public |-> BundleOf(ks[n]) # "private", geo |-> n \in B]]
  <2>1. DOMAIN nodes = DOMAIN ks /\ {n \in DOMAIN nodes : nodes[n].geo} = B
    BY ONLY <1>1, <1>n, NodesHold
  <2> QED BY <1>n, <2>1 DEF NodesDrawn
<1>h. PICK all, some, none :
         /\ all = Cardinality(Having(ks, {"none", "fits", "large"}))
         /\ some = Cardinality(Having(ks, {"fits", "large"}))
         /\ none = Cardinality(Having(ks, {"none"}))
  OBVIOUS
<1>3. /\ B \in SUBSET Nat /\ IsFiniteSet(B) /\ Cardinality(B) \in Nat /\ some \in Nat
  BY <1>1, <1>h, HavingHolds
<1>4. W \in SUBSET B /\ Cardinality(W) = Cardinality(B) - k /\ k \in Nat
  <2>1. WithoutLast(B, k) \in SUBSET B /\ Cardinality(WithoutLast(B, k)) = Cardinality(B) - k
    BY <1>3, WithoutLastHolds
  <2> QED BY <1>3, <1>w, <2>1
<1>N. PICK N : N = NodesDrawn(ks, W)
  OBVIOUS
<1>r. PICK rs, links, ns, ls, ss, rr :
         /\ rs = RoutesDrawn(st, routes) /\ links = SelectedLinks(st, routes, ks)
         /\ ns = Count(Cardinality(UNION {ToSet(routes[i].keys) : i \in DOMAIN routes}), Len(ks))
         /\ ls = Count(Cardinality(UNION {Pairs(routes[i].keys) : i \in DOMAIN routes}),
                       Cardinality(EdgesShown(st, routes)))
         /\ ss = ObservationStats(st, routes, DOMAIN routes)
         /\ rr = [r \in DOMAIN rep |-> ObservationStats(st, routes, PartOf(routes, r))]
  OBVIOUS
<1>c. PICK in : in = Cardinality(B)
  OBVIOUS
<1>5. t = OfFields(nodes, links, rs, ns, ls, ss, rr, all, some, in, some - in, none, reasons, st.taken)
  BY <1>t, <1>k, <1>n, <1>h, <1>r, <1>c DEF Drawing, GeoDrawn, OfFields
<1>6. Drawing(rep, routes, st, W, reasons)
        = OfFields(N, links, rs, ns, ls, ss, rr, all, some, in - k, (some - in) + k, none, reasons, st.taken)
  <2>1. in - k = Cardinality(W) /\ (some - in) + k = some - Cardinality(W)
    BY <1>3, <1>4, <1>c
  <2>2. GeoDrawn(ks, W) = [eligible |-> all, available |-> some, included |-> in - k,
                           omitted |-> (some - in) + k, unavailable |-> none]
    BY <1>h, <2>1 DEF GeoDrawn
  <2> QED BY <1>k, <1>N, <1>r, <2>2 DEF Drawing, OfFields
<1>7. t.nodes = nodes /\ t.geo.included = in /\ t.geo.omitted = some - in
  BY <1>5 DEF OfFields
<1>8. \A n \in DOMAIN ks : Later(t, n) = Cardinality({m \in B : m > n})
  <2>1. \A n : {m \in DOMAIN nodes : m > n /\ nodes[m].geo} = {m \in B : m > n}
    BY <1>2
  <2> QED BY <1>7, <2>1 DEF Later
<1>9. [n \in DOMAIN t.nodes |-> [t.nodes[n] EXCEPT !.geo = @ /\ Later(t, n) >= k]] = N
  <2>1. ASSUME NEW n \in DOMAIN ks
        PROVE  [t.nodes[n] EXCEPT !.geo = @ /\ Later(t, n) >= k]
                 = [id |-> <<n>>, key |-> ks[n], public |-> BundleOf(ks[n]) # "private", geo |-> n \in W]
    <3>p. PICK p \in BOOLEAN : p <=> (BundleOf(ks[n]) # "private")
      OBVIOUS
    <3>g. PICK g \in BOOLEAN : g <=> (n \in B)
      OBVIOUS
    <3>b. PICK b \in BOOLEAN : b <=> (Later(t, n) >= k)
      OBVIOUS
    <3>x. PICK x : x = t.nodes[n]
      OBVIOUS
    <3>1. x = [id |-> <<n>>, key |-> ks[n], public |-> p, geo |-> g]
      BY <1>2, <1>7, <3>p, <3>g, <3>x
    <3>2. (g /\ b) <=> (n \in W)
      <4>1. n \in W <=> n \in B /\ Cardinality({m \in B : m > n}) >= k
        BY <1>w DEF WithoutLast
      <4>2. b <=> Cardinality({m \in B : m > n}) >= k
        BY <1>8, <3>b
      <4> QED BY ONLY <4>1, <4>2, <3>g
    <3>3. [x EXCEPT !.geo = @ /\ b] = [id |-> <<n>>, key |-> ks[n], public |-> p, geo |-> g /\ b]
      BY ONLY <3>1, g \in BOOLEAN, b \in BOOLEAN
    <3>4. [t.nodes[n] EXCEPT !.geo = @ /\ Later(t, n) >= k] = [x EXCEPT !.geo = @ /\ b]
      BY ONLY <3>b, <3>x
    <3> QED BY <3>2, <3>3, <3>4, <3>p
  <2>2. DOMAIN t.nodes = DOMAIN ks
    BY <1>2, <1>7
  <2>3. N = [n \in DOMAIN ks |-> [id |-> <<n>>, key |-> ks[n], public |-> BundleOf(ks[n]) # "private",
                                  geo |-> n \in W]]
    BY <1>N DEF NodesDrawn
  <2> QED BY ONLY <2>1, <2>2, <2>3
<1>10. WithoutLastGeoBundles(t, k) = Recut(t, N, in - k, (some - in) + k)
  <2>1. NodesWithout(t, k) = N
    BY <1>9 DEF NodesWithout
  <2> QED BY ONLY <1>7, <2>1 DEF WithoutLastGeoBundles, Recut
<1>11. Recut(t, N, in - k, (some - in) + k) = Drawing(rep, routes, st, W, reasons)
  BY ONLY <1>5, <1>6, CutRecord
<1> QED BY <1>10, <1>11, <1>t, <1>w

(* The bundles a projection has. *)
BundlesOf(st, routes, geo) == IF geo THEN Fitting(SelectedKeys(st, routes)) ELSE {}

(* Only bundles that fit are included.                                     *)
LEMMA BundlesFit ==
    ASSUME NEW st, NEW routes, NEW geo \in BOOLEAN
    PROVE  BundlesOf(st, routes, geo) \in SUBSET Fitting(SelectedKeys(st, routes))
BY DEF BundlesOf

(* A projection is a drawing. *)
LEMMA ProjectedIsDrawing ==
    ASSUME NEW rep, NEW routes, NEW st, NEW geo \in BOOLEAN
    PROVE  Projected(rep, routes, st, geo)
             = Drawing(rep, routes, st, BundlesOf(st, routes, geo),
                       Reasons(st, GeoCounts(SelectedKeys(st, routes), geo)))
<1>k. PICK ks : ks = SelectedKeys(st, routes)
  OBVIOUS
<1>s. PICK shown : shown = Shown(st, routes)
  OBVIOUS
<1>b. PICK B : B = BundlesOf(st, routes, geo)
  OBVIOUS
<1>1. GeoCounts(ks, geo) = GeoDrawn(ks, B)
  <2>1. Having(ks, {"fits"}) = Fitting(ks)
    BY DEF Having, Fitting
  <2>2. (IF geo THEN Cardinality(Having(ks, {"fits"})) ELSE 0) = Cardinality(B)
    BY <1>b, <1>k, <2>1, FS_EmptySet DEF BundlesOf
  <2>3. GeoCounts(ks, geo) =
           [eligible |-> Cardinality(Having(ks, {"none", "fits", "large"})),
            available |-> Cardinality(Having(ks, {"fits", "large"})),
            included |-> IF geo THEN Cardinality(Having(ks, {"fits"})) ELSE 0,
            omitted |-> Cardinality(Having(ks, {"fits", "large"}))
                          - (IF geo THEN Cardinality(Having(ks, {"fits"})) ELSE 0),
            unavailable |-> Cardinality(Having(ks, {"none"}))]
    BY DEF GeoCounts, Having
  <2> QED BY <2>2, <2>3 DEF GeoDrawn
<1>2. [n \in DOMAIN ks |-> [id |-> <<n>>, key |-> ks[n], public |-> BundleOf(ks[n]) # "private",
                            geo |-> geo /\ BundleOf(ks[n]) = "fits"]] = NodesDrawn(ks, B)
  <2>1. ASSUME NEW n \in DOMAIN ks
        PROVE  (geo /\ BundleOf(ks[n]) = "fits") = (n \in B)
    <3>1. n \in Fitting(ks) <=> BundleOf(ks[n]) = "fits"
      BY DEF Fitting
    <3>2. B = IF geo THEN Fitting(ks) ELSE {}
      BY <1>b, <1>k DEF BundlesOf
    <3>3. (geo /\ BundleOf(ks[n]) = "fits") <=> (n \in B)
      BY <3>1, <3>2
    <3> QED BY <3>3
  <2> QED BY <2>1 DEF NodesDrawn
<1>3. [n \in DOMAIN shown |->
          RouteOf(st, routes[shown[n]], Prefix(st, routes, shown[n]), ks,
                  AcceptedWhole(st, routes, shown[n]))] = RoutesDrawn(st, routes)
  BY <1>k, <1>s DEF RoutesDrawn
<1>4. [r \in DOMAIN rep |-> ObservationStats(st, routes, {i \in DOMAIN routes : routes[i].result = r})]
        = [r \in DOMAIN rep |-> ObservationStats(st, routes, PartOf(routes, r))]
  BY DEF PartOf
<1>5. UNION {Pairs(Prefix(st, routes, i)) : i \in DOMAIN routes} = EdgesShown(st, routes)
  BY DEF EdgesShown
<1>r. PICK re : re = Reasons(st, GeoCounts(ks, geo))
  OBVIOUS
<1>6. Projection(rep, routes, st, shown, ks, geo) = Drawing(rep, routes, st, B, re)
  BY <1>1, <1>2, <1>3, <1>4, <1>5, <1>k, <1>r DEF Projection, Drawing
<1> QED BY <1>6, <1>k, <1>s, <1>b, <1>r DEF Projected

(* Naming the reasons leaves the rest. *)
LEMMA LimitedHolds ==
    ASSUME NEW rep, NEW routes, NEW st, NEW B, NEW reasons, NEW geo
    PROVE  \E more : Limited(Drawing(rep, routes, st, B, reasons), geo) = Drawing(rep, routes, st, B, more)
<1>m. PICK more : more = reasons \cup {"response_size"} \cup (IF geo THEN {"geo_metadata_limit"} ELSE {})
  OBVIOUS
<1>t. PICK nodes, links, rs, ns, ls, ss, rr, g, ac :
         /\ nodes = NodesDrawn(SelectedKeys(st, routes), B)
         /\ links = SelectedLinks(st, routes, SelectedKeys(st, routes))
         /\ rs = RoutesDrawn(st, routes)
         /\ ns = Count(Cardinality(UNION {ToSet(routes[i].keys) : i \in DOMAIN routes}),
                       Len(SelectedKeys(st, routes)))
         /\ ls = Count(Cardinality(UNION {Pairs(routes[i].keys) : i \in DOMAIN routes}),
                       Cardinality(EdgesShown(st, routes)))
         /\ ss = ObservationStats(st, routes, DOMAIN routes)
         /\ rr = [r \in DOMAIN rep |-> ObservationStats(st, routes, PartOf(routes, r))]
         /\ g = GeoDrawn(SelectedKeys(st, routes), B)
         /\ ac = st.taken
  OBVIOUS
<1>x. PICK t : t = Drawing(rep, routes, st, B, reasons)
  OBVIOUS
<1>1. t = [nodes |-> nodes, links |-> links, routes |-> rs, nodeStats |-> ns, linkStats |-> ls,
           stats |-> ss, result_stats |-> rr, geo |-> g, reasons |-> reasons, accepted |-> ac]
  BY <1>t, <1>x DEF Drawing
<1>2. Drawing(rep, routes, st, B, more)
        = [nodes |-> nodes, links |-> links, routes |-> rs, nodeStats |-> ns, linkStats |-> ls,
           stats |-> ss, result_stats |-> rr, geo |-> g, reasons |-> more, accepted |-> ac]
  BY <1>t DEF Drawing
<1>3. Limited(t, geo) = [t EXCEPT !.reasons = more]
  <2>1. t.reasons = reasons
    BY <1>1
  <2> QED BY ONLY <1>m, <2>1 DEF Limited
<1>4. [t EXCEPT !.reasons = more]
        = [nodes |-> nodes, links |-> links, routes |-> rs, nodeStats |-> ns, linkStats |-> ls,
           stats |-> ss, result_stats |-> rr, geo |-> g, reasons |-> more, accepted |-> ac]
  BY ONLY <1>1
<1> QED BY <1>2, <1>3, <1>4, <1>x

(* What a drawing takes of a response, its bundles aside. *)
Bulk(st, routes) ==
    LET links == SelectedLinks(st, routes, SelectedKeys(st, routes))
        drawn == RoutesDrawn(st, routes)
    IN  Len(SelectedKeys(st, routes)) + Cardinality(links)
          + Total([n \in DOMAIN drawn |-> Len(drawn[n].node_ids)])

(* That is a natural number.                                               *)
LEMMA BulkHolds ==
    ASSUME NEW routes, routes \in Seq(TraceSet), NEW st, SelectionInv(st, routes)
    PROVE  Bulk(st, routes) \in Nat
<1>k. PICK ks, links, drawn : /\ ks = SelectedKeys(st, routes) /\ links = SelectedLinks(st, routes, ks)
                              /\ drawn = RoutesDrawn(st, routes)
  OBVIOUS
<1>S. PICK S, a, c : /\ S = ShownOf(st, routes, DOMAIN routes) /\ a = Ascending(S) /\ c = Cardinality(S)
  OBVIOUS
<1>1. Len(ks) \in Nat
  <2>1. ks \in Seq(Keys)
    BY <1>k, SelectedKeysHold
  <2> QED BY <2>1
<1>2. Cardinality(links) \in Nat
  <2>1. IsFiniteSet(links)
    BY <1>k, LinksHold
  <2> QED BY <2>1, FS_CardinalityType
<1>3. DrawnFrom(drawn, ks, S, a, st, routes)
  BY <1>k, <1>S, RoutesDrawnHold
<1>4. /\ DOMAIN drawn = 1 .. c /\ c \in Nat /\ S \subseteq DOMAIN routes
      /\ \A n \in 1 .. c : a[n] \in S /\ Len(drawn[n].node_ids) = Displayed(st, routes, a[n])
  BY <1>3, <1>S DEF DrawnFrom
<1>5. \A n \in DOMAIN drawn : Len(drawn[n].node_ids) \in Nat
  <2>1. \A i \in DOMAIN routes : Displayed(st, routes, i) \in Nat
    BY DepthsHold
  <2> QED BY <1>4, <2>1
<1>6. IsFiniteSet(DOMAIN drawn)
  <2>1. DOMAIN drawn = 1 .. c /\ 1 \in Int /\ c \in Int
    BY <1>4
  <2> QED BY ONLY <2>1, FS_Interval
<1>f. PICK f : f = [n \in DOMAIN drawn |-> Len(drawn[n].node_ids)]
  OBVIOUS
<1>7. f \in [DOMAIN drawn -> Nat]
  BY <1>5, <1>f
<1>8. Total(f) \in Nat
  BY ONLY <1>6, <1>7, UnitsHold
<1>9. Bulk(st, routes) = Len(ks) + Cardinality(links) + Total(f)
  BY <1>f, <1>k DEF Bulk
<1> QED BY <1>1, <1>2, <1>8, <1>9

(* The length of a topology is that and its bundles.                       *)
LEMMA SizeHolds ==
    ASSUME NEW rep, NEW routes, routes \in Seq(TraceSet), NEW st, SelectionInv(st, routes),
           NEW B, B \in SUBSET Fitting(SelectedKeys(st, routes)), NEW reasons
    PROVE  LET t == Drawing(rep, routes, st, B, reasons)
           IN  /\ BundleCount(t) = Cardinality(B) /\ Cardinality(B) \in Nat
               /\ t.accepted = st.taken
               /\ Size(t) = Bulk(st, routes) + BundleSize * Cardinality(B)
<1>t. PICK t : t = Drawing(rep, routes, st, B, reasons)
  OBVIOUS
<1>k. PICK ks, links, drawn : /\ ks = SelectedKeys(st, routes) /\ links = SelectedLinks(st, routes, ks)
                              /\ drawn = RoutesDrawn(st, routes)
  OBVIOUS
<1>n. PICK nodes : nodes = NodesDrawn(ks, B)
  OBVIOUS
<1>1. t.nodes = nodes /\ t.links = links /\ t.routes = drawn /\ t.accepted = st.taken
  BY <1>t, <1>k, <1>n DEF Drawing
<1>2. ks \in Seq(Keys) /\ Len(ks) <= MaxNodes /\ B \in SUBSET Fitting(ks)
  BY <1>k, SelectedKeysHold
<1>3. Len(nodes) = Len(ks) /\ {n \in DOMAIN nodes : nodes[n].geo} = B
  BY ONLY <1>2, <1>n, NodesHold
<1>4. BundleCount(t) = Cardinality(B)
  BY <1>1, <1>3 DEF BundleCount
<1>5. Cardinality(B) \in Nat
  <2>1. Cardinality(B) \in 0 .. MaxNodes
    BY ONLY <1>2, HavingHolds
  <2> QED BY <2>1
<1>6. Bulk(st, routes) = Len(ks) + Cardinality(links)
                            + Total([n \in DOMAIN drawn |-> Len(drawn[n].node_ids)])
  BY <1>k DEF Bulk
<1>7. Size(t) = Len(ks) + Cardinality(links)
                            + Total([n \in DOMAIN drawn |-> Len(drawn[n].node_ids)])
                            + BundleSize * Cardinality(B)
  BY <1>1, <1>3, <1>4 DEF Size
<1> QED BY <1>1, <1>4, <1>5, <1>6, <1>7, <1>t

-----------------------------------------------------------------------------
(* The selection of a report under a limit.                                *)

(* What two selections show is the same if they accepted the same. *)
LEMMA BulkAgrees ==
    ASSUME NEW routes, NEW st, NEW y, SameSelection(st, y)
    PROVE  Bulk(st, routes) = Bulk(y, routes)
<1>0. y.nodes = st.nodes /\ y.accepted = st.accepted
  BY DEF SameSelection
<1>1. \A i : Displayed(st, routes, i) = Displayed(y, routes, i)
  BY ONLY <1>0 DEF Displayed
<1>2. \A i : Prefix(st, routes, i) = Prefix(y, routes, i)
  BY ONLY <1>1 DEF Prefix
<1>3. SelectedKeys(st, routes) = SelectedKeys(y, routes)
  <2>1. {n \in DOMAIN st.nodes : \E i \in DOMAIN routes : Contains(Prefix(st, routes, i), st.nodes[n])}
          = {n \in DOMAIN y.nodes : \E i \in DOMAIN routes : Contains(Prefix(y, routes, i), y.nodes[n])}
    BY ONLY <1>0, <1>2
  <2> QED BY ONLY <1>0, <2>1 DEF SelectedKeys
<1>k. PICK ks : ks = SelectedKeys(st, routes)
  OBVIOUS
<1>4. \A edge : LinkOf(st, routes, ks, edge) = LinkOf(y, routes, ks, edge)
  BY ONLY <1>0 DEF LinkOf
<1>5. SelectedLinks(st, routes, ks) = SelectedLinks(y, routes, ks)
  <2>1. UNION {Pairs(Prefix(st, routes, i)) : i \in DOMAIN routes}
          = UNION {Pairs(Prefix(y, routes, i)) : i \in DOMAIN routes}
    BY ONLY <1>2
  <2> QED BY ONLY <1>4, <2>1 DEF SelectedLinks
<1>6. Shown(st, routes) = Shown(y, routes)
  <2>1. {i \in DOMAIN routes : Displayed(st, routes, i) > 0}
          = {i \in DOMAIN routes : Displayed(y, routes, i) > 0}
    BY ONLY <1>1
  <2> QED BY ONLY <2>1 DEF Shown
<1>7. \A i : AcceptedWhole(st, routes, i) = AcceptedWhole(y, routes, i)
  BY ONLY <1>0 DEF AcceptedWhole
<1>s. PICK shown : shown = Shown(st, routes)
  OBVIOUS
<1>8. RoutesDrawn(st, routes) = RoutesDrawn(y, routes)
  <2>1. ASSUME NEW n \in DOMAIN shown
        PROVE  RouteOf(st, routes[shown[n]], Prefix(st, routes, shown[n]), ks, AcceptedWhole(st, routes, shown[n]))
                 = RouteOf(y, routes[shown[n]], Prefix(y, routes, shown[n]), ks, AcceptedWhole(y, routes, shown[n]))
    BY ONLY <1>2, <1>7 DEF RouteOf
  <2> QED BY ONLY <2>1, <1>s, <1>k, <1>3, <1>6 DEF RoutesDrawn
<1> QED BY ONLY <1>3, <1>5, <1>8, <1>k DEF Bulk

-----------------------------------------------------------------------------
(* The selection of a report, and how much of a response it takes. *)
Chosen(rep, limit) == Select(RoutesOf(rep), limit)

Taken(rep, limit) == Chosen(rep, limit).taken
BulkOf(rep, limit) == Bulk(Chosen(rep, limit), RoutesOf(rep))

(* The topology of that selection, with n of its bundles. *)
Depicts(t, rep, limit, n) ==
    \E B, reasons :
        /\ B \in SUBSET Fitting(SelectedKeys(Chosen(rep, limit), RoutesOf(rep)))
        /\ Cardinality(B) = n
        /\ t = Drawing(rep, RoutesOf(rep), Chosen(rep, limit), B, reasons)

(* The selection of a report is sound.                                     *)
LEMMA ChosenHolds ==
    ASSUME NEW rep \in ReportSet, NEW limit \in Int
    PROVE  /\ RoutesOf(rep) \in Seq(TracesOf(rep)) /\ RoutesOf(rep) \in Seq(TraceSet)
           /\ SelectionInv(Chosen(rep, limit), RoutesOf(rep))
           /\ Taken(rep, limit) \in Nat /\ BulkOf(rep, limit) \in Nat
<1>1. RoutesOf(rep) \in Seq(TracesOf(rep)) /\ RoutesOf(rep) \in Seq(TraceSet)
  BY RoutesOfHold
<1>r. PICK routes : routes = RoutesOf(rep)
  OBVIOUS
<1>s. PICK st : st = Chosen(rep, limit)
  OBVIOUS
<1>2. SelectionInv(st, routes)
  BY <1>1, <1>r, <1>s, SelectHolds DEF Chosen
<1>3. st.taken \in Nat
  BY ONLY <1>2, SelectionTypes
<1>4. Bulk(st, routes) \in Nat
  BY <1>1, <1>2, <1>r, BulkHolds
<1> QED BY <1>1, <1>2, <1>3, <1>4, <1>r, <1>s DEF Taken, BulkOf

(* What is built is such a topology. *)
LEMMA BuiltHolds ==
    ASSUME NEW rep \in ReportSet, NEW limit \in Int, NEW geo \in BOOLEAN
    PROVE  \E n : /\ Depicts(Build(rep, limit, geo), rep, limit, n)
                  /\ ~geo => n = 0
<1>r. PICK routes : routes = RoutesOf(rep)
  OBVIOUS
<1>s. PICK st : st = Chosen(rep, limit)
  OBVIOUS
<1>b. PICK B : B = BundlesOf(st, routes, geo)
  OBVIOUS
<1>e. PICK reasons : reasons = Reasons(st, GeoCounts(SelectedKeys(st, routes), geo))
  OBVIOUS
<1>1. Build(rep, limit, geo) = Projected(rep, routes, st, geo)
  BY <1>r, <1>s DEF Build, Built, Chosen, RoutesOf
<1>2. Projected(rep, routes, st, geo) = Drawing(rep, routes, st, B, reasons)
  BY <1>b, <1>e, ProjectedIsDrawing
<1>3. B \in SUBSET Fitting(SelectedKeys(st, routes))
  BY <1>b, BundlesFit
<1>4. ~geo => Cardinality(B) = 0
  BY <1>b, FS_EmptySet DEF BundlesOf
<1>5. Depicts(Build(rep, limit, geo), rep, limit, Cardinality(B))
  BY <1>1, <1>2, <1>3, <1>r, <1>s DEF Depicts
<1> QED BY <1>4, <1>5

(* So is what is left of one after a cut of k bundles, with the reasons. *)
LEMMA CutDepicts ==
    ASSUME NEW rep \in ReportSet, NEW limit \in Int, NEW t, NEW n, Depicts(t, rep, limit, n),
           NEW k, k \in 0 .. n, NEW geo
    PROVE  /\ Depicts(Limited(t, geo), rep, limit, n)
           /\ Depicts(Limited(WithoutLastGeoBundles(t, k), geo), rep, limit, n - k)
<1>r. PICK routes : routes = RoutesOf(rep)
  OBVIOUS
<1>s. PICK st : st = Chosen(rep, limit)
  OBVIOUS
<1>f. PICK F : F = Fitting(SelectedKeys(st, routes))
  OBVIOUS
<1>1. PICK B, reasons : /\ B \in SUBSET F /\ Cardinality(B) = n
                        /\ t = Drawing(rep, routes, st, B, reasons)
  BY <1>r, <1>s, <1>f DEF Depicts
<1>2. routes \in Seq(TraceSet) /\ SelectionInv(st, routes)
  BY <1>r, <1>s, ChosenHolds
<1>3. k \in 0 .. Cardinality(B)
  BY <1>1
<1>w. PICK W : W = WithoutLast(B, k)
  OBVIOUS
<1>4. WithoutLastGeoBundles(t, k) = Drawing(rep, routes, st, W, reasons)
  <2>1. WithoutLastGeoBundles(Drawing(rep, routes, st, B, reasons), k)
          = Drawing(rep, routes, st, WithoutLast(B, k), reasons)
    BY ONLY <1>1, <1>2, <1>3, <1>f, CutHolds
  <2> QED BY <1>1, <1>w, <2>1
<1>5. W \in SUBSET B /\ Cardinality(W) = n - k
  <2>1. SelectedKeys(st, routes) \in Seq(Keys) /\ Len(SelectedKeys(st, routes)) <= MaxNodes
    BY <1>2, SelectedKeysHold
  <2>2. IsFiniteSet(F) /\ F \in SUBSET Nat /\ IsFiniteSet(B)
    BY <1>1, <1>f, <2>1, HavingHolds
  <2>3. B \in SUBSET Nat
    BY ONLY <1>1, <2>2
  <2> QED BY ONLY <1>1, <1>3, <1>w, <2>2, <2>3, WithoutLastHolds
<1>6. W \in SUBSET F
  BY ONLY <1>1, <1>5
<1>7. PICK more : Limited(Drawing(rep, routes, st, W, reasons), geo) = Drawing(rep, routes, st, W, more)
  BY LimitedHolds
<1>8. PICK other : Limited(Drawing(rep, routes, st, B, reasons), geo) = Drawing(rep, routes, st, B, other)
  BY LimitedHolds
<1>9. Depicts(Limited(t, geo), rep, limit, n)
  BY <1>1, <1>8, <1>r, <1>s, <1>f DEF Depicts
<1>10. Depicts(Limited(WithoutLastGeoBundles(t, k), geo), rep, limit, n - k)
  BY <1>4, <1>5, <1>6, <1>7, <1>r, <1>s, <1>f DEF Depicts
<1> QED BY <1>9, <1>10

(* What a limit of the accepted hops selects. *)
LEMMA LimitsHold ==
    ASSUME NEW rep \in ReportSet, NEW limit \in Nat
    PROVE  /\ limit <= Taken(rep, -1) => Taken(rep, limit) = limit
           /\ limit = Taken(rep, -1) => BulkOf(rep, limit) = BulkOf(rep, -1)
<1>r. PICK routes : routes = RoutesOf(rep)
  OBVIOUS
<1>s. PICK all, some : all = Select(routes, -1) /\ some = Select(routes, limit)
  OBVIOUS
<1>1. routes \in Seq(TraceSet)
  BY <1>r, RoutesOfHold
<1>2. limit \in Nat
  OBVIOUS
<1>3. LET a == Select(routes, -1)
          s == Select(routes, limit)
      IN  /\ a.taken >= limit => s.taken = limit
          /\ a.taken <= limit => SameSelection(a, s)
  BY ONLY <1>1, <1>2, LimitHolds
<1>4. all.taken >= limit => some.taken = limit
  BY <1>3, <1>s
<1>5. all.taken <= limit => SameSelection(all, some)
  BY <1>3, <1>s
<1>6. all.taken = Taken(rep, -1) /\ some.taken = Taken(rep, limit)
  BY <1>r, <1>s DEF Taken, Chosen
<1>7. Taken(rep, -1) \in Nat
  BY ChosenHolds
<1>8. SameSelection(all, some) => Bulk(all, routes) = Bulk(some, routes)
  BY ONLY BulkAgrees
<1>9. Bulk(all, routes) = BulkOf(rep, -1) /\ Bulk(some, routes) = BulkOf(rep, limit)
  BY <1>r, <1>s DEF BulkOf, Chosen
<1> QED BY <1>2, <1>4, <1>5, <1>6, <1>7, <1>8, <1>9

-----------------------------------------------------------------------------
(* The topology the client makes of a whole report.                        *)

(* The numbers up to l in ascending order. *)
LEMMA AscendingNumbers ==
    ASSUME NEW l \in Nat
    PROVE  Ascending(0 .. l) = [i \in 1 .. l + 1 |-> i - 1]
<1>S. PICK S : S = 0 .. l
  OBVIOUS
<1>1. IsFiniteSet(S) /\ Cardinality(S) = l + 1 /\ S \in SUBSET Nat
  <2>1. 0 \in Int /\ l \in Int
    OBVIOUS
  <2>2. IsFiniteSet(0 .. l) /\ Cardinality(0 .. l) = l - 0 + 1
    BY <2>1, FS_Interval
  <2> QED BY <1>S, <2>2
<1>a. PICK a : a = Ascending(S)
  OBVIOUS
<1>2. a \in [1 .. l + 1 -> S] /\ \A i \in 1 .. l + 1 : Cardinality({y \in S : y < a[i]}) = i - 1
  <2>1. /\ Ascending(S) \in [1 .. Cardinality(S) -> S]
        /\ \A i \in 1 .. Cardinality(S) : Cardinality({y \in S : y < Ascending(S)[i]}) = i - 1
    BY ONLY <1>1, AscendingHolds
  <2> QED BY <1>1, <1>a, <2>1
<1>3. ASSUME NEW i \in 1 .. l + 1
      PROVE  a[i] = i - 1
  <2>x. PICK x : x = a[i]
    OBVIOUS
  <2>1. x \in Nat /\ x <= l
    BY <1>2, <1>S, <2>x
  <2>2. {y \in S : y < x} = 0 .. x - 1
    BY <1>S, <2>1
  <2>3. Cardinality(0 .. x - 1) = x
    <3>1. CASE x = 0
      <4>1. 0 .. x - 1 = {}
        BY <3>1
      <4> QED BY <3>1, <4>1, FS_EmptySet
    <3>2. CASE x # 0
      <4>1. 0 \in Int /\ x - 1 \in Int /\ 0 <= x - 1 /\ (x - 1) - 0 + 1 = x
        BY <2>1, <3>2
      <4> QED BY <4>1, FS_Interval
    <3> QED BY <3>1, <3>2
  <2>4. x = i - 1
    BY <1>2, <2>2, <2>3, <2>x
  <2> QED BY <2>4, <2>x
<1>4. a = [i \in 1 .. l + 1 |-> i - 1]
  BY <1>2, <1>3
<1> QED BY <1>4, <1>a, <1>S

(* A walk along the links of neighbouring hops passes all of them. *)
LEMMA WalkHolds ==
    ASSUME NEW l \in Nat
    PROVE  Walk(0 .. l, {<<h, h + 1>> : h \in 0 .. l - 1}) = [i \in 1 .. l + 1 |-> i - 1]
<1>h. PICK hops, links : hops = 0 .. l /\ links = {<<h, h + 1>> : h \in 0 .. l - 1}
  OBVIOUS
<1> DEFINE next(h) == {j \in hops : <<h, j>> \in links /\ j > h}
           onward(h) == IF next(h) = {} THEN h ELSE Min(next(h))
           is(f) == f = [n \in Nat |-> IF n = 0 THEN Min(hops) ELSE onward(f[n - 1])]
<1>1. Min(hops) = 0
  <2>1. 0 \in hops /\ \A y \in hops : 0 <= y
    BY <1>h
  <2>2. \A x \in hops : (\A y \in hops : x <= y) => x = 0
    BY <1>h
  <2> QED BY <2>1, <2>2 DEF Min
<1>2. ASSUME NEW h \in 0 .. l
      PROVE  onward(h) = IF h < l THEN h + 1 ELSE h
  <2>1. \A j : <<h, j>> \in links <=> (h \in 0 .. l - 1 /\ j = h + 1)
    BY <1>h
  <2>2. CASE h < l
    <3>1. \A j : j \in next(h) <=> j = h + 1
      BY <1>h, <2>1, <2>2
    <3>2. next(h) = {h + 1}
      BY <3>1
    <3>3. Min({h + 1}) = h + 1
      BY DEF Min
    <3> QED BY <2>2, <3>2, <3>3
  <2>3. CASE ~(h < l)
    <3>1. next(h) = {}
      BY <2>1, <2>3
    <3> QED BY <2>3, <3>1
  <2> QED BY <2>2, <2>3
<1>w. PICK w : w = [n \in Nat |-> IF n <= l THEN n ELSE l]
  OBVIOUS
<1>3. is(w)
  <2>1. ASSUME NEW n \in Nat
        PROVE  w[n] = IF n = 0 THEN Min(hops) ELSE onward(w[n - 1])
    <3>1. CASE n = 0
      BY <1>1, <1>w, <3>1
    <3>2. CASE n # 0
      <4>1. n - 1 \in Nat
        BY <3>2
      <4>2. w[n - 1] = IF n - 1 <= l THEN n - 1 ELSE l
        BY <1>w, <4>1
      <4>3. w[n - 1] \in 0 .. l
        BY <4>1, <4>2
      <4>4. onward(w[n - 1]) = IF w[n - 1] < l THEN w[n - 1] + 1 ELSE w[n - 1]
        BY ONLY <1>2, <4>3
      <4>5. w[n] = IF n <= l THEN n ELSE l
        BY <1>w
      <4>6. w[n] = IF w[n - 1] < l THEN w[n - 1] + 1 ELSE w[n - 1]
        BY <3>2, <4>1, <4>2, <4>5
      <4> HIDE DEF onward
      <4> QED BY <3>2, <4>4, <4>6
    <3> QED BY <3>1, <3>2
  <2>2. w = [n \in Nat |-> w[n]]
    BY <1>w
  <2> HIDE DEF onward
  <2> QED BY <2>1, <2>2
<1>f. PICK f : f = CHOOSE at : is(at)
  OBVIOUS
<1>4. is(f)
  BY <1>3, <1>f
<1>5. \A n \in Nat : f[n] = w[n]
  <2> DEFINE A == {n \in Nat : f[n] = w[n]}
  <2>1. 0 \in A
    <3>1. f[0] = Min(hops) /\ w[0] = 0
      BY <1>4, <1>w
    <3> QED BY <1>1, <3>1
  <2>2. \A n \in A : n + 1 \in A
    <3>1. ASSUME NEW n \in Nat, f[n] = w[n]
          PROVE  f[n + 1] = w[n + 1]
      <4>1. n + 1 \in Nat /\ n + 1 # 0 /\ (n + 1) - 1 = n
        OBVIOUS
      <4>2. f[n + 1] = onward(f[n])
        <5> HIDE DEF onward
        <5> QED BY <1>4, <4>1
      <4>3. w[n + 1] = onward(w[n])
        <5> HIDE DEF onward
        <5> QED BY <1>3, <4>1
      <4> HIDE DEF onward
      <4> QED BY <3>1, <4>2, <4>3
    <3> QED BY <3>1
  <2>3. A \in SUBSET Nat
    OBVIOUS
  <2>4. \A n \in Nat : n \in A
    <3> HIDE DEF A
    <3> QED BY <2>1, <2>2, <2>3, NumbersByStep
  <2> QED BY <2>4
<1>6. Cardinality(hops) - 1 = l
  <2>1. 0 \in Int /\ l \in Int /\ 0 <= l
    OBVIOUS
  <2>2. Cardinality(0 .. l) = l - 0 + 1
    BY <2>1, FS_Interval
  <2> QED BY <1>h, <2>2
<1>7. {f[n] : n \in 0 .. Cardinality(hops) - 1} = 0 .. l
  <2>1. \A n \in 0 .. l : f[n] = n
    BY <1>5, <1>w
  <2>2. \A y : y \in {f[n] : n \in 0 .. l} <=> y \in 0 .. l
    BY <2>1
  <2> QED BY <1>6, <2>2
<1>8. Walk(hops, links) = Ascending({f[n] : n \in 0 .. Cardinality(hops) - 1})
  BY <1>f DEF Walk
<1>9. Ascending(0 .. l) = [i \in 1 .. l + 1 |-> i - 1]
  BY AscendingNumbers
<1> HIDE DEF next, onward, is
<1> QED BY <1>7, <1>8, <1>9, <1>h

(* So the client finds every hop of an attempt.                            *)
LEMMA PathHolds ==
    ASSUME NEW attempt, attempt.hops \in Seq(Nat)
    PROVE  /\ Path(attempt) = [i \in 1 .. Len(attempt.hops) + 1 |-> i - 1]
           /\ Whole(attempt)
<1>l. PICK l : l = Len(attempt.hops)
  OBVIOUS
<1>1. l \in Nat
  BY <1>l
<1>p. PICK p : p = Path(attempt)
  OBVIOUS
<1>2. p = [i \in 1 .. l + 1 |-> i - 1]
  <2>1. Walk(0 .. l, {<<h, h + 1>> : h \in 0 .. l - 1}) = [i \in 1 .. l + 1 |-> i - 1]
    BY ONLY <1>1, WalkHolds
  <2> QED BY <1>l, <1>p, <2>1 DEF Path
<1>3. Last(p) = l
  <2>1. p \in Seq(Nat) /\ Len(p) = l + 1 /\ p[l + 1] = l
    BY <1>1, <1>2
  <2> QED BY <2>1 DEF Last
<1> QED BY <1>2, <1>3, <1>l, <1>p DEF Whole

(* What a report has if its partial attempts had completed. *)
LEMMA CompletedHolds ==
    ASSUME NEW rep \in ReportSet
    PROVE  /\ AsCompleted(rep) \in ReportSet /\ DOMAIN AsCompleted(rep) = DOMAIN rep
           /\ \A r \in DOMAIN rep :
                 /\ AsCompleted(rep)[r].kind = rep[r].kind
                 /\ rep[r].attempts \in Seq(Attempts)
                 /\ DOMAIN AsCompleted(rep)[r].attempts = DOMAIN rep[r].attempts
                 /\ \A j \in DOMAIN rep[r].attempts :
                       LET own == rep[r].attempts[j]
                           done == AsCompleted(rep)[r].attempts[j]
                       IN  /\ done.hops = own.hops /\ done.reached = own.reached
                           /\ done.output = "completed" <=> own.output # "none"
<1>t. PICK T : T = [kind : STRING, attempts : Seq(Attempts)]
  OBVIOUS
<1>1. rep \in Seq(T) /\ DOMAIN rep = 1 .. Len(rep) /\ Len(rep) \in Nat
  BY <1>t DEF ReportSet
<1>c. PICK done : done = AsCompleted(rep)
  OBVIOUS
<1>2. DOMAIN done = DOMAIN rep
  BY <1>c DEF AsCompleted
<1>3. ASSUME NEW r \in DOMAIN rep
      PROVE  /\ done[r] \in T /\ done[r].kind = rep[r].kind
             /\ rep[r].attempts \in Seq(Attempts)
             /\ DOMAIN done[r].attempts = DOMAIN rep[r].attempts
             /\ \A j \in DOMAIN rep[r].attempts :
                   /\ done[r].attempts[j].hops = rep[r].attempts[j].hops
                   /\ done[r].attempts[j].reached = rep[r].attempts[j].reached
                   /\ done[r].attempts[j].output = "completed" <=> rep[r].attempts[j].output # "none"
  <2>a. PICK own : own = rep[r].attempts
    OBVIOUS
  <2>b. PICK of : of = [j \in DOMAIN own |->
            [hops |-> own[j].hops, reached |-> own[j].reached,
             output |-> IF own[j].output = "none" THEN "none" ELSE "completed"]]
    OBVIOUS
  <2>1. rep[r] \in T
    BY <1>1
  <2>2. own \in Seq(Attempts) /\ rep[r].kind \in STRING
    BY <1>t, <2>1, <2>a
  <2>3. done[r] = [kind |-> rep[r].kind, attempts |-> of]
    BY <1>c, <2>a, <2>b DEF AsCompleted
  <2>4. ASSUME NEW j \in DOMAIN own
        PROVE  of[j] \in Attempts
    <3>1. own[j] \in Attempts
      BY <2>2
    <3> QED BY <2>b, <3>1 DEF Attempts
  <2>5. DOMAIN own = 1 .. Len(own) /\ Len(own) \in Nat
    BY <2>2
  <2>6. of \in [1 .. Len(own) -> Attempts]
    BY <2>4, <2>5, <2>b
  <2>7. of \in Seq(Attempts)
    BY <2>5, <2>6
  <2>8. done[r] \in T
    BY <1>t, <2>2, <2>3, <2>7
  <2> QED BY <2>2, <2>3, <2>8, <2>a, <2>b
<1>4. done \in ReportSet
  <2>1. done \in [1 .. Len(rep) -> T]
    <3>1. done = [r \in DOMAIN rep |-> done[r]]
      BY <1>c DEF AsCompleted
    <3> QED BY <1>1, <1>3, <3>1
  <2>2. done \in Seq(T)
    BY <1>1, <2>1
  <2> QED BY <1>t, <2>2 DEF ReportSet
<1> QED BY <1>2, <1>3, <1>4, <1>c

(* The client finds of a whole report the traces that the server would     *)
(* find if its partial attempts had completed.                             *)
LEMMA SameRoutes ==
    ASSUME NEW rep \in ReportSet, NEW r \in DOMAIN rep
    PROVE  LegacyRoutes(rep, r) = CompactRoutes(AsCompleted(rep), r)
<1>a. PICK attempts : attempts = rep[r].attempts
  OBVIOUS
<1>b. PICK done : done = AsCompleted(rep)[r].attempts
  OBVIOUS
<1>1. attempts \in Seq(Attempts)
  BY <1>a, CompletedHolds
<1>c. /\ AsCompleted(rep)[r].kind = rep[r].kind /\ DOMAIN done = DOMAIN attempts
      /\ \A j \in DOMAIN attempts :
            /\ done[j].hops = attempts[j].hops /\ done[j].reached = attempts[j].reached
            /\ done[j].output = "completed" <=> attempts[j].output # "none"
  BY <1>a, <1>b, CompletedHolds
<1> DEFINE S == {j \in DOMAIN attempts : attempts[j].output # "none"}
           key(j, h) == IF h = 0 THEN Local ELSE NodeKey(attempts[j].hops[h], r, j, h)
           theirs(j) == <<Local>> \o [h \in DOMAIN attempts[j].hops |->
                                         NodeKey(attempts[j].hops[h], r, j, h)]
           own(j) == [i \in DOMAIN Path(attempts[j]) |-> key(j, Path(attempts[j])[i])]
<1>t. PICK traced : traced = Ascending(S)
  OBVIOUS
<1>2. \A n \in DOMAIN traced : traced[n] \in DOMAIN attempts
  <2>1. DOMAIN attempts = 1 .. Len(attempts) /\ Len(attempts) \in Nat
    BY <1>1
  <2>2. S \in SUBSET Nat /\ IsFiniteSet(S)
    <3>1. IsFiniteSet(DOMAIN attempts)
      BY <2>1, FS_Interval
    <3> QED BY <2>1, <3>1, FS_Subset
  <2>3. traced \in [1 .. Cardinality(S) -> S]
    <3> HIDE DEF S
    <3> QED BY <1>t, <2>2, AscendingHolds
  <2> QED BY <2>3
<1>3. ASSUME NEW j \in DOMAIN attempts
      PROVE  own(j) = theirs(j)
  <2>h. PICK hops : hops = attempts[j].hops
    OBVIOUS
  <2>l. PICK l : l = Len(hops)
    OBVIOUS
  <2>1. hops \in Seq(Nat) /\ l \in Nat
    <3>1. attempts[j] \in Attempts
      BY <1>1
    <3>2. hops \in Seq(Nat)
      BY <3>1, <2>h DEF Attempts
    <3> QED BY <3>2, <2>l
  <2>p. PICK p : p = Path(attempts[j])
    OBVIOUS
  <2>2. p = [i \in 1 .. l + 1 |-> i - 1]
    BY <2>1, <2>h, <2>l, <2>p, PathHolds
  <2>k. PICK f : f = [h \in 1 .. l |-> NodeKey(hops[h], r, j, h)]
    OBVIOUS
  <2>3. theirs(j) = <<Local>> \o f
    <3>1. attempts[j].hops = hops /\ DOMAIN hops = 1 .. l
      BY ONLY <2>1, <2>h, <2>l
    <3> QED BY ONLY <2>k, <3>1
  <2>4. own(j) = [i \in 1 .. l + 1 |-> IF i - 1 = 0 THEN Local ELSE NodeKey(hops[i - 1], r, j, i - 1)]
    BY <2>1, <2>2, <2>h, <2>p
  <2>X. PICK X : X = {f[h] : h \in 1 .. l} \cup {Local}
    OBVIOUS
  <2>5. f \in Seq(X) /\ Len(f) = l /\ <<Local>> \in Seq(X) /\ Len(<<Local>>) = 1
    BY <2>1, <2>k, <2>X
  <2>s. PICK s : s = <<Local>> \o f
    OBVIOUS
  <2>6. s \in Seq(X) /\ Len(s) = 1 + l /\ DOMAIN s = 1 .. l + 1
    BY <2>1, <2>5, <2>s
  <2>7. \A i \in 1 .. l + 1 : s[i] = IF i <= 1 THEN <<Local>>[i] ELSE f[i - 1]
    BY <2>1, <2>5, <2>s
  <2>8. ASSUME NEW i \in 1 .. l + 1
        PROVE  s[i] = IF i - 1 = 0 THEN Local ELSE NodeKey(hops[i - 1], r, j, i - 1)
    <3>1. CASE i = 1
      BY <2>7, <3>1
    <3>2. CASE i # 1
      <4>1. i - 1 \in 1 .. l /\ ~(i <= 1) /\ i - 1 # 0
        BY <2>1, <3>2
      <4> QED BY <2>7, <2>k, <4>1
    <3> QED BY <3>1, <3>2
  <2>9. s = [i \in 1 .. l + 1 |-> s[i]]
    <3>1. s \in [1 .. Len(s) -> X]
      BY ONLY <2>6
    <3>2. s = [i \in DOMAIN s |-> s[i]]
      BY ONLY <3>1
    <3> QED BY ONLY <2>6, <3>2
  <2> HIDE DEF own, theirs
  <2> QED BY <2>3, <2>4, <2>8, <2>9, <2>s
<1>4. CASE rep[r].kind # "traceroute"
  <2>1. AsCompleted(rep)[r].kind # "traceroute"
    BY <1>4, <1>c
  <2>2. LegacyRoutes(rep, r) = <<>>
    BY <1>4 DEF LegacyRoutes
  <2>3. CompactRoutes(AsCompleted(rep), r) = <<>>
    BY <2>1 DEF CompactRoutes
  <2> QED BY <2>2, <2>3
<1>5. CASE rep[r].kind = "traceroute"
  <2>d. traced = Ascending({j \in DOMAIN done : done[j].output = "completed"})
    <3>1. {j \in DOMAIN done : done[j].output = "completed"} = S
      BY <1>c
    <3> QED BY <1>t, <3>1
  <2>e. CompactRoutes(AsCompleted(rep), r) =
            [n \in DOMAIN traced |->
                [result |-> r, attempt |-> traced[n], reached |-> done[traced[n]].reached,
                 keys |-> Merged(<<Local>> \o [h \in DOMAIN done[traced[n]].hops |->
                                     NodeKey(done[traced[n]].hops[h], r, traced[n], h)])]]
    BY <1>5, <1>b, <1>c, <2>d DEF CompactRoutes
  <2>f. ASSUME NEW n \in DOMAIN traced
        PROVE  /\ done[traced[n]].reached = attempts[traced[n]].reached
               /\ done[traced[n]].hops = attempts[traced[n]].hops
    BY <1>2, <1>c
  <2>1. CompactRoutes(AsCompleted(rep), r) =
            [n \in DOMAIN traced |-> [result |-> r, attempt |-> traced[n],
                                      reached |-> attempts[traced[n]].reached,
                                      keys |-> Merged(theirs(traced[n]))]]
    BY <2>e, <2>f
  <2>2. LegacyRoutes(rep, r) =
            [n \in DOMAIN traced |-> [result |-> r, attempt |-> traced[n],
                                      reached |-> attempts[traced[n]].reached,
                                      keys |-> Merged(own(traced[n]))]]
    BY <1>5, <1>a, <1>t DEF LegacyRoutes
  <2> HIDE DEF own, theirs
  <2>3. \A n \in DOMAIN traced : own(traced[n]) = theirs(traced[n])
    BY ONLY <1>2, <1>3
  <2> QED BY ONLY <2>1, <2>2, <2>3
<1> QED BY <1>4, <1>5

-----------------------------------------------------------------------------
(* What is left out has a reason.  Each turn of the fair selection accepts *)
(* or blocks something of its target, if anything is open there; so a      *)
(* round over the targets leaves less (Rest) than before it, the rounds    *)
(* that Select takes leave nothing, and only a limit blocks an attempt.    *)

(* The remainder after a multiple of the divisor.                          *)
LEMMA ModOfMultiple ==
    ASSUME NEW q \in Int, NEW b \in Nat \ {0}, NEW k \in 0 .. b - 1
    PROVE  (q * b + k) % b = k
OBVIOUS

(* From any place of a cycle, every place is some steps ahead. *)
LEMMA CycleReaches ==
    ASSUME NEW b \in Nat \ {0}, NEW from \in Nat, NEW to \in 0 .. b - 1
    PROVE  \E k \in 0 .. b - 1 : (from + k) % b = to
<1>k. PICK k : k = (to - from) % b
  OBVIOUS
<1>q. PICK q : q = (to - from) \div b
  OBVIOUS
<1>1. k \in 0 .. b - 1 /\ q \in Int /\ to - from = (b * q) + k
  BY <1>k, <1>q
<1>2. from + k = ((-q) * b) + to
  <2>1. (-q) * b = -(b * q) /\ b * q \in Int
    BY <1>1
  <2> QED BY <1>1, <2>1
<1>3. (from + k) % b = to
  <2>1. -q \in Int
    BY <1>1
  <2>2. (((-q) * b) + to) % b = to
    BY <2>1, ModOfMultiple
  <2> QED BY <1>2, <2>2
<1> QED BY <1>1, <1>3

(* The hops the selection may still accept. *)
Rest(st, routes) ==
    {o \in Units(Lens(routes)) :
        /\ o[1] \notin st.blocked
        /\ st.accepted[o[1]] < o[2] /\ o[2] < Len(routes[o[1]].keys)}

(* They are finitely many, and an attempt is open if its next hop is one.  *)
LEMMA RestHolds ==
    ASSUME NEW routes \in Seq(TraceSet), NEW st, st.accepted \in [DOMAIN routes -> Nat]
    PROVE  /\ IsFiniteSet(Rest(st, routes)) /\ Cardinality(Rest(st, routes)) \in Nat
           /\ Cardinality(Rest(st, routes)) <= Total(Lens(routes)) /\ Total(Lens(routes)) \in Nat
           /\ \A i \in DOMAIN routes :
                 Open(st, routes, i) <=> <<i, st.accepted[i] + 1>> \in Rest(st, routes)
           /\ \A o \in Rest(st, routes) : o[1] \in DOMAIN routes /\ Open(st, routes, o[1])
<1>u. PICK U : U = Units(Lens(routes))
  OBVIOUS
<1>1. Lens(routes) \in [DOMAIN routes -> Nat] /\ IsFiniteSet(DOMAIN routes)
  BY HopsOf, RoutesAreFinite DEF Lens
<1>2. /\ IsFiniteSet(U) /\ Total(Lens(routes)) \in Nat
      /\ \A x, n : <<x, n>> \in U <=> x \in DOMAIN routes /\ n \in 1 .. Lens(routes)[x]
      /\ \A o \in U : o = <<o[1], o[2]>> /\ o[1] \in DOMAIN routes /\ o[2] \in 1 .. Lens(routes)[o[1]]
  BY <1>1, <1>u, UnitsHold
<1>3. /\ IsFiniteSet(Rest(st, routes)) /\ Cardinality(Rest(st, routes)) \in Nat
      /\ Cardinality(Rest(st, routes)) <= Cardinality(U)
  <2>1. Rest(st, routes) \in SUBSET U
    BY <1>u DEF Rest
  <2> QED BY <1>2, <2>1, FS_Subset, FS_CardinalityType
<1>4. Cardinality(U) = Total(Lens(routes))
  BY <1>u DEF Total
<1>5. ASSUME NEW i \in DOMAIN routes
      PROVE  Open(st, routes, i) <=> <<i, st.accepted[i] + 1>> \in Rest(st, routes)
  <2>a. PICK a : a = st.accepted[i]
    OBVIOUS
  <2>l. PICK l : l = Len(routes[i].keys)
    OBVIOUS
  <2>1. a \in Nat /\ l \in Nat /\ Lens(routes)[i] = l
    BY <2>a, <2>l, HopsOf DEF Lens
  <2>2. Open(st, routes, i) <=> i \notin st.blocked /\ a + 1 < l
    BY <2>1, <2>a, <2>l DEF Open
  <2>o. PICK o : o = <<i, a + 1>>
    OBVIOUS
  <2>3. o[1] = i /\ o[2] = a + 1
    BY <2>o
  <2>4. a + 1 < l => o \in U
    <3>1. a + 1 < l => a + 1 \in 1 .. l
      BY <2>1
    <3> QED BY <1>2, <2>1, <2>o, <3>1
  <2>5. o \in Rest(st, routes) <=> o \in U /\ i \notin st.blocked /\ a < a + 1 /\ a + 1 < l
    BY <1>u, <2>a, <2>l, <2>3 DEF Rest
  <2>6. a < a + 1
    BY <2>1
  <2> QED BY <2>2, <2>4, <2>5, <2>6, <2>a, <2>o
<1>6. ASSUME NEW o \in Rest(st, routes)
      PROVE  o[1] \in DOMAIN routes /\ Open(st, routes, o[1])
  <2>1. o \in U /\ o[1] \notin st.blocked /\ st.accepted[o[1]] < o[2] /\ o[2] < Len(routes[o[1]].keys)
    BY <1>u DEF Rest
  <2>i. PICK i : i = o[1]
    OBVIOUS
  <2>2. i \in DOMAIN routes /\ o[2] \in Nat /\ Len(routes[i].keys) \in Nat /\ st.accepted[i] \in Nat
    <3>1. i \in DOMAIN routes /\ o[2] \in 1 .. Lens(routes)[i] /\ Lens(routes)[i] \in Nat
      BY <1>1, <1>2, <2>1, <2>i
    <3> QED BY <3>1, HopsOf
  <2>3. st.accepted[i] < Len(routes[i].keys) - 1
    BY <2>1, <2>2, <2>i
  <2> QED BY <2>1, <2>2, <2>3, <2>i DEF Open
<1> QED BY <1>2, <1>3, <1>4, <1>5, <1>6

(* Where an attempt was blocked, a limit is the reason. *)
HasReasons(st) == st.blocked # {} => st.limited # {}

(* Accepting or blocking takes hops from the rest, the next one of the     *)
(* attempt among them.                                                     *)
LEMMA AcceptMoves ==
    ASSUME NEW routes \in Seq(TraceSet), NEW st \in Selections(routes),
           NEW i \in DOMAIN routes
    PROVE  LET y == Accept(st, routes, i)
           IN  \/ /\ y.accepted = st.accepted /\ y.blocked = st.blocked \cup {i} /\ y.limited # {}
               \/ /\ y.accepted = [st.accepted EXCEPT ![i] = @ + 1]
                  /\ y.blocked = st.blocked /\ y.limited = st.limited
<1>e. PICK edge : edge = Edge(routes, i, st.accepted[i] + 1)
  OBVIOUS
<1>n. PICK nodes : nodes = With(With(st.nodes, edge[1]), edge[2])
  OBVIOUS
<1>l. PICK links : links = st.links \cup {edge}
  OBVIOUS
<1>y. PICK y : y = Accept(st, routes, i)
  OBVIOUS
<1>4. y = IF Len(nodes) > MaxNodes
          THEN [st EXCEPT !.blocked = @ \cup {i}, !.limited = @ \cup {"node_limit"}]
          ELSE IF Cardinality(links) > MaxLinks
          THEN [st EXCEPT !.blocked = @ \cup {i}, !.limited = @ \cup {"link_limit"}]
          ELSE [st EXCEPT !.nodes = nodes, !.links = links, !.accepted[i] = @ + 1, !.taken = @ + 1]
  BY <1>y, <1>e, <1>n, <1>l DEF Accept
<1>5. CASE Len(nodes) > MaxNodes
  <2>1. y = [st EXCEPT !.blocked = @ \cup {i}, !.limited = @ \cup {"node_limit"}]
    BY <1>4, <1>5
  <2>2. y.accepted = st.accepted /\ y.blocked = st.blocked \cup {i} /\ "node_limit" \in y.limited
    BY <2>1 DEF Selections
  <2> QED BY <1>y, <2>2
<1>6. CASE ~(Len(nodes) > MaxNodes) /\ Cardinality(links) > MaxLinks
  <2>1. y = [st EXCEPT !.blocked = @ \cup {i}, !.limited = @ \cup {"link_limit"}]
    BY <1>4, <1>6
  <2>2. y.accepted = st.accepted /\ y.blocked = st.blocked \cup {i} /\ "link_limit" \in y.limited
    BY <2>1 DEF Selections
  <2> QED BY <1>y, <2>2
<1>7. CASE ~(Len(nodes) > MaxNodes) /\ ~(Cardinality(links) > MaxLinks)
  <2>1. y = [st EXCEPT !.nodes = nodes, !.links = links, !.accepted[i] = @ + 1, !.taken = @ + 1]
    BY <1>4, <1>7
  <2>a. PICK acc : acc = [st.accepted EXCEPT ![i] = @ + 1]
    OBVIOUS
  <2>2. y = [st EXCEPT !.nodes = nodes, !.links = links, !.accepted = acc, !.taken = @ + 1]
    BY <2>1, <2>a
  <2>3. y.accepted = acc /\ y.blocked = st.blocked /\ y.limited = st.limited
    BY <2>2 DEF Selections
  <2> QED BY <1>y, <2>3, <2>a
<1> QED BY <1>5, <1>6, <1>7

(* As a consequence the rest shrinks. *)
LEMMA AcceptAdvances ==
    ASSUME NEW routes \in Seq(TraceSet), NEW st, SelectionInv(st, routes),
           NEW i \in DOMAIN routes, Open(st, routes, i)
    PROVE  LET y == Accept(st, routes, i)
           IN  /\ Rest(y, routes) \subseteq Rest(st, routes)
               /\ Rest(y, routes) # Rest(st, routes)
               /\ HasReasons(st) => HasReasons(y)
<1>y. PICK y : y = Accept(st, routes, i)
  OBVIOUS
<1>a. PICK a : a = st.accepted[i]
  OBVIOUS
<1>o. PICK o : o = <<i, a + 1>>
  OBVIOUS
<1>1. st \in Selections(routes) /\ st.accepted \in [DOMAIN routes -> Nat] /\ a \in Nat
  <2>1. st \in Selections(routes) /\ st.accepted \in [DOMAIN routes -> Nat]
    BY SelectionTypes DEF SelectionInv
  <2> QED BY <1>a, <2>1
<1>2. \/ /\ y.accepted = st.accepted /\ y.blocked = st.blocked \cup {i} /\ y.limited # {}
      \/ /\ y.accepted = [st.accepted EXCEPT ![i] = @ + 1]
         /\ y.blocked = st.blocked /\ y.limited = st.limited
  BY <1>1, <1>y, AcceptMoves
<1>3. o \in Rest(st, routes)
  BY <1>1, <1>a, <1>o, RestHolds
<1>4. o[1] = i /\ o[2] = a + 1
  BY <1>o
<1>5. CASE y.accepted = st.accepted /\ y.blocked = st.blocked \cup {i} /\ y.limited # {}
  <2>1. Rest(y, routes) \subseteq Rest(st, routes)
    BY <1>5 DEF Rest
  <2>2. o \notin Rest(y, routes)
    BY <1>4, <1>5 DEF Rest
  <2> QED BY <1>3, <1>5, <1>y, <2>1, <2>2 DEF HasReasons
<1>6. CASE /\ y.accepted = [st.accepted EXCEPT ![i] = @ + 1]
           /\ y.blocked = st.blocked /\ y.limited = st.limited
  <2>1. \A j \in DOMAIN routes : y.accepted[j] = IF j = i THEN a + 1 ELSE st.accepted[j]
    BY <1>1, <1>6, <1>a
  <2>2. ASSUME NEW p \in Rest(y, routes)
        PROVE  p \in Rest(st, routes)
    <3>1. p \in Units(Lens(routes)) /\ p[1] \in DOMAIN routes /\ p[2] \in Nat
      <4>1. p \in Units(Lens(routes))
        BY DEF Rest
      <4>2. Lens(routes) \in [DOMAIN routes -> Nat] /\ IsFiniteSet(DOMAIN routes)
        BY HopsOf, RoutesAreFinite DEF Lens
      <4>3. p[1] \in DOMAIN routes /\ p[2] \in 1 .. Lens(routes)[p[1]]
        BY <4>1, <4>2, UnitsHold
      <4>4. Lens(routes)[p[1]] \in Nat
        BY <4>2, <4>3
      <4> QED BY <4>1, <4>3, <4>4
    <3>2. p[1] \notin st.blocked /\ y.accepted[p[1]] < p[2] /\ p[2] < Len(routes[p[1]].keys)
      BY <1>6 DEF Rest
    <3>3. st.accepted[p[1]] < p[2]
      <4>1. st.accepted[p[1]] \in Nat /\ y.accepted[p[1]] >= st.accepted[p[1]] /\ y.accepted[p[1]] \in Nat
        <5>1. st.accepted[p[1]] \in Nat
          BY <1>1, <3>1
        <5>2. CASE p[1] = i
          BY <1>1, <1>a, <2>1, <3>1, <5>1, <5>2
        <5>3. CASE p[1] # i
          BY <2>1, <3>1, <5>1, <5>3
        <5> QED BY <5>2, <5>3
      <4> QED BY <3>1, <3>2, <4>1
    <3> QED BY <3>1, <3>2, <3>3 DEF Rest
  <2>3. o \notin Rest(y, routes)
    <3>1. y.accepted[i] = a + 1 /\ ~(a + 1 < a + 1)
      BY <1>1, <2>1
    <3> QED BY <1>4, <3>1 DEF Rest
  <2> QED BY <1>3, <1>6, <1>y, <2>2, <2>3 DEF HasReasons
<1> QED BY <1>2, <1>5, <1>6

(* A turn of a result that has an open attempt takes one of its open       *)
(* attempts; else it changes nothing.                                      *)
LEMMA TurnTakes ==
    ASSUME NEW routes \in Seq(TraceSet), NEW st, SelectionInv(st, routes), NEW r
    PROVE  LET y == Turn(st, routes, r, -1)
           IN  \/ /\ y = st
                  /\ \A i \in DOMAIN routes : routes[i].result = r => ~Open(st, routes, i)
               \/ \E z, i : /\ SelectionInv(z, routes) /\ i \in DOMAIN routes /\ Open(z, routes, i)
                            /\ z.accepted = st.accepted /\ z.blocked = st.blocked
                            /\ z.limited = st.limited /\ z.nodes = st.nodes /\ y = Accept(z, routes, i)
<1> DEFINE S == {i \in DOMAIN routes : routes[i].result = r}
           group == Ascending(S)
           at(k) == (st.cursor[r] + k) % Len(group)
           offered == {k \in 0 .. Len(group) - 1 : Open(st, routes, group[at(k) + 1])}
           first == CHOOSE k \in offered : \A other \in offered : k <= other
           z == [st EXCEPT !.cursor[r] = (at(first) + 1) % Len(group)]
           i == group[at(first) + 1]
<1>y. PICK y : y = Turn(st, routes, r, -1)
  OBVIOUS
<1>1. y = IF offered = {} THEN st ELSE Accept(z, routes, i)
  BY <1>y DEF Turn
<1>S. S \in SUBSET Nat /\ IsFiniteSet(S)
  BY RoutesAreFinite, FS_Subset
<1>g. group \in [1 .. Cardinality(S) -> S] /\ Cardinality(S) \in Nat /\ Len(group) = Cardinality(S)
  <2>1. group \in [1 .. Cardinality(S) -> S] /\ Cardinality(S) \in Nat
    <3> HIDE DEF S
    <3> QED BY <1>S, AscendingHolds
  <2> HIDE DEF group, S
  <2> QED BY <2>1
<1>o. \A x \in S : \E p \in 1 .. Cardinality(S) : group[p] = x
  <2> HIDE DEF S
  <2> QED BY <1>S, AscendingHolds
<1>c. r \in ResultsOf(routes) => st.cursor \in [ResultsOf(routes) -> Nat] /\ st.cursor[r] \in Nat
  BY SelectionTypes
<1>2. ASSUME offered = {}
      PROVE  \A x \in DOMAIN routes : routes[x].result = r => ~Open(st, routes, x)
  <2>1. SUFFICES ASSUME NEW x \in DOMAIN routes, routes[x].result = r, Open(st, routes, x) PROVE FALSE
    OBVIOUS
  <2>2. x \in S
    BY <2>1
  <2>p. PICK p \in 1 .. Cardinality(S) : group[p] = x
    BY <1>o, <2>2
  <2>3. st.cursor[r] \in Nat
    BY <1>c, <2>1 DEF ResultsOf
  <2>l. PICK l : l = Len(group)
    OBVIOUS
  <2> HIDE DEF S, group
  <2>4. l \in Nat \ {0} /\ p - 1 \in 0 .. l - 1 /\ p \in Int
    BY <1>g, <2>p, <2>l
  <2>k. PICK k \in 0 .. l - 1 : (st.cursor[r] + k) % l = p - 1
    BY <2>3, <2>4, CycleReaches
  <2>5. at(k) + 1 = p
    BY <2>k, <2>l, <2>4
  <2>6. k \in offered
    <3> HIDE DEF at
    <3> QED BY <2>1, <2>5, <2>p, <2>k, <2>l
  <2> HIDE DEF offered
  <2> QED BY <1>2, <2>6
<1>3. ASSUME offered # {}
      PROVE  /\ SelectionInv(z, routes) /\ i \in DOMAIN routes /\ Open(z, routes, i)
             /\ z.accepted = st.accepted /\ z.blocked = st.blocked /\ z.limited = st.limited
             /\ z.nodes = st.nodes
  <2> HIDE DEF offered, first, at, S, group, z, i
  <2>4. Len(group) \in Nat \ {0} /\ offered \in SUBSET Nat
    BY <1>3, <1>g DEF offered
  <2>5. first \in offered
    <3>1. \E k \in offered : \A other \in offered : k <= other
      BY <1>3, <2>4, LeastNumber
    <3> QED BY <3>1 DEF first
  <2>6. r \in ResultsOf(routes)
    <3>1. group[1] \in S
      BY <1>g, <2>4
    <3> QED BY <3>1 DEF S, ResultsOf
  <2>7. /\ st.cursor \in [ResultsOf(routes) -> Nat] /\ st.cursor[r] \in Nat
    BY <2>6, <1>c
  <2>8. first \in Nat /\ first \in 0 .. Len(group) - 1
    BY <2>4, <2>5 DEF offered
  <2>9. at(first) \in 0 .. Len(group) - 1
    <3>1. st.cursor[r] + first \in Nat
      BY <2>7, <2>8
    <3> QED BY <2>4, <3>1, ModRange DEF at
  <2>10. i \in DOMAIN routes
    <3>1. at(first) + 1 \in 1 .. Cardinality(S)
      BY <1>g, <2>9
    <3>2. i \in S
      BY <1>g, <3>1 DEF i
    <3> QED BY <3>2 DEF S
  <2>11. Open(st, routes, i)
    BY <2>5 DEF offered, i
  <2>12. (at(first) + 1) % Len(group) \in Nat
    <3>1. at(first) + 1 \in Nat
      BY <2>4, <2>9
    <3>2. (at(first) + 1) % Len(group) \in 0 .. Len(group) - 1
      BY <2>4, <3>1, ModRange
    <3> QED BY <2>4, <3>2
  <2>c. PICK c : c = [st.cursor EXCEPT ![r] = (at(first) + 1) % Len(group)]
    OBVIOUS
  <2>13. c \in [ResultsOf(routes) -> Nat]
    BY <2>7, <2>12, <2>c
  <2>14. st \in Selections(routes)
    BY DEF SelectionInv
  <2>15. z = [st EXCEPT !.cursor = c]
    BY <2>c, <2>14 DEF z, Selections
  <2>16. /\ z \in Selections(routes) /\ z.nodes = st.nodes /\ z.links = st.links
         /\ z.accepted = st.accepted /\ z.blocked = st.blocked /\ z.limited = st.limited
    BY <2>13, <2>14, <2>15 DEF Selections
  <2>17. SelectionInv(z, routes) /\ Open(z, routes, i)
    BY <2>11, <2>16 DEF SelectionInv, Selected, Open
  <2> QED BY <2>10, <2>16, <2>17
<1> HIDE DEF offered, z, i
<1> QED BY <1>1, <1>2, <1>3, <1>y

(* A turn leaves no more hops than there were, and fewer if its result has *)
(* an open attempt.                                                        *)
LEMMA TurnAdvances ==
    ASSUME NEW routes \in Seq(TraceSet), NEW st, SelectionInv(st, routes), NEW r
    PROVE  LET y == Turn(st, routes, r, -1)
           IN  /\ Rest(y, routes) \subseteq Rest(st, routes)
               /\ HasReasons(st) => HasReasons(y)
               /\ \A i \in DOMAIN routes : routes[i].result = r /\ Open(st, routes, i)
                                           => Rest(y, routes) # Rest(st, routes)
<1>y. PICK y : y = Turn(st, routes, r, -1)
  OBVIOUS
<1>1. \/ /\ y = st
         /\ \A i \in DOMAIN routes : routes[i].result = r => ~Open(st, routes, i)
      \/ \E z, i : /\ SelectionInv(z, routes) /\ i \in DOMAIN routes /\ Open(z, routes, i)
                   /\ z.accepted = st.accepted /\ z.blocked = st.blocked
                   /\ z.limited = st.limited /\ z.nodes = st.nodes /\ y = Accept(z, routes, i)
  BY <1>y, TurnTakes
<1>2. CASE /\ y = st
           /\ \A i \in DOMAIN routes : routes[i].result = r => ~Open(st, routes, i)
  BY <1>2, <1>y
<1>3. CASE \E z, i : /\ SelectionInv(z, routes) /\ i \in DOMAIN routes /\ Open(z, routes, i)
                     /\ z.accepted = st.accepted /\ z.blocked = st.blocked
                     /\ z.limited = st.limited /\ z.nodes = st.nodes /\ y = Accept(z, routes, i)
  <2>1. PICK z, i : /\ SelectionInv(z, routes) /\ i \in DOMAIN routes /\ Open(z, routes, i)
                    /\ z.accepted = st.accepted /\ z.blocked = st.blocked
                    /\ z.limited = st.limited /\ z.nodes = st.nodes /\ y = Accept(z, routes, i)
    BY <1>3
  <2>2. Rest(y, routes) \subseteq Rest(z, routes) /\ Rest(y, routes) # Rest(z, routes)
        /\ (HasReasons(z) => HasReasons(y))
    BY <2>1, AcceptAdvances
  <2>3. Rest(z, routes) = Rest(st, routes)
    BY <2>1 DEF Rest
  <2>4. HasReasons(st) => HasReasons(z)
    BY <2>1 DEF HasReasons
  <2> QED BY <1>y, <2>2, <2>3, <2>4
<1> QED BY <1>1, <1>2, <1>3

(* In one round every result has its turn, so a round leaves fewer hops,   *)
(* unless none were left.                                                  *)
LEMMA RoundAdvances ==
    ASSUME NEW routes \in Seq(TraceSet), NEW m \in Nat, NEW i \in DOMAIN routes,
           Open(Turns(routes, -1)[m * Len(Results(routes))], routes, i)
    PROVE  LET after == Turns(routes, -1)
               L == Len(Results(routes))
           IN  /\ Rest(after[(m + 1) * L], routes) \subseteq Rest(after[m * L], routes)
               /\ Rest(after[(m + 1) * L], routes) # Rest(after[m * L], routes)
<1>a. PICK after : after = Turns(routes, -1)
  OBVIOUS
<1>l. PICK L : L = Len(Results(routes))
  OBVIOUS
<1>o. Open(after[m * L], routes, i)
  BY <1>a, <1>l
<1>1. \A n \in Nat : /\ SelectionInv(after[n], routes)
                     /\ after[n + 1] = Turn(after[n], routes, TurnOf(routes, n), -1)
  <2>1. -1 \in Int
    OBVIOUS
  <2>2. LET f == Turns(routes, -1)
        IN  /\ f[0] = Start(routes)
            /\ \A n \in Nat : /\ SelectionInv(f[n], routes)
                              /\ f[n + 1] = Turn(f[n], routes, TurnOf(routes, n), -1)
    BY ONLY <2>1, routes \in Seq(TraceSet), TurnsHold
  <2> QED BY <1>a, <2>2
<1>r. PICK rest : rest = [n \in Nat |-> Rest(after[n], routes)]
  OBVIOUS
<1>2. \A n \in Nat : rest[n] = Rest(after[n], routes)
  BY <1>r
<1>3. ASSUME NEW n \in Nat
      PROVE  /\ rest[n + 1] \subseteq rest[n]
             /\ \A x \in DOMAIN routes : routes[x].result = TurnOf(routes, n) /\ Open(after[n], routes, x)
                                         => rest[n + 1] # rest[n]
  <2>s. PICK st : st = after[n]
    OBVIOUS
  <2>t. PICK r : r = TurnOf(routes, n)
    OBVIOUS
  <2>1. SelectionInv(st, routes) /\ after[n + 1] = Turn(st, routes, r, -1)
    BY <1>1, <2>s, <2>t
  <2>2. LET y == Turn(st, routes, r, -1)
        IN  /\ Rest(y, routes) \subseteq Rest(st, routes)
            /\ \A x \in DOMAIN routes : routes[x].result = r /\ Open(st, routes, x)
                                        => Rest(y, routes) # Rest(st, routes)
    BY ONLY <2>1, routes \in Seq(TraceSet), TurnAdvances
  <2>3. rest[n] = Rest(st, routes) /\ rest[n + 1] = Rest(after[n + 1], routes)
    BY <1>2, <2>s
  <2> QED BY <2>1, <2>2, <2>3, <2>s, <2>t
<1>4. \A n \in Nat : \A d \in Nat : rest[n + d] \subseteq rest[n]
  <2>1. ASSUME NEW n \in Nat
        PROVE  \A d \in Nat : rest[n + d] \subseteq rest[n]
    <3> DEFINE G == {d \in Nat : rest[n + d] \subseteq rest[n]}
    <3>1. 0 \in G
      OBVIOUS
    <3>2. ASSUME NEW d \in G
          PROVE  d + 1 \in G
      <4>1. n + d \in Nat /\ (n + d) + 1 = n + (d + 1)
        OBVIOUS
      <4>2. rest[(n + d) + 1] \subseteq rest[n + d]
        BY <1>3, <4>1
      <4> QED BY <4>1, <4>2
    <3>3. G \in SUBSET Nat
      OBVIOUS
    <3>4. \A d \in Nat : d \in G
      <4> HIDE DEF G
      <4> QED BY <3>1, <3>2, <3>3, NumbersByStep
    <3> QED BY <3>4
  <2> QED BY <2>1
<1>5. /\ Results(routes) = Ascending(ResultsOf(routes)) /\ L = Cardinality(ResultsOf(routes))
      /\ L \in Nat /\ \E p \in 1 .. L : Results(routes)[p] = routes[i].result
  <2>1. Results(routes) = Ascending(ResultsOf(routes))
    BY DEF Results, ResultsOf
  <2>2. ResultsOf(routes) \in SUBSET Nat /\ IsFiniteSet(ResultsOf(routes))
    BY RoutesAreFinite
  <2>c. PICK c : c = Cardinality(ResultsOf(routes))
    OBVIOUS
  <2>3. /\ c \in Nat /\ Results(routes) \in [1 .. c -> ResultsOf(routes)]
        /\ \A x \in ResultsOf(routes) : \E p \in 1 .. c : Results(routes)[p] = x
    BY <2>1, <2>2, <2>c, AscendingHolds
  <2>4. L = c
    BY <1>l, <2>3
  <2>5. routes[i].result \in ResultsOf(routes)
    BY DEF ResultsOf
  <2> QED BY <2>1, <2>3, <2>4, <2>5, <2>c
<1>p. PICK p \in 1 .. L : Results(routes)[p] = routes[i].result
  BY <1>5
<1>6. L \in Nat \ {0} /\ m * L \in Nat /\ (m + 1) * L = m * L + L /\ p - 1 \in 0 .. L - 1
  BY <1>5, <1>p
<1>s. PICK s : s = m * L
  OBVIOUS
<1>n. PICK n : n = s + (p - 1)
  OBVIOUS
<1>7. s \in Nat /\ n \in Nat /\ L - p \in Nat /\ s + L = (n + 1) + (L - p) /\ (m + 1) * L = s + L
  BY <1>6, <1>s, <1>n
<1>8. TurnOf(routes, n) = routes[i].result
  <2>1. m \in Int
    OBVIOUS
  <2>2. (m * L + (p - 1)) % L = p - 1
    BY <1>6, <2>1, ModOfMultiple
  <2>3. 1 + (n % L) = p
    BY <1>6, <1>s, <1>n, <2>2
  <2> QED BY <1>l, <1>p, <2>3 DEF TurnOf
<1>9. rest[n] \subseteq rest[s] /\ rest[s + L] \subseteq rest[n + 1]
  <2>1. p - 1 \in Nat
    BY <1>6
  <2>2. rest[s + (p - 1)] \subseteq rest[s]
    BY <1>4, <1>7, <2>1
  <2>3. n + 1 \in Nat
    BY <1>7
  <2>4. rest[(n + 1) + (L - p)] \subseteq rest[n + 1]
    BY <1>4, <1>7, <2>3
  <2> QED BY <1>n, <1>7, <2>2, <2>4
<1>10. rest[n + 1] \subseteq rest[n]
  BY <1>3, <1>7
<1>11. rest[s + L] # rest[s]
  <2>1. SUFFICES ASSUME rest[s + L] = rest[s] PROVE FALSE
    OBVIOUS
  <2>2. rest[n] = rest[s] /\ rest[n + 1] = rest[n]
    BY <1>9, <1>10, <2>1
  <2>t. PICK st : st = after[s]
    OBVIOUS
  <2>3. SelectionInv(st, routes) /\ Open(st, routes, i) /\ SelectionInv(after[n], routes)
    BY <1>1, <1>7, <1>o, <1>s, <2>t
  <2>4. <<i, st.accepted[i] + 1>> \in Rest(st, routes)
    BY <2>3, SelectionTypes, RestHolds
  <2>o. PICK o : o = <<i, st.accepted[i] + 1>>
    OBVIOUS
  <2>5. o \in Rest(after[n], routes) /\ o[1] = i
    BY <1>2, <1>7, <2>2, <2>4, <2>o, <2>t
  <2>6. Open(after[n], routes, i)
    <3>1. \A q \in Rest(after[n], routes) : Open(after[n], routes, q[1])
      BY <2>3, SelectionTypes, RestHolds
    <3> QED BY <2>5, <3>1
  <2> QED BY <1>3, <1>7, <1>8, <2>2, <2>6
<1>12. rest[s + L] \subseteq rest[s]
  BY <1>9, <1>10
<1>13. rest[s] = Rest(after[m * L], routes) /\ rest[s + L] = Rest(after[(m + 1) * L], routes)
  <2>1. s + L \in Nat
    BY ONLY <1>6, <1>7
  <2> QED BY <1>2, <1>7, <1>s, <2>1
<1> QED BY <1>a, <1>l, <1>11, <1>12, <1>13

(* Nodes that were selected stay selected.                                 *)
LEMMA AcceptKeepsNodes ==
    ASSUME NEW routes \in Seq(TraceSet), NEW st, SelectionInv(st, routes),
           NEW i \in DOMAIN routes, Open(st, routes, i), NEW k, Holds(st.nodes, k)
    PROVE  Holds(Accept(st, routes, i).nodes, k)
<1>y. PICK y : y = Accept(st, routes, i)
  OBVIOUS
<1>e. PICK edge : edge = Edge(routes, i, st.accepted[i] + 1)
  OBVIOUS
<1>1. st \in Selections(routes) /\ IsFiniteSet(st.links) /\ st.nodes \in Seq(Keys)
  BY SelectionTypes DEF SelectionInv
<1>2. y.nodes = st.nodes \/ y.nodes = With(With(st.nodes, edge[1]), edge[2])
  <2>1. LET x == Accept(st, routes, i)
            step == Edge(routes, i, st.accepted[i] + 1)
            nodes == With(With(st.nodes, step[1]), step[2])
            links == st.links \cup {step}
        IN  /\ x \in Selections(routes) /\ x.cursor = st.cursor
            /\ \/ /\ x.nodes = st.nodes /\ x.links = st.links
                  /\ x.accepted = st.accepted /\ x.taken = st.taken
               \/ /\ Len(nodes) <= MaxNodes /\ Cardinality(links) <= MaxLinks
                  /\ x.nodes = nodes /\ x.links = links
                  /\ x.accepted = [st.accepted EXCEPT ![i] = @ + 1] /\ x.taken = st.taken + 1
    BY ONLY <1>1, Open(st, routes, i), i \in DOMAIN routes, routes \in Seq(TraceSet), AcceptFields
  <2> QED BY <1>y, <1>e, <2>1
<1>3. edge[1] \in Keys /\ edge[2] \in Keys
  <2>a. PICK a : a = st.accepted[i]
    OBVIOUS
  <2>1. a \in Nat /\ a < Len(routes[i].keys) - 1
    BY <1>1, <2>a, SelectionTypes DEF Open
  <2>2. a + 1 \in 1 .. Len(routes[i].keys) /\ (a + 1) + 1 \in 1 .. Len(routes[i].keys)
    BY <2>1, HopsOf
  <2>3. edge = <<routes[i].keys[a + 1], routes[i].keys[(a + 1) + 1]>>
    BY <1>e, <2>a DEF Edge
  <2> QED BY <2>2, <2>3, HopsOf
<1>4. CASE y.nodes = st.nodes
  BY <1>4, <1>y
<1>5. CASE y.nodes = With(With(st.nodes, edge[1]), edge[2])
  <2>w. PICK w : w = With(st.nodes, edge[1])
    OBVIOUS
  <2>1. w \in Seq(Keys) /\ Holds(w, k)
    BY <1>1, <1>3, <2>w, WithHolds
  <2>2. Holds(With(w, edge[2]), k)
    BY <1>3, <2>1, WithHolds
  <2> QED BY <1>5, <1>y, <2>2, <2>w
<1> QED BY <1>2, <1>4, <1>5

(* A selection whose blocked attempts have a reason, and that has the node *)
(* every attempt begins at.                                                *)
Sound(st, routes) == HasReasons(st) /\ (DOMAIN routes # {} => Holds(st.nodes, Local))

(* Every turn leaves it so.                                                *)
LEMMA TurnsAreSound ==
    ASSUME NEW routes \in Seq(TraceSet), NEW after, after = Turns(routes, -1), NEW m \in Nat
    PROVE  SelectionInv(after[m], routes) /\ Sound(after[m], routes)
<1>1. /\ after[0] = Start(routes)
      /\ \A n \in Nat : /\ SelectionInv(after[n], routes)
                        /\ after[n + 1] = Turn(after[n], routes, TurnOf(routes, n), -1)
  <2>1. -1 \in Int
    OBVIOUS
  <2>2. LET f == Turns(routes, -1)
        IN  /\ f[0] = Start(routes)
            /\ \A n \in Nat : /\ SelectionInv(f[n], routes)
                              /\ f[n + 1] = Turn(f[n], routes, TurnOf(routes, n), -1)
    BY ONLY <2>1, routes \in Seq(TraceSet), TurnsHold
  <2> QED BY <2>2
<1> DEFINE G == {n \in Nat : Sound(after[n], routes)}
<1>2. 0 \in G
  <2>s. PICK st : st = Start(routes)
    OBVIOUS
  <2>1. st.blocked = {}
    BY <2>s DEF Start
  <2>2. ASSUME NEW i \in DOMAIN routes
        PROVE  Holds(st.nodes, Local)
    <3>1. routes[i].keys[1] = Local
      BY HopsOf
    <3>2. st.nodes = <<Local>>
      BY <2>s, <3>1 DEF Start
    <3>3. 1 \in DOMAIN <<Local>> /\ <<Local>>[1] = Local
      OBVIOUS
    <3> QED BY <3>2, <3>3 DEF Holds
  <2>3. Sound(st, routes)
    BY <2>1, <2>2 DEF Sound, HasReasons
  <2> QED BY <1>1, <2>3, <2>s
<1>3. ASSUME NEW n \in G
      PROVE  n + 1 \in G
  <2>s. PICK st : st = after[n]
    OBVIOUS
  <2>r. PICK r : r = TurnOf(routes, n)
    OBVIOUS
  <2>y. PICK y : y = Turn(st, routes, r, -1)
    OBVIOUS
  <2>1. SelectionInv(st, routes) /\ Sound(st, routes) /\ after[n + 1] = y
    BY <1>1, <2>s, <2>r, <2>y
  <2>2. HasReasons(y)
    BY <2>1, <2>y, TurnAdvances DEF Sound
  <2>3. ASSUME DOMAIN routes # {}
        PROVE  Holds(y.nodes, Local)
    <3>1. Holds(st.nodes, Local)
      BY <2>1, <2>3 DEF Sound
    <3>2. \/ y = st
          \/ \E z, i : /\ SelectionInv(z, routes) /\ i \in DOMAIN routes /\ Open(z, routes, i)
                       /\ z.nodes = st.nodes /\ y = Accept(z, routes, i)
      <4>1. \/ /\ y = st
               /\ \A i \in DOMAIN routes : routes[i].result = r => ~Open(st, routes, i)
            \/ \E z, i : /\ SelectionInv(z, routes) /\ i \in DOMAIN routes /\ Open(z, routes, i)
                         /\ z.accepted = st.accepted /\ z.blocked = st.blocked
                         /\ z.limited = st.limited /\ z.nodes = st.nodes /\ y = Accept(z, routes, i)
        BY <2>1, <2>y, TurnTakes
      <4> QED BY <4>1
    <3>3. CASE y = st
      BY <3>1, <3>3
    <3>4. CASE \E z, i : /\ SelectionInv(z, routes) /\ i \in DOMAIN routes /\ Open(z, routes, i)
                         /\ z.nodes = st.nodes /\ y = Accept(z, routes, i)
      <4>1. PICK z, i : /\ SelectionInv(z, routes) /\ i \in DOMAIN routes /\ Open(z, routes, i)
                        /\ z.nodes = st.nodes /\ y = Accept(z, routes, i)
        BY <3>4
      <4>2. Holds(z.nodes, Local)
        BY <3>1, <4>1
      <4> QED BY <4>1, <4>2, AcceptKeepsNodes
    <3> QED BY <3>2, <3>3, <3>4
  <2>4. Sound(y, routes)
    BY <2>2, <2>3 DEF Sound
  <2> QED BY <2>1, <2>4
<1>4. G \in SUBSET Nat
  OBVIOUS
<1>5. m \in G
  <2> HIDE DEF G
  <2> QED BY <1>2, <1>3, <1>4, NumbersByStep
<1> QED BY <1>1, <1>5

(* The rounds that Select takes are enough: at their end no attempt is     *)
(* open, as when the code's loop ends because no target was active.  What  *)
(* was not accepted of an attempt was blocked, and a limit was reached.    *)
THEOREM SelectionEnds ==
    ASSUME NEW routes \in Seq(TraceSet)
    PROVE  LET st == Select(routes, -1)
           IN  /\ \A i \in DOMAIN routes : ~Open(st, routes, i)
               /\ \A i \in DOMAIN routes : ~AcceptedWhole(st, routes, i) => i \in st.blocked
               /\ Sound(st, routes)
<1>a. PICK after : after = Turns(routes, -1)
  OBVIOUS
<1>t. PICK T : T = Total(Lens(routes))
  OBVIOUS
<1>l. PICK L : L = Len(Results(routes))
  OBVIOUS
<1>r. PICK rest : rest = [m \in Nat |-> Rest(after[m * L], routes)]
  OBVIOUS
<1>1. T * L \in Nat /\ Select(routes, -1) = after[T * L] /\ L \in Nat
  <2>1. Total([i \in DOMAIN routes |-> Len(routes[i].keys)]) * Len(Results(routes)) \in Nat
    BY TurnsCounted
  <2>2. Len(Results(routes)) \in Nat
    <3>1. Results(routes) = Ascending(ResultsOf(routes))
      BY DEF Results, ResultsOf
    <3>2. ResultsOf(routes) \in SUBSET Nat /\ IsFiniteSet(ResultsOf(routes))
      BY RoutesAreFinite
    <3>3. /\ Ascending(ResultsOf(routes)) \in [1 .. Cardinality(ResultsOf(routes)) -> ResultsOf(routes)]
          /\ Cardinality(ResultsOf(routes)) \in Nat
      BY <3>2, AscendingHolds
    <3> QED BY <3>1, <3>3
  <2> QED BY <1>a, <1>l, <1>t, <2>1, <2>2 DEF Select, Lens
<1>2. \A m \in Nat : m * L \in Nat
  BY <1>1
<1>3. \A n \in Nat : SelectionInv(after[n], routes) /\ Sound(after[n], routes)
  BY <1>a, TurnsAreSound
<1>4. ASSUME NEW m \in Nat
      PROVE  /\ rest[m] = Rest(after[m * L], routes)
             /\ IsFiniteSet(rest[m]) /\ Cardinality(rest[m]) \in Nat /\ Cardinality(rest[m]) <= T
             /\ T \in Nat
             /\ \A i \in DOMAIN routes : Open(after[m * L], routes, i) => rest[m] # {}
             /\ rest[m] # {} => \E i \in DOMAIN routes : Open(after[m * L], routes, i)
  <2>s. PICK st : st = after[m * L]
    OBVIOUS
  <2>1. st.accepted \in [DOMAIN routes -> Nat]
    BY <1>2, <1>3, <2>s, SelectionTypes
  <2>2. rest[m] = Rest(st, routes)
    BY <1>r, <2>s
  <2>3. /\ IsFiniteSet(rest[m]) /\ Cardinality(rest[m]) \in Nat /\ Cardinality(rest[m]) <= T
        /\ T \in Nat
        /\ \A i \in DOMAIN routes :
              Open(st, routes, i) <=> <<i, st.accepted[i] + 1>> \in rest[m]
        /\ \A o \in rest[m] : o[1] \in DOMAIN routes /\ Open(st, routes, o[1])
    BY <1>t, <2>1, <2>2, RestHolds
  <2> QED BY <2>2, <2>3, <2>s
<1> DEFINE G == {m \in Nat : rest[m] = {} \/ Cardinality(rest[m]) + m <= T}
<1>5. 0 \in G
  BY <1>4
<1>6. ASSUME NEW m \in G
      PROVE  m + 1 \in G
  <2>c. PICK c, d : c = Cardinality(rest[m]) /\ d = Cardinality(rest[m + 1])
    OBVIOUS
  <2>0. m \in Nat /\ m + 1 \in Nat
    OBVIOUS
  <2>1. /\ IsFiniteSet(rest[m]) /\ c \in Nat /\ IsFiniteSet(rest[m + 1]) /\ d \in Nat /\ T \in Nat
    BY ONLY <1>4, <2>0, <2>c
  <2>2. CASE rest[m] = {}
    <3>1. \A i \in DOMAIN routes : ~Open(after[m * L], routes, i)
      BY <1>4, <2>2
    <3>2. after[m * L] \in Selections(routes) /\ SelectionInv(after[m * L], routes)
      BY <1>2, <1>3 DEF SelectionInv
    <3>3. rest[m + 1] = {}
      <4>1. \A n \in Nat : /\ SelectionInv(after[n], routes)
                           /\ after[n + 1] = Turn(after[n], routes, TurnOf(routes, n), -1)
        <5>1. -1 \in Int
          OBVIOUS
        <5>2. LET f == Turns(routes, -1)
              IN  /\ f[0] = Start(routes)
                  /\ \A n \in Nat : /\ SelectionInv(f[n], routes)
                                    /\ f[n + 1] = Turn(f[n], routes, TurnOf(routes, n), -1)
          BY ONLY <5>1, routes \in Seq(TraceSet), TurnsHold
        <5> QED BY <1>a, <5>2
      <4> DEFINE H == {n \in Nat : Rest(after[m * L + n], routes) = {}}
      <4>2. m * L \in Nat
        BY <1>2
      <4>3. 0 \in H
        <5>1. rest[m] = Rest(after[m * L], routes) /\ m * L + 0 = m * L
          BY <1>4, <2>0, <4>2
        <5> QED BY <2>2, <5>1
      <4>4. ASSUME NEW n \in H
            PROVE  n + 1 \in H
        <5>p. PICK p : p = m * L + n
          OBVIOUS
        <5>1. p \in Nat /\ p + 1 = m * L + (n + 1)
          BY <4>2, <5>p
        <5>s. PICK st, r : st = after[p] /\ r = TurnOf(routes, p)
          OBVIOUS
        <5>2. SelectionInv(st, routes) /\ after[p + 1] = Turn(st, routes, r, -1)
          BY <4>1, <5>1, <5>s
        <5>3. Rest(Turn(st, routes, r, -1), routes) \subseteq Rest(st, routes)
          BY <5>2, TurnAdvances
        <5>4. Rest(st, routes) = {}
          BY <5>p, <5>s
        <5> QED BY <5>1, <5>2, <5>3, <5>4
      <4>5. H \in SUBSET Nat
        OBVIOUS
      <4>6. L \in H
        <5> HIDE DEF H
        <5> QED BY <1>1, <4>3, <4>4, <4>5, NumbersByStep
      <4>7. m * L + L = (m + 1) * L
        BY <1>1
      <4>8. m + 1 \in Nat
        OBVIOUS
      <4> QED BY <1>4, <4>6, <4>7, <4>8
    <3> QED BY <3>3
  <2>3. CASE rest[m] # {} /\ c + m <= T
    <3>1. PICK i \in DOMAIN routes : Open(after[m * L], routes, i)
      BY <1>4, <2>3
    <3>2. /\ Rest(after[(m + 1) * L], routes) \subseteq Rest(after[m * L], routes)
          /\ Rest(after[(m + 1) * L], routes) # Rest(after[m * L], routes)
      <4>1. Open(Turns(routes, -1)[m * Len(Results(routes))], routes, i)
        BY <1>a, <1>l, <3>1
      <4>2. LET f == Turns(routes, -1)
                b == Len(Results(routes))
            IN  /\ Rest(f[(m + 1) * b], routes) \subseteq Rest(f[m * b], routes)
                /\ Rest(f[(m + 1) * b], routes) # Rest(f[m * b], routes)
        BY ONLY routes \in Seq(TraceSet), i \in DOMAIN routes, <2>0, <4>1, RoundAdvances
      <4> QED BY <1>a, <1>l, <4>2
    <3>3. rest[m + 1] \subseteq rest[m] /\ rest[m + 1] # rest[m]
      <4>1. /\ rest[m] = Rest(after[m * L], routes)
            /\ rest[m + 1] = Rest(after[(m + 1) * L], routes)
        BY <1>4, <2>0
      <4> QED BY <3>2, <4>1
    <3>4. d < c
      <4>1. d <= c /\ (d = c => rest[m + 1] = rest[m])
        BY <2>1, <2>c, <3>3, FS_Subset
      <4> QED BY <2>1, <3>3, <4>1
    <3>5. d + (m + 1) <= T
      BY <2>1, <2>3, <3>4
    <3> QED BY <2>c, <3>5
  <2> QED BY <2>c, <2>2, <2>3
<1>7. rest[T] = {}
  <2>1. T \in Nat
    BY <1>4
  <2>2. G \in SUBSET Nat
    OBVIOUS
  <2>3. T \in G
    <3> HIDE DEF G
    <3> QED BY <1>5, <1>6, <2>1, <2>2, NumbersByStep
  <2>4. CASE Cardinality(rest[T]) + T <= T
    <3>1. Cardinality(rest[T]) = 0
      BY <1>4, <2>1, <2>4
    <3>2. IsFiniteSet(rest[T])
      BY <1>4, <2>1
    <3> QED BY <3>1, <3>2, FS_EmptySet
  <2> QED BY <2>3, <2>4
<1>s. PICK st : st = Select(routes, -1)
  OBVIOUS
<1>8. T \in Nat /\ st = after[T * L]
  BY <1>1, <1>4, <1>s
<1>9. SelectionInv(st, routes) /\ Sound(st, routes)
  BY <1>1, <1>3, <1>8
<1>10. \A i \in DOMAIN routes : ~Open(st, routes, i)
  BY <1>4, <1>7, <1>8
<1>11. ASSUME NEW i \in DOMAIN routes, ~AcceptedWhole(st, routes, i)
       PROVE  i \in st.blocked
  <2>1. st.accepted[i] \in Nat /\ st.accepted[i] <= Len(routes[i].keys) - 1 /\ Len(routes[i].keys) \in Nat
    BY <1>9, SelectionTypes, HopsOf DEF SelectionInv, Selected
  <2>2. st.accepted[i] < Len(routes[i].keys) - 1
    BY <1>11, <2>1 DEF AcceptedWhole
  <2> QED BY <1>10, <2>2 DEF Open
<1> QED BY <1>9, <1>10, <1>11, <1>s

(* Every attempt of a report that has a trace is shown to its last hop. *)
ShowsAll(t, rep) ==
    \A r \in DOMAIN rep : \A n \in DOMAIN CompactRoutes(rep, r) :
        LET trace == CompactRoutes(rep, r)[n]
        IN  \E k \in DOMAIN t.routes :
                /\ t.routes[k].result = trace.result /\ t.routes[k].attempt = trace.attempt
                /\ t.routes[k].complete
                /\ Len(t.routes[k].node_ids) = Len(trace.keys)
                /\ \A m \in 1 .. Len(trace.keys) : \E x \in DOMAIN t.nodes :
                      t.routes[k].node_ids[m] = <<x>> /\ t.nodes[x].key = trace.keys[m]

(* A selection that was never limited accepts every attempt whole, and     *)
(* displays every one of them.                                             *)
LEMMA UnlimitedIsWhole ==
    ASSUME NEW routes \in Seq(TraceSet), NEW st, st = Select(routes, -1), st.limited = {},
           NEW i \in DOMAIN routes
    PROVE  AcceptedWhole(st, routes, i) /\ Displayed(st, routes, i) = Len(routes[i].keys)
<1>1. /\ ~AcceptedWhole(st, routes, i) => i \in st.blocked
      /\ Sound(st, routes) /\ SelectionInv(st, routes)
  <2>1. -1 \in Int
    OBVIOUS
  <2> QED BY <2>1, SelectionEnds, SelectHolds
<1>2. st.blocked = {} /\ Holds(st.nodes, Local)
  BY <1>1 DEF Sound, HasReasons
<1>l. PICK l : l = Len(routes[i].keys)
  OBVIOUS
<1>3. l \in Nat \ {0} /\ st.accepted[i] \in Nat /\ routes[i].keys[1] = Local
  BY <1>1, <1>l, HopsOf, SelectionTypes
<1>4. st.accepted[i] = l - 1 /\ AcceptedWhole(st, routes, i)
  BY <1>1, <1>2, <1>l DEF AcceptedWhole
<1>5. CASE l = 1
  <2>1. Contains(st.nodes, routes[i].keys[1])
    <3>1. st.nodes \in Seq(Keys)
      BY <1>1, SelectionTypes
    <3>2. \E n \in DOMAIN st.nodes : st.nodes[n] = Local
      BY <1>2 DEF Holds
    <3>3. DOMAIN st.nodes = 1 .. Len(st.nodes)
      BY <3>1
    <3> QED BY <1>3, <3>2, <3>3 DEF Contains
  <2>2. ~(st.accepted[i] > 0)
    BY <1>4, <1>5
  <2>3. Displayed(st, routes, i) = 1
    BY <1>5, <1>l, <2>1, <2>2 DEF Displayed
  <2> QED BY <1>4, <1>5, <1>l, <2>3
<1>6. CASE l # 1
  <2>1. st.accepted[i] > 0 /\ st.accepted[i] + 1 = l
    BY <1>3, <1>4, <1>6
  <2>2. Displayed(st, routes, i) = l
    BY <2>1 DEF Displayed
  <2> QED BY <1>4, <1>l, <2>2
<1> QED BY <1>5, <1>6

(* A topology built without such a limit is all of the report.             *)
LEMMA UnlimitedShowsAll ==
    ASSUME NEW rep \in ReportSet, NEW geo \in BOOLEAN, Select(RoutesOf(rep), -1).limited = {}
    PROVE  ShowsAll(Build(rep, -1, geo), rep)
<1>r. PICK routes : routes = RoutesOf(rep)
  OBVIOUS
<1>s. PICK st : st = Select(routes, -1)
  OBVIOUS
<1>t. PICK t : t = Build(rep, -1, geo)
  OBVIOUS
<1>b. PICK B : B = BundlesOf(st, routes, geo)
  OBVIOUS
<1>k. PICK ks : ks = SelectedKeys(st, routes)
  OBVIOUS
<1>e. PICK reasons : reasons = Reasons(st, GeoCounts(ks, geo))
  OBVIOUS
<1>1. t = Drawing(rep, routes, st, B, reasons)
  <2>1. t = Projected(rep, routes, st, geo)
    BY <1>r, <1>s, <1>t DEF Build, Built, RoutesOf
  <2>2. Projected(rep, routes, st, geo) = Drawing(rep, routes, st, B, reasons)
    BY <1>b, <1>e, <1>k, ProjectedIsDrawing
  <2> QED BY <2>1, <2>2
<1>2. t.nodes = NodesDrawn(ks, B) /\ t.routes = RoutesDrawn(st, routes)
  BY <1>1, <1>k DEF Drawing
<1>3. st.limited = {}
  BY <1>r, <1>s
<1>4. routes \in Seq(TraceSet) /\ SelectionInv(st, routes)
  <2>1. -1 \in Int
    OBVIOUS
  <2>2. routes \in Seq(TraceSet)
    BY <1>r, RoutesOfHold
  <2> QED BY <1>s, <2>1, <2>2, SelectHolds
<1>5. \A i \in DOMAIN routes :
         AcceptedWhole(st, routes, i) /\ Displayed(st, routes, i) = Len(routes[i].keys)
  BY <1>3, <1>4, <1>s, UnlimitedIsWhole
<1>S. PICK S : S = ShownOf(st, routes, DOMAIN routes)
  OBVIOUS
<1>a. PICK a : a = Ascending(S)
  OBVIOUS
<1>d. PICK drawn : drawn = RoutesDrawn(st, routes)
  OBVIOUS
<1>6. DrawnFrom(drawn, ks, S, a, st, routes)
  BY <1>4, <1>S, <1>a, <1>d, <1>k, RoutesDrawnHold
<1>7. S = DOMAIN routes
  <2>1. ASSUME NEW i \in DOMAIN routes
        PROVE  Displayed(st, routes, i) > 0
    BY <1>4, <1>5, HopsOf
  <2> QED BY <1>S, <2>1 DEF ShownOf
<1>8. \A i \in DOMAIN routes : \E k \in 1 .. Cardinality(S) : a[k] = i
  <2>1. S \in SUBSET Nat /\ IsFiniteSet(S)
    BY <1>6 DEF DrawnFrom
  <2>2. \A i \in S : \E k \in 1 .. Cardinality(S) : a[k] = i
    BY <1>a, <2>1, AscendingHolds
  <2> QED BY <1>7, <2>2
<1>9. ASSUME NEW r \in DOMAIN rep, NEW n \in DOMAIN CompactRoutes(rep, r)
      PROVE  \E i \in DOMAIN routes : routes[i] = CompactRoutes(rep, r)[n]
  <2>q. PICK seqs : seqs = [x \in DOMAIN rep |-> CompactRoutes(rep, x)]
    OBVIOUS
  <2>X. PICK X : X = TracesOf(rep)
    OBVIOUS
  <2>1. seqs \in Seq(Seq(X))
    <3>1. DOMAIN rep = 1 .. Len(rep) /\ Len(rep) \in Nat
      BY DEF ReportSet
    <3>2. seqs \in [1 .. Len(rep) -> Seq(X)]
      BY <2>q, <2>X, <3>1, CompactRoutesHold
    <3> QED BY <3>1, <3>2
  <2>2. routes = FlattenSeq(seqs)
    BY <1>r, <2>q DEF RoutesOf
  <2>3. r \in DOMAIN seqs /\ seqs[r] = CompactRoutes(rep, r)
    BY <2>q
  <2>4. \A x \in DOMAIN seqs : \A y \in DOMAIN seqs[x] :
           \E m \in DOMAIN FlattenSeq(seqs) : FlattenSeq(seqs)[m] = seqs[x][y]
    BY ONLY <2>1, FlattenHolds
  <2> QED BY <2>2, <2>3, <2>4
<1>10. ASSUME NEW i \in DOMAIN routes
       PROVE  \E k \in DOMAIN drawn :
                /\ drawn[k].result = routes[i].result /\ drawn[k].attempt = routes[i].attempt
                /\ drawn[k].complete
                /\ Len(drawn[k].node_ids) = Len(routes[i].keys)
                /\ \A m \in 1 .. Len(routes[i].keys) : \E x \in DOMAIN t.nodes :
                      drawn[k].node_ids[m] = <<x>> /\ t.nodes[x].key = routes[i].keys[m]
  <2>1. PICK k \in 1 .. Cardinality(S) : a[k] = i
    BY <1>8
  <2>2. /\ k \in DOMAIN drawn
        /\ drawn[k].result = routes[i].result /\ drawn[k].attempt = routes[i].attempt
        /\ drawn[k].complete = AcceptedWhole(st, routes, i)
        /\ Len(drawn[k].node_ids) = Displayed(st, routes, i)
        /\ \A m \in 1 .. Displayed(st, routes, i) :
              drawn[k].node_ids[m] = IdOf(ks, routes[i].keys[m])
    BY <1>6, <2>1 DEF DrawnFrom
  <2>3. ks \in Seq(Keys) /\ Distinctly(ks)
        /\ \A m \in 1 .. Displayed(st, routes, i) : Holds(ks, routes[i].keys[m])
    BY <1>4, <1>k, SelectedKeysHold
  <2>4. ASSUME NEW m \in 1 .. Len(routes[i].keys)
        PROVE  \E x \in DOMAIN t.nodes :
                  drawn[k].node_ids[m] = <<x>> /\ t.nodes[x].key = routes[i].keys[m]
    <3>1. drawn[k].node_ids[m] = IdOf(ks, routes[i].keys[m]) /\ Holds(ks, routes[i].keys[m])
      BY <1>5, <2>2, <2>3
    <3>2. PICK x \in DOMAIN ks : IdOf(ks, routes[i].keys[m]) = <<x>> /\ ks[x] = routes[i].keys[m]
      BY <2>3, <3>1, IdOfHolds
    <3>3. x \in DOMAIN t.nodes /\ t.nodes[x].key = ks[x]
      BY <1>2, <3>2 DEF NodesDrawn
    <3> QED BY <3>1, <3>2, <3>3
  <2> QED BY <1>5, <2>2, <2>4
<1>11. ShowsAll(t, rep)
  <2>1. ASSUME NEW r \in DOMAIN rep, NEW n \in DOMAIN CompactRoutes(rep, r)
        PROVE  LET trace == CompactRoutes(rep, r)[n]
               IN  \E k \in DOMAIN t.routes :
                    /\ t.routes[k].result = trace.result /\ t.routes[k].attempt = trace.attempt
                    /\ t.routes[k].complete
                    /\ Len(t.routes[k].node_ids) = Len(trace.keys)
                    /\ \A m \in 1 .. Len(trace.keys) : \E x \in DOMAIN t.nodes :
                          t.routes[k].node_ids[m] = <<x>> /\ t.nodes[x].key = trace.keys[m]
    <3>1. PICK i \in DOMAIN routes : routes[i] = CompactRoutes(rep, r)[n]
      BY <1>9
    <3>2. t.routes = drawn
      BY <1>2, <1>d
    <3>3. PICK k \in DOMAIN drawn :
                /\ drawn[k].result = routes[i].result /\ drawn[k].attempt = routes[i].attempt
                /\ drawn[k].complete
                /\ Len(drawn[k].node_ids) = Len(routes[i].keys)
                /\ \A m \in 1 .. Len(routes[i].keys) : \E x \in DOMAIN t.nodes :
                      drawn[k].node_ids[m] = <<x>> /\ t.nodes[x].key = routes[i].keys[m]
      BY <1>10
    <3> QED BY ONLY <3>1, <3>2, <3>3
  <2> QED BY <2>1 DEF ShowsAll
<1> QED BY <1>11, <1>t

(* What the server builds of a report and gives no reason to call cut is   *)
(* the whole report: every trace to its last hop, every bundle that is     *)
(* there.  Nothing is left out without a reason.                           *)
THEOREM OmissionsHaveReasons ==
    ASSUME NEW rep \in ReportSet, NEW geo \in BOOLEAN, Build(rep, -1, geo).reasons = {}
    PROVE  /\ ShowsAll(Build(rep, -1, geo), rep)
           /\ ~(Build(rep, -1, geo).geo.omitted > 0)
<1>s. PICK st : st = Select(RoutesOf(rep), -1)
  OBVIOUS
<1>c. PICK counts : counts = GeoCounts(SelectedKeys(st, RoutesOf(rep)), geo)
  OBVIOUS
<1>1. /\ Build(rep, -1, geo).reasons = Reasons(st, counts)
      /\ Build(rep, -1, geo).geo = counts
  BY <1>c, <1>s DEF Build, Built, Projected, Projection, RoutesOf
<1>2. st.limited = {} /\ ~(counts.omitted > 0)
  BY <1>1 DEF Reasons
<1> QED BY <1>1, <1>2, <1>s, UnlimitedShowsAll

=============================================================================
