---------------------------- MODULE SubsetProofs ----------------------------
(***************************************************************************)
(* Theorems about the subset search, for amounts of any number and size.   *)
(* The table is right after any number of amounts: an entry for each size  *)
(* and total that some set of them reaches, with one of those sets, and    *)
(* "one way" only if it is the only one.                                   *)
(***************************************************************************)
EXTENDS SubsetSearch, FiniteSetTheorems, WellFoundedInduction, TLAPS

-----------------------------------------------------------------------------
(* Induction over numbers and finite sets.  What is to be proved of each   *)
(* is given as the set of those it holds for.                              *)

\* Induction over the natural numbers.
LEMMA NatSteps ==
    ASSUME NEW P, 0 \in P, \A n \in Nat : n \in P => n + 1 \in P
    PROVE  Nat \subseteq P
<1> DEFINE T == {n \in Nat : n \notin P}
<1> SUFFICES ASSUME T # {} PROVE FALSE
  OBVIOUS
<1>1. T \subseteq Nat
  OBVIOUS
<1>2. \E n \in T : \A k \in T : ~ (<<k, n>> \in OpToRel(<, Nat))
  <2> HIDE DEF T
  <2> QED BY <1>1, WFMin, NatLessThanWellFounded, Zenon
<1>3. PICK n \in T : \A k \in T : ~ (<<k, n>> \in OpToRel(<, Nat))
  BY <1>2
<1>4. \A k \in T : ~ (k < n)
  BY <1>3 DEF OpToRel
<1>5. n \in Nat /\ n # 0
  OBVIOUS
<1>6. n - 1 \in Nat /\ n - 1 < n /\ (n - 1) + 1 = n
  BY <1>5
<1>7. n - 1 \in P
  BY <1>4, <1>6
<1>8. QED
  BY <1>5, <1>6, <1>7

\* What one more element does to the size.
LEMMA OneMore ==
    ASSUME NEW s, IsFiniteSet(s), NEW n \in Nat, Cardinality(s) = n + 1
    PROVE  s # {} /\ \A x \in s : IsFiniteSet(s \ {x}) /\ Cardinality(s \ {x}) = n
<1>1. s # {}
  <2>1. Cardinality({}) = 0
    BY FS_EmptySet
  <2> QED BY <2>1
<1>2. ASSUME NEW x \in s PROVE IsFiniteSet(s \ {x}) /\ Cardinality(s \ {x}) = n
  BY FS_RemoveElement
<1> QED BY <1>1, <1>2

\* Induction over the subsets of a finite set, one element at a time.
LEMMA SetSteps ==
    ASSUME NEW S, IsFiniteSet(S), NEW P, {} \in P,
           \A s \in SUBSET S : \A x \in S \ s : s \in P => s \cup {x} \in P
    PROVE  SUBSET S \subseteq P
<1> DEFINE Q == {n \in Nat : \A s \in SUBSET S : Cardinality(s) = n => s \in P}
<1>1. \A s \in SUBSET S : IsFiniteSet(s) /\ Cardinality(s) \in Nat
  BY FS_Subset, FS_CardinalityType
<1>2. 0 \in Q
  BY <1>1, FS_EmptySet
<1>3. ASSUME NEW n \in Nat, n \in Q PROVE n + 1 \in Q
  <2> SUFFICES ASSUME NEW s \in SUBSET S, Cardinality(s) = n + 1 PROVE s \in P
    OBVIOUS
  <2>1. s # {} /\ \A x \in s : Cardinality(s \ {x}) = n
    BY <1>1, OneMore
  <2>2. PICK x \in s : TRUE
    BY <2>1
  <2>3. Cardinality(s \ {x}) = n /\ s \ {x} \in SUBSET S
    BY <2>1
  <2>4. s \ {x} \in P /\ x \in S \ (s \ {x}) /\ (s \ {x}) \cup {x} = s
    BY <1>3, <2>3
  <2>5. QED
    BY <2>3, <2>4
<1>4. Nat \subseteq Q
  <2> HIDE DEF Q
  <2> QED BY <1>2, <1>3, NatSteps
<1>5. QED
  BY <1>1, <1>4

-----------------------------------------------------------------------------
(* Sums over finite sets.                                                  *)

Pick(s) == CHOOSE x \in s : TRUE

\* The equation by which a sum is defined.
Sums(g, f, D) ==
    g = [s \in D |-> IF s = {} THEN 0 ELSE f[Pick(s)] + g[s \ {Pick(s)}]]

\* The equation has a solution on the subsets of a finite set.
LEMMA SumsExist ==
    ASSUME NEW S, IsFiniteSet(S), NEW f
    PROVE  \E g : Sums(g, f, SUBSET S)
<1> DEFINE Small(n) == {s \in SUBSET S : Cardinality(s) <= n}
           P == {n \in Nat : \E g : Sums(g, f, Small(n))}
<1>1. \A s \in SUBSET S : Cardinality(s) \in Nat /\ Cardinality(s) <= Cardinality(S)
                         /\ IsFiniteSet(s)
  BY FS_Subset, FS_CardinalityType
<1>2. \A s \in SUBSET S : s # {} => /\ Pick(s) \in s /\ s \ {Pick(s)} \in SUBSET S
                                    /\ Cardinality(s \ {Pick(s)}) = Cardinality(s) - 1
  <2>1. \A s \in SUBSET S : s # {} => Pick(s) \in s
    BY DEF Pick
  <2>2. QED
    BY <2>1, <1>1, FS_RemoveElement
<1>3. 0 \in P
  <2>1. \A s \in Small(0) : s = {}
    BY <1>1, FS_EmptySet
  <2>2. Sums([s \in Small(0) |-> 0], f, Small(0))
    BY <2>1 DEF Sums
  <2>3. QED
    BY <2>2
<1>4. ASSUME NEW n \in Nat, n \in P PROVE n + 1 \in P
  <2>0. PICK g : Sums(g, f, Small(n))
    BY <1>4
  <2> DEFINE h == [s \in Small(n + 1) |-> IF s = {} THEN 0 ELSE f[Pick(s)] + g[s \ {Pick(s)}]]
  <2>1. \A s \in Small(n) : s \in Small(n + 1)
    BY <1>1
  <2>2. \A s \in Small(n + 1) : s # {} => s \ {Pick(s)} \in Small(n)
    BY <1>1, <1>2
  <2> HIDE DEF Small
  <2>3. \A s \in Small(n) : h[s] = g[s]
    BY <2>0, <2>1 DEF Sums
  <2>4. \A s \in Small(n + 1) : s # {} => h[s \ {Pick(s)}] = g[s \ {Pick(s)}]
    BY <2>2, <2>3
  <2>5. Sums(h, f, Small(n + 1))
    BY <2>4 DEF Sums
  <2>6. QED
    BY <2>5
<1>5. Nat \subseteq P
  <2> HIDE DEF P
  <2> QED BY <1>3, <1>4, NatSteps
<1>6. Small(Cardinality(S)) = SUBSET S /\ Cardinality(S) \in Nat
  BY <1>1, FS_CardinalityType
<1>7. QED
  BY <1>5, <1>6

SumOver(g, f, S) == Sums(g, f, SUBSET S)

\* A sum over a finite set satisfies its equation.
LEMMA SumIs ==
    ASSUME NEW S, IsFiniteSet(S), NEW f
    PROVE  \E g : SumOver(g, f, S) /\ SumFunctionOnSet(f, S) = g[S]
<1> DEFINE it == CHOOSE g : SumOver(g, f, S)
<1>1. SumOver(it, f, S)
  BY SumsExist DEF SumOver
<1>2. SumFunctionOnSet(f, S) = it[S]
  BY DEF SumFunctionOnSet, FoldFunctionOnSet, MapThenFoldSet, SumOver, Sums, Pick
<1> QED BY <1>1, <1>2

\* Any solution of the equation, on any larger set, is the sum.
LEMMA SumUnique ==
    ASSUME NEW S, IsFiniteSet(S), NEW f, NEW g, SumOver(g, f, S),
           NEW s \in SUBSET S
    PROVE  g[s] = SumFunctionOnSet(f, s)
<1>1. IsFiniteSet(s)
  BY FS_Subset
<1>2. PICK h : SumOver(h, f, s) /\ SumFunctionOnSet(f, s) = h[s]
  BY <1>1, SumIs
<1> DEFINE P == {n \in Nat : \A r \in SUBSET s : Cardinality(r) = n => g[r] = h[r]}
<1>3. \A r \in SUBSET s : /\ IsFiniteSet(r) /\ Cardinality(r) \in Nat /\ r \in SUBSET S
                          /\ r # {} => /\ Pick(r) \in r /\ r \ {Pick(r)} \in SUBSET s
                                       /\ Cardinality(r \ {Pick(r)}) = Cardinality(r) - 1
  <2>1. \A r \in SUBSET s : IsFiniteSet(r) /\ Cardinality(r) \in Nat
    BY <1>1, FS_Subset, FS_CardinalityType
  <2>2. \A r \in SUBSET s : r # {} => Pick(r) \in r
    BY DEF Pick
  <2>3. QED
    BY <2>1, <2>2, FS_RemoveElement
<1>4. 0 \in P
  BY <1>2, <1>3, FS_EmptySet DEF SumOver, Sums
<1>5. ASSUME NEW n \in Nat, n \in P PROVE n + 1 \in P
  <2> SUFFICES ASSUME NEW r \in SUBSET s, Cardinality(r) = n + 1 PROVE g[r] = h[r]
    OBVIOUS
  <2>1. r # {}
    BY <1>3, OneMore
  <2>2. r \ {Pick(r)} \in SUBSET s /\ Cardinality(r \ {Pick(r)}) = n
    BY <1>3, <2>1
  <2>3. g[r \ {Pick(r)}] = h[r \ {Pick(r)}]
    BY <1>5, <2>2
  <2>4. QED
    BY <1>2, <1>3, <2>1, <2>3 DEF SumOver, Sums
<1>6. Nat \subseteq P
  <2> HIDE DEF P
  <2> QED BY <1>4, <1>5, NatSteps
<1>7. QED
  BY <1>2, <1>3, <1>6

\* The empty sum.
LEMMA SumEmpty ==
    ASSUME NEW f PROVE SumFunctionOnSet(f, {}) = 0
<1>1. PICK g : SumOver(g, f, {}) /\ SumFunctionOnSet(f, {}) = g[{}]
  BY SumIs, FS_EmptySet
<1>2. QED
  BY <1>1 DEF SumOver, Sums

\* The recursion, for sums themselves.
LEMMA SumPick ==
    ASSUME NEW S, IsFiniteSet(S), S # {}, NEW f
    PROVE  /\ Pick(S) \in S
           /\ SumFunctionOnSet(f, S) = f[Pick(S)] + SumFunctionOnSet(f, S \ {Pick(S)})
<1>1. PICK g : SumOver(g, f, S)
  BY SumsExist DEF SumOver
<1>2. \A s \in SUBSET S : g[s] = SumFunctionOnSet(f, s)
  BY <1>1, SumUnique
<1>3. Pick(S) \in S
  BY DEF Pick
<1>4. S \in SUBSET S /\ S \ {Pick(S)} \in SUBSET S
  OBVIOUS
<1>5. g[S] = f[Pick(S)] + g[S \ {Pick(S)}]
  BY <1>1, <1>4 DEF SumOver, Sums
<1>6. QED
  BY <1>2, <1>3, <1>4, <1>5

\* A sum of integers is an integer, of naturals a natural.
LEMMA SumInt ==
    ASSUME NEW S, IsFiniteSet(S), NEW f, \A x \in S : f[x] \in Int
    PROVE  SumFunctionOnSet(f, S) \in Int
<1> DEFINE P == {n \in Nat : \A s \in SUBSET S : Cardinality(s) = n => SumFunctionOnSet(f, s) \in Int}
<1>1. \A s \in SUBSET S : IsFiniteSet(s) /\ Cardinality(s) \in Nat
  BY FS_Subset, FS_CardinalityType
<1>2. 0 \in P
  BY <1>1, FS_EmptySet, SumEmpty
<1>3. ASSUME NEW n \in Nat, n \in P PROVE n + 1 \in P
  <2> SUFFICES ASSUME NEW s \in SUBSET S, Cardinality(s) = n + 1
               PROVE  SumFunctionOnSet(f, s) \in Int
    OBVIOUS
  <2>1. s # {} /\ \A x \in s : Cardinality(s \ {x}) = n
    BY <1>1, OneMore
  <2>2. Pick(s) \in s /\ SumFunctionOnSet(f, s) = f[Pick(s)] + SumFunctionOnSet(f, s \ {Pick(s)})
    BY <1>1, <2>1, SumPick
  <2>3. Cardinality(s \ {Pick(s)}) = n /\ s \ {Pick(s)} \in SUBSET S
    BY <2>1, <2>2
  <2>4. QED
    BY <1>3, <2>2, <2>3
<1>4. Nat \subseteq P
  <2> HIDE DEF P
  <2> QED BY <1>2, <1>3, NatSteps
<1>5. QED
  BY <1>1, <1>4

\* Any element may be taken out first.
LEMMA SumWithout ==
    ASSUME NEW S, IsFiniteSet(S), NEW f, \A x \in S : f[x] \in Int, NEW x \in S
    PROVE  SumFunctionOnSet(f, S) = f[x] + SumFunctionOnSet(f, S \ {x})
<1> DEFINE Sum(s) == SumFunctionOnSet(f, s)
           P == {n \in Nat : \A s \in SUBSET S : Cardinality(s) = n =>
                                 \A y \in s : Sum(s) = f[y] + Sum(s \ {y})}
<1>1. \A s \in SUBSET S : IsFiniteSet(s) /\ Cardinality(s) \in Nat /\ Sum(s) \in Int
  BY FS_Subset, FS_CardinalityType, SumInt
<1>2. 0 \in P
  BY <1>1, FS_EmptySet
<1>3. ASSUME NEW n \in Nat, n \in P PROVE n + 1 \in P
  <2> SUFFICES ASSUME NEW s \in SUBSET S, Cardinality(s) = n + 1, NEW y \in s
               PROVE  Sum(s) = f[y] + Sum(s \ {y})
    OBVIOUS
  <2>0. s # {} /\ \A z \in s : Cardinality(s \ {z}) = n
    BY <1>1, OneMore
  <2>1. PICK c \in s : Sum(s) = f[c] + Sum(s \ {c})
    BY <1>1, <2>0, SumPick
  <2>2. CASE y = c
    BY <2>1, <2>2
  <2>3. CASE y # c
    <3>1. /\ s \ {c} \in SUBSET S /\ y \in s \ {c} /\ Cardinality(s \ {c}) = n
          /\ s \ {y} \in SUBSET S /\ c \in s \ {y} /\ Cardinality(s \ {y}) = n
      BY <2>0, <2>3
    <3>2. Sum(s \ {c}) = f[y] + Sum((s \ {c}) \ {y}) /\ Sum(s \ {y}) = f[c] + Sum((s \ {y}) \ {c})
      BY <1>3, <3>1
    <3>3. (s \ {c}) \ {y} = (s \ {y}) \ {c} /\ (s \ {c}) \ {y} \in SUBSET S
      OBVIOUS
    <3>4. Sum((s \ {c}) \ {y}) \in Int /\ f[y] \in Int /\ f[c] \in Int
      BY <1>1, <3>3
    <3>5. PICK r \in Int : r = Sum((s \ {c}) \ {y}) /\ r = Sum((s \ {y}) \ {c})
      BY <3>3, <3>4
    <3> HIDE DEF Sum
    <3>6. Sum(s) = f[c] + (f[y] + r) /\ Sum(s \ {y}) = f[c] + r
      BY <2>1, <3>2, <3>5
    <3>7. QED
      BY <3>4, <3>6
  <2>4. QED
    BY <2>2, <2>3
<1>4. Nat \subseteq P
  <2> HIDE DEF P
  <2> QED BY <1>2, <1>3, NatSteps
<1>5. S \in SUBSET S /\ Cardinality(S) \in P
  BY <1>1, <1>4
<1> HIDE DEF Sum
<1>6. Sum(S) = f[x] + Sum(S \ {x})
  BY <1>5
<1>7. QED
  BY <1>6 DEF Sum

\* One more element.
LEMMA SumWith ==
    ASSUME NEW S, IsFiniteSet(S), NEW x, x \notin S, NEW f, \A y \in S \cup {x} : f[y] \in Int
    PROVE  SumFunctionOnSet(f, S \cup {x}) = f[x] + SumFunctionOnSet(f, S)
<1>1. IsFiniteSet(S \cup {x}) /\ (S \cup {x}) \ {x} = S
  BY FS_AddElement
<1>2. QED
  BY <1>1, SumWithout
\* One element, and two.
LEMMA SumOne ==
    ASSUME NEW x, NEW f, f[x] \in Int
    PROVE  SumFunctionOnSet(f, {x}) = f[x]
<1>1. SumFunctionOnSet(f, {} \cup {x}) = f[x] + SumFunctionOnSet(f, {})
  BY SumWith, FS_EmptySet
<1>2. {} \cup {x} = {x}
  OBVIOUS
<1>3. QED
  BY <1>1, <1>2, SumEmpty

\* Two elements.
LEMMA SumTwo ==
    ASSUME NEW x, NEW y, x # y, NEW f, f[x] \in Int, f[y] \in Int
    PROVE  SumFunctionOnSet(f, {x, y}) = f[x] + f[y]
<1>1. IsFiniteSet({y}) /\ x \notin {y}
  BY FS_Singleton
<1>2. SumFunctionOnSet(f, {y} \cup {x}) = f[x] + SumFunctionOnSet(f, {y})
  BY <1>1, SumWith
<1>3. {y} \cup {x} = {x, y}
  OBVIOUS
<1>4. QED
  BY <1>2, <1>3, SumOne

\* What a function makes of a finite set is finite.
LEMMA ImageFinite ==
    ASSUME NEW S, IsFiniteSet(S), NEW f, f = [x \in S |-> f[x]]
    PROVE  IsFiniteSet({f[x] : x \in S})
<1> DEFINE T == {f[x] : x \in S}
<1>1. f \in Surjection(S, T)
  BY DEF Surjection
<1>2. QED
  BY <1>1, FS_Surjection

-----------------------------------------------------------------------------
(* _merge.  A table counts the sets that F has for each slot.              *)

Slots == Nat \X Int
EntryType == [size : Nat, total : Int, ways : {1, 2}, witness : SUBSET Nat]

\* The entry says how many sets there are, as far as "more than one".
CountsRight(x, sets) ==
    /\ x.witness \in sets
    /\ x.ways = 1 => sets = {x.witness}
    /\ x.ways = 2 => \E S \in sets : S # x.witness

OnePerSlot(T) == \A x, y \in T : Slot(x) = Slot(y) => x = y

Counts(T, F) ==
    /\ IsFiniteSet(T)
    /\ T \subseteq EntryType
    /\ OnePerSlot(T)
    /\ \A x \in T : CountsRight(x, F[Slot(x)])
    /\ \A k \in Slots : F[k] # {} => \E x \in T : Slot(x) = k

\* The slot of a table entry, and its count.
LEMMA SlotType == \A x \in EntryType : Slot(x) \in Slots /\ x.ways \in {1, 2}
  BY DEF EntryType, Slot, Slots

\* Counting stops at two.
LEMMA CapMin ==
    ASSUME NEW n \in Nat
    PROVE  Min({n, _CAP}) = IF n <= 2 THEN n ELSE 2
<1>1. \E x \in {n, 2} : \A y \in {n, 2} : x =< y
  OBVIOUS
<1>2. Min({n, 2}) \in {n, 2} /\ \A y \in {n, 2} : Min({n, 2}) =< y
  BY <1>1 DEF Min
<1>3. QED
  BY <1>2 DEF _CAP

\* What is at a slot that only one table has, and at one that both have.
LEMMA MergedEntry ==
    ASSUME NEW T, T \subseteq EntryType, OnePerSlot(T),
           NEW E, E \subseteq EntryType, OnePerSlot(E), T \cap E = {},
           NEW k, NEW x, x \in _merge(T, E), Slot(x) = k
    PROVE  \/ x \in T /\ \A y \in E : Slot(y) # k
           \/ x \in E /\ \A y \in T : Slot(y) # k
           \/ \E y \in T, z \in E : Slot(y) = k /\ Slot(z) = k /\ x = [y EXCEPT !.ways = 2]
<1> DEFINE at(j, S) == {y \in S : Slot(y) = j}
           ways(j) == SumFunction([y \in at(j, T) \cup at(j, E) |-> y.ways])
           first(j) == IF at(j, T) # {} THEN CHOOSE y \in at(j, T) : TRUE
                       ELSE CHOOSE y \in at(j, E) : TRUE
<1>1. PICK j \in {Slot(y) : y \in T \cup E} : x = [first(j) EXCEPT !.ways = Min({ways(j), _CAP})]
  BY DEF _merge
<1>2. first(j) \in T \cup E /\ Slot(first(j)) = j
  OBVIOUS
<1>3. Slot(x) = Slot(first(j))
  BY <1>1, <1>2 DEF EntryType, Slot
<1>4. j = k
  BY <1>2, <1>3
<1> DEFINE g == [y \in at(k, T) \cup at(k, E) |-> y.ways]
<1>5. ways(k) = SumFunctionOnSet(g, at(k, T) \cup at(k, E))
  BY DEF SumFunction
<1>6. ASSUME NEW y \in T \cup E, at(k, T) \cup at(k, E) = {y}
      PROVE  x = y
  <2>1. y.ways \in {1, 2} /\ g[y] = y.ways
    BY <1>6, SlotType
  <2>2. ways(k) = y.ways
    BY <1>5, <1>6, <2>1, SumOne
  <2>3. first(k) = y
    BY <1>2, <1>4, <1>6
  <2> HIDE DEF first, ways
  <2>4. x = [y EXCEPT !.ways = y.ways]
    BY <1>1, <1>4, <2>1, <2>2, <2>3, CapMin
  <2>5. QED
    BY <2>4 DEF EntryType
<1>7. CASE at(k, E) = {}
  <2>1. PICK y \in T : Slot(y) = k
    BY <1>2, <1>4, <1>7
  <2>2. at(k, T) \cup at(k, E) = {y}
    BY <1>7, <2>1 DEF OnePerSlot
  <2>3. QED
    BY <1>6, <1>7, <2>1, <2>2
<1>8. CASE at(k, T) = {}
  <2>1. PICK y \in E : Slot(y) = k
    BY <1>2, <1>4, <1>8
  <2>2. at(k, T) \cup at(k, E) = {y}
    BY <1>8, <2>1 DEF OnePerSlot
  <2>3. QED
    BY <1>6, <1>8, <2>1, <2>2
<1>9. CASE at(k, T) # {} /\ at(k, E) # {}
  <2>1. PICK y \in T, z \in E : Slot(y) = k /\ Slot(z) = k
    BY <1>9
  <2>2. at(k, T) \cup at(k, E) = {y, z} /\ at(k, T) = {y} /\ y # z
    BY <2>1 DEF OnePerSlot
  <2>3. y.ways \in {1, 2} /\ z.ways \in {1, 2} /\ g[y] = y.ways /\ g[z] = z.ways
    BY <2>2, SlotType
  <2>4. ways(k) = y.ways + z.ways
    BY <1>5, <2>2, <2>3, SumTwo
  <2>5. first(k) = y
    BY <2>2
  <2>6. Min({ways(k), _CAP}) = 2
    BY <2>3, <2>4, CapMin
  <2>7. x = [y EXCEPT !.ways = 2]
    BY <1>1, <1>4, <2>5, <2>6
  <2>8. QED
    BY <2>1, <2>7
<1>10. QED
  BY <1>7, <1>8, <1>9

\* A merged table has one entry for every slot of either.
LEMMA MergedSlots ==
    ASSUME NEW T, T \subseteq EntryType, NEW E, E \subseteq EntryType
    PROVE  /\ \A x \in T \cup E : \E y \in _merge(T, E) : Slot(y) = Slot(x)
           /\ OnePerSlot(_merge(T, E))
           /\ IsFiniteSet(T) /\ IsFiniteSet(E) => IsFiniteSet(_merge(T, E))
<1> DEFINE at(j, S) == {y \in S : Slot(y) = j}
           ways(j) == SumFunction([y \in at(j, T) \cup at(j, E) |-> y.ways])
           first(j) == IF at(j, T) # {} THEN CHOOSE y \in at(j, T) : TRUE
                       ELSE CHOOSE y \in at(j, E) : TRUE
           K == {Slot(y) : y \in T \cup E}
           f == [j \in K |-> [first(j) EXCEPT !.ways = Min({ways(j), _CAP})]]
<1>1. _merge(T, E) = {f[j] : j \in K}
  BY DEF _merge
<1>2. ASSUME NEW j \in K PROVE Slot(f[j]) = j
  <2>1. first(j) \in EntryType /\ Slot(first(j)) = j
    OBVIOUS
  <2> HIDE DEF first
  <2>2. QED
    BY <2>1 DEF Slot, EntryType
<1> HIDE DEF f
<1>3. \A x \in T \cup E : f[Slot(x)] \in _merge(T, E) /\ Slot(f[Slot(x)]) = Slot(x)
  BY <1>1, <1>2
<1>4. OnePerSlot(_merge(T, E))
  BY <1>1, <1>2 DEF OnePerSlot
<1>5. ASSUME IsFiniteSet(T), IsFiniteSet(E) PROVE IsFiniteSet(_merge(T, E))
  <2> DEFINE s == [y \in T \cup E |-> Slot(y)]
  <2>1. IsFiniteSet(T \cup E)
    BY <1>5, FS_Union
  <2>2. IsFiniteSet({s[y] : y \in T \cup E})
    <3> HIDE DEF s
    <3>1. s = [y \in T \cup E |-> s[y]]
      BY DEF s
    <3> QED BY <2>1, <3>1, ImageFinite
  <2>3. IsFiniteSet(K)
    <3>1. K = {s[y] : y \in T \cup E}
      OBVIOUS
    <3> QED BY <2>2, <3>1
  <2> HIDE DEF K
  <2>4. f = [j \in K |-> f[j]]
    BY DEF f
  <2>5. QED
    BY <1>1, <2>3, <2>4, ImageFinite
<1>6. QED
  BY <1>3, <1>4, <1>5

\* Two tables of different sets, merged, count the sets of both.
LEMMA MergeCounts ==
    ASSUME NEW T, NEW E, NEW A, NEW B, NEW F, Counts(T, A), Counts(E, B),
           \A k \in Slots : A[k] \cap B[k] = {} /\ F[k] = A[k] \cup B[k]
    PROVE  Counts(_merge(T, E), F)
<1>1. T \subseteq EntryType /\ E \subseteq EntryType /\ OnePerSlot(T) /\ OnePerSlot(E)
  BY DEF Counts
<1>2. \A x \in T \cup E : Slot(x) \in Slots
  BY <1>1, SlotType
<1>3. T \cap E = {}
  BY <1>2 DEF Counts, CountsRight
<1>4. ASSUME NEW x \in _merge(T, E)
      PROVE  x \in EntryType /\ CountsRight(x, F[Slot(x)])
  <2>1. CASE x \in T /\ \A y \in E : Slot(y) # Slot(x)
    <3>1. B[Slot(x)] = {} /\ Slot(x) \in Slots
      BY <1>2, <2>1 DEF Counts
    <3>2. F[Slot(x)] = A[Slot(x)]
      BY <3>1
    <3>3. QED
      BY <1>1, <2>1, <3>2 DEF Counts
  <2>2. CASE x \in E /\ \A y \in T : Slot(y) # Slot(x)
    <3>1. A[Slot(x)] = {} /\ Slot(x) \in Slots
      BY <1>2, <2>2 DEF Counts
    <3>2. F[Slot(x)] = B[Slot(x)]
      BY <3>1
    <3>3. QED
      BY <1>1, <2>2, <3>2 DEF Counts
  <2>3. ASSUME NEW y \in T, NEW z \in E, Slot(y) = Slot(x), Slot(z) = Slot(x),
               x = [y EXCEPT !.ways = 2]
        PROVE  x \in EntryType /\ CountsRight(x, F[Slot(x)])
    <3>1. x \in EntryType /\ x.witness = y.witness /\ x.ways = 2
      BY <1>1, <2>3 DEF EntryType
    <3>2. y.witness \in A[Slot(x)] /\ z.witness \in B[Slot(x)] /\ Slot(x) \in Slots
      BY <1>2, <2>3 DEF Counts, CountsRight
    <3>3. y.witness # z.witness /\ {y.witness, z.witness} \subseteq F[Slot(x)]
      BY <3>2
    <3>4. QED
      BY <3>1, <3>3 DEF CountsRight
  <2>4. QED
    BY <1>1, <1>3, <2>1, <2>2, <2>3, MergedEntry
<1>5. ASSUME NEW k \in Slots, F[k] # {} PROVE \E x \in _merge(T, E) : Slot(x) = k
  <2>1. A[k] # {} \/ B[k] # {}
    BY <1>5
  <2>2. PICK x \in T \cup E : Slot(x) = k
    BY <2>1 DEF Counts
  <2>3. \E y \in _merge(T, E) : Slot(y) = Slot(x)
    <3>1. \A z \in T \cup E : \E y \in _merge(T, E) : Slot(y) = Slot(z)
      BY <1>1, MergedSlots, Zenon
    <3>2. QED
      BY <2>2, <3>1
  <2>4. QED
    BY <2>2, <2>3
<1>6. IsFiniteSet(_merge(T, E)) /\ OnePerSlot(_merge(T, E))
  BY <1>1, MergedSlots DEF Counts
<1>7. QED
  BY <1>4, <1>5, <1>6 DEF Counts

-----------------------------------------------------------------------------
(* One amount.                                                             *)

TotalOf(in, S) == SumFunctionOnSet(in.amounts, S)
Positive(in, n) == {j \in 1 .. n : in.amounts[j] > 0}

\* A sum of naturals is one, and no smaller than any of them.
LEMMA SumNat ==
    ASSUME NEW S, IsFiniteSet(S), NEW f, \A x \in S : f[x] \in Nat
    PROVE  /\ SumFunctionOnSet(f, S) \in Nat
           /\ \A x \in S : f[x] <= SumFunctionOnSet(f, S)
<1> DEFINE P == {s \in SUBSET S : SumFunctionOnSet(f, s) \in Nat}
<1>1. {} \in P
  BY SumEmpty
<1>2. ASSUME NEW s \in SUBSET S, NEW x \in S \ s, s \in P PROVE s \cup {x} \in P
  <2>1. IsFiniteSet(s) /\ x \notin s /\ \A y \in s \cup {x} : f[y] \in Int
    BY FS_Subset
  <2>2. SumFunctionOnSet(f, s \cup {x}) = f[x] + SumFunctionOnSet(f, s)
    BY <2>1, SumWith
  <2>3. QED
    BY <1>2, <2>2
<1>3. SUBSET S \subseteq P
  <2> HIDE DEF P
  <2> QED BY <1>1, <1>2, SetSteps
<1>4. ASSUME NEW x \in S PROVE f[x] <= SumFunctionOnSet(f, S)
  <2>1. SumFunctionOnSet(f, S) = f[x] + SumFunctionOnSet(f, S \ {x})
    BY SumWithout
  <2>2. SumFunctionOnSet(f, S \ {x}) \in Nat
    BY <1>3
  <2>3. QED
    BY <2>1, <2>2
<1>5. QED
  BY <1>3, <1>4

\* A set of positive amounts is finite, and no member exceeds its total.
LEMMA Members ==
    ASSUME NEW in \in SearchInput, NEW n \in Nat, n <= Len(in.amounts),
           NEW S \in SUBSET Positive(in, n)
    PROVE  /\ IsFiniteSet(S) /\ Cardinality(S) \in Nat /\ S \in SUBSET Nat
           /\ Cardinality(S) = 0 <=> S = {}
           /\ \A j \in S : in.amounts[j] \in Nat /\ in.amounts[j] <= TotalOf(in, S)
           /\ TotalOf(in, S) \in Nat
<1>1. \A j \in 1 .. n : in.amounts[j] \in Int
  BY DEF SearchInput
<1>2. IsFiniteSet(1 .. n)
  BY FS_Interval
<1>3. IsFiniteSet(S)
  BY <1>2, FS_Subset DEF Positive
<1>4. \A j \in S : in.amounts[j] \in Nat
  BY <1>1 DEF Positive
<1>5. TotalOf(in, S) \in Nat /\ \A j \in S : in.amounts[j] <= TotalOf(in, S)
  BY <1>3, <1>4, SumNat DEF TotalOf
<1>6. Cardinality(S) \in Nat /\ (Cardinality(S) = 0 <=> S = {})
  BY <1>3, FS_CardinalityType, FS_EmptySet
<1>7. S \in SUBSET Nat
  BY DEF Positive
<1>8. QED
  BY <1>3, <1>4, <1>5, <1>6, <1>7

\* The sets of the first n amounts that belong into each slot.
Reached(in, n) ==
    [k \in Slots |->
        {S \in SUBSET Positive(in, n) :
            /\ S # {}
            /\ Cardinality(S) = k[1] /\ TotalOf(in, S) = k[2]
            /\ k[2] <= in.high /\ (k[1] = 1 \/ k[1] <= in.max)}]

\* Those of them that have the last one.
ReachedNow(in, n) == [k \in Slots |-> {S \in Reached(in, n)[k] : n \in S}]

\* What the first n amounts reach, later amounts do not disturb.
LEMMA ReachedBefore ==
    ASSUME NEW in \in SearchInput, NEW n \in Nat, n + 1 <= Len(in.amounts), NEW k \in Slots
    PROVE  /\ Reached(in, n)[k] = {S \in Reached(in, n + 1)[k] : n + 1 \notin S}
           /\ in.amounts[n + 1] <= 0 \/ in.amounts[n + 1] > in.high =>
                  ReachedNow(in, n + 1)[k] = {}
<1>1. \A S : S \in SUBSET Positive(in, n) <=> S \in SUBSET Positive(in, n + 1) /\ n + 1 \notin S
  <2>1. Positive(in, n) = Positive(in, n + 1) \ {n + 1}
    BY DEF Positive
  <2>2. QED
    BY <2>1
<1>2. Reached(in, n)[k] = {S \in Reached(in, n + 1)[k] : n + 1 \notin S}
  BY <1>1 DEF Reached
<1>3. ASSUME NEW S \in ReachedNow(in, n + 1)[k]
      PROVE  in.amounts[n + 1] > 0 /\ in.amounts[n + 1] <= in.high
  <2>1. S \in SUBSET Positive(in, n + 1) /\ n + 1 \in S /\ TotalOf(in, S) <= in.high
    BY DEF ReachedNow, Reached
  <2>2. in.amounts[n + 1] > 0
    BY <2>1 DEF Positive
  <2>3. in.amounts[n + 1] \in Nat /\ in.amounts[n + 1] <= TotalOf(in, S) /\ TotalOf(in, S) \in Nat
    BY <2>1, Members
  <2>4. in.high \in Int
    BY DEF SearchInput
  <2>5. QED
    BY <2>1, <2>2, <2>3, <2>4
<1>4. in.amounts[n + 1] \in Int /\ in.high \in Int
  BY DEF SearchInput
<1>5. QED
  BY <1>2, <1>3, <1>4

\* A set that has the last amount is that amount alone, or one of the earlier
\* amounts with it.
LEMMA ReachedWith ==
    ASSUME NEW in \in SearchInput, NEW n \in Nat, n + 1 <= Len(in.amounts),
           0 < in.amounts[n + 1], in.amounts[n + 1] <= in.high
    PROVE  /\ {n + 1} \in ReachedNow(in, n + 1)[<<1, in.amounts[n + 1]>>]
           /\ \A size \in Nat, total \in Int : \A S \in Reached(in, n)[<<size, total>>] :
                size < in.max /\ total + in.amounts[n + 1] <= in.high =>
                    S \cup {n + 1} \in ReachedNow(in, n + 1)[<<size + 1, total + in.amounts[n + 1]>>]
           /\ \A size \in Nat, total \in Int : \A S \in ReachedNow(in, n + 1)[<<size, total>>] :
                \/ S = {n + 1} /\ size = 1 /\ total = in.amounts[n + 1]
                \/ /\ size - 1 \in Nat /\ size - 1 < in.max /\ size - 1 > 0 /\ total <= in.high
                   /\ S \ {n + 1} \in Reached(in, n)[<<size - 1, total - in.amounts[n + 1]>>]
<1> DEFINE a == in.amounts[n + 1]
<1>1. a \in Int /\ in.high \in Int /\ in.max \in Nat
  BY DEF SearchInput
<1>2. Positive(in, n + 1) = Positive(in, n) \cup {n + 1} /\ n + 1 \notin Positive(in, n)
  BY DEF Positive
<1>3. ASSUME NEW S \in SUBSET Positive(in, n)
      PROVE  /\ TotalOf(in, S \cup {n + 1}) = a + TotalOf(in, S)
             /\ Cardinality(S \cup {n + 1}) = Cardinality(S) + 1
             /\ S \cup {n + 1} \in SUBSET Positive(in, n + 1)
  <2>1. IsFiniteSet(S) /\ n + 1 \notin S
    BY <1>2, Members
  <2>2. S \cup {n + 1} \in SUBSET Positive(in, n + 1)
    BY <1>2
  <2>3. \A j \in S \cup {n + 1} : in.amounts[j] \in Int
    BY <2>2 DEF Positive, SearchInput
  <2>4. QED
    BY <2>1, <2>2, <2>3, SumWith, FS_AddElement DEF TotalOf
<1>4. {n + 1} \in ReachedNow(in, n + 1)[<<1, a>>]
  <2>1. {n + 1} = {} \cup {n + 1} /\ {} \in SUBSET Positive(in, n)
    OBVIOUS
  <2>2. TotalOf(in, {}) = 0 /\ Cardinality({}) = 0
    BY SumEmpty, FS_EmptySet DEF TotalOf
  <2>3. TotalOf(in, {n + 1}) = a /\ Cardinality({n + 1}) = 1 /\ {n + 1} \in SUBSET Positive(in, n + 1)
    <3>1. /\ TotalOf(in, {} \cup {n + 1}) = a + TotalOf(in, {})
          /\ Cardinality({} \cup {n + 1}) = Cardinality({}) + 1
          /\ {} \cup {n + 1} \in SUBSET Positive(in, n + 1)
      BY <1>3, <2>1
    <3>2. QED
      BY <1>1, <2>1, <2>2, <3>1
  <2>4. <<1, a>> \in Slots
    BY <1>1 DEF Slots
  <2>5. QED
    BY <2>3, <2>4 DEF Reached, ReachedNow
<1>5. ASSUME NEW size \in Nat, NEW total \in Int, NEW S \in Reached(in, n)[<<size, total>>],
             size < in.max, total + a <= in.high
      PROVE  S \cup {n + 1} \in ReachedNow(in, n + 1)[<<size + 1, total + a>>]
  <2>1. <<size, total>> \in Slots /\ <<size + 1, total + a>> \in Slots
    BY <1>1, SMTT(40) DEF Slots
  <2>2. S \in SUBSET Positive(in, n) /\ Cardinality(S) = size /\ TotalOf(in, S) = total
    BY <2>1 DEF Reached
  <2>3. /\ TotalOf(in, S \cup {n + 1}) = total + a /\ Cardinality(S \cup {n + 1}) = size + 1
        /\ S \cup {n + 1} \in SUBSET Positive(in, n + 1)
    <3>1. /\ TotalOf(in, S \cup {n + 1}) = a + TotalOf(in, S)
          /\ Cardinality(S \cup {n + 1}) = Cardinality(S) + 1
          /\ S \cup {n + 1} \in SUBSET Positive(in, n + 1)
      BY <1>3, <2>2
    <3>2. QED
      BY <1>1, <2>2, <3>1
  <2>4. size + 1 <= in.max
    BY <1>1, <1>5
  <2>5. QED
    BY <1>5, <2>1, <2>3, <2>4 DEF Reached, ReachedNow
<1>6. ASSUME NEW size \in Nat, NEW total \in Int, NEW S \in ReachedNow(in, n + 1)[<<size, total>>]
      PROVE  \/ S = {n + 1} /\ size = 1 /\ total = a
             \/ /\ size - 1 \in Nat /\ size - 1 < in.max /\ size - 1 > 0 /\ total <= in.high
                /\ S \ {n + 1} \in Reached(in, n)[<<size - 1, total - a>>]
  <2> DEFINE R == S \ {n + 1}
  <2>1. <<size, total>> \in Slots
    BY DEF Slots
  <2>2. /\ S \in SUBSET Positive(in, n + 1) /\ n + 1 \in S /\ S = R \cup {n + 1}
        /\ Cardinality(S) = size /\ TotalOf(in, S) = total /\ total <= in.high
        /\ size = 1 \/ size <= in.max
    BY <2>1 DEF Reached, ReachedNow
  <2>3. R \in SUBSET Positive(in, n)
    BY <1>2, <2>2
  <2>4. Cardinality(R) \in Nat /\ TotalOf(in, R) \in Nat /\ (Cardinality(R) = 0 <=> R = {})
    <3> HIDE DEF R
    <3>1. n <= Len(in.amounts)
      BY DEF SearchInput
    <3>2. QED
      BY <2>3, <3>1, Members
  <2> HIDE DEF R
  <2>5. size = Cardinality(R) + 1 /\ total = a + TotalOf(in, R)
    BY <1>3, <2>2, <2>3
  <2>6. CASE R = {}
    <3>1. TotalOf(in, R) = 0
      BY <2>6, SumEmpty DEF TotalOf
    <3>2. QED
      <4>1. S = {n + 1}
        BY <2>2, <2>6
      <4>2. size = 1 /\ total = a
        BY <1>1, <2>4, <2>5, <2>6, <3>1
      <4>3. QED
        BY <4>1, <4>2
  <2>7. CASE R # {}
    <3>1. Cardinality(R) = size - 1 /\ TotalOf(in, R) = total - a /\ size - 1 > 0
      BY <1>1, <2>4, <2>5, <2>7, SMTT(40)
    <3>2. total - a <= in.high /\ size - 1 < in.max
      BY <1>1, <2>2, <2>4, <3>1, SMTT(40)
    <3>3. <<size - 1, total - a>> \in Slots
      BY <1>1, <3>1, <2>4 DEF Slots
    <3>4. R \in Reached(in, n)[<<size - 1, total - a>>]
      BY <1>1, <2>3, <2>7, <3>1, <3>2, <3>3, SMTT(40) DEF Reached
    <3>5. QED
      BY <2>2, <2>4, <3>1, <3>2, <3>4 DEF R
  <2>8. QED
    BY <2>6, <2>7
<1>7. QED
  BY <1>4, <1>5, <1>6

\* An entry of the last amount, from one of the earlier ones.
Grow(in, index1, x) ==
    [size |-> x.size + 1, total |-> x.total + in.amounts[index1], ways |-> x.ways,
     witness |-> x.witness \cup {index1}]
Alone(in, index1) ==
    [size |-> 1, total |-> in.amounts[index1], ways |-> 1, witness |-> {index1}]
Growing(in, T, index1) ==
    {y \in T : y.size < in.max /\ y.total + in.amounts[index1] <= in.high}

\* An entry extended by the next amount counts the sets that have it.
LEMMA GrownRight ==
    ASSUME NEW in \in SearchInput, NEW n \in Nat, n + 1 <= Len(in.amounts),
           0 < in.amounts[n + 1], in.amounts[n + 1] <= in.high,
           NEW T, Counts(T, Reached(in, n)), NEW x \in Growing(in, T, n + 1)
    PROVE  /\ Grow(in, n + 1, x) \in EntryType
           /\ x.size > 0
           /\ CountsRight(Grow(in, n + 1, x), ReachedNow(in, n + 1)[Slot(Grow(in, n + 1, x))])
<1> DEFINE a == in.amounts[n + 1]
           y == Grow(in, n + 1, x)
           now == ReachedNow(in, n + 1)[<<x.size + 1, x.total + a>>]
           old == Reached(in, n)[<<x.size, x.total>>]
<1>1. a \in Int /\ in.high \in Int /\ in.max \in Nat
  BY DEF SearchInput
<1>2. x \in EntryType /\ x \in T /\ x.size < in.max /\ x.total + a <= in.high
  BY DEF Growing, Counts
<1>3. x.size \in Nat /\ x.total \in Int /\ x.ways \in {1, 2} /\ x.witness \in SUBSET Nat
  BY <1>2 DEF EntryType
<1>4. y \in EntryType
  BY <1>1, <1>3 DEF Grow, EntryType
<1>5. Slot(y) = <<x.size + 1, x.total + a>> /\ y.ways = x.ways /\ y.witness = x.witness \cup {n + 1}
  BY DEF Slot, Grow
<1>6. CountsRight(x, old)
  BY <1>2 DEF Counts, Slot
<1>7. ASSUME NEW S \in old
      PROVE  n + 1 \notin S /\ x.size > 0 /\ S \cup {n + 1} \in now
  <2>1. <<x.size, x.total>> \in Slots
    BY <1>3 DEF Slots
  <2>2. S \in SUBSET Positive(in, n) /\ S # {} /\ Cardinality(S) = x.size
    BY <2>1 DEF Reached
  <2>3. Cardinality(S) # 0
    BY <2>2, Members
  <2>4. n + 1 \notin S
    BY <2>2 DEF Positive
  <2>5. S \cup {n + 1} \in now
    BY <1>2, <1>3, ReachedWith
  <2>6. QED
    BY <1>3, <2>2, <2>3, <2>4, <2>5
<1>8. x.size > 0
  BY <1>6, <1>7 DEF CountsRight
<1>9. ASSUME NEW S \in now PROVE n + 1 \in S /\ S \ {n + 1} \in old
  <2>1. x.size + 1 \in Nat /\ x.total + a \in Int /\ x.size + 1 # 1
    BY <1>1, <1>3, <1>8, SMTT(40)
  <2>2. S \ {n + 1} \in Reached(in, n)[<<(x.size + 1) - 1, (x.total + a) - a>>]
    BY <2>1, ReachedWith
  <2>3. (x.size + 1) - 1 = x.size /\ (x.total + a) - a = x.total
    BY <1>1, <1>3, SMTT(40)
  <2>4. n + 1 \in S
    BY <2>1 DEF ReachedNow, Slots
  <2>5. QED
    BY <2>2, <2>3, <2>4
<1> HIDE DEF now, old
<1>10. x.witness \cup {n + 1} \in now
  BY <1>6, <1>7 DEF CountsRight
<1>11. ASSUME x.ways = 1 PROVE now = {x.witness \cup {n + 1}}
  <2>1. old = {x.witness}
    BY <1>6, <1>11 DEF CountsRight
  <2>2. \A S \in now : S = x.witness \cup {n + 1}
    BY <1>9, <2>1
  <2>3. QED
    BY <1>10, <2>2
<1>12. ASSUME x.ways = 2 PROVE \E S \in now : S # x.witness \cup {n + 1}
  <2>1. PICK S \in old : S # x.witness
    BY <1>6, <1>12 DEF CountsRight
  <2>2. S \cup {n + 1} \in now /\ n + 1 \notin S /\ n + 1 \notin x.witness
    BY <1>6, <1>7 DEF CountsRight
  <2>3. S \cup {n + 1} # x.witness \cup {n + 1}
    <3>1. S = (S \cup {n + 1}) \ {n + 1} /\ x.witness = (x.witness \cup {n + 1}) \ {n + 1}
      BY <2>2
    <3>2. QED
      BY <2>1, <3>1
  <2>4. QED
    BY <2>2, <2>3
<1>13. CountsRight(y, now)
  BY <1>5, <1>10, <1>11, <1>12 DEF CountsRight
<1>14. QED
  BY <1>4, <1>5, <1>8, <1>13 DEF now

\* So does the entry of the next amount alone.
LEMMA AloneRight ==
    ASSUME NEW in \in SearchInput, NEW n \in Nat, n + 1 <= Len(in.amounts),
           0 < in.amounts[n + 1], in.amounts[n + 1] <= in.high
    PROVE  /\ Alone(in, n + 1) \in EntryType
           /\ CountsRight(Alone(in, n + 1), ReachedNow(in, n + 1)[Slot(Alone(in, n + 1))])
<1> DEFINE a == in.amounts[n + 1]
           now == ReachedNow(in, n + 1)[<<1, a>>]
<1>1. a \in Int
  BY DEF SearchInput
<1>2. Alone(in, n + 1) \in EntryType /\ Slot(Alone(in, n + 1)) = <<1, a>>
  BY <1>1 DEF Alone, EntryType, Slot
<1>3. {n + 1} \in now
  BY ReachedWith
<1>4. \A S \in now : S = {n + 1}
  <2>1. ASSUME NEW size \in Nat, NEW total \in Int, size = 1,
               NEW S \in ReachedNow(in, n + 1)[<<size, total>>]
        PROVE  S = {n + 1}
    <3>1. ~ (size - 1 > 0)
      BY <2>1
    <3>2. QED
      BY <3>1, ReachedWith
  <2>2. QED
    BY <1>1, <2>1
<1>5. now = {{n + 1}}
  <2> HIDE DEF now
  <2> QED BY <1>3, <1>4
<1>6. Alone(in, n + 1).ways = 1 /\ Alone(in, n + 1).witness = {n + 1}
  BY DEF Alone
<1>7. QED
  <2>1. CountsRight(Alone(in, n + 1), {{n + 1}})
    <3>1. Alone(in, n + 1).ways # 2
      BY <1>6
    <3>2. QED
      BY <1>6, <3>1, Zenon DEF CountsRight
  <2>2. QED
    BY <1>2, <1>5, <2>1

\* And all the entries that one amount adds.
LEMMA EntriesCount ==
    ASSUME NEW in \in SearchInput, NEW n \in Nat, n + 1 <= Len(in.amounts),
           0 < in.amounts[n + 1], in.amounts[n + 1] <= in.high,
           NEW T, Counts(T, Reached(in, n))
    PROVE  Counts({Grow(in, n + 1, x) : x \in Growing(in, T, n + 1)} \cup {Alone(in, n + 1)},
                  ReachedNow(in, n + 1))
<1> DEFINE a == in.amounts[n + 1]
           X == Growing(in, T, n + 1)
           G == {Grow(in, n + 1, x) : x \in X}
           E == G \cup {Alone(in, n + 1)}
<1>1. a \in Int
  BY DEF SearchInput
<1>2. IsFiniteSet(E)
  <2> DEFINE f == [x \in X |-> Grow(in, n + 1, x)]
  <2>1. IsFiniteSet(X)
    BY FS_Subset DEF Growing, Counts
  <2>2. IsFiniteSet({f[x] : x \in X})
    <3> HIDE DEF f, X
    <3>1. f = [x \in X |-> f[x]]
      BY DEF f
    <3> QED BY <2>1, <3>1, ImageFinite
  <2>3. G = {f[x] : x \in X}
    OBVIOUS
  <2>4. IsFiniteSet(G)
    BY <2>2, <2>3
  <2>5. QED
    BY <2>4, FS_AddElement
<1>3. \A x \in X : x \in T /\ x.size \in Nat /\ x.total \in Int /\ x.size > 0
  <2>1. \A x \in X : x \in T
    BY DEF Growing
  <2>2. \A x \in X : x.size > 0
    BY GrownRight
  <2>3. QED
    BY <2>1, <2>2 DEF Counts, EntryType
<1>4. E \subseteq EntryType /\ \A y \in E : CountsRight(y, ReachedNow(in, n + 1)[Slot(y)])
  <2>1. \A x \in X : /\ Grow(in, n + 1, x) \in EntryType
                     /\ CountsRight(Grow(in, n + 1, x), ReachedNow(in, n + 1)[Slot(Grow(in, n + 1, x))])
    BY GrownRight
  <2>2. QED
    BY <2>1, AloneRight
<1>5. \A x \in X : Slot(Grow(in, n + 1, x)) = <<x.size + 1, x.total + a>>
  BY DEF Slot, Grow
<1>6. Slot(Alone(in, n + 1)) = <<1, a>>
  BY DEF Slot, Alone
<1>7. OnePerSlot(E)
  <2>1. ASSUME NEW x \in X, NEW y \in X, <<x.size + 1, x.total + a>> = <<y.size + 1, y.total + a>>
        PROVE  x = y
    <3>1. x.size = y.size /\ x.total = y.total
      BY <1>1, <1>3, <2>1, SMTT(40)
    <3>2. QED
      BY <1>3, <3>1 DEF Counts, OnePerSlot, Slot
  <2>2. \A x \in X : <<x.size + 1, x.total + a>> # <<1, a>>
    BY <1>3
  <2> HIDE DEF X
  <2>3. QED
    BY <1>5, <1>6, <2>1, <2>2 DEF OnePerSlot
<1>8. ASSUME NEW k \in Slots, ReachedNow(in, n + 1)[k] # {} PROVE \E y \in E : Slot(y) = k
  <2>1. PICK S : S \in ReachedNow(in, n + 1)[k]
    BY <1>8
  <2>2. PICK size \in Nat, total \in Int : k = <<size, total>>
    BY DEF Slots
  <2>3. CASE size = 1 /\ total = a
    BY <1>6, <2>2, <2>3
  <2>4. CASE /\ size - 1 \in Nat /\ size - 1 < in.max /\ total <= in.high
             /\ S \ {n + 1} \in Reached(in, n)[<<size - 1, total - a>>]
    <3>1. <<size - 1, total - a>> \in Slots
      BY <1>1, <2>2, <2>4 DEF Slots
    <3>2. PICK x \in T : Slot(x) = <<size - 1, total - a>>
      BY <2>4, <3>1 DEF Counts
    <3>3. x.size = size - 1 /\ x.total = total - a
      BY <3>2 DEF Slot
    <3>4. x.size + 1 = size /\ x.total + a = total
      BY <1>1, <2>2, <3>3
    <3>5. x \in X
      BY <2>4, <3>2, <3>3, <3>4 DEF Growing
    <3>6. QED
      BY <1>5, <2>2, <3>4, <3>5
  <2>5. QED
    BY <2>1, <2>2, <2>3, <2>4, ReachedWith
<1>9. QED
  BY <1>2, <1>4, <1>7, <1>8 DEF Counts

\* One turn of the loop: a table that is right stays so.
LEMMA AddCounts ==
    ASSUME NEW in \in SearchInput, NEW n \in Nat, n + 1 <= Len(in.amounts),
           NEW T, Counts(T, Reached(in, n))
    PROVE  Counts(AddAmount(in, T, n + 1), Reached(in, n + 1))
<1> DEFINE a == in.amounts[n + 1]
<1>1. a \in Int /\ in.high \in Int
  BY DEF SearchInput
<1>2. \A k \in Slots : /\ Reached(in, n + 1)[k] = Reached(in, n)[k] \cup ReachedNow(in, n + 1)[k]
                       /\ Reached(in, n)[k] \cap ReachedNow(in, n + 1)[k] = {}
  BY ReachedBefore DEF ReachedNow
<1>3. CASE a <= 0 \/ a > in.high
  <2>1. \A k \in Slots : Reached(in, n + 1)[k] = Reached(in, n)[k]
    <3>1. \A k \in Slots : ReachedNow(in, n + 1)[k] = {}
      BY <1>3, ReachedBefore
    <3>2. QED
      BY <1>2, <3>1
  <2>2. \A x \in T : Slot(x) \in Slots
    BY SlotType DEF Counts
  <2>3. Counts(T, Reached(in, n + 1))
    BY <2>1, <2>2 DEF Counts
  <2>4. AddAmount(in, T, n + 1) = T
    BY <1>3 DEF AddAmount
  <2>5. QED
    BY <2>3, <2>4
<1>4. CASE 0 < a /\ a <= in.high
  <2> DEFINE E == {Grow(in, n + 1, x) : x \in Growing(in, T, n + 1)} \cup {Alone(in, n + 1)}
  <2>1. AddAmount(in, T, n + 1) = _merge(T, E)
    BY <1>1, <1>4 DEF AddAmount, Grow, Growing, Alone
  <2>2. Counts(E, ReachedNow(in, n + 1))
    BY <1>4, EntriesCount
  <2> HIDE DEF E
  <2>3. QED
    BY <1>2, <2>1, <2>2, MergeCounts
<1>5. QED
  BY <1>1, <1>3, <1>4

-----------------------------------------------------------------------------
(* The loop and the verdict.                                               *)

Begin == [table |-> {}, over |-> FALSE]
Turn(in, last, n) ==
    IF last.over THEN last
    ELSE [table |-> AddAmount(in, last.table, n), over |-> TooLarge(AddAmount(in, last.table, n))]
IsLoop(g, in, m) ==
    g = [n \in 0 .. m |-> IF n = 0 THEN Begin ELSE Turn(in, g[n - 1], n)]

\* The loop over the amounts has a value after any number of turns.
LEMMA LoopExists ==
    ASSUME NEW in, NEW m \in Nat
    PROVE  \E g : IsLoop(g, in, m)
<1> DEFINE P == {i \in Nat : \E g : IsLoop(g, in, i)}
<1>1. 0 \in P
  <2>1. IsLoop([n \in 0 .. 0 |-> Begin], in, 0)
    BY DEF IsLoop
  <2> QED BY <2>1
<1>2. ASSUME NEW i \in Nat, i \in P PROVE i + 1 \in P
  <2>1. PICK g : IsLoop(g, in, i)
    BY <1>2
  <2> DEFINE h == [n \in 0 .. (i + 1) |-> IF n = 0 THEN Begin ELSE Turn(in, g[n - 1], n)]
  <2>2. \A n \in 0 .. i : h[n] = g[n]
    BY <2>1 DEF IsLoop
  <2>3. \A n \in 0 .. (i + 1) : n # 0 => n - 1 \in 0 .. i
    OBVIOUS
  <2>4. \A n \in 0 .. (i + 1) : n # 0 => h[n - 1] = g[n - 1]
    BY <2>2, <2>3
  <2>5. IsLoop(h, in, i + 1)
    BY <2>4 DEF IsLoop
  <2>6. QED
    BY <2>5
<1>3. Nat \subseteq P
  <2> HIDE DEF P
  <2> QED BY <1>1, <1>2, NatSteps
<1>4. QED
  BY <1>3

\* After gives the values of that loop.
LEMMA AfterIs ==
    ASSUME NEW in \in SearchInput
    PROVE  /\ After(in)[0] = Begin
           /\ \A n \in Nat : n + 1 <= Len(in.amounts) =>
                  After(in)[n + 1] = Turn(in, After(in)[n], n + 1)
<1> DEFINE m == Len(in.amounts)
           it == CHOOSE g : IsLoop(g, in, m)
<1>1. m \in Nat
  BY DEF SearchInput
<1>2. IsLoop(it, in, m)
  BY <1>1, LoopExists
<1>3. After(in) = it
  BY DEF After, IsLoop, Begin, Turn
<1> HIDE DEF it
<1>4. it[0] = Begin
  BY <1>1, <1>2 DEF IsLoop
<1>5. ASSUME NEW n \in Nat, n + 1 <= m PROVE it[n + 1] = Turn(in, it[n], n + 1)
  <2>1. n + 1 \in 0 .. m /\ n + 1 # 0 /\ (n + 1) - 1 = n
    BY <1>1, <1>5
  <2>2. QED
    BY <1>2, <2>1 DEF IsLoop
<1>6. QED
  BY <1>3, <1>4, <1>5

\* The loop's table is right as long as it has not grown too large.
LEMMA AfterCounts ==
    ASSUME NEW in \in SearchInput
    PROVE  \A n \in 0 .. Len(in.amounts) :
               /\ After(in)[n].over \in BOOLEAN
               /\ ~After(in)[n].over => Counts(After(in)[n].table, Reached(in, n))
<1> DEFINE m == Len(in.amounts)
           Good(n) == /\ After(in)[n].over \in BOOLEAN
                      /\ ~After(in)[n].over => Counts(After(in)[n].table, Reached(in, n))
           P == {n \in Nat : n <= m => Good(n)}
<1>1. m \in Nat
  BY DEF SearchInput
<1>2. 0 \in P
  <2>1. After(in)[0].table = {} /\ After(in)[0].over = FALSE
    BY AfterIs DEF Begin
  <2>2. Positive(in, 0) = {}
    BY DEF Positive
  <2>3. \A k \in Slots : Reached(in, 0)[k] = {}
    BY <2>2 DEF Reached
  <2>4. Counts({}, Reached(in, 0))
    BY <2>3, FS_EmptySet DEF Counts, OnePerSlot
  <2>5. QED
    BY <2>1, <2>4
<1>3. ASSUME NEW n \in Nat, n \in P PROVE n + 1 \in P
  <2> SUFFICES ASSUME n + 1 <= m PROVE Good(n + 1)
    OBVIOUS
  <2> DEFINE last == After(in)[n]
             next == AddAmount(in, last.table, n + 1)
  <2>1. Good(n)
    BY <1>1, <1>3
  <2>2. After(in)[n + 1] = Turn(in, last, n + 1)
    BY AfterIs
  <2>3. CASE last.over
    <3>1. After(in)[n + 1] = last
      BY <2>2, <2>3 DEF Turn
    <3>2. QED
      BY <2>1, <2>3, <3>1
  <2>4. CASE ~last.over
    <3>1. After(in)[n + 1].table = next /\ After(in)[n + 1].over = TooLarge(next)
      BY <2>2, <2>4 DEF Turn
    <3>2. Counts(next, Reached(in, n + 1))
      <4>1. Counts(last.table, Reached(in, n))
        BY <2>1, <2>4
      <4> HIDE DEF last
      <4> QED BY <4>1, AddCounts
    <3>3. TooLarge(next) \in BOOLEAN
      BY DEF TooLarge
    <3>4. QED
      BY <3>1, <3>2, <3>3
  <2>5. QED
    BY <2>3, <2>4
<1>4. Nat \subseteq P
  <2> HIDE DEF P
  <2> QED BY <1>2, <1>3, NatSteps
<1>5. QED
  BY <1>4

\* Once too large, for good.
LEMMA OverStays ==
    ASSUME NEW in \in SearchInput, NEW n \in 0 .. Len(in.amounts), After(in)[n].over
    PROVE  After(in)[Len(in.amounts)].over
<1> DEFINE m == Len(in.amounts)
           P == {i \in Nat : n + i <= m => After(in)[n + i].over}
<1>1. m \in Nat
  BY DEF SearchInput
<1>2. 0 \in P
  OBVIOUS
<1>3. ASSUME NEW i \in Nat, i \in P PROVE i + 1 \in P
  <2> SUFFICES ASSUME n + (i + 1) <= m PROVE After(in)[n + (i + 1)].over
    OBVIOUS
  <2>1. After(in)[n + i].over
    BY <1>1, <1>3
  <2>2. n + i \in Nat /\ (n + i) + 1 <= m /\ (n + i) + 1 = n + (i + 1)
    BY <1>1
  <2>3. After(in)[(n + i) + 1] = Turn(in, After(in)[n + i], (n + i) + 1)
    BY <2>2, AfterIs
  <2>4. QED
    BY <2>1, <2>2, <2>3 DEF Turn
<1>4. Nat \subseteq P
  <2> HIDE DEF P
  <2> QED BY <1>2, <1>3, NatSteps
<1>5. m - n \in Nat /\ n + (m - n) = m
  BY <1>1
<1>6. m - n \in P
  BY <1>4, <1>5
<1>7. QED
  BY <1>1, <1>5, <1>6

\* The entries within the bounds are the sets that fit.
LEMMA HitsFit ==
    ASSUME NEW in \in SearchInput, NEW T, Counts(T, Reached(in, Len(in.amounts)))
    PROVE  LET hits == {x \in T : x.size >= MIN_SIZE /\ x.total \in in.low .. in.high}
           IN  /\ \A x \in hits : Reached(in, Len(in.amounts))[Slot(x)] \subseteq Fitting(in)
               /\ \A S \in Fitting(in) : \E x \in hits :
                      S \in Reached(in, Len(in.amounts))[Slot(x)]
<1> DEFINE m == Len(in.amounts)
           hits == {x \in T : x.size >= MIN_SIZE /\ x.total \in in.low .. in.high}
<1>1. m \in Nat /\ in.max \in Nat /\ in.high \in Int /\ in.low \in Int
  BY DEF SearchInput
<1>2. ASSUME NEW x \in hits, NEW S \in Reached(in, m)[Slot(x)] PROVE S \in Fitting(in)
  <2>1. x \in EntryType /\ Slot(x) \in Slots /\ Slot(x) = <<x.size, x.total>>
    BY SlotType DEF Counts, Slot
  <2>2. /\ S \in SUBSET Positive(in, m) /\ Cardinality(S) = x.size /\ TotalOf(in, S) = x.total
        /\ x.size = 1 \/ x.size <= in.max
    BY <2>1 DEF Reached
  <2>3. x.size \in MIN_SIZE .. in.max
    BY <1>1, <2>1, <2>2 DEF MIN_SIZE, EntryType
  <2>4. QED
    BY <2>2, <2>3 DEF Fitting, TotalOf, Positive
<1>3. ASSUME NEW S \in Fitting(in)
      PROVE  \E x \in hits : S \in Reached(in, m)[Slot(x)]
  <2>1. /\ S \in SUBSET Positive(in, m) /\ Cardinality(S) \in MIN_SIZE .. in.max
        /\ TotalOf(in, S) \in in.low .. in.high
    BY DEF Fitting, TotalOf, Positive
  <2> DEFINE k == <<Cardinality(S), TotalOf(in, S)>>
  <2>2. k \in Slots /\ Cardinality(S) >= 2 /\ Cardinality(S) <= in.max /\ TotalOf(in, S) <= in.high
    BY <1>1, <2>1 DEF Slots, MIN_SIZE
  <2>3. S # {}
    <3>1. Cardinality({}) = 0
      BY FS_EmptySet
    <3>2. S = {} => Cardinality(S) = 0
      BY <3>1
    <3>3. Cardinality(S) # 0
      BY <2>2
    <3>4. QED
      BY <3>2, <3>3
  <2>4. S \in Reached(in, m)[k]
    BY <2>1, <2>2, <2>3 DEF Reached
  <2>5. PICK x \in T : Slot(x) = k
    BY <2>2, <2>4 DEF Counts
  <2>6. x.size = Cardinality(S) /\ x.total = TotalOf(in, S)
    BY <2>5 DEF Slot
  <2>7. x \in hits
    BY <2>1, <2>2, <2>5, <2>6 DEF MIN_SIZE
  <2>8. QED
    BY <2>4, <2>5, <2>7
<1>4. QED
  BY <1>2, <1>3

\* There are finitely many sets that fit.
LEMMA FittingFinite ==
    ASSUME NEW in \in SearchInput
    PROVE  IsFiniteSet(Fitting(in))
<1>1. IsFiniteSet(1 .. Len(in.amounts))
  BY FS_Interval DEF SearchInput
<1>2. IsFiniteSet(SUBSET (1 .. Len(in.amounts)))
  BY <1>1, FS_SUBSET
<1>3. Fitting(in) \subseteq SUBSET (1 .. Len(in.amounts))
  BY DEF Fitting
<1>4. QED
  BY <1>2, <1>3, FS_Subset

\* Two different elements are more than one.
LEMMA TwoAreMany ==
    ASSUME NEW S, IsFiniteSet(S), NEW x \in S, NEW y \in S, x # y
    PROVE  Cardinality(S) > 1
<1>1. Cardinality(S) \in Nat /\ Cardinality(S) # 0
  BY FS_CardinalityType, FS_EmptySet
<1>2. Cardinality(S) # 1
  <2>1. ASSUME Cardinality(S) = 1 PROVE FALSE
    <3>1. PICK z : S = {z}
      BY <2>1, FS_Singleton
    <3>2. QED
      BY <3>1
  <2>2. QED
    BY <2>1
<1>3. QED
  BY <1>1, <1>2

\* The meaning of an answer.
Means(in, found) ==
    /\ found.outcome \in {"UNIQUE", "NONE", "AMBIGUOUS", "TOO_COMPLEX"}
    /\ found.outcome = "UNIQUE" => Fitting(in) = {found.indices}
    /\ found.outcome = "NONE" => Fitting(in) = {}
    /\ found.outcome = "AMBIGUOUS" => Cardinality(Fitting(in)) > 1
    /\ found.outcome # "UNIQUE" => found.indices = {}

\* The answer read off a table that counts right means what it says.
LEMMA VerdictMeans ==
    ASSUME NEW in \in SearchInput, NEW T, Counts(T, Reached(in, Len(in.amounts)))
    PROVE  Means(in, Verdict(in, T))
<1> DEFINE R == Reached(in, Len(in.amounts))
           hits == {x \in T : x.size >= MIN_SIZE /\ x.total \in in.low .. in.high}
<1>1. /\ \A x \in hits : R[Slot(x)] \subseteq Fitting(in)
      /\ \A S \in Fitting(in) : \E x \in hits : S \in R[Slot(x)]
  BY HitsFit
<1>2. /\ hits \subseteq T /\ IsFiniteSet(hits) /\ OnePerSlot(T)
      /\ \A x \in hits : /\ x \in EntryType /\ CountsRight(x, R[Slot(x)])
                         /\ Slot(x) \in Slots /\ x.ways \in {1, 2}
  <2>1. IsFiniteSet(hits)
    BY FS_Subset DEF Counts
  <2>2. QED
    BY <2>1, SlotType DEF Counts
<1> HIDE DEF hits
<1>3. CASE hits = {}
  <2>1. Verdict(in, T) = [outcome |-> "NONE", indices |-> {}]
    BY <1>3 DEF Verdict, hits
  <2>2. Fitting(in) = {}
    BY <1>1, <1>3
  <2>3. QED
    BY <2>1, <2>2 DEF Means
<1>4. CASE hits # {} /\ (Cardinality(hits) > 1 \/ \E x \in hits : x.ways >= _CAP)
  <2>1. Verdict(in, T) = [outcome |-> "AMBIGUOUS", indices |-> {}]
    BY <1>4 DEF Verdict, hits
  <2>2. \E S, U \in Fitting(in) : S # U
    <3>1. ASSUME NEW x \in hits, x.ways >= _CAP PROVE \E S, U \in Fitting(in) : S # U
      <4>1. x.ways = 2
        BY <1>2, <3>1 DEF _CAP
      <4>2. PICK S \in R[Slot(x)] : S # x.witness
        BY <1>2, <4>1 DEF CountsRight
      <4>3. x.witness \in R[Slot(x)]
        BY <1>2 DEF CountsRight
      <4>4. QED
        BY <1>1, <4>2, <4>3
    <3>2. ASSUME Cardinality(hits) > 1 PROVE \E S, U \in Fitting(in) : S # U
      <4>1. PICK x \in hits : TRUE
        BY <1>4
      <4>2. hits # {x}
        <5>1. Cardinality({x}) = 1
          BY FS_Singleton
        <5>2. hits = {x} => Cardinality(hits) = 1
          BY <5>1
        <5>3. Cardinality(hits) # 1
          BY <3>2
        <5>4. QED
          BY <5>2, <5>3
      <4>3. PICK y \in hits : y # x
        BY <4>1, <4>2
      <4>4. Slot(x) # Slot(y)
        BY <1>2, <4>1, <4>3 DEF OnePerSlot
      <4>5. x.witness \in R[Slot(x)] /\ y.witness \in R[Slot(y)]
        BY <1>2, <4>1, <4>3 DEF CountsRight
      <4>6. x.witness # y.witness
        <5>1. \A k \in Slots : \A S \in R[k] : k = <<Cardinality(S), TotalOf(in, S)>>
          BY DEF Reached, Slots
        <5>2. Slot(x) \in Slots /\ Slot(y) \in Slots
          BY <1>2, <4>1, <4>3
        <5> HIDE DEF R
        <5>3. QED
          BY <4>4, <4>5, <5>1, <5>2
      <4>7. QED
        BY <1>1, <4>5, <4>6
    <3>3. QED
      BY <1>4, <3>1, <3>2
  <2>3. Cardinality(Fitting(in)) > 1
    BY <2>2, FittingFinite, TwoAreMany
  <2>4. QED
    BY <2>1, <2>3 DEF Means
<1>5. CASE hits # {} /\ ~(Cardinality(hits) > 1) /\ ~(\E x \in hits : x.ways >= _CAP)
  <2>1. PICK x \in hits : TRUE
    BY <1>5
  <2>2. hits = {x}
    <3>1. ASSUME NEW y \in hits, y # x PROVE FALSE
      BY <1>2, <1>5, <2>1, <3>1, TwoAreMany
    <3>2. QED
      BY <2>1, <3>1
  <2>3. (CHOOSE y \in hits : TRUE) = x
    BY <2>2
  <2>4. Verdict(in, T) = [outcome |-> "UNIQUE", indices |-> x.witness]
    BY <1>5, <2>3 DEF Verdict, hits
  <2>5. x.ways = 1
    BY <1>2, <1>5, <2>1 DEF _CAP
  <2>6. R[Slot(x)] = {x.witness}
    BY <1>2, <2>1, <2>5 DEF CountsRight
  <2>7. Fitting(in) = {x.witness}
    BY <1>1, <2>2, <2>6
  <2>8. QED
    BY <2>4, <2>7 DEF Means
<1>6. QED
  BY <1>3, <1>4, <1>5

\* So does the answer of the whole search.
LEMMA FoundMeans ==
    ASSUME NEW in \in SearchInput
    PROVE  Means(in, find_unique_subset(in))
<1> DEFINE last == After(in)[Len(in.amounts)]
<1>1. Len(in.amounts) \in 0 .. Len(in.amounts)
  BY DEF SearchInput
<1>2. last.over \in BOOLEAN /\ (~last.over => Counts(last.table, Reached(in, Len(in.amounts))))
  BY <1>1, AfterCounts
<1>3. CASE last.over
  <2>1. find_unique_subset(in) = TOO_COMPLEX
    BY <1>3 DEF find_unique_subset
  <2>2. QED
    BY <2>1 DEF TOO_COMPLEX, Means
<1>4. CASE ~last.over
  <2>1. find_unique_subset(in) = Verdict(in, last.table)
    BY <1>4 DEF find_unique_subset
  <2>2. Counts(last.table, Reached(in, Len(in.amounts)))
    BY <1>2, <1>4
  <2> HIDE DEF last
  <2>3. QED
    BY <2>1, <2>2, VerdictMeans
<1>5. QED
  BY <1>2, <1>3, <1>4

\* find_unique_subset, whatever its arguments, names a subset only if it is the
\* only one that fits, and says NONE or AMBIGUOUS only if none or several do.
THEOREM SearchIsRight ==
    \A in \in SearchInput : Means(in, find_unique_subset(in))
  BY FoundMeans

-----------------------------------------------------------------------------
(* SubsetSearch's steps are the turns of that loop.                        *)

InStep ==
    /\ input \in SearchInput
    /\ index \in 0 .. Len(input.amounts)
    /\ answer = <<>> => After(input)[index] = [table |-> table, over |-> FALSE]
    /\ answer # <<>> => answer[1] = find_unique_subset(input)

\* Every answer of the loop is the right one (SearchAnswersRight).
THEOREM SearchAnswers == SearchSpec => []SearchAnswersRight
<1>1. SearchInit => InStep
  <2> SUFFICES ASSUME SearchInit PROVE InStep
    OBVIOUS
  <2>1. input \in SearchInput /\ index = 0 /\ table = {} /\ answer = <<>>
    BY SearchAssumption DEF SearchInit
  <2>2. After(input)[0] = [table |-> {}, over |-> FALSE]
    BY <2>1, AfterIs DEF Begin
  <2>3. Len(input.amounts) \in Nat
    BY <2>1 DEF SearchInput
  <2>4. QED
    BY <2>1, <2>2, <2>3 DEF InStep
<1>2. InStep /\ [SearchNext]_searchVars => InStep'
  <2> SUFFICES ASSUME InStep, [SearchNext]_searchVars PROVE InStep'
    OBVIOUS
  <2>1. input \in SearchInput /\ Len(input.amounts) \in Nat /\ index \in Nat
    BY DEF InStep, SearchInput
  <2>2. CASE SearchStep
    <3> DEFINE next == AddAmount(input, table, index + 1)
    <3>1. /\ answer = <<>> /\ index < Len(input.amounts) /\ index' = index + 1
          /\ table' = next /\ input' = input
          /\ answer' = IF TooLarge(next) THEN <<TOO_COMPLEX>> ELSE <<>>
      BY <2>2 DEF SearchStep
    <3>2. After(input)[index].table = table /\ After(input)[index].over = FALSE
      BY <3>1 DEF InStep
    <3>3. After(input)[index + 1] = [table |-> next, over |-> TooLarge(next)]
      <4>1. After(input)[index + 1] = Turn(input, After(input)[index], index + 1)
        BY <2>1, <3>1, AfterIs
      <4>2. QED
        BY <3>2, <4>1 DEF Turn
    <3>4. index + 1 \in 0 .. Len(input.amounts)
      BY <2>1, <3>1
    <3>5. CASE TooLarge(next)
      <4>1. After(input)[Len(input.amounts)].over
        BY <2>1, <3>3, <3>4, <3>5, OverStays
      <4>2. find_unique_subset(input) = TOO_COMPLEX
        BY <4>1 DEF find_unique_subset
      <4>3. answer' = <<TOO_COMPLEX>>
        BY <3>1, <3>5
      <4>4. answer' # <<>> /\ answer'[1] = TOO_COMPLEX
        BY <4>3
      <4>5. QED
        BY <2>1, <3>1, <3>4, <4>2, <4>4 DEF InStep
    <3>6. CASE ~TooLarge(next)
      <4>1. answer' = <<>>
        BY <3>1, <3>6
      <4>2. After(input)[index + 1] = [table |-> next, over |-> FALSE]
        <5>1. TooLarge(next) = FALSE
          BY <3>6 DEF TooLarge
        <5> HIDE DEF next
        <5>2. QED
          BY <3>3, <5>1
      <4>3. QED
        BY <2>1, <3>1, <3>4, <4>1, <4>2 DEF InStep
    <3>7. QED
      BY <3>5, <3>6
  <2>3. CASE SearchReturn
    <3>1. /\ answer = <<>> /\ index = Len(input.amounts) /\ answer' = <<Verdict(input, table)>>
          /\ input' = input /\ table' = table /\ index' = index
      BY <2>3 DEF SearchReturn
    <3>2. /\ After(input)[Len(input.amounts)].table = table
          /\ After(input)[Len(input.amounts)].over = FALSE
      BY <3>1 DEF InStep
    <3>3. find_unique_subset(input) = Verdict(input, table)
      BY <3>2 DEF find_unique_subset
    <3>4. answer' # <<>> /\ answer'[1] = find_unique_subset(input)
      BY <3>1, <3>3
    <3>5. QED
      BY <2>1, <3>1, <3>4 DEF InStep
  <2>4. CASE UNCHANGED searchVars
    BY <2>4 DEF searchVars, InStep
  <2>5. QED
    BY <2>2, <2>3, <2>4 DEF SearchNext
<1>3. InStep => SearchAnswersRight
  BY SearchIsRight DEF InStep, SearchAnswersRight, Means
<1>4. QED
  BY <1>1, <1>2, <1>3, PTL DEF SearchSpec
=============================================================================
