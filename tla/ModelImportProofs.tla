-------------------------- MODULE ModelImportProofs --------------------------
(***************************************************************************)
(* The counts of the memory tracker, the layouts of the builder, and what  *)
(* an import makes of a file, for any number of loader threads and any     *)
(* files.  Folds are reasoned about by induction, which the theorem WFMin  *)
(* makes available without an operator as a parameter.                     *)
(***************************************************************************)
EXTENDS ModelImport, TLAPS, FiniteSetTheorems, WellFoundedInduction

\* As long as no two loaders were in operator new at once, the one that is in it has
\* read the count that is still there, and every object was counted.
CountInv ==
  /\ pc \in [Loader -> Steps]
  /\ seen \in [Loader -> SUBSET Nat]
  /\ count \in [Class -> Nat]
  /\ made \in [Class -> Nat]
  /\ raced \in BOOLEAN
  /\ \A l \in Within : \E c \in Class : pc[l] = New(c)
  /\ \/ raced
     \/ /\ count = made
        /\ \A l, k \in Within : l = k
        /\ \A l \in Within, c \in Class : pc[l] = New(c) => seen[l] = {count[c]}

\* The places where a loader is in operator new are different ones and no others.
LEMMA NewIsClass ==
  /\ \A c, d \in Class : New(c) = New(d) => c = d
  /\ \A c \in Class : New(c) \notin {"idle", "node", "mesh", "returned", "overflow"}
  /\ \A c \in Class : New(c) \in Steps /\ After(c) \in Steps
BY DEF Class, New, After, Steps

\* Nothing was made and no loader is in operator new.
LEMMA InitCounts == Init => CountInv
<1>. SUFFICES ASSUME Init PROVE CountInv
  OBVIOUS
<1>1. pc \in [Loader -> Steps] /\ raced = FALSE
  BY DEF Init, Steps
<1>2. seen \in [Loader -> SUBSET Nat] /\ Within = {}
  BY DEF Init, Within
<1>3. count \in [Class -> Nat] /\ made \in [Class -> Nat] /\ count = made
  BY DEF Init
<1>. QED BY <1>1, <1>2, <1>3 DEF CountInv

\* A step outside of operator new is of a loader that has no count in its hands.
LEMMA OtherSteps ==
  ASSUME CountInv, NEW l \in Loader, NEW to \in Steps,
         pc[l] \in {"idle", "node", "mesh"}, pc' = [pc EXCEPT ![l] = to],
         UNCHANGED <<seen, count, made, raced>>
  PROVE  CountInv'
<1>1. l \notin Within
  BY NewIsClass DEF CountInv
<1>2. Within' = Within /\ \A k \in Within : pc'[k] = pc[k]
  BY <1>1 DEF Within, CountInv
<1>. QED BY <1>1, <1>2 DEF CountInv

\* Reading the count: two loaders at it are a race.
LEMMA ReadStep ==
  ASSUME CountInv, NEW l \in Loader, NEW c \in Class, ReadCount(l, c)
  PROVE  CountInv'
<1>1. /\ pc[l] = New(c) /\ seen[l] = {}
      /\ seen' = [seen EXCEPT ![l] = {count[c]}]
      /\ raced' = (raced \/ Within # {})
      /\ UNCHANGED <<pc, count, made>>
  BY DEF ReadCount
<1>2. Within' = Within \cup {l}
  BY <1>1 DEF Within, CountInv
<1>3. seen' \in [Loader -> SUBSET Nat] /\ raced' \in BOOLEAN
  BY <1>1 DEF CountInv
<1>4. \A k \in Within' : \E d \in Class : pc'[k] = New(d)
  BY <1>1, <1>2 DEF CountInv
<1>5. CASE raced'
  BY <1>1, <1>3, <1>4, <1>5 DEF CountInv
<1>6. CASE ~raced'
  <2>1. Within' = {l} /\ ~raced
    BY <1>1, <1>2, <1>6
  <2>2. seen'[l] = {count'[c]}
    BY <1>1 DEF CountInv
  <2>3. \A k \in Within', d \in Class : pc'[k] = New(d) => seen'[k] = {count'[d]}
    BY <1>1, <2>1, <2>2, NewIsClass
  <2>. QED BY <1>1, <1>3, <1>4, <2>1, <2>3 DEF CountInv
<1>. QED BY <1>5, <1>6

\* Writing it back: without a race it is the count of the objects so far.
LEMMA WriteStep ==
  ASSUME CountInv, NEW l \in Loader, NEW c \in Class, WriteCount(l, c)
  PROVE  CountInv'
<1>. DEFINE n == CHOOSE n \in seen[l] : TRUE
<1>1. /\ seen[l] # {} /\ pc[l] = New(c)
      /\ pc' = [pc EXCEPT ![l] = After(c)]
      /\ count' = [count EXCEPT ![c] = n + 1]
      /\ made' = [made EXCEPT ![c] = made[c] + 1]
      /\ seen' = [seen EXCEPT ![l] = {}]
      /\ raced' = raced
  BY DEF WriteCount, Goes, CountUp
<1>2. n \in seen[l] /\ n \in Nat
  BY <1>1 DEF CountInv
<1>. HIDE DEF n
<1>3. /\ pc' \in [Loader -> Steps] /\ seen' \in [Loader -> SUBSET Nat]
      /\ count' \in [Class -> Nat] /\ made' \in [Class -> Nat] /\ raced' \in BOOLEAN
  BY <1>1, <1>2, NewIsClass DEF CountInv
<1>4. Within' = Within \ {l} /\ l \in Within
  BY <1>1 DEF Within, CountInv
<1>5. \A k \in Within' : pc'[k] = pc[k] /\ \E d \in Class : pc'[k] = New(d)
  BY <1>1, <1>4 DEF CountInv, Within
<1>6. CASE raced
  BY <1>1, <1>3, <1>5, <1>6 DEF CountInv
<1>7. CASE ~raced
  <2>1. Within' = {}
    BY <1>4, <1>7 DEF CountInv
  <2>2. seen[l] = {count[c]} /\ count = made
    BY <1>1, <1>4, <1>7 DEF CountInv
  <2>3. n = made[c]
    BY <1>2, <2>2
  <2>4. count' = made'
    BY <1>1, <2>2, <2>3
  <2>. QED BY <1>3, <1>5, <2>1, <2>4 DEF CountInv
<1>. QED BY <1>6, <1>7

\* Every step of every loader keeps the invariant.
LEMMA NextCounts ==
  ASSUME CountInv, [Next]_vars
  PROVE  CountInv'
<1>1. ASSUME NEW l \in Loader, Load(l) PROVE CountInv'
  <2>1. CASE Begin(l)
    <3>1. \E to \in Steps : pc' = [pc EXCEPT ![l] = to]
      BY <2>1 DEF Begin, Goes, Steps
    <3>2. pc[l] = "idle" /\ UNCHANGED <<seen, count, made, raced>>
      BY <2>1 DEF Begin, Goes
    <3>. QED BY <3>1, <3>2, OtherSteps
  <2>2. CASE \E c \in Class : ReadCount(l, c) \/ WriteCount(l, c)
    BY <2>2, ReadStep, WriteStep
  <2>3. CASE NextMesh(l)
    <3>1. pc[l] = "node" /\ pc' = [pc EXCEPT ![l] = "new Mesh"] /\ UNCHANGED <<seen, count, made, raced>>
      BY <2>3 DEF NextMesh, Goes
    <3>. QED BY <3>1, OtherSteps DEF Steps
  <2>4. CASE ProcessMesh(l)
    <3>1. pc[l] = "mesh" /\ pc' = [pc EXCEPT ![l] = "node"] /\ UNCHANGED <<seen, count, made, raced>>
      BY <2>4 DEF ProcessMesh, Goes
    <3>. QED BY <3>1, OtherSteps DEF Steps
  <2>5. CASE Recurses(l)
    <3>1. pc[l] = "node" /\ UNCHANGED <<seen, count, made, raced>>
      BY <2>5 DEF Recurses, LastMesh
    <3>2. pc' = [pc EXCEPT ![l] = "overflow"] \/ pc' = pc
      BY <2>5 DEF Recurses
    <3>3. pc \in [Loader -> Steps]
      BY DEF CountInv
    <3>4. pc' = [pc EXCEPT ![l] = "overflow"] \/ pc' = [pc EXCEPT ![l] = "node"]
      BY <3>1, <3>2, <3>3
    <3>. QED BY <3>1, <3>4, OtherSteps DEF Steps
  <2>6. CASE LoadModelReturns(l)
    <3>1. pc[l] = "node" /\ pc' = [pc EXCEPT ![l] = "returned"] /\ UNCHANGED <<seen, count, made, raced>>
      BY <2>6 DEF LoadModelReturns, LastMesh
    <3>. QED BY <3>1, OtherSteps DEF Steps
  <2>. QED BY <1>1, <2>1, <2>2, <2>3, <2>4, <2>5, <2>6 DEF Load
<1>2. CASE UNCHANGED vars
  BY <1>2 DEF vars, CountInv, Within
<1>. QED BY <1>1, <1>2 DEF Next, Ended

\* The invariant of the counts, for every loader and file.
LEMMA CountInvHolds == Spec => []CountInv
BY InitCounts, NextCounts, PTL DEF Spec

\* The memory tracker counts every object that operator new made, until two loaders
\* are in it at once.
THEOREM CountsStayExact == Spec => []CountsAreExact
<1>1. CountInv => CountsAreExact
  BY DEF CountInv, CountsAreExact
<1>. QED BY <1>1, CountInvHolds, PTL

-----------------------------------------------------------------------------
(***************************************************************************)
(* Induction over numbers and finite sets, and folds.                      *)
(***************************************************************************)

\* A set of numbers has a smallest one.
LEMMA Smallest ==
  ASSUME NEW T \in SUBSET Nat, T # {}
  PROVE  \E n \in T : \A m \in T : n <= m
<1>. DEFINE Less == {p \in Nat \X Nat : p[1] < p[2]}
<1>1. IsWellFoundedOn(Less, Nat)
  BY NatLessThanWellFounded DEF OpToRel
<1>2. \E n \in T : \A m \in T : <<m, n>> \notin Less
  <2>. HIDE DEF Less
  <2>. QED BY <1>1, WFMin
<1>3. \A m, n \in Nat : <<m, n>> \notin Less => n <= m
  OBVIOUS
<1>. QED BY <1>2, <1>3

\* A set of numbers that has 0 and is closed under + 1 has every number.
LEMMA Induct ==
  ASSUME NEW T, 0 \in T, \A n \in Nat : n \in T => n + 1 \in T
  PROVE  Nat \subseteq T
<1>. SUFFICES ASSUME Nat \ T # {} PROVE FALSE
  OBVIOUS
<1>1. PICK n \in Nat \ T : \A m \in Nat \ T : n <= m
  BY Smallest
<1>2. n # 0 /\ n - 1 \in Nat /\ n - 1 \notin Nat \ T
  BY <1>1
<1>3. (n - 1) + 1 \in T
  BY <1>2
<1>. QED BY <1>1, <1>3

\* Finite sets, by their cardinality.
LEMMA InductSets ==
  ASSUME NEW S, IsFiniteSet(S), NEW T,
         {} \in T, 
         \A s \in SUBSET S : s # {} /\ (\A x \in s : s \ {x} \in T) => s \in T
  PROVE  SUBSET S \subseteq T
<1>. DEFINE C == {n \in Nat : \A s \in SUBSET S : Cardinality(s) = n => s \in T}
<1>0. \A s \in SUBSET S : IsFiniteSet(s) /\ Cardinality(s) \in Nat
  BY FS_Subset, FS_CardinalityType
<1>1. 0 \in C
  BY <1>0, FS_EmptySet
<1>2. ASSUME NEW n \in Nat, n \in C PROVE n + 1 \in C
  <2>. SUFFICES ASSUME NEW s \in SUBSET S, Cardinality(s) = n + 1 PROVE s \in T
    OBVIOUS
  <2>1. s # {}
    <3>1. Cardinality({}) = 0
      BY FS_EmptySet
    <3>. QED BY <3>1
  <2>2. ASSUME NEW x \in s PROVE s \ {x} \in T
    <3>1. Cardinality(s \ {x}) = n
      BY <1>0, FS_RemoveElement
    <3>. QED BY <1>2, <3>1
  <2>. QED BY <2>1, <2>2
<1>3. Nat \subseteq C
  <2>. HIDE DEF C
  <2>. QED BY <1>1, <1>2, Induct
<1>. QED BY <1>0, <1>3

\* A fold over the subsets of a finite set: step[<<v, x>>] is the value with x, v the
\* value without x; first[s] is the element of s to take out.
FoldsOver(g, base, S, first, step) ==
  \A s \in SUBSET S : g[s] = IF s = {} THEN base ELSE step[<<g[s \ {first[s]}], first[s]>>]

\* A function that folds over the subsets of a finite set, one element at a time, exists.
LEMMA FoldExists ==
  ASSUME NEW V, NEW base \in V, NEW S, IsFiniteSet(S),
         NEW first \in [(SUBSET S) \ {{}} -> S], \A s \in (SUBSET S) \ {{}} : first[s] \in s,
         NEW step \in [V \X S -> V]
  PROVE  \E g \in [SUBSET S -> V] : FoldsOver(g, base, S, first, step)
<1>. DEFINE Small(n) == {s \in SUBSET S : Cardinality(s) <= n}
            Good(g, n) == \A s \in Small(n) :
              g[s] = IF s = {} THEN base ELSE step[<<g[s \ {first[s]}], first[s]>>]
            C == {n \in Nat : \E g \in [Small(n) -> V] : Good(g, n)}
<1>0. \A s \in SUBSET S : IsFiniteSet(s) /\ Cardinality(s) \in Nat /\ (Cardinality(s) = 0 <=> s = {})
  BY FS_Subset, FS_CardinalityType, FS_EmptySet
<1>1. \A s \in SUBSET S : s # {} =>
        s \ {first[s]} \in SUBSET S /\ Cardinality(s \ {first[s]}) = Cardinality(s) - 1
  BY <1>0, FS_RemoveElement
<1>2. 0 \in C
  <2>1. Small(0) = {{}}
    BY <1>0
  <2>2. [s \in Small(0) |-> base] \in [Small(0) -> V] /\ Good([s \in Small(0) |-> base], 0)
    BY <2>1
  <2>. QED BY <2>2
<1>3. ASSUME NEW n \in Nat, n \in C PROVE n + 1 \in C
  <2>1. PICK g \in [Small(n) -> V] : Good(g, n)
    BY <1>3
  <2>. DEFINE h == [s \in Small(n + 1) |->
                     IF s = {} THEN base ELSE step[<<g[s \ {first[s]}], first[s]>>]]
  <2>2. \A s \in Small(n + 1) : s # {} => s \ {first[s]} \in Small(n) /\ first[s] \in S
    BY <1>0, <1>1
  <2>3. h \in [Small(n + 1) -> V]
    BY <2>2
  <2>4. \A s \in Small(n) : s \in Small(n + 1) /\ h[s] = g[s]
    BY <1>0, <2>1
  <2>5. Good(h, n + 1)
    <3>. SUFFICES ASSUME NEW s \in Small(n + 1)
                  PROVE  h[s] = IF s = {} THEN base ELSE step[<<h[s \ {first[s]}], first[s]>>]
      OBVIOUS
    <3>. HIDE DEF Small
    <3>. QED BY <2>2, <2>4
  <2>. HIDE DEF h, Good, Small
  <2>. QED BY <2>3, <2>5
<1>4. Cardinality(S) \in C
  <2>. HIDE DEF C
  <2>1. Cardinality(S) \in Nat
    BY FS_CardinalityType
  <2>. QED BY <1>2, <1>3, <2>1, Induct
<1>5. Small(Cardinality(S)) = SUBSET S
  BY FS_Subset, <1>0
<1>. QED BY <1>4, <1>5 DEF FoldsOver

\* The largest number of a set.
LEMMA LargestOf ==
  ASSUME NEW n \in Nat
  PROVE  /\ \A s \in SUBSET (1..n) : s # {} => Max(s) \in s
         /\ \A i \in 1..n : Max(1..i) = i
<1>1. \A i \in 1..n : Max(1..i) = i
  <2>. SUFFICES ASSUME NEW i \in 1..n PROVE Max(1..i) = i
    OBVIOUS
  <2>1. i \in 1..i /\ \A y \in 1..i : i >= y
    OBVIOUS
  <2>2. \A x \in 1..i : (\A y \in 1..i : x >= y) => x = i
    BY <2>1
  <2>. QED BY <2>1, <2>2 DEF Max
<1>2. ASSUME NEW s \in SUBSET (1..n), s # {} PROVE Max(s) \in s
  <2>. DEFINE T == {n - x : x \in s}
  <2>1. PICK m \in T : \A k \in T : m <= k
    <3>0. \A x \in s : n - x \in Nat
      BY <1>2
    <3>1. T # {} /\ T \in SUBSET Nat
      BY <1>2, <3>0
    <3>. HIDE DEF T
    <3>. QED BY <3>1, Smallest
  <2>2. PICK x \in s : m = n - x
    OBVIOUS
  <2>3. \A y \in s : x >= y
    <3>. SUFFICES ASSUME NEW y \in s PROVE x >= y
      OBVIOUS
    <3>1. n - x <= n - y
      BY <2>1, <2>2
    <3>2. x \in Int /\ y \in Int
      OBVIOUS
    <3>. HIDE DEF T
    <3>. QED BY <3>1, <3>2
  <2>. QED BY <2>3 DEF Max
<1>. QED BY <1>1, <1>2

\* A prefix of the natural numbers without its last one.
LEMMA Prefix ==
  ASSUME NEW n \in Nat, NEW i \in 1..n
  PROVE  1..i \in SUBSET (1..n) /\ 1..i # {} /\ (1..i) \ {i} = 1..(i - 1)
<1>1. i \in Nat /\ i <= n /\ i \in 1..i
  OBVIOUS
<1>2. \A k \in Int : k \in (1..i) \ {i} <=> k \in 1..(i - 1)
  BY <1>1
<1>3. (1..i) \ {i} = 1..(i - 1)
  BY <1>1, <1>2
<1>4. 1..i \in SUBSET (1..n)
  BY <1>1
<1>. QED BY <1>1, <1>3, <1>4

\* The elements of a sequence over a set belong to it.
LEMMA Elements ==
  ASSUME NEW S, NEW s \in Seq(S)
  PROVE  \A k \in DOMAIN s : s[k] \in S
OBVIOUS

\* FoldLeft(Ask, asked, paths), one path at a time.
LEMMA AskPrefixes ==
  ASSUME NEW asked \in Seq(File), NEW n \in Nat, NEW paths \in [1..n -> File]
  PROVE  \E h : /\ h[0] = asked
                /\ \A i \in 1..n : h[i] = Ask(h[i - 1], paths[i])
                /\ FoldLeft(Ask, asked, paths) = h[n]
<1>. DEFINE D     == 1..n
            first == [s \in (SUBSET D) \ {{}} |-> Max(s)]
            step  == [p \in Seq(File) \X D |-> Ask(p[1], paths[p[2]])]
            Iter  == CHOOSE g : g = [s \in SUBSET D |->
                       IF s = {} THEN asked ELSE Ask(g[s \ {Max(s)}], paths[Max(s)])]
<1>1. step \in [Seq(File) \X D -> Seq(File)]
  BY DEF Ask
<1>2. first \in [(SUBSET D) \ {{}} -> D] /\ \A s \in (SUBSET D) \ {{}} : first[s] \in s
  BY LargestOf
<1>3. PICK g \in [SUBSET D -> Seq(File)] : FoldsOver(g, asked, D, first, step)
  <2>1. IsFiniteSet(D)
    BY FS_Interval
  <2>. HIDE DEF D, first, step
  <2>. QED BY <1>1, <1>2, <2>1, FoldExists
<1>4. g = [s \in SUBSET D |-> IF s = {} THEN asked ELSE Ask(g[s \ {Max(s)}], paths[Max(s)])]
  BY <1>2, <1>3 DEF FoldsOver
<1>5. Iter = [s \in SUBSET D |-> IF s = {} THEN asked ELSE Ask(Iter[s \ {Max(s)}], paths[Max(s)])]
  BY <1>4
<1>6. FoldLeft(Ask, asked, paths) = Iter[D]
  BY DEF FoldLeft, MapThenFoldSet
<1>. HIDE DEF Iter
<1>. DEFINE h == [i \in 0..n |-> Iter[1..i]]
<1>7. h[0] = asked
  BY <1>5
<1>8. ASSUME NEW i \in 1..n PROVE h[i] = Ask(h[i - 1], paths[i])
  <2>1. Max(1..i) = i
    BY LargestOf
  <2>2. 1..i \in SUBSET D /\ 1..i # {} /\ (1..i) \ {i} = 1..(i - 1)
    BY Prefix
  <2>3. Iter[1..i] = Ask(Iter[1..(i - 1)], paths[i])
    BY <1>5, <2>1, <2>2
  <2>. QED BY <2>3
<1>9. h[n] = Iter[D]
  OBVIOUS
<1>. HIDE DEF h
<1>. QED BY <1>6, <1>7, <1>8, <1>9

\* newAssetsToLoad after the textures of a mesh: what was there and they, and nothing
\* twice.
LEMMA AskedOnce ==
  ASSUME NEW asked \in Seq(File), NEW n \in Nat, NEW paths \in [1..n -> File]
  PROVE  LET r == FoldLeft(Ask, asked, paths)
         IN  /\ r \in Seq(File)
             /\ ToSet(asked) \subseteq ToSet(r)
             /\ \A i \in 1..n : paths[i] \in ToSet(r)
             /\ IsInjective(asked) => IsInjective(r)
<1>1. PICK h : /\ h[0] = asked
               /\ \A i \in 1..n : h[i] = Ask(h[i - 1], paths[i])
               /\ FoldLeft(Ask, asked, paths) = h[n]
  BY AskPrefixes
<1>. DEFINE Good(r, i) == /\ r \in Seq(File)
                          /\ ToSet(asked) \subseteq ToSet(r)
                          /\ \A j \in 1..i : paths[j] \in ToSet(r)
                          /\ IsInjective(asked) => IsInjective(r)
            T == {i \in Nat : i <= n => Good(h[i], i)}
<1>2. 0 \in T
  BY <1>1
<1>3. ASSUME NEW i \in Nat, i \in T PROVE i + 1 \in T
  <2>. SUFFICES ASSUME i + 1 <= n PROVE Good(h[i + 1], i + 1)
    OBVIOUS
  <2>. DEFINE r == h[i]
              p == paths[i + 1]
  <2>1. Good(r, i) /\ p \in File /\ h[i + 1] = Ask(r, p)
    BY <1>1, <1>3
  <2>. HIDE DEF r, p
  <2>2. CASE p \in ToSet(r)
    <3>1. h[i + 1] = r
      BY <2>1, <2>2 DEF Ask
    <3>2. \A j \in 1..(i + 1) : j \in 1..i \/ paths[j] = p
      BY DEF p
    <3>. QED BY <2>1, <2>2, <3>1, <3>2
  <2>3. CASE p \notin ToSet(r)
    <3>1. h[i + 1] = Append(r, p)
      BY <2>1, <2>3 DEF Ask
    <3>2. /\ Append(r, p) \in Seq(File)
          /\ DOMAIN Append(r, p) = 1..Len(r) + 1 /\ DOMAIN r = 1..Len(r) /\ Len(r) \in Nat
          /\ Append(r, p)[Len(r) + 1] = p
          /\ \A j \in 1..Len(r) : Append(r, p)[j] = r[j]
      BY <2>1
    <3>3. ToSet(Append(r, p)) = ToSet(r) \cup {p}
      BY <3>2 DEF ToSet
    <3>4. \A j \in 1..(i + 1) : j \in 1..i \/ paths[j] = p
      BY DEF p
    <3>5. IsInjective(r) => IsInjective(Append(r, p))
      <4>. SUFFICES ASSUME IsInjective(r), NEW a \in DOMAIN Append(r, p), NEW b \in DOMAIN Append(r, p),
                           Append(r, p)[a] = Append(r, p)[b]
                    PROVE  a = b
        BY DEF IsInjective
      <4>1. \A j \in 1..Len(r) : r[j] # p
        BY <2>3, <3>2 DEF ToSet
      <4>. QED BY <3>2, <4>1 DEF IsInjective
    <3>. QED BY <2>1, <3>1, <3>2, <3>3, <3>4, <3>5
  <2>. QED BY <2>2, <2>3
<1>4. Good(h[n], n)
  <2>. HIDE DEF Good
  <2>1. n \in T
    <3>. HIDE DEF T
    <3>. QED BY <1>2, <1>3, Induct
  <2>. QED BY <2>1
<1>. QED BY <1>1, <1>4

-----------------------------------------------------------------------------
\* FoldFunctionOnSet with +, over the subsets of a finite set.
Adds(f, S, g) ==
  \A s \in SUBSET S : g[s] \in Nat /\ (s = {} => g[s] = 0)
    /\ \A x \in s : g[s] = f[x] + g[s \ {x}]

\* The fold with + over a finite set of natural numbers adds each of them once.
LEMMA SumOf ==
  ASSUME NEW S, IsFiniteSet(S), NEW f, \A x \in S : f[x] \in Nat
  PROVE  \E g : Adds(f, S, g) /\ FoldFunctionOnSet(+, 0, f, S) = g[S]
<1>. DEFINE first == [s \in (SUBSET S) \ {{}} |-> CHOOSE x \in s : TRUE]
            step  == [p \in Nat \X S |-> f[p[2]] + p[1]]
            Iter  == CHOOSE g : g = [s \in SUBSET S |->
                       IF s = {} THEN 0
                       ELSE f[CHOOSE x \in s : TRUE] + g[s \ {CHOOSE x \in s : TRUE}]]
<1>1. step \in [Nat \X S -> Nat]
  OBVIOUS
<1>2. first \in [(SUBSET S) \ {{}} -> S] /\ \A s \in (SUBSET S) \ {{}} : first[s] \in s
  <2>1. \A s \in (SUBSET S) \ {{}} : (CHOOSE x \in s : TRUE) \in s
    OBVIOUS
  <2>. QED BY <2>1
<1>3. PICK g \in [SUBSET S -> Nat] : FoldsOver(g, 0, S, first, step)
  <2>. HIDE DEF first, step
  <2>. QED BY <1>1, <1>2, FoldExists
<1>4. g = [s \in SUBSET S |->
             IF s = {} THEN 0
             ELSE f[CHOOSE x \in s : TRUE] + g[s \ {CHOOSE x \in s : TRUE}]]
  BY <1>2, <1>3 DEF FoldsOver
<1>5. Iter = [s \in SUBSET S |->
                IF s = {} THEN 0
                ELSE f[CHOOSE x \in s : TRUE] + Iter[s \ {CHOOSE x \in s : TRUE}]]
  BY <1>4
<1>6. FoldFunctionOnSet(+, 0, f, S) = Iter[S]
  BY DEF FoldFunctionOnSet, MapThenFoldSet
<1>. HIDE DEF Iter
<1>. DEFINE T == {s \in SUBSET S : /\ Iter[s] \in Nat
                                   /\ \A x \in s : Iter[s] = f[x] + Iter[s \ {x}] /\ Iter[s \ {x}] \in Nat}
<1>7. {} \in T
  BY <1>5
<1>8. ASSUME NEW s \in SUBSET S, s # {}, \A x \in s : s \ {x} \in T PROVE s \in T
  <2>. DEFINE y == CHOOSE x \in s : TRUE
  <2>1. y \in s /\ Iter[s] = f[y] + Iter[s \ {y}] /\ Iter[s \ {y}] \in Nat
    BY <1>5, <1>8
  <2>. HIDE DEF y
  <2>2. ASSUME NEW x \in s, x # y PROVE Iter[s] = f[x] + Iter[s \ {x}]
    <3>1. Iter[s \ {y}] = f[x] + Iter[(s \ {y}) \ {x}] /\ Iter[(s \ {y}) \ {x}] \in Nat
      BY <1>8, <2>1, <2>2
    <3>2. Iter[s \ {x}] = f[y] + Iter[(s \ {x}) \ {y}]
      BY <1>8, <2>1, <2>2
    <3>3. (s \ {y}) \ {x} = (s \ {x}) \ {y} /\ (s \ {x}) \ {y} \in SUBSET S
      OBVIOUS
    <3>4. f[x] \in Nat /\ f[y] \in Nat
      BY <2>1
    <3>5. Iter[s \ {x}] = f[y] + Iter[(s \ {y}) \ {x}]
      BY <3>2, <3>3
    <3>. QED BY <2>1, <3>1, <3>4, <3>5
  <2>3. Iter[s] \in Nat /\ \A x \in s : Iter[s \ {x}] \in Nat
    BY <1>8, <2>1
  <2>. QED BY <2>1, <2>2, <2>3
<1>9. SUBSET S \subseteq T
  <2>. HIDE DEF T
  <2>. QED BY <1>7, <1>8, InductSets
<1>10. Adds(f, S, Iter)
  BY <1>5, <1>9 DEF Adds
<1>. QED BY <1>6, <1>10

Same(S, f, k) == \A x \in S : f[x] \in Nat /\ k[x] = f[x]

\* Sums of the same numbers are the same.
LEMMA SumsAgree ==
  ASSUME NEW R, NEW S \in SUBSET R, IsFiniteSet(S),
         NEW f, NEW k, Same(S, f, k),
         NEW g, Adds(f, S, g), NEW h, Adds(k, R, h)
  PROVE  g[S] = h[S]
<1>. DEFINE T == {s \in SUBSET S : g[s] = h[s]}
<1>1. {} \in T
  BY DEF Adds
<1>2. ASSUME NEW s \in SUBSET S, s # {}, \A x \in s : s \ {x} \in T PROVE s \in T
  <2>1. PICK x \in s : TRUE
    BY <1>2
  <2>2. s \in SUBSET R /\ g[s \ {x}] = h[s \ {x}] /\ f[x] = k[x]
    BY <1>2 DEF Same
  <2>. QED BY <2>2 DEF Adds
<1>3. SUBSET S \subseteq T
  <2>. HIDE DEF T
  <2>. QED BY <1>1, <1>2, InductSets
<1>. QED BY <1>3

\* The size of the attributes of a layout.
LEMMA SizeOfAttributes ==
  ASSUME NEW n \in Nat, NEW layout, DOMAIN layout = 1..n, \A i \in 1..n : layout[i].size \in Nat
  PROVE  /\ SizeSoFar(layout) \in Nat
         /\ n = 0 => SizeSoFar(layout) = 0
         /\ Stride(layout) = SizeSoFar(layout)
         /\ \A l : n > 0 /\ DOMAIN l = 1..(n - 1) /\ (\A i \in 1..(n - 1) : l[i] = layout[i]) =>
              SizeSoFar(layout) = SizeSoFar(l) + layout[n].size
<1>. DEFINE f == [i \in DOMAIN layout |-> layout[i].size]
<1>1. IsFiniteSet(1..n) /\ \A i \in 1..n : f[i] \in Nat
  BY FS_Interval
<1>2. PICK g : Adds(f, 1..n, g) /\ FoldFunctionOnSet(+, 0, f, 1..n) = g[1..n]
  <2>. HIDE DEF f
  <2>. QED BY <1>1, SumOf
<1>3. SizeSoFar(layout) = g[1..n] /\ Stride(layout) = g[1..n]
  BY <1>2 DEF SizeSoFar, Stride
<1>. HIDE DEF f
<1>4. SizeSoFar(layout) \in Nat /\ (n = 0 => SizeSoFar(layout) = 0)
  <2>1. n = 0 => 1..n = {}
    OBVIOUS
  <2>2. 1..n \in SUBSET (1..n)
    OBVIOUS
  <2>. QED BY <1>2, <1>3, <2>1, <2>2 DEF Adds
<1>5. ASSUME NEW l, n > 0, DOMAIN l = 1..(n - 1), \A i \in 1..(n - 1) : l[i] = layout[i]
      PROVE  SizeSoFar(layout) = SizeSoFar(l) + layout[n].size
  <2>. DEFINE k == [i \in DOMAIN l |-> l[i].size]
              S == 1..(n - 1)
  <2>1. IsFiniteSet(S) /\ \A i \in S : k[i] \in Nat /\ f[i] = k[i]
    <3>1. IsFiniteSet(S)
      <4>1. n - 1 \in Int
        OBVIOUS
      <4>. QED BY <4>1, FS_Interval
    <3>2. \A i \in S : i \in 1..n /\ k[i] = layout[i].size
      BY <1>5
    <3>. QED BY <3>1, <3>2 DEF f
  <2>2. PICK h : Adds(k, S, h) /\ FoldFunctionOnSet(+, 0, k, S) = h[S]
    <3>. HIDE DEF k, S
    <3>. QED BY <2>1, SumOf
  <2>3. SizeSoFar(l) = h[S]
    BY <1>5, <2>2 DEF SizeSoFar
  <2>4. S \subseteq 1..n /\ (1..n) \ {n} = S /\ n \in 1..n /\ f[n] = layout[n].size
    BY <1>5 DEF f
  <2>. HIDE DEF k, S
  <2>5. h[S] = g[S]
    <3>. DEFINE D == 1..n
    <3>1. IsFiniteSet(S) /\ S \in SUBSET D /\ Adds(k, S, h) /\ Adds(f, D, g)
      BY <1>2, <2>1, <2>2, <2>4
    <3>. HIDE DEF D
    <3>2. Same(S, k, f)
      BY <2>1 DEF Same
    <3>. QED BY <3>1, <3>2, SumsAgree
  <2>6. g[1..n] = f[n] + g[S] /\ g[S] \in Nat /\ f[n] \in Nat
    BY <1>1, <1>2, <2>4 DEF Adds
  <2>. QED BY <1>3, <2>3, <2>4, <2>5, <2>6
<1>. QED BY <1>3, <1>4, <1>5

-----------------------------------------------------------------------------
Attribute == [location : Nat, size : Nat, offset : Nat]

\* AddAttribute appends an attribute that begins where the sizes so far end.
LEMMA AddAttributeAppends ==
  ASSUME NEW layout \in Seq(Attribute), NEW size \in Nat
  PROVE  LET next == AddAttribute(layout, size)
             n    == Len(layout)
         IN  /\ next \in Seq(Attribute) /\ Len(next) = n + 1
             /\ \A i \in 1..n : next[i] = layout[i]
             /\ next[n + 1].size = size /\ next[n + 1].offset = SizeSoFar(layout)
             /\ SizeSoFar(next) = SizeSoFar(layout) + size
             /\ SizeSoFar(layout) \in Nat /\ Stride(layout) = SizeSoFar(layout)
             /\ Stride(next) = SizeSoFar(next)
<1>. DEFINE next == AddAttribute(layout, size)
            n == Len(layout)
            a == [location |-> n, size |-> size, offset |-> SizeSoFar(layout)]
<1>1. n \in Nat /\ DOMAIN layout = 1..n /\ \A i \in 1..n : layout[i] \in Attribute
  BY Elements
<1>2. SizeSoFar(layout) \in Nat /\ Stride(layout) = SizeSoFar(layout)
  <2>1. \A i \in 1..n : layout[i].size \in Nat
    BY <1>1 DEF Attribute
  <2>. HIDE DEF n
  <2>. QED BY <1>1, <2>1, SizeOfAttributes
<1>3. a \in Attribute /\ next = Append(layout, a)
  BY <1>1, <1>2 DEF Attribute, AddAttribute
<1>4. /\ next \in Seq(Attribute) /\ Len(next) = n + 1 /\ DOMAIN next = 1..(n + 1)
      /\ \A i \in 1..n : next[i] = layout[i]
      /\ next[n + 1] = a
  <2>. HIDE DEF a, next
  <2>. QED BY <1>3
<1>5. next[n + 1].size = size /\ next[n + 1].offset = SizeSoFar(layout)
  BY <1>4
<1>6. SizeSoFar(next) = SizeSoFar(layout) + size /\ Stride(next) = SizeSoFar(next)
  <2>1. \A i \in 1..(n + 1) : next[i].size \in Nat
    <3>. HIDE DEF next, n, a
    <3>1. \A i \in 1..(n + 1) : i \in 1..n \/ i = n + 1
      BY <1>1
    <3>. QED BY <1>1, <1>4, <1>5, <3>1 DEF Attribute
  <2>. DEFINE m == n + 1
  <2>2. m \in Nat /\ m > 0 /\ DOMAIN next = 1..m /\ \A i \in 1..m : next[i].size \in Nat
    BY <1>1, <1>4, <2>1
  <2>3. DOMAIN layout = 1..(m - 1) /\ \A i \in 1..(m - 1) : layout[i] = next[i]
    BY <1>1, <1>4
  <2>. HIDE DEF next, m
  <2>4. Stride(next) = SizeSoFar(next) /\ SizeSoFar(next) = SizeSoFar(layout) + next[m].size
    BY <2>2, <2>3, SizeOfAttributes
  <2>. QED BY <1>5, <2>4 DEF m
<1>. HIDE DEF next
<1>. QED BY <1>2, <1>4, <1>5, <1>6 DEF next

\* FoldLeft(AddAttribute, <<>>, sizes), one attribute at a time.
LEMMA LayoutPrefixes ==
  ASSUME NEW n \in Nat, NEW sizes \in [1..n -> Nat]
  PROVE  \E h : /\ h[0] = <<>>
                /\ \A i \in 1..n : h[i] = AddAttribute(h[i - 1], sizes[i])
                /\ Layout(sizes) = h[n]
<1>. DEFINE D     == 1..n
            first == [s \in (SUBSET D) \ {{}} |-> Max(s)]
            step  == [p \in Seq(Attribute) \X D |-> AddAttribute(p[1], sizes[p[2]])]
            Iter  == CHOOSE g : g = [s \in SUBSET D |->
                       IF s = {} THEN <<>> ELSE AddAttribute(g[s \ {Max(s)}], sizes[Max(s)])]
<1>1. step \in [Seq(Attribute) \X D -> Seq(Attribute)]
  BY AddAttributeAppends
<1>2. first \in [(SUBSET D) \ {{}} -> D] /\ \A s \in (SUBSET D) \ {{}} : first[s] \in s
  BY LargestOf
<1>3. PICK g \in [SUBSET D -> Seq(Attribute)] : FoldsOver(g, <<>>, D, first, step)
  <2>1. IsFiniteSet(D)
    BY FS_Interval
  <2>2. <<>> \in Seq(Attribute)
    OBVIOUS
  <2>. HIDE DEF D, first, step
  <2>. QED BY <1>1, <1>2, <2>1, <2>2, FoldExists
<1>4. g = [s \in SUBSET D |-> IF s = {} THEN <<>> ELSE AddAttribute(g[s \ {Max(s)}], sizes[Max(s)])]
  BY <1>2, <1>3 DEF FoldsOver
<1>5. Iter = [s \in SUBSET D |-> IF s = {} THEN <<>> ELSE AddAttribute(Iter[s \ {Max(s)}], sizes[Max(s)])]
  BY <1>4
<1>6. Layout(sizes) = Iter[D]
  BY DEF Layout, FoldLeft, MapThenFoldSet
<1>. HIDE DEF Iter
<1>. DEFINE h == [i \in 0..n |-> Iter[1..i]]
<1>7. h[0] = <<>>
  BY <1>5
<1>8. ASSUME NEW i \in 1..n PROVE h[i] = AddAttribute(h[i - 1], sizes[i])
  <2>1. Max(1..i) = i
    BY LargestOf
  <2>2. 1..i \in SUBSET D /\ 1..i # {} /\ (1..i) \ {i} = 1..(i - 1)
    BY Prefix
  <2>3. Iter[1..i] = AddAttribute(Iter[1..(i - 1)], sizes[i])
    BY <1>5, <2>1, <2>2
  <2>. QED BY <2>3
<1>9. h[n] = Iter[D]
  OBVIOUS
<1>. HIDE DEF h
<1>. QED BY <1>6, <1>7, <1>8, <1>9

\* Every layout is packed, for any sizes of attributes: VertexLayoutDataBuilder leaves
\* no gap and no overlap, and its stride is the end of the last attribute.
THEOREM LayoutsArePacked ==
  \A n \in Nat : \A sizes \in [1..n -> Nat] :
    /\ Layout(sizes) \in Seq(Attribute) /\ Len(Layout(sizes)) = n
    /\ \A i \in 1..n : Layout(sizes)[i].size = sizes[i]
    /\ n > 0 => Packed(Layout(sizes))
<1>. SUFFICES ASSUME NEW n \in Nat, NEW sizes \in [1..n -> Nat]
              PROVE  /\ Layout(sizes) \in Seq(Attribute) /\ Len(Layout(sizes)) = n
                     /\ \A i \in 1..n : Layout(sizes)[i].size = sizes[i]
                     /\ n > 0 => Packed(Layout(sizes))
  OBVIOUS
<1>1. PICK h : /\ h[0] = <<>>
               /\ \A i \in 1..n : h[i] = AddAttribute(h[i - 1], sizes[i])
               /\ Layout(sizes) = h[n]
  BY LayoutPrefixes
<1>. DEFINE Good(l, i) == /\ l \in Seq(Attribute) /\ Len(l) = i
                          /\ \A j \in 1..i : l[j].size = sizes[j]
                          /\ i > 0 => Packed(l)
            T == {i \in Nat : i <= n => Good(h[i], i)}
<1>2. 0 \in T
  <2>1. <<>> \in Seq(Attribute) /\ Len(<<>>) = 0
    OBVIOUS
  <2>2. Good(<<>>, 0)
    BY <2>1
  <2>. HIDE DEF Good
  <2>. QED BY <1>1, <2>2
<1>3. ASSUME NEW i \in Nat, i \in T PROVE i + 1 \in T
  <2>. HIDE DEF Good
  <2>. SUFFICES ASSUME i + 1 <= n PROVE Good(h[i + 1], i + 1)
    OBVIOUS
  <2>. USE DEF Good
  <2>. DEFINE l    == h[i]
              next == h[i + 1]
  <2>1. Good(l, i) /\ sizes[i + 1] \in Nat /\ next = AddAttribute(l, sizes[i + 1])
    <3>. HIDE DEF Good
    <3>1. i <= n /\ i + 1 \in 1..n /\ (i + 1) - 1 = i
      OBVIOUS
    <3>. QED BY <1>1, <1>3, <3>1
  <2>. HIDE DEF l, next
  <2>2. /\ next \in Seq(Attribute) /\ Len(next) = i + 1
        /\ \A j \in 1..i : next[j] = l[j]
        /\ next[i + 1].size = sizes[i + 1] /\ next[i + 1].offset = SizeSoFar(l)
        /\ SizeSoFar(next) = SizeSoFar(l) + sizes[i + 1]
        /\ SizeSoFar(l) \in Nat /\ Stride(l) = SizeSoFar(l)
        /\ Stride(next) = SizeSoFar(next)
    BY <2>1, AddAttributeAppends
  <2>3. \A j \in 1..(i + 1) : j \in 1..i \/ j = i + 1
    OBVIOUS
  <2>4. Packed(next)
    <3>1. Stride(next) = next[i + 1].offset + next[i + 1].size
      BY <2>2
    <3>2. CASE i = 0
      <4>1. SizeSoFar(l) = 0
        <5>1. DOMAIN l = 1..0
          BY <2>1, <3>2
        <5>. QED BY <5>1, SizeOfAttributes
      <4>. QED BY <2>2, <3>1, <3>2, <4>1 DEF Packed
    <3>3. CASE i > 0
      <4>1. Packed(l) /\ Len(l) = i
        BY <2>1, <3>3
      <4>2. next[i + 1].offset = l[i].offset + l[i].size
        BY <2>2, <4>1 DEF Packed
      <4>3. next[i] = l[i] /\ next[1] = l[1]
        BY <2>2, <3>3
      <4>4. \A j \in 2..(i + 1) : next[j].offset = next[j - 1].offset + next[j - 1].size
        <5>. SUFFICES ASSUME NEW j \in 2..i PROVE next[j].offset = next[j - 1].offset + next[j - 1].size
          BY <4>2, <4>3
        <5>1. next[j] = l[j] /\ next[j - 1] = l[j - 1]
          BY <2>2
        <5>. QED BY <4>1, <5>1 DEF Packed
      <4>. QED BY <2>2, <3>1, <4>1, <4>3, <4>4 DEF Packed
    <3>. QED BY <3>2, <3>3
  <2>5. \A j \in 1..(i + 1) : next[j].size = sizes[j]
    BY <2>1, <2>2, <2>3
  <2>6. Good(next, i + 1)
    BY <2>2, <2>4, <2>5
  <2>. HIDE DEF Good
  <2>. QED BY <2>6 DEF next
<1>4. Good(h[n], n)
  <2>. HIDE DEF Good
  <2>1. n \in T
    <3>. HIDE DEF T
    <3>. QED BY <1>2, <1>3, Induct
  <2>. QED BY <2>1
<1>. QED BY <1>1, <1>4

-----------------------------------------------------------------------------
(***************************************************************************)
(* What an import makes of a file.                                         *)
(***************************************************************************)
ImportTypes ==
  /\ pc \in [Loader -> Steps]
  /\ file \in [Loader -> File]
  /\ calls \in [Loader -> 0..StackLimit]
  /\ at \in [Loader -> Nat]
  /\ entries \in [Loader -> Seq(Entry)]
  /\ news \in [Loader -> Seq(File)]
  /\ tasks \in [Loader -> Nat]

\* Entries es have the data that their layout describes, and their textures are asked for.
Whole(es, asked) ==
  \A i \in DOMAIN es :
    /\ es[i].floats = Floats(es[i].mesh)
    /\ \A map \in es[i].maps : map[2] \in ToSet(asked)

\* A loader of file f is where f takes it, ...
Place(p, f, a, es) ==
  /\ p \in {"idle", "new ModelAsset"} => a = 1 /\ es = <<>>
  /\ p = "new TextureAsset" => f \in Textures
  /\ p \in {"new ModelAsset", "node", "new Mesh", "mesh"} => f \in Model \ Unreadable
  /\ p \in {"node", "new Mesh", "mesh"} => a \in 1..(Len(MeshesOf[f]) + 1)
  /\ p \in {"new Mesh", "mesh"} => a <= Len(MeshesOf[f])
  /\ p = "overflow" => f \in Model /\ ~NoChildren(f) /\ f \notin Unreadable
  /\ p = "returned" /\ f \in Model \ Unreadable => NoChildren(f)

\* ... and has the entries of the meshes that it has passed: for a node with children,
\* it has them once for every call, and never returns.
Passed(p, f, a, es) ==
  f \in Model \ Unreadable =>
    /\ p \in {"node", "new Mesh", "mesh"} /\ NoChildren(f) => TrianglesUpTo(es, MeshesOf[f], a - 1)
    /\ p = "returned" => TrianglesUpTo(es, MeshesOf[f], Len(MeshesOf[f]))

Sound(p, f, a, es, asked) ==
  Whole(es, asked) /\ IsInjective(asked) /\ Place(p, f, a, es) /\ Passed(p, f, a, es)

ImportInv ==
  /\ ImportTypes
  /\ \A l \in Loader : Sound(pc[l], file[l], at[l], entries[l], news[l])

\* A loader that has not begun has returned nothing.
LEMMA InitImport == Init => ImportInv
<1>. SUFFICES ASSUME Init PROVE ImportInv
  OBVIOUS
<1>. USE ImportAssumption
<1>1. <<>> \in Seq(Entry) /\ <<>> \in Seq(File) /\ DOMAIN <<>> = {}
  OBVIOUS
<1>2. ImportTypes
  BY <1>1 DEF Init, ImportTypes, Steps
<1>3. ASSUME NEW l \in Loader PROVE Sound(pc[l], file[l], at[l], entries[l], news[l])
  <2>1. pc[l] = "idle" /\ at[l] = 1 /\ entries[l] = <<>> /\ news[l] = <<>>
    BY DEF Init
  <2>2. Whole(<<>>, <<>>) /\ IsInjective(<<>>)
    BY <1>1 DEF Whole, IsInjective
  <2>3. Place("idle", file[l], 1, <<>>) /\ Passed("idle", file[l], 1, <<>>)
    BY DEF Place, Passed
  <2>. QED BY <2>1, <2>2, <2>3 DEF Sound
<1>. QED BY <1>2, <1>3 DEF ImportInv

\* A step of loader l to these values.
Typed(p, c, a, es, asked, t) ==
  /\ p \in Steps /\ c \in 0..StackLimit /\ a \in Nat /\ es \in Seq(Entry)
  /\ asked \in Seq(File) /\ t \in Nat

Moves(l, p, c, a, es, asked, t) ==
  /\ pc' = [pc EXCEPT ![l] = p] /\ file' = file /\ calls' = [calls EXCEPT ![l] = c]
  /\ at' = [at EXCEPT ![l] = a] /\ entries' = [entries EXCEPT ![l] = es]
  /\ news' = [news EXCEPT ![l] = asked] /\ tasks' = [tasks EXCEPT ![l] = t]

\* A step of a loader that leaves it in a sound state leaves all of them in one.
LEMMA LoaderStep ==
  ASSUME ImportInv, NEW l \in Loader, NEW p, NEW c, NEW a, NEW es, NEW asked, NEW t,
         Typed(p, c, a, es, asked, t), Sound(p, file[l], a, es, asked),
         Moves(l, p, c, a, es, asked, t)
  PROVE  ImportInv'
<1>. USE DEF Typed, Moves
<1>1. ImportTypes'
  BY DEF ImportInv, ImportTypes
<1>2. ASSUME NEW k \in Loader PROVE Sound(pc'[k], file'[k], at'[k], entries'[k], news'[k])
  <2>1. CASE k = l
    <3>1. pc'[l] = p /\ at'[l] = a /\ entries'[l] = es /\ news'[l] = asked
      BY DEF ImportInv, ImportTypes
    <3>. QED BY <2>1, <3>1
  <2>2. CASE k # l
    <3>1. /\ pc'[k] = pc[k] /\ at'[k] = at[k] /\ entries'[k] = entries[k]
          /\ news'[k] = news[k] /\ Sound(pc[k], file[k], at[k], entries[k], news[k])
      BY <2>2 DEF ImportInv, ImportTypes
    <3>. QED BY <3>1
  <2>. QED BY <2>1, <2>2
<1>. QED BY <1>1, <1>2 DEF ImportInv

\* What the invariant says of one loader.
LEMMA OneLoader ==
  ASSUME ImportInv, NEW l \in Loader
  PROVE  /\ Typed(pc[l], calls[l], at[l], entries[l], news[l], tasks[l]) /\ file[l] \in File
         /\ Sound(pc[l], file[l], at[l], entries[l], news[l])
         /\ pc = [pc EXCEPT ![l] = pc[l]] /\ calls = [calls EXCEPT ![l] = calls[l]]
         /\ at = [at EXCEPT ![l] = at[l]] /\ entries = [entries EXCEPT ![l] = entries[l]]
         /\ news = [news EXCEPT ![l] = news[l]] /\ tasks = [tasks EXCEPT ![l] = tasks[l]]
BY DEF ImportInv, ImportTypes, Typed

\* The meshes of a model are a sequence.
LEMMA ModelMeshes ==
  ASSUME NEW f \in Model
  PROVE  MeshesOf[f] \in Seq(Mesh) /\ Len(MeshesOf[f]) \in Nat /\ DOMAIN MeshesOf[f] = 1..Len(MeshesOf[f])
<1>1. MeshesOf[f] \in Seq(Mesh)
  BY ImportAssumption
<1>. HIDE DEF Model
<1>. QED BY <1>1

\* The steps of a loader, one lemma each: LoadModel and LoadTexture begin,
LEMMA BeginSound == ASSUME ImportInv, NEW l \in Loader, Begin(l) PROVE ImportInv'
<1>. DEFINE p == IF file[l] \in Textures THEN "new TextureAsset"
                 ELSE IF file[l] \in Unreadable THEN "returned" ELSE "new ModelAsset"
<1>1. pc[l] = "idle" /\ pc' = [pc EXCEPT ![l] = p] /\ UNCHANGED local /\ p \in Steps
  BY DEF Begin, Goes, Steps
<1>2. Sound(p, file[l], at[l], entries[l], news[l])
  <2>1. Sound("idle", file[l], at[l], entries[l], news[l]) /\ file[l] \in File
    BY <1>1, OneLoader
  <2>2. Place(p, file[l], at[l], entries[l])
    BY <2>1 DEF Sound, Place, Model
  <2>3. Passed(p, file[l], at[l], entries[l])
    BY ImportAssumption DEF Passed, Model
  <2>. QED BY <2>1, <2>2, <2>3 DEF Sound
<1>3. Moves(l, p, calls[l], at[l], entries[l], news[l], tasks[l])
  BY <1>1, OneLoader DEF Moves, local
<1>4. Typed(p, calls[l], at[l], entries[l], news[l], tasks[l])
  BY <1>1, OneLoader DEF Typed
<1>. QED BY <1>2, <1>3, <1>4, LoaderStep

\* operator new reads the count,
LEMMA ReadSound ==
  ASSUME ImportInv, NEW l \in Loader, NEW c \in Class, ReadCount(l, c) PROVE ImportInv'
BY DEF ReadCount, local, ImportInv, ImportTypes

\* operator new writes the count and the constructor returns,
LEMMA WriteSound ==
  ASSUME ImportInv, NEW l \in Loader, NEW c \in Class, WriteCount(l, c) PROVE ImportInv'
<1>. DEFINE p  == After(c)
            cs == IF c = "ModelAsset" THEN 1 ELSE calls[l]
            t  == IF c = "TextureAsset" THEN 1 ELSE tasks[l]
<1>1. /\ pc[l] = New(c) /\ pc' = [pc EXCEPT ![l] = p] /\ p \in Steps
      /\ UNCHANGED <<file, at, entries, news>>
  BY NewIsClass DEF WriteCount, Goes
<1>2. cs \in 0..StackLimit /\ t \in Nat
  BY OneLoader, ImportAssumption DEF Typed
<1>3. calls' = [calls EXCEPT ![l] = cs] /\ tasks' = [tasks EXCEPT ![l] = t]
  BY OneLoader DEF WriteCount
<1>4. Sound(p, file[l], at[l], entries[l], news[l])
  <2>1. Sound(New(c), file[l], at[l], entries[l], news[l]) /\ file[l] \in File /\ at[l] \in Nat
    BY <1>1, OneLoader DEF Typed
  <2>2. CASE c = "TextureAsset"
    BY <2>1, <2>2 DEF Sound, Place, Passed, Model, New, After
  <2>3. CASE c = "Mesh"
    BY <2>1, <2>3 DEF Sound, Place, Passed, New, After
  <2>4. CASE c = "ModelAsset"
    <3>1. New(c) = "new ModelAsset" /\ p = "node"
      BY <2>4 DEF New, After
    <3>2. at[l] = 1 /\ file[l] \in Model \ Unreadable
      BY <2>1, <3>1 DEF Sound, Place
    <3>3. entries[l] = <<>>
      BY <2>1, <3>1 DEF Sound, Place
    <3>4. Len(MeshesOf[file[l]]) \in Nat
      BY <3>2, ModelMeshes
    <3>5. TrianglesUpTo(<<>>, MeshesOf[file[l]], 0)
      <4>1. <<>> \in [DOMAIN <<>> -> 1..0] /\ DOMAIN <<>> = {} /\ 1..0 = {}
        OBVIOUS
      <4>. QED BY <4>1 DEF TrianglesUpTo
    <3>. HIDE DEF p
    <3>6. Place("node", file[l], at[l], entries[l])
      BY <3>2, <3>4 DEF Place
    <3>7. Passed("node", file[l], at[l], entries[l])
      <4>1. TrianglesUpTo(entries[l], MeshesOf[file[l]], at[l] - 1)
        <5>1. at[l] - 1 = 0
          BY <3>2
        <5>. QED BY <3>5, <3>3, <5>1
      <4>. QED BY <4>1 DEF Passed
    <3>. QED BY <2>1, <3>1, <3>6, <3>7 DEF Sound
  <2>. QED BY <2>2, <2>3, <2>4 DEF Class
<1>5. Moves(l, p, cs, at[l], entries[l], news[l], t)
  <2>. HIDE DEF p, cs, t
  <2>. QED BY <1>1, <1>3, OneLoader DEF Moves
<1>6. Typed(p, cs, at[l], entries[l], news[l], t)
  BY <1>1, <1>2, OneLoader DEF Typed
<1>. QED BY <1>4, <1>5, <1>6, LoaderStep

\* ProcessNode takes its next mesh,
LEMMA NextMeshSound == ASSUME ImportInv, NEW l \in Loader, NextMesh(l) PROVE ImportInv'
<1>1. /\ pc[l] = "node" /\ pc' = [pc EXCEPT ![l] = "new Mesh"] /\ UNCHANGED local
      /\ at[l] <= Len(MeshesOf[file[l]]) /\ "new Mesh" \in Steps
  BY DEF NextMesh, Goes, Steps
<1>2. Sound("new Mesh", file[l], at[l], entries[l], news[l])
  <2>1. Sound("node", file[l], at[l], entries[l], news[l])
    BY <1>1, OneLoader
  <2>. QED BY <1>1, <2>1 DEF Sound, Place, Passed
<1>3. Moves(l, "new Mesh", calls[l], at[l], entries[l], news[l], tasks[l])
  BY <1>1, OneLoader DEF Moves, local
<1>4. Typed("new Mesh", calls[l], at[l], entries[l], news[l], tasks[l])
  BY <1>1, OneLoader DEF Typed
<1>. QED BY <1>2, <1>3, <1>4, LoaderStep

\* ProcessNode calls itself or runs out of stack,
LEMMA RecursesSound == ASSUME ImportInv, NEW l \in Loader, Recurses(l) PROVE ImportInv'
<1>1. /\ pc[l] = "node" /\ ~NoChildren(file[l])
      /\ UNCHANGED <<file, entries, news, tasks>>
  BY DEF Recurses, LastMesh
<1>2. /\ Sound("node", file[l], at[l], entries[l], news[l])
      /\ calls[l] \in 0..StackLimit /\ file[l] \in Model \ Unreadable
  BY <1>1, OneLoader DEF Sound, Place, Typed
<1>3. CASE calls[l] = StackLimit
  <2>1. pc' = [pc EXCEPT ![l] = "overflow"] /\ UNCHANGED <<calls, at>> /\ "overflow" \in Steps
    BY <1>3 DEF Recurses, Steps
  <2>2. Sound("overflow", file[l], at[l], entries[l], news[l])
    BY <1>1, <1>2 DEF Sound, Place, Passed
  <2>3. Moves(l, "overflow", calls[l], at[l], entries[l], news[l], tasks[l])
    BY <1>1, <2>1, OneLoader DEF Moves
  <2>4. Typed("overflow", calls[l], at[l], entries[l], news[l], tasks[l])
    BY <2>1, OneLoader DEF Typed
  <2>. QED BY <2>2, <2>3, <2>4, LoaderStep
<1>4. CASE calls[l] # StackLimit
  <2>1. UNCHANGED pc /\ calls' = [calls EXCEPT ![l] = calls[l] + 1] /\ at' = [at EXCEPT ![l] = 1]
    BY <1>4 DEF Recurses
  <2>2. calls[l] + 1 \in 0..StackLimit /\ 1 \in Nat
    BY <1>2, <1>4, ImportAssumption
  <2>3. Sound("node", file[l], 1, entries[l], news[l])
    <3>1. Len(MeshesOf[file[l]]) \in Nat
      BY <1>2, ModelMeshes
    <3>. QED BY <1>1, <1>2, <3>1 DEF Sound, Place, Passed
  <2>4. Moves(l, "node", calls[l] + 1, 1, entries[l], news[l], tasks[l])
    BY <1>1, <2>1, OneLoader DEF Moves
  <2>5. Typed("node", calls[l] + 1, 1, entries[l], news[l], tasks[l])
    BY <1>1, <2>2, OneLoader DEF Typed
  <2>. QED BY <2>3, <2>4, <2>5, LoaderStep
<1>. QED BY <1>3, <1>4

\* LoadModel returns what it has,
LEMMA ReturnSound == ASSUME ImportInv, NEW l \in Loader, LoadModelReturns(l) PROVE ImportInv'
<1>. DEFINE n == Len(MeshesOf[file[l]])
            t == Len(entries[l])
<1>1. /\ pc[l] = "node" /\ at[l] > n /\ NoChildren(file[l])
      /\ pc' = [pc EXCEPT ![l] = "returned"] /\ "returned" \in Steps
      /\ calls' = [calls EXCEPT ![l] = 0] /\ tasks' = [tasks EXCEPT ![l] = t]
      /\ UNCHANGED <<file, at, entries, news>>
  BY DEF LoadModelReturns, LastMesh, Steps
<1>2. t \in Nat /\ 0 \in 0..StackLimit
  <2>1. entries[l] \in Seq(Entry)
    BY OneLoader DEF Typed
  <2>. QED BY <2>1, ImportAssumption
<1>3. Sound("returned", file[l], at[l], entries[l], news[l])
  <2>1. Sound("node", file[l], at[l], entries[l], news[l]) /\ at[l] \in Nat
    BY <1>1, OneLoader DEF Typed
  <2>2. file[l] \in Model \ Unreadable /\ at[l] \in 1..(n + 1)
    BY <2>1 DEF Sound, Place
  <2>3. at[l] - 1 = n
    <3>1. n \in Nat
      BY <2>2, ModelMeshes
    <3>. QED BY <1>1, <2>2, <3>1
  <2>4. TrianglesUpTo(entries[l], MeshesOf[file[l]], n)
    BY <1>1, <2>1, <2>2, <2>3 DEF Sound, Passed
  <2>5. Place("returned", file[l], at[l], entries[l])
    BY <1>1 DEF Place
  <2>6. Passed("returned", file[l], at[l], entries[l])
    BY <2>4 DEF Passed
  <2>. QED BY <2>1, <2>5, <2>6 DEF Sound
<1>4. Moves(l, "returned", 0, at[l], entries[l], news[l], t)
  BY <1>1, OneLoader DEF Moves
<1>5. Typed("returned", 0, at[l], entries[l], news[l], t)
  BY <1>1, <1>2, OneLoader DEF Typed
<1>. QED BY <1>3, <1>4, <1>5, LoaderStep

\* The entries after one more mesh.
LEMMA NextTriangles ==
  ASSUME NEW es \in Seq(Entry), NEW meshes \in Seq(Mesh), NEW a \in 1..Len(meshes),
         TrianglesUpTo(es, meshes, a - 1)
  PROVE  /\ ~Triangles(meshes[a]) => TrianglesUpTo(es, meshes, a)
         /\ \A e \in Entry : Triangles(meshes[a]) /\ e.mesh = meshes[a] =>
              TrianglesUpTo(Append(es, e), meshes, a)
<1>. DEFINE n == Len(es)
<1>1. n \in Nat /\ DOMAIN es = 1..n
  OBVIOUS
<1>. HIDE DEF n
<1>. DEFINE Positions(pos, s, k) ==
              /\ \A i, j \in DOMAIN s : i < j => pos[i] < pos[j]
              /\ \A x \in 1..k : meshes[x] \notin Lines <=> \E i \in DOMAIN s : pos[i] = x
              /\ \A i \in DOMAIN s : s[i].mesh = meshes[pos[i]]
<1>0. \A s, k : TrianglesUpTo(s, meshes, k) <=> \E pos \in [DOMAIN s -> 1..k] : Positions(pos, s, k)
  BY DEF TrianglesUpTo
<1>2. PICK pos \in [1..n -> 1..(a - 1)] : Positions(pos, es, a - 1)
  <2>. HIDE DEF Positions
  <2>. QED BY <1>0, <1>1
<1>3. a \in Nat /\ \A k \in 1..a : k \in 1..(a - 1) \/ k = a
  OBVIOUS
<1>4. \A i \in 1..n : pos[i] \in 1..a /\ pos[i] # a /\ pos[i] < a
  BY <1>2
<1>5. ASSUME ~Triangles(meshes[a]) PROVE TrianglesUpTo(es, meshes, a)
  <2>1. pos \in [1..n -> 1..a]
    BY <1>4
  <2>2. ASSUME NEW k \in 1..a PROVE meshes[k] \notin Lines <=> \E i \in 1..n : pos[i] = k
    BY <1>1, <1>2, <1>3, <1>4, <1>5 DEF Triangles
  <2>3. Positions(pos, es, a)
    BY <1>1, <1>2, <2>2
  <2>. HIDE DEF Positions
  <2>. QED BY <1>0, <1>1, <2>1, <2>3
<1>6. ASSUME NEW e \in Entry, Triangles(meshes[a]), e.mesh = meshes[a]
      PROVE  TrianglesUpTo(Append(es, e), meshes, a)
  <2>. DEFINE next == Append(es, e)
              more == [i \in 1..(n + 1) |-> IF i = n + 1 THEN a ELSE pos[i]]
  <2>1. DOMAIN next = 1..(n + 1) /\ next[n + 1] = e /\ \A i \in 1..n : next[i] = es[i]
    BY <1>1 DEF n
  <2>. HIDE DEF next
  <2>2. \A i \in 1..(n + 1) : i \in 1..n \/ i = n + 1
    BY <1>1
  <2>3. more \in [1..(n + 1) -> 1..a]
    BY <1>1, <1>3, <1>4, <2>2
  <2>4. n + 1 \in 1..(n + 1) /\ more[n + 1] = a /\ \A i \in 1..n : i \in 1..(n + 1) /\ more[i] = pos[i]
    BY <1>1
  <2>. HIDE DEF more
  <2>5. \A i, j \in 1..(n + 1) : i < j => more[i] < more[j]
    <3>. SUFFICES ASSUME NEW i \in 1..(n + 1), NEW j \in 1..(n + 1), i < j PROVE more[i] < more[j]
      OBVIOUS
    <3>1. i \in 1..n
      BY <1>1
    <3>2. CASE j = n + 1
      BY <1>4, <2>4, <3>1, <3>2
    <3>3. CASE j \in 1..n
      BY <1>1, <1>2, <2>4, <3>1, <3>3
    <3>. QED BY <2>2, <3>2, <3>3
  <2>6. ASSUME NEW k \in 1..a PROVE meshes[k] \notin Lines <=> \E i \in 1..(n + 1) : more[i] = k
    <3>1. CASE k = a
      BY <1>6, <2>4, <3>1 DEF Triangles
    <3>2. CASE k \in 1..(a - 1)
      <4>1. k # a
        BY <3>2
      <4>. QED BY <1>1, <1>2, <2>2, <2>4, <3>2, <4>1
    <3>. QED BY <1>3, <3>1, <3>2
  <2>7. \A i \in 1..(n + 1) : next[i].mesh = meshes[more[i]]
    BY <1>1, <1>2, <1>6, <2>1, <2>2, <2>4
  <2>8. Positions(more, next, a)
    BY <2>1, <2>5, <2>6, <2>7
  <2>. HIDE DEF Positions
  <2>. QED BY <1>0, <2>1, <2>3, <2>8 DEF next
<1>. QED BY <1>5, <1>6

\* The textures of a mesh, and its entry.
LEMMA MeshData ==
  ASSUME NEW m \in Mesh
  PROVE  /\ Len(MapsOf[m]) \in Nat /\ Paths(m) \in [1..Len(MapsOf[m]) -> File]
         /\ Floats(m) \in Nat /\ Maps(m) \in SUBSET (MapType \X Textures)
         /\ \A map \in Maps(m) : \E i \in 1..Len(MapsOf[m]) : map[2] = Paths(m)[i]
<1>. DEFINE props == MapsOf[m]
            n == Len(props)
<1>1. props \in Seq(MapType \X Textures)
  BY ImportAssumption
<1>2. n \in Nat /\ DOMAIN props = 1..n /\ \A i \in 1..n : props[i] \in MapType \X Textures
  <2>. HIDE DEF props
  <2>. QED BY <1>1, Elements
<1>. HIDE DEF n
<1>3. Paths(m) \in [1..n -> File]
  BY <1>2, ImportAssumption DEF Paths
<1>4. Floats(m) \in Nat
  BY ImportAssumption DEF Floats
<1>5. ASSUME NEW map \in Maps(m) PROVE map \in MapType \X Textures /\ \E i \in 1..n : map[2] = Paths(m)[i]
  BY <1>2 DEF Maps, Paths
<1>. QED BY <1>2, <1>3, <1>4, <1>5 DEF n

\* ProcessMesh adds an entry for a mesh of triangles and asks for its textures.
LEMMA MeshSound == ASSUME ImportInv, NEW l \in Loader, ProcessMesh(l) PROVE ImportInv'
<1>. DEFINE meshes == MeshesOf[file[l]]
            a == at[l]
            m == meshes[a]
            e == [mesh |-> m, layout |-> MeshLayout, floats |-> Floats(m), maps |-> Maps(m)]
            es == IF Triangles(m) THEN Append(entries[l], e) ELSE entries[l]
            asked == IF Triangles(m) THEN FoldLeft(Ask, news[l], Paths(m)) ELSE news[l]
<1>1. /\ pc[l] = "mesh" /\ pc' = [pc EXCEPT ![l] = "node"] /\ "node" \in Steps
      /\ at' = [at EXCEPT ![l] = a + 1] /\ UNCHANGED <<file, calls, tasks>>
      /\ entries' = [entries EXCEPT ![l] = es] /\ news' = [news EXCEPT ![l] = asked]
  BY OneLoader DEF ProcessMesh, Goes, Steps
<1>2. /\ Sound("mesh", file[l], a, entries[l], news[l])
      /\ entries[l] \in Seq(Entry) /\ news[l] \in Seq(File) /\ a \in Nat
  BY <1>1, OneLoader DEF Typed
<1>3. file[l] \in Model \ Unreadable /\ a \in 1..Len(meshes) /\ meshes \in Seq(Mesh)
  <2>1. file[l] \in Model \ Unreadable /\ a \in 1..(Len(meshes) + 1) /\ a <= Len(meshes)
    BY <1>2 DEF Sound, Place
  <2>. QED BY <2>1, ModelMeshes
<1>4. m \in Mesh
  <2>. HIDE DEF meshes, a
  <2>. QED BY <1>3, Elements
<1>. HIDE DEF meshes, a, m
<1>5. e \in Entry
  BY <1>4, MeshData DEF Entry
<1>6. /\ asked \in Seq(File) /\ ToSet(news[l]) \subseteq ToSet(asked) /\ IsInjective(asked)
      /\ Triangles(m) => \A map \in Maps(m) : map[2] \in ToSet(asked)
  <2>0. IsInjective(news[l])
    BY <1>2 DEF Sound
  <2>1. CASE Triangles(m)
    <3>. DEFINE n == Len(MapsOf[m])
                paths == Paths(m)
                r == FoldLeft(Ask, news[l], paths)
    <3>1. /\ n \in Nat /\ paths \in [1..n -> File]
          /\ \A map \in Maps(m) : \E i \in 1..n : map[2] = paths[i]
      BY <1>4, MeshData
    <3>. HIDE DEF n, paths
    <3>2. /\ r \in Seq(File) /\ ToSet(news[l]) \subseteq ToSet(r)
          /\ \A i \in 1..n : paths[i] \in ToSet(r)
          /\ IsInjective(news[l]) => IsInjective(r)
      BY <1>2, <3>1, AskedOnce
    <3>3. asked = r
      BY <2>1 DEF paths
    <3>. HIDE DEF asked, r
    <3>. QED BY <2>0, <3>1, <3>2, <3>3
  <2>2. CASE ~Triangles(m)
    BY <1>2, <2>0, <2>2
  <2>. QED BY <2>1, <2>2
<1>7. es \in Seq(Entry)
  <2>. HIDE DEF e
  <2>. QED BY <1>2, <1>5
<1>8. Whole(es, asked)
  <2>1. Whole(entries[l], asked)
    BY <1>2, <1>6 DEF Sound, Whole
  <2>2. CASE Triangles(m)
    <3>1. e.floats = Floats(e.mesh) /\ \A map \in e.maps : map[2] \in ToSet(asked)
      BY <1>6, <2>2
    <3>. HIDE DEF e, asked
    <3>2. /\ es = Append(entries[l], e) /\ Len(entries[l]) \in Nat
          /\ DOMAIN entries[l] = 1..Len(entries[l]) /\ DOMAIN es = 1..(Len(entries[l]) + 1)
          /\ es[Len(entries[l]) + 1] = e /\ \A i \in 1..Len(entries[l]) : es[i] = entries[l][i]
      BY <1>2, <1>5, <2>2
    <3>. HIDE DEF es
    <3>. DEFINE n == Len(entries[l])
    <3>3. n \in Nat /\ \A i \in 1..(n + 1) : i \in 1..n \/ i = n + 1
      BY <3>2
    <3>. QED BY <2>1, <3>1, <3>2, <3>3 DEF Whole
  <2>3. CASE ~Triangles(m)
    BY <2>1, <2>3
  <2>. QED BY <2>2, <2>3
<1>9. Place("node", file[l], a + 1, es)
  <2>1. Len(meshes) \in Nat
    BY <1>3
  <2>. HIDE DEF es
  <2>. QED BY <1>3, <2>1 DEF Place, meshes
<1>10. Passed("node", file[l], a + 1, es)
  <2>. SUFFICES ASSUME NoChildren(file[l]) PROVE TrianglesUpTo(es, meshes, (a + 1) - 1)
    BY DEF Passed, meshes
  <2>1. TrianglesUpTo(entries[l], meshes, a - 1)
    BY <1>2, <1>3 DEF Sound, Passed, meshes
  <2>2. e.mesh = meshes[a] /\ (a + 1) - 1 = a
    BY <1>2 DEF m
  <2>. HIDE DEF e
  <2>3. TrianglesUpTo(es, meshes, a)
    BY <1>2, <1>3, <1>5, <2>1, <2>2, NextTriangles DEF m
  <2>. QED BY <2>2, <2>3
<1>11. Sound("node", file[l], a + 1, es, asked)
  BY <1>6, <1>8, <1>9, <1>10 DEF Sound
<1>12. Moves(l, "node", calls[l], a + 1, es, asked, tasks[l])
  <2>. HIDE DEF es, asked
  <2>. QED BY <1>1, OneLoader DEF Moves
<1>13. Typed("node", calls[l], a + 1, es, asked, tasks[l])
  <2>. HIDE DEF es, asked
  <2>. QED BY <1>1, <1>2, <1>6, <1>7, OneLoader DEF Typed
<1>. HIDE DEF es, asked
<1>. QED BY <1>11, <1>12, <1>13, LoaderStep

\* Every step keeps the invariant of the import.
LEMMA NextImport == ImportInv /\ [Next]_vars => ImportInv'
<1>. SUFFICES ASSUME ImportInv, [Next]_vars PROVE ImportInv'
  OBVIOUS
<1>1. CASE UNCHANGED vars
  BY <1>1 DEF vars, local, ImportInv, ImportTypes
<1>2. CASE Ended
  BY <1>2 DEF Ended, vars, local, ImportInv, ImportTypes
<1>3. CASE \E l \in Loader : Load(l)
  BY <1>3, BeginSound, ReadSound, WriteSound, NextMeshSound, MeshSound, RecursesSound,
     ReturnSound DEF Load
<1>. QED BY <1>1, <1>2, <1>3 DEF Next

\* The invariant of the import, for every loader and file.
LEMMA ImportInvHolds == Spec => []ImportInv
BY InitImport, NextImport, PTL DEF Spec

\* Types of the loaders and of what they return.
THEOREM ImportTypesHold == Spec => []TypeOK
<1>1. CountInv /\ ImportInv => TypeOK
  BY DEF CountInv, ImportInv, ImportTypes, TypeOK
<1>. QED BY <1>1, CountInvHolds, ImportInvHolds, PTL

\* ProcessMesh: when LoadModel returns, entry i is the i-th mesh of triangles, whatever
\* models and loaders there are.
THEOREM EntriesStayTriangleMeshes == Spec => []EntriesAreTriangleMeshes
<1>1. ImportInv => EntriesAreTriangleMeshes
  BY DEF ImportInv, Sound, Passed, EntriesAreTriangleMeshes, Returned
<1>. QED BY <1>1, ImportInvHolds, PTL

\* Every texture of an entry is in newAssetsToLoad.
THEOREM TexturesStayRequested == Spec => []TexturesAreRequested
<1>1. ImportInv => TexturesAreRequested
  BY DEF ImportInv, Sound, Whole, TexturesAreRequested
<1>. QED BY <1>1, ImportInvHolds, PTL

\* newAssetsToLoad has no texture twice.
THEOREM RequestsStayDistinct == Spec => []RequestsAreDistinct
<1>1. ImportInv => RequestsAreDistinct
  BY DEF ImportInv, Sound, RequestsAreDistinct
<1>. QED BY <1>1, ImportInvHolds, PTL

\* Three attributes, one after the other.
LEMMA MeshLayoutFits == Packed(MeshLayout) /\ Stride(MeshLayout) = 32
<1>. DEFINE sizes == <<12, 12, 8>>
<1>1. 3 \in Nat /\ sizes \in [1..3 -> Nat] /\ sizes[1] = 12 /\ sizes[2] = 12 /\ sizes[3] = 8
  OBVIOUS
<1>2. MeshLayout = Layout(sizes)
  BY DEF MeshLayout
<1>. HIDE DEF sizes
<1>3. Packed(MeshLayout)
  <2>1. \A n \in Nat : \A k \in [1..n -> Nat] : n > 0 => Packed(Layout(k))
    BY LayoutsArePacked
  <2>2. Packed(Layout(sizes))
    <3>. DEFINE n == 3
    <3>1. n \in Nat /\ sizes \in [1..n -> Nat] /\ n > 0
      BY <1>1
    <3>. HIDE DEF n
    <3>. QED BY <2>1, <3>1
  <2>. QED BY <1>2, <2>2
<1>4. PICK h : /\ h[0] = <<>>
               /\ \A i \in 1..3 : h[i] = AddAttribute(h[i - 1], sizes[i])
               /\ Layout(sizes) = h[3]
  BY <1>1, LayoutPrefixes
<1>5. h[1] = AddAttribute(h[0], 12) /\ h[2] = AddAttribute(h[1], 12) /\ h[3] = AddAttribute(h[2], 8)
  BY <1>1, <1>4
<1>6. h[0] \in Seq(Attribute) /\ SizeSoFar(h[0]) = 0
  <2>1. DOMAIN <<>> = 1..0 /\ <<>> \in Seq(Attribute)
    OBVIOUS
  <2>. QED BY <1>4, <2>1, SizeOfAttributes
<1>7. h[1] \in Seq(Attribute) /\ SizeSoFar(h[1]) = 12
  BY <1>5, <1>6, AddAttributeAppends
<1>8. h[2] \in Seq(Attribute) /\ SizeSoFar(h[2]) = 24
  BY <1>5, <1>7, AddAttributeAppends
<1>9. SizeSoFar(h[3]) = 32 /\ Stride(h[3]) = SizeSoFar(h[3])
  BY <1>5, <1>8, AddAttributeAppends
<1>. QED BY <1>2, <1>3, <1>4, <1>9

\* The vertex data of an entry is what its layout describes, for meshes of any size.
THEOREM VertexDataStaysFitting == Spec => []VertexDataFitsLayout
<1>1. ASSUME ImportInv, NEW l \in Loader, NEW i \in DOMAIN entries[l]
      PROVE  LET e == entries[l][i]
             IN  /\ Packed(e.layout)
                 /\ 4 * e.floats = IF e.mesh \in Bare THEN 0 ELSE Stride(e.layout) * Vertices[e.mesh]
  <2>. DEFINE e == entries[l][i]
              v == Vertices[e.mesh]
  <2>1. e \in Entry
    <3>1. entries[l] \in Seq(Entry)
      BY <1>1 DEF ImportInv, ImportTypes
    <3>. QED BY <3>1, Elements
  <2>2. e.floats = Floats(e.mesh)
    BY <1>1 DEF ImportInv, Sound, Whole
  <2>. HIDE DEF e
  <2>3. e.layout = MeshLayout /\ e.mesh \in Mesh
    BY <2>1 DEF Entry
  <2>4. v \in Nat
    BY <2>3, ImportAssumption
  <2>5. 4 * e.floats = IF e.mesh \in Bare THEN 0 ELSE 32 * v
    <3>. HIDE DEF v
    <3>. QED BY <2>2, <2>4 DEF Floats, v
  <2>6. 4 * e.floats = IF e.mesh \in Bare THEN 0 ELSE Stride(e.layout) * v
    BY <2>3, <2>5, MeshLayoutFits
  <2>. QED BY <2>3, <2>6, MeshLayoutFits DEF e
<1>2. ImportInv => VertexDataFitsLayout
  BY <1>1 DEF VertexDataFitsLayout
<1>. QED BY <1>2, ImportInvHolds, PTL

-----------------------------------------------------------------------------
(***************************************************************************)
(* An import of a model without children is bounded work.                  *)
(***************************************************************************)

\* The load of a model whose root node has children never returns: ProcessNode calls
\* itself with the same node until the stack overflows.  Every other load does not
\* overflow.
THEOREM ReturnsExactlyFlatImports ==
  Spec => [](\A l \in Loader : /\ Flat(file[l]) => pc[l] # "overflow"
                               /\ pc[l] = "returned" => Flat(file[l]))
<1>1. ImportInv => \A l \in Loader : /\ Flat(file[l]) => pc[l] # "overflow"
                                     /\ pc[l] = "returned" => Flat(file[l])
  BY DEF ImportInv, ImportTypes, Sound, Place, Flat, NoChildren, Model
<1>. QED BY <1>1, ImportInvHolds, PTL

Rounds(f, a) == (Len(MeshesOf[f]) + 1) - a

\* An upper bound of the steps that a loader has left: four for every mesh.
StepsLeft(p, f, a, s) ==
  CASE p = "idle"             -> IF f \in Model THEN 4 * Len(MeshesOf[f]) + 4 ELSE 3
    [] p = "new TextureAsset" -> IF s = {} THEN 2 ELSE 1
    [] p = "new ModelAsset"   -> 4 * Len(MeshesOf[f]) + (IF s = {} THEN 3 ELSE 2)
    [] p = "node"             -> 4 * Rounds(f, a) + 1
    [] p = "new Mesh"         -> 4 * Rounds(f, a) - (IF s = {} THEN 0 ELSE 1)
    [] p = "mesh"             -> 4 * Rounds(f, a) - 2
    [] OTHER                  -> 0

Left(l) == StepsLeft(pc[l], file[l], at[l], seen[l])

Progress(l) == Flat(file[l]) /\ Load(l) => Left(l)' \in Nat /\ Left(l)' < Left(l)

\* A round of the loop over the meshes takes one off.
LEMMA RoundsLeft ==
  ASSUME NEW f \in Model, NEW a \in 1..(Len(MeshesOf[f]) + 1)
  PROVE  /\ Rounds(f, a) \in Nat /\ (a <= Len(MeshesOf[f]) => Rounds(f, a) > 0)
         /\ a <= Len(MeshesOf[f]) => Rounds(f, a + 1) = Rounds(f, a) - 1
BY ModelMeshes DEF Rounds

\* Each step of a loader at work on a flat file leaves fewer steps.
LEMMA LoadProgresses ==
  ASSUME ImportInv, CountInv, NEW l \in Loader, Flat(file[l]), Load(l)
  PROVE  Left(l)' \in Nat /\ Left(l)' < Left(l)
<1>. DEFINE f == file[l]
            n == Len(MeshesOf[f])
<1>1. /\ f \in File /\ at[l] \in Nat /\ (f \in Model => n \in Nat)
      /\ Place(pc[l], f, at[l], entries[l]) /\ seen \in [Loader -> SUBSET Nat]
      /\ pc \in [Loader -> Steps] /\ at \in [Loader -> Nat]
  BY OneLoader, ModelMeshes DEF ImportInv, ImportTypes, CountInv, Sound, Typed
<1>. DEFINE k == Rounds(f, at[l])
<1>2. /\ pc[l] \in {"node", "new Mesh", "mesh"} => k \in Nat
      /\ pc[l] \in {"new Mesh", "mesh"} => k > 0
      /\ pc[l] \in {"node", "new Mesh", "mesh"} /\ at[l] <= n => k > 0 /\ Rounds(f, at[l] + 1) = k - 1
  BY <1>1, RoundsLeft DEF Place
<1>3. CASE Begin(l)
  <2>1. /\ pc[l] = "idle" /\ file'[l] = f /\ at'[l] = 1 /\ seen'[l] = seen[l]
        /\ pc'[l] = IF f \in Textures THEN "new TextureAsset"
                    ELSE IF f \in Unreadable THEN "returned" ELSE "new ModelAsset"
        /\ (f \in Model <=> f \notin Textures)
    BY <1>1, <1>3 DEF Begin, Goes, local, Place, Model
  <2>. HIDE DEF f, n
  <2>2. CASE f \in Textures
    <3>1. /\ Left(l) = StepsLeft("idle", f, at[l], seen[l])
          /\ Left(l)' = StepsLeft("new TextureAsset", f, 1, seen'[l])
      BY <2>1, <2>2 DEF Left, f
    <3>2. f \notin Model
      BY <2>1, <2>2
    <3>3. Left(l) = 3 /\ (Left(l)' = 2 \/ Left(l)' = 1)
      BY <3>1, <3>2 DEF StepsLeft
    <3>. QED BY <3>3
  <2>3. CASE f \notin Textures
    <3>1. Left(l) = 4 * n + 4 /\ n \in Nat
      BY <1>1, <2>1, <2>3 DEF Left, StepsLeft, f, n
    <3>2. Left(l)' = 0 \/ Left(l)' = 4 * n + 3 \/ Left(l)' = 4 * n + 2
      BY <2>1, <2>3 DEF Left, StepsLeft, n
    <3>. QED BY <3>1, <3>2
  <2>. QED BY <2>2, <2>3
<1>4. ASSUME NEW c \in Class, ReadCount(l, c) PROVE Left(l)' \in Nat /\ Left(l)' < Left(l)
  <2>1. /\ pc[l] = New(c) /\ pc'[l] = pc[l] /\ file'[l] = f /\ at'[l] = at[l]
        /\ seen[l] = {} /\ seen'[l] # {}
    BY <1>1, <1>4 DEF ReadCount, local
  <2>2. CASE c = "TextureAsset"
    <3>1. pc[l] = "new TextureAsset"
      BY <2>1, <2>2 DEF New
    <3>2. /\ Left(l) = StepsLeft("new TextureAsset", f, at[l], seen[l])
          /\ Left(l)' = StepsLeft("new TextureAsset", f, at[l], seen'[l])
      BY <2>1, <3>1 DEF Left
    <3>3. Left(l) = 2 /\ Left(l)' = 1
      BY <2>1, <3>2 DEF StepsLeft
    <3>. QED BY <3>3
  <2>3. CASE c = "ModelAsset"
    <3>1. n \in Nat
      BY <1>1, <2>1, <2>3 DEF Place, New
    <3>2. Left(l) = 4 * n + 3 /\ Left(l)' = 4 * n + 2
      BY <2>1, <2>3 DEF Left, StepsLeft, New
    <3>. QED BY <3>1, <3>2
  <2>4. CASE c = "Mesh"
    <3>1. pc[l] = "new Mesh"
      BY <2>1, <2>4 DEF New
    <3>2. k \in Nat /\ k > 0
      BY <1>2, <3>1
    <3>3. /\ Left(l) = StepsLeft("new Mesh", f, at[l], seen[l])
          /\ Left(l)' = StepsLeft("new Mesh", f, at[l], seen'[l])
      BY <2>1, <3>1 DEF Left
    <3>4. Left(l) = 4 * k - 0 /\ Left(l)' = 4 * k - 1
      BY <2>1, <3>3 DEF StepsLeft
    <3>. HIDE DEF k
    <3>. QED BY <3>2, <3>4
  <2>. QED BY <2>2, <2>3, <2>4 DEF Class
<1>5. ASSUME NEW c \in Class, WriteCount(l, c) PROVE Left(l)' \in Nat /\ Left(l)' < Left(l)
  <2>1. /\ pc[l] = New(c) /\ pc'[l] = After(c) /\ file'[l] = f /\ at'[l] = at[l] /\ seen[l] # {}
    BY <1>1, <1>5 DEF WriteCount, Goes
  <2>2. CASE c = "TextureAsset"
    <3>1. pc[l] = "new TextureAsset" /\ pc'[l] = "returned"
      BY <2>1, <2>2 DEF New, After
    <3>2. /\ Left(l) = StepsLeft("new TextureAsset", f, at[l], seen[l])
          /\ Left(l)' = StepsLeft("returned", f, at[l], seen'[l])
      BY <2>1, <3>1 DEF Left
    <3>3. Left(l) = 1 /\ Left(l)' = 0
      BY <2>1, <3>2 DEF StepsLeft
    <3>. QED BY <3>3
  <2>3. CASE c = "ModelAsset"
    <3>1. n \in Nat /\ at[l] = 1
      BY <1>1, <2>1, <2>3 DEF Place, New
    <3>2. Left(l) = 4 * n + 2 /\ Left(l)' = 4 * Rounds(f, 1) + 1
      BY <2>1, <2>3, <3>1 DEF Left, StepsLeft, New, After
    <3>. QED BY <3>1, <3>2 DEF Rounds
  <2>4. CASE c = "Mesh"
    <3>1. pc[l] = "new Mesh" /\ pc'[l] = "mesh"
      BY <2>1, <2>4 DEF New, After
    <3>2. k \in Nat /\ k > 0
      BY <1>2, <3>1
    <3>3. /\ Left(l) = StepsLeft("new Mesh", f, at[l], seen[l])
          /\ Left(l)' = StepsLeft("mesh", f, at[l], seen'[l])
      BY <2>1, <3>1 DEF Left
    <3>4. Left(l) = 4 * k - 1 /\ Left(l)' = 4 * k - 2
      BY <2>1, <3>3 DEF StepsLeft
    <3>. HIDE DEF k
    <3>. QED BY <3>2, <3>4
  <2>. QED BY <2>2, <2>3, <2>4 DEF Class
<1>6. CASE NextMesh(l)
  <2>1. /\ pc[l] = "node" /\ pc'[l] = "new Mesh" /\ file'[l] = f /\ at'[l] = at[l]
        /\ at[l] <= n
    BY <1>1, <1>6 DEF NextMesh, Goes, local
  <2>2. k \in Nat /\ k > 0
    BY <1>2, <2>1
  <2>3. Left(l) = 4 * k + 1 /\ (Left(l)' = 4 * k - 0 \/ Left(l)' = 4 * k - 1)
    <3>1. /\ Left(l) = StepsLeft("node", f, at[l], seen[l])
          /\ Left(l)' = StepsLeft("new Mesh", f, at[l], seen'[l])
      BY <2>1 DEF Left
    <3>. QED BY <3>1 DEF StepsLeft
  <2>. HIDE DEF k
  <2>. QED BY <2>2, <2>3
<1>7. CASE ProcessMesh(l)
  <2>1. pc[l] = "mesh" /\ pc'[l] = "node" /\ file'[l] = f /\ at'[l] = at[l] + 1
    BY <1>1, <1>7 DEF ProcessMesh, Goes
  <2>2. k \in Nat /\ k > 0 /\ Rounds(f, at[l] + 1) = k - 1
    BY <1>1, <1>2, <2>1 DEF Place
  <2>3. Left(l) = 4 * k - 2 /\ Left(l)' = 4 * Rounds(f, at[l] + 1) + 1
    <3>1. /\ Left(l) = StepsLeft("mesh", f, at[l], seen[l])
          /\ Left(l)' = StepsLeft("node", f, at[l] + 1, seen'[l])
      BY <2>1 DEF Left
    <3>. QED BY <3>1 DEF StepsLeft
  <2>. HIDE DEF k
  <2>. QED BY <2>2, <2>3
<1>8. ~Recurses(l)
  BY <1>1 DEF Recurses, LastMesh, NoChildren, Flat, Place, Model
<1>9. CASE LoadModelReturns(l)
  <2>1. pc[l] = "node" /\ pc'[l] = "returned"
    BY <1>1, <1>9 DEF LoadModelReturns, LastMesh
  <2>2. k \in Nat
    BY <1>2, <2>1
  <2>3. Left(l) = 4 * k + 1 /\ Left(l)' = 0
    <3>1. /\ Left(l) = StepsLeft("node", f, at[l], seen[l])
          /\ Left(l)' = StepsLeft("returned", file'[l], at'[l], seen'[l])
      BY <2>1 DEF Left
    <3>. QED BY <3>1 DEF StepsLeft
  <2>. HIDE DEF k
  <2>. QED BY <2>2, <2>3
<1>. QED BY <1>3, <1>4, <1>5, <1>6, <1>7, <1>8, <1>9 DEF Load

\* A model without children is loaded in at most 4n + 4 steps of its loader, n its
\* number of meshes, whatever the other loaders do: every step takes one off.
THEOREM FlatImportsProgress == Spec => [][\A l \in Loader : Progress(l)]_vars
<1>1. ImportInv /\ CountInv => [\A l \in Loader : Progress(l)]_vars
  BY LoadProgresses DEF Progress
<1>. QED BY <1>1, ImportInvHolds, CountInvHolds, PTL
=============================================================================
