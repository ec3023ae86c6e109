-------------------------- MODULE InductionTheorems --------------------------
(* What follows by induction and is needed in more than one component:
   induction over a finite set and over the naturals, with the set of good
   cases in the place of a predicate, and what the sums of the community module
   Functions are. *)
EXTENDS Functions, FiniteSetTheorems, TLAPS

(* A set of subsets of a finite set that holds a subset whenever it holds all
   smaller ones within it holds them all. *)
LEMMA SetInduction ==
  ASSUME NEW S, IsFiniteSet(S), NEW Good \in SUBSET (SUBSET S),
         \A t \in SUBSET S : (\A u \in SUBSET t : u # t => u \in Good) => t \in Good
  PROVE  SUBSET S \subseteq Good
<1>1. IsWellFoundedOn(StrictSubsetOrdering(S), FiniteSubsetsOf(S))
  BY FS_StrictSubsetOrderingWellFounded
<1>2. \A t \in SUBSET S : IsFiniteSet(t)
  BY FS_Subset
<1> DEFINE Bad == (SUBSET S) \ Good
<1>3. SUFFICES ASSUME Bad # {} PROVE FALSE
  OBVIOUS
<1>4. Bad \subseteq FiniteSubsetsOf(S)
  BY <1>2 DEF FiniteSubsetsOf
<1>5. PICK t \in Bad : \A u \in Bad : ~ (<<u, t>> \in StrictSubsetOrdering(S))
  <2> HIDE DEF Bad
  <2> QED BY <1>1, <1>3, <1>4, WFMin
<1>6. \A u \in SUBSET t : u # t => u \in Good
  BY <1>5 DEF StrictSubsetOrdering
<1> QED BY <1>5, <1>6

(* Induction over the naturals, for a set. *)
LEMMA NatInductionOnSet ==
  ASSUME NEW Good \in SUBSET Nat, 0 \in Good,
         \A n \in Good : n + 1 \in Good
  PROVE  Nat \subseteq Good
<1> SUFFICES ASSUME NEW n \in Nat PROVE n \in Good
  OBVIOUS
<1> DEFINE S == 0 .. n
           Sets == {t \in SUBSET S : \A m \in Nat : t = 0 .. m - 1 => m \in Good}
<1>1. IsFiniteSet(S)
  BY FS_Interval
<1>2. \A t \in SUBSET S : (\A u \in SUBSET t : u # t => u \in Sets) => t \in Sets
  <2> SUFFICES ASSUME NEW m \in Nat, 0 .. m - 1 \in SUBSET S,
                      \A u \in SUBSET (0 .. m - 1) : u # 0 .. m - 1 => u \in Sets
               PROVE  m \in Good
    OBVIOUS
  <2>1. CASE m = 0
    BY <2>1
  <2>2. CASE m # 0
    <3> DEFINE u == 0 .. (m - 1) - 1
    <3>1. \A k \in u : k \in 0 .. m - 1
      OBVIOUS
    <3>2. m - 1 \in 0 .. m - 1 /\ m - 1 \notin u /\ m - 1 \in Nat
      BY <2>2
    <3>3. u \in SUBSET (0 .. m - 1) /\ u # 0 .. m - 1
      BY <3>1, <3>2
    <3>4. u \in Sets
      BY <3>3
    <3>5. m - 1 \in Good
      BY <3>2, <3>4
    <3> QED BY <3>2, <3>5
  <2> QED BY <2>1, <2>2
<1>3. 0 .. n - 1 \in Sets
  <2>1. 0 .. n - 1 \in SUBSET S
    OBVIOUS
  <2>2. Sets \in SUBSET (SUBSET S)
    OBVIOUS
  <2> HIDE DEF S, Sets
  <2> QED BY <1>1, <1>2, <2>1, <2>2, SetInduction
<1> QED BY <1>3

(* The element a sum takes out of a set, and the function over all subsets of S
   by which it is defined. *)
Pick(s) == CHOOSE x \in s : TRUE

IsSum(g, f, S) ==
  g = [s \in SUBSET S |-> IF s = {} THEN 0 ELSE f[Pick(s)] + g[s \ {Pick(s)}]]

(* The library's sum is the value of such a function. *)
LEMMA SumUnfolds ==
  ASSUME NEW f, NEW S
  PROVE  SumFunctionOnSet(f, S) = (CHOOSE g : IsSum(g, f, S))[S]
BY DEF SumFunctionOnSet, FoldFunctionOnSet, MapThenFoldSet, IsSum, Pick

(* The element taken out is one of the set. *)
LEMMA PickIn ==
  ASSUME NEW s, s # {}
  PROVE  Pick(s) \in s
BY DEF Pick

(* Two such functions agree. *)
LEMMA SumUnique ==
  ASSUME NEW f, NEW S, IsFiniteSet(S), NEW T, S \subseteq T,
         NEW g, IsSum(g, f, S), NEW h, IsSum(h, f, T)
  PROVE  g[S] = h[S]
<1> DEFINE Good == {t \in SUBSET S : g[t] = h[t]}
<1>1. \A t \in SUBSET S : (\A u \in SUBSET t : u # t => u \in Good) => t \in Good
  <2> SUFFICES ASSUME NEW t \in SUBSET S, \A u \in SUBSET t : u # t => u \in Good
               PROVE  g[t] = h[t]
    OBVIOUS
  <2>1. CASE t = {}
    BY <2>1 DEF IsSum
  <2>2. CASE t # {}
    <3>1. Pick(t) \in t
      BY <2>2, PickIn
    <3>2. t \ {Pick(t)} \in Good
      BY <3>1
    <3>3. g[t] = f[Pick(t)] + g[t \ {Pick(t)}]
      BY <2>2 DEF IsSum
    <3>4. h[t] = f[Pick(t)] + h[t \ {Pick(t)}]
      BY <2>2 DEF IsSum
    <3> QED BY <3>2, <3>3, <3>4
  <2> QED BY <2>1, <2>2
<1> HIDE DEF Good
<1>2. Good \in SUBSET (SUBSET S)
  BY DEF Good
<1>3. S \in Good
  BY <1>1, <1>2, SetInduction
<1> QED BY <1>3 DEF Good

(* The sum by any such function. *)
SumBy(f, S) == (CHOOSE g : IsSum(g, f, S))[S]

(* There is such a function for every finite set. *)
LEMMA SumExists ==
  ASSUME NEW f, NEW S, IsFiniteSet(S)
  PROVE  \E g : IsSum(g, f, S)
<1> DEFINE Good == {t \in SUBSET S : \E g : IsSum(g, f, t)}
<1>1. \A t \in SUBSET S : (\A u \in SUBSET t : u # t => u \in Good) => t \in Good
  <2> SUFFICES ASSUME NEW t \in SUBSET S, \A u \in SUBSET t : u # t => u \in Good
               PROVE  \E g : IsSum(g, f, t)
    OBVIOUS
  <2> DEFINE g == [s \in SUBSET t |->
                     IF s = {} THEN 0 ELSE f[Pick(s)] + SumBy(f, s \ {Pick(s)})]
  <2>1. \A u \in SUBSET t : u # t => g[u] = SumBy(f, u)
    <3> SUFFICES ASSUME NEW u \in SUBSET t, u # t PROVE g[u] = SumBy(f, u)
      OBVIOUS
    <3> DEFINE h == CHOOSE h : IsSum(h, f, u)
    <3>1. IsSum(h, f, u)
      <4>1. \E k : IsSum(k, f, u)
        OBVIOUS
      <4> QED BY <4>1
    <3>2. SumBy(f, u) = h[u]
      BY DEF SumBy
    <3> HIDE DEF h
    <3>3. CASE u = {}
      BY <3>1, <3>2, <3>3 DEF IsSum
    <3>4. CASE u # {}
      <4> DEFINE w == u \ {Pick(u)}
      <4>1. Pick(u) \in u /\ w \in SUBSET t /\ w # t /\ w \in SUBSET u
        BY <3>4, PickIn
      <4>2. h[u] = f[Pick(u)] + h[w]
        BY <3>1, <3>4 DEF IsSum
      <4>3. \E k : IsSum(k, f, w)
        BY <4>1
      <4>4. IsSum(CHOOSE k : IsSum(k, f, w), f, w)
        BY <4>3
      <4>5. IsFiniteSet(w)
        BY <4>1, FS_Subset
      <4>6. SumBy(f, w) = h[w]
        BY <3>1, <4>1, <4>4, <4>5, SumUnique DEF SumBy
      <4> QED BY <3>2, <3>4, <4>2, <4>6
    <3> QED BY <3>3, <3>4
  <2>2. \A s \in SUBSET t : s # {} => s \ {Pick(s)} \in SUBSET t /\ s \ {Pick(s)} # t
    BY PickIn
  <2>3. \A s \in SUBSET t : s # {} => SumBy(f, s \ {Pick(s)}) = g[s \ {Pick(s)}]
    <3> HIDE DEF g
    <3> QED BY <2>1, <2>2
  <2>4. g = [s \in SUBSET t |-> IF s = {} THEN 0 ELSE f[Pick(s)] + g[s \ {Pick(s)}]]
    BY <2>3
  <2> HIDE DEF g
  <2> QED BY <2>4 DEF IsSum
<1>2. Good \in SUBSET (SUBSET S)
  OBVIOUS
<1> HIDE DEF Good
<1>3. S \in Good
  BY <1>1, <1>2, SetInduction
<1> QED BY <1>3 DEF Good

(* The sum over nothing. *)
LEMMA SumEmpty ==
  ASSUME NEW f
  PROVE  SumFunctionOnSet(f, {}) = 0
<1>1. IsSum(CHOOSE g : IsSum(g, f, {}), f, {})
  BY SumExists, FS_EmptySet
<1> QED BY <1>1, SumUnfolds DEF IsSum

(* The sum as the library computes it, one element at a time. *)
LEMMA SumPick ==
  ASSUME NEW f, NEW S, IsFiniteSet(S), S # {}
  PROVE  SumFunctionOnSet(f, S) = f[Pick(S)] + SumFunctionOnSet(f, S \ {Pick(S)})
<1> DEFINE g == CHOOSE g : IsSum(g, f, S)
           w == S \ {Pick(S)}
           h == CHOOSE h : IsSum(h, f, w)
<1>1. IsFiniteSet(w)
  BY FS_Subset
<1>2. IsSum(g, f, S)
  BY SumExists
<1>3. IsSum(h, f, w)
  BY <1>1, SumExists
<1>4. SumFunctionOnSet(f, S) = g[S]
  BY SumUnfolds
<1>5. SumFunctionOnSet(f, w) = h[w]
  BY SumUnfolds
<1> HIDE DEF g, h
<1>6. h[w] = g[w]
  BY <1>1, <1>2, <1>3, SumUnique
<1>7. g[S] = f[Pick(S)] + g[w]
  BY <1>2 DEF IsSum
<1> QED BY <1>4, <1>5, <1>6, <1>7

(* Induction over the subsets of a finite set, one element at a time. *)
LEMMA FiniteInduction ==
  ASSUME NEW S, IsFiniteSet(S), NEW Good \in SUBSET (SUBSET S), {} \in Good,
         \A t \in Good : \A x \in S \ t : t \cup {x} \in Good
  PROVE  SUBSET S \subseteq Good
<1>1. \A t \in SUBSET S : (\A u \in SUBSET t : u # t => u \in Good) => t \in Good
  <2> SUFFICES ASSUME NEW t \in SUBSET S, \A u \in SUBSET t : u # t => u \in Good
               PROVE  t \in Good
    OBVIOUS
  <2>1. CASE t = {}
    BY <2>1
  <2>2. ASSUME NEW x \in t PROVE t \in Good
    <3>1. t \ {x} \in Good /\ t = (t \ {x}) \cup {x} /\ x \in S
      OBVIOUS
    <3> QED BY <3>1
  <2> QED BY <2>1, <2>2
<1> QED BY <1>1, SetInduction

(* A finite set has a first element in every total order. *)
LEMMA FiniteFirst ==
  ASSUME NEW S, IsFiniteSet(S), NEW R,
         \A x, y \in S : <<x, y>> \in R \/ <<y, x>> \in R,
         \A x, y, z \in S : <<x, y>> \in R /\ <<y, z>> \in R => <<x, z>> \in R
  PROVE  S # {} => \E x \in S : \A y \in S : <<x, y>> \in R
<1> DEFINE Good == {t \in SUBSET S : t # {} => \E x \in t : \A y \in t : <<x, y>> \in R}
<1>1. {} \in Good
  OBVIOUS
<1>2. \A t \in Good : \A x \in S \ t : t \cup {x} \in Good
  <2> SUFFICES ASSUME NEW t \in Good, NEW x \in S \ t PROVE t \cup {x} \in Good
    OBVIOUS
  <2>1. CASE t = {}
    BY <2>1
  <2>2. CASE t # {}
    <3>1. PICK m \in t : \A y \in t : <<m, y>> \in R
      BY <2>2
    <3>2. CASE <<m, x>> \in R
      BY <3>1, <3>2
    <3>3. CASE <<x, m>> \in R
      <4>1. \A y \in t \cup {x} : <<x, y>> \in R
        BY <3>1, <3>3
      <4> QED BY <4>1
    <3> QED BY <3>1, <3>2, <3>3
  <2> QED BY <2>1, <2>2
<1>3. Good \in SUBSET (SUBSET S)
  OBVIOUS
<1> HIDE DEF Good
<1>4. S \in Good
  BY <1>1, <1>2, <1>3, FiniteInduction
<1> QED BY <1>4 DEF Good

(* A sum of integers is one. *)
LEMMA SumInt ==
  ASSUME NEW f, NEW S, IsFiniteSet(S), \A x \in S : f[x] \in Int
  PROVE  SumFunctionOnSet(f, S) \in Int
<1> DEFINE Good == {t \in SUBSET S : SumFunctionOnSet(f, t) \in Int}
<1>1. \A t \in SUBSET S : (\A u \in SUBSET t : u # t => u \in Good) => t \in Good
  <2> SUFFICES ASSUME NEW t \in SUBSET S, \A u \in SUBSET t : u # t => u \in Good
               PROVE  SumFunctionOnSet(f, t) \in Int
    OBVIOUS
  <2>1. CASE t = {}
    BY <2>1, SumEmpty
  <2>2. CASE t # {}
    <3>1. Pick(t) \in t
      BY <2>2, PickIn
    <3>2. SumFunctionOnSet(f, t \ {Pick(t)}) \in Int
      BY <3>1
    <3>3. IsFiniteSet(t)
      BY FS_Subset
    <3>4. SumFunctionOnSet(f, t) = f[Pick(t)] + SumFunctionOnSet(f, t \ {Pick(t)})
      BY <2>2, <3>3, SumPick
    <3> QED BY <3>1, <3>2, <3>4
  <2> QED BY <2>1, <2>2
<1> HIDE DEF Good
<1>2. Good \in SUBSET (SUBSET S) /\ (S \in Good => SumFunctionOnSet(f, S) \in Int)
  BY DEF Good
<1> QED BY <1>1, <1>2, SetInduction

(* Any element may be taken out of the sum first. *)
LEMMA SumRemove ==
  ASSUME NEW f, NEW S, IsFiniteSet(S), \A x \in S : f[x] \in Int
  PROVE  \A x \in S : SumFunctionOnSet(f, S) = f[x] + SumFunctionOnSet(f, S \ {x})
<1> DEFINE Good == {t \in SUBSET S : \A x \in t :
                      SumFunctionOnSet(f, t) = f[x] + SumFunctionOnSet(f, t \ {x})}
<1>0. \A t \in SUBSET S : IsFiniteSet(t) /\ SumFunctionOnSet(f, t) \in Int
  BY FS_Subset, SumInt
<1>1. \A t \in SUBSET S : (\A u \in SUBSET t : u # t => u \in Good) => t \in Good
  <2> SUFFICES ASSUME NEW t \in SUBSET S, \A u \in SUBSET t : u # t => u \in Good,
                      NEW x \in t
               PROVE  SumFunctionOnSet(f, t) = f[x] + SumFunctionOnSet(f, t \ {x})
    OBVIOUS
  <2> DEFINE p == Pick(t)
             u == t \ {p}
             w == t \ {x}
             both == u \ {x}
  <2>1. p \in t /\ u \in SUBSET t /\ w \in SUBSET t /\ both \in SUBSET t
    BY PickIn
  <2>2. SumFunctionOnSet(f, t) = f[p] + SumFunctionOnSet(f, u)
    BY <1>0, SumPick
  <2>3. CASE x = p
    BY <2>2, <2>3
  <2>4. CASE x # p
    <3>1. x \in u /\ u # t /\ p \in w /\ w # t /\ w \ {p} = both
      BY <2>1, <2>4
    <3>2. SumFunctionOnSet(f, u) = f[x] + SumFunctionOnSet(f, both)
      BY <3>1
    <3>3. SumFunctionOnSet(f, w) = f[p] + SumFunctionOnSet(f, w \ {p})
      BY <3>1
    <3>4. f[x] \in Int /\ f[p] \in Int /\ SumFunctionOnSet(f, both) \in Int
      BY <1>0, <2>1
    <3> HIDE DEF p, u, both
    <3>5. SumFunctionOnSet(f, w \ {p}) = SumFunctionOnSet(f, both)
      BY <3>1, Zenon
    <3> QED BY <2>2, <3>2, <3>3, <3>4, <3>5
  <2> QED BY <2>3, <2>4
<1> HIDE DEF Good
<1>2. Good \in SUBSET (SUBSET S)
  BY DEF Good
<1>3. S \in Good
  BY <1>1, <1>2, SetInduction
<1> QED BY <1>3 DEF Good

(* An element is added to the summed set. *)
LEMMA SumInsert ==
  ASSUME NEW f, NEW S, IsFiniteSet(S), NEW x, x \notin S,
         f[x] \in Int, \A y \in S : f[y] \in Int
  PROVE  SumFunctionOnSet(f, S \cup {x}) = f[x] + SumFunctionOnSet(f, S)
<1>1. IsFiniteSet(S \cup {x}) /\ (S \cup {x}) \ {x} = S
  BY FS_AddElement
<1> QED BY <1>1, SumRemove

(* The sum depends on the values in the set only. *)
LEMMA SumSame ==
  ASSUME NEW f, NEW g, NEW S, IsFiniteSet(S),
         \A x \in S : f[x] \in Int /\ g[x] = f[x]
  PROVE  SumFunctionOnSet(g, S) = SumFunctionOnSet(f, S)
<1> DEFINE Good == {t \in SUBSET S : SumFunctionOnSet(g, t) = SumFunctionOnSet(f, t)}
<1>1. {} \in Good
  BY SumEmpty
<1>2. \A t \in Good : \A x \in S \ t : t \cup {x} \in Good
  <2> SUFFICES ASSUME NEW t \in Good, NEW x \in S \ t PROVE t \cup {x} \in Good
    OBVIOUS
  <2>1. IsFiniteSet(t)
    BY FS_Subset
  <2>2. SumFunctionOnSet(f, t \cup {x}) = f[x] + SumFunctionOnSet(f, t)
    BY <2>1, SumInsert
  <2>3. SumFunctionOnSet(g, t \cup {x}) = g[x] + SumFunctionOnSet(g, t)
    BY <2>1, SumInsert
  <2> QED BY <2>2, <2>3
<1> HIDE DEF Good
<1>3. Good \in SUBSET (SUBSET S) /\ (S \in Good => SumFunctionOnSet(g, S) = SumFunctionOnSet(f, S))
  BY DEF Good
<1> QED BY <1>1, <1>2, <1>3, FiniteInduction

(* The sum of two functions, value by value. *)
LEMMA SumPointwise ==
  ASSUME NEW f, NEW g, NEW h, NEW S, IsFiniteSet(S),
         \A x \in S : f[x] \in Int /\ g[x] \in Int /\ h[x] = f[x] + g[x]
  PROVE  SumFunctionOnSet(h, S) = SumFunctionOnSet(f, S) + SumFunctionOnSet(g, S)
<1> DEFINE Good == {t \in SUBSET S :
             SumFunctionOnSet(h, t) = SumFunctionOnSet(f, t) + SumFunctionOnSet(g, t)}
<1>1. {} \in Good
  BY SumEmpty
<1>2. \A t \in Good : \A x \in S \ t : t \cup {x} \in Good
  <2> SUFFICES ASSUME NEW t \in Good, NEW x \in S \ t PROVE t \cup {x} \in Good
    OBVIOUS
  <2>1. IsFiniteSet(t) /\ (\A y \in t : f[y] \in Int /\ g[y] \in Int /\ h[y] \in Int)
    BY FS_Subset
  <2>2. SumFunctionOnSet(f, t \cup {x}) = f[x] + SumFunctionOnSet(f, t)
    BY <2>1, SumInsert
  <2>3. SumFunctionOnSet(g, t \cup {x}) = g[x] + SumFunctionOnSet(g, t)
    BY <2>1, SumInsert
  <2>4. SumFunctionOnSet(h, t \cup {x}) = h[x] + SumFunctionOnSet(h, t)
    <3>1. h[x] \in Int
      OBVIOUS
    <3> QED BY <2>1, <3>1, SumInsert
  <2>5. SumFunctionOnSet(f, t) \in Int /\ SumFunctionOnSet(g, t) \in Int
    BY <2>1, SumInt
  <2>6. SumFunctionOnSet(h, t) = SumFunctionOnSet(f, t) + SumFunctionOnSet(g, t)
    OBVIOUS
  <2>7. f[x] \in Int /\ g[x] \in Int /\ h[x] = f[x] + g[x]
    OBVIOUS
  <2>8. SumFunctionOnSet(h, t \cup {x}) = SumFunctionOnSet(f, t \cup {x}) + SumFunctionOnSet(g, t \cup {x})
    BY <2>2, <2>3, <2>4, <2>5, <2>6, <2>7
  <2> QED BY <2>8
<1> HIDE DEF Good
<1>3. /\ Good \in SUBSET (SUBSET S)
      /\ S \in Good => SumFunctionOnSet(h, S) = SumFunctionOnSet(f, S) + SumFunctionOnSet(g, S)
  BY DEF Good
<1> QED BY <1>1, <1>2, <1>3, FiniteInduction

(* The sum over two disjoint sets. *)
LEMMA SumDisjoint ==
  ASSUME NEW f, NEW S, NEW T, IsFiniteSet(S), IsFiniteSet(T), S \cap T = {},
         \A x \in S \cup T : f[x] \in Int
  PROVE  SumFunctionOnSet(f, S \cup T) = SumFunctionOnSet(f, S) + SumFunctionOnSet(f, T)
<1> DEFINE Good == {t \in SUBSET S :
             SumFunctionOnSet(f, t \cup T) = SumFunctionOnSet(f, t) + SumFunctionOnSet(f, T)}
<1>0. SumFunctionOnSet(f, T) \in Int
  BY SumInt
<1>1. {} \in Good
  <2>1. {} \cup T = T
    OBVIOUS
  <2> QED BY <1>0, <2>1, SumEmpty
<1>2. \A t \in Good : \A x \in S \ t : t \cup {x} \in Good
  <2> SUFFICES ASSUME NEW t \in Good, NEW x \in S \ t PROVE t \cup {x} \in Good
    OBVIOUS
  <2>1. IsFiniteSet(t) /\ IsFiniteSet(t \cup T)
    BY FS_Subset, FS_Union
  <2>2. SumFunctionOnSet(f, t \cup {x}) = f[x] + SumFunctionOnSet(f, t)
    BY <2>1, SumInsert
  <2>3. SumFunctionOnSet(f, (t \cup T) \cup {x}) = f[x] + SumFunctionOnSet(f, t \cup T)
    <3>1. x \notin t \cup T /\ f[x] \in Int /\ \A y \in t \cup T : f[y] \in Int
      OBVIOUS
    <3> QED BY <2>1, <3>1, SumInsert
  <2>4. SumFunctionOnSet(f, t) \in Int /\ f[x] \in Int
    BY <2>1, SumInt
  <2>5. (t \cup T) \cup {x} = (t \cup {x}) \cup T
    OBVIOUS
  <2>6. SumFunctionOnSet(f, t \cup T) = SumFunctionOnSet(f, t) + SumFunctionOnSet(f, T)
    OBVIOUS
  <2>7. SumFunctionOnSet(f, (t \cup T) \cup {x}) = SumFunctionOnSet(f, (t \cup {x}) \cup T)
    BY <2>5, Zenon
  <2>8. SumFunctionOnSet(f, (t \cup {x}) \cup T) = SumFunctionOnSet(f, t \cup {x}) + SumFunctionOnSet(f, T)
    BY <1>0, <2>2, <2>3, <2>4, <2>6, <2>7
  <2> QED BY <2>8
<1> HIDE DEF Good
<1>3. /\ Good \in SUBSET (SUBSET S)
      /\ S \in Good =>
           SumFunctionOnSet(f, S \cup T) = SumFunctionOnSet(f, S) + SumFunctionOnSet(f, T)
  BY DEF Good
<1> QED BY <1>1, <1>2, <1>3, FiniteInduction

(* A sum of naturals is one. *)
LEMMA SumNat ==
  ASSUME NEW f, NEW S, IsFiniteSet(S), \A x \in S : f[x] \in Nat
  PROVE  SumFunctionOnSet(f, S) \in Nat
<1> DEFINE Good == {t \in SUBSET S : SumFunctionOnSet(f, t) \in Nat}
<1>1. {} \in Good
  BY SumEmpty
<1>2. \A t \in Good : \A x \in S \ t : t \cup {x} \in Good
  <2> SUFFICES ASSUME NEW t \in Good, NEW x \in S \ t PROVE t \cup {x} \in Good
    OBVIOUS
  <2>1. SumFunctionOnSet(f, t \cup {x}) = f[x] + SumFunctionOnSet(f, t)
    BY FS_Subset, SumInsert
  <2> QED BY <2>1
<1> HIDE DEF Good
<1>3. Good \in SUBSET (SUBSET S) /\ (S \in Good => SumFunctionOnSet(f, S) \in Nat)
  BY DEF Good
<1> QED BY <1>1, <1>2, <1>3, FiniteInduction

(* A sum of zeros. *)
LEMMA SumZero ==
  ASSUME NEW f, NEW S, IsFiniteSet(S), \A x \in S : f[x] = 0
  PROVE  SumFunctionOnSet(f, S) = 0
<1> DEFINE Good == {t \in SUBSET S : SumFunctionOnSet(f, t) = 0}
<1>1. {} \in Good
  BY SumEmpty
<1>2. \A t \in Good : \A x \in S \ t : t \cup {x} \in Good
  <2> SUFFICES ASSUME NEW t \in Good, NEW x \in S \ t PROVE t \cup {x} \in Good
    OBVIOUS
  <2>1. SumFunctionOnSet(f, t \cup {x}) = f[x] + SumFunctionOnSet(f, t)
    BY FS_Subset, SumInsert
  <2> QED BY <2>1
<1> HIDE DEF Good
<1>3. Good \in SUBSET (SUBSET S) /\ (S \in Good => SumFunctionOnSet(f, S) = 0)
  BY DEF Good
<1> QED BY <1>1, <1>2, <1>3, FiniteInduction

(* One value of the function changes. *)
LEMMA SumChange ==
  ASSUME NEW f, NEW g, NEW S, IsFiniteSet(S), NEW x \in S,
         \A y \in S : f[y] \in Int, g[x] \in Int,
         \A y \in S \ {x} : g[y] = f[y]
  PROVE  SumFunctionOnSet(g, S) = SumFunctionOnSet(f, S) + g[x] - f[x]
<1>1. IsFiniteSet(S \ {x}) /\ f[x] \in Int
  BY FS_Subset
<1>2. SumFunctionOnSet(f, S) = f[x] + SumFunctionOnSet(f, S \ {x})
  BY SumRemove
<1>3. SumFunctionOnSet(g, S) = g[x] + SumFunctionOnSet(g, S \ {x})
  <2>1. \A y \in S : g[y] \in Int
    OBVIOUS
  <2> QED BY <2>1, SumRemove
<1>4. SumFunctionOnSet(g, S \ {x}) = SumFunctionOnSet(f, S \ {x})
  BY <1>1, SumSame
<1>5. SumFunctionOnSet(f, S \ {x}) \in Int
  BY <1>1, SumInt
<1> QED BY <1>1, <1>2, <1>3, <1>4, <1>5

(* The groups into which a set falls add up to the set. *)
LEMMA SumGroups ==
  ASSUME NEW f, NEW S, IsFiniteSet(S), \A x \in S : f[x] \in Int,
         NEW K, IsFiniteSet(K), NEW group \in [K -> SUBSET S],
         \A x \in S : \E k \in K : x \in group[k],
         \A j, k \in K : j # k => group[j] \cap group[k] = {},
         NEW h, \A k \in K : h[k] = SumFunctionOnSet(f, group[k])
  PROVE  SumFunctionOnSet(h, K) = SumFunctionOnSet(f, S)
<1> DEFINE Of(t) == {x \in S : \E k \in t : x \in group[k]}
           Good == {t \in SUBSET K : SumFunctionOnSet(h, t) = SumFunctionOnSet(f, Of(t))}
<1>1. {} \in Good
  <2>1. Of({}) = {}
    OBVIOUS
  <2> QED BY <2>1, SumEmpty
<1>2. \A t \in Good : \A k \in K \ t : t \cup {k} \in Good
  <2> SUFFICES ASSUME NEW t \in Good, NEW k \in K \ t PROVE t \cup {k} \in Good
    OBVIOUS
  <2>1. Of(t \cup {k}) = Of(t) \cup group[k] /\ Of(t) \cap group[k] = {}
    OBVIOUS
  <2>2. IsFiniteSet(t) /\ IsFiniteSet(Of(t)) /\ IsFiniteSet(group[k])
    <3>1. t \subseteq K /\ Of(t) \subseteq S /\ group[k] \subseteq S
      OBVIOUS
    <3> QED BY <3>1, FS_Subset
  <2>3. \A x \in Of(t) \cup group[k] : f[x] \in Int
    OBVIOUS
  <2>4. \A j \in K : h[j] \in Int
    <3> SUFFICES ASSUME NEW j \in K PROVE SumFunctionOnSet(f, group[j]) \in Int
      OBVIOUS
    <3>1. IsFiniteSet(group[j]) /\ \A x \in group[j] : f[x] \in Int
      BY FS_Subset
    <3> QED BY <3>1, SumInt
  <2>5. SumFunctionOnSet(h, t) = SumFunctionOnSet(f, Of(t)) /\ t \in SUBSET K
    OBVIOUS
  <2> HIDE DEF Of
  <2>6. SumFunctionOnSet(f, Of(t) \cup group[k])
          = SumFunctionOnSet(f, Of(t)) + SumFunctionOnSet(f, group[k])
    BY <2>1, <2>2, <2>3, SumDisjoint
  <2>7. SumFunctionOnSet(h, t \cup {k}) = h[k] + SumFunctionOnSet(h, t)
    BY <2>2, <2>4, <2>5, SumInsert
  <2>8. SumFunctionOnSet(f, Of(t)) \in Int /\ h[k] \in Int
    BY <2>2, <2>3, <2>4, SumInt
  <2>9. SumFunctionOnSet(f, Of(t \cup {k})) = SumFunctionOnSet(f, Of(t) \cup group[k])
    BY <2>1, Zenon
  <2>10. SumFunctionOnSet(h, t \cup {k}) = SumFunctionOnSet(f, Of(t \cup {k}))
    BY <2>5, <2>6, <2>7, <2>8, <2>9
  <2> QED BY <2>5, <2>10
<1>3. /\ Good \in SUBSET (SUBSET K)
      /\ K \in Good => SumFunctionOnSet(h, K) = SumFunctionOnSet(f, S)
  <2>1. Of(K) = S
    OBVIOUS
  <2> QED BY <2>1
<1> HIDE DEF Good
<1> QED BY <1>1, <1>2, <1>3, FiniteInduction
===============================================================================
