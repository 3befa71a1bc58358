----------------------------- MODULE SumLemmas -----------------------------
(***************************************************************************)
(* What the proofs about money and stock need of finite sets and of sums   *)
(* over them: a sum of the community modules is well defined, can be taken *)
(* in any order, and follows what happens to its terms.                    *)
(***************************************************************************)
EXTENDS Integers, FiniteSets, Functions, FiniteSetTheorems,
        WellFoundedInduction, TLAPS

-----------------------------------------------------------------------------
(* Any non-empty collection of finite sets has a member none of whose       *)
(* proper subsets belongs to it: induction over finite sets.                *)
LEMMA SmallestSet ==
    ASSUME NEW S, IsFiniteSet(S), NEW C \in SUBSET (SUBSET S), C # {}
    PROVE  \E T \in C : \A U \in C : U \subseteq T => U = T
<1>1. C \subseteq FiniteSubsetsOf(S)
  BY FS_FiniteSubsetsOfFinite
<1>2. PICK T \in C : \A U \in C : ~ (<<U, T>> \in StrictSubsetOrdering(S))
  BY <1>1, FS_StrictSubsetOrderingWellFounded, WFMin
<1>3. \A U \in C : U \subseteq T => U = T
  BY <1>2 DEF StrictSubsetOrdering
<1>. QED BY <1>3

(* g is the function that adds f up over the subsets of S.                  *)
Adds(g, f, S) ==
    g = [s \in SUBSET S |-> IF s = {} THEN 0
                            ELSE LET x == CHOOSE x \in s : TRUE IN f[x] + g[s \ {x}]]

(* The sum of the community modules is that iteration.                      *)
LEMMA SumIsIteration ==
    ASSUME NEW f, NEW S
    PROVE  SumFunctionOnSet(f, S) = (CHOOSE g : Adds(g, f, S))[S]
  BY Zenon DEF SumFunctionOnSet, FoldFunctionOnSet, MapThenFoldSet, Adds

OneOf(T) == CHOOSE y \in T : TRUE

(* What the iteration gives for a set: its chosen element and the rest.     *)
LEMMA AddsAt ==
    ASSUME NEW f, NEW S, NEW g, Adds(g, f, S), NEW T \in SUBSET S
    PROVE  g[T] = IF T = {} THEN 0 ELSE f[OneOf(T)] + g[T \ {OneOf(T)}]
  BY Zenon DEF Adds, OneOf

(* The chosen element of a set that is not empty belongs to it.             *)
LEMMA OneOfIsIn == \A T : T # {} => OneOf(T) \in T
  BY DEF OneOf

(* There is one value at most for each set.                                 *)
LEMMA AddsAgree ==
    ASSUME NEW f, NEW A, NEW B, NEW g, NEW h, Adds(g, f, A), Adds(h, f, B),
           NEW S \in SUBSET A, S \in SUBSET B, IsFiniteSet(S)
    PROVE  g[S] = h[S]
<1>. DEFINE C == {T \in SUBSET S : g[T] # h[T]}
<1>1. SUFFICES ASSUME C # {} PROVE FALSE
  OBVIOUS
<1>2. PICK T \in C : \A U \in C : U \subseteq T => U = T
  <2>1. C \in SUBSET (SUBSET S) /\ C # {}
    BY <1>1
  <2>. HIDE DEF C
  <2>. QED BY <2>1, SmallestSet
<1>3. T \in SUBSET S /\ T \in SUBSET A /\ T \in SUBSET B /\ g[T] # h[T]
  OBVIOUS
<1>4. g[T] = IF T = {} THEN 0 ELSE f[OneOf(T)] + g[T \ {OneOf(T)}]
  BY <1>3, AddsAt
<1>5. h[T] = IF T = {} THEN 0 ELSE f[OneOf(T)] + h[T \ {OneOf(T)}]
  BY <1>3, AddsAt
<1>6. T # {}
  BY <1>3, <1>4, <1>5
<1>. DEFINE U == T \ {OneOf(T)}
<1>7. U \in SUBSET S /\ U \subseteq T /\ U # T
  BY <1>3, <1>6, OneOfIsIn
<1>. HIDE DEF U
<1>8. g[U] = h[U]
  BY <1>2, <1>7
<1>. QED BY <1>3, <1>4, <1>5, <1>6, <1>8 DEF U

(* And there is one, for a finite set.                                      *)
LEMMA AddsExists ==
    ASSUME NEW f, NEW S, IsFiniteSet(S)
    PROVE  \E g : Adds(g, f, S)
<1>. DEFINE C == {T \in SUBSET S : ~ \E g : Adds(g, f, T)}
<1>1. SUFFICES ASSUME C # {} PROVE FALSE
  OBVIOUS
<1>2. PICK T \in C : \A U \in C : U \subseteq T => U = T
  <2>1. C \in SUBSET (SUBSET S) /\ C # {}
    BY <1>1
  <2>. HIDE DEF C
  <2>. QED BY <2>1, SmallestSet
<1>. DEFINE I(s) == CHOOSE g : Adds(g, f, s)
            h == [s \in SUBSET T |-> IF s = {} THEN 0
                                     ELSE f[OneOf(s)] + I(s \ {OneOf(s)})[s \ {OneOf(s)}]]
<1>3. \A s \in SUBSET T : s # T => Adds(I(s), f, s)
  BY <1>2
<1>4. \A s \in SUBSET T : s # T => h[s] = I(s)[s]
  <2>. SUFFICES ASSUME NEW s \in SUBSET T, s # T PROVE h[s] = I(s)[s]
    OBVIOUS
  <2>1. Adds(I(s), f, s)
    BY <1>3
  <2>. DEFINE u == s \ {OneOf(s)}
  <2>2. h[s] = IF s = {} THEN 0 ELSE f[OneOf(s)] + I(u)[u]
    OBVIOUS
  <2>3. s # {} => u \in SUBSET T /\ u # T /\ u \in SUBSET s /\ u \in SUBSET u /\ IsFiniteSet(u)
    BY OneOfIsIn, FS_Subset
  <2>4. s # {} => Adds(I(u), f, u)
    BY <1>3, <2>3
  <2>. HIDE DEF I, h
  <2>5. I(s)[s] = IF s = {} THEN 0 ELSE f[OneOf(s)] + I(s)[u]
    BY <2>1, AddsAt
  <2>. HIDE DEF u
  <2>6. s # {} => I(s)[u] = I(u)[u]
    BY <2>1, <2>3, <2>4, AddsAgree
  <2>. QED BY <2>2, <2>5, <2>6
<1>5. \A s \in SUBSET T : h[s] = IF s = {} THEN 0 ELSE f[OneOf(s)] + h[s \ {OneOf(s)}]
  <2>. SUFFICES ASSUME NEW s \in SUBSET T
                PROVE  h[s] = IF s = {} THEN 0 ELSE f[OneOf(s)] + h[s \ {OneOf(s)}]
    OBVIOUS
  <2>. DEFINE u == s \ {OneOf(s)}
  <2>1. h[s] = IF s = {} THEN 0 ELSE f[OneOf(s)] + I(u)[u]
    OBVIOUS
  <2>2. s # {} => u \in SUBSET T /\ u # T
    BY OneOfIsIn
  <2>. HIDE DEF u, h, I
  <2>3. s # {} => h[u] = I(u)[u]
    BY <1>4, <2>2
  <2>. QED BY <2>1, <2>3 DEF u
<1>6. h = [s \in SUBSET T |-> IF s = {} THEN 0 ELSE f[OneOf(s)] + h[s \ {OneOf(s)}]]
  <2>1. h = [s \in SUBSET T |-> h[s]]
    OBVIOUS
  <2>. HIDE DEF h
  <2>. QED BY <1>5, <2>1
<1>7. Adds(h, f, T)
  <2>. HIDE DEF h
  <2>. QED BY Zenon, <1>6 DEF Adds, OneOf
<1>. QED BY <1>2, <1>7

-----------------------------------------------------------------------------
(* A property of all sets smaller than a set passes to the set: so it holds.*)
LEMMA SetInduction ==
    ASSUME NEW S, IsFiniteSet(S), NEW G,
           \A T \in SUBSET S : (\A U \in SUBSET T : U # T => U \in G) => T \in G
    PROVE  S \in G
<1>. DEFINE C == {T \in SUBSET S : T \notin G}
<1>1. SUFFICES ASSUME C # {} PROVE FALSE
  BY Zenon
<1>2. PICK T \in C : \A U \in C : U \subseteq T => U = T
  <2>1. C \in SUBSET (SUBSET S) /\ C # {}
    BY <1>1
  <2>. HIDE DEF C
  <2>. QED BY <2>1, SmallestSet
<1>3. T \in SUBSET S /\ T \notin G
  OBVIOUS
<1>4. \A U \in SUBSET T : U # T => U \in G
  BY <1>2, <1>3
<1>. QED BY <1>3, <1>4

(* A sum is taken element by element.                                       *)
LEMMA SumStep ==
    ASSUME NEW f, NEW S, IsFiniteSet(S)
    PROVE  SumFunctionOnSet(f, S) =
               IF S = {} THEN 0 ELSE f[OneOf(S)] + SumFunctionOnSet(f, S \ {OneOf(S)})
<1>. DEFINE R == S \ {OneOf(S)}
            g == CHOOSE g : Adds(g, f, S)
            h == CHOOSE h : Adds(h, f, R)
<1>1. IsFiniteSet(R)
  BY FS_Subset
<1>2. Adds(g, f, S)
  BY AddsExists
<1>3. Adds(h, f, R)
  <2>. HIDE DEF R
  <2>. QED BY <1>1, AddsExists
<1>4. SumFunctionOnSet(f, S) = g[S]
  BY SumIsIteration
<1>5. SumFunctionOnSet(f, R) = h[R]
  <2>. HIDE DEF R
  <2>. QED BY SumIsIteration
<1>6. R \in SUBSET S /\ R \in SUBSET R
  OBVIOUS
<1>. HIDE DEF g, h
<1>7. g[S] = IF S = {} THEN 0 ELSE f[OneOf(S)] + g[R]
  BY <1>2, AddsAt
<1>. HIDE DEF R
<1>8. g[R] = h[R]
  BY <1>1, <1>2, <1>3, <1>6, AddsAgree
<1>. QED BY <1>4, <1>5, <1>7, <1>8 DEF R

(* Nothing adds up to zero.                                                 *)
LEMMA SumEmpty == \A f : SumFunctionOnSet(f, {}) = 0
  BY SumStep, FS_EmptySet

(* A finite set of numbers has a greatest one.                              *)
LEMMA GreatestExists ==
    ASSUME NEW S, IsFiniteSet(S), S # {}, \A x \in S : x \in Int
    PROVE  \E x \in S : \A y \in S : x >= y
<1>. DEFINE G == {T \in SUBSET S : T # {} => \E x \in T : \A y \in T : x >= y}
<1>1. ASSUME NEW T \in SUBSET S, \A U \in SUBSET T : U # T => U \in G, T # {}
      PROVE  \E x \in T : \A y \in T : x >= y
  <2>1. PICK o \in T : TRUE
    BY <1>1
  <2>. DEFINE U == T \ {o}
  <2>2. U \in G
    <3>1. U \in SUBSET T /\ U # T
      OBVIOUS
    <3>. HIDE DEF U, G
    <3>. QED BY <1>1, <3>1
  <2>3. CASE U = {}
    BY <2>3
  <2>4. CASE U # {}
    <3>1. PICK x \in U : \A y \in U : x >= y
      BY <2>2, <2>4
    <3>2. x \in T /\ x \in Int /\ o \in Int /\ \A y \in T : y = o \/ x >= y
      BY <3>1
    <3>3. \A y \in T : y \in Int
      OBVIOUS
    <3>. HIDE DEF U
    <3>. QED BY <3>2, <3>3
  <2>. QED BY <2>3, <2>4
<1>2. S \in G
  <2>1. \A T \in SUBSET S : (\A U \in SUBSET T : U # T => U \in G) => T \in G
    BY <1>1
  <2>. HIDE DEF G
  <2>. QED BY <2>1, SetInduction
<1>. QED BY <1>2

(* The sum of integers is one.                                              *)
LEMMA SumType ==
    ASSUME NEW f, NEW S, IsFiniteSet(S), \A x \in S : f[x] \in Int
    PROVE  SumFunctionOnSet(f, S) \in Int
<1>. DEFINE G == {T \in SUBSET S : SumFunctionOnSet(f, T) \in Int}
<1>1. ASSUME NEW T \in SUBSET S, \A U \in SUBSET T : U # T => U \in G
      PROVE  SumFunctionOnSet(f, T) \in Int
  <2>1. IsFiniteSet(T)
    BY FS_Subset
  <2>2. T # {} => OneOf(T) \in T
    BY OneOfIsIn
  <2>3. T # {} => SumFunctionOnSet(f, T \ {OneOf(T)}) \in Int
    BY <1>1, <2>2
  <2>. QED BY <2>1, <2>2, <2>3, SumStep
<1>2. S \in G
  <2>1. \A T \in SUBSET S : (\A U \in SUBSET T : U # T => U \in G) => T \in G
    BY <1>1
  <2>. HIDE DEF G
  <2>. QED BY <2>1, SetInduction
<1>. QED BY <1>2

(* Any element may be taken first.                                          *)
LEMMA SumSplit ==
    ASSUME NEW f, NEW S, IsFiniteSet(S), \A x \in S : f[x] \in Int, NEW x \in S
    PROVE  SumFunctionOnSet(f, S) = f[x] + SumFunctionOnSet(f, S \ {x})
<1>. DEFINE F(T) == SumFunctionOnSet(f, T)
            G == {T \in SUBSET S : \A y \in T : F(T) = f[y] + F(T \ {y})}
<1>1. ASSUME NEW T \in SUBSET S, \A U \in SUBSET T : U # T => U \in G, NEW y \in T
      PROVE  F(T) = f[y] + F(T \ {y})
  <2>. DEFINE o == OneOf(T)
              V == T \ {o}
              W == T \ {y}
  <2>1. IsFiniteSet(T) /\ IsFiniteSet(V \ {y})
    BY FS_Subset
  <2>2. o \in T
    BY OneOfIsIn
  <2>3. F(T) = f[o] + F(V)
    BY <2>1, SumStep
  <2>4. CASE y = o
    BY <2>3, <2>4
  <2>5. CASE y # o
    <3>1. V \in G /\ W \in G /\ y \in V /\ o \in W
      <4>1. V \in SUBSET T /\ V # T /\ W \in SUBSET T /\ W # T
        BY <2>2
      <4>. HIDE DEF G
      <4>. QED BY <1>1, <2>2, <2>5, <4>1
    <3>2. F(V) = f[y] + F(V \ {y}) /\ F(W) = f[o] + F(W \ {o})
      <4>. HIDE DEF V, W, F
      <4>. QED BY <3>1
    <3>3. V \ {y} = W \ {o}
      OBVIOUS
    <3>4. F(V \ {y}) \in Int
      <4>1. \A z \in V \ {y} : f[z] \in Int
        OBVIOUS
      <4>. HIDE DEF V
      <4>. QED BY <2>1, <4>1, SumType
    <3>5. f[y] \in Int /\ f[o] \in Int
      BY <2>2
    <3>. HIDE DEF F, o, V, W, G
    <3>6. F(T) = f[o] + F(V) /\ F(V) = f[y] + F(V \ {y}) /\ F(W) = f[o] + F(V \ {y})
      BY <2>3, <3>2, <3>3
    <3>7. F(T) = f[y] + F(W)
      BY <3>4, <3>5, <3>6
    <3>. QED BY <3>7 DEF W
  <2>. QED BY <2>4, <2>5
<1>2. S \in G
  <2>1. \A T \in SUBSET S : (\A U \in SUBSET T : U # T => U \in G) => T \in G
    <3>. SUFFICES ASSUME NEW T \in SUBSET S, \A U \in SUBSET T : U # T => U \in G
                  PROVE  T \in G
      OBVIOUS
    <3>1. \A y \in T : F(T) = f[y] + F(T \ {y})
      BY <1>1
    <3>. QED BY <3>1
  <2>. HIDE DEF G
  <2>. QED BY <2>1, SetInduction
<1>. QED BY <1>2

(* Equal terms have equal sums.                                             *)
LEMMA SumSame ==
    ASSUME NEW f, NEW g, NEW S, IsFiniteSet(S), \A x \in S : f[x] = g[x]
    PROVE  SumFunctionOnSet(f, S) = SumFunctionOnSet(g, S)
<1>. DEFINE G == {T \in SUBSET S : SumFunctionOnSet(f, T) = SumFunctionOnSet(g, T)}
<1>1. ASSUME NEW T \in SUBSET S, \A U \in SUBSET T : U # T => U \in G
      PROVE  SumFunctionOnSet(f, T) = SumFunctionOnSet(g, T)
  <2>1. IsFiniteSet(T)
    BY FS_Subset
  <2>2. T # {} => OneOf(T) \in T
    BY OneOfIsIn
  <2>3. T # {} => SumFunctionOnSet(f, T \ {OneOf(T)}) = SumFunctionOnSet(g, T \ {OneOf(T)})
    BY <1>1, <2>2
  <2>. QED BY <2>1, <2>2, <2>3, SumStep
<1>2. S \in G
  <2>1. \A T \in SUBSET S : (\A U \in SUBSET T : U # T => U \in G) => T \in G
    BY <1>1
  <2>. HIDE DEF G
  <2>. QED BY <2>1, SetInduction
<1>. QED BY <1>2

(* A term that changes moves the sum by as much.                            *)
LEMMA SumUpdate ==
    ASSUME NEW f, NEW g, NEW S, IsFiniteSet(S), NEW x \in S,
           \A y \in S : f[y] \in Int, g[x] \in Int, \A y \in S \ {x} : g[y] = f[y]
    PROVE  SumFunctionOnSet(g, S) = SumFunctionOnSet(f, S) + (g[x] - f[x])
<1>1. \A y \in S : g[y] \in Int
  OBVIOUS
<1>2. SumFunctionOnSet(f, S) = f[x] + SumFunctionOnSet(f, S \ {x})
  BY SumSplit
<1>3. SumFunctionOnSet(g, S) = g[x] + SumFunctionOnSet(g, S \ {x})
  BY <1>1, SumSplit
<1>4. IsFiniteSet(S \ {x})
  BY FS_Subset
<1>5. SumFunctionOnSet(g, S \ {x}) = SumFunctionOnSet(f, S \ {x})
  BY <1>4, SumSame
<1>6. SumFunctionOnSet(f, S \ {x}) \in Int
  BY <1>4, SumType
<1>. QED BY <1>2, <1>3, <1>5, <1>6

(* The sum of the sums of two functions is the sum of both.                 *)
LEMMA SumOfSums ==
    ASSUME NEW f, NEW g, NEW h, NEW S, IsFiniteSet(S),
           \A x \in S : f[x] \in Int /\ g[x] \in Int /\ h[x] = f[x] + g[x]
    PROVE  SumFunctionOnSet(h, S) = SumFunctionOnSet(f, S) + SumFunctionOnSet(g, S)
<1>. DEFINE G == {T \in SUBSET S : SumFunctionOnSet(h, T) =
                        SumFunctionOnSet(f, T) + SumFunctionOnSet(g, T)}
<1>1. ASSUME NEW T \in SUBSET S, \A U \in SUBSET T : U # T => U \in G
      PROVE  SumFunctionOnSet(h, T) = SumFunctionOnSet(f, T) + SumFunctionOnSet(g, T)
  <2>. DEFINE o == OneOf(T)
              V == T \ {o}
  <2>1. IsFiniteSet(T) /\ IsFiniteSet(V)
    BY FS_Subset
  <2>2. T # {} => o \in T
    BY OneOfIsIn
  <2>3. T # {} => SumFunctionOnSet(h, V) = SumFunctionOnSet(f, V) + SumFunctionOnSet(g, V)
    BY <1>1, <2>2
  <2>4. SumFunctionOnSet(f, V) \in Int /\ SumFunctionOnSet(g, V) \in Int
    <3>1. \A x \in V : f[x] \in Int /\ g[x] \in Int
      OBVIOUS
    <3>. HIDE DEF V
    <3>. QED BY <2>1, <3>1, SumType
  <2>5. /\ SumFunctionOnSet(f, T) = IF T = {} THEN 0 ELSE f[o] + SumFunctionOnSet(f, V)
        /\ SumFunctionOnSet(g, T) = IF T = {} THEN 0 ELSE g[o] + SumFunctionOnSet(g, V)
        /\ SumFunctionOnSet(h, T) = IF T = {} THEN 0 ELSE h[o] + SumFunctionOnSet(h, V)
    BY <2>1, SumStep
  <2>6. T # {} => f[o] \in Int /\ g[o] \in Int /\ h[o] = f[o] + g[o]
    BY <2>2
  <2>. HIDE DEF o, V, G
  <2>. QED BY <2>3, <2>4, <2>5, <2>6
<1>2. S \in G
  <2>1. \A T \in SUBSET S : (\A U \in SUBSET T : U # T => U \in G) => T \in G
    BY <1>1
  <2>. HIDE DEF G
  <2>. QED BY <2>1, SetInduction
<1>. QED BY <1>2

(* Smaller terms have a smaller sum.                                        *)
LEMMA SumMonotone ==
    ASSUME NEW f, NEW g, NEW S, IsFiniteSet(S),
           \A x \in S : f[x] \in Int /\ g[x] \in Int /\ f[x] <= g[x]
    PROVE  SumFunctionOnSet(f, S) <= SumFunctionOnSet(g, S)
<1>. DEFINE G == {T \in SUBSET S : SumFunctionOnSet(f, T) <= SumFunctionOnSet(g, T)}
<1>1. ASSUME NEW T \in SUBSET S, \A U \in SUBSET T : U # T => U \in G
      PROVE  SumFunctionOnSet(f, T) <= SumFunctionOnSet(g, T)
  <2>. DEFINE o == OneOf(T)
              V == T \ {o}
  <2>1. IsFiniteSet(T) /\ IsFiniteSet(V)
    BY FS_Subset
  <2>2. T # {} => o \in T
    BY OneOfIsIn
  <2>3. T # {} => SumFunctionOnSet(f, V) <= SumFunctionOnSet(g, V)
    BY <1>1, <2>2
  <2>4. SumFunctionOnSet(f, V) \in Int /\ SumFunctionOnSet(g, V) \in Int
    <3>1. \A x \in V : f[x] \in Int /\ g[x] \in Int
      OBVIOUS
    <3>. HIDE DEF V
    <3>. QED BY <2>1, <3>1, SumType
  <2>5. /\ SumFunctionOnSet(f, T) = IF T = {} THEN 0 ELSE f[o] + SumFunctionOnSet(f, V)
        /\ SumFunctionOnSet(g, T) = IF T = {} THEN 0 ELSE g[o] + SumFunctionOnSet(g, V)
    BY <2>1, SumStep
  <2>6. T # {} => f[o] \in Int /\ g[o] \in Int /\ f[o] <= g[o]
    BY <2>2
  <2>. HIDE DEF o, V, G
  <2>. QED BY <2>3, <2>4, <2>5, <2>6
<1>2. S \in G
  <2>1. \A T \in SUBSET S : (\A U \in SUBSET T : U # T => U \in G) => T \in G
    BY <1>1
  <2>. HIDE DEF G
  <2>. QED BY <2>1, SetInduction
<1>. QED BY <1>2

(* Terms that are all zero sum to zero.                                     *)
LEMMA SumZero ==
    ASSUME NEW f, NEW S, IsFiniteSet(S), \A x \in S : f[x] = 0
    PROVE  SumFunctionOnSet(f, S) = 0
<1>. DEFINE G == {T \in SUBSET S : SumFunctionOnSet(f, T) = 0}
<1>1. ASSUME NEW T \in SUBSET S, \A U \in SUBSET T : U # T => U \in G
      PROVE  SumFunctionOnSet(f, T) = 0
  <2>1. IsFiniteSet(T)
    BY FS_Subset
  <2>2. T # {} => OneOf(T) \in T
    BY OneOfIsIn
  <2>3. T # {} => SumFunctionOnSet(f, T \ {OneOf(T)}) = 0
    BY <1>1, <2>2
  <2>. QED BY <2>1, <2>2, <2>3, SumStep
<1>2. S \in G
  <2>1. \A T \in SUBSET S : (\A U \in SUBSET T : U # T => U \in G) => T \in G
    BY <1>1
  <2>. HIDE DEF G
  <2>. QED BY <2>1, SetInduction
<1>. QED BY <1>2

(* The sum of a function is the one over its domain.                        *)
LEMMA SumOver == \A f : SumFunction(f) = SumFunctionOnSet(f, DOMAIN f)
  BY DEF SumFunction

(* A single term is its own sum.                                            *)
LEMMA SumSingle ==
    ASSUME NEW f, NEW x, f[x] \in Int
    PROVE  SumFunctionOnSet(f, {x}) = f[x]
<1>. DEFINE S == {x}
<1>1. OneOf(S) = x /\ S \ {x} = {} /\ S # {}
  BY OneOfIsIn
<1>2. IsFiniteSet(S)
  BY FS_Singleton
<1>3. SumFunctionOnSet(f, S) = f[x] + SumFunctionOnSet(f, {})
  <2>. HIDE DEF S
  <2>. QED BY <1>1, <1>2, SumStep
<1>. QED BY <1>3, SumEmpty

(* Terms of zero may be added.                                              *)
LEMMA SumExtended ==
    ASSUME NEW f, NEW S, NEW T, IsFiniteSet(T), S \subseteq T,
           \A x \in S : f[x] \in Int, \A x \in T \ S : f[x] = 0
    PROVE  SumFunctionOnSet(f, T) = SumFunctionOnSet(f, S)
<1>. DEFINE F(U) == SumFunctionOnSet(f, U)
            G == {U \in SUBSET T : F(U) = F(U \cap S)}
<1>1. ASSUME NEW U \in SUBSET T, \A V \in SUBSET U : V # U => V \in G
      PROVE  F(U) = F(U \cap S)
  <2>1. CASE U \subseteq S
    <3>1. U \cap S = U
      BY <2>1
    <3>. QED BY <3>1
  <2>2. CASE ~ (U \subseteq S)
    <3>1. PICK x \in U : x \notin S
      BY <2>2
    <3>. DEFINE V == U \ {x}
    <3>2. V \in G /\ V \cap S = U \cap S
      BY <1>1, <3>1
    <3>3. F(V) = F(U \cap S)
      BY <3>2
    <3>4. IsFiniteSet(U) /\ IsFiniteSet(V) /\ \A y \in U : f[y] \in Int
      <4>1. U \subseteq T /\ V \subseteq T
        OBVIOUS
      <4>2. \A y \in U : f[y] \in Int
        OBVIOUS
      <4>. QED BY <4>1, <4>2, FS_Subset
    <3>5. F(U) = f[x] + F(V) /\ F(V) \in Int
      <4>1. \A y \in V : f[y] \in Int
        BY <3>4
      <4>. QED BY <3>1, <3>4, <4>1, SumSplit, SumType
    <3>6. f[x] = 0
      BY <3>1
    <3>. HIDE DEF V, F
    <3>. QED BY <3>3, <3>5, <3>6
  <2>. QED BY <2>1, <2>2
<1>2. T \in G
  <2>1. \A U \in SUBSET T : (\A V \in SUBSET U : V # U => V \in G) => U \in G
    BY <1>1
  <2>. HIDE DEF G
  <2>. QED BY <2>1, SetInduction
<1>3. T \cap S = S
  OBVIOUS
<1>. QED BY <1>2, <1>3

(* A sum may be taken over other names of its terms, which may be among     *)
(* more terms that are zero.                                                *)
LEMMA SumRenamed ==
    ASSUME NEW f, NEW S, IsFiniteSet(S), NEW g, NEW T, IsFiniteSet(T),
           NEW m, \A x \in S : m[x] \in T, \A x, y \in S : m[x] = m[y] => x = y,
           \A x \in S : g[m[x]] = f[x] /\ f[x] \in Int,
           \A y \in T : (\A x \in S : m[x] # y) => g[y] = 0
    PROVE  SumFunctionOnSet(g, T) = SumFunctionOnSet(f, S)
<1>. DEFINE Image(A) == {m[x] : x \in A}
            G == {A \in SUBSET S : SumFunctionOnSet(g, Image(A)) = SumFunctionOnSet(f, A)}
<1>1. ASSUME NEW A \in SUBSET S, \A B \in SUBSET A : B # A => B \in G
      PROVE  SumFunctionOnSet(g, Image(A)) = SumFunctionOnSet(f, A)
  <2>. DEFINE o == OneOf(A)
              B == A \ {o}
  <2>1. IsFiniteSet(A) /\ Image(A) \subseteq T
    <3>1. A \subseteq S
      OBVIOUS
    <3>. QED BY <3>1, FS_Subset
  <2>2. CASE A = {}
    <3>1. Image(A) = {}
      BY <2>2
    <3>. QED BY <2>2, <3>1, SumEmpty
  <2>3. CASE A # {}
    <3>1. o \in A
      BY <2>3, OneOfIsIn
    <3>2. B \in SUBSET A /\ B # A
      BY <3>1
    <3>3. SumFunctionOnSet(g, Image(B)) = SumFunctionOnSet(f, B)
      BY <1>1, <3>2
    <3>4. SumFunctionOnSet(f, A) = f[o] + SumFunctionOnSet(f, B)
      BY <2>1, <2>3, SumStep
    <3>5. Image(A) \ {m[o]} = Image(B) /\ m[o] \in Image(A) /\ g[m[o]] = f[o]
      <4>1. \A x \in A : x # o => m[x] # m[o]
        BY <3>1
      <4>. HIDE DEF o
      <4>. QED BY <3>1, <4>1
    <3>6. \A y \in Image(A) : g[y] \in Int
      OBVIOUS
    <3>7. IsFiniteSet(Image(A))
      BY <2>1, FS_Subset
    <3>. HIDE DEF o, B, Image
    <3>8. SumFunctionOnSet(g, Image(A)) = g[m[o]] + SumFunctionOnSet(g, Image(A) \ {m[o]})
      BY <3>5, <3>6, <3>7, SumSplit
    <3>. QED BY <3>3, <3>4, <3>5, <3>8
  <2>. QED BY <2>2, <2>3
<1>2. S \in G
  <2>1. \A A \in SUBSET S : (\A B \in SUBSET A : B # A => B \in G) => A \in G
    BY <1>1
  <2>. HIDE DEF G
  <2>. QED BY <2>1, SetInduction
<1>3. /\ Image(S) \subseteq T
      /\ \A y \in Image(S) : g[y] \in Int
      /\ \A y \in T \ Image(S) : g[y] = 0
  OBVIOUS
<1>4. SumFunctionOnSet(g, T) = SumFunctionOnSet(g, Image(S))
  <2>. HIDE DEF Image
  <2>. QED BY <1>3, SumExtended
<1>. QED BY <1>2, <1>4

(* The sum over part of a set, when one element enters, leaves or changes   *)
(* and counted for nothing before.                                          *)
LEMMA SumFiltered ==
    ASSUME NEW T, IsFiniteSet(T), NEW A \in SUBSET T, NEW v, \A x \in T : v[x] \in Int,
           NEW f, DOMAIN f = A, \A x \in A : f[x] = v[x]
    PROVE  SumFunction(f) = SumFunctionOnSet([x \in T |-> IF x \in A THEN v[x] ELSE 0], T)
<1>. DEFINE g == [x \in T |-> IF x \in A THEN v[x] ELSE 0]
<1>1. /\ \A x \in A : f[x] = g[x] /\ g[x] \in Int
      /\ \A x \in T \ A : g[x] = 0
  OBVIOUS
<1>2. IsFiniteSet(A)
  BY FS_Subset
<1>. HIDE DEF g
<1>3. SumFunctionOnSet(g, T) = SumFunctionOnSet(g, A)
  BY <1>1, SumExtended
<1>4. SumFunctionOnSet(f, A) = SumFunctionOnSet(g, A)
  BY <1>1, <1>2, SumSame
<1>. QED BY <1>3, <1>4, SumOver DEF g

Enters(x, T, A, B, v, w, before, after) ==
    /\ IsFiniteSet(T) /\ A \in SUBSET T /\ B \in SUBSET T /\ x \in T
    /\ \A y \in T : v[y] \in Int /\ w[y] \in Int
    /\ \A y \in T \ {x} : (y \in A <=> y \in B) /\ w[y] = v[y]
    /\ x \in A => v[x] = 0
    /\ DOMAIN before = A /\ \A y \in A : before[y] = v[y]
    /\ DOMAIN after = B /\ \A y \in B : after[y] = w[y]

(* When one element enters or leaves the set that is summed over, its own   *)
(* term is all that is gained.                                              *)
LEMMA SumEntered ==
    ASSUME NEW x, NEW T, NEW A, NEW B, NEW v, NEW w, NEW before, NEW after,
           Enters(x, T, A, B, v, w, before, after)
    PROVE  SumFunction(after) = SumFunction(before) + (IF x \in B THEN w[x] ELSE 0)
<1>. DEFINE f == [y \in T |-> IF y \in A THEN v[y] ELSE 0]
            g == [y \in T |-> IF y \in B THEN w[y] ELSE 0]
<1>0. IsFiniteSet(T)
  BY DEF Enters
<1>1. /\ \A y \in T : f[y] \in Int /\ g[y] \in Int
      /\ \A y \in T \ {x} : g[y] = f[y]
      /\ f[x] = 0 /\ g[x] = IF x \in B THEN w[x] ELSE 0
      /\ x \in T
  BY DEF Enters
<1>2. SumFunction(before) = SumFunctionOnSet(f, T)
  BY SumFiltered DEF Enters
<1>3. SumFunction(after) = SumFunctionOnSet(g, T)
  BY SumFiltered DEF Enters
<1>. HIDE DEF f, g
<1>4. SumFunctionOnSet(g, T) = SumFunctionOnSet(f, T) + (g[x] - f[x])
  BY <1>0, <1>1, SumUpdate
<1>5. SumFunctionOnSet(f, T) \in Int
  BY <1>0, <1>1, SumType
<1>. QED BY <1>1, <1>2, <1>3, <1>4, <1>5

-----------------------------------------------------------------------------
(* Sums of sums.                                                            *)

(* A table with the sums of its rows and of its columns.                    *)
Tabled(S, T, F, rows, column, columns) ==
    /\ IsFiniteSet(S) /\ IsFiniteSet(T)
    /\ \A s \in S, t \in T : F[s][t] \in Int /\ column[t][s] = F[s][t]
    /\ \A s \in S : rows[s] = SumFunctionOnSet(F[s], T)
    /\ \A t \in T : columns[t] = SumFunctionOnSet(column[t], S)

(* It may be added up by rows or by columns.                                *)
LEMMA SumSwap ==
    ASSUME NEW S, NEW T, NEW F, NEW rows, NEW column, NEW columns,
           Tabled(S, T, F, rows, column, columns)
    PROVE  SumFunctionOnSet(rows, S) = SumFunctionOnSet(columns, T)
<1>0. /\ IsFiniteSet(S) /\ IsFiniteSet(T)
      /\ \A s \in S, t \in T : F[s][t] \in Int
      /\ \A s \in S : rows[s] = SumFunctionOnSet(F[s], T)
      /\ \A t \in T, s \in S : column[t][s] = F[s][t]
      /\ \A t \in T : columns[t] = SumFunctionOnSet(column[t], S)
  BY DEF Tabled
<1>. USE <1>0
<1>. DEFINE upto(U) == [t \in T |-> SumFunctionOnSet(column[t], U)]
            G == {U \in SUBSET S : SumFunctionOnSet(rows, U) = SumFunctionOnSet(upto(U), T)}
<1>1. ASSUME NEW U \in SUBSET S, \A V \in SUBSET U : V # U => V \in G
      PROVE  SumFunctionOnSet(rows, U) = SumFunctionOnSet(upto(U), T)
  <2>. DEFINE o == OneOf(U)
              V == U \ {o}
  <2>1. IsFiniteSet(U) /\ IsFiniteSet(V)
    BY FS_Subset
  <2>2. CASE U = {}
    <3>1. \A t \in T : upto({})[t] = 0
      BY SumEmpty
    <3>. HIDE DEF upto
    <3>2. SumFunctionOnSet(upto({}), T) = 0
      BY <3>1, SumZero
    <3>. QED BY <2>2, <3>2, SumEmpty
  <2>3. CASE U # {}
    <3>1. o \in U /\ o \in S
      BY <2>3, OneOfIsIn
    <3>2. SumFunctionOnSet(rows, V) = SumFunctionOnSet(upto(V), T)
      <4>1. V \in SUBSET U /\ V # U
        BY <3>1
      <4>. HIDE DEF V, upto
      <4>. QED BY <1>1, <4>1
    <3>3. SumFunctionOnSet(rows, U) = rows[o] + SumFunctionOnSet(rows, V)
      BY <2>1, <2>3, SumStep
    <3>4. \A t \in T : /\ upto(U)[t] = F[o][t] + upto(V)[t]
                       /\ upto(V)[t] \in Int /\ F[o][t] \in Int
      <4>. SUFFICES ASSUME NEW t \in T
                    PROVE  /\ SumFunctionOnSet(column[t], U) = F[o][t] + SumFunctionOnSet(column[t], V)
                           /\ SumFunctionOnSet(column[t], V) \in Int /\ F[o][t] \in Int
        OBVIOUS
      <4>1. SumFunctionOnSet(column[t], U) = column[t][o] + SumFunctionOnSet(column[t], V)
        BY <2>1, <2>3, SumStep
      <4>2. \A s \in V : column[t][s] \in Int
        BY <3>1
      <4>3. SumFunctionOnSet(column[t], V) \in Int
        <5>. HIDE DEF V
        <5>. QED BY <2>1, <4>2, SumType
      <4>. QED BY <3>1, <4>1, <4>3
    <3>5. rows[o] = SumFunctionOnSet(F[o], T)
      BY <3>1
    <3>. HIDE DEF o, V, G, upto
    <3>6. SumFunctionOnSet(upto(U), T) = SumFunctionOnSet(F[o], T) + SumFunctionOnSet(upto(V), T)
      BY <3>4, SumOfSums
    <3>. QED BY <3>2, <3>3, <3>5, <3>6
  <2>. QED BY <2>2, <2>3
<1>2. S \in G
  <2>1. \A U \in SUBSET S : (\A V \in SUBSET U : V # U => V \in G) => U \in G
    BY <1>1
  <2>. HIDE DEF G
  <2>. QED BY <2>1, SetInduction
<1>3. SumFunctionOnSet(rows, S) = SumFunctionOnSet(upto(S), T)
  BY <1>2
<1>4. \A t \in T : upto(S)[t] = columns[t]
  OBVIOUS
<1>. HIDE DEF upto
<1>. QED BY <1>3, <1>4, SumSame

(* What is filed under one key each can be added up key by key.             *)
Filed(S, T, f, key, parts) ==
    /\ IsFiniteSet(S) /\ IsFiniteSet(T)
    /\ \A x \in S : key[x] \in T /\ f[x] \in Int
    /\ \A t \in T : parts[t] = SumFunctionOnSet(f, {x \in S : key[x] = t})

LEMMA SumByKey ==
    ASSUME NEW S, NEW T, NEW f, NEW key, NEW parts, Filed(S, T, f, key, parts)
    PROVE  SumFunctionOnSet(f, S) = SumFunctionOnSet(parts, T)
<1>. DEFINE F == [x \in S |-> [t \in T |-> IF key[x] = t THEN f[x] ELSE 0]]
            column == [t \in T |-> [x \in S |-> F[x][t]]]
            columns == [t \in T |-> SumFunctionOnSet(column[t], S)]
            rows == [x \in S |-> SumFunctionOnSet(F[x], T)]
<1>1. IsFiniteSet(S) /\ IsFiniteSet(T)
  BY DEF Filed
<1>2. \A x \in S, t \in T : F[x][t] \in Int
  BY DEF Filed
<1>3. \A x \in S : SumFunctionOnSet(F[x], T) = f[x]
  <2>. SUFFICES ASSUME NEW x \in S PROVE SumFunctionOnSet(F[x], T) = f[x]
    OBVIOUS
  <2>. DEFINE k == key[x]
              g == F[x]
  <2>1. /\ k \in T /\ {k} \subseteq T /\ g[k] = f[x] /\ f[x] \in Int
        /\ \A t \in {k} : g[t] \in Int
        /\ \A t \in T \ {k} : g[t] = 0
    BY DEF Filed
  <2>. HIDE DEF g, k
  <2>2. SumFunctionOnSet(g, T) = SumFunctionOnSet(g, {k})
    BY <1>1, <2>1, SumExtended
  <2>3. SumFunctionOnSet(g, {k}) = g[k]
    BY <2>1, SumSingle
  <2>. QED BY <2>1, <2>2, <2>3 DEF g
<1>4. \A t \in T : columns[t] = parts[t]
  <2>. SUFFICES ASSUME NEW t \in T PROVE SumFunctionOnSet(column[t], S) = parts[t]
    OBVIOUS
  <2>. DEFINE A == {x \in S : key[x] = t}
              g == column[t]
  <2>1. /\ A \subseteq S /\ \A x \in A : g[x] = f[x] /\ g[x] \in Int
        /\ \A x \in S \ A : g[x] = 0
        /\ parts[t] = SumFunctionOnSet(f, A)
    BY DEF Filed
  <2>2. IsFiniteSet(A)
    BY <1>1, FS_Subset
  <2>. HIDE DEF A, g
  <2>3. SumFunctionOnSet(g, S) = SumFunctionOnSet(g, A)
    BY <1>1, <2>1, SumExtended
  <2>4. SumFunctionOnSet(g, A) = SumFunctionOnSet(f, A)
    BY <2>1, <2>2, SumSame
  <2>. QED BY <2>1, <2>3, <2>4 DEF g
<1>5. /\ \A s \in S : rows[s] = SumFunctionOnSet(F[s], T)
      /\ \A t \in T, s \in S : column[t][s] = F[s][t]
      /\ \A t \in T : columns[t] = SumFunctionOnSet(column[t], S)
  OBVIOUS
<1>6. \A x \in S : rows[x] = f[x]
  BY <1>3, <1>5
<1>. HIDE DEF F, column, columns, rows
<1>7. SumFunctionOnSet(rows, S) = SumFunctionOnSet(columns, T)
  <2>1. Tabled(S, T, F, rows, column, columns)
    BY <1>1, <1>2, <1>5 DEF Tabled
  <2>. QED BY <2>1, SumSwap
<1>8. SumFunctionOnSet(rows, S) = SumFunctionOnSet(f, S)
  BY <1>1, <1>6, SumSame
<1>9. SumFunctionOnSet(columns, T) = SumFunctionOnSet(parts, T)
  BY <1>1, <1>4, SumSame
<1>. QED BY <1>7, <1>8, <1>9

(* Part of a sum, and the rest.                                             *)
LEMMA SumParted ==
    ASSUME NEW f, NEW T, IsFiniteSet(T), \A x \in T : f[x] \in Int, NEW A \in SUBSET T
    PROVE  SumFunctionOnSet(f, T) = SumFunctionOnSet(f, A) + SumFunctionOnSet(f, T \ A)
<1>. DEFINE g == [x \in T |-> IF x \in A THEN f[x] ELSE 0]
            h == [x \in T |-> IF x \in A THEN 0 ELSE f[x]]
            B == T \ A
<1>1. /\ \A x \in T : g[x] \in Int /\ h[x] \in Int /\ f[x] = g[x] + h[x]
      /\ \A x \in A : g[x] = f[x] /\ g[x] \in Int
      /\ \A x \in B : h[x] = f[x] /\ h[x] \in Int
      /\ \A x \in T \ A : g[x] = 0
      /\ \A x \in T \ B : h[x] = 0
      /\ B \subseteq T
  OBVIOUS
<1>2. IsFiniteSet(A) /\ IsFiniteSet(B)
  BY FS_Subset
<1>. HIDE DEF g, h, B
<1>3. SumFunctionOnSet(f, T) = SumFunctionOnSet(g, T) + SumFunctionOnSet(h, T)
  BY <1>1, SumOfSums
<1>4. SumFunctionOnSet(g, T) = SumFunctionOnSet(g, A) /\ SumFunctionOnSet(h, T) = SumFunctionOnSet(h, B)
  BY <1>1, SumExtended
<1>5. SumFunctionOnSet(g, A) = SumFunctionOnSet(f, A) /\ SumFunctionOnSet(h, B) = SumFunctionOnSet(f, B)
  BY <1>1, <1>2, SumSame
<1>. QED BY <1>3, <1>4, <1>5 DEF B

(* The sum of natural numbers is one.                                       *)
LEMMA SumIsNat ==
    ASSUME NEW f, NEW S, IsFiniteSet(S), \A x \in S : f[x] \in Nat
    PROVE  SumFunctionOnSet(f, S) \in Nat
<1>. DEFINE zero == [x \in S |-> 0]
<1>1. \A x \in S : zero[x] = 0 /\ zero[x] \in Int /\ f[x] \in Int /\ zero[x] <= f[x]
  OBVIOUS
<1>. HIDE DEF zero
<1>2. SumFunctionOnSet(zero, S) = 0
  BY <1>1, SumZero
<1>3. SumFunctionOnSet(zero, S) <= SumFunctionOnSet(f, S)
  BY <1>1, SumMonotone
<1>4. SumFunctionOnSet(f, S) \in Int
  BY <1>1, SumType
<1>. QED BY <1>2, <1>3, <1>4

(* A set any two members of which are the same.                             *)
LEMMA AtMostOne ==
    ASSUME NEW S, \A x, y \in S : x = y
    PROVE  IsFiniteSet(S) /\ Cardinality(S) \in {0, 1} /\ Cardinality(S) <= 1
<1>1. CASE S = {}
  BY <1>1, FS_EmptySet
<1>2. CASE S # {}
  <2>1. PICK x : S = {x}
    BY <1>2
  <2>2. IsFiniteSet({x}) /\ Cardinality({x}) = 1
    BY FS_Singleton
  <2>. QED BY <2>1, <2>2
<1>. QED BY <1>1, <1>2

(* What a function makes of a finite set is finite.                         *)
LEMMA ImageIsFinite ==
    ASSUME NEW S, IsFiniteSet(S), NEW f
    PROVE  IsFiniteSet({f[x] : x \in S})
<1>. DEFINE T == {f[x] : x \in S}
            g == [x \in S |-> f[x]]
<1>1. g \in Surjection(S, T)
  BY DEF Surjection
<1>. HIDE DEF T, g
<1>2. IsFiniteSet(T)
  BY <1>1, FS_Surjection
<1>. QED BY <1>2 DEF T
=============================================================================
