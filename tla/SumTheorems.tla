----------------------------- MODULE SumTheorems -----------------------------
(***************************************************************************)
(* Sums of an integer function over a finite set: what SumFunctionOnSet    *)
(* of the community module Functions computes, which its definition leaves *)
(* to a recursion over subsets. The balances and the trial balance are     *)
(* such sums. And what the columns keep of an amount, for any Quantum.     *)
(*                                                                         *)
(* Every induction here is that a non-empty set of finite sets has a       *)
(* minimal member, a fact about one relation and not a schema.             *)
(***************************************************************************)
EXTENDS Postings, Functions, FiniteSetTheorems, TLAPS

\* A property of finite sets, given as the set F of those subsets of S that have
\* it, holds of S when a set has it as soon as its strict subsets do.
LEMMA SubsetInduction ==
  ASSUME NEW S, IsFiniteSet(S), NEW F,
         \A T \in SUBSET S : (\A U \in SUBSET T : U # T => U \in F) => T \in F
  PROVE  \A T \in SUBSET S : T \in F
  <1> DEFINE Bad == (SUBSET S) \ F
  <1> SUFFICES ASSUME Bad # {} PROVE FALSE
    OBVIOUS
  <1>1. Bad \subseteq FiniteSubsetsOf(S)
    BY FS_FiniteSubsetsOfFinite
  <1>2. PICK T \in Bad : \A U \in Bad : <<U, T>> \notin StrictSubsetOrdering(S)
    <2> HIDE DEF Bad
    <2> QED BY <1>1, FS_StrictSubsetOrderingWellFounded, WFMin
  <1>3. \A U \in SUBSET T : U # T => U \in F
    BY <1>2 DEF StrictSubsetOrdering
  <1> QED BY <1>2, <1>3

\* The step of the recursion, and the functions that satisfy it.
SumStep(f, g, s) ==
  IF s = {} THEN 0 ELSE LET x == CHOOSE x \in s : TRUE IN f[x] + g[s \ {x}]

Solves(g, f, S) == g = [s \in SUBSET S |-> SumStep(f, g, s)]

Solution(f, S) == CHOOSE g : Solves(g, f, S)

LEMMA SumIsSolution ==
  ASSUME NEW f, NEW S
  PROVE  SumFunctionOnSet(f, S) = Solution(f, S)[S]
  BY DEF SumFunctionOnSet, FoldFunctionOnSet, MapThenFoldSet, Solution, Solves, SumStep

LEMMA SolutionsAgree ==
  ASSUME NEW f, NEW S, NEW T, IsFiniteSet(S), T \subseteq S,
         NEW g, NEW h, Solves(g, f, S), Solves(h, f, T)
  PROVE  \A s \in SUBSET T : g[s] = h[s]
  <1> DEFINE F == {s \in SUBSET T : g[s] = h[s]}
  <1>1. IsFiniteSet(T)
    BY FS_Subset
  <1>2. ASSUME NEW s \in SUBSET T, \A u \in SUBSET s : u # s => u \in F
        PROVE  s \in F
    <2>1. g[s] = SumStep(f, g, s) /\ h[s] = SumStep(f, h, s)
      BY DEF Solves
    <2>2. CASE s = {}
      BY <2>1, <2>2 DEF SumStep
    <2>3. CASE s # {}
      <3> DEFINE x == CHOOSE x \in s : TRUE
      <3>1. x \in s
        BY <2>3
      <3>2. s \ {x} \in F
        BY <1>2, <3>1
      <3> QED BY <2>1, <2>3, <3>2 DEF SumStep
    <2> QED BY <2>2, <2>3
  <1> HIDE DEF F
  <1>3. \A s \in SUBSET T : s \in F
    BY <1>1, <1>2, SubsetInduction
  <1> QED BY <1>3 DEF F

LEMMA SolutionExists ==
  ASSUME NEW f, NEW S, IsFiniteSet(S)
  PROVE  Solves(Solution(f, S), f, S)
  <1> DEFINE F == {T \in SUBSET S : Solves(Solution(f, T), f, T)}
  <1>1. ASSUME NEW T \in SUBSET S, \A U \in SUBSET T : U # T => U \in F
        PROVE  T \in F
    <2> DEFINE x == CHOOSE x \in T : TRUE
               last == IF T = {} THEN 0 ELSE f[x] + Solution(f, T \ {x})[T \ {x}]
               g == [s \in SUBSET T |-> IF s = T THEN last ELSE Solution(f, s)[s]]
    <2>1. ASSUME NEW s \in SUBSET T PROVE g[s] = SumStep(f, g, s)
      <3>1. CASE s = {}
        <4>1. CASE s = T
          BY <3>1, <4>1 DEF SumStep
        <4>2. CASE s # T
          <5>1. Solves(Solution(f, s), f, s)
            BY <1>1, <4>2
          <5>2. Solution(f, s)[s] = SumStep(f, Solution(f, s), s)
            BY <5>1 DEF Solves
          <5> QED BY <3>1, <4>2, <5>2 DEF SumStep
        <4> QED BY <4>1, <4>2
      <3>2. CASE s # {} /\ s = T
        <4>1. x \in T
          BY <3>2
        <4>2. g[s \ {x}] = Solution(f, T \ {x})[T \ {x}]
          BY <3>2, <4>1
        <4> QED BY <3>2, <4>2 DEF SumStep
      <3>3. CASE s # {} /\ s # T
        <4> DEFINE y == CHOOSE y \in s : TRUE
                   u == s \ {y}
        <4>1. y \in s /\ u # s /\ u # T /\ u \in SUBSET T
          BY <3>3
        <4>2. Solves(Solution(f, s), f, s) /\ Solves(Solution(f, u), f, u)
          BY <1>1, <3>3, <4>1
        <4>3. IsFiniteSet(s)
          BY FS_Subset
        <4>4. Solution(f, s)[u] = Solution(f, u)[u]
          BY <4>2, <4>3, SolutionsAgree
        <4>5. g[s] = Solution(f, s)[s] /\ g[u] = Solution(f, u)[u]
          BY <3>3, <4>1
        <4>6. Solution(f, s)[s] = SumStep(f, Solution(f, s), s)
          BY <4>2 DEF Solves
        <4> QED BY <3>3, <4>4, <4>5, <4>6 DEF SumStep
      <3> QED BY <3>1, <3>2, <3>3
    <2>2. Solves(g, f, T)
      <3> HIDE DEF last
      <3>1. [s \in SUBSET T |-> SumStep(f, g, s)] = [s \in SUBSET T |-> g[s]]
        BY <2>1
      <3> QED BY <3>1 DEF Solves
    <2> HIDE DEF g
    <2>3. Solves(Solution(f, T), f, T)
      BY <2>2 DEF Solution
    <2> QED BY <2>3
  <1> HIDE DEF F
  <1>2. S \in F
    BY <1>1, SubsetInduction
  <1> QED BY <1>2 DEF F

\* The equations of a sum.
LEMMA SumEmpty == \A f : SumFunctionOnSet(f, {}) = 0
  <1> SUFFICES ASSUME NEW f PROVE SumFunctionOnSet(f, {}) = 0
    OBVIOUS
  <1>1. Solves(Solution(f, {}), f, {})
    BY SolutionExists, FS_EmptySet
  <1>2. {} \in SUBSET {}
    OBVIOUS
  <1>3. \A g : Solves(g, f, {}) => g[{}] = SumStep(f, g, {})
    BY <1>2 DEF Solves
  <1> QED BY <1>1, <1>3, SumIsSolution DEF SumStep

LEMMA SumChosen ==
  ASSUME NEW f, NEW S, IsFiniteSet(S), S # {}
  PROVE  LET x == CHOOSE x \in S : TRUE
         IN  SumFunctionOnSet(f, S) = f[x] + SumFunctionOnSet(f, S \ {x})
  <1> DEFINE x == CHOOSE x \in S : TRUE
             T == S \ {x}
  <1>1. Solves(Solution(f, S), f, S) /\ Solves(Solution(f, T), f, T)
    BY SolutionExists, FS_Subset
  <1>2. Solution(f, S)[T] = Solution(f, T)[T]
    BY <1>1, SolutionsAgree
  <1>3. Solution(f, S)[S] = SumStep(f, Solution(f, S), S)
    BY <1>1 DEF Solves
  <1>4. Solution(f, S)[S] = f[x] + Solution(f, T)[T]
    BY <1>2, <1>3 DEF SumStep
  <1> QED BY <1>4, SumIsSolution

\* A set of numbers closed under addition contains the sums of its members.
LEMMA SumClosed ==
  ASSUME NEW S, IsFiniteSet(S), NEW M, 0 \in M, \A m, n \in M : m + n \in M,
         NEW f, \A x \in S : f[x] \in M
  PROVE  SumFunctionOnSet(f, S) \in M
  <1> DEFINE F == {T \in SUBSET S : SumFunctionOnSet(f, T) \in M}
  <1>1. ASSUME NEW T \in SUBSET S, \A U \in SUBSET T : U # T => U \in F
        PROVE  T \in F
    <2>1. CASE T = {}
      BY <2>1, SumEmpty
    <2>2. CASE T # {}
      <3> DEFINE x == CHOOSE x \in T : TRUE
      <3>1. x \in T /\ IsFiniteSet(T)
        BY <2>2, FS_Subset
      <3>2. SumFunctionOnSet(f, T) = f[x] + SumFunctionOnSet(f, T \ {x})
        BY <2>2, <3>1, SumChosen
      <3>3. T \ {x} \in F
        BY <1>1, <3>1
      <3> QED BY <3>1, <3>2, <3>3
    <2> QED BY <2>1, <2>2
  <1> HIDE DEF F
  <1>2. S \in F
    BY <1>1, SubsetInduction
  <1> QED BY <1>2 DEF F

LEMMA SumType ==
  ASSUME NEW S, IsFiniteSet(S), NEW f, \A x \in S : f[x] \in Int
  PROVE  SumFunctionOnSet(f, S) \in Int
  BY SumClosed

\* Any member may be taken out first, not only the chosen one.
LEMMA SumRemove ==
  ASSUME NEW S, IsFiniteSet(S), NEW f, \A x \in S : f[x] \in Int
  PROVE  \A x \in S : SumFunctionOnSet(f, S) = f[x] + SumFunctionOnSet(f, S \ {x})
  <1> DEFINE F == {T \in SUBSET S : \A x \in T :
                     SumFunctionOnSet(f, T) = f[x] + SumFunctionOnSet(f, T \ {x})}
  <1>1. ASSUME NEW T \in SUBSET S, \A U \in SUBSET T : U # T => U \in F
        PROVE  T \in F
    <2> SUFFICES ASSUME NEW x \in T
                 PROVE  SumFunctionOnSet(f, T) = f[x] + SumFunctionOnSet(f, T \ {x})
      OBVIOUS
    <2> DEFINE c == CHOOSE c \in T : TRUE
               rest == T \ {x, c}
    <2>1. c \in T /\ IsFiniteSet(T)
      BY FS_Subset
    <2>2. SumFunctionOnSet(f, T) = f[c] + SumFunctionOnSet(f, T \ {c})
      BY <2>1, SumChosen
    <2>3. CASE x = c
      BY <2>2, <2>3
    <2>4. CASE x # c
      <3>1. T \ {c} \in F /\ T \ {x} \in F
        BY <1>1, <2>1
      <3>2. (T \ {c}) \ {x} = rest /\ (T \ {x}) \ {c} = rest
        OBVIOUS
      <3>3. SumFunctionOnSet(f, T \ {c}) = f[x] + SumFunctionOnSet(f, rest)
        BY <2>4, <3>1, <3>2
      <3>4. SumFunctionOnSet(f, T \ {x}) = f[c] + SumFunctionOnSet(f, rest)
        BY <2>1, <2>4, <3>1, <3>2
      <3>5. SumFunctionOnSet(f, rest) \in Int
        BY FS_Subset, SumType
      <3> HIDE DEF c, rest
      <3> QED BY <2>1, <2>2, <3>3, <3>4, <3>5
    <2> QED BY <2>3, <2>4
  <1> HIDE DEF F
  <1>2. S \in F
    BY <1>1, SubsetInduction
  <1> QED BY <1>2 DEF F

LEMMA SumAdd ==
  ASSUME NEW S, IsFiniteSet(S), NEW x, x \notin S,
         NEW f, \A y \in S \cup {x} : f[y] \in Int
  PROVE  SumFunctionOnSet(f, S \cup {x}) = SumFunctionOnSet(f, S) + f[x]
  <1>1. IsFiniteSet(S \cup {x}) /\ (S \cup {x}) \ {x} = S
    BY FS_AddElement
  <1>2. SumFunctionOnSet(f, S) \in Int
    BY SumType
  <1> QED BY <1>1, <1>2, SumRemove

\* A sum depends on the values of the function only.
LEMMA SumSame ==
  ASSUME NEW S, IsFiniteSet(S), NEW f, NEW g, \A x \in S : f[x] = g[x]
  PROVE  SumFunctionOnSet(f, S) = SumFunctionOnSet(g, S)
  <1> DEFINE F == {T \in SUBSET S : SumFunctionOnSet(f, T) = SumFunctionOnSet(g, T)}
  <1>1. ASSUME NEW T \in SUBSET S, \A U \in SUBSET T : U # T => U \in F
        PROVE  T \in F
    <2>1. CASE T = {}
      BY <2>1, SumEmpty
    <2>2. CASE T # {}
      <3> DEFINE x == CHOOSE x \in T : TRUE
      <3>1. x \in T /\ IsFiniteSet(T)
        BY <2>2, FS_Subset
      <3>2. SumFunctionOnSet(f, T) = f[x] + SumFunctionOnSet(f, T \ {x})
        BY <2>2, <3>1, SumChosen
      <3>3. SumFunctionOnSet(g, T) = g[x] + SumFunctionOnSet(g, T \ {x})
        BY <2>2, <3>1, SumChosen
      <3>4. T \ {x} \in F
        BY <1>1, <3>1
      <3> QED BY <3>1, <3>2, <3>3, <3>4
    <2> QED BY <2>1, <2>2
  <1> HIDE DEF F
  <1>2. S \in F
    BY <1>1, SubsetInduction
  <1> QED BY <1>2 DEF F

LEMMA SumOfZeros ==
  ASSUME NEW S, IsFiniteSet(S), NEW f, \A x \in S : f[x] = 0
  PROVE  SumFunctionOnSet(f, S) = 0
  <1> DEFINE F == {T \in SUBSET S : SumFunctionOnSet(f, T) = 0}
  <1>1. ASSUME NEW T \in SUBSET S, \A U \in SUBSET T : U # T => U \in F
        PROVE  T \in F
    <2>1. CASE T = {}
      BY <2>1, SumEmpty
    <2>2. CASE T # {}
      <3> DEFINE x == CHOOSE x \in T : TRUE
      <3>1. x \in T /\ IsFiniteSet(T)
        BY <2>2, FS_Subset
      <3>2. SumFunctionOnSet(f, T) = f[x] + SumFunctionOnSet(f, T \ {x})
        BY <2>2, <3>1, SumChosen
      <3>3. T \ {x} \in F
        BY <1>1, <3>1
      <3> QED BY <3>1, <3>2, <3>3
    <2> QED BY <2>1, <2>2
  <1> HIDE DEF F
  <1>2. S \in F
    BY <1>1, SubsetInduction
  <1> QED BY <1>2 DEF F

\* A sum is that over a part and that over the rest.
LEMMA SumSplit ==
  ASSUME NEW S, IsFiniteSet(S), NEW f, \A x \in S : f[x] \in Int, NEW P \in SUBSET S
  PROVE  SumFunctionOnSet(f, S) = SumFunctionOnSet(f, P) + SumFunctionOnSet(f, S \ P)
  <1> DEFINE F == {T \in SUBSET S : SumFunctionOnSet(f, T)
                     = SumFunctionOnSet(f, T \cap P) + SumFunctionOnSet(f, T \ P)}
  <1>1. ASSUME NEW T \in SUBSET S, \A U \in SUBSET T : U # T => U \in F
        PROVE  T \in F
    <2>1. CASE T = {}
      <3>1. T \cap P = {} /\ T \ P = {}
        BY <2>1
      <3> QED BY <2>1, <3>1, SumEmpty
    <2>2. CASE T # {}
      <3> DEFINE x == CHOOSE x \in T : TRUE
                 U == T \ {x}
      <3>1. x \in T /\ IsFiniteSet(T) /\ U \in F
        BY <1>1, <2>2, FS_Subset
      <3>2. SumFunctionOnSet(f, T) = f[x] + SumFunctionOnSet(f, U)
        BY <2>2, <3>1, SumChosen
      <3>3. SumFunctionOnSet(f, U) = SumFunctionOnSet(f, U \cap P) + SumFunctionOnSet(f, U \ P)
        BY <3>1
      <3>4. /\ IsFiniteSet(U \cap P) /\ IsFiniteSet(U \ P)
            /\ \A y \in T : f[y] \in Int
        BY <3>1, FS_Subset
      <3>5. SumFunctionOnSet(f, U \cap P) \in Int /\ SumFunctionOnSet(f, U \ P) \in Int
        BY <3>4, SumType
      <3> HIDE DEF x
      <3>6. CASE x \in P
        <4>1. T \cap P = (U \cap P) \cup {x} /\ T \ P = U \ P /\ x \notin U \cap P
          BY <3>1, <3>6
        <4>2. SumFunctionOnSet(f, T \cap P) = SumFunctionOnSet(f, U \cap P) + f[x]
          BY <3>1, <3>4, <4>1, SumAdd
        <4>3. SumFunctionOnSet(f, T \ P) = SumFunctionOnSet(f, U \ P)
          BY <4>1
        <4>4. SumFunctionOnSet(f, T)
                = SumFunctionOnSet(f, T \cap P) + SumFunctionOnSet(f, T \ P)
          <5> HIDE DEF U
          <5> QED BY <3>1, <3>2, <3>3, <3>4, <3>5, <4>2, <4>3
        <4> QED BY <4>4
      <3>7. CASE x \notin P
        <4>1. T \ P = (U \ P) \cup {x} /\ T \cap P = U \cap P /\ x \notin U \ P
          BY <3>1, <3>7
        <4>2. SumFunctionOnSet(f, T \ P) = SumFunctionOnSet(f, U \ P) + f[x]
          BY <3>1, <3>4, <4>1, SumAdd, ZenonT(40)
        <4>3. SumFunctionOnSet(f, T \cap P) = SumFunctionOnSet(f, U \cap P)
          BY <4>1
        <4>4. SumFunctionOnSet(f, T)
                = SumFunctionOnSet(f, T \cap P) + SumFunctionOnSet(f, T \ P)
          <5> HIDE DEF U
          <5> QED BY <3>1, <3>2, <3>3, <3>4, <3>5, <4>2, <4>3
        <4> QED BY <4>4
      <3> QED BY <3>6, <3>7
    <2> QED BY <2>1, <2>2
  <1> HIDE DEF F
  <1>2. S \in F
    BY <1>1, SubsetInduction
  <1>3. S \cap P = P
    OBVIOUS
  <1> QED BY <1>2, <1>3 DEF F

\* When one value changes, so does the sum, by as much.
LEMMA SumChange ==
  ASSUME NEW S, IsFiniteSet(S), NEW x \in S, NEW f, NEW g,
         \A y \in S : f[y] \in Int, g[x] \in Int,
         \A y \in S \ {x} : g[y] = f[y]
  PROVE  SumFunctionOnSet(g, S) = SumFunctionOnSet(f, S) + (g[x] - f[x])
  <1>1. SumFunctionOnSet(f, S) = f[x] + SumFunctionOnSet(f, S \ {x})
    BY SumRemove
  <1>2. SumFunctionOnSet(g, S) = g[x] + SumFunctionOnSet(g, S \ {x})
    <2>1. \A y \in S : g[y] \in Int
      OBVIOUS
    <2> QED BY <2>1, SumRemove
  <1>3. IsFiniteSet(S \ {x})
    BY FS_RemoveElement
  <1>4. SumFunctionOnSet(g, S \ {x}) = SumFunctionOnSet(f, S \ {x})
    BY <1>3, SumSame
  <1>5. SumFunctionOnSet(f, S \ {x}) \in Int
    BY <1>3, SumType
  <1> QED BY <1>1, <1>2, <1>4, <1>5

\* The sum of sums is the sum of the pointwise sum.
LEMMA SumPointwise ==
  ASSUME NEW S, IsFiniteSet(S), NEW f, NEW g, NEW h,
         \A x \in S : f[x] \in Int /\ g[x] \in Int /\ h[x] = f[x] + g[x]
  PROVE  SumFunctionOnSet(h, S) = SumFunctionOnSet(f, S) + SumFunctionOnSet(g, S)
  <1> DEFINE F == {T \in SUBSET S : SumFunctionOnSet(h, T)
                     = SumFunctionOnSet(f, T) + SumFunctionOnSet(g, T)}
  <1>1. ASSUME NEW T \in SUBSET S, \A U \in SUBSET T : U # T => U \in F
        PROVE  T \in F
    <2>1. CASE T = {}
      BY <2>1, SumEmpty
    <2>2. CASE T # {}
      <3> DEFINE x == CHOOSE x \in T : TRUE
                 U == T \ {x}
      <3>1. x \in T /\ IsFiniteSet(T) /\ IsFiniteSet(U)
        BY <2>2, FS_Subset
      <3>2. /\ SumFunctionOnSet(f, T) = f[x] + SumFunctionOnSet(f, U)
            /\ SumFunctionOnSet(g, T) = g[x] + SumFunctionOnSet(g, U)
            /\ SumFunctionOnSet(h, T) = h[x] + SumFunctionOnSet(h, U)
        BY <2>2, <3>1, SumChosen
      <3>3. SumFunctionOnSet(h, U) = SumFunctionOnSet(f, U) + SumFunctionOnSet(g, U)
        BY <1>1, <3>1
      <3>4. SumFunctionOnSet(f, U) \in Int /\ SumFunctionOnSet(g, U) \in Int
        BY <3>1, SumType
      <3> HIDE DEF x, U
      <3> QED BY <3>1, <3>2, <3>3, <3>4
    <2> QED BY <2>1, <2>2
  <1> HIDE DEF F
  <1>2. S \in F
    BY <1>1, SubsetInduction
  <1> QED BY <1>2 DEF F

\* The rows and the columns of a finite table add up to the same.
LEMMA SumSwap ==
  ASSUME NEW S, IsFiniteSet(S), NEW R, IsFiniteSet(R), NEW f,
         \A x \in S, y \in R : f[x][y] \in Int
  PROVE  SumFunctionOnSet([x \in S |-> SumFunctionOnSet(f[x], R)], S)
       = SumFunctionOnSet([y \in R |-> SumFunctionOnSet([x \in S |-> f[x][y]], S)], R)
  <1> DEFINE Row == [x \in S |-> SumFunctionOnSet(f[x], R)]
             Col(T) == [y \in R |-> SumFunctionOnSet([x \in S |-> f[x][y]], T)]
             F == {T \in SUBSET S : SumFunctionOnSet(Row, T) = SumFunctionOnSet(Col(T), R)}
  <1>1. ASSUME NEW T \in SUBSET S, \A U \in SUBSET T : U # T => U \in F
        PROVE  T \in F
    <2>1. CASE T = {}
      <3>1. \A y \in R : Col(T)[y] = 0
        BY <2>1, SumEmpty
      <3>2. SumFunctionOnSet(Col(T), R) = 0
        <4> HIDE DEF Col
        <4> QED BY <3>1, SumOfZeros
      <3> QED BY <2>1, <3>2, SumEmpty
    <2>2. CASE T # {}
      <3> DEFINE x == CHOOSE x \in T : TRUE
                 U == T \ {x}
      <3>1. x \in T /\ IsFiniteSet(T) /\ IsFiniteSet(U) /\ U \in F
        BY <1>1, <2>2, FS_Subset
      <3>2. SumFunctionOnSet(Row, T) = Row[x] + SumFunctionOnSet(Row, U)
        BY <2>2, <3>1, SumChosen
      <3>3. ASSUME NEW y \in R
            PROVE  /\ f[x][y] \in Int /\ Col(U)[y] \in Int
                   /\ Col(T)[y] = f[x][y] + Col(U)[y]
        <4> DEFINE c == [z \in S |-> f[z][y]]
        <4>1. \A z \in S : c[z] \in Int
          OBVIOUS
        <4>2. c[x] = f[x][y]
          BY <3>1
        <4> HIDE DEF c, x
        <4>3. SumFunctionOnSet(c, T) = c[x] + SumFunctionOnSet(c, U)
          BY <3>1, <4>1, SumRemove
        <4>4. SumFunctionOnSet(c, U) \in Int
          BY <3>1, <4>1, SumType
        <4> QED BY <3>1, <4>2, <4>3, <4>4 DEF c
      <3>4. SumFunctionOnSet(Col(T), R) = SumFunctionOnSet(f[x], R) + SumFunctionOnSet(Col(U), R)
        <4> HIDE DEF Col, x
        <4> QED BY <3>3, SumPointwise
      <3>5. SumFunctionOnSet(Row, U) = SumFunctionOnSet(Col(U), R)
        BY <3>1
      <3>6. Row[x] = SumFunctionOnSet(f[x], R)
        BY <3>1
      <3> QED BY <3>2, <3>4, <3>5, <3>6
    <2> QED BY <2>1, <2>2
  <1> HIDE DEF F
  <1>2. S \in F
    BY <1>1, SubsetInduction
  <1> QED BY <1>2 DEF F

LEMMA SumOne ==
  ASSUME NEW f, NEW x, f[x] \in Int
  PROVE  SumFunctionOnSet(f, {x}) = f[x]
  <1>1. IsFiniteSet({}) /\ {} \cup {x} = {x} /\ x \notin {}
    BY FS_EmptySet
  <1>2. SumFunctionOnSet(f, {} \cup {x}) = SumFunctionOnSet(f, {}) + f[x]
    BY <1>1, SumAdd
  <1> QED BY <1>1, <1>2, SumEmpty

\* What is left out counts for nothing.
LEMMA SumWhere ==
  ASSUME NEW S, IsFiniteSet(S), NEW P \in SUBSET S, NEW f, NEW g,
         \A x \in P : f[x] \in Int /\ g[x] = f[x], \A x \in S \ P : g[x] = 0
  PROVE  SumFunctionOnSet(g, S) = SumFunctionOnSet(f, P)
  <1>1. IsFiniteSet(P) /\ IsFiniteSet(S \ P) /\ \A x \in S : g[x] \in Int
    BY FS_Subset
  <1>2. SumFunctionOnSet(g, P) = SumFunctionOnSet(f, P)
    BY <1>1, SumSame
  <1>3. SumFunctionOnSet(g, S \ P) = 0
    BY <1>1, SumOfZeros
  <1>4. SumFunctionOnSet(f, P) \in Int
    BY <1>1, SumType
  <1>5. SumFunctionOnSet(g, S) = SumFunctionOnSet(g, P) + SumFunctionOnSet(g, S \ P)
    BY <1>1, SumSplit
  <1> QED BY <1>2, <1>3, <1>4, <1>5

LEMMA SumNegated ==
  ASSUME NEW S, IsFiniteSet(S), NEW f, NEW g, \A x \in S : f[x] \in Int /\ g[x] = -f[x]
  PROVE  SumFunctionOnSet(g, S) = -SumFunctionOnSet(f, S)
  <1> DEFINE h == [x \in S |-> 0]
  <1>1. \A x \in S : f[x] \in Int /\ g[x] \in Int /\ h[x] = f[x] + g[x] /\ h[x] = 0
    OBVIOUS
  <1> HIDE DEF h
  <1>2. SumFunctionOnSet(h, S) = SumFunctionOnSet(f, S) + SumFunctionOnSet(g, S)
    BY <1>1, SumPointwise
  <1>3. SumFunctionOnSet(h, S) = 0
    BY <1>1, SumOfZeros
  <1>4. SumFunctionOnSet(f, S) \in Int /\ SumFunctionOnSet(g, S) \in Int
    BY <1>1, SumType
  <1> QED BY <1>2, <1>3, <1>4

\* A sum may be taken class by class.
LEMMA SumPartition ==
  ASSUME NEW S, IsFiniteSet(S), NEW R, IsFiniteSet(R), NEW key \in [S -> R],
         NEW f, \A x \in S : f[x] \in Int
  PROVE  SumFunctionOnSet(f, S)
       = SumFunctionOnSet([k \in R |-> SumFunctionOnSet(f, {x \in S : key[x] = k})], R)
  <1> DEFINE table == [x \in S |-> [k \in R |-> IF key[x] = k THEN f[x] ELSE 0]]
             class(k) == {x \in S : key[x] = k}
  <1>1. \A x \in S, k \in R : table[x][k] \in Int
    OBVIOUS
  <1>2. ASSUME NEW x \in S PROVE SumFunctionOnSet(table[x], R) = f[x]
    <2> DEFINE g == table[x]
    <2>1. /\ key[x] \in R /\ g[key[x]] = f[x] /\ f[x] \in Int
          /\ \A k \in R \ {key[x]} : g[k] = 0
      OBVIOUS
    <2>2. SumFunctionOnSet(g, {key[x]}) = f[x]
      <3> HIDE DEF g
      <3> QED BY <2>1, SumOne
    <2>3. SumFunctionOnSet(g, R) = SumFunctionOnSet(g, {key[x]})
      <3>1. {key[x]} \in SUBSET R
        BY <2>1
      <3> HIDE DEF g
      <3> QED BY <2>1, <3>1, SumWhere
    <2> QED BY <2>2, <2>3
  <1>3. ASSUME NEW k \in R
        PROVE  SumFunctionOnSet([x \in S |-> table[x][k]], S) = SumFunctionOnSet(f, class(k))
    <2> DEFINE g == [x \in S |-> table[x][k]]
               P == class(k)
    <2>1. /\ P \in SUBSET S
          /\ \A x \in P : f[x] \in Int /\ g[x] = f[x]
          /\ \A x \in S \ P : g[x] = 0
      OBVIOUS
    <2> HIDE DEF g, P
    <2>2. SumFunctionOnSet(g, S) = SumFunctionOnSet(f, P)
      BY <2>1, SumWhere
    <2> QED BY <2>2 DEF g, P
  <1>4. SumFunctionOnSet([x \in S |-> SumFunctionOnSet(table[x], R)], S)
      = SumFunctionOnSet([k \in R |-> SumFunctionOnSet([x \in S |-> table[x][k]], S)], R)
    <2> HIDE DEF table
    <2> QED BY <1>1, IsFiniteSet(S), IsFiniteSet(R), SumSwap, ZenonT(60)
  <1>5. SumFunctionOnSet([x \in S |-> SumFunctionOnSet(table[x], R)], S) = SumFunctionOnSet(f, S)
    <2> DEFINE g == [x \in S |-> SumFunctionOnSet(table[x], R)]
    <2>1. \A x \in S : g[x] = f[x]
      BY <1>2
    <2> HIDE DEF g
    <2>2. SumFunctionOnSet(g, S) = SumFunctionOnSet(f, S)
      BY <2>1, SumSame
    <2> QED BY <2>2 DEF g
  <1>6. [k \in R |-> SumFunctionOnSet([x \in S |-> table[x][k]], S)]
      = [k \in R |-> SumFunctionOnSet(f, class(k))]
    BY <1>3
  <1> QED BY <1>4, <1>5, <1>6

\* The terms may be named by other things, one to one.
LEMMA SumRenamed ==
  ASSUME NEW S, IsFiniteSet(S), NEW T, NEW name \in Bijection(S, T),
         NEW f, NEW g, \A x \in S : f[x] \in Int /\ g[name[x]] = f[x]
  PROVE  SumFunctionOnSet(g, T) = SumFunctionOnSet(f, S)
  <1>1. /\ name \in Surjection(S, T) /\ name \in [S -> T]
        /\ \A x, y \in S : name[x] = name[y] => x = y
        /\ \A y \in T : \E x \in S : name[x] = y
    BY DEF Bijection, Injection, Surjection, IsInjective
  <1>2. IsFiniteSet(T)
    BY <1>1, FS_Surjection
  <1> DEFINE class(y) == {x \in S : name[x] = y}
             h == [y \in T |-> SumFunctionOnSet(f, class(y))]
  <1>3. SumFunctionOnSet(f, S) = SumFunctionOnSet(h, T)
    BY <1>1, <1>2, SumPartition
  <1>4. ASSUME NEW y \in T PROVE h[y] = g[y]
    <2>1. PICK x \in S : name[x] = y
      BY <1>1
    <2>2. class(y) = {x}
      BY <1>1, <2>1
    <2>3. SumFunctionOnSet(f, {x}) = f[x]
      BY SumOne
    <2> QED BY <2>1, <2>2, <2>3
  <1> HIDE DEF h
  <1>5. SumFunctionOnSet(h, T) = SumFunctionOnSet(g, T)
    BY <1>2, <1>4, SumSame
  <1> QED BY <1>3, <1>5

-----------------------------------------------------------------------------
(***************************************************************************)
(* Rounding: what a NUMERIC(18, 4) column keeps of an amount.              *)
(***************************************************************************)
\* A quotient is known by its remainder.
LEMMA Quotient ==
  ASSUME NEW d \in Nat \ {0}, NEW k \in Int, NEW r \in 0..(d - 1)
  PROVE  (k * d + r) \div d = k /\ (k * d + r) % d = r
OBVIOUS

\* Every amount is some number of Quantums and a rest.
LEMMA Parts ==
  ASSUME NEW n \in Int
  PROVE  \E k \in Int, r \in 0..(Quantum - 1) : n = k * Quantum + r /\ n % Quantum = r
<1>1. PICK q \in Nat \ {0} : q = Quantum
  BY QuantumAssumption
<1>2. n = (n \div q) * q + (n % q) /\ n % q \in 0..(q - 1) /\ n \div q \in Int
  OBVIOUS
<1> QED
  BY <1>1, <1>2

\* What the column keeps of an amount that is not negative.
LEMMA StoredParts ==
  ASSUME NEW k \in Nat, NEW r \in 0..(Quantum - 1)
  PROVE  Stored(k * Quantum + r) = IF 2 * r < Quantum THEN k * Quantum ELSE k * Quantum + Quantum
<1>1. PICK q \in Nat \ {0} : q = Quantum
  BY QuantumAssumption
<1>2. k * q + r \in Nat
  BY <1>1
<1>3. CASE 2 * r < q
  <2>1. 2 * (k * q + r) + q = k * (2 * q) + (2 * r + q)
    BY <1>1
  <2>2. (k * (2 * q) + (2 * r + q)) \div (2 * q) = k
    BY <1>1, <1>3, Quotient
  <2> QED
    BY <1>1, <1>2, <1>3, <2>1, <2>2 DEF Stored
<1>4. CASE ~(2 * r < q)
  <2>1. 2 * (k * q + r) + q = (k + 1) * (2 * q) + (2 * r - q)
    BY <1>1
  <2>2. ((k + 1) * (2 * q) + (2 * r - q)) \div (2 * q) = k + 1
    BY <1>1, <1>4, Quotient
  <2> QED
    BY <1>1, <1>2, <1>4, <2>1, <2>2 DEF Stored
<1> QED
  BY <1>1, <1>3, <1>4

LEMMA StoredNegated == ASSUME NEW n \in Int PROVE Stored(-n) = -Stored(n)
<1>1. PICK q \in Nat \ {0} : q = Quantum
  BY QuantumAssumption
<1> DEFINE kept(size) == ((2 * size + q) \div (2 * q)) * q
<1>2. kept(0) = 0
  <2>1. (0 * (2 * q) + q) \div (2 * q) = 0
    BY <1>1, Quotient
  <2> QED
    BY <1>1, <2>1
<1>3. \A size \in Int : kept(size) \in Int
  OBVIOUS
<1>4. \A m \in Int : Stored(m) = IF m < 0 THEN -kept(-m) ELSE kept(m)
  BY <1>1 DEF Stored
<1> HIDE DEF kept
<1> QED
  BY <1>2, <1>3, <1>4

\* What a column can hold: the multiples of Quantum.
Column == {n \in Int : Whole(n)}

LEMMA ColumnIs == \A n \in Int : n \in Column <=> \E k \in Int : n = k * Quantum
<1> SUFFICES ASSUME NEW n \in Int
             PROVE  n \in Column <=> \E k \in Int : n = k * Quantum
  OBVIOUS
<1>1. PICK k \in Int, r \in 0..(Quantum - 1) : n = k * Quantum + r /\ n % Quantum = r
  BY Parts
<1>2. PICK q \in Nat \ {0} : q = Quantum
  BY QuantumAssumption
<1>3. ASSUME NEW j \in Int, n = j * Quantum PROVE n % Quantum = 0
  <2>1. (j * q + 0) % q = 0
    BY <1>2, Quotient
  <2> QED
    BY <1>2, <1>3, <2>1
<1>4. CASE n % Quantum = 0
  BY <1>1, <1>2, <1>4 DEF Column, Whole
<1>5. CASE n % Quantum # 0
  BY <1>3, <1>5 DEF Column, Whole
<1> QED
  BY <1>4, <1>5

LEMMA ColumnClosed ==
  /\ 0 \in Column
  /\ \A m, n \in Column : m + n \in Column /\ m - n \in Column /\ -m \in Column
  /\ Quantum \in Column
<1>1. PICK q \in Nat \ {0} : q = Quantum
  BY QuantumAssumption
<1>2. 0 = 0 * q /\ q = 1 * q
  OBVIOUS
<1>3. ASSUME NEW m \in Column, NEW n \in Column
      PROVE  m + n \in Column /\ m - n \in Column /\ -m \in Column
  <2>0. m \in Int /\ n \in Int
    BY DEF Column
  <2>1. PICK j \in Int, k \in Int : m = j * q /\ n = k * q
    BY <1>1, <2>0, ColumnIs
  <2>2. m + n = (j + k) * q /\ m - n = (j - k) * q /\ -m = (-j) * q
    BY <2>1
  <2>3. /\ m + n \in Int /\ m - n \in Int /\ -m \in Int
        /\ j + k \in Int /\ j - k \in Int /\ -j \in Int
    BY <2>0
  <2> QED
    BY <1>1, <2>2, <2>3, ColumnIs, ZenonT(30)
<1> QED
  BY <1>1, <1>2, <1>3, ColumnIs

\* A column keeps what it can hold, and for the rest the nearest amount it can.
LEMMA StoredFacts ==
  ASSUME NEW n \in Int
  PROVE  /\ Stored(n) \in Column
         /\ n \in Column => Stored(n) = n
         /\ n >= 0 => Stored(n) >= 0
         /\ 2 * (Stored(n) - n) <= Quantum /\ 2 * (n - Stored(n)) <= Quantum
<1> DEFINE P(m) == /\ Stored(m) \in Column
                   /\ m \in Column => Stored(m) = m
                   /\ m >= 0 => Stored(m) >= 0
                   /\ 2 * (Stored(m) - m) <= Quantum /\ 2 * (m - Stored(m)) <= Quantum
<1>1. PICK q \in Nat \ {0} : q = Quantum
  BY QuantumAssumption
<1>2. ASSUME NEW m \in Nat PROVE P(m)
  <2>1. PICK k \in Int, r \in 0..(q - 1) : m = k * q + r /\ m % q = r
    BY <1>1, Parts
  <2>2. k \in Nat
    BY <2>1
  <2>3. Stored(m) = IF 2 * r < q THEN k * q ELSE k * q + q
    BY <1>1, <2>1, <2>2, StoredParts
  <2>4. k * q \in Column /\ k * q + q \in Column
    <3>1. k * q \in Int /\ k \in Int
      OBVIOUS
    <3>2. k * q \in Column
      BY <1>1, <3>1, ColumnIs, Zenon
    <3> QED
      BY <1>1, <3>2, ColumnClosed
  <2>5. m \in Column => r = 0
    BY <1>1, <2>1 DEF Column, Whole
  <2> QED
    BY <1>1, <2>1, <2>2, <2>3, <2>4, <2>5
<1>3. CASE n >= 0
  BY <1>2, <1>3
<1>4. CASE n < 0
  <2>1. -n \in Nat /\ P(-n) /\ n = -(-n)
    BY <1>2, <1>4
  <2>2. Stored(n) = -Stored(-n) /\ Stored(-n) \in Int
    BY <2>1, StoredNegated DEF Column
  <2>3. Stored(n) \in Column /\ (n \in Column => -n \in Column)
    BY <2>1, <2>2, ColumnClosed
  <2> QED
    BY <1>1, <1>4, <2>1, <2>2, <2>3
<1> QED
  BY <1>3, <1>4

\* Adding to a balance rounds like the amount alone; subtracting too, but for the
\* half-way amounts, which round up either way.
LEMMA StoredSums ==
  ASSUME NEW b \in Column, b >= 0, NEW x \in Nat
  PROVE  /\ Stored(b + x) = b + Stored(x)
         /\ b - x >= 0 => Stored(b - x) = b - Stored(x) + IF HalfWay(x) THEN Quantum ELSE 0
<1>1. PICK q \in Nat \ {0} : q = Quantum
  BY QuantumAssumption
<1>2. PICK j \in Int : b = j * q
  BY <1>1, ColumnIs DEF Column
<1>3. j \in Nat /\ b \in Int
  BY <1>2 DEF Column
<1>4. PICK k \in Int, r \in 0..(q - 1) : x = k * q + r /\ x % q = r
  BY <1>1, Parts
<1>5. k \in Nat
  BY <1>4
<1>6. Stored(x) = IF 2 * r < q THEN k * q ELSE k * q + q
  BY <1>1, <1>4, <1>5, StoredParts
<1>7. Stored(b + x) = b + Stored(x)
  <2>1. b + x = (j + k) * q + r /\ j + k \in Nat
    BY <1>2, <1>3, <1>4, <1>5
  <2>2. Stored(b + x) = IF 2 * r < q THEN (j + k) * q ELSE (j + k) * q + q
    BY <1>1, <1>4, <2>1, StoredParts
  <2> QED
    BY <1>2, <1>6, <2>2
<1>8. ASSUME b - x >= 0
      PROVE  Stored(b - x) = b - Stored(x) + IF 2 * r = q THEN q ELSE 0
  <2>1. CASE r = 0
    <3>1. b - x = (j - k) * q + 0 /\ j - k \in Nat
      BY <1>2, <1>3, <1>4, <1>5, <1>8, <2>1
    <3>2. 2 * 0 < Quantum /\ 0 \in 0..(Quantum - 1)
      BY <1>1
    <3>3. Stored((j - k) * Quantum + 0) = (j - k) * Quantum
      BY <3>1, <3>2, StoredParts
    <3>4. Stored(b - x) = (j - k) * q
      BY <1>1, <3>1, <3>3
    <3> QED
      BY <1>1, <1>2, <1>6, <2>1, <3>4
  <2>2. CASE r # 0
    <3>1. b - x = (j - k - 1) * q + (q - r)
      BY <1>2, <1>3, <1>4, <1>5
    <3>2. j - k - 1 \in Nat /\ q - r \in 0..(q - 1)
      <4>1. (j - k) * q >= r
        BY <1>2, <1>4, <1>8
      <4>2. j - k >= 1
        BY <1>3, <1>4, <4>1, <2>2
      <4> QED
        BY <1>4, <2>2, <4>2
    <3>3. Stored(b - x) = IF 2 * (q - r) < q THEN (j - k - 1) * q ELSE (j - k - 1) * q + q
      BY <1>1, <3>1, <3>2, StoredParts
    <3> QED
      BY <1>1, <1>2, <1>4, <1>6, <3>3
  <2> QED
    BY <2>1, <2>2
<1> QED
  BY <1>1, <1>4, <1>7, <1>8 DEF HalfWay

LEMMA HalfWayNegated ==
  ASSUME NEW x \in Int, NEW y \in Int, y = -x
  PROVE  HalfWay(y) <=> HalfWay(x)
<1>1. PICK q \in Nat \ {0} : q = Quantum
  BY QuantumAssumption
<1>2. PICK k \in Int, r \in 0..(q - 1) : x = k * q + r /\ x % q = r
  BY <1>1, Parts
<1>3. CASE r = 0
  <2>1. y = (-k) * q + 0 /\ -k \in Int /\ 0 \in 0..(q - 1)
    BY <1>2, <1>3
  <2>2. ((-k) * q + 0) % q = 0
    BY <2>1, Quotient
  <2>3. y % q = 0
    BY <2>1, <2>2
  <2> QED
    BY <1>1, <1>2, <1>3, <2>3 DEF HalfWay
<1>4. CASE r # 0
  <2>1. y = (-k - 1) * q + (q - r) /\ -k - 1 \in Int /\ q - r \in 0..(q - 1)
    BY <1>2, <1>4
  <2>2. ((-k - 1) * q + (q - r)) % q = q - r
    BY <2>1, Quotient
  <2>3. y % q = q - r
    BY <2>1, <2>2
  <2> QED
    BY <1>1, <1>2, <2>3 DEF HalfWay
<1> QED
  BY <1>3, <1>4

\* The two cases of StoredSums in one: what is stored of a balance that changes by x
\* and stays at zero or more.
KeptOf(x) == IF HalfWay(x) /\ x < 0 THEN Quantum ELSE 0

LEMMA StoredChange ==
  ASSUME NEW b \in Column, b >= 0, NEW x \in Int, b + x >= 0
  PROVE  Stored(b + x) = b + (Stored(x) + KeptOf(x)) /\ Stored(x) + KeptOf(x) \in Column
<1>0. b \in Int /\ Stored(x) \in Int /\ Quantum \in Int
  BY StoredFacts, QuantumAssumption DEF Column
<1>1. Stored(x) + KeptOf(x) \in Column
  <2>1. KeptOf(x) \in Column
    BY ColumnClosed DEF KeptOf
  <2> QED
    BY <2>1, StoredFacts, ColumnClosed
<1>2. CASE x >= 0
  <2>1. KeptOf(x) = 0 /\ x \in Nat
    BY <1>2 DEF KeptOf
  <2> QED
    BY <1>0, <1>1, <2>1, StoredSums
<1>3. CASE x < 0
  <2>1. -x \in Nat /\ b - (-x) = b + x
    BY <1>0, <1>3
  <2>2. Stored(b - (-x)) = b - Stored(-x) + IF HalfWay(-x) THEN Quantum ELSE 0
    BY <2>1, StoredSums
  <2>3. Stored(-x) = -Stored(x) /\ (HalfWay(-x) <=> HalfWay(x))
    BY StoredNegated, HalfWayNegated
  <2> QED
    BY <1>0, <1>1, <1>3, <2>1, <2>2, <2>3 DEF KeptOf
<1> QED
  BY <1>0, <1>2, <1>3

\* A sum of what columns hold fits a column.
LEMMA ColumnSum ==
  ASSUME NEW S, IsFiniteSet(S), NEW f, \A x \in S : f[x] \in Column
  PROVE  SumFunctionOnSet(f, S) \in Column
BY ColumnClosed, SumClosed DEF Column

\* A sum is bounded by the sum of the bounds of its terms.
LEMMA SumBounded ==
  ASSUME NEW S, IsFiniteSet(S), NEW f, NEW g,
         \A x \in S : f[x] \in Int /\ g[x] \in Int /\ f[x] <= g[x]
  PROVE  SumFunctionOnSet(f, S) <= SumFunctionOnSet(g, S)
<1> DEFINE h == [x \in S |-> g[x] - f[x]]
<1>1. \A x \in S : h[x] \in Nat /\ f[x] \in Int /\ h[x] \in Int /\ g[x] = f[x] + h[x]
  OBVIOUS
<1> HIDE DEF h
<1>2. SumFunctionOnSet(g, S) = SumFunctionOnSet(f, S) + SumFunctionOnSet(h, S)
  BY <1>1, SumPointwise
<1>3. SumFunctionOnSet(h, S) \in Nat
  <2>1. 0 \in Nat /\ \A m, n \in Nat : m + n \in Nat
    OBVIOUS
  <2> QED
    BY <1>1, <2>1, SumClosed
<1>4. SumFunctionOnSet(f, S) \in Int
  BY <1>1, SumType
<1> QED
  BY <1>2, <1>3, <1>4
=============================================================================
