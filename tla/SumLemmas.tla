----------------------------- MODULE SumLemmas -----------------------------
(***************************************************************************)
(* What the proofs need to know of folds and sums over finite sets, which  *)
(* the community modules define as recursive functions over the subsets of *)
(* a set.  The module shows that a function with such an equation exists,  *)
(* by induction over the subsets of a finite set, and from it how a sum    *)
(* changes with its terms and what a fold keeps.                           *)
(***************************************************************************)
EXTENDS Functions, FiniteSetsExt, Integers, Sequences, FiniteSetTheorems, SequenceTheorems,
        WellFoundedInduction, TLAPS

(* Induction over the subsets of a finite set *)

\* A set G holds every subset of a finite set S if it holds each one all of whose
\* proper subsets it holds: there is no smallest subset outside G.
LEMMA SubsetInduction ==
    ASSUME NEW S, IsFiniteSet(S), NEW G,
           \A T \in SUBSET S : (\A U \in SUBSET T : U # T => U \in G) => T \in G
    PROVE  SUBSET S \subseteq G
<1> DEFINE Bad == {T \in SUBSET S : T \notin G}
<1>1. SUFFICES ASSUME Bad # {} PROVE FALSE
  OBVIOUS
<1>2. IsWellFoundedOn(StrictSubsetOrdering(S), SUBSET S)
  BY FS_StrictSubsetOrderingWellFounded, FS_FiniteSubsetsOfFinite
<1>3. Bad \subseteq SUBSET S
  OBVIOUS
<1>4. PICK T \in Bad : \A U \in Bad : <<U, T>> \notin StrictSubsetOrdering(S)
  <2> HIDE DEF Bad
  <2>1. QED
    BY <1>1, <1>2, <1>3, WFMin
<1>5. \A U \in SUBSET T : U # T => U \in G
  BY <1>4 DEF StrictSubsetOrdering
<1>6. QED
  BY <1>4, <1>5

-----------------------------------------------------------------------------
(* Recursive functions over the subsets of a finite set *)

\* The functions pick and step say which element of a set is taken, and what the
\* set makes of the value of the rest.
Steps(pick, step, S, V) ==
    /\ \A T \in SUBSET S : T # {} => pick[T] \in T
    /\ step \in [SUBSET S -> [V -> V]]

\* The value of every subset of S, taken apart one element at a time.
IsFold(it, pick, step, base, S, V) ==
    /\ it \in [SUBSET S -> V]
    /\ \A T \in SUBSET S :
          it[T] = IF T = {} THEN base ELSE step[T][it[T \ {pick[T]}]]

\* A recursive function over the subsets of a finite set is well defined: there
\* is a function that satisfies its equation.
LEMMA FoldExists ==
    ASSUME NEW S, IsFiniteSet(S), NEW V, NEW base, base \in V,
           NEW pick, NEW step, Steps(pick, step, S, V)
    PROVE  \E it : IsFold(it, pick, step, base, S, V)
<1> USE DEF Steps
<1> DEFINE Defines(it, T) ==
               \A U \in SUBSET T :
                   it[U] = IF U = {} THEN base ELSE step[U][it[U \ {pick[U]}]]
           Part(T) == {it \in [SUBSET T -> V] : Defines(it, T)}
<1>1. ASSUME NEW T \in SUBSET S, NEW U \in SUBSET S, NEW g \in Part(T), NEW h \in Part(U),
             NEW W, W \subseteq T, W \subseteq U
      PROVE  g[W] = h[W]
  <2> DEFINE Same == {X \in SUBSET W : g[X] = h[X]}
  <2>1. IsFiniteSet(W)
    BY <1>1, FS_Subset
  <2>2. ASSUME NEW X \in SUBSET W, \A Y \in SUBSET X : Y # X => Y \in Same
        PROVE  X \in Same
    <3>1. CASE X = {}
      BY <1>1, <3>1
    <3>2. CASE X # {}
      <4>1. pick[X] \in X /\ X \ {pick[X]} \in SUBSET X /\ X \ {pick[X]} # X
        BY <1>1, <3>2
      <4>2. g[X \ {pick[X]}] = h[X \ {pick[X]}]
        BY <2>2, <4>1
      <4>3. X \in SUBSET T /\ X \in SUBSET U
        BY <1>1
      <4>4. g[X] = step[X][g[X \ {pick[X]}]] /\ h[X] = step[X][h[X \ {pick[X]}]]
        BY <3>2, <4>3
      <4>5. QED
        BY <4>2, <4>4
    <3>3. QED
      BY <3>1, <3>2
  <2>3. SUBSET W \subseteq Same
    <3> HIDE DEF Same
    <3>1. QED
      BY <2>1, <2>2, SubsetInduction
  <2>4. QED
    BY <2>3
<1>2. \A T \in SUBSET S : Part(T) # {}
  <2> DEFINE Has == {T \in SUBSET S : Part(T) # {}}
  <2>1. ASSUME NEW T \in SUBSET S, \A U \in SUBSET T : U # T => U \in Has
        PROVE  T \in Has
    <3> DEFINE part(U) == CHOOSE g : g \in Part(U)
               rest == T \ {pick[T]}
               it == [U \in SUBSET T |->
                        IF U # T THEN part(U)[U]
                        ELSE IF T = {} THEN base ELSE step[T][part(rest)[rest]]]
    <3>1. \A U \in SUBSET T : U # T => part(U) \in Part(U)
      <4> HIDE DEF Part
      <4>1. QED
        BY <2>1
    <3>2. T # {} => rest \in SUBSET T /\ rest # T /\ pick[T] \in T
      OBVIOUS
    <3>3. it \in [SUBSET T -> V]
      <4>1. ASSUME NEW U \in SUBSET T, U # T
            PROVE  part(U)[U] \in V
        <5>1. part(U) \in Part(U)
          BY <3>1, <4>1
        <5> HIDE DEF part
        <5>2. QED
          BY <5>1
      <4> HIDE DEF part
      <4>2. QED
        BY <3>2, <4>1
    <3>4. ASSUME NEW U \in SUBSET T
          PROVE  it[U] = IF U = {} THEN base ELSE step[U][it[U \ {pick[U]}]]
      <4>1. CASE U = T
        <5> HIDE DEF part
        <5>1. QED
          BY <3>2, <4>1
      <4>2. CASE U # T
        <5> DEFINE less == U \ {pick[U]}
        <5>1. part(U) \in Part(U) /\ it[U] = part(U)[U]
          BY <3>1, <4>2
        <5>2. CASE U = {}
          <6> HIDE DEF part, it
          <6>1. QED
            BY <5>1, <5>2
        <5>3. CASE U # {}
          <6>1. pick[U] \in U /\ less \in SUBSET U /\ less \in SUBSET T /\ less # T
            BY <5>3, <4>2
          <6>2. part(less) \in Part(less) /\ it[less] = part(less)[less]
            BY <3>1, <6>1
          <6>3. part(less)[less] = part(U)[less]
            <7> HIDE DEF Part, part, it, less
            <7>1. U \in SUBSET S /\ less \in SUBSET S
              BY <6>1
            <7>2. QED
              BY <1>1, <5>1, <6>1, <6>2, <7>1
          <6>4. part(U)[U] = step[U][part(U)[less]]
            <7> HIDE DEF part, it
            <7>1. QED
              BY <5>1, <5>3
          <6> HIDE DEF part, it, Part
          <6>5. QED
            BY <5>1, <5>3, <6>2, <6>3, <6>4
        <5>4. QED
          BY <5>2, <5>3
      <4>3. QED
        BY <4>1, <4>2
    <3>5. it \in Part(T)
      <4> HIDE DEF it
      <4>1. QED
        BY <3>3, <3>4
    <3>6. QED
      <4> HIDE DEF it, Part
      <4>1. QED
        BY <3>5
  <2>2. SUBSET S \subseteq Has
    <3> HIDE DEF Has
    <3>1. QED
      BY <2>1, SubsetInduction
  <2>3. QED
    BY <2>2
<1>3. PICK it : it \in Part(S)
  <2> HIDE DEF Part
  <2>1. QED
    BY <1>2
<1>4. QED
  BY <1>3 DEF IsFold

\* The function takes the steps as long as it stays in V.
Follows(it, pick, step, base, S, V) ==
    \A T \in SUBSET S :
        IF T = {} THEN it[T] = base
        ELSE it[T \ {pick[T]}] \in V => it[T] = step[T][it[T \ {pick[T]}]]

\* Then it stays in V.
LEMMA FoldIn ==
    ASSUME NEW S, IsFiniteSet(S), NEW V, NEW base, base \in V,
           NEW pick, NEW step, Steps(pick, step, S, V), NEW it,
           Follows(it, pick, step, base, S, V)
    PROVE  it[S] \in V
<1> DEFINE G == {T \in SUBSET S : it[T] \in V}
<1>1. ASSUME NEW T \in SUBSET S, \A U \in SUBSET T : U # T => U \in G
      PROVE  T \in G
  <2>1. CASE T = {}
    BY <2>1 DEF Follows
  <2>2. CASE T # {}
    <3>1. pick[T] \in T /\ T \ {pick[T]} \in SUBSET T /\ T \ {pick[T]} # T
      BY <2>2 DEF Steps
    <3>2. it[T \ {pick[T]}] \in V
      BY <1>1, <3>1
    <3>3. it[T] = step[T][it[T \ {pick[T]}]]
      BY <2>2, <3>2 DEF Follows
    <3>4. QED
      BY <3>2, <3>3 DEF Steps
  <2>3. QED
    BY <2>1, <2>2
<1>2. SUBSET S \subseteq G
  <2> HIDE DEF G
  <2>1. QED
    BY <1>1, SubsetInduction
<1>3. QED
  BY <1>2

\* A finite set of numbers has a largest one.
LEMMA MaxIs ==
    ASSUME NEW S \in SUBSET Nat, IsFiniteSet(S), S # {}
    PROVE  Max(S) \in S /\ \A x \in S : x <= Max(S)
<1> DEFINE G == {T \in SUBSET S : T # {} => \E m \in T : \A x \in T : x <= m}
<1>1. ASSUME NEW T \in SUBSET S, \A U \in SUBSET T : U # T => U \in G
      PROVE  T \in G
  <2>1. SUFFICES ASSUME T # {} PROVE \E m \in T : \A x \in T : x <= m
    OBVIOUS
  <2>2. PICK y \in T : TRUE
    BY <2>1
  <2>3. CASE T \ {y} = {}
    BY <2>2, <2>3
  <2>4. CASE T \ {y} # {}
    <3>1. T \ {y} \in G
      BY <1>1
    <3>2. PICK m \in T \ {y} : \A x \in T \ {y} : x <= m
      BY <2>4, <3>1
    <3>3. y \in Nat /\ m \in Nat /\ T \subseteq Nat
      OBVIOUS
    <3>4. CASE y <= m
      BY <3>2, <3>4
    <3>5. CASE m < y
      <4>1. \A x \in T : x <= y
        BY <3>2, <3>3, <3>5
      <4>2. QED
        BY <4>1
    <3>6. QED
      BY <3>3, <3>4, <3>5
  <2>5. QED
    BY <2>3, <2>4
<1> HIDE DEF G
<1>2. SUBSET S \subseteq G
  BY <1>1, SubsetInduction
<1>3. \E m \in S : \A x \in S : x <= m
  BY <1>2 DEF G
<1>4. QED
  BY <1>3 DEF Max

-----------------------------------------------------------------------------
(* Sums of the values of a function *)

\* The values to be added up are integers.
Ints(f, S) == \A x \in S : f[x] \in Int

\* The sum takes some element first and then the rest.
LEMMA SumStep ==
    ASSUME NEW S, IsFiniteSet(S), NEW f, Ints(f, S)
    PROVE  /\ SumFunctionOnSet(f, {}) = 0
           /\ S # {} => LET x == CHOOSE y \in S : TRUE
                        IN  SumFunctionOnSet(f, S) = f[x] + SumFunctionOnSet(f, S \ {x})
           /\ SumFunctionOnSet(f, S) \in Int
<1> DEFINE first(T) == CHOOSE x \in T : TRUE
           Body(it, T) == IF T = {} THEN 0 ELSE f[first(T)] + it[T \ {first(T)}]
           Iter(U) == CHOOSE it : it = [T \in SUBSET U |-> Body(it, T)]
<1>1. \A U : SumFunctionOnSet(f, U) = Iter(U)[U]
  BY DEF SumFunctionOnSet, FoldFunctionOnSet, MapThenFoldSet
<1>2. \A T \in SUBSET S : T # {} => first(T) \in T
  OBVIOUS
<1>3. ASSUME NEW U \in SUBSET S
      PROVE  /\ Iter(U) = [T \in SUBSET U |-> Body(Iter(U), T)]
             /\ \A T \in SUBSET U : Iter(U)[T] \in Int
  <2> DEFINE pick == [T \in SUBSET U |-> first(T)]
             step == [T \in SUBSET U |-> [n \in Int |-> IF T = {} THEN 0 ELSE f[first(T)] + n]]
  <2>1. IsFiniteSet(U)
    BY FS_Subset
  <2>2. \A T \in SUBSET U : T # {} => pick[T] \in T
    OBVIOUS
  <2>3. step \in [SUBSET U -> [Int -> Int]]
    <3>1. \A T \in SUBSET U : T # {} => f[first(T)] \in Int
      BY <1>2 DEF Ints
    <3> HIDE DEF first
    <3>2. QED
      BY <3>1
  <2>4. PICK it \in [SUBSET U -> Int] : \A T \in SUBSET U :
               it[T] = IF T = {} THEN 0 ELSE step[T][it[T \ {pick[T]}]]
    <3>1. 0 \in Int
      OBVIOUS
    <3> HIDE DEF pick, step
    <3>2. Steps(pick, step, U, Int)
      BY <2>2, <2>3 DEF Steps
    <3>3. PICK it : IsFold(it, pick, step, 0, U, Int)
      BY <2>1, <3>1, <3>2, FoldExists
    <3>4. QED
      BY <3>3 DEF IsFold
  <2>5. it = [T \in SUBSET U |-> Body(it, T)]
    <3>1. \A T \in SUBSET U : it[T \ {first(T)}] \in Int
      OBVIOUS
    <3>2. \A T \in SUBSET U : it[T] = Body(it, T)
      BY <2>4, <3>1
    <3> HIDE DEF Body
    <3>3. QED
      BY <3>2
  <2>6. Iter(U) = [T \in SUBSET U |-> Body(Iter(U), T)]
    <3> HIDE DEF Body
    <3>1. QED
      BY <2>5
  <2>7. SUBSET U \subseteq {T \in SUBSET U : Iter(U)[T] \in Int}
    <3> DEFINE G == {T \in SUBSET U : Iter(U)[T] \in Int}
    <3>1. ASSUME NEW T \in SUBSET U, \A V \in SUBSET T : V # T => V \in G
          PROVE  T \in G
      <4>1. Iter(U)[T] = Body(Iter(U), T)
        <5> HIDE DEF Body, Iter
        <5>1. QED
          BY <2>6
      <4> HIDE DEF Iter
      <4>2. CASE T = {}
        BY <4>1, <4>2
      <4>3. CASE T # {}
        <5>1. first(T) \in T /\ f[first(T)] \in Int
          BY <1>2, <4>3 DEF Ints
        <5> HIDE DEF first
        <5>2. T \ {first(T)} \in G
          BY <3>1, <5>1
        <5>3. QED
          BY <4>1, <4>3, <5>1, <5>2
      <4>4. QED
        BY <4>2, <4>3
    <3> HIDE DEF G
    <3>2. SUBSET U \subseteq G
      BY <2>1, <3>1, SubsetInduction
    <3>3. QED
      BY <3>2 DEF G
  <2>8. QED
    BY <2>6, <2>7
<1>4. ASSUME NEW U \in SUBSET S
      PROVE  \A T \in SUBSET U : Iter(U)[T] = Iter(S)[T]
  <2> DEFINE G == {T \in SUBSET U : Iter(U)[T] = Iter(S)[T]}
  <2> HIDE DEF Iter
  <2>1. ASSUME NEW T \in SUBSET U, \A V \in SUBSET T : V # T => V \in G
        PROVE  T \in G
    <3>1. Iter(U)[T] = Body(Iter(U), T) /\ Iter(S)[T] = Body(Iter(S), T)
      <4> HIDE DEF Body
      <4>1. QED
        BY <1>3
    <3>2. T # {} => T \ {first(T)} \in G
      BY <1>2, <2>1
    <3> HIDE DEF first
    <3>3. QED
      BY <3>1, <3>2
  <2>2. IsFiniteSet(U)
    BY FS_Subset
  <2> HIDE DEF G
  <2>3. SUBSET U \subseteq G
    BY <2>1, <2>2, SubsetInduction
  <2>4. QED
    BY <2>3 DEF G
<1>5. SumFunctionOnSet(f, {}) = 0
  <2>1. {} \in SUBSET S
    OBVIOUS
  <2>2. Iter({})[{}] = Body(Iter({}), {})
    <3> HIDE DEF Iter, Body
    <3>1. QED
      BY <1>3, <2>1
  <2> HIDE DEF Iter
  <2>3. QED
    BY <1>1, <2>2
<1>6. ASSUME S # {}
      PROVE  SumFunctionOnSet(f, S) = f[first(S)] + SumFunctionOnSet(f, S \ {first(S)})
  <2> DEFINE rest == S \ {first(S)}
  <2>1. rest \in SUBSET S
    OBVIOUS
  <2> HIDE DEF Iter
  <2>2. Iter(S)[S] = f[first(S)] + Iter(S)[rest]
    BY <1>3, <1>6
  <2> HIDE DEF rest, first
  <2>3. Iter(rest)[rest] = Iter(S)[rest]
    BY <1>4, <2>1
  <2>4. QED
    BY <1>1, <2>2, <2>3 DEF rest
<1>7. SumFunctionOnSet(f, S) \in Int
  <2>1. S \in SUBSET S
    OBVIOUS
  <2> HIDE DEF Iter
  <2>2. Iter(S)[S] \in Int
    BY <1>3, <2>1
  <2>3. QED
    BY <1>1, <2>2
<1>8. QED
  <2> HIDE DEF Iter, Body
  <2>1. QED
    BY <1>5, <1>6, <1>7

\* It does not matter which element is taken first.
LEMMA SumRemove ==
    ASSUME NEW S, IsFiniteSet(S), NEW f, Ints(f, S), NEW x \in S
    PROVE  SumFunctionOnSet(f, S) = f[x] + SumFunctionOnSet(f, S \ {x})
<1> DEFINE G == {T \in SUBSET S : \A y \in T :
                   SumFunctionOnSet(f, T) = f[y] + SumFunctionOnSet(f, T \ {y})}
<1>1. \A T \in SUBSET S : IsFiniteSet(T) /\ Ints(f, T) /\ SumFunctionOnSet(f, T) \in Int
  BY FS_Subset, SumStep DEF Ints
<1>2. ASSUME NEW T \in SUBSET S, \A V \in SUBSET T : V # T => V \in G
      PROVE  T \in G
  <2> SUFFICES ASSUME NEW y \in T
               PROVE  SumFunctionOnSet(f, T) = f[y] + SumFunctionOnSet(f, T \ {y})
    OBVIOUS
  <2> DEFINE c == CHOOSE z \in T : TRUE
  <2>1. c \in T
    OBVIOUS
  <2>2. SumFunctionOnSet(f, T) = f[c] + SumFunctionOnSet(f, T \ {c})
    <3>1. T # {}
      OBVIOUS
    <3>2. QED
      BY <1>1, <3>1, SumStep
  <2> HIDE DEF c
  <2>3. CASE y = c
    BY <2>2, <2>3
  <2>4. CASE y # c
    <3>1. T \ {c} \in G /\ T \ {y} \in G /\ y \in T \ {c} /\ c \in T \ {y}
      BY <1>2, <2>1, <2>4
    <3>2. SumFunctionOnSet(f, T \ {c}) = f[y] + SumFunctionOnSet(f, (T \ {c}) \ {y})
      BY <3>1
    <3>3. SumFunctionOnSet(f, T \ {y}) = f[c] + SumFunctionOnSet(f, (T \ {y}) \ {c})
      BY <3>1
    <3>4. (T \ {c}) \ {y} = (T \ {y}) \ {c}
      OBVIOUS
    <3>5. f[c] \in Int /\ f[y] \in Int
      BY <2>1 DEF Ints
    <3> DEFINE rest == SumFunctionOnSet(f, (T \ {c}) \ {y})
    <3>6. rest \in Int
      BY <1>1
    <3>7. SumFunctionOnSet(f, T \ {y}) = f[c] + rest
      BY <3>3, <3>4
    <3>8. SumFunctionOnSet(f, T) = f[c] + (f[y] + rest)
      BY <2>2, <3>2
    <3> HIDE DEF rest
    <3>9. QED
      BY <3>5, <3>6, <3>7, <3>8
  <2>5. QED
    BY <2>3, <2>4
<1> HIDE DEF G
<1>3. SUBSET S \subseteq G
  BY <1>2, SubsetInduction
<1>4. QED
  BY <1>3 DEF G

\* The sum depends on the values only.
LEMMA SumSame ==
    ASSUME NEW S, IsFiniteSet(S), NEW f, NEW g, Ints(f, S), \A x \in S : g[x] = f[x]
    PROVE  SumFunctionOnSet(g, S) = SumFunctionOnSet(f, S)
<1> DEFINE G == {T \in SUBSET S : SumFunctionOnSet(g, T) = SumFunctionOnSet(f, T)}
<1>1. ASSUME NEW T \in SUBSET S, \A V \in SUBSET T : V # T => V \in G
      PROVE  T \in G
  <2>1. IsFiniteSet(T) /\ Ints(f, T) /\ Ints(g, T)
    BY FS_Subset DEF Ints
  <2>2. CASE T = {}
    BY <2>1, <2>2, SumStep
  <2>3. ASSUME NEW x \in T
        PROVE  T \in G
    <3>1. /\ SumFunctionOnSet(f, T) = f[x] + SumFunctionOnSet(f, T \ {x})
          /\ SumFunctionOnSet(g, T) = g[x] + SumFunctionOnSet(g, T \ {x})
      BY <2>1, SumRemove
    <3>2. T \ {x} \in G
      BY <1>1
    <3>3. QED
      BY <3>1, <3>2
  <2>4. QED
    BY <2>2, <2>3
<1> HIDE DEF G
<1>2. SUBSET S \subseteq G
  BY <1>1, SubsetInduction
<1>3. QED
  BY <1>2 DEF G

\* One value changes.
LEMMA SumUpdate ==
    ASSUME NEW S, IsFiniteSet(S), NEW f, NEW g, Ints(f, S), NEW x \in S, g[x] \in Int,
           \A y \in S \ {x} : g[y] = f[y]
    PROVE  SumFunctionOnSet(g, S) = SumFunctionOnSet(f, S) - f[x] + g[x]
<1>1. Ints(g, S)
  BY DEF Ints
<1>2. /\ SumFunctionOnSet(f, S) = f[x] + SumFunctionOnSet(f, S \ {x})
      /\ SumFunctionOnSet(g, S) = g[x] + SumFunctionOnSet(g, S \ {x})
  BY <1>1, SumRemove
<1>3. IsFiniteSet(S \ {x}) /\ Ints(f, S \ {x})
  BY FS_Subset DEF Ints
<1>4. /\ SumFunctionOnSet(g, S \ {x}) = SumFunctionOnSet(f, S \ {x})
      /\ SumFunctionOnSet(f, S \ {x}) \in Int
  BY <1>3, SumSame, SumStep
<1>5. QED
  BY <1>2, <1>4 DEF Ints

\* Values that are never negative: nor is the sum, nor less than any of them.
LEMMA SumNat ==
    ASSUME NEW S, IsFiniteSet(S), NEW f, \A x \in S : f[x] \in Nat
    PROVE  SumFunctionOnSet(f, S) \in Nat /\ \A x \in S : f[x] <= SumFunctionOnSet(f, S)
<1> DEFINE G == {T \in SUBSET S : SumFunctionOnSet(f, T) \in Nat}
<1>0. Ints(f, S)
  BY DEF Ints
<1>1. ASSUME NEW T \in SUBSET S, \A V \in SUBSET T : V # T => V \in G
      PROVE  T \in G
  <2>1. IsFiniteSet(T) /\ Ints(f, T)
    BY FS_Subset DEF Ints
  <2>2. CASE T = {}
    <3>1. SumFunctionOnSet(f, T) = 0
      BY <2>1, <2>2, SumStep
    <3>2. QED
      BY <3>1
  <2>3. ASSUME NEW x \in T
        PROVE  T \in G
    <3>1. SumFunctionOnSet(f, T) = f[x] + SumFunctionOnSet(f, T \ {x})
      BY <2>1, SumRemove
    <3>2. T \ {x} \in G
      BY <1>1
    <3>3. QED
      BY <3>1, <3>2
  <2>4. QED
    BY <2>2, <2>3
<1> HIDE DEF G
<1>2. SUBSET S \subseteq G
  BY <1>1, SubsetInduction
<1>3. ASSUME NEW x \in S
      PROVE  f[x] <= SumFunctionOnSet(f, S)
  <2>1. SumFunctionOnSet(f, S) = f[x] + SumFunctionOnSet(f, S \ {x})
    BY <1>0, SumRemove
  <2>2. SumFunctionOnSet(f, S \ {x}) \in Nat
    BY <1>2 DEF G
  <2>3. QED
    BY <2>1, <2>2
<1>4. QED
  BY <1>2, <1>3 DEF G

\* Only zeros.
LEMMA SumZero ==
    ASSUME NEW S, IsFiniteSet(S), NEW f, \A x \in S : f[x] = 0
    PROVE  SumFunctionOnSet(f, S) = 0
<1> DEFINE G == {T \in SUBSET S : SumFunctionOnSet(f, T) = 0}
<1>1. ASSUME NEW T \in SUBSET S, \A V \in SUBSET T : V # T => V \in G
      PROVE  T \in G
  <2>1. IsFiniteSet(T) /\ Ints(f, T)
    BY FS_Subset DEF Ints
  <2>2. CASE T = {}
    BY <2>1, <2>2, SumStep
  <2>3. ASSUME NEW x \in T
        PROVE  T \in G
    <3>1. SumFunctionOnSet(f, T) = f[x] + SumFunctionOnSet(f, T \ {x})
      BY <2>1, SumRemove
    <3>2. T \ {x} \in G
      BY <1>1
    <3>3. QED
      BY <3>1, <3>2
  <2>4. QED
    BY <2>2, <2>3
<1> HIDE DEF G
<1>2. SUBSET S \subseteq G
  BY <1>1, SubsetInduction
<1>3. QED
  BY <1>2 DEF G

\* Terms that are 0 may be left out.
LEMMA SumPart ==
    ASSUME NEW S, IsFiniteSet(S), NEW f, Ints(f, S), NEW T \in SUBSET S,
           \A x \in S \ T : f[x] = 0
    PROVE  SumFunctionOnSet(f, S) = SumFunctionOnSet(f, T)
<1> DEFINE G == {X \in SUBSET S : SumFunctionOnSet(f, X) = SumFunctionOnSet(f, X \cap T)}
<1>1. ASSUME NEW X \in SUBSET S, \A U \in SUBSET X : U # X => U \in G
      PROVE  X \in G
  <2>1. CASE X \subseteq T
    <3>1. X \cap T = X
      BY <2>1
    <3>2. QED
      BY <3>1
  <2>2. CASE ~(X \subseteq T)
    <3>1. PICK x \in X : x \notin T
      BY <2>2
    <3>2. IsFiniteSet(X) /\ Ints(f, X) /\ f[x] = 0
      BY <3>1, FS_Subset DEF Ints
    <3>3. SumFunctionOnSet(f, X) = f[x] + SumFunctionOnSet(f, X \ {x})
      BY <3>2, SumRemove
    <3>4. IsFiniteSet(X \ {x}) /\ Ints(f, X \ {x})
      BY <3>2, FS_Subset DEF Ints
    <3>5. SumFunctionOnSet(f, X \ {x}) \in Int
      BY <3>4, SumStep
    <3>6. X \ {x} \in G /\ (X \ {x}) \cap T = X \cap T
      BY <1>1, <3>1
    <3>7. SumFunctionOnSet(f, X) = SumFunctionOnSet(f, X \ {x})
      BY <3>2, <3>3, <3>5
    <3>8. QED
      BY <3>6, <3>7
  <2>3. QED
    BY <2>1, <2>2
<1>2. SUBSET S \subseteq G
  <2> HIDE DEF G
  <2>1. QED
    BY <1>1, SubsetInduction
<1>3. S \cap T = T
  OBVIOUS
<1>4. QED
  BY <1>2, <1>3

-----------------------------------------------------------------------------
(* The sum of a whole function, as the ledger uses it *)

\* A sum of naturals is a natural, and at least each of its terms.
LEMMA SumFunctionNat ==
    ASSUME NEW S, IsFiniteSet(S), NEW f \in [S -> Nat]
    PROVE  SumFunction(f) \in Nat /\ \A x \in S : f[x] <= SumFunction(f)
<1>1. DOMAIN f = S /\ \A x \in S : f[x] \in Nat
  OBVIOUS
<1>2. QED
  BY <1>1, SumNat DEF SumFunction

\* Two functions that agree on S except perhaps at x.
AgreeExcept(g, f, S, x) == \A y \in S : y # x => g[y] = f[y]

\* The terms of a sum.
Terms(f, S) == IsFiniteSet(S) /\ f \in [S -> Nat]

\* The sum follows the one term that changes.
LEMMA SumFunctionUpdate ==
    ASSUME NEW S, NEW f, NEW g, NEW x, x \in S, Terms(f, S), Terms(g, S),
           AgreeExcept(g, f, S, x)
    PROVE  /\ SumFunction(g) = SumFunction(f) - f[x] + g[x]
           /\ SumFunction(f) \in Nat /\ SumFunction(g) \in Nat
<1>1. DOMAIN f = S /\ DOMAIN g = S /\ Ints(f, S) /\ g[x] \in Int /\ IsFiniteSet(S)
  BY DEF Ints, Terms
<1>2. SumFunction(f) \in Nat /\ SumFunction(g) \in Nat
  BY SumFunctionNat DEF Terms
<1>3. \A y \in S \ {x} : g[y] = f[y]
  BY DEF AgreeExcept
<1>4. QED
  BY <1>1, <1>2, <1>3, SumUpdate DEF SumFunction

\* The sum of zeros.
LEMMA SumFunctionZero ==
    ASSUME NEW S, IsFiniteSet(S), NEW f \in [S -> Nat]
    PROVE  SumFunction(f) = 0 <=> \A x \in S : f[x] = 0
<1>1. DOMAIN f = S /\ \A x \in S : f[x] \in Nat
  OBVIOUS
<1>2. ASSUME \A x \in S : f[x] = 0
      PROVE  SumFunction(f) = 0
  BY <1>1, <1>2, SumZero DEF SumFunction
<1>3. ASSUME SumFunction(f) = 0, NEW x \in S
      PROVE  f[x] = 0
  <2>1. f[x] <= SumFunction(f) /\ f[x] \in Nat
    BY SumFunctionNat
  <2>2. QED
    BY <1>3, <2>1
<1>4. QED
  BY <1>2, <1>3

\* The sum of a function with one term that is not zero is that term.
LEMMA SumFunctionOne ==
    ASSUME NEW S, IsFiniteSet(S), NEW x \in S, NEW g \in [S -> Nat],
           \A y \in S : y # x => g[y] = 0
    PROVE  SumFunction(g) = g[x]
<1> DEFINE f == [y \in S |-> 0]
<1>1. f \in [S -> Nat] /\ SumFunction(f) = 0
  BY SumFunctionZero
<1>2. \A y \in S : f[y] = 0
  OBVIOUS
<1> HIDE DEF f
<1>3. SumFunction(g) = SumFunction(f) - f[x] + g[x]
  <2>1. Terms(f, S) /\ Terms(g, S) /\ AgreeExcept(g, f, S, x)
    BY <1>1, <1>2 DEF Terms, AgreeExcept
  <2>2. QED
    BY <2>1, SumFunctionUpdate
<1>4. QED
  BY <1>1, <1>2, <1>3

\* The sum of a sequence that grows by one element.
LEMMA SumFunctionAppend ==
    ASSUME NEW s \in Seq(Nat), NEW n \in Nat
    PROVE  SumFunction(Append(s, n)) = SumFunction(s) + n
<1> DEFINE t == Append(s, n)
           S == DOMAIN t
           k == Len(s) + 1
<1>1. /\ k \in S /\ t[k] = n /\ S \ {k} = DOMAIN s
      /\ \A i \in DOMAIN s : t[i] = s[i] /\ s[i] \in Nat
  <2>1. Len(s) \in Nat /\ DOMAIN s = 1..Len(s)
    OBVIOUS
  <2>2. S = 1..k /\ t[k] = n /\ \A i \in 1..Len(s) : t[i] = s[i] /\ s[i] \in Nat
    OBVIOUS
  <2> HIDE DEF t, S
  <2>3. QED
    BY <2>1, <2>2
<1>2. IsFiniteSet(S) /\ IsFiniteSet(DOMAIN s)
  <2>1. S = 1..k /\ DOMAIN s = 1..Len(s) /\ k \in Nat /\ Len(s) \in Nat
    OBVIOUS
  <2>2. QED
    BY <2>1, FS_Interval
<1> HIDE DEF t, S, k
<1>3. Ints(t, S) /\ Ints(s, DOMAIN s)
  BY <1>1 DEF Ints
<1>4. SumFunctionOnSet(t, S) = t[k] + SumFunctionOnSet(t, S \ {k})
  BY <1>1, <1>2, <1>3, SumRemove
<1>5. SumFunctionOnSet(t, DOMAIN s) = SumFunctionOnSet(s, DOMAIN s)
  BY <1>1, <1>2, <1>3, SumSame
<1>6. SumFunctionOnSet(s, DOMAIN s) \in Int
  BY <1>2, <1>3, SumStep
<1>7. SumFunction(t) = n + SumFunctionOnSet(s, DOMAIN s)
  BY <1>1, <1>4, <1>5 DEF SumFunction, S
<1>8. QED
  BY <1>6, <1>7 DEF SumFunction, t

=============================================================================
