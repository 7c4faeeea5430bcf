---------------------------- MODULE SumTheorems ----------------------------
(***************************************************************************)
(* Facts about MapThenSumSet, by which the models add up what the history  *)
(* of a wallet or a set of blocks amounts to.  The summand is a constant,  *)
(* so that a module of proofs names its own:                               *)
(*                                                                         *)
(*   Sum == INSTANCE SumTheorems WITH Op <- Delta                          *)
(*                                                                         *)
(* FiniteSetTheorems states induction for a predicate, which the provers   *)
(* at hand cannot instantiate; here it is the existence of a smallest      *)
(* member in a set of finite sets, the smallest counterexample.            *)
(***************************************************************************)
EXTENDS FiniteSetsExt, FiniteSetTheorems, TLAPS

CONSTANT Op(_)

Total(S) == MapThenSumSet(Op, S)

(* The element a fold takes first, and those it leaves for later.          *)
First(s) == CHOOSE x \in s : TRUE
Rest(s) == s \ {First(s)}

Folds(g, T) ==
  \A s \in SUBSET T : g[s] = IF s = {} THEN 0 ELSE Op(First(s)) + g[Rest(s)]

(* A set of finite sets that is not empty has a minimal member.            *)
LEMMA Smallest ==
  ASSUME NEW S, IsFiniteSet(S), NEW X, X \subseteq SUBSET S, X # {}
  PROVE  \E s \in X : \A t \in X : t \subseteq s => t = s
<1>1. X \subseteq FiniteSubsetsOf(S)
  BY FS_Subset DEF FiniteSubsetsOf
<1>2. PICK s \in X : \A t \in X : ~ (<<t, s>> \in StrictSubsetOrdering(S))
  BY <1>1, FS_StrictSubsetOrderingWellFounded, WFMin
<1>3. \A t \in X : t \subseteq s => t = s
  <2> SUFFICES ASSUME NEW t \in X, t \subseteq s, t # s PROVE FALSE
    OBVIOUS
  <2>1. <<t, s>> \in StrictSubsetOrdering(S)
    BY DEF StrictSubsetOrdering
  <2> QED BY <1>2, <2>1
<1> QED BY <1>3

(* There is a first element, and fewer are left.                           *)
LEMMA FirstIn ==
  ASSUME NEW s, s # {}
  PROVE  First(s) \in s /\ Rest(s) \subseteq s /\ Rest(s) # s
<1>1. First(s) \in s
  BY DEF First
<1> QED BY <1>1 DEF Rest

(* Two folds agree where both are defined.                                 *)
LEMMA FoldsAgree ==
  ASSUME NEW S, IsFiniteSet(S), NEW T \in SUBSET S, NEW U \in SUBSET S,
         NEW g, NEW h, Folds(g, T), Folds(h, U)
  PROVE  \A s \in SUBSET (T \cap U) : g[s] = h[s]
<1> DEFINE X == {s \in SUBSET (T \cap U) : g[s] # h[s]}
<1> SUFFICES ASSUME X # {} PROVE FALSE
  OBVIOUS
<1>1. PICK s \in X : \A t \in X : t \subseteq s => t = s
  <2>1. X \subseteq SUBSET S
    OBVIOUS
  <2> HIDE DEF X
  <2> QED BY <2>1, Smallest
<1>2. s \in SUBSET T /\ s \in SUBSET U
  OBVIOUS
<1>3. CASE s = {}
  BY <1>2, <1>3 DEF Folds
<1>4. CASE s # {}
  <2>1. Rest(s) \in SUBSET (T \cap U) /\ Rest(s) \notin X
    BY <1>1, <1>2, <1>4, FirstIn
  <2> QED BY <1>2, <1>4, <2>1 DEF Folds
<1> QED BY <1>3, <1>4

(* Every finite set has a fold.                                            *)
LEMMA FoldExists ==
  ASSUME NEW S, IsFiniteSet(S)
  PROVE  \E g : g = [s \in SUBSET S |->
                      IF s = {} THEN 0 ELSE Op(First(s)) + g[Rest(s)]]
<1> DEFINE X == {T \in SUBSET S : ~ \E g : Folds(g, T)}
<1>1. X = {}
  <2> SUFFICES ASSUME X # {} PROVE FALSE
    OBVIOUS
  <2>1. PICK T \in X : \A t \in X : t \subseteq T => t = T
    <3>1. X \subseteq SUBSET S
      OBVIOUS
    <3> HIDE DEF X
    <3> QED BY <3>1, Smallest
  <2> DEFINE G(s) == CHOOSE g : Folds(g, s)
             h == [s \in SUBSET T |->
                     IF s # T THEN G(s)[s]
                     ELSE IF T = {} THEN 0
                          ELSE Op(First(T)) + G(Rest(T))[Rest(T)]]
  <2>2. \A s \in SUBSET T : s # T => Folds(G(s), s)
    BY <2>1
  <2> HIDE DEF G
  <2>3. ASSUME NEW s \in SUBSET T, s # {}
        PROVE  h[s] = Op(First(s)) + h[Rest(s)]
    <3>1. Rest(s) \in SUBSET s /\ Rest(s) # s /\ Rest(s) # T
      BY <2>3, FirstIn
    <3>2. h[Rest(s)] = G(Rest(s))[Rest(s)]
      BY <3>1
    <3>3. CASE s = T
      BY <2>3, <3>2, <3>3
    <3>4. CASE s # T
      <4>1. Folds(G(s), s) /\ Folds(G(Rest(s)), Rest(s))
        BY <2>2, <3>1, <3>4
      <4>2. G(s)[s] = Op(First(s)) + G(s)[Rest(s)]
        BY <2>3, <4>1 DEF Folds
      <4>3. G(s)[Rest(s)] = G(Rest(s))[Rest(s)]
        <5> DEFINE a == G(s)
                   b == G(Rest(s))
        <5>1. s \in SUBSET S /\ Rest(s) \in SUBSET S
          BY <3>1
        <5>2. Rest(s) \in SUBSET (s \cap Rest(s))
          BY <3>1
        <5>3. Folds(a, s) /\ Folds(b, Rest(s))
          BY <4>1
        <5> HIDE DEF X, h, a, b
        <5>4. \A t \in SUBSET (s \cap Rest(s)) : a[t] = b[t]
          BY <5>1, <5>3, FoldsAgree
        <5>5. a[Rest(s)] = b[Rest(s)]
          BY <5>2, <5>4
        <5> QED BY <5>5 DEF a, b
      <4> QED BY <3>2, <3>4, <4>2, <4>3
    <3> QED BY <3>3, <3>4
  <2>4. h[{}] = 0
    <3>1. CASE T = {}
      BY <3>1
    <3>2. CASE T # {}
      BY <2>2, <3>2 DEF Folds
    <3> QED BY <3>1, <3>2
  <2>5. Folds(h, T)
    BY <2>3, <2>4 DEF Folds
  <2>6. ~ \E g : Folds(g, T)
    BY <2>1
  <2> QED BY <2>5, <2>6, Zenon
<1>2. PICK g : Folds(g, S)
  BY <1>1
<1> DEFINE k == [s \in SUBSET S |-> g[s]]
<1>3. \A s \in SUBSET S : k[s] = IF s = {} THEN 0 ELSE Op(First(s)) + k[Rest(s)]
  BY <1>2, FirstIn DEF Folds
<1>4. k = [s \in SUBSET S |-> IF s = {} THEN 0 ELSE Op(First(s)) + k[Rest(s)]]
  <2>1. k = [s \in SUBSET S |-> k[s]]
    OBVIOUS
  <2> HIDE DEF k
  <2> QED BY <1>3, <2>1, Zenon
<1> QED BY <1>4, Zenon

(* A sum is the first element's and that of the others.                    *)
LEMMA TotalUnfolds ==
  ASSUME NEW S, IsFiniteSet(S)
  PROVE  Total(S) = IF S = {} THEN 0 ELSE Op(First(S)) + Total(Rest(S))
<1> DEFINE F(T, g) == g = [s \in SUBSET T |->
                             IF s = {} THEN 0 ELSE Op(First(s)) + g[Rest(s)]]
           fold(T) == CHOOSE g : F(T, g)
<1>1. ASSUME NEW T \in SUBSET S PROVE Total(T) = fold(T)[T] /\ Folds(fold(T), T)
  <2>1. Total(T) = fold(T)[T]
    BY DEF Total, MapThenSumSet, MapThenFoldSet, First, Rest
  <2>2. \E g : F(T, g)
    BY FoldExists, FS_Subset
  <2>3. F(T, fold(T))
    <3> HIDE DEF F
    <3> QED BY <2>2
  <2>4. \A s \in SUBSET T :
          fold(T)[s] = IF s = {} THEN 0 ELSE Op(First(s)) + fold(T)[Rest(s)]
    <3> HIDE DEF fold
    <3> DEFINE g == fold(T)
    <3>1. g = [s \in SUBSET T |-> IF s = {} THEN 0 ELSE Op(First(s)) + g[Rest(s)]]
      BY <2>3
    <3> HIDE DEF g
    <3>2. \A s \in SUBSET T :
            g[s] = IF s = {} THEN 0 ELSE Op(First(s)) + g[Rest(s)]
      BY <3>1
    <3> QED BY <3>2 DEF g
  <2> QED BY <2>1, <2>4 DEF Folds
<1> HIDE DEF fold
<1>2. CASE S = {}
  BY <1>1, <1>2 DEF Folds
<1>3. CASE S # {}
  <2>1. Rest(S) \in SUBSET S /\ Rest(S) \in SUBSET (S \cap Rest(S))
    BY <1>3, FirstIn
  <2>2. fold(S)[Rest(S)] = fold(Rest(S))[Rest(S)]
    BY <1>1, <2>1, FoldsAgree
  <2> QED BY <1>1, <1>3, <2>1, <2>2 DEF Folds
<1> QED BY <1>2, <1>3

(* The sum over the empty set.                                             *)
THEOREM SumEmpty == Total({}) = 0
BY TotalUnfolds, FS_EmptySet

(* Sums of integers are integers.                                          *)
THEOREM SumType ==
  ASSUME NEW S, IsFiniteSet(S), \A x \in S : Op(x) \in Int
  PROVE  Total(S) \in Int
<1> DEFINE X == {T \in SUBSET S : Total(T) \notin Int}
<1> SUFFICES ASSUME X # {} PROVE FALSE
  OBVIOUS
<1>1. PICK T \in X : \A t \in X : t \subseteq T => t = T
  <2>1. X \subseteq SUBSET S
    OBVIOUS
  <2> HIDE DEF X
  <2> QED BY <2>1, Smallest
<1>2. IsFiniteSet(T)
  BY <1>1, FS_Subset
<1>3. T # {}
  <2>1. Total(T) \notin Int
    BY <1>1
  <2> HIDE DEF X
  <2> QED BY <2>1, SumEmpty
<1>4. First(T) \in S /\ Rest(T) \in SUBSET S /\ Rest(T) \notin X
  BY <1>1, <1>3, FirstIn
<1> QED BY <1>1, <1>2, <1>3, <1>4, TotalUnfolds

(* Any element may be taken out of a sum.                                  *)
THEOREM SumRemove ==
  ASSUME NEW S, IsFiniteSet(S), \A x \in S : Op(x) \in Int
  PROVE  \A x \in S : Total(S) = Total(S \ {x}) + Op(x)
<1> DEFINE X == {T \in SUBSET S : \E x \in T : Total(T) # Total(T \ {x}) + Op(x)}
<1> SUFFICES ASSUME X # {} PROVE FALSE
  OBVIOUS
<1>1. PICK T \in X : \A t \in X : t \subseteq T => t = T
  <2>1. X \subseteq SUBSET S
    OBVIOUS
  <2> HIDE DEF X
  <2> QED BY <2>1, Smallest
<1>2. PICK x \in T : Total(T) # Total(T \ {x}) + Op(x)
  BY <1>1
<1> DEFINE y == First(T)
<1>3. y \in T
  BY <1>2, FirstIn
<1>4. \A t \in SUBSET T : IsFiniteSet(t) /\ Total(t) \in Int
  BY <1>1, FS_Subset, SumType
<1>5. Total(T) = Op(y) + Total(T \ {y})
  BY <1>2, <1>4, TotalUnfolds DEF Rest
<1>6. Op(x) \in Int /\ Op(y) \in Int
  BY <1>1, <1>3
<1> HIDE DEF y
<1>7. CASE x = y
  BY <1>2, <1>4, <1>5, <1>6, <1>7
<1>8. CASE x # y
  <2>1. T \ {x} \notin X /\ T \ {y} \notin X
    BY <1>1, <1>3
  <2>2. Total(T \ {x}) = Total((T \ {x}) \ {y}) + Op(y)
    BY <1>1, <1>3, <1>8, <2>1
  <2>3. Total(T \ {y}) = Total((T \ {y}) \ {x}) + Op(x)
    BY <1>1, <1>3, <1>8, <2>1
  <2>4. (T \ {x}) \ {y} = (T \ {y}) \ {x}
    OBVIOUS
  <2>5. Total((T \ {y}) \ {x}) \in Int
    BY <1>4
  <2>6. Total(T) = Op(y) + (Total((T \ {y}) \ {x}) + Op(x))
    BY <1>5, <2>3
  <2>7. Total(T \ {x}) = Total((T \ {y}) \ {x}) + Op(y)
    BY <2>2, <2>4
  <2> DEFINE a == Total((T \ {y}) \ {x})
  <2> HIDE DEF X, a
  <2>8. Total(T) = Op(y) + (a + Op(x)) /\ Total(T \ {x}) = a + Op(y) /\ a \in Int
    BY <2>5, <2>6, <2>7 DEF a
  <2> QED BY <1>2, <1>6, <2>8
<1> QED BY <1>7, <1>8

(* An element that is added adds its share.                                *)
THEOREM SumAdd ==
  ASSUME NEW S, IsFiniteSet(S), \A y \in S : Op(y) \in Int,
         NEW x, x \notin S, Op(x) \in Int
  PROVE  Total(S \cup {x}) = Total(S) + Op(x)
<1>1. IsFiniteSet(S \cup {x}) /\ (S \cup {x}) \ {x} = S
  BY FS_AddElement
<1>2. \A y \in S \cup {x} : Op(y) \in Int
  OBVIOUS
<1> QED BY <1>1, <1>2, SumRemove

(* A sum of naturals grows with its set.                                   *)
THEOREM SumMonotone ==
  ASSUME NEW S, IsFiniteSet(S), \A x \in S : Op(x) \in Nat, NEW T \in SUBSET S
  PROVE  Total(T) <= Total(S) /\ Total(T) \in Nat
<1>0. \A U \in SUBSET S : IsFiniteSet(U) /\ Total(U) \in Int
  BY FS_Subset, SumType
<1>1. ASSUME NEW V \in SUBSET S
      PROVE  \A U \in SUBSET S : V \subseteq U => Total(V) <= Total(U)
  <2> DEFINE X == {U \in SUBSET S : V \subseteq U /\ ~ (Total(V) <= Total(U))}
  <2> SUFFICES ASSUME X # {} PROVE FALSE
    OBVIOUS
  <2>1. PICK U \in X : \A t \in X : t \subseteq U => t = U
    <3>1. X \subseteq SUBSET S
      OBVIOUS
    <3> HIDE DEF X
    <3> QED BY <3>1, Smallest
  <2>2. U # V
    BY <1>0, <2>1
  <2>3. PICK x \in U \ V : TRUE
    BY <2>1, <2>2
  <2>4. Total(U) = Total(U \ {x}) + Op(x)
    BY <1>0, <2>1, <2>3, SumRemove
  <2>5. U \ {x} \notin X
    BY <2>1, <2>3
  <2>6. Total(V) <= Total(U \ {x}) /\ Op(x) \in Nat
    BY <2>1, <2>3, <2>5
  <2> QED BY <1>0, <2>1, <2>4, <2>6
<1>2. Total({}) <= Total(T)
  BY <1>1
<1> QED BY <1>0, <1>1, <1>2, SumEmpty
=============================================================================
