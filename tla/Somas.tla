------------------------------- MODULE Somas --------------------------------
(***************************************************************************)
(* Sums over finite sets: what the recursion of MapThenSumSet computes for *)
(* every finite set, whatever element it takes first.  The arguments are   *)
(* by a smallest counterexample among the subsets of a finite set.         *)
(***************************************************************************)
EXTENDS Integers, FiniteSetsExt, FiniteSetTheorems, WellFoundedInduction, TLAPS

(* The sum of f over T, and the sum of the values of records. *)
Soma(f, T) == MapThenSumSet(LAMBDA x : f[x], T)
SomaDosValores(T) == MapThenSumSet(LAMBDA d : d.valor, T)

Some(T) == CHOOSE x \in T : TRUE

(* h gives the sum of f over each subset of S. *)
Sums(h, f, S) ==
  h = [T \in SUBSET S |-> IF T = {} THEN 0 ELSE f[Some(T)] + h[T \ {Some(T)}]]

-----------------------------------------------------------------------------
LEMMA SmallestSubset ==
  ASSUME NEW S, IsFiniteSet(S), NEW F, F \subseteq SUBSET S, F # {}
  PROVE  \E T \in F : \A V \in F : V \subseteq T => V = T
<1>1. IsWellFoundedOn(StrictSubsetOrdering(S), SUBSET S)
  BY FS_StrictSubsetOrderingWellFounded, FS_FiniteSubsetsOfFinite
<1>2. PICK T \in F : \A V \in F : ~(<<V, T>> \in StrictSubsetOrdering(S))
  BY <1>1, WFMin
<1>3. ASSUME NEW V \in F, V \subseteq T, V # T PROVE FALSE
  <2>1. <<V, T>> \in (SUBSET S) \X (SUBSET S)
    BY <1>2, <1>3
  <2>2. <<V, T>> \in StrictSubsetOrdering(S)
    BY <1>3, <2>1 DEF StrictSubsetOrdering
  <2> QED
    BY <1>2, <1>3, <2>2
<1> QED
  BY <1>2, <1>3

LEMMA SomeIn == ASSUME NEW T, T # {} PROVE Some(T) \in T
  BY DEF Some

LEMMA SumsApply ==
  ASSUME NEW h, NEW f, NEW S, Sums(h, f, S), NEW T \in SUBSET S
  PROVE  h[T] = IF T = {} THEN 0 ELSE f[Some(T)] + h[T \ {Some(T)}]
  BY DEF Sums

(* Functions that give the same values give the same sums where both do. *)
LEMMA SumsAgree ==
  ASSUME NEW S, IsFiniteSet(S), NEW R, NEW f, NEW g, NEW h, NEW k,
         Sums(h, f, S), Sums(k, g, R), NEW T, T \subseteq S, T \subseteq R,
         \A x \in T : f[x] = g[x]
  PROVE  h[T] = k[T]
<1> SUFFICES ASSUME h[T] # k[T] PROVE FALSE
  OBVIOUS
<1> DEFINE F == {V \in SUBSET T : h[V] # k[V]}
<1>1. T \in F /\ F \subseteq SUBSET T /\ IsFiniteSet(T)
  BY FS_Subset
<1>2. PICK V \in F : \A U \in F : U \subseteq V => U = V
  BY <1>1, SmallestSubset
<1>3. V \in SUBSET S /\ V \in SUBSET R /\ V \subseteq T /\ h[V] # k[V]
  OBVIOUS
<1>4. CASE V = {}
  BY <1>3, <1>4, SumsApply
<1>5. CASE V # {}
  <2> DEFINE x == Some(V)
  <2>1. x \in V
    BY <1>5, SomeIn
  <2>2. h[V] = f[x] + h[V \ {x}] /\ k[V] = g[x] + k[V \ {x}]
    BY <1>3, <1>5, SumsApply
  <2> HIDE DEF x
  <2>3. h[V \ {x}] = k[V \ {x}]
    BY <1>2, <1>3, <2>1
  <2> QED
    BY <1>3, <2>1, <2>2, <2>3
<1> QED
  BY <1>4, <1>5

LEMMA SumsExist ==
  ASSUME NEW S, IsFiniteSet(S), NEW f
  PROVE  \E h : Sums(h, f, S)
<1> SUFFICES ASSUME ~\E h : Sums(h, f, S) PROVE FALSE
  OBVIOUS
<1> DEFINE F == {T \in SUBSET S : ~\E h : Sums(h, f, T)}
<1>1. S \in F /\ F \subseteq SUBSET S
  OBVIOUS
<1>f. \A T \in F : ~\E h : Sums(h, f, T)
  OBVIOUS
<1>g. \A T \in SUBSET S : T \notin F => \E h : Sums(h, f, T)
  OBVIOUS
<1> HIDE DEF F
<1>2. PICK T \in F : \A V \in F : V \subseteq T => V = T
  BY <1>1, SmallestSubset
<1>3. T \subseteq S /\ IsFiniteSet(T) /\ ~\E h : Sums(h, f, T)
  BY <1>1, <1>f, FS_Subset
<1>4. \A V \in SUBSET T : V # T => \E h : Sums(h, f, V)
  BY <1>2, <1>3, <1>g
<1> DEFINE H(V) == CHOOSE h : Sums(h, f, V)
<1> DEFINE sum(V) == IF V = {} THEN 0 ELSE f[Some(V)] + H(V \ {Some(V)})[V \ {Some(V)}]
<1> DEFINE h == [V \in SUBSET T |-> sum(V)]
<1>5. \A V \in SUBSET T : V # T => Sums(H(V), f, V)
  BY <1>4
<1>6. \A V \in SUBSET T : V # T => H(V)[V] = sum(V)
  <2> SUFFICES ASSUME NEW V \in SUBSET T, V # T PROVE H(V)[V] = sum(V)
    OBVIOUS
  <2> HIDE DEF H
  <2>1. Sums(H(V), f, V)
    BY <1>5
  <2>2. CASE V = {}
    BY <2>1, <2>2, SumsApply
  <2>3. CASE V # {}
    <3> DEFINE U == V \ {Some(V)}
    <3>1. U \in SUBSET T /\ U # T /\ U \subseteq V /\ IsFiniteSet(V)
      BY <1>3, <2>3, SomeIn, FS_Subset
    <3>2. Sums(H(U), f, U)
      BY <1>5, <3>1
    <3>3. H(V)[V] = f[Some(V)] + H(V)[U]
      BY <2>1, <2>3, SumsApply
    <3> HIDE DEF U
    <3>4. H(V)[U] = H(U)[U]
      BY <2>1, <3>1, <3>2, SumsAgree
    <3> QED
      BY <2>3, <3>3, <3>4 DEF U
  <2> QED
    BY <2>2, <2>3
<1> HIDE DEF H
<1>7. \A V \in SUBSET T : sum(V) = IF V = {} THEN 0 ELSE f[Some(V)] + h[V \ {Some(V)}]
  <2> SUFFICES ASSUME NEW V \in SUBSET T, V # {} PROVE sum(V) = f[Some(V)] + h[V \ {Some(V)}]
    OBVIOUS
  <2> DEFINE U == V \ {Some(V)}
  <2>1. U \in SUBSET T /\ U # T
    BY SomeIn
  <2>2. h[U] = sum(U) /\ H(U)[U] = sum(U)
    BY <1>6, <2>1
  <2> QED
    BY <2>2
<1> HIDE DEF sum
<1>8. Sums(h, f, T)
  BY <1>7 DEF Sums
<1> QED
  BY <1>3, <1>8

-----------------------------------------------------------------------------
(* MapThenSumSet sums as Sums says. *)
LEMMA SomaSums ==
  ASSUME NEW S, IsFiniteSet(S), NEW f
  PROVE  \E h : Sums(h, f, S) /\ Soma(f, S) = h[S]
<1> DEFINE iter == CHOOSE h : h = [T \in SUBSET S |->
                                     IF T = {} THEN 0 ELSE f[CHOOSE x \in T : TRUE]
                                                           + h[T \ {CHOOSE x \in T : TRUE}]]
<1>1. Soma(f, S) = iter[S]
  BY DEF Soma, MapThenSumSet, MapThenFoldSet
<1>2. iter = CHOOSE h : Sums(h, f, S)
  BY DEF Sums, Some
<1> HIDE DEF iter
<1>3. Sums(iter, f, S)
  BY <1>2, SumsExist
<1> QED
  BY <1>1, <1>3

LEMMA SomaDosValoresSums ==
  ASSUME NEW S, IsFiniteSet(S), NEW f, \A d \in S : f[d] = d.valor
  PROVE  SomaDosValores(S) = Soma(f, S)
<1> DEFINE Is(h) == h = [T \in SUBSET S |->
                           IF T = {} THEN 0 ELSE (CHOOSE x \in T : TRUE).valor
                                                 + h[T \ {CHOOSE x \in T : TRUE}]]
<1>1. SomaDosValores(S) = (CHOOSE h : Is(h))[S]
  BY DEF SomaDosValores, MapThenSumSet, MapThenFoldSet
<1>2. \A h : Is(h) => Sums(h, f, S)
  <2> SUFFICES ASSUME NEW h, Is(h) PROVE Sums(h, f, S)
    OBVIOUS
  <2>1. \A T \in SUBSET S : T # {} => f[CHOOSE x \in T : TRUE] = (CHOOSE x \in T : TRUE).valor
    OBVIOUS
  <2> QED
    BY <2>1 DEF Sums, Some
<1>3. \A h : Sums(h, f, S) => Is(h)
  <2> SUFFICES ASSUME NEW h, Sums(h, f, S) PROVE Is(h)
    OBVIOUS
  <2>1. \A T \in SUBSET S : T # {} => f[CHOOSE x \in T : TRUE] = (CHOOSE x \in T : TRUE).valor
    OBVIOUS
  <2> QED
    BY <2>1 DEF Sums, Some
<1> HIDE DEF Is
<1>4. Sums(CHOOSE h : Is(h), f, S)
  BY <1>2, <1>3, SumsExist
<1>5. PICK k : Sums(k, f, S) /\ Soma(f, S) = k[S]
  BY SomaSums
<1> QED
  BY <1>1, <1>4, <1>5, SumsAgree

-----------------------------------------------------------------------------
LEMMA SomaEmpty == ASSUME NEW f PROVE Soma(f, {}) = 0
<1>1. PICK h : Sums(h, f, {}) /\ Soma(f, {}) = h[{}]
  BY SomaSums, FS_EmptySet
<1> QED
  BY <1>1, SumsApply

LEMMA SomaFirst ==
  ASSUME NEW T, IsFiniteSet(T), T # {}, NEW f
  PROVE  Soma(f, T) = f[Some(T)] + Soma(f, T \ {Some(T)})
<1> DEFINE U == T \ {Some(T)}
<1>1. U \subseteq T /\ IsFiniteSet(U)
  BY FS_Subset
<1>2. PICK h : Sums(h, f, T) /\ Soma(f, T) = h[T]
  BY SomaSums
<1>3. PICK k : Sums(k, f, U) /\ Soma(f, U) = k[U]
  BY <1>1, SomaSums
<1>4. h[T] = f[Some(T)] + h[U]
  BY <1>2, SumsApply
<1> HIDE DEF U
<1>5. h[U] = k[U]
  BY <1>1, <1>2, <1>3, SumsAgree
<1> QED
  BY <1>2, <1>3, <1>4, <1>5 DEF U

LEMMA SomaSame ==
  ASSUME NEW T, IsFiniteSet(T), NEW f, NEW g, \A x \in T : f[x] = g[x]
  PROVE  Soma(f, T) = Soma(g, T)
<1>1. PICK h : Sums(h, f, T) /\ Soma(f, T) = h[T]
  BY SomaSums
<1>2. PICK k : Sums(k, g, T) /\ Soma(g, T) = k[T]
  BY SomaSums
<1> QED
  BY <1>1, <1>2, SumsAgree

LEMMA SomaInt ==
  ASSUME NEW T, IsFiniteSet(T), NEW f, \A x \in T : f[x] \in Int
  PROVE  Soma(f, T) \in Int
<1> SUFFICES ASSUME Soma(f, T) \notin Int PROVE FALSE
  OBVIOUS
<1> DEFINE F == {V \in SUBSET T : Soma(f, V) \notin Int}
<1>1. T \in F /\ F \subseteq SUBSET T
  OBVIOUS
<1>f. \A V \in SUBSET T : V \in F <=> Soma(f, V) \notin Int
  OBVIOUS
<1> HIDE DEF F
<1>2. PICK V \in F : \A U \in F : U \subseteq V => U = V
  BY <1>1, SmallestSubset
<1>3. V \subseteq T /\ IsFiniteSet(V) /\ Soma(f, V) \notin Int
  BY <1>1, <1>f, FS_Subset
<1>4. V # {}
  BY <1>3, SomaEmpty
<1> DEFINE x == Some(V)
<1>5. x \in V
  BY <1>4, SomeIn
<1>6. Soma(f, V) = f[x] + Soma(f, V \ {x})
  BY <1>3, <1>4, SomaFirst
<1> HIDE DEF x
<1>7. Soma(f, V \ {x}) \in Int
  BY <1>2, <1>3, <1>5, <1>f
<1> QED
  BY <1>3, <1>5, <1>6, <1>7

LEMMA SomaZero ==
  ASSUME NEW T, IsFiniteSet(T), NEW f, \A x \in T : f[x] = 0
  PROVE  Soma(f, T) = 0
<1> SUFFICES ASSUME Soma(f, T) # 0 PROVE FALSE
  OBVIOUS
<1> DEFINE F == {V \in SUBSET T : Soma(f, V) # 0}
<1>1. T \in F /\ F \subseteq SUBSET T
  OBVIOUS
<1>f. \A V \in SUBSET T : V \in F <=> Soma(f, V) # 0
  OBVIOUS
<1> HIDE DEF F
<1>2. PICK V \in F : \A U \in F : U \subseteq V => U = V
  BY <1>1, SmallestSubset
<1>3. V \subseteq T /\ IsFiniteSet(V) /\ Soma(f, V) # 0
  BY <1>1, <1>f, FS_Subset
<1>4. V # {}
  BY <1>3, SomaEmpty
<1> DEFINE x == Some(V)
<1>5. x \in V
  BY <1>4, SomeIn
<1>6. Soma(f, V) = f[x] + Soma(f, V \ {x})
  BY <1>3, <1>4, SomaFirst
<1> HIDE DEF x
<1>7. Soma(f, V \ {x}) = 0
  BY <1>2, <1>3, <1>5, <1>f
<1> QED
  BY <1>3, <1>5, <1>6, <1>7

(* Any element may be taken first. *)
LEMMA SomaTake ==
  ASSUME NEW T, IsFiniteSet(T), NEW f, \A x \in T : f[x] \in Int, NEW e \in T
  PROVE  Soma(f, T) = f[e] + Soma(f, T \ {e})
<1> DEFINE Good(V) == \A x \in V : Soma(f, V) = f[x] + Soma(f, V \ {x})
<1> SUFFICES ASSUME ~Good(T) PROVE FALSE
  OBVIOUS
<1> DEFINE F == {V \in SUBSET T : ~Good(V)}
<1>1. T \in F /\ F \subseteq SUBSET T
  OBVIOUS
<1>f. \A V \in SUBSET T : V \in F <=> ~Good(V)
  OBVIOUS
<1> HIDE DEF F
<1>2. PICK V \in F : \A U \in F : U \subseteq V => U = V
  BY <1>1, SmallestSubset
<1>3. V \in SUBSET T /\ ~Good(V) /\ \A U \in SUBSET T : U \subseteq V /\ U # V => Good(U)
  <2> HIDE DEF Good
  <2> QED
    BY <1>1, <1>2, <1>f
<1>4. PICK x \in V : Soma(f, V) # f[x] + Soma(f, V \ {x})
  BY <1>3
<1> DEFINE y == Some(V)
<1>5. y \in V /\ IsFiniteSet(V)
  BY <1>3, <1>4, SomeIn, FS_Subset
<1>6. Soma(f, V) = f[y] + Soma(f, V \ {y})
  BY <1>4, <1>5, SomaFirst
<1> HIDE DEF y
<1>7. x # y
  BY <1>4, <1>6
<1> DEFINE W == (V \ {y}) \ {x}
<1>8. Soma(f, V \ {y}) = f[x] + Soma(f, W)
  BY <1>3, <1>5, <1>7
<1>9. (V \ {x}) \ {y} = W
  OBVIOUS
<1>10. Soma(f, V \ {x}) = f[y] + Soma(f, W)
  BY <1>3, <1>5, <1>7, <1>9
<1>11. f[x] \in Int /\ f[y] \in Int /\ Soma(f, W) \in Int
  <2>1. IsFiniteSet(W) /\ W \subseteq T
    BY <1>3, <1>5, FS_Subset
  <2> HIDE DEF W
  <2> QED
    BY <1>3, <1>4, <1>5, <2>1, SomaInt
<1> HIDE DEF W, Good
<1> QED
  BY <1>4, <1>6, <1>8, <1>10, <1>11

LEMMA SomaPut ==
  ASSUME NEW T, IsFiniteSet(T), NEW f, \A x \in T : f[x] \in Int, NEW e, e \notin T, f[e] \in Int
  PROVE  IsFiniteSet(T \cup {e}) /\ Soma(f, T \cup {e}) = f[e] + Soma(f, T)
<1>1. IsFiniteSet(T \cup {e})
  BY FS_AddElement
<1>2. (T \cup {e}) \ {e} = T
  OBVIOUS
<1>3. Soma(f, T \cup {e}) = f[e] + Soma(f, (T \cup {e}) \ {e})
  BY <1>1, SomaTake
<1> QED
  BY <1>1, <1>2, <1>3

(* What becomes of the elements does not change the sum, if their values stay. *)
LEMMA SomaImage ==
  ASSUME NEW T, IsFiniteSet(T), NEW f, NEW g, \A x \in T : f[x] \in Int /\ f[g[x]] = f[x],
         \A x, y \in T : g[x] = g[y] => x = y
  PROVE  Soma(f, {g[x] : x \in T}) = Soma(f, T)
<1> DEFINE Image(V) == {g[x] : x \in V}
<1> SUFFICES ASSUME Soma(f, Image(T)) # Soma(f, T) PROVE FALSE
  OBVIOUS
<1> DEFINE F == {V \in SUBSET T : Soma(f, Image(V)) # Soma(f, V)}
<1>1. T \in F /\ F \subseteq SUBSET T
  OBVIOUS
<1>f. \A V \in SUBSET T : V \in F <=> Soma(f, Image(V)) # Soma(f, V)
  OBVIOUS
<1> HIDE DEF F
<1>2. PICK V \in F : \A U \in F : U \subseteq V => U = V
  BY <1>1, SmallestSubset
<1>3. V \in SUBSET T /\ Soma(f, Image(V)) # Soma(f, V) /\ IsFiniteSet(V)
  <2> HIDE DEF Image
  <2> QED
    BY <1>1, <1>f, FS_Subset
<1>4. V # {}
  <2>1. Image({}) = {}
    OBVIOUS
  <2> QED
    BY <1>3, <2>1
<1>5. PICK x \in V : TRUE
  BY <1>4
<1>6. Soma(f, Image(V \ {x})) = Soma(f, V \ {x})
  <2> HIDE DEF Image
  <2> QED
    BY <1>2, <1>3, <1>5, <1>f
<1>7. Image(V) \ {g[x]} = Image(V \ {x}) /\ g[x] \in Image(V)
  BY <1>3, <1>5
<1>8. IsFiniteSet(Image(V))
  <2> DEFINE k == [y \in V |-> g[y]]
  <2>1. k \in Surjection(V, Image(V))
    BY DEF Surjection
  <2> HIDE DEF k, Image
  <2> QED
    BY <1>3, <2>1, FS_Surjection
<1>9. \A y \in Image(V) : f[y] \in Int
  BY <1>3
<1> HIDE DEF Image
<1>10. Soma(f, Image(V)) = f[g[x]] + Soma(f, Image(V) \ {g[x]})
  BY <1>7, <1>8, <1>9, SomaTake
<1>11. Soma(f, V) = f[x] + Soma(f, V \ {x})
  BY <1>3, <1>5, SomaTake
<1>12. f[g[x]] = f[x]
  BY <1>3, <1>5
<1> QED
  BY <1>3, <1>6, <1>7, <1>10, <1>11, <1>12

-----------------------------------------------------------------------------
(* Finite sets stay finite when they lose or gain an element, or map. *)
LEMMA FiniteSubset == ASSUME NEW S, IsFiniteSet(S), NEW T, T \subseteq S PROVE IsFiniteSet(T)
<1>1. T \in SUBSET S
  OBVIOUS
<1> QED
  BY <1>1, FS_Subset

LEMMA FiniteMore == ASSUME NEW S, IsFiniteSet(S), NEW x PROVE IsFiniteSet(S \cup {x})
  BY FS_AddElement

LEMMA FiniteNone == IsFiniteSet({})
  BY FS_EmptySet

LEMMA FiniteImage == ASSUME NEW S, IsFiniteSet(S), NEW g PROVE IsFiniteSet({g[x] : x \in S})
<1> DEFINE f == [x \in S |-> g[x]]
           T == {g[x] : x \in S}
<1>1. f \in Surjection(S, T)
  BY DEF Surjection
<1> QED
  BY <1>1, FS_Surjection
=============================================================================
