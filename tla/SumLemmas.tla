----------------------------- MODULE SumLemmas -----------------------------
(***************************************************************************)
(* What the sums and folds of the community modules compute over a finite  *)
(* set: the facts that the proofs about reservations, budgets, positions   *)
(* and fees rest on.                                                       *)
(*                                                                         *)
(* A fold's value is that of a recursive function; that this function      *)
(* exists and, for sums, does not depend on the order in which elements    *)
(* are chosen needs induction over the set.  The induction is carried by   *)
(* LeastSet: among the sets that contradict a claim one has no smaller one.   *)
(***************************************************************************)
EXTENDS Integers, FiniteSets, FiniteSetsExt, Functions, FiniteSetTheorems,
        NaturalsInduction, WellFoundedInduction, TLAPS

\* The element the fold takes next.
Chosen(S) == CHOOSE x \in S : TRUE

\* g sums f over every subset of S, one chosen element at a time.
Sums(f, g, S) ==
    g = [T \in SUBSET S |->
            IF T = {} THEN 0 ELSE f[Chosen(T)] + g[T \ {Chosen(T)}]]

LEMMA LeastSet ==
    ASSUME NEW S, IsFiniteSet(S), NEW W, W \subseteq SUBSET S, W # {}
    PROVE  \E T \in W : \A U \in SUBSET T : U # T => U \notin W
  <1> DEFINE R == StrictSubsetOrdering(S)
             F == FiniteSubsetsOf(S)
  <1>1. W \subseteq F
    BY FS_Subset DEF FiniteSubsetsOf
  <1>2. IsWellFoundedOn(R, F)
    BY FS_StrictSubsetOrderingWellFounded
  <1> HIDE DEF R, F
  <1>3. \E T \in W : \A U \in W : <<U, T>> \notin R
    BY <1>1, <1>2, WFMin
  <1> QED
    BY <1>3 DEF R, StrictSubsetOrdering

LEMMA ChosenIn == \A S : S # {} => Chosen(S) \in S
  BY DEF Chosen

\* Two such functions agree wherever both are defined.
LEMMA SumsAgree ==
    ASSUME NEW f, NEW S, IsFiniteSet(S), NEW g, Sums(f, g, S),
           NEW T, NEW h, Sums(f, h, T), NEW U \in SUBSET (S \cap T)
    PROVE  g[U] = h[U]
  <1> DEFINE W == {V \in SUBSET S : V \subseteq T /\ g[V] # h[V]}
  <1>1. SUFFICES ASSUME W # {} PROVE FALSE
    OBVIOUS
  <1>2. PICK V \in W : \A V2 \in SUBSET V : V2 # V => V2 \notin W
    <2> HIDE DEF W
    <2>1. W \subseteq SUBSET S
      BY DEF W
    <2> QED
      BY <1>1, <2>1, LeastSet
  <1>3. V \in SUBSET S /\ V \in SUBSET T /\ g[V] # h[V]
    BY <1>2
  <1>4. /\ g[V] = IF V = {} THEN 0 ELSE f[Chosen(V)] + g[V \ {Chosen(V)}]
        /\ h[V] = IF V = {} THEN 0 ELSE f[Chosen(V)] + h[V \ {Chosen(V)}]
    BY <1>3 DEF Sums
  <1>5. V # {}
    BY <1>3, <1>4
  <1>6. V \ {Chosen(V)} \in SUBSET V /\ V \ {Chosen(V)} # V
    BY <1>5, ChosenIn
  <1>7. g[V \ {Chosen(V)}] = h[V \ {Chosen(V)}]
    BY <1>2, <1>3, <1>6
  <1> QED
    BY <1>3, <1>4, <1>5, <1>7

LEMMA SumsExist ==
    ASSUME NEW f, NEW S, IsFiniteSet(S)
    PROVE  \E g : Sums(f, g, S)
  <1> DEFINE W == {T \in SUBSET S : ~ \E g : Sums(f, g, T)}
  <1>1. SUFFICES ASSUME W # {} PROVE FALSE
    OBVIOUS
  <1>2. PICK T \in W : \A U \in SUBSET T : U # T => U \notin W
    <2> HIDE DEF W
    <2>1. W \subseteq SUBSET S
      BY DEF W
    <2> QED
      BY <1>1, <2>1, LeastSet
  <1>3. T \in SUBSET S /\ ~ \E g : Sums(f, g, T)
    BY <1>2
  <1> DEFINE h(U) == CHOOSE g : Sums(f, g, U)
             part(U) == h(U)[U]
             all == [U \in SUBSET T |->
                       IF U = {} THEN 0
                       ELSE f[Chosen(U)] + part(U \ {Chosen(U)})]
  <1>4. ASSUME NEW U \in SUBSET T, U # T PROVE Sums(f, h(U), U)
    <2>1. \E g : Sums(f, g, U)
      BY <1>2, <1>3, <1>4
    <2> QED
      BY <2>1
  <1> HIDE DEF h
  <1>5. ASSUME NEW U \in SUBSET T, U # {}
        PROVE  part(U \ {Chosen(U)}) = all[U \ {Chosen(U)}]
    <2> DEFINE V == U \ {Chosen(U)}
    <2>1. V \in SUBSET T /\ V # T
      BY <1>5, ChosenIn
    <2>2. Sums(f, h(V), V)
      BY <1>4, <2>1
    <2>3. h(V)[V] = IF V = {} THEN 0 ELSE f[Chosen(V)] + h(V)[V \ {Chosen(V)}]
      BY <2>2 DEF Sums
    <2>4. CASE V = {}
      BY <2>1, <2>3, <2>4
    <2>5. CASE V # {}
      <3> DEFINE X == V \ {Chosen(V)}
      <3>1. X \in SUBSET T /\ X # T /\ X \in SUBSET V
        BY <2>1, <2>5, ChosenIn
      <3>2. Sums(f, h(X), X)
        BY <1>4, <3>1
      <3>3. IsFiniteSet(V)
        BY <1>3, <2>1, FS_Subset
      <3>4. h(V)[X] = h(X)[X]
        <4> HIDE DEF V, X
        <4> QED
          BY <2>2, <3>1, <3>2, <3>3, SumsAgree
      <3> QED
        BY <2>1, <2>3, <2>5, <3>4
    <2> QED
      BY <2>4, <2>5
  <1>6. Sums(f, all, T)
    <2>1. all = [U \in SUBSET T |->
                   IF U = {} THEN 0 ELSE f[Chosen(U)] + all[U \ {Chosen(U)}]]
      <3> HIDE DEF part
      <3> QED
        BY <1>5
    <2> QED
      BY <2>1 DEF Sums
  <1> QED
    BY <1>3, <1>6

LEMMA SumIsFold ==
    ASSUME NEW f, NEW S
    PROVE  SumFunctionOnSet(f, S) = (CHOOSE g : Sums(f, g, S))[S]
  BY DEF SumFunctionOnSet, FoldFunctionOnSet, MapThenFoldSet, Sums, Chosen

\* A recursive function with the fold's equation is the fold.
LEMMA SumIs ==
    ASSUME NEW S, IsFiniteSet(S), NEW f, NEW h, Sums(f, h, S)
    PROVE  SumFunctionOnSet(f, S) = h[S]
  <1> DEFINE g == CHOOSE x : Sums(f, x, S)
  <1>1. Sums(f, g, S)
    BY SumsExist
  <1>2. SumFunctionOnSet(f, S) = g[S]
    BY SumIsFold
  <1>3. S \in SUBSET (S \cap S)
    OBVIOUS
  <1> HIDE DEF g
  <1>4. g[S] = h[S]
    BY <1>1, <1>3, SumsAgree
  <1> QED
    BY <1>2, <1>4

\* The equation the fold stands for.
LEMMA SumUnfold ==
    ASSUME NEW f, NEW S, IsFiniteSet(S)
    PROVE  SumFunctionOnSet(f, S) =
              IF S = {} THEN 0
              ELSE f[Chosen(S)] + SumFunctionOnSet(f, S \ {Chosen(S)})
  <1> DEFINE T == S \ {Chosen(S)}
             g == CHOOSE x : Sums(f, x, S)
             h == CHOOSE x : Sums(f, x, T)
  <1>1. IsFiniteSet(T)
    BY FS_Subset
  <1>2. Sums(f, g, S) /\ Sums(f, h, T)
    BY <1>1, SumsExist
  <1>3. SumFunctionOnSet(f, S) = g[S] /\ SumFunctionOnSet(f, T) = h[T]
    BY SumIsFold
  <1> HIDE DEF g, h
  <1>4. g[S] = IF S = {} THEN 0 ELSE f[Chosen(S)] + g[T]
    BY <1>2 DEF Sums
  <1>5. g[T] = h[T]
    <2> HIDE DEF T
    <2>1. T \in SUBSET (S \cap T)
      BY DEF T
    <2> QED
      BY <1>2, <2>1, SumsAgree
  <1> QED
    BY <1>3, <1>4, <1>5
----------------------------------------------------------------------------
LEMMA SumEmpty == \A f : SumFunctionOnSet(f, {}) = 0
  BY FS_EmptySet, SumUnfold

\* A sum depends only on what is summed.
LEMMA SumSame ==
    ASSUME NEW S, IsFiniteSet(S), NEW f, NEW g, \A x \in S : f[x] = g[x]
    PROVE  SumFunctionOnSet(f, S) = SumFunctionOnSet(g, S)
  <1> DEFINE F(T) == SumFunctionOnSet(f, T)
             G(T) == SumFunctionOnSet(g, T)
             W == {T \in SUBSET S : F(T) # G(T)}
  <1>1. SUFFICES ASSUME W # {} PROVE FALSE
    OBVIOUS
  <1>2. PICK T \in W : \A U \in SUBSET T : U # T => U \notin W
    <2> HIDE DEF W
    <2>1. W \subseteq SUBSET S
      BY DEF W
    <2> QED
      BY <1>1, <2>1, LeastSet
  <1>3. IsFiniteSet(T)
    BY FS_Subset
  <1>4. /\ F(T) = IF T = {} THEN 0 ELSE f[Chosen(T)] + F(T \ {Chosen(T)})
        /\ G(T) = IF T = {} THEN 0 ELSE g[Chosen(T)] + G(T \ {Chosen(T)})
    BY <1>3, SumUnfold
  <1> HIDE DEF F, G
  <1>5. T # {}
    BY <1>2, <1>4
  <1>6. Chosen(T) \in T /\ T \ {Chosen(T)} \in SUBSET T /\ T \ {Chosen(T)} # T
    BY <1>5, ChosenIn
  <1>7. F(T \ {Chosen(T)}) = G(T \ {Chosen(T)})
    BY <1>2, <1>6
  <1> QED
    BY <1>2, <1>4, <1>6, <1>7

LEMMA SumType ==
    ASSUME NEW S, IsFiniteSet(S), NEW f, \A x \in S : f[x] \in Int
    PROVE  SumFunctionOnSet(f, S) \in Int
  <1> DEFINE F(T) == SumFunctionOnSet(f, T)
             W == {T \in SUBSET S : F(T) \notin Int}
  <1>1. SUFFICES ASSUME W # {} PROVE FALSE
    OBVIOUS
  <1>2. PICK T \in W : \A U \in SUBSET T : U # T => U \notin W
    <2> HIDE DEF W
    <2>1. W \subseteq SUBSET S
      BY DEF W
    <2> QED
      BY <1>1, <2>1, LeastSet
  <1>3. F(T) = IF T = {} THEN 0 ELSE f[Chosen(T)] + F(T \ {Chosen(T)})
    BY FS_Subset, SumUnfold
  <1> HIDE DEF F
  <1>4. T # {}
    BY <1>2, <1>3
  <1>5. Chosen(T) \in T /\ T \ {Chosen(T)} \in SUBSET T /\ T \ {Chosen(T)} # T
    BY <1>4, ChosenIn
  <1>6. F(T \ {Chosen(T)}) \in Int
    BY <1>2, <1>5
  <1> QED
    BY <1>2, <1>3, <1>5, <1>6

\* Any element may be taken out first.
LEMMA SumTake ==
    ASSUME NEW S, IsFiniteSet(S), NEW f, \A x \in S : f[x] \in Int,
           NEW y \in S
    PROVE  SumFunctionOnSet(f, S) = f[y] + SumFunctionOnSet(f, S \ {y})
  <1> DEFINE F(T) == SumFunctionOnSet(f, T)
             W == {T \in SUBSET S : \E z \in T : F(T) # f[z] + F(T \ {z})}
  <1>1. SUFFICES ASSUME W # {} PROVE FALSE
    OBVIOUS
  <1>2. PICK T \in W : \A U \in SUBSET T : U # T => U \notin W
    <2> HIDE DEF W
    <2>1. W \subseteq SUBSET S
      BY DEF W
    <2> QED
      BY <1>1, <2>1, LeastSet
  <1>3. PICK z \in T : F(T) # f[z] + F(T \ {z})
    BY <1>2
  <1>4. F(T) = f[Chosen(T)] + F(T \ {Chosen(T)})
    BY FS_Subset, SumUnfold
  <1> DEFINE c == Chosen(T)
             A == T \ {c}
             B == T \ {z}
  <1>5. c \in T /\ c # z
    BY <1>3, <1>4, ChosenIn
  <1>6. /\ A \in SUBSET T /\ A # T /\ z \in A
        /\ B \in SUBSET T /\ B # T /\ c \in B
        /\ A \ {z} = B \ {c}
    BY <1>3, <1>5
  <1>7. F(A) = f[z] + F(A \ {z}) /\ F(B) = f[c] + F(B \ {c})
    BY <1>2, <1>6
  <1>8. f[c] \in Int /\ f[z] \in Int /\ F(A \ {z}) \in Int
    <2>1. IsFiniteSet(A \ {z}) /\ \A x \in A \ {z} : f[x] \in Int
      BY FS_Subset
    <2> QED
      BY <1>5, <2>1, SumType
  <1>9. F(T) = f[c] + F(A) /\ F(T) # f[z] + F(B) /\ F(A \ {z}) = F(B \ {c})
    <2>1. F(T) = f[c] + F(A) /\ F(T) # f[z] + F(B)
      BY <1>3, <1>4
    <2> HIDE DEF F, A, B, c
    <2> QED
      BY <2>1, <1>6
  <1> HIDE DEF F, A, B, c
  <1> QED
    BY <1>7, <1>8, <1>9

\* The sum grows with each summand.
LEMMA SumLess ==
    ASSUME NEW S, IsFiniteSet(S), NEW f, NEW g,
           \A x \in S : f[x] \in Int /\ g[x] \in Int /\ f[x] <= g[x]
    PROVE  SumFunctionOnSet(f, S) <= SumFunctionOnSet(g, S)
  <1> DEFINE F(T) == SumFunctionOnSet(f, T)
             G(T) == SumFunctionOnSet(g, T)
             W == {T \in SUBSET S : ~ (F(T) <= G(T))}
  <1>1. SUFFICES ASSUME W # {} PROVE FALSE
    OBVIOUS
  <1>2. PICK T \in W : \A U \in SUBSET T : U # T => U \notin W
    <2> HIDE DEF W
    <2>1. W \subseteq SUBSET S
      BY DEF W
    <2> QED
      BY <1>1, <2>1, LeastSet
  <1>3. IsFiniteSet(T)
    BY FS_Subset
  <1>4. /\ F(T) = IF T = {} THEN 0 ELSE f[Chosen(T)] + F(T \ {Chosen(T)})
        /\ G(T) = IF T = {} THEN 0 ELSE g[Chosen(T)] + G(T \ {Chosen(T)})
    BY <1>3, SumUnfold
  <1>5. T # {}
    BY <1>2, <1>4
  <1>6. Chosen(T) \in T /\ T \ {Chosen(T)} \in SUBSET T /\ T \ {Chosen(T)} # T
    BY <1>5, ChosenIn
  <1>7. F(T \ {Chosen(T)}) <= G(T \ {Chosen(T)})
    BY <1>2, <1>6
  <1>8. F(T \ {Chosen(T)}) \in Int /\ G(T \ {Chosen(T)}) \in Int
    <2>1. IsFiniteSet(T \ {Chosen(T)})
      BY <1>3, FS_Subset
    <2> QED
      BY <1>6, <2>1, SumType
  <1> HIDE DEF F, G
  <1> QED
    BY <1>2, <1>4, <1>6, <1>7, <1>8
----------------------------------------------------------------------------
\* One summand more.
LEMMA SumAdd ==
    ASSUME NEW S, IsFiniteSet(S), NEW f, NEW y, y \notin S,
           \A x \in S \cup {y} : f[x] \in Int
    PROVE  SumFunctionOnSet(f, S \cup {y}) = f[y] + SumFunctionOnSet(f, S)
  <1>1. IsFiniteSet(S \cup {y}) /\ (S \cup {y}) \ {y} = S
    BY FS_AddElement
  <1> QED
    BY <1>1, SumTake

\* One summand changed.
LEMMA SumChange ==
    ASSUME NEW S, IsFiniteSet(S), NEW f, NEW g, NEW y \in S,
           \A x \in S : f[x] \in Int /\ g[x] \in Int,
           \A x \in S \ {y} : g[x] = f[x]
    PROVE  SumFunctionOnSet(g, S) = SumFunctionOnSet(f, S) - f[y] + g[y]
  <1> DEFINE T == S \ {y}
  <1>1. IsFiniteSet(T) /\ \A x \in T : f[x] = g[x] /\ f[x] \in Int
    BY FS_Subset
  <1>2. SumFunctionOnSet(f, S) = f[y] + SumFunctionOnSet(f, T)
    BY SumTake
  <1>3. SumFunctionOnSet(g, S) = g[y] + SumFunctionOnSet(g, T)
    BY SumTake
  <1> HIDE DEF T
  <1>4. SumFunctionOnSet(f, T) = SumFunctionOnSet(g, T)
    BY <1>1, SumSame
  <1>5. SumFunctionOnSet(f, T) \in Int
    BY <1>1, SumType
  <1> QED
    BY <1>2, <1>3, <1>4, <1>5

LEMMA SumZero ==
    ASSUME NEW S, IsFiniteSet(S), NEW f, \A x \in S : f[x] = 0
    PROVE  SumFunctionOnSet(f, S) = 0
  <1> DEFINE W == {T \in SUBSET S : SumFunctionOnSet(f, T) # 0}
  <1> SUFFICES ASSUME W # {} PROVE FALSE
      OBVIOUS
  <1>1. PICK T \in W : \A U \in SUBSET T : U # T => U \notin W
    <2> HIDE DEF W
    <2>1. W \subseteq SUBSET S
      BY DEF W
    <2> QED
      BY <2>1, LeastSet
  <1>2. SumFunctionOnSet(f, T) =
           IF T = {} THEN 0
           ELSE f[Chosen(T)] + SumFunctionOnSet(f, T \ {Chosen(T)})
    BY FS_Subset, SumUnfold
  <1>3. T # {}
    BY <1>1, <1>2
  <1>4. Chosen(T) \in T /\ T \ {Chosen(T)} \in SUBSET T
        /\ T \ {Chosen(T)} # T
    BY <1>3, ChosenIn
  <1> QED
    BY <1>1, <1>2, <1>4

\* A sum of natural numbers is one.
LEMMA SumNat ==
    ASSUME NEW S, IsFiniteSet(S), NEW f, \A x \in S : f[x] \in Nat
    PROVE  SumFunctionOnSet(f, S) \in Nat
  <1> DEFINE g == [x \in S |-> 0]
  <1>1. \A x \in S : g[x] \in Int /\ f[x] \in Int /\ g[x] <= f[x] /\ g[x] = 0
    OBVIOUS
  <1> HIDE DEF g
  <1>2. SumFunctionOnSet(g, S) = 0
    BY <1>1, SumZero
  <1>3. SumFunctionOnSet(g, S) <= SumFunctionOnSet(f, S)
    BY <1>1, SumLess
  <1>4. SumFunctionOnSet(f, S) \in Int
    BY SumType
  <1> QED
    BY <1>2, <1>3, <1>4

LEMMA SumOne ==
    ASSUME NEW f, NEW x, f[x] \in Int PROVE SumFunctionOnSet(f, {x}) = f[x]
  <1>1. {} \cup {x} = {x} /\ x \notin {} /\ IsFiniteSet({})
    BY FS_EmptySet
  <1>2. SumFunctionOnSet(f, {} \cup {x}) = f[x] + SumFunctionOnSet(f, {})
    BY <1>1, SumAdd
  <1> QED
    BY <1>1, <1>2, SumEmpty

\* The sum over two sets that share nothing.
LEMMA SumUnion ==
    ASSUME NEW S, IsFiniteSet(S), NEW T, IsFiniteSet(T), S \cap T = {},
           NEW f, \A x \in S \cup T : f[x] \in Int
    PROVE  SumFunctionOnSet(f, S \cup T)
              = SumFunctionOnSet(f, S) + SumFunctionOnSet(f, T)
  <1> DEFINE F(U) == SumFunctionOnSet(f, U)
             W == {U \in SUBSET S : F(U \cup T) # F(U) + F(T)}
  <1>1. SUFFICES ASSUME W # {} PROVE FALSE
    OBVIOUS
  <1>2. PICK U \in W : \A V \in SUBSET U : V # U => V \notin W
    <2> HIDE DEF W
    <2>1. W \subseteq SUBSET S
      BY DEF W
    <2> QED
      BY <1>1, <2>1, LeastSet
  <1>3. IsFiniteSet(U) /\ IsFiniteSet(U \cup T) /\ F(T) \in Int
    BY FS_Subset, FS_Union, SumType
  <1>4. U # {}
    <2> SUFFICES ASSUME U = {} PROVE FALSE
        OBVIOUS
    <2>1. F(U) = 0 /\ F(U \cup T) # F(U) + F(T) /\ U \cup T = T
      BY <1>2, SumEmpty
    <2> HIDE DEF F, W
    <2> QED
      BY <1>3, <2>1
  <1>5. PICK y \in U : TRUE
    BY <1>4
  <1> DEFINE V == U \ {y}
  <1>6. V \in SUBSET U /\ V # U /\ (U \cup T) \ {y} = V \cup T
    BY <1>5
  <1>7. F(V \cup T) = F(V) + F(T)
    <2> HIDE DEF F
    <2> QED
      BY <1>2, <1>6
  <1>8. F(U) = f[y] + F(V)
    BY <1>3, SumTake
  <1>9. F(U \cup T) = f[y] + F(V \cup T)
    <2>1. F(U \cup T) = f[y] + F((U \cup T) \ {y})
      BY <1>3, SumTake
    <2> HIDE DEF F, V
    <2> QED
      BY <2>1, <1>6
  <1>10. F(V) \in Int /\ f[y] \in Int
    <2>1. IsFiniteSet(V)
      BY <1>3, FS_Subset
    <2> QED
      BY <2>1, SumType
  <1> HIDE DEF F, V
  <1> QED
    BY <1>2, <1>3, <1>7, <1>8, <1>9, <1>10

\* A sum of natural numbers is no smaller than that of a part.
LEMMA SumPart ==
    ASSUME NEW S, IsFiniteSet(S), NEW T \in SUBSET S,
           NEW f, \A x \in S : f[x] \in Nat
    PROVE  SumFunctionOnSet(f, T) <= SumFunctionOnSet(f, S)
  <1> DEFINE R == S \ T
  <1>1. /\ IsFiniteSet(T) /\ IsFiniteSet(R) /\ T \cap R = {} /\ T \cup R = S
        /\ \A x \in T \cup R : f[x] \in Int
    BY FS_Subset
  <1> HIDE DEF R
  <1>2. SumFunctionOnSet(f, S)
           = SumFunctionOnSet(f, T) + SumFunctionOnSet(f, R)
    <2>1. SumFunctionOnSet(f, T \cup R)
             = SumFunctionOnSet(f, T) + SumFunctionOnSet(f, R)
      BY <1>1, SumUnion
    <2> QED
      BY <1>1, <2>1
  <1>3. SumFunctionOnSet(f, T) \in Int
    BY <1>1, SumType
  <1>4. SumFunctionOnSet(f, R) \in Nat
    <2>1. \A x \in R : f[x] \in Nat
      BY <1>1
    <2> QED
      BY <1>1, <2>1, SumNat
  <1> QED
    BY <1>2, <1>3, <1>4

\* What is not counted may as well be counted as nothing.
LEMMA SumRest ==
    ASSUME NEW S, IsFiniteSet(S), NEW T \in SUBSET S, NEW f,
           \A x \in T : f[x] \in Int, \A x \in S \ T : f[x] = 0
    PROVE  SumFunctionOnSet(f, S) = SumFunctionOnSet(f, T)
  <1> DEFINE R == S \ T
  <1>1. /\ IsFiniteSet(T) /\ IsFiniteSet(R) /\ T \cap R = {} /\ T \cup R = S
        /\ \A x \in T \cup R : f[x] \in Int
        /\ \A x \in R : f[x] = 0
    BY FS_Subset
  <1> HIDE DEF R
  <1>2. SumFunctionOnSet(f, S)
           = SumFunctionOnSet(f, T) + SumFunctionOnSet(f, R)
    <2>1. SumFunctionOnSet(f, T \cup R)
             = SumFunctionOnSet(f, T) + SumFunctionOnSet(f, R)
      BY <1>1, SumUnion
    <2> QED
      BY <1>1, <2>1
  <1>3. SumFunctionOnSet(f, R) = 0
    BY <1>1, SumZero
  <1>4. SumFunctionOnSet(f, T) \in Int
    BY <1>1, SumType
  <1> QED
    BY <1>2, <1>3, <1>4

\* Summing over different things is summing over their names.
LEMMA SumImage ==
    ASSUME NEW S, IsFiniteSet(S), NEW g, \A x, y \in S : g[x] = g[y] => x = y,
           NEW f, \A x \in S : f[g[x]] \in Int
    PROVE  SumFunctionOnSet(f, {g[x] : x \in S})
              = SumFunctionOnSet([x \in S |-> f[g[x]]], S)
  <1> DEFINE h == [x \in S |-> f[g[x]]]
             I(T) == {g[x] : x \in T}
             W == {T \in SUBSET S : /\ IsFiniteSet(I(T))
                                    /\ SumFunctionOnSet(f, I(T))
                                          = SumFunctionOnSet(h, T)}
             V == {T \in SUBSET S : T \notin W}
  <1> SUFFICES ASSUME V # {} PROVE FALSE
    <2>1. S \in SUBSET S
      OBVIOUS
    <2> QED
      BY <2>1
  <1>1. PICK T \in V : \A U \in SUBSET T : U # T => U \notin V
    <2> HIDE DEF V
    <2>1. V \subseteq SUBSET S
      BY DEF V
    <2> QED
      BY <2>1, LeastSet
  <1>2. T # {}
    <2>1. I({}) = {}
      OBVIOUS
    <2> QED
      BY <1>1, <2>1, FS_EmptySet, SumEmpty
  <1>3. PICK y \in T : TRUE
    BY <1>2
  <1> DEFINE U == T \ {y}
  <1>4. /\ U \in SUBSET T /\ U # T /\ U \in SUBSET S /\ T = U \cup {y} /\ y \notin U
        /\ IsFiniteSet(U) /\ y \in S
    BY <1>1, <1>3, FS_Subset
  <1>5. U \in W
    BY <1>1, <1>4
  <1>6. I(T) = I(U) \cup {g[y]} /\ g[y] \notin I(U)
    BY <1>4
  <1>7. \A z \in I(U) \cup {g[y]} : f[z] \in Int
    BY <1>4
  <1>8. \A x \in U \cup {y} : h[x] \in Int
    BY <1>4
  <1>9. h[y] = f[g[y]]
    BY <1>4
  <1>10. IsFiniteSet(I(U)) /\ SumFunctionOnSet(f, I(U)) = SumFunctionOnSet(h, U)
    BY <1>5
  <1> HIDE DEF I, h, U
  <1>11. SumFunctionOnSet(f, I(T)) = f[g[y]] + SumFunctionOnSet(f, I(U))
    BY <1>6, <1>7, <1>10, SumAdd
  <1>12. SumFunctionOnSet(h, T) = h[y] + SumFunctionOnSet(h, U)
    BY <1>4, <1>8, SumAdd
  <1>13. IsFiniteSet(I(T))
    BY <1>6, <1>10, FS_AddElement
  <1> QED
    BY <1>1, <1>9, <1>10, <1>11, <1>12, <1>13
----------------------------------------------------------------------------
(***************************************************************************)
(* Folds that are no sums: FoldSet over a set, FoldLeft over the indices   *)
(* of a sequence.  An operator cannot be a parameter of a lemma here, so   *)
(* the step of the fold is a function on the set of values it may take;    *)
(* where a fold is used, it is shown to be that function.                  *)
(***************************************************************************)
LEMMA LeastNumber ==
    ASSUME NEW S, S \subseteq Nat, S # {}
    PROVE  \E x \in S : \A y \in S : x <= y
  <1> DEFINE R == OpToRel(<, Nat)
  <1>1. IsWellFoundedOn(R, Nat)
    BY NatLessThanWellFounded
  <1>2. \E x \in S : \A y \in S : <<y, x>> \notin R
    <2> HIDE DEF R
    <2> QED
      BY <1>1, WFMin
  <1>3. PICK x \in S : \A y \in S : <<y, x>> \notin R
    BY <1>2
  <1>4. \A y \in S : ~ (y < x)
    BY <1>3 DEF OpToRel
  <1>5. \A y \in S : x <= y
    BY <1>4
  <1> QED
    BY <1>5

LEMMA MaxIn ==
    ASSUME NEW n \in Nat, NEW S, S \subseteq 1..n, S # {}
    PROVE  Max(S) \in S /\ \A y \in S : y <= Max(S)
  <1> DEFINE D == {n - x : x \in S}
  <1>0. \A x \in S : n - x \in Nat
    <2> TAKE x \in S
    <2>1. x \in 1..n
      OBVIOUS
    <2> QED
      BY <2>1
  <1>1. D \subseteq Nat /\ D # {}
    BY <1>0
  <1> HIDE DEF D
  <1>2. \E d \in D : \A e \in D : d <= e
    BY <1>1, LeastNumber
  <1>3. PICK d \in D : \A e \in D : d <= e
    BY <1>2
  <1>4. PICK x \in S : d = n - x
    BY DEF D
  <1>5. \A y \in S : n - x <= n - y
    BY <1>3, <1>4 DEF D
  <1>6. \A y \in S : y <= x
    BY <1>5
  <1>7. \E z \in S : \A y \in S : z >= y
    BY <1>6
  <1>8. Max(S) = CHOOSE z \in S : \A y \in S : z >= y
    BY DEF Max
  <1>9. Max(S) \in S /\ \A y \in S : Max(S) >= y
    BY <1>7, <1>8
  <1> QED
    BY <1>9

\* g folds the elements of S into base, pick[T] last among those of T.
Folds(base, step, pick, g, S) ==
    g = [T \in SUBSET S |->
            IF T = {} THEN base ELSE step[pick[T]][g[T \ {pick[T]}]]]

LEMMA FoldsAgree ==
    ASSUME NEW S, IsFiniteSet(S), NEW base, NEW step,
           NEW pick, \A T \in SUBSET S : T # {} => pick[T] \in T,
           NEW g, Folds(base, step, pick, g, S),
           NEW T \in SUBSET S, NEW h, Folds(base, step, pick, h, T),
           NEW U \in SUBSET T
    PROVE  g[U] = h[U]
  <1> DEFINE W == {V \in SUBSET S : V \subseteq T /\ g[V] # h[V]}
  <1>1. SUFFICES ASSUME W # {} PROVE FALSE
    OBVIOUS
  <1>2. PICK V \in W : \A V2 \in SUBSET V : V2 # V => V2 \notin W
    <2> HIDE DEF W
    <2>1. W \subseteq SUBSET S
      BY DEF W
    <2> QED
      BY <1>1, <2>1, LeastSet
  <1>3. V \in SUBSET S /\ V \in SUBSET T /\ g[V] # h[V]
    BY <1>2
  <1> DEFINE X == V \ {pick[V]}
  <1>4. /\ g[V] = IF V = {} THEN base ELSE step[pick[V]][g[X]]
        /\ h[V] = IF V = {} THEN base ELSE step[pick[V]][h[X]]
    BY <1>3 DEF Folds
  <1>5. V # {}
    BY <1>3, <1>4
  <1>6. X \in SUBSET V /\ X # V
    BY <1>3, <1>5
  <1>7. g[X] = h[X]
    BY <1>2, <1>3, <1>6
  <1> QED
    BY <1>3, <1>4, <1>5, <1>7

LEMMA FoldsExist ==
    ASSUME NEW S, IsFiniteSet(S), NEW base, NEW step,
           NEW pick, \A T \in SUBSET S : T # {} => pick[T] \in T
    PROVE  \E g : Folds(base, step, pick, g, S)
  <1> DEFINE F(g, T) == Folds(base, step, pick, g, T)
             W == {T \in SUBSET S : ~ \E g : F(g, T)}
  <1>1. SUFFICES ASSUME W # {} PROVE FALSE
    OBVIOUS
  <1>2. PICK T \in W : \A U \in SUBSET T : U # T => U \notin W
    <2> HIDE DEF W
    <2>1. W \subseteq SUBSET S
      BY DEF W
    <2> QED
      BY <1>1, <2>1, LeastSet
  <1>3. T \in SUBSET S /\ ~ \E g : F(g, T)
    BY <1>2
  <1> DEFINE h(U) == CHOOSE g : F(g, U)
             part(U) == h(U)[U]
             all == [U \in SUBSET T |->
                       IF U = {} THEN base
                       ELSE step[pick[U]][part(U \ {pick[U]})]]
  <1>4. ASSUME NEW U \in SUBSET T, U # T PROVE F(h(U), U)
    <2>1. \E g : F(g, U)
      BY <1>2, <1>3, <1>4
    <2> QED
      BY <2>1
  <1> HIDE DEF h
  <1>5. ASSUME NEW U \in SUBSET T, U # {}
        PROVE  part(U \ {pick[U]}) = all[U \ {pick[U]}]
    <2> DEFINE V == U \ {pick[U]}
    <2>1. V \in SUBSET T /\ V # T
      BY <1>3, <1>5
    <2>2. F(h(V), V)
      BY <1>4, <2>1
    <2> DEFINE X == V \ {pick[V]}
    <2>3. h(V)[V] = IF V = {} THEN base ELSE step[pick[V]][h(V)[X]]
      BY <2>2 DEF Folds
    <2>4. CASE V = {}
      BY <2>1, <2>3, <2>4
    <2>5. CASE V # {}
      <3>1. X \in SUBSET T /\ X # T /\ X \in SUBSET V
        BY <1>3, <2>1, <2>5
      <3>2. Folds(base, step, pick, h(X), X) /\ Folds(base, step, pick, h(V), V)
        BY <1>4, <2>2, <3>1
      <3>3. IsFiniteSet(V) /\ \A Y \in SUBSET V : Y # {} => pick[Y] \in Y
        BY <1>3, <2>1, FS_Subset
      <3>4. X \in SUBSET V /\ X \in SUBSET X
        BY <3>1
      <3>5. h(V)[X] = h(X)[X]
        <4> HIDE DEF V, X, F, W
        <4> QED
          BY <3>2, <3>3, <3>4, FoldsAgree
      <3> QED
        BY <2>1, <2>3, <2>5, <3>5
    <2> QED
      BY <2>4, <2>5
  <1>6. F(all, T)
    <2>1. all = [U \in SUBSET T |->
                   IF U = {} THEN base
                   ELSE step[pick[U]][all[U \ {pick[U]}]]]
      <3> HIDE DEF part
      <3> QED
        BY <1>5
    <2> QED
      BY <2>1 DEF Folds
  <1> QED
    BY <1>3, <1>6

\* What holds of base and is kept by every step holds of every part.
LEMMA FoldWithin ==
    ASSUME NEW S, IsFiniteSet(S), NEW L, NEW g,
           NEW pick, \A T \in SUBSET S : T # {} => pick[T] \in T,
           g[{}] \in L,
           \A T \in SUBSET S : T # {} /\ g[T \ {pick[T]}] \in L => g[T] \in L
    PROVE  \A T \in SUBSET S : g[T] \in L
  <1> DEFINE W == {T \in SUBSET S : g[T] \notin L}
  <1>1. SUFFICES ASSUME W # {} PROVE FALSE
    OBVIOUS
  <1>2. PICK T \in W : \A U \in SUBSET T : U # T => U \notin W
    <2> HIDE DEF W
    <2>1. W \subseteq SUBSET S
      BY DEF W
    <2> QED
      BY <1>1, <2>1, LeastSet
  <1>3. T \in SUBSET S /\ g[T] \notin L
    BY <1>2
  <1> DEFINE U == T \ {pick[T]}
  <1>4. T # {}
    BY <1>3
  <1>5. U \in SUBSET T /\ U # T
    BY <1>3, <1>4
  <1>6. g[U] \in L
    BY <1>2, <1>3, <1>5
  <1> QED
    BY <1>3, <1>4, <1>6

LEMMA FoldsIn ==
    ASSUME NEW S, IsFiniteSet(S), NEW L, NEW base \in L,
           NEW step, \A x \in S : \A v \in L : step[x][v] \in L,
           NEW pick, \A T \in SUBSET S : T # {} => pick[T] \in T,
           NEW g, Folds(base, step, pick, g, S)
    PROVE  \A T \in SUBSET S : g[T] \in L
  <1>1. g[{}] = base
    BY DEF Folds
  <1>2. ASSUME NEW T \in SUBSET S, T # {}, g[T \ {pick[T]}] \in L
        PROVE  g[T] \in L
    <2>1. g[T] = step[pick[T]][g[T \ {pick[T]}]] /\ pick[T] \in S
      BY <1>2 DEF Folds
    <2> QED
      BY <1>2, <2>1
  <1> QED
    BY <1>1, <1>2, FoldWithin

----------------------------------------------------------------------------
(***************************************************************************)
(* Recursion along 0..N.                                                   *)
(***************************************************************************)
\* Induction with a set in place of a predicate.
LEMMA UpTo ==
    ASSUME NEW N \in Nat, NEW S, 0 \in S,
           \A n \in 1..N : n - 1 \in S => n \in S
    PROVE  0..N \subseteq S
  <1> DEFINE W == (0..N) \ S
  <1>1. SUFFICES ASSUME W # {} PROVE FALSE
    OBVIOUS
  <1>2. W \subseteq Nat
    OBVIOUS
  <1>3. PICK n \in W : \A m \in W : n <= m
    <2> HIDE DEF W
    <2> QED
      BY <1>1, <1>2, LeastNumber
  <1>4. n \in 1..N /\ n - 1 \in 0..N /\ n - 1 \notin W
    BY <1>3
  <1> QED
    BY <1>3, <1>4

\* f repeats the steps from a on.
Iterates(f, N, a, step) ==
    f = [n \in 0..N |-> IF n = 0 THEN a ELSE step[n][f[n - 1]]]

LEMMA IterateExists ==
    ASSUME NEW N \in Nat, NEW A, NEW a \in A, NEW step,
           \A n \in 1..N : \A x \in A : step[n][x] \in A
    PROVE  \E f \in [0..N -> A] : Iterates(f, N, a, step)
  <1> DEFINE Has(n) == \E f \in [0..n -> A] : Iterates(f, n, a, step)
             S == {n \in 0..N : Has(n)}
  <1>1. 0 \in S
    <2> DEFINE f == [n \in 0..0 |-> a]
    <2>1. f \in [0..0 -> A] /\ Iterates(f, 0, a, step)
      BY DEF Iterates
    <2> QED
      BY <2>1
  <1>2. ASSUME NEW n \in 1..N, n - 1 \in S PROVE n \in S
    <2>1. PICK f \in [0..(n - 1) -> A] : Iterates(f, n - 1, a, step)
      BY <1>2
    <2> DEFINE g == [k \in 0..n |-> IF k = n THEN step[n][f[n - 1]] ELSE f[k]]
    <2>2. n - 1 \in 0..(n - 1) /\ f[n - 1] \in A
      BY <2>1
    <2>3. g \in [0..n -> A]
      BY <2>1, <2>2
    <2>4. ASSUME NEW k \in 0..n
          PROVE  g[k] = IF k = 0 THEN a ELSE step[k][g[k - 1]]
      <3>1. CASE k = n
        BY <2>2, <3>1
      <3>2. CASE k # n
        <4>1. k \in 0..(n - 1) /\ (k # 0 => k - 1 \in 0..(n - 1))
          BY <3>2
        <4>2. f[k] = IF k = 0 THEN a ELSE step[k][f[k - 1]]
          BY <2>1, <4>1 DEF Iterates
        <4>3. g[k] = f[k] /\ (k # 0 => g[k - 1] = f[k - 1])
          BY <3>2, <4>1
        <4> QED
          BY <4>2, <4>3
      <3> QED
        BY <3>1, <3>2
    <2>5. Iterates(g, n, a, step)
      <3>1. g = [k \in 0..n |-> g[k]]
        OBVIOUS
      <3> HIDE DEF g
      <3> QED
        BY <2>4, <3>1 DEF Iterates
    <2> HIDE DEF g
    <2> QED
      BY <2>3, <2>5
  <1>3. 0..N \subseteq S
    <2> HIDE DEF S
    <2> QED
      BY <1>1, <1>2, UpTo
  <1> QED
    BY <1>3
=============================================================================
