---------------------------- MODULE SumTheorems ----------------------------
(***************************************************************************)
(* Facts about the sum of a function over a finite set, SumFunctionOnSet   *)
(* of the community modules: what the columns of a ledger add up to.       *)
(*                                                                         *)
(* The induction over the set is by its least counterexample: the subsets  *)
(* of a finite set for which a statement fails have a minimal one.         *)
(***************************************************************************)
EXTENDS Integers, FiniteSets, Functions, FiniteSetTheorems, WellFoundedInduction, TLAPS

\* Among some subsets of a finite set there is a minimal one.
LEMMA LeastSubset ==
  ASSUME NEW S, IsFiniteSet(S), NEW B \in SUBSET SUBSET S, B # {}
  PROVE  \E T \in B : \A U \in B : U \subseteq T => U = T
  <1>1. IsWellFoundedOn(StrictSubsetOrdering(S), FiniteSubsetsOf(S))
    BY FS_StrictSubsetOrderingWellFounded
  <1>2. B \subseteq FiniteSubsetsOf(S)
    BY FS_Subset DEF FiniteSubsetsOf
  <1>3. PICK T \in B : \A U \in B : ~(<<U, T>> \in StrictSubsetOrdering(S))
    BY <1>1, <1>2, WFMin
  <1> QED
    BY <1>3 DEF StrictSubsetOrdering

\* The equation that defines the sums of f over the subsets of S.
Sums(f, S, sum) ==
    sum = [T \in SUBSET S |-> IF T = {} THEN 0
                              ELSE LET x == CHOOSE x \in T : TRUE IN f[x] + sum[T \ {x}]]

\* A sum is taken from a function that the equation picks.
LEMMA SumIsChosen ==
  ASSUME NEW f, NEW S
  PROVE  SumFunctionOnSet(f, S) = (CHOOSE sum : Sums(f, S, sum))[S]
  BY DEF SumFunctionOnSet, FoldFunctionOnSet, MapThenFoldSet, Sums
\* Two functions that satisfy the equation agree where both are defined.
LEMMA SumsAgree ==
  ASSUME NEW f, NEW S, IsFiniteSet(S), NEW U, IsFiniteSet(U), NEW g, NEW h,
         Sums(f, S, g), Sums(f, U, h)
  PROVE  \A T \in SUBSET S : T \subseteq U => g[T] = h[T]
  <1> DEFINE B == {T \in SUBSET S : T \subseteq U /\ g[T] # h[T]}
  <1> SUFFICES ASSUME B # {} PROVE FALSE
    OBVIOUS
  <1>0. B \in SUBSET SUBSET S
    OBVIOUS
  <1> HIDE DEF B
  <1>1. PICK T \in B : \A V \in B : V \subseteq T => V = T
    BY <1>0, LeastSubset
  <1> USE DEF B
  <1>2. T # {}
    BY DEF Sums
  <1> DEFINE x == CHOOSE x \in T : TRUE
  <1>3. x \in T
    BY <1>2
  <1> HIDE DEF x
  <1>4. T \ {x} \in SUBSET S /\ T \ {x} \subseteq U /\ g[T \ {x}] = h[T \ {x}]
    BY <1>1, <1>3
  <1>5. g[T] = f[x] + g[T \ {x}] /\ h[T] = f[x] + h[T \ {x}]
    BY <1>2 DEF Sums, x
  <1> QED
    BY <1>4, <1>5

\* The equation has a solution for every finite set.
LEMMA SumsExist ==
  ASSUME NEW f, NEW S, IsFiniteSet(S)
  PROVE  \E sum : Sums(f, S, sum)
  <1> DEFINE B == {T \in SUBSET S : ~ \E sum : Sums(f, T, sum)}
  <1> SUFFICES ASSUME B # {} PROVE FALSE
    OBVIOUS
  <1>0. B \in SUBSET SUBSET S
    OBVIOUS
  <1> HIDE DEF B
  <1>1. PICK T \in B : \A V \in B : V \subseteq T => V = T
    BY <1>0, LeastSubset
  <1> USE DEF B
  <1> HIDE DEF B
  <1> DEFINE part(V) == CHOOSE sum : Sums(f, V, sum)
  <1>2. ASSUME NEW V \in SUBSET T, V # T
        PROVE  Sums(f, V, part(V)) /\ IsFiniteSet(V)
    BY <1>1, <1>2, FS_Subset DEF B
  <1> DEFINE pick(V) == CHOOSE x \in V : TRUE
             sum == [V \in SUBSET T |-> IF V = {} THEN 0
                                        ELSE f[pick(V)] + part(V \ {pick(V)})[V \ {pick(V)}]]
  <1>3. ASSUME NEW V \in SUBSET T, V # T
        PROVE  sum[V] = part(V)[V]
    <2>1. Sums(f, V, part(V)) /\ IsFiniteSet(V)
      BY <1>2, <1>3
    <2> HIDE DEF part
    <2>2. CASE V = {}
      BY <2>1, <2>2 DEF Sums
    <2>3. CASE V # {}
      <3> DEFINE W == V \ {pick(V)}
      <3>1. pick(V) \in V
        BY <2>3
      <3>2. W \in SUBSET V /\ W \in SUBSET T /\ W # T
        BY <3>1
      <3>3. Sums(f, W, part(W)) /\ IsFiniteSet(W)
        BY <1>2, <3>2
      <3> HIDE DEF W
      <3>4. part(W)[W] = part(V)[W]
        BY <2>1, <3>2, <3>3, SumsAgree
      <3>5. part(V)[V] = f[pick(V)] + part(V)[W]
        BY <2>1, <2>3 DEF Sums, W
      <3>6. sum[V] = f[pick(V)] + part(W)[W]
        BY <2>3 DEF W
      <3> QED
        BY <3>4, <3>5, <3>6
    <2> QED
      BY <2>2, <2>3
  <1>4. ASSUME NEW V \in SUBSET T, V # {}
        PROVE  sum[V] = f[pick(V)] + sum[V \ {pick(V)}]
    <2> HIDE DEF part
    <2>1. V \ {pick(V)} \in SUBSET T /\ V \ {pick(V)} # T
      BY <1>4
    <2>2. sum[V \ {pick(V)}] = part(V \ {pick(V)})[V \ {pick(V)}]
      BY <1>3, <2>1
    <2> QED
      BY <1>4, <2>2
  <1>5. sum[{}] = 0
    OBVIOUS
  <1>6. sum = [V \in SUBSET T |-> sum[V]]
    OBVIOUS
  <1> HIDE DEF sum
  <1>7. Sums(f, T, sum)
    BY <1>4, <1>5, <1>6 DEF Sums
  <1> QED
    BY <1>1, <1>7 DEF B

\* Nothing adds up to nothing.
LEMMA SumEmpty == ASSUME NEW f PROVE SumFunctionOnSet(f, {}) = 0
  <1>1. Sums(f, {}, CHOOSE sum : Sums(f, {}, sum))
    BY SumsExist, FS_EmptySet
  <1> QED
    BY <1>1, SumIsChosen DEF Sums

\* A sum is one member, whichever the set yields, and the sum of the others.
LEMMA SumUnfolds ==
  ASSUME NEW f, NEW S, IsFiniteSet(S), S # {}
  PROVE  \E x \in S : SumFunctionOnSet(f, S) = f[x] + SumFunctionOnSet(f, S \ {x})
  <1> DEFINE x == CHOOSE x \in S : TRUE
             g == CHOOSE sum : Sums(f, S, sum)
             h == CHOOSE sum : Sums(f, S \ {x}, sum)
  <1>1. x \in S /\ IsFiniteSet(S \ {x})
    BY FS_RemoveElement
  <1>2. Sums(f, S, g) /\ Sums(f, S \ {x}, h)
    BY <1>1, SumsExist
  <1>3. SumFunctionOnSet(f, S) = g[S] /\ SumFunctionOnSet(f, S \ {x}) = h[S \ {x}]
    BY SumIsChosen
  <1> HIDE DEF g, h
  <1>4. g[S] = f[x] + g[S \ {x}]
    BY <1>2 DEF Sums
  <1> HIDE DEF x
  <1>5. g[S \ {x}] = h[S \ {x}]
    <2>1. S \ {x} \in SUBSET S /\ S \ {x} \subseteq S \ {x}
      OBVIOUS
    <2> QED
      BY <1>1, <1>2, <2>1, SumsAgree
  <1> QED
    BY <1>1, <1>3, <1>4, <1>5

-----------------------------------------------------------------------------
(* Integers and natural numbers                                            *)

\* Sums of integers are integers, and of natural numbers natural numbers.
LEMMA SumType ==
  ASSUME NEW S, IsFiniteSet(S), NEW f, NEW N, N = Int \/ N = Nat, \A x \in S : f[x] \in N
  PROVE  SumFunctionOnSet(f, S) \in N
  <1> DEFINE B == {T \in SUBSET S : SumFunctionOnSet(f, T) \notin N}
  <1> SUFFICES ASSUME B # {} PROVE FALSE
    OBVIOUS
  <1>1. B \in SUBSET SUBSET S
    OBVIOUS
  <1> HIDE DEF B
  <1>2. PICK T \in B : \A V \in B : V \subseteq T => V = T
    BY <1>1, LeastSubset
  <1>3. T \subseteq S /\ SumFunctionOnSet(f, T) \notin N /\ IsFiniteSet(T)
    BY FS_Subset DEF B
  <1>4. T # {}
    BY <1>3, SumEmpty
  <1>5. PICK x \in T : SumFunctionOnSet(f, T) = f[x] + SumFunctionOnSet(f, T \ {x})
    BY <1>3, <1>4, SumUnfolds
  <1>6. T \ {x} \in SUBSET S /\ T \ {x} \subseteq T /\ T \ {x} # T
    BY <1>3
  <1>7. SumFunctionOnSet(f, T \ {x}) \in N
    BY <1>2, <1>6 DEF B
  <1>8. f[x] \in N
    BY <1>3
  <1> HIDE DEF B
  <1> QED
    BY <1>3, <1>5, <1>7, <1>8

\* A sum of integers.
LEMMA SumInt ==
  ASSUME NEW S, IsFiniteSet(S), NEW f, \A x \in S : f[x] \in Int
  PROVE  SumFunctionOnSet(f, S) \in Int
  BY SumType

\* A sum of natural numbers.
LEMMA SumNat ==
  ASSUME NEW S, IsFiniteSet(S), NEW f, \A x \in S : f[x] \in Nat
  PROVE  SumFunctionOnSet(f, S) \in Nat
  BY SumType

\* Any member may be set apart from the others.
LEMMA SumApart ==
  ASSUME NEW S, IsFiniteSet(S), NEW f, \A x \in S : f[x] \in Int, NEW a \in S
  PROVE  SumFunctionOnSet(f, S) = f[a] + SumFunctionOnSet(f, S \ {a})
  <1> DEFINE B == {T \in SUBSET S : \E y \in T :
                      SumFunctionOnSet(f, T) # f[y] + SumFunctionOnSet(f, T \ {y})}
  <1> SUFFICES ASSUME B # {} PROVE FALSE
    OBVIOUS
  <1>1. B \in SUBSET SUBSET S
    OBVIOUS
  <1> HIDE DEF B
  <1>2. PICK T \in B : \A V \in B : V \subseteq T => V = T
    BY <1>1, LeastSubset
  <1>3. T \subseteq S /\ IsFiniteSet(T)
    BY FS_Subset DEF B
  <1>4. PICK y \in T : SumFunctionOnSet(f, T) # f[y] + SumFunctionOnSet(f, T \ {y})
    BY DEF B
  <1>5. PICK x \in T : SumFunctionOnSet(f, T) = f[x] + SumFunctionOnSet(f, T \ {x})
    BY <1>3, <1>4, SumUnfolds
  <1>6. x # y
    BY <1>4, <1>5
  <1>7. T \ {x} \in SUBSET S /\ T \ {x} \subseteq T /\ T \ {x} # T /\ y \in T \ {x}
        /\ T \ {y} \in SUBSET S /\ T \ {y} \subseteq T /\ T \ {y} # T /\ x \in T \ {y}
    BY <1>3, <1>6
  <1> DEFINE rest == T \ {x, y}
  <1>8. (T \ {x}) \ {y} = rest /\ (T \ {y}) \ {x} = rest /\ rest \in SUBSET S
    BY <1>3
  <1> HIDE DEF rest
  <1>9. SumFunctionOnSet(f, T \ {x}) = f[y] + SumFunctionOnSet(f, rest)
    BY <1>2, <1>7, <1>8 DEF B
  <1>10. SumFunctionOnSet(f, T \ {y}) = f[x] + SumFunctionOnSet(f, rest)
    BY <1>2, <1>7, <1>8 DEF B
  <1>11. f[x] \in Int /\ f[y] \in Int /\ SumFunctionOnSet(f, rest) \in Int
    BY <1>3, <1>8, FS_Subset, SumInt
  <1> QED
    BY <1>4, <1>5, <1>9, <1>10, <1>11

\* Functions that agree have the same sum.
LEMMA SumSame ==
  ASSUME NEW S, IsFiniteSet(S), NEW f, NEW g, \A x \in S : f[x] = g[x]
  PROVE  SumFunctionOnSet(f, S) = SumFunctionOnSet(g, S)
  <1> DEFINE p == CHOOSE sum : Sums(f, S, sum)
             q == CHOOSE sum : Sums(g, S, sum)
  <1>1. Sums(f, S, p) /\ Sums(g, S, q)
    BY SumsExist
  <1>2. SumFunctionOnSet(f, S) = p[S] /\ SumFunctionOnSet(g, S) = q[S]
    BY SumIsChosen
  <1> HIDE DEF p, q
  <1> DEFINE F(T) == IF T = {} THEN 0
                     ELSE LET x == CHOOSE x \in T : TRUE IN f[x] + p[T \ {x}]
             G(T) == IF T = {} THEN 0
                     ELSE LET x == CHOOSE x \in T : TRUE IN g[x] + p[T \ {x}]
  <1>3. \A T \in SUBSET S : F(T) = G(T)
    <2> SUFFICES ASSUME NEW T \in SUBSET S, T # {} PROVE F(T) = G(T)
      OBVIOUS
    <2>1. (CHOOSE x \in T : TRUE) \in S
      OBVIOUS
    <2> QED
      BY <2>1
  <1>4. [T \in SUBSET S |-> F(T)] = [T \in SUBSET S |-> G(T)]
    BY <1>3
  <1>5. Sums(g, S, p)
    BY <1>1, <1>4 DEF Sums
  <1> QED
    BY <1>1, <1>2, <1>5, SumsAgree

\* One member more.
LEMMA SumAdds ==
  ASSUME NEW S, IsFiniteSet(S), NEW f, NEW a, a \notin S, \A x \in S \cup {a} : f[x] \in Int
  PROVE  SumFunctionOnSet(f, S \cup {a}) = f[a] + SumFunctionOnSet(f, S)
  <1>1. IsFiniteSet(S \cup {a}) /\ (S \cup {a}) \ {a} = S /\ a \in S \cup {a}
    BY FS_AddElement
  <1> QED
    BY <1>1, SumApart

\* A member that changes changes the sum by as much.
LEMMA SumChanges ==
  ASSUME NEW S, IsFiniteSet(S), NEW f, NEW g, NEW a \in S,
         \A x \in S : f[x] \in Int /\ g[x] \in Int, \A x \in S \ {a} : f[x] = g[x]
  PROVE  SumFunctionOnSet(g, S) = SumFunctionOnSet(f, S) - f[a] + g[a]
  <1>1. IsFiniteSet(S \ {a})
    BY FS_RemoveElement
  <1>2. /\ SumFunctionOnSet(f, S) = f[a] + SumFunctionOnSet(f, S \ {a})
        /\ SumFunctionOnSet(g, S) = g[a] + SumFunctionOnSet(g, S \ {a})
    BY SumApart
  <1>3. SumFunctionOnSet(f, S \ {a}) = SumFunctionOnSet(g, S \ {a})
    BY <1>1, SumSame
  <1>4. SumFunctionOnSet(f, S \ {a}) \in Int /\ f[a] \in Int /\ g[a] \in Int
    BY <1>1, SumInt
  <1> QED
    BY <1>2, <1>3, <1>4

\* The sum of two functions, member by member.
LEMMA SumPlus ==
  ASSUME NEW S, IsFiniteSet(S), NEW f, NEW g, NEW h,
         \A x \in S : f[x] \in Int /\ g[x] \in Int /\ h[x] = f[x] + g[x]
  PROVE  SumFunctionOnSet(h, S) = SumFunctionOnSet(f, S) + SumFunctionOnSet(g, S)
  <1> DEFINE B == {T \in SUBSET S : SumFunctionOnSet(h, T)
                                       # SumFunctionOnSet(f, T) + SumFunctionOnSet(g, T)}
  <1> SUFFICES ASSUME B # {} PROVE FALSE
    OBVIOUS
  <1>1. B \in SUBSET SUBSET S
    OBVIOUS
  <1> HIDE DEF B
  <1>2. PICK T \in B : \A V \in B : V \subseteq T => V = T
    BY <1>1, LeastSubset
  <1>3. T \subseteq S /\ IsFiniteSet(T)
    BY FS_Subset DEF B
  <1>4. T # {}
    <2>1. /\ SumFunctionOnSet(f, {}) = 0 /\ SumFunctionOnSet(g, {}) = 0
          /\ SumFunctionOnSet(h, {}) = 0
      BY SumEmpty
    <2>2. SumFunctionOnSet(h, T) # SumFunctionOnSet(f, T) + SumFunctionOnSet(g, T)
      BY DEF B
    <2> SUFFICES ASSUME T = {} PROVE FALSE
      OBVIOUS
    <2>3. 0 = 0 + 0
      OBVIOUS
    <2> QED
      BY <2>1, <2>2, <2>3, Zenon
  <1>5. PICK x \in T : TRUE
    BY <1>4
  <1> DEFINE rest == T \ {x}
  <1>6. rest \in SUBSET S /\ rest \subseteq T /\ rest # T /\ IsFiniteSet(rest)
    BY <1>3, FS_RemoveElement
  <1>7. /\ SumFunctionOnSet(f, T) = f[x] + SumFunctionOnSet(f, rest)
        /\ SumFunctionOnSet(g, T) = g[x] + SumFunctionOnSet(g, rest)
        /\ SumFunctionOnSet(h, T) = h[x] + SumFunctionOnSet(h, rest)
    <2>1. \A y \in T : f[y] \in Int /\ g[y] \in Int /\ h[y] \in Int
      BY <1>3
    <2> QED
      BY <1>3, <2>1, SumApart
  <1> HIDE DEF rest
  <1>8. SumFunctionOnSet(h, rest) = SumFunctionOnSet(f, rest) + SumFunctionOnSet(g, rest)
    BY <1>2, <1>6 DEF B
  <1>9. SumFunctionOnSet(f, rest) \in Int /\ SumFunctionOnSet(g, rest) \in Int
    BY <1>6, SumInt
  <1>10. SumFunctionOnSet(h, T) # SumFunctionOnSet(f, T) + SumFunctionOnSet(g, T)
    BY DEF B
  <1>11. f[x] \in Int /\ g[x] \in Int /\ h[x] = f[x] + g[x]
    BY <1>3
  <1> QED
    BY <1>7, <1>8, <1>9, <1>10, <1>11

\* Zeros add up to zero.
LEMMA SumZeros ==
  ASSUME NEW S, IsFiniteSet(S), NEW f, \A x \in S : f[x] = 0
  PROVE  SumFunctionOnSet(f, S) = 0
  <1>1. \A x \in S : f[x] \in Int /\ f[x] = f[x] + f[x]
    OBVIOUS
  <1>2. SumFunctionOnSet(f, S) = SumFunctionOnSet(f, S) + SumFunctionOnSet(f, S)
    BY <1>1, SumPlus
  <1>3. SumFunctionOnSet(f, S) \in Int
    BY <1>1, SumInt
  <1>4. \A n \in Int : n = n + n => n = 0
    OBVIOUS
  <1> QED
    BY <1>2, <1>3, <1>4, Zenon

\* A larger function has a larger sum.
LEMMA SumMonotonic ==
  ASSUME NEW S, IsFiniteSet(S), NEW f, NEW g,
         \A x \in S : f[x] \in Int /\ g[x] \in Int /\ f[x] <= g[x]
  PROVE  SumFunctionOnSet(f, S) <= SumFunctionOnSet(g, S)
  <1> DEFINE more == [x \in S |-> g[x] - f[x]]
  <1>1. \A x \in S : more[x] \in Nat /\ more[x] \in Int /\ f[x] \in Int /\ g[x] = f[x] + more[x]
    OBVIOUS
  <1> HIDE DEF more
  <1>2. SumFunctionOnSet(g, S) = SumFunctionOnSet(f, S) + SumFunctionOnSet(more, S)
    BY <1>1, SumPlus
  <1>3. SumFunctionOnSet(more, S) \in Nat /\ SumFunctionOnSet(f, S) \in Int
    BY <1>1, SumNat, SumInt
  <1> QED
    BY <1>2, <1>3

\* Of natural numbers, no member exceeds the sum.
LEMMA SumCovers ==
  ASSUME NEW S, IsFiniteSet(S), NEW f, \A x \in S : f[x] \in Nat, NEW a \in S
  PROVE  f[a] <= SumFunctionOnSet(f, S)
  <1>1. \A x \in S : f[x] \in Int
    OBVIOUS
  <1>2. SumFunctionOnSet(f, S) = f[a] + SumFunctionOnSet(f, S \ {a})
    BY <1>1, SumApart
  <1>3. SumFunctionOnSet(f, S \ {a}) \in Nat
    BY FS_RemoveElement, SumNat
  <1> QED
    BY <1>1, <1>2, <1>3

\* A set's sum is its parts'.
LEMMA SumSplits ==
  ASSUME NEW S, IsFiniteSet(S), NEW f, \A x \in S : f[x] \in Int, NEW P \in SUBSET S
  PROVE  SumFunctionOnSet(f, S) = SumFunctionOnSet(f, P) + SumFunctionOnSet(f, S \ P)
  <1> DEFINE B == {T \in SUBSET S : SumFunctionOnSet(f, T)
                        # SumFunctionOnSet(f, T \cap P) + SumFunctionOnSet(f, T \ P)}
  <1>1. B = {} => /\ S \cap P = P
                  /\ SumFunctionOnSet(f, S) = SumFunctionOnSet(f, S \cap P)
                                                 + SumFunctionOnSet(f, S \ P)
    OBVIOUS
  <1> SUFFICES ASSUME B # {} PROVE FALSE
    BY <1>1
  <1>2. B \in SUBSET SUBSET S
    OBVIOUS
  <1> HIDE DEF B
  <1>3. PICK T \in B : \A V \in B : V \subseteq T => V = T
    BY <1>2, LeastSubset
  <1>4. T \subseteq S /\ IsFiniteSet(T)
    BY FS_Subset DEF B
  <1>5. T # {}
    <2>1. {} \cap P = {} /\ {} \ P = {} /\ SumFunctionOnSet(f, {}) = 0
      BY SumEmpty
    <2>2. SumFunctionOnSet(f, T) # SumFunctionOnSet(f, T \cap P) + SumFunctionOnSet(f, T \ P)
      BY DEF B
    <2>3. SumFunctionOnSet(f, {}) = SumFunctionOnSet(f, {} \cap P) + SumFunctionOnSet(f, {} \ P)
      BY <2>1
    <2> QED
      BY <2>2, <2>3, Zenon
  <1>6. PICK x \in T : TRUE
    BY <1>5
  <1> DEFINE rest == T \ {x}
  <1>7. rest \in SUBSET S /\ rest \subseteq T /\ rest # T /\ IsFiniteSet(rest)
    BY <1>4, FS_RemoveElement
  <1>8. SumFunctionOnSet(f, T) = f[x] + SumFunctionOnSet(f, rest)
    BY <1>4, SumApart
  <1>9. SumFunctionOnSet(f, T \cap P) + SumFunctionOnSet(f, T \ P)
           = f[x] + (SumFunctionOnSet(f, rest \cap P) + SumFunctionOnSet(f, rest \ P))
    <2> DEFINE in == T \cap P
               out == T \ P
               less == rest \cap P
               others == rest \ P
    <2>1. IsFiniteSet(in) /\ IsFiniteSet(out) /\ IsFiniteSet(less) /\ IsFiniteSet(others)
      BY <1>4, <1>7, FS_Intersection, FS_Difference
    <2>2. /\ \A y \in in : f[y] \in Int
          /\ \A y \in out : f[y] \in Int
          /\ \A y \in less : f[y] \in Int
          /\ \A y \in others : f[y] \in Int
          /\ f[x] \in Int
      BY <1>4, <1>7
    <2>3. \/ x \in in /\ in \ {x} = less /\ out = others
          \/ x \in out /\ out \ {x} = others /\ in = less
      OBVIOUS
    <2> HIDE DEF in, out, less, others
    <2>4. SumFunctionOnSet(f, less) \in Int /\ SumFunctionOnSet(f, others) \in Int
      BY <2>1, <2>2, SumInt
    <2>5. SumFunctionOnSet(f, in) + SumFunctionOnSet(f, out)
             = f[x] + (SumFunctionOnSet(f, less) + SumFunctionOnSet(f, others))
      <3>1. CASE x \in in /\ in \ {x} = less /\ out = others
        <4>1. SumFunctionOnSet(f, in) = f[x] + SumFunctionOnSet(f, less)
          BY <2>1, <2>2, <3>1, SumApart
        <4> QED
          BY <2>2, <2>4, <3>1, <4>1
      <3>2. CASE x \in out /\ out \ {x} = others /\ in = less
        <4>1. SumFunctionOnSet(f, out) = f[x] + SumFunctionOnSet(f, others)
          BY <2>1, <2>2, <3>2, SumApart
        <4> QED
          BY <2>2, <2>4, <3>2, <4>1
      <3> QED
        BY <2>3, <3>1, <3>2
    <2> QED
      BY <2>5 DEF in, out, less, others
  <1> HIDE DEF rest
  <1>10. SumFunctionOnSet(f, rest) = SumFunctionOnSet(f, rest \cap P) + SumFunctionOnSet(f, rest \ P)
    BY <1>3, <1>7 DEF B
  <1> QED
    BY <1>8, <1>9, <1>10 DEF B

\* What is zero outside a part adds up to the part.
LEMMA SumOfPart ==
  ASSUME NEW S, IsFiniteSet(S), NEW f, \A x \in S : f[x] \in Int,
         NEW P \in SUBSET S, \A x \in S \ P : f[x] = 0
  PROVE  SumFunctionOnSet(f, S) = SumFunctionOnSet(f, P)
  <1>1. IsFiniteSet(S \ P) /\ IsFiniteSet(P)
    BY FS_Difference, FS_Subset
  <1>2. SumFunctionOnSet(f, S \ P) = 0
    BY <1>1, SumZeros
  <1>3. SumFunctionOnSet(f, P) \in Int
    BY <1>1, SumInt
  <1> QED
    BY <1>2, <1>3, SumSplits

\* Of natural numbers, a part is no more than the whole.
LEMMA SumOfPartIsLess ==
  ASSUME NEW S, IsFiniteSet(S), NEW f, \A x \in S : f[x] \in Nat, NEW P \in SUBSET S
  PROVE  SumFunctionOnSet(f, P) <= SumFunctionOnSet(f, S)
  <1>1. IsFiniteSet(S \ P) /\ IsFiniteSet(P) /\ \A x \in S : f[x] \in Int
    BY FS_Difference, FS_Subset
  <1>2. SumFunctionOnSet(f, P) \in Nat /\ SumFunctionOnSet(f, S \ P) \in Nat
    BY <1>1, SumNat
  <1> QED
    BY <1>1, <1>2, SumSplits
=============================================================================
