----------------------------- MODULE SumTheorems -----------------------------
(***************************************************************************)
(* Sums over finite sets.  MapThenSumSet is a recursive function on the    *)
(* subsets of a set; it is shown to exist and to be unique by taking a     *)
(* smallest subset on which it would not be, since proper inclusion of     *)
(* finite sets is well founded.  What follows from its equation is proved  *)
(* in the same way.                                                        *)
(***************************************************************************)
EXTENDS FiniteSetsExt, FiniteSetTheorems, WellFoundedInduction, TLAPS

SumOver(f, S) == MapThenSumSet(LAMBDA x : f[x], S)

Pick(s) == CHOOSE x \in s : TRUE
Rest(s) == s \ {Pick(s)}

\* The recursion of a fold, as an equation for g.
IsSum(g, f, S) ==
  g = [ s \in SUBSET S |-> IF s = {} THEN 0 ELSE f[Pick(s)] + g[Rest(s)] ]

LEMMA SumIsChosen ==
  ASSUME NEW f, NEW S
  PROVE  SumOver(f, S) = (CHOOSE g : IsSum(g, f, S))[S]
BY DEF SumOver, MapThenSumSet, MapThenFoldSet, IsSum, Pick, Rest

\* A nonempty family of subsets of a finite set has a smallest member.
LEMMA Smallest ==
  ASSUME NEW S, IsFiniteSet(S), NEW F \in SUBSET SUBSET S, F # {}
  PROVE  \E T \in F : \A U \in SUBSET T : U # T => U \notin F
<1>1. IsWellFoundedOn(StrictSubsetOrdering(S), SUBSET S)
  BY FS_StrictSubsetOrderingWellFounded, FS_FiniteSubsetsOfFinite
<1>2. PICK T \in F : \A U \in F : << U, T >> \notin StrictSubsetOrdering(S)
  BY <1>1, WFMin
<1> QED
  BY <1>2 DEF StrictSubsetOrdering

LEMMA RestSmaller ==
  ASSUME NEW s, s # {}
  PROVE  Pick(s) \in s /\ Rest(s) \in SUBSET s /\ Rest(s) # s
BY DEF Pick, Rest

LEMMA SumsAgree ==
  ASSUME NEW T, IsFiniteSet(T), NEW V \in SUBSET T, NEW f, NEW g, NEW h,
         IsSum(g, f, T), IsSum(h, f, V)
  PROVE  \A U \in SUBSET V : g[U] = h[U]
<1> DEFINE bad == { U \in SUBSET V : g[U] # h[U] }
<1> SUFFICES ASSUME bad # {} PROVE FALSE
  OBVIOUS
<1>1. IsFiniteSet(V)
  BY FS_Subset
<1>2. PICK U \in bad : \A W \in SUBSET U : W # U => W \notin bad
  <2> HIDE DEF bad
  <2>1. bad \in SUBSET SUBSET V
    BY DEF bad
  <2> QED
    BY <1>1, <2>1, Smallest
<1>3. CASE U = {}
  BY <1>3 DEF IsSum
<1>4. CASE U # {}
  <2>1. Rest(U) \in SUBSET V /\ g[Rest(U)] = h[Rest(U)]
    BY <1>2, <1>4, RestSmaller
  <2>2. g[U] = f[Pick(U)] + g[Rest(U)] /\ h[U] = f[Pick(U)] + h[Rest(U)]
    BY <1>4 DEF IsSum
  <2> QED
    BY <2>1, <2>2
<1> QED
  BY <1>3, <1>4

LEMMA SumExists ==
  ASSUME NEW S, IsFiniteSet(S), NEW f
  PROVE  \E g : IsSum(g, f, S)
<1> DEFINE bad == { T \in SUBSET S : ~\E g : IsSum(g, f, T) }
<1> SUFFICES ASSUME bad # {} PROVE FALSE
  OBVIOUS
<1>1. PICK T \in bad : \A U \in SUBSET T : U # T => U \notin bad
  <2> HIDE DEF bad
  <2>1. bad \in SUBSET SUBSET S
    BY DEF bad
  <2> QED
    BY <2>1, Smallest
<1>2. IsFiniteSet(T)
  BY FS_Subset
<1> DEFINE sub == [ U \in SUBSET T |-> CHOOSE g : IsSum(g, f, U) ]
           h == [ s \in SUBSET T |-> IF s = {} THEN 0 ELSE f[Pick(s)] + sub[Rest(s)][Rest(s)] ]
<1>3. \A U \in SUBSET T : U # T => IsSum(sub[U], f, U)
  <2> SUFFICES ASSUME NEW U \in SUBSET T, U # T PROVE IsSum(sub[U], f, U)
    OBVIOUS
  <2>1. \E g : IsSum(g, f, U)
    BY <1>1
  <2>2. sub[U] = CHOOSE g : IsSum(g, f, U)
    OBVIOUS
  <2> HIDE DEF sub
  <2> QED
    BY <2>1, <2>2
<1>4. \A U \in SUBSET T : U # T => h[U] = sub[U][U]
  <2> SUFFICES ASSUME NEW U \in SUBSET T, U # T PROVE h[U] = sub[U][U]
    OBVIOUS
  <2>1. IsSum(sub[U], f, U)
    BY <1>3
  <2> HIDE DEF sub
  <2>2. CASE U = {}
    BY <2>1, <2>2 DEF IsSum
  <2>3. CASE U # {}
    <3>1. Rest(U) \in SUBSET U /\ Rest(U) # U /\ Rest(U) \in SUBSET T /\ Rest(U) # T
      BY <2>3, RestSmaller
    <3>2. sub[U][U] = f[Pick(U)] + sub[U][Rest(U)]
      BY <2>1, <2>3 DEF IsSum
    <3>3. IsFiniteSet(U)
      BY <1>2, FS_Subset
    <3>4. IsSum(sub[Rest(U)], f, Rest(U))
      BY <1>3, <3>1
    <3>5. sub[U][Rest(U)] = sub[Rest(U)][Rest(U)]
      BY <2>1, <3>1, <3>3, <3>4, SumsAgree
    <3> QED
      BY <2>3, <3>2, <3>5
  <2> QED
    BY <2>2, <2>3
<1>5. IsSum(h, f, T)
  <2> SUFFICES ASSUME NEW s \in SUBSET T, s # {}
               PROVE  sub[Rest(s)][Rest(s)] = h[Rest(s)]
    <3> HIDE DEF sub
    <3> QED
      BY DEF IsSum
  <2> HIDE DEF sub, h
  <2> QED
    BY <1>4, RestSmaller
<1> QED
  BY <1>1, <1>5

LEMMA SumUnfolds ==
  ASSUME NEW S, IsFiniteSet(S), NEW f, S # {}
  PROVE  SumOver(f, S) = f[Pick(S)] + SumOver(f, Rest(S))
<1> DEFINE g == CHOOSE g : IsSum(g, f, S)
           h == CHOOSE h : IsSum(h, f, Rest(S))
<1>1. IsSum(g, f, S)
  BY SumExists
<1>2. Rest(S) \in SUBSET S /\ IsFiniteSet(Rest(S))
  BY RestSmaller, FS_Subset
<1>3. IsSum(h, f, Rest(S))
  BY <1>2, SumExists
<1>4. SumOver(f, S) = g[S] /\ SumOver(f, Rest(S)) = h[Rest(S)]
  BY SumIsChosen
<1> HIDE DEF g, h
<1>5. g[S] = f[Pick(S)] + g[Rest(S)]
  BY <1>1 DEF IsSum
<1>6. g[Rest(S)] = h[Rest(S)]
  BY <1>1, <1>2, <1>3, SumsAgree
<1> QED
  BY <1>4, <1>5, <1>6

LEMMA SumEmpty ==
  ASSUME NEW f
  PROVE  SumOver(f, {}) = 0
<1> DEFINE g == CHOOSE g : IsSum(g, f, {})
<1>1. IsSum(g, f, {})
  BY SumExists, FS_EmptySet
<1>2. SumOver(f, {}) = g[{}]
  BY SumIsChosen
<1> HIDE DEF g
<1> QED
  BY <1>1, <1>2 DEF IsSum

LEMMA SumType ==
  ASSUME NEW S, IsFiniteSet(S), NEW f, \A x \in S : f[x] \in Int
  PROVE  /\ SumOver(f, S) \in Int
         /\ (\A x \in S : f[x] \in Nat) => SumOver(f, S) \in Nat
<1> DEFINE Typed(T) == /\ SumOver(f, T) \in Int
                       /\ (\A x \in S : f[x] \in Nat) => SumOver(f, T) \in Nat
           bad == { T \in SUBSET S : ~Typed(T) }
<1> SUFFICES ASSUME bad # {} PROVE FALSE
  OBVIOUS
<1>1. PICK T \in bad : \A U \in SUBSET T : U # T => U \notin bad
  <2> HIDE DEF bad
  <2>1. bad \in SUBSET SUBSET S
    BY DEF bad
  <2> QED
    BY <2>1, Smallest
<1>2. T # {}
  BY SumEmpty
<1>3. Pick(T) \in S /\ Typed(Rest(T))
  BY <1>1, <1>2, RestSmaller
<1>4. IsFiniteSet(T)
  BY FS_Subset
<1>5. SumOver(f, T) = f[Pick(T)] + SumOver(f, Rest(T))
  BY <1>2, <1>4, SumUnfolds
<1>6. Typed(T)
  BY <1>3, <1>5
<1> QED
  BY <1>6

(* Any element can be taken out, not only the one the fold picks. *)
LEMMA SumApart ==
  ASSUME NEW S, IsFiniteSet(S), NEW f, \A x \in S : f[x] \in Int, NEW e \in S
  PROVE  SumOver(f, S) = f[e] + SumOver(f, S \ {e})
<1> DEFINE Apart(T) == \A x \in T : SumOver(f, T) = f[x] + SumOver(f, T \ {x})
           bad == { T \in SUBSET S : ~Apart(T) }
<1> SUFFICES ASSUME bad # {} PROVE FALSE
  <2>1. Apart(S)
    OBVIOUS
  <2> QED
    BY <2>1
<1>1. PICK T \in bad : \A U \in SUBSET T : U # T => U \notin bad
  <2> HIDE DEF bad
  <2>1. bad \in SUBSET SUBSET S
    BY DEF bad
  <2> QED
    BY <2>1, Smallest
<1>2. PICK x \in T : SumOver(f, T) # f[x] + SumOver(f, T \ {x})
  BY <1>1
<1> DEFINE y == Pick(T)
<1>3. y \in T /\ Rest(T) = T \ {y} /\ T \ {y} \in SUBSET T /\ T \ {y} # T
  BY <1>2, RestSmaller DEF Rest
<1>4. IsFiniteSet(T) /\ \A U \in SUBSET T : IsFiniteSet(U)
  BY FS_Subset
<1>5. SumOver(f, T) = f[y] + SumOver(f, T \ {y})
  BY <1>3, <1>4, SumUnfolds
<1>6. x # y
  BY <1>2, <1>5
<1>7. SumOver(f, T \ {y}) = f[x] + SumOver(f, (T \ {y}) \ {x})
  BY <1>1, <1>2, <1>3, <1>6
<1>8. SumOver(f, T \ {x}) = f[y] + SumOver(f, (T \ {x}) \ {y})
  <2>1. \/ T \ {x} = {}
        \/ /\ T \ {x} # {} /\ T \ {x} \in SUBSET T /\ T \ {x} # T /\ y \in T \ {x}
    BY <1>2, <1>3, <1>6
  <2>2. T \ {x} \notin bad
    BY <1>1, <1>2
  <2> QED
    BY <1>3, <1>6, <2>2
<1>9. (T \ {y}) \ {x} = (T \ {x}) \ {y}
  OBVIOUS
<1>10. PICK rest \in Int : rest = SumOver(f, (T \ {x}) \ {y})
  BY <1>4, SumType
<1>11. f[x] \in Int /\ f[y] \in Int
  BY <1>2, <1>3
<1>12. SumOver(f, T) = f[y] + (f[x] + rest)
  BY <1>5, <1>7, <1>9, <1>10
<1>13. SumOver(f, T \ {x}) = f[y] + rest
  BY <1>8, <1>10
<1> HIDE DEF bad, y
<1>14. f[y] + (f[x] + rest) = f[x] + (f[y] + rest)
  BY <1>11
<1> QED
  BY <1>2, <1>12, <1>13, <1>14

LEMMA SumSame ==
  ASSUME NEW S, IsFiniteSet(S), NEW f, NEW g, \A x \in S : f[x] = g[x]
  PROVE  SumOver(f, S) = SumOver(g, S)
<1> DEFINE bad == { T \in SUBSET S : SumOver(f, T) # SumOver(g, T) }
<1> SUFFICES ASSUME bad # {} PROVE FALSE
  OBVIOUS
<1>1. PICK T \in bad : \A U \in SUBSET T : U # T => U \notin bad
  <2> HIDE DEF bad
  <2>1. bad \in SUBSET SUBSET S
    BY DEF bad
  <2> QED
    BY <2>1, Smallest
<1>2. T # {}
  BY SumEmpty
<1>3. Pick(T) \in S /\ SumOver(f, Rest(T)) = SumOver(g, Rest(T))
  BY <1>1, <1>2, RestSmaller
<1>4. IsFiniteSet(T)
  BY FS_Subset
<1>5. /\ SumOver(f, T) = f[Pick(T)] + SumOver(f, Rest(T))
      /\ SumOver(g, T) = g[Pick(T)] + SumOver(g, Rest(T))
  BY <1>2, <1>4, SumUnfolds
<1> QED
  BY <1>3, <1>5

LEMMA SumOfZeros ==
  ASSUME NEW S, IsFiniteSet(S), NEW f, \A x \in S : f[x] = 0
  PROVE  SumOver(f, S) = 0
<1> DEFINE bad == { T \in SUBSET S : SumOver(f, T) # 0 }
<1> SUFFICES ASSUME bad # {} PROVE FALSE
  OBVIOUS
<1>1. PICK T \in bad : \A U \in SUBSET T : U # T => U \notin bad
  <2> HIDE DEF bad
  <2>1. bad \in SUBSET SUBSET S
    BY DEF bad
  <2> QED
    BY <2>1, Smallest
<1>2. T # {}
  BY SumEmpty
<1>3. Pick(T) \in S /\ SumOver(f, Rest(T)) = 0
  BY <1>1, <1>2, RestSmaller
<1>4. IsFiniteSet(T)
  BY FS_Subset
<1>5. SumOver(f, T) = f[Pick(T)] + SumOver(f, Rest(T))
  BY <1>2, <1>4, SumUnfolds
<1> QED
  BY <1>3, <1>5

\* One more element.
LEMMA SumAdds ==
  ASSUME NEW S, IsFiniteSet(S), NEW f, NEW e, e \notin S,
         \A x \in S \cup {e} : f[x] \in Int
  PROVE  SumOver(f, S \cup {e}) = SumOver(f, S) + f[e]
<1>1. IsFiniteSet(S \cup {e})
  BY FS_AddElement
<1>2. (S \cup {e}) \ {e} = S
  OBVIOUS
<1>3. SumOver(f, S \cup {e}) = f[e] + SumOver(f, S)
  BY <1>1, <1>2, SumApart
<1> QED
  BY <1>3, SumType

\* One value changes.
LEMMA SumBumps ==
  ASSUME NEW S, IsFiniteSet(S), NEW f, NEW g, NEW e \in S,
         \A x \in S : f[x] \in Int, g[e] \in Int, \A x \in S \ {e} : g[x] = f[x]
  PROVE  SumOver(g, S) = SumOver(f, S) + (g[e] - f[e])
<1>1. IsFiniteSet(S \ {e})
  BY FS_RemoveElement
<1>2. SumOver(g, S \ {e}) = SumOver(f, S \ {e})
  BY <1>1, SumSame
<1>3. SumOver(f, S) = f[e] + SumOver(f, S \ {e})
  BY SumApart
<1>4. SumOver(g, S) = g[e] + SumOver(g, S \ {e})
  BY SumApart
<1>5. SumOver(f, S \ {e}) \in Int
  BY <1>1, SumType
<1> QED
  BY <1>2, <1>3, <1>4, <1>5

\* A set and a part of it.
LEMMA SumSplits ==
  ASSUME NEW S, IsFiniteSet(S), NEW f, \A x \in S : f[x] \in Int, NEW T \in SUBSET S
  PROVE  SumOver(f, S) = SumOver(f, T) + SumOver(f, S \ T)
<1> DEFINE bad == { V \in SUBSET S : SumOver(f, S) # SumOver(f, V) + SumOver(f, S \ V) }
<1> SUFFICES ASSUME bad # {} PROVE FALSE
  OBVIOUS
<1>1. PICK V \in bad : \A U \in SUBSET V : U # V => U \notin bad
  <2> HIDE DEF bad
  <2>1. bad \in SUBSET SUBSET S
    BY DEF bad
  <2> QED
    BY <2>1, Smallest
<1>2. V # {}
  <2>1. S \ {} = S /\ SumOver(f, S) \in Int
    BY SumType
  <2> QED
    BY <2>1, SumEmpty
<1>3. PICK e \in V : TRUE
  BY <1>2
<1>4. SumOver(f, S) = SumOver(f, V \ {e}) + SumOver(f, S \ (V \ {e}))
  BY <1>1
<1>5. IsFiniteSet(V) /\ IsFiniteSet(S \ V) /\ IsFiniteSet(V \ {e})
  BY FS_Subset
<1>6. SumOver(f, V) = f[e] + SumOver(f, V \ {e})
  BY <1>5, SumApart
<1>7. S \ (V \ {e}) = (S \ V) \cup {e} /\ e \notin S \ V
  OBVIOUS
<1>8. SumOver(f, S \ (V \ {e})) = SumOver(f, S \ V) + f[e]
  <2>1. \A x \in (S \ V) \cup {e} : f[x] \in Int
    OBVIOUS
  <2>2. SumOver(f, (S \ V) \cup {e}) = SumOver(f, S \ V) + f[e]
    BY <1>5, <1>7, <2>1, SumAdds
  <2> QED
    BY <1>7, <2>2
<1>9. f[e] \in Int /\ SumOver(f, V \ {e}) \in Int /\ SumOver(f, S \ V) \in Int
  BY <1>5, SumType
<1>10. SumOver(f, S) = SumOver(f, V) + SumOver(f, S \ V)
  BY <1>4, <1>6, <1>8, <1>9
<1> QED
  BY <1>10

LEMMA SumGrows ==
  ASSUME NEW S, IsFiniteSet(S), NEW f, \A x \in S : f[x] \in Nat, NEW T \in SUBSET S
  PROVE  SumOver(f, T) <= SumOver(f, S)
<1>1. SumOver(f, S) = SumOver(f, T) + SumOver(f, S \ T)
  BY SumSplits
<1>2. IsFiniteSet(T) /\ IsFiniteSet(S \ T)
  BY FS_Subset
<1>3. SumOver(f, T) \in Nat /\ SumOver(f, S \ T) \in Nat
  BY <1>2, SumType
<1> QED
  BY <1>1, <1>3

\* Differences are summed one by one.
LEMMA SumOfDifferences ==
  ASSUME NEW S, IsFiniteSet(S), NEW f, NEW g, NEW h,
         \A x \in S : f[x] \in Int /\ g[x] \in Int /\ h[x] = f[x] - g[x]
  PROVE  SumOver(h, S) = SumOver(f, S) - SumOver(g, S)
<1> DEFINE bad == { T \in SUBSET S : SumOver(h, T) # SumOver(f, T) - SumOver(g, T) }
<1> SUFFICES ASSUME bad # {} PROVE FALSE
  OBVIOUS
<1>1. PICK T \in bad : \A U \in SUBSET T : U # T => U \notin bad
  <2> HIDE DEF bad
  <2>1. bad \in SUBSET SUBSET S
    BY DEF bad
  <2> QED
    BY <2>1, Smallest
<1>2. T # {}
  <2>1. SumOver(f, {}) = 0 /\ SumOver(g, {}) = 0 /\ SumOver(h, {}) = 0
    BY SumEmpty
  <2>2. ASSUME T = {} PROVE FALSE
    <3>1. SumOver(h, T) # SumOver(f, T) - SumOver(g, T)
      OBVIOUS
    <3> QED
      BY <2>1, <2>2, <3>1
  <2> QED
    BY <2>2
<1>3. Pick(T) \in S /\ SumOver(h, Rest(T)) = SumOver(f, Rest(T)) - SumOver(g, Rest(T))
  BY <1>1, <1>2, RestSmaller
<1>4. IsFiniteSet(T) /\ IsFiniteSet(Rest(T)) /\ Rest(T) \in SUBSET S
  BY <1>2, FS_Subset, RestSmaller
<1>5. /\ SumOver(f, T) = f[Pick(T)] + SumOver(f, Rest(T))
      /\ SumOver(g, T) = g[Pick(T)] + SumOver(g, Rest(T))
      /\ SumOver(h, T) = h[Pick(T)] + SumOver(h, Rest(T))
  BY <1>2, <1>4, SumUnfolds
<1>6. SumOver(f, Rest(T)) \in Int /\ SumOver(g, Rest(T)) \in Int
  BY <1>4, SumType
<1> QED
  BY <1>1, <1>3, <1>5, <1>6

LEMMA SumMonotone ==
  ASSUME NEW S, IsFiniteSet(S), NEW f, NEW g,
         \A x \in S : f[x] \in Nat /\ g[x] \in Nat /\ f[x] <= g[x]
  PROVE  SumOver(f, S) <= SumOver(g, S)
<1>1. PICK h : h = [x \in S |-> g[x] - f[x]]
  OBVIOUS
<1>2. \A x \in S : f[x] \in Int /\ g[x] \in Int /\ h[x] = g[x] - f[x] /\ h[x] \in Nat
  BY <1>1
<1>3. SumOver(h, S) = SumOver(g, S) - SumOver(f, S)
  BY <1>2, SumOfDifferences
<1>4. SumOver(h, S) \in Nat /\ SumOver(f, S) \in Int /\ SumOver(g, S) \in Int
  BY <1>2, SumType
<1> QED
  BY <1>3, <1>4

Group(key, S, z) == { x \in S : key[x] = z }
KeysOf(key, S) == { key[x] : x \in S }

\* The groups of a set by a key have the sum of the set.
LEMMA SumByKey ==
  ASSUME NEW S, IsFiniteSet(S), NEW f, \A x \in S : f[x] \in Int, NEW key, NEW g,
         \A z \in KeysOf(key, S) : g[z] = SumOver(f, Group(key, S, z))
  PROVE  SumOver(g, KeysOf(key, S)) = SumOver(f, S)
<1> USE DEF Group, KeysOf
<1> DEFINE keys == { key[x] : x \in S }
           With(Z) == { x \in S : key[x] \in Z }
           bad == { Z \in SUBSET keys : SumOver(g, Z) # SumOver(f, With(Z)) }
<1>1. IsFiniteSet(keys)
  <2>1. [x \in S |-> key[x]] \in Surjection(S, keys)
    BY DEF Surjection
  <2> QED
    BY <2>1, FS_Surjection
<1>2. With(keys) = S
  OBVIOUS
<1> SUFFICES ASSUME bad # {} PROVE FALSE
  BY <1>2
<1>3. PICK Z \in bad : \A U \in SUBSET Z : U # Z => U \notin bad
  <2> HIDE DEF bad, keys
  <2>1. bad \in SUBSET SUBSET keys
    BY DEF bad
  <2> QED
    BY <1>1, <2>1, Smallest
<1>4. Z # {}
  <2>1. With({}) = {}
    OBVIOUS
  <2> QED
    BY <2>1, SumEmpty
<1>5. PICK z \in Z : TRUE
  BY <1>4
<1> DEFINE group == { x \in S : key[x] = z }
<1>6. IsFiniteSet(Z) /\ IsFiniteSet(With(Z)) /\ IsFiniteSet(group) /\ IsFiniteSet(With(Z \ {z}))
  BY <1>1, FS_Subset
<1>7. group \in SUBSET With(Z) /\ With(Z) \ group = With(Z \ {z})
  OBVIOUS
<1>8. SumOver(f, With(Z)) = SumOver(f, group) + SumOver(f, With(Z \ {z}))
  <2>1. PICK W, G : W = With(Z) /\ G = group
    OBVIOUS
  <2>2. IsFiniteSet(W) /\ G \in SUBSET W /\ \A x \in W : f[x] \in Int
    BY <1>6, <1>7, <2>1
  <2>3. SumOver(f, W) = SumOver(f, G) + SumOver(f, W \ G)
    BY <2>2, SumSplits
  <2> QED
    BY <1>7, <2>1, <2>3
<1>9. \A y \in Z : g[y] \in Int
  <2> SUFFICES ASSUME NEW y \in Z PROVE SumOver(f, { x \in S : key[x] = y }) \in Int
    OBVIOUS
  <2>1. IsFiniteSet({ x \in S : key[x] = y })
    BY FS_Subset
  <2> QED
    BY <2>1, SumType
<1>10. SumOver(g, Z) = g[z] + SumOver(g, Z \ {z})
  BY <1>6, <1>9, SumApart
<1>11. SumOver(g, Z \ {z}) = SumOver(f, With(Z \ {z}))
  BY <1>3
<1>12. g[z] = SumOver(f, group)
  OBVIOUS
<1> QED
  BY <1>8, <1>10, <1>11, <1>12
=============================================================================
