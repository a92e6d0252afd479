------------------------- MODULE PointsViewsProofs -------------------------
(***************************************************************************)
(* What holds of the points views and of the leaderboard for every set of  *)
(* stored rows, every program, every set of amounts and every other        *)
(* wallet: the periods tiling the program, the columns of the leaderboard  *)
(* adding up, what is past staying past, the total following the rule of   *)
(* README.md in the weeks that earn, the two boosts agreeing, and the      *)
(* pages holding every wallet once.                                        *)
(*                                                                         *)
(* The views are sums over sets, and the library gives no induction over   *)
(* finite sets that the provers can use.  The lemmas on sums argue by a    *)
(* smallest counterexample instead: the proper subsets of a finite set are *)
(* well-founded.                                                           *)
(***************************************************************************)
EXTENDS Leaderboard, FiniteSetTheorems, TLAPS

-----------------------------------------------------------------------------
(* Sums over finite sets.                                                   *)

PickOne(s) == CHOOSE x \in s : TRUE

\* g adds up f over every subset of S, one chosen element after the other.
Adds(g, f, S) ==
    g = [s \in SUBSET S |-> IF s = {} THEN 0 ELSE f[PickOne(s)] + g[s \ {PickOne(s)}]]

Adder(f, S) == CHOOSE g : Adds(g, f, S)

LEMMA SumIsAdder ==
   ASSUME NEW f, NEW S
   PROVE SumFunctionOnSet(f, S) = Adder(f, S)[S]
BY DEF SumFunctionOnSet, FoldFunctionOnSet, MapThenFoldSet, Adder, Adds, PickOne

LEMMA PickIsIn == ASSUME NEW s, s # {} PROVE PickOne(s) \in s
BY DEF PickOne

\* A set of finite sets that is not empty has one without a smaller one in it.
LEMMA SmallestSet ==
    ASSUME NEW S, NEW Bad, Bad \subseteq FiniteSubsetsOf(S), Bad # {}
    PROVE  \E U \in Bad : \A V \in Bad : V \subseteq U => V = U
<1>1. PICK U \in Bad : \A V \in Bad : ~(<<V, U>> \in StrictSubsetOrdering(S))
      BY FS_StrictSubsetOrderingWellFounded, WFMin
<1>2. ASSUME NEW V \in Bad, V \subseteq U, V # U PROVE FALSE
      BY <1>1, <1>2 DEF StrictSubsetOrdering, FiniteSubsetsOf
<1> QED BY <1>2

\* What that means at one of the subsets.
AddsAt(g, f, s) == g[s] = IF s = {} THEN 0 ELSE f[PickOne(s)] + g[s \ {PickOne(s)}]

LEMMA AddsEverywhere ==
    ASSUME NEW f, NEW S, NEW g, Adds(g, f, S)
    PROVE  \A s \in SUBSET S : AddsAt(g, f, s)
<1> DEFINE G == [u \in SUBSET S |-> IF u = {} THEN 0 ELSE f[PickOne(u)] + g[u \ {PickOne(u)}]]
<1>1. g = G
      BY DEF Adds
<1>2. \A s \in SUBSET S : G[s] = IF s = {} THEN 0 ELSE f[PickOne(s)] + g[s \ {PickOne(s)}]
      OBVIOUS
<1> HIDE DEF G
<1> QED BY <1>1, <1>2 DEF AddsAt

LEMMA AddsUnique ==
   ASSUME NEW f, NEW S, NEW T, NEW g, NEW h, Adds(g, f, S), Adds(h, f, T), IsFiniteSet(S), NEW s \in SUBSET S, s \subseteq T
   PROVE g[s] = h[s]
<1> DEFINE Bad == {u \in FiniteSubsetsOf(S) : u \subseteq T /\ g[u] # h[u]}
<1>g. \A u \in SUBSET S : AddsAt(g, f, u)
   BY AddsEverywhere
<1>h. \A u \in SUBSET T : AddsAt(h, f, u)
   BY AddsEverywhere
<1>1. ASSUME Bad # {} PROVE FALSE
  <2>0. PICK U \in Bad : \A V \in Bad : V \subseteq U => V = U
    <3> HIDE DEF Bad
    <3>1. Bad \subseteq FiniteSubsetsOf(S) BY DEF Bad
    <3> QED BY <1>1, <3>1, SmallestSet
  <2>1. U \in SUBSET S /\ U \in SUBSET T /\ g[U] # h[U] /\ IsFiniteSet(U)
     BY DEF FiniteSubsetsOf
  <2>2. U # {} 
     <3>1. g[U] = IF U = {} THEN 0 ELSE f[PickOne(U)] + g[U \ {PickOne(U)}] BY <2>1, <1>g DEF AddsAt
     <3>2. h[U] = IF U = {} THEN 0 ELSE f[PickOne(U)] + h[U \ {PickOne(U)}] BY <2>1, <1>h DEF AddsAt
     <3> QED BY <2>1, <3>1, <3>2
  <2> DEFINE V == U \ {PickOne(U)}
  <2>3. V \in SUBSET U /\ V # U BY <2>2, PickIsIn
  <2>4. V \in FiniteSubsetsOf(S) /\ V \subseteq T
      BY <2>1, <2>3, FS_Subset DEF FiniteSubsetsOf
  <2>5. g[V] = h[V] BY <2>0, <2>3, <2>4
  <2>6. g[U] = f[PickOne(U)] + g[V] 
     <3>1. g[U] = IF U = {} THEN 0 ELSE f[PickOne(U)] + g[U \ {PickOne(U)}] BY <2>1, <1>g DEF AddsAt
     <3> QED BY <2>2, <3>1
  <2>7. h[U] = f[PickOne(U)] + h[V] 
     <3>1. h[U] = IF U = {} THEN 0 ELSE f[PickOne(U)] + h[U \ {PickOne(U)}] BY <2>1, <1>h DEF AddsAt
     <3> QED BY <2>2, <3>1
  <2> QED BY <2>5, <2>6, <2>7, <2>1
<1>2. s \in FiniteSubsetsOf(S) BY FS_Subset DEF FiniteSubsetsOf
<1> QED BY <1>1, <1>2

LEMMA AdderExists ==
  ASSUME NEW f, NEW S, IsFiniteSet(S)
  PROVE Adds(Adder(f, S), f, S)
<1> DEFINE Bad == {u \in FiniteSubsetsOf(S) : ~Adds(Adder(f, u), f, u)}
<1>1. ASSUME Bad # {} PROVE FALSE
  <2>0. PICK U \in Bad : \A V \in Bad : V \subseteq U => V = U
    <3> HIDE DEF Bad
    <3>1. Bad \subseteq FiniteSubsetsOf(S) BY DEF Bad
    <3> QED BY <1>1, <3>1, SmallestSet
  <2>2. ASSUME NEW V \in SUBSET U, V # U PROVE Adds(Adder(f, V), f, V) /\ IsFiniteSet(V)
      BY <2>0, <2>2, FS_Subset DEF FiniteSubsetsOf
  <2> DEFINE Total(V) == Adder(f, V)[V]
             g == [u \in SUBSET U |-> IF u = {} THEN 0 ELSE f[PickOne(u)] + Total(u \ {PickOne(u)})]
  <2>3. ASSUME NEW V \in SUBSET U, V # U PROVE Total(V) = g[V]
     <3>1. Adds(Adder(f, V), f, V) /\ IsFiniteSet(V) BY <2>2, <2>3
     <3>2. Total(V) = IF V = {} THEN 0 ELSE f[PickOne(V)] + Adder(f, V)[V \ {PickOne(V)}]
         BY <3>1, AddsEverywhere DEF AddsAt
     <3>3. CASE V = {}
         BY <3>2, <3>3
     <3>4. CASE V # {}
       <4> DEFINE W == V \ {PickOne(V)}
       <4>1. W \in SUBSET U /\ W # U /\ W \subseteq V BY <2>3
       <4>2. Adds(Adder(f, W), f, W) /\ IsFiniteSet(W) BY <4>1, <2>2
       <4>3. Adder(f, V)[W] = Total(W)
          BY <4>1, <4>2, <3>1, AddsUnique
       <4> QED BY <3>2, <3>4, <4>3
     <3> QED BY <3>3, <3>4
  <2>4. \A u \in SUBSET U : u # {} => u \ {PickOne(u)} \in SUBSET U /\ u \ {PickOne(u)} # U
      BY PickIsIn
  <2>5. \A u \in SUBSET U : u # {} => Total(u \ {PickOne(u)}) = g[u \ {PickOne(u)}]
      BY <2>3, <2>4
  <2>6. g = [u \in SUBSET U |-> IF u = {} THEN 0 ELSE f[PickOne(u)] + g[u \ {PickOne(u)}]]
     <3> HIDE DEF Total
     <3> QED BY <2>5
  <2>7. Adds(g, f, U)
     <3> HIDE DEF g
     <3> QED BY <2>6 DEF Adds
  <2>8. Adds(Adder(f, U), f, U) 
     <3> HIDE DEF g
     <3> QED BY <2>7 DEF Adder
  <2> QED BY <2>8
<1>2. S \in FiniteSubsetsOf(S) BY DEF FiniteSubsetsOf
<1> QED BY <1>1, <1>2

\* A sum takes one chosen element after the other.
LEMMA SumTakes ==
  ASSUME NEW f, NEW S, IsFiniteSet(S)
  PROVE  /\ S = {} => SumFunctionOnSet(f, S) = 0
         /\ S # {} => /\ PickOne(S) \in S
                      /\ SumFunctionOnSet(f, S) = f[PickOne(S)] + SumFunctionOnSet(f, S \ {PickOne(S)})
<1>1. Adds(Adder(f, S), f, S) BY AdderExists
<1>2. CASE S = {} BY <1>1, <1>2, AddsEverywhere, SumIsAdder DEF AddsAt
<1>3. CASE S # {}
  <2> DEFINE T == S \ {PickOne(S)}
  <2>1. IsFiniteSet(T) BY FS_Subset
  <2>2. Adds(Adder(f, T), f, T) BY <2>1, AdderExists
  <2>3. Adder(f, S)[T] = Adder(f, T)[T] BY <1>1, <2>2, AddsUnique
  <2>4. Adder(f, S)[S] = f[PickOne(S)] + Adder(f, S)[T] BY <1>1, <1>3, AddsEverywhere DEF AddsAt
  <2> QED BY <1>3, <2>3, <2>4, PickIsIn, SumIsAdder
<1> QED BY <1>2, <1>3

LEMMA SumOfNone ==
    ASSUME NEW f
    PROVE  SumFunctionOnSet(f, {}) = 0
BY FS_EmptySet, SumTakes

-----------------------------------------------------------------------------
Integers(f, S) == \A x \in S : f[x] \in Int

LEMMA SumIsInt ==
    ASSUME NEW f, NEW S, IsFiniteSet(S), Integers(f, S)
    PROVE  SumFunctionOnSet(f, S) \in Int
<1> DEFINE Bad == {u \in FiniteSubsetsOf(S) : SumFunctionOnSet(f, u) \notin Int}
<1>1. ASSUME Bad # {} PROVE FALSE
  <2>0. PICK U \in Bad : \A V \in Bad : V \subseteq U => V = U
    <3> HIDE DEF Bad
    <3>1. Bad \subseteq FiniteSubsetsOf(S) BY DEF Bad
    <3> QED BY <1>1, <3>1, SmallestSet
  <2>1. IsFiniteSet(U) /\ U \subseteq S /\ SumFunctionOnSet(f, U) \notin Int
        BY DEF FiniteSubsetsOf
  <2>2. U # {}
        BY <2>1, SumOfNone
  <2> DEFINE p == PickOne(U)
  <2>3. p \in U /\ SumFunctionOnSet(f, U) = f[p] + SumFunctionOnSet(f, U \ {p})
        BY <2>1, <2>2, SumTakes
  <2>4. U \ {p} \in FiniteSubsetsOf(S)
        BY <2>1, FS_Subset DEF FiniteSubsetsOf
  <2>5. SumFunctionOnSet(f, U \ {p}) \in Int
        BY <2>0, <2>3, <2>4
  <2> QED BY <2>1, <2>3, <2>5 DEF Integers
<1>2. S \in FiniteSubsetsOf(S)
      BY DEF FiniteSubsetsOf
<1> QED BY <1>1, <1>2

\* ... in whichever order.
LEMMA SumTakesAny ==
    ASSUME NEW f, NEW S, IsFiniteSet(S), Integers(f, S), NEW x \in S
    PROVE  SumFunctionOnSet(f, S) = f[x] + SumFunctionOnSet(f, S \ {x})
<1> DEFINE Takes(u, y) == SumFunctionOnSet(f, u) = f[y] + SumFunctionOnSet(f, u \ {y})
           Bad == {u \in FiniteSubsetsOf(S) : \E y \in u : ~Takes(u, y)}
<1>1. ASSUME Bad # {} PROVE FALSE
  <2>0. PICK U \in Bad : \A V \in Bad : V \subseteq U => V = U
    <3> HIDE DEF Bad
    <3>1. Bad \subseteq FiniteSubsetsOf(S) BY DEF Bad
    <3> QED BY <1>1, <3>1, SmallestSet
  <2>1. PICK y \in U : ~Takes(U, y)
        OBVIOUS
  <2>2. IsFiniteSet(U) /\ U \subseteq S
        BY DEF FiniteSubsetsOf
  <2> DEFINE p == PickOne(U)
  <2>3. p \in U /\ SumFunctionOnSet(f, U) = f[p] + SumFunctionOnSet(f, U \ {p})
        BY <2>1, <2>2, SumTakes
  <2>4. p # y
        BY <2>1, <2>3
  <2> HIDE DEF p
  <2>5. /\ U \ {p} \in FiniteSubsetsOf(S) /\ U \ {y} \in FiniteSubsetsOf(S)
        /\ IsFiniteSet((U \ {p}) \ {y})
        BY <2>2, FS_Subset DEF FiniteSubsetsOf
  <2>6. U \ {p} \notin Bad /\ U \ {y} \notin Bad
    <3> HIDE DEF Bad
    <3> QED BY <2>0, <2>1, <2>3
  <2>7. Takes(U \ {p}, y) /\ Takes(U \ {y}, p)
        BY <2>1, <2>3, <2>4, <2>5, <2>6
  <2>8. (U \ {p}) \ {y} = (U \ {y}) \ {p}
        OBVIOUS
  <2>9. SumFunctionOnSet(f, (U \ {p}) \ {y}) \in Int
        BY <2>2, <2>5, SumIsInt DEF Integers
  <2>10. f[p] \in Int /\ f[y] \in Int
        BY <2>1, <2>2, <2>3 DEF Integers
  <2>11. /\ SumFunctionOnSet(f, U \ {p}) = f[y] + SumFunctionOnSet(f, (U \ {p}) \ {y})
         /\ SumFunctionOnSet(f, U \ {y}) = f[p] + SumFunctionOnSet(f, (U \ {p}) \ {y})
        BY <2>7, <2>8
  <2>12. SumFunctionOnSet(f, U) = f[y] + SumFunctionOnSet(f, U \ {y})
        BY <2>3, <2>9, <2>10, <2>11
  <2> QED BY <2>1, <2>12
<1>2. S \in FiniteSubsetsOf(S)
      BY DEF FiniteSubsetsOf
<1> QED BY <1>1, <1>2

\* Two functions that agree have the same sum.
LEMMA SumsAgree ==
    ASSUME NEW f, NEW g, NEW S, IsFiniteSet(S), \A x \in S : f[x] = g[x]
    PROVE  SumFunctionOnSet(f, S) = SumFunctionOnSet(g, S)
<1> DEFINE Bad == {u \in FiniteSubsetsOf(S) : SumFunctionOnSet(f, u) # SumFunctionOnSet(g, u)}
<1>1. ASSUME Bad # {} PROVE FALSE
  <2>0. PICK U \in Bad : \A V \in Bad : V \subseteq U => V = U
    <3> HIDE DEF Bad
    <3>1. Bad \subseteq FiniteSubsetsOf(S) BY DEF Bad
    <3> QED BY <1>1, <3>1, SmallestSet
  <2>1. IsFiniteSet(U) /\ U \subseteq S /\ SumFunctionOnSet(f, U) # SumFunctionOnSet(g, U)
        BY DEF FiniteSubsetsOf
  <2>2. U # {}
        BY <2>1, SumOfNone
  <2> DEFINE p == PickOne(U)
  <2>3. /\ p \in U /\ SumFunctionOnSet(f, U) = f[p] + SumFunctionOnSet(f, U \ {p})
        /\ SumFunctionOnSet(g, U) = g[p] + SumFunctionOnSet(g, U \ {p})
        BY <2>1, <2>2, SumTakes
  <2> HIDE DEF p
  <2>4. U \ {p} \in FiniteSubsetsOf(S)
        BY <2>1, FS_Subset DEF FiniteSubsetsOf
  <2>5. SumFunctionOnSet(f, U \ {p}) = SumFunctionOnSet(g, U \ {p})
        BY <2>0, <2>3, <2>4
  <2> QED BY <2>1, <2>3, <2>5
<1>2. S \in FiniteSubsetsOf(S)
      BY DEF FiniteSubsetsOf
<1> QED BY <1>1, <1>2

\* The sum of the sums.
LEMMA SumsAdd ==
    ASSUME NEW f, NEW g, NEW h, NEW S, IsFiniteSet(S), Integers(f, S), Integers(g, S),
           \A x \in S : h[x] = f[x] + g[x]
    PROVE  SumFunctionOnSet(h, S) = SumFunctionOnSet(f, S) + SumFunctionOnSet(g, S)
<1> DEFINE Bad == {u \in FiniteSubsetsOf(S) :
              SumFunctionOnSet(h, u) # SumFunctionOnSet(f, u) + SumFunctionOnSet(g, u)}
<1>1. ASSUME Bad # {} PROVE FALSE
  <2>0. PICK U \in Bad : \A V \in Bad : V \subseteq U => V = U
    <3> HIDE DEF Bad
    <3>1. Bad \subseteq FiniteSubsetsOf(S) BY DEF Bad
    <3> QED BY <1>1, <3>1, SmallestSet
  <2>1. /\ IsFiniteSet(U) /\ U \subseteq S
        /\ SumFunctionOnSet(h, U) # SumFunctionOnSet(f, U) + SumFunctionOnSet(g, U)
        BY DEF FiniteSubsetsOf
  <2>2. U # {}
        BY <2>1, SumOfNone
  <2> DEFINE p == PickOne(U)
  <2>3. /\ p \in U /\ SumFunctionOnSet(f, U) = f[p] + SumFunctionOnSet(f, U \ {p})
        /\ SumFunctionOnSet(g, U) = g[p] + SumFunctionOnSet(g, U \ {p})
        /\ SumFunctionOnSet(h, U) = h[p] + SumFunctionOnSet(h, U \ {p})
        BY <2>1, <2>2, SumTakes
  <2> HIDE DEF p
  <2>4. U \ {p} \in FiniteSubsetsOf(S) /\ IsFiniteSet(U \ {p})
        BY <2>1, FS_Subset DEF FiniteSubsetsOf
  <2>5. SumFunctionOnSet(h, U \ {p}) = SumFunctionOnSet(f, U \ {p}) + SumFunctionOnSet(g, U \ {p})
        BY <2>0, <2>3, <2>4
  <2>6. /\ SumFunctionOnSet(f, U \ {p}) \in Int /\ SumFunctionOnSet(g, U \ {p}) \in Int
        /\ f[p] \in Int /\ g[p] \in Int
        BY <2>1, <2>3, <2>4, SumIsInt DEF Integers
  <2> QED BY <2>1, <2>3, <2>5, <2>6
<1>2. S \in FiniteSubsetsOf(S)
      BY DEF FiniteSubsetsOf
<1> QED BY <1>1, <1>2

LEMMA SumIsNat ==
    ASSUME NEW f, NEW S, IsFiniteSet(S), \A x \in S : f[x] \in Nat
    PROVE  SumFunctionOnSet(f, S) \in Nat
<1> DEFINE Bad == {u \in FiniteSubsetsOf(S) : SumFunctionOnSet(f, u) \notin Nat}
<1>1. ASSUME Bad # {} PROVE FALSE
  <2>0. PICK U \in Bad : \A V \in Bad : V \subseteq U => V = U
    <3> HIDE DEF Bad
    <3>1. Bad \subseteq FiniteSubsetsOf(S) BY DEF Bad
    <3> QED BY <1>1, <3>1, SmallestSet
  <2>1. IsFiniteSet(U) /\ U \subseteq S /\ SumFunctionOnSet(f, U) \notin Nat
        BY DEF FiniteSubsetsOf
  <2>2. U # {}
        BY <2>1, SumOfNone
  <2> DEFINE p == PickOne(U)
  <2>3. p \in U /\ SumFunctionOnSet(f, U) = f[p] + SumFunctionOnSet(f, U \ {p})
        BY <2>1, <2>2, SumTakes
  <2> HIDE DEF p
  <2>4. U \ {p} \in FiniteSubsetsOf(S)
        BY <2>1, FS_Subset DEF FiniteSubsetsOf
  <2>5. SumFunctionOnSet(f, U \ {p}) \in Nat
        BY <2>0, <2>3, <2>4
  <2> QED BY <2>1, <2>3, <2>5
<1>2. S \in FiniteSubsetsOf(S)
      BY DEF FiniteSubsetsOf
<1> QED BY <1>1, <1>2

\* A sum of numbers that another sum exceeds one by one, and elsewhere adds
\* nothing negative, is the smaller one.
LEMMA SumsCompare ==
    ASSUME NEW f, NEW g, NEW S, NEW T, NEW m \in [S -> T], IsFiniteSet(S), IsFiniteSet(T),
           Integers(f, S), \A y \in T : g[y] \in Nat,
           \A x, y \in S : m[x] = m[y] => x = y,
           \A x \in S : f[x] <= g[m[x]]
    PROVE  SumFunctionOnSet(f, S) <= SumFunctionOnSet(g, T)
<1> DEFINE Image(u) == {m[x] : x \in u}
           Below(u, v) == Image(u) \subseteq v => SumFunctionOnSet(f, u) <= SumFunctionOnSet(g, v)
           Bad == {u \in FiniteSubsetsOf(S) : \E v \in FiniteSubsetsOf(T) : ~Below(u, v)}
<1>0. ASSUME NEW v, v \in FiniteSubsetsOf(T) PROVE SumFunctionOnSet(g, v) \in Nat
      BY <1>0, SumIsNat DEF FiniteSubsetsOf
<1>1. ASSUME Bad # {} PROVE FALSE
  <2>0. PICK U \in Bad : \A V \in Bad : V \subseteq U => V = U
    <3> HIDE DEF Bad
    <3>1. Bad \subseteq FiniteSubsetsOf(S) BY DEF Bad
    <3> QED BY <1>1, <3>1, SmallestSet
  <2>1. IsFiniteSet(U) /\ U \subseteq S
        BY DEF FiniteSubsetsOf
  <2>2. PICK v \in FiniteSubsetsOf(T) : ~Below(U, v)
        OBVIOUS
  <2>3. IsFiniteSet(v) /\ v \subseteq T /\ SumFunctionOnSet(g, v) \in Nat
        BY <1>0, <2>2 DEF FiniteSubsetsOf
  <2>4. U # {}
        BY <2>1, <2>2, <2>3, SumOfNone
  <2> DEFINE p == PickOne(U)
  <2>5. p \in U /\ SumFunctionOnSet(f, U) = f[p] + SumFunctionOnSet(f, U \ {p})
        BY <2>1, <2>4, SumTakes
  <2> HIDE DEF p
  <2>6. U \ {p} \in FiniteSubsetsOf(S) /\ IsFiniteSet(U \ {p})
        BY <2>1, FS_Subset DEF FiniteSubsetsOf
  <2>7. v \ {m[p]} \in FiniteSubsetsOf(T)
        BY <2>3, FS_Subset DEF FiniteSubsetsOf
  <2>8. Below(U \ {p}, v \ {m[p]})
    <3>1. U \ {p} \notin Bad
      <4> HIDE DEF Bad
      <4> QED BY <2>0, <2>5
    <3> QED BY <2>6, <2>7, <3>1
  <2>9. Image(U \ {p}) \subseteq v \ {m[p]} /\ m[p] \in v
        BY <2>1, <2>2, <2>5
  <2>10. SumFunctionOnSet(f, U \ {p}) <= SumFunctionOnSet(g, v \ {m[p]})
        BY <2>8, <2>9
  <2>11. SumFunctionOnSet(g, v) = g[m[p]] + SumFunctionOnSet(g, v \ {m[p]})
    <3>1. Integers(g, v)
          BY <2>3 DEF Integers
    <3> QED BY <2>3, <2>9, <3>1, SumTakesAny
  <2>12. /\ SumFunctionOnSet(f, U \ {p}) \in Int /\ SumFunctionOnSet(g, v \ {m[p]}) \in Nat
         /\ f[p] \in Int /\ g[m[p]] \in Nat /\ f[p] <= g[m[p]]
    <3>1. Integers(f, U \ {p})
          BY <2>1 DEF Integers
    <3>2. SumFunctionOnSet(f, U \ {p}) \in Int
          BY <2>6, <3>1, SumIsInt
    <3> QED BY <1>0, <2>1, <2>3, <2>5, <2>7, <2>9, <3>2 DEF Integers
  <2>13. SumFunctionOnSet(f, U) <= SumFunctionOnSet(g, v)
        BY <2>5, <2>10, <2>11, <2>12
  <2> QED BY <2>2, <2>13
<1>2. S \in FiniteSubsetsOf(S) /\ T \in FiniteSubsetsOf(T) /\ Image(S) \subseteq T
      BY DEF FiniteSubsetsOf
<1> QED BY <1>1, <1>2

LEMMA SumFunctionIsInt ==
    ASSUME NEW f, IsFiniteSet(DOMAIN f), Integers(f, DOMAIN f)
    PROVE  SumFunction(f) \in Int
BY SumIsInt DEF SumFunction

\* The values of a function on a finite set.
LEMMA ImageFinite ==
    ASSUME NEW f, NEW S, IsFiniteSet(S)
    PROVE  IsFiniteSet({f[x] : x \in S})
<1> DEFINE T == {f[x] : x \in S}
           g == [x \in S |-> f[x]]
<1>1. g \in Surjection(S, T)
      BY DEF Surjection
<1> HIDE DEF g, T
<1>2. IsFiniteSet(T)
      BY <1>1, FS_Surjection
<1> QED BY <1>2 DEF T

-----------------------------------------------------------------------------
(* The rows of a table.                                                     *)

LEMMA ConcatFacts ==
    ASSUME NEW S, NEW a \in Seq(S), NEW b \in Seq(S)
    PROVE  /\ a \o b \in Seq(S)
           /\ Len(a \o b) = Len(a) + Len(b)
           /\ \A j \in 1 .. Len(a) : (a \o b)[j] = a[j]
           /\ \A j \in 1 .. Len(b) : (a \o b)[Len(a) + j] = b[j]
OBVIOUS

LEMMA InsertAtFacts ==
    ASSUME NEW S, NEW s \in Seq(S), NEW e \in S, NEW p \in 1 .. Len(s) + 1
    PROVE  /\ InsertAt(s, p, e) \in Seq(S)
           /\ Len(InsertAt(s, p, e)) = Len(s) + 1
           /\ \A j \in 1 .. Len(s) + 1 :
                  InsertAt(s, p, e)[j] = IF j < p THEN s[j] ELSE IF j = p THEN e ELSE s[j - 1]
<1>0. Len(s) \in Nat /\ p \in Nat
      OBVIOUS
<1>1. PICK a \in Seq(S) : /\ a = SubSeq(s, 1, p - 1) /\ Len(a) = p - 1
                          /\ \A j \in 1 .. p - 1 : a[j] = s[j]
  <2>1. SubSeq(s, 1, p - 1) \in Seq(S)
        OBVIOUS
  <2>2. Len(SubSeq(s, 1, p - 1)) = p - 1
        BY <1>0
  <2>3. \A j \in 1 .. p - 1 : SubSeq(s, 1, p - 1)[j] = s[j]
        BY <1>0
  <2> QED BY <2>1, <2>2, <2>3
<1>2. PICK b \in Seq(S) : /\ b = SubSeq(s, p, Len(s)) /\ Len(b) = Len(s) + 1 - p
                          /\ \A j \in 1 .. Len(s) + 1 - p : b[j] = s[p + j - 1]
  <2>1. SubSeq(s, p, Len(s)) \in Seq(S)
        OBVIOUS
  <2>2. Len(SubSeq(s, p, Len(s))) = Len(s) + 1 - p
        BY <1>0
  <2>3. \A j \in 1 .. Len(s) + 1 - p : SubSeq(s, p, Len(s))[j] = s[p + j - 1]
        BY <1>0
  <2> QED BY <2>1, <2>2, <2>3
<1>3. PICK m \in Seq(S) : m = <<e>> /\ Len(m) = 1 /\ m[1] = e
  <2>1. <<e>> \in Seq(S) /\ Len(<<e>>) = 1 /\ <<e>>[1] = e
        OBVIOUS
  <2> QED BY <2>1
<1>4. PICK c \in Seq(S) : c = a \o m
      BY ConcatFacts
<1>5. Len(c) = p /\ (\A j \in 1 .. p - 1 : c[j] = s[j]) /\ c[p] = e
  <2>1. Len(c) = Len(a) + 1
        BY <1>3, <1>4, ConcatFacts
  <2>2. \A j \in 1 .. Len(a) : c[j] = a[j]
        BY <1>4, ConcatFacts
  <2>3. c[Len(a) + 1] = e
        BY <1>3, <1>4, ConcatFacts
  <2> QED BY <1>0, <1>1, <2>1, <2>2, <2>3
<1>6. InsertAt(s, p, e) = c \o b
      BY <1>1, <1>2, <1>3, <1>4 DEF InsertAt
<1>7. c \o b \in Seq(S) /\ Len(c \o b) = Len(s) + 1
  <2>1. c \o b \in Seq(S) /\ Len(c \o b) = Len(c) + Len(b)
        BY ConcatFacts
  <2> QED BY <1>0, <1>2, <1>5, <2>1
<1>8. \A j \in 1 .. p : (c \o b)[j] = c[j]
      BY <1>5, ConcatFacts
<1>9. ASSUME NEW j \in 1 .. Len(s) + 1, p < j PROVE (c \o b)[j] = s[j - 1]
  <2>1. \A k \in 1 .. Len(b) : (c \o b)[p + k] = b[k]
        BY <1>5, ConcatFacts
  <2>2. j - p \in 1 .. Len(b) /\ j - p \in 1 .. Len(s) + 1 - p
        BY <1>0, <1>2, <1>9
  <2>3. (c \o b)[p + (j - p)] = s[p + (j - p) - 1]
        BY <1>2, <2>1, <2>2
  <2>4. p + (j - p) = j /\ p + (j - p) - 1 = j - 1
        BY <1>0
  <2> QED BY <2>3, <2>4
<1>10. \A j \in 1 .. Len(s) + 1 :
          (c \o b)[j] = IF j < p THEN s[j] ELSE IF j = p THEN e ELSE s[j - 1]
  <2> TAKE j \in 1 .. Len(s) + 1
  <2>1. CASE j < p
    <3>1. j \in 1 .. p /\ j \in 1 .. p - 1
          BY <1>0, <2>1
    <3> QED BY <1>5, <1>8, <2>1, <3>1
  <2>2. CASE j = p
    <3>1. j \in 1 .. p
          BY <1>0, <2>2
    <3> QED BY <1>0, <1>5, <1>8, <2>2, <3>1
  <2>3. CASE p < j
    <3>1. (c \o b)[j] = s[j - 1]
          BY <1>9, <2>3
    <3>2. ~(j < p) /\ j # p
          BY <1>0, <2>3
    <3> QED BY <3>1, <3>2
  <2>4. j < p \/ j = p \/ p < j
        BY <1>0
  <2> QED BY <2>1, <2>2, <2>3, <2>4
<1> QED BY <1>6, <1>7, <1>10

ByTime(table) == \A i, j \in DOMAIN table : i < j => table[i].time <= table[j].time

TableOK(table, Row, t) ==
    /\ table \in Seq(Row) /\ ByTime(table)
    /\ \A i \in DOMAIN table : table[i].time <= t

\* Two states of a table have the same rows of before t, in the same places.
SameRows(x, y, t) ==
    /\ {i \in DOMAIN x : x[i].time < t} = {i \in DOMAIN y : y[i].time < t}
    /\ \A i \in DOMAIN x : x[i].time < t => x[i] = y[i]

LEMMA InsertKeepsTable ==
    ASSUME NEW Row, \A r \in Row : r.time \in Nat, NEW t \in Nat,
           NEW x, TableOK(x, Row, t), NEW r \in Row, r.time <= t,
           NEW p \in 1 .. Len(x) + 1, PlaceOf(x, r.time, p)
    PROVE  TableOK(InsertAt(x, p, r), Row, t)
<1> DEFINE y == InsertAt(x, p, r)
<1>0. x \in Seq(Row)
      BY DEF TableOK
<1>1. /\ y \in Seq(Row) /\ DOMAIN y = 1 .. Len(x) + 1 /\ DOMAIN x = 1 .. Len(x)
      /\ Len(x) \in Nat
      /\ \A j \in 1 .. Len(x) + 1 :
             y[j] = IF j < p THEN x[j] ELSE IF j = p THEN r ELSE x[j - 1]
  <2>1. /\ y \in Seq(Row) /\ Len(y) = Len(x) + 1
        /\ \A j \in 1 .. Len(x) + 1 :
               y[j] = IF j < p THEN x[j] ELSE IF j = p THEN r ELSE x[j - 1]
        BY <1>0, InsertAtFacts
  <2> HIDE DEF y
  <2> QED BY <1>0, <2>1
<1> HIDE DEF y
<1>2. /\ r.time \in Nat
      /\ \A i \in 1 .. Len(x) : x[i] \in Row /\ x[i].time \in Nat /\ x[i].time <= t
      BY <1>0, <1>1 DEF TableOK
<1>3. /\ \A i \in 1 .. p - 1 : x[i].time <= r.time
      /\ \A i \in p .. Len(x) : r.time <= x[i].time
      BY DEF PlaceOf
<1>4. \A i, j \in 1 .. Len(x) : i < j => x[i].time <= x[j].time
      BY <1>1 DEF TableOK, ByTime
<1>5. \A j \in DOMAIN y : \/ j < p /\ j \in 1 .. p - 1 /\ j \in 1 .. Len(x) /\ y[j] = x[j]
                          \/ j = p /\ y[j] = r
                          \/ j > p /\ j - 1 \in p .. Len(x) /\ j - 1 \in 1 .. Len(x) /\ y[j] = x[j - 1]
      BY <1>1
<1>6. \A i \in DOMAIN y : y[i].time \in Nat /\ y[i].time <= t
      BY <1>2, <1>5
<1>7. ByTime(y)
  <2> SUFFICES ASSUME NEW i \in DOMAIN y, NEW j \in DOMAIN y, i < j
               PROVE  y[i].time <= y[j].time
      BY DEF ByTime
  <2>0. i \in Nat /\ j \in Nat /\ p \in Nat
        BY <1>1
  <2>1. CASE i < p /\ j < p
        BY <1>4, <1>5, <2>0, <2>1
  <2>2. CASE i < p /\ j = p
        BY <1>3, <1>5, <2>0, <2>2
  <2>3. CASE i < p /\ j > p
    <3>1. /\ i \in 1 .. p - 1 /\ y[i] = x[i] /\ i \in 1 .. Len(x)
          /\ j - 1 \in p .. Len(x) /\ y[j] = x[j - 1] /\ j - 1 \in 1 .. Len(x)
          BY <1>5, <2>0, <2>3
    <3>2. i < j - 1
          BY <2>0, <2>3
    <3> QED BY <1>4, <3>1, <3>2
  <2>4. CASE i = p /\ j > p
    <3>1. y[i] = r
          BY <1>1, <2>0, <2>4
    <3>2. j - 1 \in p .. Len(x) /\ y[j] = x[j - 1]
          BY <1>5, <2>0, <2>4
    <3>3. r.time <= x[j - 1].time
          BY <1>3, <3>2
    <3> QED BY <3>1, <3>2, <3>3
  <2>5. CASE i > p /\ j > p
    <3>1. /\ i - 1 \in 1 .. Len(x) /\ y[i] = x[i - 1]
          /\ j - 1 \in 1 .. Len(x) /\ y[j] = x[j - 1]
          BY <1>5, <2>0, <2>5
    <3>2. i - 1 < j - 1
          BY <2>0
    <3> QED BY <1>4, <3>1, <3>2
  <2> QED BY <2>0, <2>1, <2>2, <2>3, <2>4, <2>5
<1> QED BY <1>1, <1>6, <1>7 DEF TableOK, y

-----------------------------------------------------------------------------
(* What is stored.                                                          *)

SameHistory(x, y, t) == SameRows(x.loans, y.loans, t) /\ SameRows(x.stakes, y.stakes, t)

\* The rows have the types of the two tables, are in the order of their block
\* time, and none is of the future.
RowsOK ==
    /\ now \in Nat
    /\ rows \in [loans : Seq(Transaction), stakes : Seq(StakingEvent)]
    /\ TableOK(rows.loans, Transaction, now)
    /\ TableOK(rows.stakes, StakingEvent, now)

LEMMA RowTimes ==
    (\A r \in Transaction : r.time \in Nat) /\ (\A r \in StakingEvent : r.time \in Nat)
BY DEF Transaction, StakingEvent

LEMMA SameRowsReflexive ==
    ASSUME NEW x, NEW t
    PROVE  SameRows(x, x, t)
BY DEF SameRows

\* The same settled rows are the same rows in the same places.
LEMMA SettledIsSame ==
    ASSUME NEW x, NEW y, NEW t, Settled(x, t) = Settled(y, t)
    PROVE  SameHistory(x, y, t)
<1>1. ASSUME NEW a, NEW b, RowsBefore(a, t) = RowsBefore(b, t) PROVE SameRows(a, b, t)
  <2> DEFINE A == {i \in DOMAIN a : a[i].time < t}
             B == {i \in DOMAIN b : b[i].time < t}
  <2>1. RowsBefore(a, t) = [i \in A |-> a[i]] /\ RowsBefore(b, t) = [i \in B |-> b[i]]
        BY DEF RowsBefore, Restrict
  <2>2. DOMAIN RowsBefore(a, t) = A /\ DOMAIN RowsBefore(b, t) = B
        BY <2>1
  <2>3. A = B
        BY <1>1, <2>2
  <2>4. \A i \in A : RowsBefore(a, t)[i] = a[i] /\ RowsBefore(b, t)[i] = b[i]
        BY <2>1, <2>3
  <2>5. \A i \in A : a[i] = b[i]
        BY <1>1, <2>4
  <2> QED BY <2>3, <2>5 DEF SameRows
<1>2. /\ RowsBefore(x.loans, t) = RowsBefore(y.loans, t)
      /\ RowsBefore(x.stakes, t) = RowsBefore(y.stakes, t)
      BY DEF Settled
<1> QED BY <1>1, <1>2 DEF SameHistory

LEMMA SumOverTableIsInt ==
    ASSUME NEW S, NEW table \in Seq(S), NEW D \in SUBSET DOMAIN table, NEW f,
           DOMAIN f = D, \A i \in D : f[i] \in Int
    PROVE  SumFunction(f) \in Int
<1>1. IsFiniteSet(DOMAIN table)
  <2>1. DOMAIN table = 1 .. Len(table) /\ Len(table) \in Int
        OBVIOUS
  <2> QED BY <2>1, FS_Interval
<1>2. IsFiniteSet(D)
      BY <1>1, FS_Subset
<1> QED BY <1>2, SumFunctionIsInt DEF Integers

LEMMA DeltasAreInts ==
    /\ \A r \in Transaction : LendingDelta(r) \in Int /\ BorrowingDelta(r) \in Int
    /\ \A r \in StakingEvent : StakingDelta(r) \in Int
BY DEF Transaction, StakingEvent, LendingDelta, BorrowingDelta, StakingDelta

LEMMA StakedIsInt ==
    ASSUME RowsOK
    PROVE  Staked \in Int
<1> DEFINE D == {j \in DOMAIN rows.stakes : AllRows(rows.stakes[j])}
           f == [i \in D |-> StakingDelta(rows.stakes[i])]
<1>1. rows.stakes \in Seq(StakingEvent)
      BY DEF RowsOK
<1>2. \A i \in D : f[i] \in Int
      BY <1>1, DeltasAreInts
<1>3. D \in SUBSET DOMAIN rows.stakes /\ DOMAIN f = D
      OBVIOUS
<1>4. Staked = SumFunction(f)
      BY DEF Staked, SumIf
<1> HIDE DEF f, D
<1> QED BY <1>1, <1>2, <1>3, <1>4, SumOverTableIsInt

LEMMA StoreLoanKeeps ==
    ASSUME RowsOK,
           NEW event \in {"Deposit", "Withdraw", "Borrow", "Repay"},
           NEW token \in {"USDC", "other"}, NEW amount \in Nat \ {0},
           StoreLoan(event, token, amount)
    PROVE  RowsOK'
<1>1. PICK t \in Times, p \in 1 .. Len(rows.loans) + 1 :
          /\ t <= now /\ PlaceOf(rows.loans, t, p)
          /\ rows' = [rows EXCEPT !.loans =
                         InsertAt(@, p, [event |-> event, token |-> token,
                                         amount |-> amount, time |-> t])]
      BY DEF StoreLoan
<1> DEFINE r == [event |-> event, token |-> token, amount |-> amount, time |-> t]
<1>2. r \in Transaction /\ r.time = t
      BY PointsAssumption DEF Transaction
<1>3. /\ now \in Nat /\ rows \in [loans : Seq(Transaction), stakes : Seq(StakingEvent)]
      /\ TableOK(rows.loans, Transaction, now) /\ TableOK(rows.stakes, StakingEvent, now)
      BY DEF RowsOK
<1>4. now' = now /\ rows' = [rows EXCEPT !.loans = InsertAt(@, p, r)]
      BY <1>1 DEF StoreLoan
<1> HIDE DEF r
<1>5. rows'.loans = InsertAt(rows.loans, p, r) /\ rows'.stakes = rows.stakes
      BY <1>3, <1>4
<1>6. TableOK(rows'.loans, Transaction, now)
      BY <1>1, <1>2, <1>3, <1>5, RowTimes, InsertKeepsTable
<1>7. rows' \in [loans : Seq(Transaction), stakes : Seq(StakingEvent)]
  <2>1. rows'.loans \in Seq(Transaction)
        BY <1>6 DEF TableOK
  <2> QED BY <1>3, <1>4, <2>1
<1> QED BY <1>3, <1>4, <1>5, <1>6, <1>7 DEF RowsOK

LEMMA StoreStakeKeeps ==
    ASSUME RowsOK,
           NEW event \in {"STAKE", "UNSTAKE"}, NEW amount \in Nat \ {0}, NEW lock \in Nat,
           StoreStake(event, amount, lock)
    PROVE  RowsOK'
<1>1. PICK t \in Times, p \in 1 .. Len(rows.stakes) + 1 :
          /\ t <= now /\ PlaceOf(rows.stakes, t, p)
          /\ rows' = [rows EXCEPT !.stakes =
                         InsertAt(@, p, [event |-> event, amount |-> amount,
                                         lock |-> lock, time |-> t])]
      BY DEF StoreStake
<1> DEFINE r == [event |-> event, amount |-> amount, lock |-> lock, time |-> t]
<1>2. r \in StakingEvent /\ r.time = t
      BY PointsAssumption DEF StakingEvent
<1>3. /\ now \in Nat /\ rows \in [loans : Seq(Transaction), stakes : Seq(StakingEvent)]
      /\ TableOK(rows.loans, Transaction, now) /\ TableOK(rows.stakes, StakingEvent, now)
      BY DEF RowsOK
<1>4. now' = now /\ rows' = [rows EXCEPT !.stakes = InsertAt(@, p, r)]
      BY <1>1 DEF StoreStake
<1> HIDE DEF r
<1>5. rows'.stakes = InsertAt(rows.stakes, p, r) /\ rows'.loans = rows.loans
      BY <1>3, <1>4
<1>6. TableOK(rows'.stakes, StakingEvent, now)
      BY <1>1, <1>2, <1>3, <1>5, RowTimes, InsertKeepsTable
<1>7. rows' \in [loans : Seq(Transaction), stakes : Seq(StakingEvent)]
  <2>1. rows'.stakes \in Seq(StakingEvent)
        BY <1>6 DEF TableOK
  <2> QED BY <1>3, <1>4, <2>1
<1> QED BY <1>3, <1>4, <1>5, <1>6, <1>7 DEF RowsOK

\* Time does not run back.
LEMMA StepKeeps ==
    ASSUME RowsOK, [PointsNext]_pointsVars
    PROVE  RowsOK' /\ now <= now'
<1> USE PointsAssumption
<1>0. now \in Nat
      BY DEF RowsOK
<1>1. ASSUME TimePasses PROVE RowsOK' /\ now <= now'
  <2>1. now' \in Nat /\ now < now' /\ rows' = rows
        BY <1>1 DEF TimePasses
  <2>2. ASSUME NEW Row, \A r \in Row : r.time \in Nat, NEW x, TableOK(x, Row, now)
        PROVE  TableOK(x, Row, now')
    <3>1. x \in Seq(Row) /\ ByTime(x) /\ \A i \in DOMAIN x : x[i] \in Row /\ x[i].time <= now
          BY <2>2 DEF TableOK
    <3>2. \A i \in DOMAIN x : x[i].time <= now'
          BY <1>0, <2>1, <2>2, <3>1
    <3> QED BY <3>1, <3>2 DEF TableOK
  <2> QED BY <1>0, <2>1, <2>2, RowTimes DEF RowsOK
<1>2. ASSUME NEW event, NEW token, NEW amount, StoreLoan(event, token, amount) PROVE now <= now'
      BY <1>0, <1>2 DEF StoreLoan
<1>3. ASSUME NEW event, NEW amount, NEW lock, StoreStake(event, amount, lock) PROVE now <= now'
      BY <1>0, <1>3 DEF StoreStake
<1>4. ASSUME Deposit PROVE RowsOK' /\ now <= now'
      BY <1>2, <1>4, StoreLoanKeeps DEF Deposit
<1>5. ASSUME DepositCollateral PROVE RowsOK' /\ now <= now'
      BY <1>2, <1>5, StoreLoanKeeps DEF DepositCollateral
<1>6. ASSUME Withdraw PROVE RowsOK' /\ now <= now'
      BY <1>2, <1>6, StoreLoanKeeps DEF Withdraw
<1>7. ASSUME Borrow PROVE RowsOK' /\ now <= now'
      BY <1>2, <1>7, StoreLoanKeeps DEF Borrow
<1>8. ASSUME Repay PROVE RowsOK' /\ now <= now'
  <2>1. PICK a \in Amounts : StoreLoan("Repay", "USDC", a + Interest)
        BY <1>8 DEF Repay
  <2>2. a + Interest \in Nat \ {0}
        OBVIOUS
  <2> QED BY <1>2, <2>1, <2>2, StoreLoanKeeps
<1>9. ASSUME Stake PROVE RowsOK' /\ now <= now'
  <2>1. PICK a \in StakeAmounts, lock \in Locks : StoreStake("STAKE", a, lock)
        BY <1>9 DEF Stake
  <2>2. a \in Nat \ {0} /\ lock \in Nat
        OBVIOUS
  <2> QED BY <1>3, <2>1, <2>2, StoreStakeKeeps
<1>10. ASSUME Unstake PROVE RowsOK' /\ now <= now'
  <2>1. PICK a \in StakeAmounts : StoreStake("UNSTAKE", a, 0)
        BY <1>10 DEF Unstake
  <2>2. a \in Nat \ {0}
        OBVIOUS
  <2> QED BY <1>3, <2>1, <2>2, StoreStakeKeeps
<1>11. ASSUME UNCHANGED pointsVars PROVE RowsOK' /\ now <= now'
       BY <1>0, <1>11 DEF pointsVars, RowsOK
<1> QED BY <1>1, <1>4, <1>5, <1>6, <1>7, <1>8, <1>9, <1>10, <1>11 DEF PointsNext

\* Wherever late rows fall, the tables keep their types and their order.
LEMMA RowsCorrect == PointsSpec => []RowsOK
<1>1. PointsInit => RowsOK
  <2> SUFFICES ASSUME PointsInit PROVE RowsOK
      OBVIOUS
  <2>1. rows.loans = <<>> /\ rows.stakes = <<>> /\ now = 0
        BY DEF PointsInit
  <2>2. rows \in [loans : Seq(Transaction), stakes : Seq(StakingEvent)]
        BY DEF PointsInit
  <2> QED BY <2>1, <2>2 DEF RowsOK, TableOK, ByTime
<1>2. RowsOK /\ [PointsNext]_pointsVars => RowsOK'
      BY StepKeeps
<1> QED BY <1>1, <1>2, PTL DEF PointsSpec

-----------------------------------------------------------------------------
(* The timeline.                                                            *)

\* A non-empty set of numbers has a least one, and Min names it.
LEMMA MinIsLeast ==
    ASSUME NEW K \in SUBSET Nat, K # {}
    PROVE  Min(K) \in K /\ \A n \in K : Min(K) <= n
<1> DEFINE R == OpToRel(<, Nat)
<1>1. \E m \in K : \A n \in K : ~(<<n, m>> \in R)
  <2> HIDE DEF R
  <2>1. IsWellFoundedOn(R, Nat)
        BY NatLessThanWellFounded DEF R
  <2> QED BY <2>1, WFMin
<1>2. \A m, n \in Nat : n < m => <<n, m>> \in R
      BY DEF OpToRel
<1> HIDE DEF R
<1>3. PICK m \in K : \A n \in K : ~(<<n, m>> \in R)
      BY <1>1
<1>4. \A n \in K : m <= n
  <2> TAKE n \in K
  <2>1. m \in Nat /\ n \in Nat
        OBVIOUS
  <2>2. ~(n < m)
        BY <1>2, <1>3, <2>1
  <2> QED BY <2>1, <2>2
<1> QED BY <1>4 DEF Min

LEMMA MinOfTwo ==
    ASSUME NEW a \in Int, NEW b \in Int
    PROVE  Min({a, b}) = IF a <= b THEN a ELSE b
<1>1. \E x \in {a, b} : \A y \in {a, b} : x <= y
      OBVIOUS
<1> DEFINE m == Min({a, b})
<1>2. m \in {a, b} /\ \A y \in {a, b} : m <= y
      BY <1>1 DEF Min
<1> HIDE DEF m
<1>3. m = IF a <= b THEN a ELSE b
      BY <1>2
<1> QED BY <1>3 DEF m

LEMMA ClampedFacts ==
    ASSUME NEW n \in Int
    PROVE  Clamped(n) \in Nat /\ (n >= 0 => Clamped(n) = n)
<1> DEFINE m == Max({n, 0})
<1>1. \E x \in {n, 0} : \A y \in {n, 0} : x >= y
      OBVIOUS
<1>2. m \in {n, 0} /\ \A y \in {n, 0} : m >= y
      BY <1>1 DEF Max
<1> HIDE DEF m
<1>3. m \in Nat /\ (n >= 0 => m = n)
      BY <1>2
<1> QED BY <1>3 DEF m, Clamped

LEMMA EffectiveEndFacts ==
    ASSUME NEW t \in Nat
    PROVE  /\ EffectiveEnd(t) = (IF t <= ProgramEnd THEN t ELSE ProgramEnd)
           /\ EffectiveEnd(t) \in Nat
BY PointsAssumption, MinOfTwo DEF EffectiveEnd

HistoryOK(hist) == hist.loans \in Seq(Transaction) /\ hist.stakes \in Seq(StakingEvent)

EntryTypes == {"INITIAL", "LOCK_EXPIRY", "STAKING", "TRANSACTION"}

EntryOK(e) ==
    /\ e.at \in Nat /\ e.src \in Nat /\ e.type \in EntryTypes
    /\ e.lending \in Int /\ e.borrowing \in Int /\ e.staking \in Int

\* The entry made of row i, by table and purpose.
TransactionEntry(hist, i) ==
    [at |-> hist.loans[i].time, type |-> "TRANSACTION", src |-> i,
     lending |-> LendingDelta(hist.loans[i]), borrowing |-> BorrowingDelta(hist.loans[i]),
     staking |-> 0, lock |-> Null, start |-> Null]

StakingEntry(hist, i) ==
    [at |-> hist.stakes[i].time, type |-> "STAKING", src |-> i, lending |-> 0, borrowing |-> 0,
     staking |-> StakingDelta(hist.stakes[i]),
     lock |-> IF IsStake(hist.stakes[i]) THEN hist.stakes[i].lock ELSE Null,
     start |-> IF IsStake(hist.stakes[i]) THEN hist.stakes[i].time ELSE Null]

ExpiryEntry(hist, i) ==
    [at |-> ExpiryAt(hist.stakes[i]), type |-> "LOCK_EXPIRY", src |-> i, lending |-> 0,
     borrowing |-> 0, staking |-> 0, lock |-> 0, start |-> hist.stakes[i].time]

TransactionRows(hist) ==
    {j \in DOMAIN hist.loans : hist.loans[j].token = "USDC" /\ InProgram(hist.loans[j])}

StakingRows(hist) == {j \in DOMAIN hist.stakes : InProgram(hist.stakes[j])}

ExpiryRows(hist, t) ==
    {j \in DOMAIN hist.stakes : /\ LockedStake(hist.stakes[j])
                                /\ ProgramStart <= ExpiryAt(hist.stakes[j])
                                /\ ExpiryAt(hist.stakes[j]) < EffectiveEnd(t)}

LEMMA EntriesByRow ==
    ASSUME NEW hist, NEW t
    PROVE  /\ TransactionEntries(hist) = {TransactionEntry(hist, i) : i \in TransactionRows(hist)}
           /\ StakingEntries(hist) = {StakingEntry(hist, i) : i \in StakingRows(hist)}
           /\ ExpiryEntries(hist, t) = {ExpiryEntry(hist, i) : i \in ExpiryRows(hist, t)}
BY DEF TransactionEntries, TransactionEntry, TransactionRows, StakingEntries, StakingEntry,
       StakingRows, ExpiryEntries, ExpiryEntry, ExpiryRows

LEMMA TimelineFinite ==
    ASSUME NEW hist, HistoryOK(hist), NEW t
    PROVE  IsFiniteSet(Timeline(hist, t))
<1>1. IsFiniteSet(DOMAIN hist.loans) /\ IsFiniteSet(DOMAIN hist.stakes)
  <2>1. /\ DOMAIN hist.loans = 1 .. Len(hist.loans) /\ Len(hist.loans) \in Int
        /\ DOMAIN hist.stakes = 1 .. Len(hist.stakes) /\ Len(hist.stakes) \in Int
        BY DEF HistoryOK
  <2> QED BY <2>1, FS_Interval
<1>2. IsFiniteSet(TransactionEntries(hist))
  <2> DEFINE f == [i \in TransactionRows(hist) |-> TransactionEntry(hist, i)]
  <2>1. IsFiniteSet(TransactionRows(hist))
        BY <1>1, FS_Subset DEF TransactionRows
  <2>2. \A i \in TransactionRows(hist) : f[i] = TransactionEntry(hist, i)
        OBVIOUS
  <2> HIDE DEF f
  <2>3. TransactionEntries(hist) = {f[i] : i \in TransactionRows(hist)}
    <3>1. TransactionEntries(hist) = {TransactionEntry(hist, i) : i \in TransactionRows(hist)}
          BY EntriesByRow
    <3> QED BY <2>2, <3>1
  <2> QED BY <2>1, <2>3, ImageFinite
<1>3. IsFiniteSet(StakingEntries(hist))
  <2> DEFINE f == [i \in StakingRows(hist) |-> StakingEntry(hist, i)]
  <2>1. IsFiniteSet(StakingRows(hist))
        BY <1>1, FS_Subset DEF StakingRows
  <2>2. \A i \in StakingRows(hist) : f[i] = StakingEntry(hist, i)
        OBVIOUS
  <2> HIDE DEF f
  <2>3. StakingEntries(hist) = {f[i] : i \in StakingRows(hist)}
        BY <2>2, EntriesByRow
  <2> QED BY <2>1, <2>3, ImageFinite
<1>4. IsFiniteSet(ExpiryEntries(hist, t))
  <2> DEFINE f == [i \in ExpiryRows(hist, t) |-> ExpiryEntry(hist, i)]
  <2>1. IsFiniteSet(ExpiryRows(hist, t))
        BY <1>1, FS_Subset DEF ExpiryRows
  <2>2. \A i \in ExpiryRows(hist, t) : f[i] = ExpiryEntry(hist, i)
        OBVIOUS
  <2> HIDE DEF f
  <2>3. ExpiryEntries(hist, t) = {f[i] : i \in ExpiryRows(hist, t)}
        BY <2>2, EntriesByRow
  <2> QED BY <2>1, <2>3, ImageFinite
<1>5. IsFiniteSet({InitialEntry(hist)})
      BY FS_Singleton
<1> QED BY <1>2, <1>3, <1>4, <1>5, FS_Union DEF Timeline

\* The four kinds of entry; an entry is known by its type and its row.
LEMMA InitialEntryFacts ==
    ASSUME NEW hist, HistoryOK(hist)
    PROVE  /\ InitialEntry(hist).at = ProgramStart /\ InitialEntry(hist).type = "INITIAL"
           /\ InitialEntry(hist).src = 0 /\ EntryOK(InitialEntry(hist))
<1> DEFINE old(r) == r.time < ProgramStart
           L == {j \in DOMAIN hist.loans : old(hist.loans[j])}
           S == {j \in DOMAIN hist.stakes : old(hist.stakes[j])}
           l == [i \in L |-> LendingDelta(hist.loans[i])]
           b == [i \in L |-> BorrowingDelta(hist.loans[i])]
           s == [i \in S |-> StakingDelta(hist.stakes[i])]
<1>1. /\ InitialEntry(hist).at = ProgramStart /\ InitialEntry(hist).type = "INITIAL"
      /\ InitialEntry(hist).src = 0
      /\ InitialEntry(hist).lending = SumFunction(l)
      /\ InitialEntry(hist).borrowing = SumFunction(b)
      /\ InitialEntry(hist).staking = SumFunction(s)
      BY DEF InitialEntry, SumIf
<1>2. /\ hist.loans \in Seq(Transaction) /\ hist.stakes \in Seq(StakingEvent)
      /\ L \in SUBSET DOMAIN hist.loans /\ S \in SUBSET DOMAIN hist.stakes
      /\ DOMAIN l = L /\ DOMAIN b = L /\ DOMAIN s = S
      BY DEF HistoryOK
<1>3. /\ \A i \in L : l[i] \in Int /\ b[i] \in Int
      /\ \A i \in S : s[i] \in Int
      BY <1>2, DeltasAreInts
<1> HIDE DEF L, S, l, b, s
<1>4. SumFunction(l) \in Int /\ SumFunction(b) \in Int /\ SumFunction(s) \in Int
      BY <1>2, <1>3, SumOverTableIsInt
<1> QED BY <1>1, <1>4, PointsAssumption DEF EntryOK, EntryTypes

LEMMA TransactionEntryFacts ==
    ASSUME NEW hist, HistoryOK(hist), NEW i \in TransactionRows(hist)
    PROVE  /\ TransactionEntry(hist, i).type = "TRANSACTION" /\ TransactionEntry(hist, i).src = i
           /\ ProgramStart <= TransactionEntry(hist, i).at
           /\ TransactionEntry(hist, i).at < ProgramEnd
           /\ EntryOK(TransactionEntry(hist, i))
<1>1. /\ i \in DOMAIN hist.loans /\ i \in Nat /\ hist.loans[i] \in Transaction
      /\ InProgram(hist.loans[i])
      BY DEF HistoryOK, TransactionRows
<1>2. hist.loans[i].time \in Nat
      BY <1>1, RowTimes
<1> QED BY <1>1, <1>2, DeltasAreInts DEF TransactionEntry, EntryOK, EntryTypes, InProgram

LEMMA StakingEntryFacts ==
    ASSUME NEW hist, HistoryOK(hist), NEW i \in StakingRows(hist)
    PROVE  /\ StakingEntry(hist, i).type = "STAKING" /\ StakingEntry(hist, i).src = i
           /\ ProgramStart <= StakingEntry(hist, i).at
           /\ StakingEntry(hist, i).at < ProgramEnd
           /\ EntryOK(StakingEntry(hist, i))
<1>1. /\ i \in DOMAIN hist.stakes /\ i \in Nat /\ hist.stakes[i] \in StakingEvent
      /\ InProgram(hist.stakes[i])
      BY DEF HistoryOK, StakingRows
<1>2. hist.stakes[i].time \in Nat
      BY <1>1, RowTimes
<1> QED BY <1>1, <1>2, DeltasAreInts DEF StakingEntry, EntryOK, EntryTypes, InProgram

LEMMA ExpiryEntryFacts ==
    ASSUME NEW hist, HistoryOK(hist), NEW t \in Nat, NEW i \in ExpiryRows(hist, t)
    PROVE  /\ ExpiryEntry(hist, i).type = "LOCK_EXPIRY" /\ ExpiryEntry(hist, i).src = i
           /\ ProgramStart <= ExpiryEntry(hist, i).at
           /\ ExpiryEntry(hist, i).at < EffectiveEnd(t)
           /\ EntryOK(ExpiryEntry(hist, i))
<1>1. /\ i \in DOMAIN hist.stakes /\ i \in Nat /\ hist.stakes[i] \in StakingEvent
      /\ ProgramStart <= ExpiryAt(hist.stakes[i]) /\ ExpiryAt(hist.stakes[i]) < EffectiveEnd(t)
      BY DEF HistoryOK, ExpiryRows
<1>2. ExpiryAt(hist.stakes[i]) \in Nat
      BY <1>1 DEF ExpiryAt, StakingEvent
<1> QED BY <1>1, <1>2 DEF ExpiryEntry, EntryOK, EntryTypes

LEMMA EntryKinds ==
    ASSUME NEW hist, NEW t, NEW e \in Timeline(hist, t)
    PROVE  \/ e = InitialEntry(hist)
           \/ \E i \in TransactionRows(hist) : e = TransactionEntry(hist, i)
           \/ \E i \in StakingRows(hist) : e = StakingEntry(hist, i)
           \/ \E i \in ExpiryRows(hist, t) : e = ExpiryEntry(hist, i)
<1>1. \/ e = InitialEntry(hist) \/ e \in TransactionEntries(hist)
      \/ e \in StakingEntries(hist) \/ e \in ExpiryEntries(hist, t)
      BY DEF Timeline
<1>2. TransactionEntries(hist) = {TransactionEntry(hist, i) : i \in TransactionRows(hist)}
      BY EntriesByRow
<1>3. StakingEntries(hist) = {StakingEntry(hist, i) : i \in StakingRows(hist)}
      BY EntriesByRow
<1>4. ExpiryEntries(hist, t) = {ExpiryEntry(hist, i) : i \in ExpiryRows(hist, t)}
      BY EntriesByRow
<1> QED BY <1>1, <1>2, <1>3, <1>4

LEMMA EntriesTyped ==
    ASSUME NEW hist, HistoryOK(hist), NEW t \in Nat, NEW e \in Timeline(hist, t)
    PROVE  EntryOK(e) /\ ProgramStart <= e.at /\ e.at < ProgramEnd
<1>0. ProgramStart \in Nat /\ ProgramEnd \in Nat /\ ProgramStart < ProgramEnd
      BY PointsAssumption
<1>1. CASE e = InitialEntry(hist)
      BY <1>0, <1>1, InitialEntryFacts
<1>2. CASE \E i \in TransactionRows(hist) : e = TransactionEntry(hist, i)
      BY <1>2, TransactionEntryFacts
<1>3. CASE \E i \in StakingRows(hist) : e = StakingEntry(hist, i)
      BY <1>3, StakingEntryFacts
<1>4. CASE \E i \in ExpiryRows(hist, t) : e = ExpiryEntry(hist, i)
  <2>1. EntryOK(e) /\ ProgramStart <= e.at /\ e.at < EffectiveEnd(t)
        BY <1>4, ExpiryEntryFacts
  <2> QED BY <1>0, <2>1, EffectiveEndFacts DEF EntryOK
<1> QED BY <1>1, <1>2, <1>3, <1>4, EntryKinds

\* What a type says of the entry.
LEMMA KindOfType ==
    ASSUME NEW hist, HistoryOK(hist), NEW t \in Nat, NEW e \in Timeline(hist, t)
    PROVE  /\ e.type = "INITIAL" => e = InitialEntry(hist)
           /\ e.type = "TRANSACTION" => e = TransactionEntry(hist, e.src)
           /\ e.type = "STAKING" => e = StakingEntry(hist, e.src)
           /\ e.type = "LOCK_EXPIRY" => e = ExpiryEntry(hist, e.src)
<1>1. CASE e = InitialEntry(hist)
      BY <1>1, InitialEntryFacts
<1>2. CASE \E i \in TransactionRows(hist) : e = TransactionEntry(hist, i)
      BY <1>2, TransactionEntryFacts
<1>3. CASE \E i \in StakingRows(hist) : e = StakingEntry(hist, i)
      BY <1>3, StakingEntryFacts
<1>4. CASE \E i \in ExpiryRows(hist, t) : e = ExpiryEntry(hist, i)
      BY <1>4, ExpiryEntryFacts
<1> QED BY <1>1, <1>2, <1>3, <1>4, EntryKinds

LEMMA RankFacts ==
    /\ Rank("INITIAL") = 0 /\ Rank("LOCK_EXPIRY") = 1
    /\ Rank("STAKING") = 2 /\ Rank("TRANSACTION") = 3
BY DEF Rank

\* The ORDER BY of the windows leaves no two entries unordered.
LEMMA EntriesOrdered ==
    ASSUME NEW hist, HistoryOK(hist), NEW t \in Nat,
           NEW e \in Timeline(hist, t), NEW f \in Timeline(hist, t), e # f
    PROVE  Before(e, f) \/ Before(f, e)
<1>1. EntryOK(e) /\ EntryOK(f)
      BY EntriesTyped
<1>2. e.type # f.type \/ e.src # f.src
      BY <1>1, KindOfType DEF EntryOK, EntryTypes
<1>3. e.type # f.type => Rank(e.type) < Rank(f.type) \/ Rank(f.type) < Rank(e.type)
      BY <1>1, RankFacts DEF EntryOK, EntryTypes
<1>4. e.at \in Nat /\ f.at \in Nat /\ e.src \in Nat /\ f.src \in Nat
      BY <1>1 DEF EntryOK
<1> QED BY <1>2, <1>3, <1>4 DEF Before

LEMMA BeforeIsNotLater ==
    ASSUME NEW e, NEW f, EntryOK(e), EntryOK(f), Before(e, f)
    PROVE  e.at <= f.at
BY DEF Before, EntryOK

-----------------------------------------------------------------------------
(* Periods, and what they earn.                                             *)

PeriodOK(p) ==
    /\ p.from \in Nat /\ p.to \in Nat
    /\ p.lending \in Int /\ p.borrowing \in Nat /\ p.staked \in Int
    /\ p.boost \in Nat /\ (p.boost > 0 => p.staked > 0)

LEMMA RunningSumsAreInts ==
    ASSUME NEW hist, HistoryOK(hist), NEW t \in Nat, NEW e
    PROVE  LET line == Timeline(hist, t)
           IN  /\ RunningSum(LAMBDA f : f.lending, line, e) \in Int
               /\ RunningSum(LAMBDA f : f.borrowing, line, e) \in Int
               /\ RunningSum(LAMBDA f : f.staking, line, e) \in Int
<1> DEFINE line == Timeline(hist, t)
           U == UpTo(line, e)
           l == [f \in U |-> f.lending]
           b == [f \in U |-> f.borrowing]
           s == [f \in U |-> f.staking]
<1>1. U \in SUBSET line
      BY DEF UpTo
<1>2. IsFiniteSet(U)
      BY <1>1, TimelineFinite, FS_Subset
<1>3. \A f \in U : EntryOK(f)
      BY <1>1, EntriesTyped
<1>4. Integers(l, U) /\ Integers(b, U) /\ Integers(s, U) /\ DOMAIN l = U /\ DOMAIN b = U /\ DOMAIN s = U
      BY <1>3 DEF Integers, EntryOK
<1>5. /\ RunningSum(LAMBDA f : f.lending, line, e) = SumFunction(l)
      /\ RunningSum(LAMBDA f : f.borrowing, line, e) = SumFunction(b)
      /\ RunningSum(LAMBDA f : f.staking, line, e) = SumFunction(s)
      BY DEF RunningSum
<1> HIDE DEF U, l, b, s
<1>6. SumFunction(l) \in Int /\ SumFunction(b) \in Int /\ SumFunction(s) \in Int
      BY <1>2, <1>4, SumFunctionIsInt
<1> QED BY <1>5, <1>6

LEMMA PeriodEndFacts ==
    ASSUME NEW hist, HistoryOK(hist), NEW s \in Nat, NEW t \in Nat, NEW e
    PROVE  LET line == Timeline(hist, s)
           IN  /\ PeriodEnd(line, e, t) \in Nat
               /\ PeriodEnd(line, e, t) <= EffectiveEnd(t)
               /\ \A f \in line : Before(e, f) => PeriodEnd(line, e, t) <= f.at
               /\ \/ PeriodEnd(line, e, t) = EffectiveEnd(t)
                  \/ \E f \in line : Before(e, f) /\ PeriodEnd(line, e, t) = f.at
<1> DEFINE line == Timeline(hist, s)
           K == {EffectiveEnd(t)} \cup {f.at : f \in {g \in line : Before(e, g)}}
<1>1. \A f \in line : f.at \in Nat
      BY EntriesTyped DEF EntryOK
<1>2. K \in SUBSET Nat /\ K # {}
      BY <1>1, EffectiveEndFacts
<1>3. PeriodEnd(line, e, t) = Min(K)
      BY DEF PeriodEnd
<1>4. EffectiveEnd(t) \in K /\ \A f \in line : Before(e, f) => f.at \in K
      OBVIOUS
<1>5. \A n \in K : n = EffectiveEnd(t) \/ \E f \in line : Before(e, f) /\ n = f.at
      OBVIOUS
<1> HIDE DEF K, line
<1>6. Min(K) \in K /\ \A n \in K : Min(K) <= n
      BY <1>2, MinIsLeast
<1>7. Min(K) \in Nat
      BY <1>2, <1>6
<1> QED BY <1>3, <1>4, <1>5, <1>6, <1>7 DEF line

LEMMA BoostFacts ==
    ASSUME NEW staked \in Int, NEW lending \in Int, NEW lock, NEW start, NEW at
    PROVE  LET boost == PeriodBoost(staked, lending, lock, start, at)
           IN  boost \in Nat /\ (boost > 0 => staked > 0)
BY DEF PeriodBoost, get_staking_boost_multiplier

LEMMA PeriodsTyped ==
    ASSUME NEW hist, HistoryOK(hist), NEW t \in Nat, NEW e \in Timeline(hist, t)
    PROVE  PeriodOK(Period(Timeline(hist, t), e, t))
<1> DEFINE line == Timeline(hist, t)
           lending == RunningSum(LAMBDA f : f.lending, line, e)
           staked == RunningSum(LAMBDA f : f.staking, line, e)
           lock == LastKnown(LAMBDA f : f.lock, line, e)
           start == LastKnown(LAMBDA f : f.start, line, e)
           boost == PeriodBoost(staked, lending, lock, start, e.at)
<1>1. lending \in Int /\ staked \in Int
      BY RunningSumsAreInts
<1>2. BorrowingBalance(line, e) \in Nat
      BY RunningSumsAreInts, ClampedFacts DEF BorrowingBalance
<1>3. PeriodEnd(line, e, t) \in Nat /\ e.at \in Nat
      BY PeriodEndFacts, EntriesTyped DEF EntryOK
<1>4. Period(line, e, t) =
          [from |-> e.at, to |-> PeriodEnd(line, e, t), lending |-> lending,
           borrowing |-> BorrowingBalance(line, e), staked |-> staked, boost |-> boost]
      BY DEF Period
<1> HIDE DEF lending, staked, lock, start, line
<1>5. boost \in Nat /\ (boost > 0 => staked > 0)
      BY <1>1, BoostFacts
<1> HIDE DEF boost
<1>6. PeriodOK(Period(line, e, t))
      BY <1>1, <1>2, <1>3, <1>4, <1>5 DEF PeriodOK
<1> QED BY <1>6 DEF line

\* A later end of the period earns no less.
LEMMA LongerIsMore ==
    ASSUME NEW a \in Int, NEW b \in Int, NEW c \in Int, NEW r \in Nat, a <= b, b <= c
    PROVE  (b - a) * r \in Nat /\ (b - a) * r <= (c - a) * r
<1> DEFINE x == b - a
           y == c - b
<1>1. x \in Nat /\ y \in Nat /\ c - a = x + y /\ b - a = x
      OBVIOUS
<1> HIDE DEF x, y
<1>2. x * r \in Nat /\ y * r \in Nat /\ (x + y) * r = x * r + y * r
      BY <1>1
<1> QED BY <1>1, <1>2

\* The points of a period per week; both are 0 below the threshold.
LendingRate(p) == 200 * p.lending + 2 * Min({p.staked, p.lending}) * p.boost
BorrowingRate(p) == 100 * p.borrowing + Min({p.staked, p.borrowing}) * p.boost

LEMMA RatesAreNat ==
    ASSUME NEW p, PeriodOK(p), Earns(p)
    PROVE  LendingRate(p) \in Nat /\ BorrowingRate(p) \in Nat
<1> DEFINE m == Min({p.staked, p.lending})
           n == Min({p.staked, p.borrowing})
<1>1. /\ p.lending \in Nat /\ p.borrowing \in Nat /\ p.staked \in Int /\ p.boost \in Nat
      /\ p.boost = 0 \/ p.staked > 0
      BY PointsAssumption DEF PeriodOK, Earns
<1>2. /\ m = (IF p.staked <= p.lending THEN p.staked ELSE p.lending)
      /\ n = (IF p.staked <= p.borrowing THEN p.staked ELSE p.borrowing)
      BY <1>1, MinOfTwo
<1>3. m \in Int /\ n \in Int /\ (p.boost = 0 \/ (m >= 0 /\ n >= 0))
      BY <1>1, <1>2
<1>4. LendingRate(p) = 200 * p.lending + 2 * m * p.boost
      BY DEF LendingRate
<1>5. BorrowingRate(p) = 100 * p.borrowing + n * p.boost
      BY DEF BorrowingRate
<1> HIDE DEF m, n
<1>6. m * p.boost \in Nat /\ n * p.boost \in Nat /\ 2 * m * p.boost \in Nat
  <2>1. CASE p.boost = 0
        BY <1>3, <2>1
  <2>2. CASE p.boost # 0
        BY <1>1, <1>3, <2>2
  <2> QED BY <2>1, <2>2
<1> QED BY <1>1, <1>4, <1>5, <1>6

LEMMA PointsByRate ==
    ASSUME NEW p
    PROVE  /\ LendingPoints(p) = IF Earns(p) THEN (p.to - p.from) * LendingRate(p) ELSE 0
           /\ BorrowingPoints(p) = IF Earns(p) THEN (p.to - p.from) * BorrowingRate(p) ELSE 0
BY DEF LendingPoints, BorrowingPoints, LendingRate, BorrowingRate

\* No part of a period's points is negative.
LEMMA PointsAreNat ==
    ASSUME NEW p, PeriodOK(p), p.from <= p.to
    PROVE  LendingPoints(p) \in Nat /\ BorrowingPoints(p) \in Nat
<1>1. p.from \in Int /\ p.to \in Int
      BY DEF PeriodOK
<1>2. CASE Earns(p)
  <2>1. LendingRate(p) \in Nat /\ BorrowingRate(p) \in Nat
        BY <1>2, RatesAreNat
  <2>2. (p.to - p.from) * LendingRate(p) \in Nat /\ (p.to - p.from) * BorrowingRate(p) \in Nat
        BY <1>1, <2>1, LongerIsMore
  <2> QED BY <1>2, <2>2, PointsByRate
<1>3. CASE ~Earns(p)
      BY <1>3, PointsByRate
<1> QED BY <1>2, <1>3

LEMMA DetailedFacts ==
    ASSUME NEW hist, HistoryOK(hist), NEW t \in Nat
    PROVE  /\ IsFiniteSet(wallet_points_detailed(hist, t))
           /\ \A p \in wallet_points_detailed(hist, t) : PeriodOK(p) /\ p.from < p.to
<1> DEFINE line == Timeline(hist, t)
           f == [e \in line |-> Period(line, e, t)]
<1>1. IsFiniteSet({f[e] : e \in line})
  <2> HIDE DEF f, line
  <2>1. IsFiniteSet(line)
        BY TimelineFinite DEF line
  <2> QED BY <2>1, ImageFinite
<1>2. \A e \in line : PeriodOK(f[e])
      BY PeriodsTyped
<1>3. wallet_points_detailed(hist, t) =
          {p \in {f[e] : e \in line} : p.from < EffectiveEnd(t) /\ p.from < p.to}
  <2>1. \A e \in line : f[e] = Period(line, e, t)
        OBVIOUS
  <2>2. wallet_points_detailed(hist, t) =
            {p \in {Period(line, e, t) : e \in line} : p.from < EffectiveEnd(t) /\ p.from < p.to}
        BY DEF wallet_points_detailed
  <2> HIDE DEF f, line
  <2> QED BY <2>1, <2>2
<1> HIDE DEF f, line
<1>4. wallet_points_detailed(hist, t) \subseteq {f[e] : e \in line}
      BY <1>3
<1>5. IsFiniteSet(wallet_points_detailed(hist, t))
      BY <1>1, <1>4, FS_Subset
<1>6. \A p \in wallet_points_detailed(hist, t) : PeriodOK(p) /\ p.from < p.to
      BY <1>2, <1>3
<1> QED BY <1>5, <1>6

\* The leaderboard's columns are sums of numbers that no clamp changed.
LEMMA ColumnsAdd ==
    ASSUME NEW hist, HistoryOK(hist), NEW t \in Nat
    PROVE  total_points(hist, t) = total_lending_points(hist, t) + total_borrowing_points(hist, t)
<1> DEFINE W == wallet_points_detailed(hist, t)
           h == [p \in W |-> Clamped(total_period_points(p))]
           l == [p \in W |-> Clamped(LendingPoints(p))]
           b == [p \in W |-> Clamped(BorrowingPoints(p))]
<1>1. IsFiniteSet(W) /\ DOMAIN h = W /\ DOMAIN l = W /\ DOMAIN b = W
      BY DetailedFacts
<1>2. ASSUME NEW p \in W
      PROVE  l[p] \in Int /\ b[p] \in Int /\ h[p] = l[p] + b[p]
  <2>1. PeriodOK(p) /\ p.from <= p.to
    <3>1. PeriodOK(p) /\ p.from < p.to
          BY DetailedFacts
    <3> QED BY <3>1 DEF PeriodOK
  <2>2. LendingPoints(p) \in Nat /\ BorrowingPoints(p) \in Nat
        BY <2>1, PointsAreNat
  <2>3. /\ Clamped(LendingPoints(p)) = LendingPoints(p)
        /\ Clamped(BorrowingPoints(p)) = BorrowingPoints(p)
        /\ Clamped(total_period_points(p)) = total_period_points(p)
        BY <2>2, ClampedFacts DEF total_period_points
  <2> QED BY <2>2, <2>3 DEF total_period_points
<1>3. /\ total_points(hist, t) = SumFunction(h)
      /\ total_lending_points(hist, t) = SumFunction(l)
      /\ total_borrowing_points(hist, t) = SumFunction(b)
      BY DEF total_points, total_lending_points, total_borrowing_points, SumOver
<1> HIDE DEF W, h, l, b
<1>4. SumFunctionOnSet(h, W) = SumFunctionOnSet(l, W) + SumFunctionOnSet(b, W)
  <2>1. Integers(l, W) /\ Integers(b, W)
        BY <1>2 DEF Integers
  <2> QED BY <1>1, <1>2, <2>1, SumsAdd
<1> QED BY <1>1, <1>3, <1>4 DEF SumFunction

\* The leaderboard's total is the sum of its two columns, each clamped and
\* summed by itself.
THEOREM TotalIsSumHolds == PointsSpec => []TotalIsSum
<1>1. RowsOK => TotalIsSum
      BY ColumnsAdd DEF RowsOK, TotalIsSum, HistoryOK
<1> QED BY <1>1, RowsCorrect, PTL

-----------------------------------------------------------------------------
(* A later view of a longer history.                                        *)

LEMMA SameHistorySymmetric ==
    ASSUME NEW x, NEW y, NEW n, SameHistory(x, y, n)
    PROVE  SameHistory(y, x, n)
BY DEF SameHistory, SameRows

LEMMA MaxIsIn ==
    ASSUME NEW n \in Nat, NEW K \in SUBSET (1 .. n), K # {}
    PROVE  Max(K) \in K
<1> DEFINE D == {n - i : i \in K}
<1>1. D \in SUBSET Nat /\ D # {}
  <2>1. \A i \in K : i \in 1 .. n /\ n - i \in Nat
        OBVIOUS
  <2>2. D \subseteq Nat
        BY <2>1
  <2>3. PICK i \in K : TRUE
        OBVIOUS
  <2>4. n - i \in D
        BY <2>3
  <2> QED BY <2>2, <2>4
<1> HIDE DEF D
<1>2. PICK d \in D : \A c \in D : d <= c
      BY <1>1, MinIsLeast
<1>3. PICK k \in K : d = n - k
      BY <1>2 DEF D
<1>4. \A i \in K : k >= i
  <2> TAKE i \in K
  <2>1. d <= n - i
        BY <1>2 DEF D
  <2> QED BY <1>3, <2>1
<1> QED BY <1>4 DEF Max

\* The entry at the start of the program depends on the rows before it alone.
LEMMA SameInitialEntry ==
    ASSUME NEW x, HistoryOK(x), NEW y, HistoryOK(y), NEW n \in Nat, ProgramStart <= n,
           SameHistory(x, y, n)
    PROVE  InitialEntry(x) = InitialEntry(y)
<1> DEFINE old(r) == r.time < ProgramStart
           L(h) == {j \in DOMAIN h.loans : old(h.loans[j])}
           S(h) == {j \in DOMAIN h.stakes : old(h.stakes[j])}
<1>1. /\ \A j \in DOMAIN x.loans : x.loans[j].time \in Nat
      /\ \A j \in DOMAIN y.loans : y.loans[j].time \in Nat
      /\ \A j \in DOMAIN x.stakes : x.stakes[j].time \in Nat
      /\ \A j \in DOMAIN y.stakes : y.stakes[j].time \in Nat
  <2>1. /\ \A j \in DOMAIN x.loans : x.loans[j] \in Transaction
        /\ \A j \in DOMAIN y.loans : y.loans[j] \in Transaction
        /\ \A j \in DOMAIN x.stakes : x.stakes[j] \in StakingEvent
        /\ \A j \in DOMAIN y.stakes : y.stakes[j] \in StakingEvent
        BY DEF HistoryOK
  <2> QED BY <2>1, RowTimes
<1>2. L(x) = L(y) /\ \A i \in L(x) : x.loans[i] = y.loans[i]
      BY <1>1, PointsAssumption DEF SameHistory, SameRows
<1>3. S(x) = S(y) /\ \A i \in S(x) : x.stakes[i] = y.stakes[i]
      BY <1>1, PointsAssumption DEF SameHistory, SameRows
<1>4. SumIf(LendingDelta, x.loans, old) = SumIf(LendingDelta, y.loans, old)
  <2>1. [i \in L(x) |-> LendingDelta(x.loans[i])] = [i \in L(y) |-> LendingDelta(y.loans[i])]
        BY <1>2
  <2> QED BY <2>1 DEF SumIf
<1>5. SumIf(BorrowingDelta, x.loans, old) = SumIf(BorrowingDelta, y.loans, old)
  <2>1. [i \in L(x) |-> BorrowingDelta(x.loans[i])] = [i \in L(y) |-> BorrowingDelta(y.loans[i])]
        BY <1>2
  <2> QED BY <2>1 DEF SumIf
<1>6. SumIf(StakingDelta, x.stakes, old) = SumIf(StakingDelta, y.stakes, old)
  <2>1. [i \in S(x) |-> StakingDelta(x.stakes[i])] = [i \in S(y) |-> StakingDelta(y.stakes[i])]
        BY <1>3
  <2> QED BY <2>1 DEF SumIf
<1>7. /\ InitialStakes(x) = InitialStakes(y)
      /\ \A i \in InitialStakes(x) : x.stakes[i] = y.stakes[i]
      BY <1>3 DEF InitialStakes
<1>8. InitialStakes(x) # {} => Max(InitialStakes(x)) \in InitialStakes(x)
  <2>1. InitialStakes(x) \in SUBSET (1 .. Len(x.stakes)) /\ Len(x.stakes) \in Nat
        BY DEF InitialStakes, HistoryOK
  <2> HIDE DEF L, S
  <2> QED BY <2>1, MaxIsIn
<1> DEFINE k == Max(InitialStakes(x))
<1>9. InitialStakes(x) # {} => x.stakes[k] = y.stakes[k] /\ k = Max(InitialStakes(y))
      BY <1>7, <1>8
<1> HIDE DEF L, S, k
<1> QED BY <1>4, <1>5, <1>6, <1>7, <1>9 DEF InitialEntry, k

\* What a view showed of the time before n, a later view shows too.
LEMMA EntriesStay ==
    ASSUME NEW x, HistoryOK(x), NEW y, HistoryOK(y),
           NEW n \in Nat, NEW s \in Nat, NEW t \in Nat, n <= t, ProgramStart <= n,
           SameHistory(x, y, n),
           NEW e \in Timeline(x, s), e.at < EffectiveEnd(n)
    PROVE  e \in Timeline(y, t)
<1>0. /\ ProgramStart \in Nat /\ EffectiveEnd(n) \in Nat /\ EffectiveEnd(t) \in Nat
      /\ EffectiveEnd(n) <= n /\ EffectiveEnd(n) <= EffectiveEnd(t)
      BY PointsAssumption, EffectiveEndFacts
<1>1. CASE e = InitialEntry(x)
      BY <1>1, SameInitialEntry DEF Timeline
<1>2. ASSUME NEW i \in TransactionRows(x), e = TransactionEntry(x, i)
      PROVE  e \in Timeline(y, t)
  <2>1. i \in DOMAIN x.loans /\ x.loans[i] \in Transaction
        BY DEF TransactionRows, HistoryOK
  <2>2. x.loans[i].time \in Nat /\ x.loans[i].time < n
        BY <1>0, <1>2, <2>1, RowTimes DEF TransactionEntry
  <2>3. i \in DOMAIN y.loans /\ x.loans[i] = y.loans[i]
        BY <2>1, <2>2 DEF SameHistory, SameRows
  <2>4. i \in TransactionRows(y) /\ e = TransactionEntry(y, i)
        BY <1>2, <2>3 DEF TransactionRows, TransactionEntry
  <2>5. TransactionEntries(y) = {TransactionEntry(y, j) : j \in TransactionRows(y)}
        BY EntriesByRow
  <2> QED BY <2>4, <2>5 DEF Timeline
<1>3. ASSUME NEW i \in StakingRows(x), e = StakingEntry(x, i)
      PROVE  e \in Timeline(y, t)
  <2>1. i \in DOMAIN x.stakes /\ x.stakes[i] \in StakingEvent
        BY DEF StakingRows, HistoryOK
  <2>2. x.stakes[i].time \in Nat /\ x.stakes[i].time < n
        BY <1>0, <1>3, <2>1, RowTimes DEF StakingEntry
  <2>3. i \in DOMAIN y.stakes /\ x.stakes[i] = y.stakes[i]
        BY <2>1, <2>2 DEF SameHistory, SameRows
  <2>4. i \in StakingRows(y) /\ e = StakingEntry(y, i)
        BY <1>3, <2>3 DEF StakingRows, StakingEntry
  <2>5. StakingEntries(y) = {StakingEntry(y, j) : j \in StakingRows(y)}
        BY EntriesByRow
  <2> QED BY <2>4, <2>5 DEF Timeline
<1>4. ASSUME NEW i \in ExpiryRows(x, s), e = ExpiryEntry(x, i)
      PROVE  e \in Timeline(y, t)
  <2>1. i \in DOMAIN x.stakes /\ x.stakes[i] \in StakingEvent
        BY DEF ExpiryRows, HistoryOK
  <2>2. e.at = ExpiryAt(x.stakes[i])
        BY <1>4 DEF ExpiryEntry
  <2>3. x.stakes[i].time \in Nat /\ x.stakes[i].lock \in Nat
        BY <2>1 DEF StakingEvent
  <2>4. x.stakes[i].time < n /\ ExpiryAt(x.stakes[i]) < EffectiveEnd(t)
        BY <1>0, <2>2, <2>3 DEF ExpiryAt
  <2>5. i \in DOMAIN y.stakes /\ x.stakes[i] = y.stakes[i]
        BY <2>1, <2>3, <2>4 DEF SameHistory, SameRows
  <2>6. i \in ExpiryRows(y, t) /\ e = ExpiryEntry(y, i)
        BY <1>4, <2>4, <2>5 DEF ExpiryRows, ExpiryEntry
  <2>7. ExpiryEntries(y, t) = {ExpiryEntry(y, j) : j \in ExpiryRows(y, t)}
        BY EntriesByRow
  <2> QED BY <2>6, <2>7 DEF Timeline
<1> QED BY <1>1, <1>2, <1>3, <1>4, EntryKinds

\* A period keeps all it had but its end, which does not come closer.
Extends(p, q) ==
    /\ q.from = p.from /\ q.lending = p.lending /\ q.borrowing = p.borrowing
    /\ q.staked = p.staked /\ q.boost = p.boost
    /\ p.to <= q.to

LEMMA PeriodsLengthen ==
    ASSUME NEW x, HistoryOK(x), NEW y, HistoryOK(y),
           NEW n \in Nat, NEW t \in Nat, n <= t, ProgramStart <= n, SameHistory(x, y, n),
           NEW e \in Timeline(x, n), e.at < EffectiveEnd(n)
    PROVE  Extends(Period(Timeline(x, n), e, n), Period(Timeline(y, t), e, t))
<1> DEFINE X == Timeline(x, n)
           Y == Timeline(y, t)
<1>0. e \in Y
      BY EntriesStay
<1>1. /\ \A f \in X : EntryOK(f)
      /\ \A f \in Y : EntryOK(f)
      BY EntriesTyped
<1>2. EffectiveEnd(n) \in Nat /\ EffectiveEnd(t) \in Nat /\ EffectiveEnd(n) <= EffectiveEnd(t)
      BY EffectiveEndFacts, PointsAssumption
<1>3. ASSUME NEW f \in Y, f.at < EffectiveEnd(n) PROVE f \in X
      BY <1>3, SameHistorySymmetric, EntriesStay
<1>4. ASSUME NEW f \in X, f.at < EffectiveEnd(n) PROVE f \in Y
      BY <1>4, EntriesStay
<1>5. UpTo(X, e) = UpTo(Y, e)
  <2>1. ASSUME NEW f, f \in X \cup Y, f = e \/ Before(f, e) PROVE f \in X /\ f \in Y
    <3>1. EntryOK(e) /\ EntryOK(f)
          BY <1>1, <2>1
    <3>2. f.at <= e.at
          BY <2>1, <3>1, BeforeIsNotLater DEF EntryOK
    <3>3. f.at < EffectiveEnd(n)
          BY <1>2, <3>1, <3>2 DEF EntryOK
    <3> HIDE DEF X, Y
    <3> QED BY <1>3, <1>4, <2>1, <3>3
  <2> HIDE DEF X, Y
  <2> QED BY <2>1 DEF UpTo
<1>6. PeriodEnd(X, e, n) <= PeriodEnd(Y, e, t)
  <2>1. /\ PeriodEnd(X, e, n) \in Nat /\ PeriodEnd(X, e, n) <= EffectiveEnd(n)
        /\ \A f \in X : Before(e, f) => PeriodEnd(X, e, n) <= f.at
        BY PeriodEndFacts
  <2>2. /\ PeriodEnd(Y, e, t) \in Nat
        /\ \/ PeriodEnd(Y, e, t) = EffectiveEnd(t)
           \/ \E f \in Y : Before(e, f) /\ PeriodEnd(Y, e, t) = f.at
        BY PeriodEndFacts
  <2> HIDE DEF X, Y
  <2>3. CASE PeriodEnd(Y, e, t) = EffectiveEnd(t)
        BY <1>2, <2>1, <2>2, <2>3
  <2>4. ASSUME NEW f \in Y, Before(e, f), PeriodEnd(Y, e, t) = f.at
        PROVE  PeriodEnd(X, e, n) <= PeriodEnd(Y, e, t)
    <3>1. CASE f.at < EffectiveEnd(n)
          BY <1>3, <2>1, <2>4, <3>1
    <3>2. CASE ~(f.at < EffectiveEnd(n))
      <4>1. f.at \in Nat
            BY <2>2, <2>4
      <4> QED BY <1>2, <2>1, <2>4, <3>2, <4>1
    <3> QED BY <3>1, <3>2
  <2> QED BY <2>2, <2>3, <2>4
<1>7. /\ RunningSum(LAMBDA f : f.lending, X, e) = RunningSum(LAMBDA f : f.lending, Y, e)
      /\ RunningSum(LAMBDA f : f.staking, X, e) = RunningSum(LAMBDA f : f.staking, Y, e)
      /\ BorrowingBalance(X, e) = BorrowingBalance(Y, e)
  <2> HIDE DEF X, Y
  <2> QED BY <1>5 DEF RunningSum, BorrowingBalance
<1>8. /\ LastKnown(LAMBDA f : f.lock, X, e) = LastKnown(LAMBDA f : f.lock, Y, e)
      /\ LastKnown(LAMBDA f : f.start, X, e) = LastKnown(LAMBDA f : f.start, Y, e)
  <2> HIDE DEF X, Y
  <2> QED BY <1>5 DEF LastKnown
<1> HIDE DEF X, Y
<1> DEFINE lending == RunningSum(LAMBDA f : f.lending, X, e)
           staked == RunningSum(LAMBDA f : f.staking, X, e)
           boost == PeriodBoost(staked, lending, LastKnown(LAMBDA f : f.lock, X, e),
                                LastKnown(LAMBDA f : f.start, X, e), e.at)
           p == Period(X, e, n)
           q == Period(Y, e, t)
<1>9. p = [from |-> e.at, to |-> PeriodEnd(X, e, n), lending |-> lending,
           borrowing |-> BorrowingBalance(X, e), staked |-> staked, boost |-> boost]
      BY DEF Period
<1>10. q = [from |-> e.at, to |-> PeriodEnd(Y, e, t), lending |-> lending,
            borrowing |-> BorrowingBalance(X, e), staked |-> staked, boost |-> boost]
  <2> HIDE DEF X, Y
  <2> QED BY <1>7, <1>8 DEF Period
<1> HIDE DEF lending, staked, boost, p, q
<1>11. Extends(p, q)
      BY <1>6, <1>9, <1>10 DEF Extends
<1> QED BY <1>11 DEF X, Y, p, q

LEMMA DetailedElements ==
    ASSUME NEW hist, NEW t
    PROVE  \A p : p \in wallet_points_detailed(hist, t) <=>
                      \E e \in Timeline(hist, t) : /\ p = Period(Timeline(hist, t), e, t)
                                                   /\ p.from < EffectiveEnd(t) /\ p.from < p.to
BY DEF wallet_points_detailed

\* At one moment at most one period starts that is not empty.
LEMMA OnePeriodAtATime ==
    ASSUME NEW hist, HistoryOK(hist), NEW t \in Nat,
           NEW p \in wallet_points_detailed(hist, t), NEW q \in wallet_points_detailed(hist, t),
           p.from = q.from
    PROVE  p = q
<1> DEFINE line == Timeline(hist, t)
<1>1. PICK e \in line : p = Period(line, e, t) /\ p.from < p.to
      BY DetailedElements
<1>2. PICK f \in line : q = Period(line, f, t) /\ q.from < q.to
      BY DetailedElements
<1>3. EntryOK(e) /\ EntryOK(f)
      BY EntriesTyped
<1>4. /\ p.from = e.at /\ p.to = PeriodEnd(line, e, t)
      /\ q.from = f.at /\ q.to = PeriodEnd(line, f, t)
      BY <1>1, <1>2 DEF Period
<1>5. /\ PeriodEnd(line, e, t) \in Nat /\ (Before(e, f) => PeriodEnd(line, e, t) <= f.at)
      /\ PeriodEnd(line, f, t) \in Nat /\ (Before(f, e) => PeriodEnd(line, f, t) <= e.at)
      BY PeriodEndFacts
<1>6. ~Before(e, f) /\ ~Before(f, e)
      BY <1>1, <1>2, <1>3, <1>4, <1>5 DEF EntryOK
<1>7. e = f
      BY <1>6, EntriesOrdered
<1> QED BY <1>1, <1>2, <1>7

\* A longer period earns no less.
LEMMA LongerPeriodsEarnMore ==
    ASSUME NEW p, NEW q, PeriodOK(p), PeriodOK(q), p.from <= p.to, Extends(p, q)
    PROVE  /\ total_period_points(p) \in Nat /\ total_period_points(q) \in Nat
           /\ total_period_points(p) <= total_period_points(q)
<1>1. /\ p.from \in Int /\ p.to \in Int /\ q.to \in Int
      /\ q.from = p.from /\ p.to <= q.to
      BY DEF PeriodOK, Extends
<1>2. /\ LendingPoints(p) \in Nat /\ BorrowingPoints(p) \in Nat
      /\ LendingPoints(q) \in Nat /\ BorrowingPoints(q) \in Nat
  <2>1. q.from <= q.to
        BY <1>1
  <2> QED BY <2>1, PointsAreNat
<1>3. LendingRate(p) = LendingRate(q) /\ BorrowingRate(p) = BorrowingRate(q)
      BY DEF LendingRate, BorrowingRate, Extends
<1>4. Earns(p) = Earns(q)
      BY DEF Earns, Extends
<1>5. LendingPoints(p) <= LendingPoints(q) /\ BorrowingPoints(p) <= BorrowingPoints(q)
  <2>1. CASE Earns(p)
    <3>1. LendingRate(p) \in Nat /\ BorrowingRate(p) \in Nat
          BY <2>1, RatesAreNat
    <3>2. /\ (p.to - p.from) * LendingRate(p) <= (q.to - p.from) * LendingRate(p)
          /\ (p.to - p.from) * BorrowingRate(p) <= (q.to - p.from) * BorrowingRate(p)
          BY <1>1, <3>1, LongerIsMore
    <3>3. /\ LendingPoints(p) = (p.to - p.from) * LendingRate(p)
          /\ BorrowingPoints(p) = (p.to - p.from) * BorrowingRate(p)
          /\ LendingPoints(q) = (q.to - p.from) * LendingRate(p)
          /\ BorrowingPoints(q) = (q.to - p.from) * BorrowingRate(p)
          BY <1>1, <1>3, <1>4, <2>1, PointsByRate
    <3> QED BY <3>2, <3>3
  <2>2. CASE ~Earns(p)
        BY <1>4, <2>2, PointsByRate
  <2> QED BY <2>1, <2>2
<1> QED BY <1>2, <1>5 DEF total_period_points

Earned(hist, t) ==
    [p \in wallet_points_detailed(hist, t) |-> Clamped(total_period_points(p))]

LEMMA TotalIsNat ==
    ASSUME NEW hist, HistoryOK(hist), NEW t \in Nat
    PROVE  /\ total_points(hist, t) =
                  SumFunctionOnSet(Earned(hist, t), wallet_points_detailed(hist, t))
           /\ \A p \in wallet_points_detailed(hist, t) : Earned(hist, t)[p] \in Nat
           /\ total_points(hist, t) \in Nat
<1> DEFINE W == wallet_points_detailed(hist, t)
           f == Earned(hist, t)
<1>1. total_points(hist, t) = SumFunctionOnSet(f, W)
  <2>1. total_points(hist, t) = SumFunction(f)
        BY DEF total_points, SumOver, Earned
  <2>2. DOMAIN f = W
        BY DEF Earned
  <2> HIDE DEF f, W
  <2> QED BY <2>1, <2>2 DEF SumFunction
<1>2. \A p \in W : f[p] \in Nat
  <2> TAKE p \in W
  <2>1. PeriodOK(p) /\ p.from < p.to
        BY DetailedFacts
  <2>2. p.from <= p.to
        BY <2>1 DEF PeriodOK
  <2>3. total_period_points(p) \in Int
        BY <2>1, <2>2, PointsAreNat DEF total_period_points
  <2> QED BY <2>3, ClampedFacts DEF Earned
<1>3. IsFiniteSet(W)
      BY DetailedFacts
<1> HIDE DEF f, W
<1>4. SumFunctionOnSet(f, W) \in Nat
      BY <1>2, <1>3, SumIsNat
<1> QED BY <1>1, <1>2, <1>4 DEF f, W

\* Before the program starts there are no periods.
LEMMA NothingBeforeStart ==
    ASSUME NEW hist, HistoryOK(hist), NEW t \in Nat, t < ProgramStart
    PROVE  total_points(hist, t) = 0
<1> DEFINE W == wallet_points_detailed(hist, t)
<1>1. ASSUME NEW p \in W PROVE FALSE
  <2>1. PICK e \in Timeline(hist, t) :
            p = Period(Timeline(hist, t), e, t) /\ p.from < EffectiveEnd(t)
        BY DetailedElements
  <2>2. p.from = e.at
        BY <2>1 DEF Period
  <2>3. e.at \in Nat /\ ProgramStart <= e.at
        BY EntriesTyped DEF EntryOK
  <2> QED BY <2>1, <2>2, <2>3, EffectiveEndFacts, PointsAssumption
<1>2. W = {}
      BY <1>1
<1> QED BY <1>2, TotalIsNat, SumOfNone

LEMMA TotalGrows ==
    ASSUME NEW x, HistoryOK(x), NEW y, HistoryOK(y),
           NEW n \in Nat, NEW t \in Nat, n <= t, SameHistory(x, y, n)
    PROVE  total_points(y, t) >= total_points(x, n)
<1>1. total_points(x, n) \in Nat /\ total_points(y, t) \in Nat
      BY TotalIsNat
<1>2. CASE n < ProgramStart
      BY <1>1, <1>2, NothingBeforeStart
<1>3. CASE ProgramStart <= n
  <2> DEFINE V == wallet_points_detailed(x, n)
             W == wallet_points_detailed(y, t)
             f == Earned(x, n)
             g == Earned(y, t)
             m == [p \in V |-> CHOOSE q \in W : Extends(p, q)]
  <2>1. ASSUME NEW p \in V PROVE \E q \in W : Extends(p, q)
    <3>1. PICK e \in Timeline(x, n) : /\ p = Period(Timeline(x, n), e, n)
                                      /\ p.from < EffectiveEnd(n) /\ p.from < p.to
          BY DetailedElements
    <3> DEFINE q == Period(Timeline(y, t), e, t)
    <3>2. p.from = e.at
          BY <3>1 DEF Period
    <3>3. Extends(p, q)
          BY <1>3, <3>1, <3>2, PeriodsLengthen
    <3>4. e \in Timeline(y, t)
          BY <1>3, <3>1, <3>2, EntriesStay
    <3>5. PeriodOK(p) /\ PeriodOK(q)
          BY <3>1, <3>4, PeriodsTyped
    <3>6. EffectiveEnd(n) \in Nat /\ EffectiveEnd(t) \in Nat /\ EffectiveEnd(n) <= EffectiveEnd(t)
          BY EffectiveEndFacts, PointsAssumption
    <3> HIDE DEF q
    <3>7. q.from < EffectiveEnd(t) /\ q.from < q.to
          BY <3>1, <3>3, <3>5, <3>6 DEF PeriodOK, Extends
    <3>8. q \in W
          BY <3>4, <3>7, DetailedElements DEF q
    <3> QED BY <3>3, <3>8
  <2>2. m \in [V -> W] /\ \A p \in V : Extends(p, m[p])
    <3> HIDE DEF V, W
    <3> QED BY <2>1
  <2>3. IsFiniteSet(V) /\ IsFiniteSet(W)
        BY DetailedFacts
  <2>4. \A p \in V : PeriodOK(p) /\ p.from < p.to
        BY DetailedFacts
  <2>5. \A q \in W : PeriodOK(q) /\ q.from < q.to
        BY DetailedFacts
  <2>6. (\A p \in V : f[p] \in Nat) /\ (\A q \in W : g[q] \in Nat)
        BY TotalIsNat
  <2>7. \A p \in V, q \in V : p.from = q.from => p = q
        BY OnePeriodAtATime
  <2>8. ASSUME NEW p \in V PROVE f[p] <= g[m[p]]
    <3>1. m[p] \in W /\ Extends(p, m[p])
          BY <2>2
    <3>2. PeriodOK(p) /\ PeriodOK(m[p]) /\ p.from <= p.to
          BY <2>4, <2>5, <3>1 DEF PeriodOK
    <3> HIDE DEF m
    <3>3. /\ total_period_points(p) \in Nat /\ total_period_points(m[p]) \in Nat
          /\ total_period_points(p) <= total_period_points(m[p])
          BY <3>1, <3>2, LongerPeriodsEarnMore
    <3>4. f[p] = Clamped(total_period_points(p))
          BY DEF Earned
    <3>5. g[m[p]] = Clamped(total_period_points(m[p]))
          BY <3>1 DEF Earned
    <3> QED BY <3>3, <3>4, <3>5, ClampedFacts
  <2>9. \A p, q \in V : m[p] = m[q] => p = q
    <3> HIDE DEF V, W, m
    <3> QED BY <2>2, <2>7 DEF Extends
  <2>10. /\ total_points(x, n) = SumFunctionOnSet(f, V)
         /\ total_points(y, t) = SumFunctionOnSet(g, W)
        BY TotalIsNat
  <2> HIDE DEF V, W, f, g, m
  <2>11. Integers(f, V)
        BY <2>6 DEF Integers
  <2>12. SumFunctionOnSet(f, V) <= SumFunctionOnSet(g, W)
        BY <2>2, <2>3, <2>6, <2>8, <2>9, <2>11, SumsCompare
  <2> QED BY <1>1, <2>10, <2>12
<1> QED BY <1>1, <1>2, <1>3, PointsAssumption

LEMMA TotalIsFinal ==
    ASSUME NEW x, HistoryOK(x), NEW y, HistoryOK(y),
           NEW n \in Nat, NEW t \in Nat, n <= t, SameHistory(x, y, n), ProgramEnd <= n
    PROVE  total_points(y, t) = total_points(x, n)
<1>1. EffectiveEnd(n) = ProgramEnd /\ EffectiveEnd(t) = ProgramEnd
      BY EffectiveEndFacts, PointsAssumption
<1>2. ProgramStart <= n
      BY PointsAssumption
<1>3. Timeline(x, n) = Timeline(y, t)
  <2>1. ASSUME NEW e \in Timeline(x, n) PROVE e \in Timeline(y, t)
    <3>1. e.at < EffectiveEnd(n)
          BY <1>1, EntriesTyped
    <3> QED BY <1>2, <3>1, EntriesStay
  <2>2. ASSUME NEW e \in Timeline(y, t) PROVE e \in Timeline(x, n)
    <3>1. e.at < EffectiveEnd(n)
          BY <1>1, EntriesTyped
    <3>2. SameHistory(y, x, n)
          BY SameHistorySymmetric
    <3>3. n <= n
          OBVIOUS
    <3> QED BY <1>2, <3>1, <3>2, <3>3, EntriesStay
  <2> QED BY <2>1, <2>2
<1>4. \A line, e : Period(line, e, n) = Period(line, e, t)
      BY <1>1 DEF Period, PeriodEnd
<1>5. wallet_points_detailed(x, n) = wallet_points_detailed(y, t)
      BY <1>1, <1>3, <1>4 DEF wallet_points_detailed
<1>6. Earned(x, n) = Earned(y, t)
      BY <1>5 DEF Earned
<1> QED BY <1>5, <1>6, TotalIsNat

\* What is settled at one view is settled at every later one: for every
\* program, all amounts and locks, and rows stored in any order and number.
THEOREM PastPointsStayHolds == PointsSpec => PastPointsStay
<1>1. RowsOK /\ [PointsNext]_pointsVars => PastStays
  <2> SUFFICES ASSUME RowsOK, [PointsNext]_pointsVars PROVE PastStays
      OBVIOUS
  <2>1. RowsOK' /\ now <= now'
        BY StepKeeps
  <2>2. /\ now \in Nat /\ now' \in Nat /\ HistoryOK(rows) /\ HistoryOK(rows')
        BY <2>1 DEF RowsOK, HistoryOK
  <2>3. ASSUME now' > now PROVE total_points(rows', now') >= total_points(rows, now)
    <3>1. \A event, token, amount : ~StoreLoan(event, token, amount)
          BY <2>2, <2>3 DEF StoreLoan
    <3>2. \A event, amount, lock : ~StoreStake(event, amount, lock)
          BY <2>2, <2>3 DEF StoreStake
    <3>3. rows' = rows
          BY <3>1, <3>2 DEF PointsNext, TimePasses, Deposit, DepositCollateral, Withdraw, Borrow,
                            Repay, Stake, Unstake, pointsVars
    <3>4. SameHistory(rows, rows', now)
          BY <3>3, SameRowsReflexive DEF SameHistory
    <3> QED BY <2>1, <2>2, <3>4, TotalGrows
  <2>4. ASSUME NEW t \in Times, t <= now,
               Settled(rows', EffectiveEnd(t)) = Settled(rows, EffectiveEnd(t))
        PROVE  total_points(rows', t) = total_points(rows, t)
    <3>0. t \in Nat /\ ProgramEnd \in Nat
          BY PointsAssumption
    <3>1. SameHistory(rows, rows', EffectiveEnd(t)) /\ SameHistory(rows', rows, EffectiveEnd(t))
          BY <2>4, SettledIsSame
    <3>2. CASE t <= ProgramEnd
      <4>1. EffectiveEnd(t) = t
            BY <3>0, <3>2, EffectiveEndFacts
      <4>2. /\ total_points(rows', t) >= total_points(rows, t)
            /\ total_points(rows, t) >= total_points(rows', t)
            BY <2>2, <3>0, <3>1, <4>1, TotalGrows
      <4>3. total_points(rows', t) \in Nat /\ total_points(rows, t) \in Nat
            BY <2>2, <3>0, TotalIsNat
      <4> QED BY <4>2, <4>3
    <3>3. CASE ProgramEnd < t
      <4>1. EffectiveEnd(t) = ProgramEnd /\ ProgramEnd <= t /\ ProgramEnd <= ProgramEnd
            BY <3>0, <3>3, EffectiveEndFacts
      <4>2. total_points(rows', t) = total_points(rows, ProgramEnd)
            BY <2>2, <3>0, <3>1, <4>1, TotalIsFinal
      <4>3. SameHistory(rows, rows, ProgramEnd)
            BY SameRowsReflexive DEF SameHistory
      <4>4. total_points(rows, t) = total_points(rows, ProgramEnd)
            BY <2>2, <3>0, <4>1, <4>3, TotalIsFinal
      <4> QED BY <4>2, <4>4
    <3> QED BY <3>0, <3>2, <3>3
  <2> QED BY <2>3, <2>4 DEF PastStays
<1> QED BY <1>1, RowsCorrect, PTL DEF PointsSpec, PastPointsStay

-----------------------------------------------------------------------------
(* More about sums: of disjoint sets, of constants, and of the same values  *)
(* under other names.                                                       *)

LEMMA SumOfUnion ==
    ASSUME NEW f, NEW A, NEW B, IsFiniteSet(A), IsFiniteSet(B), A \cap B = {},
           Integers(f, A), Integers(f, B)
    PROVE  SumFunctionOnSet(f, A \cup B) = SumFunctionOnSet(f, A) + SumFunctionOnSet(f, B)
<1> DEFINE Bad == {u \in FiniteSubsetsOf(B) :
              SumFunctionOnSet(f, A \cup u) # SumFunctionOnSet(f, A) + SumFunctionOnSet(f, u)}
<1>0. SumFunctionOnSet(f, A) \in Int
      BY SumIsInt
<1>1. ASSUME Bad # {} PROVE FALSE
  <2>0. PICK U \in Bad : \A V \in Bad : V \subseteq U => V = U
    <3> HIDE DEF Bad
    <3>1. Bad \subseteq FiniteSubsetsOf(B) BY DEF Bad
    <3> QED BY <1>1, <3>1, SmallestSet
  <2>1. /\ IsFiniteSet(U) /\ U \subseteq B
        /\ SumFunctionOnSet(f, A \cup U) # SumFunctionOnSet(f, A) + SumFunctionOnSet(f, U)
        BY DEF FiniteSubsetsOf
  <2>2. U # {}
    <3>1. A \cup {} = A
          OBVIOUS
    <3> QED BY <1>0, <2>1, <3>1, SumOfNone
  <2> DEFINE p == PickOne(U)
             V == U \ {p}
  <2>3. p \in U /\ SumFunctionOnSet(f, U) = f[p] + SumFunctionOnSet(f, V)
        BY <2>1, <2>2, SumTakes
  <2> HIDE DEF p
  <2>4. V \in FiniteSubsetsOf(B) /\ IsFiniteSet(V) /\ IsFiniteSet(A \cup U)
        BY <2>1, FS_Subset, FS_Union DEF FiniteSubsetsOf
  <2>5. (A \cup U) \ {p} = A \cup V /\ p \in A \cup U
        BY <2>1, <2>3
  <2>6. SumFunctionOnSet(f, A \cup U) = f[p] + SumFunctionOnSet(f, A \cup V)
    <3>1. Integers(f, A \cup U)
          BY <2>1 DEF Integers
    <3>2. SumFunctionOnSet(f, A \cup U) = f[p] + SumFunctionOnSet(f, (A \cup U) \ {p})
          BY <2>4, <2>5, <3>1, SumTakesAny
    <3> QED BY <2>5, <3>2
  <2>7. V \notin Bad
    <3>1. V \subseteq U /\ V # U
          BY <2>3
    <3> HIDE DEF Bad
    <3> QED BY <2>0, <3>1
  <2>8. SumFunctionOnSet(f, A \cup V) = SumFunctionOnSet(f, A) + SumFunctionOnSet(f, V)
        BY <2>4, <2>7
  <2>9. SumFunctionOnSet(f, V) \in Int /\ f[p] \in Int
    <3>1. Integers(f, V)
          BY <2>1 DEF Integers
    <3> QED BY <2>1, <2>3, <2>4, <3>1, SumIsInt DEF Integers
  <2> HIDE DEF V
  <2> QED BY <1>0, <2>1, <2>3, <2>6, <2>8, <2>9
<1>2. B \in FiniteSubsetsOf(B)
      BY DEF FiniteSubsetsOf
<1> QED BY <1>1, <1>2

LEMMA SumOfConstant ==
    ASSUME NEW f, NEW S, IsFiniteSet(S), NEW c \in Int, \A x \in S : f[x] = c
    PROVE  SumFunctionOnSet(f, S) = Cardinality(S) * c
<1> DEFINE Bad == {u \in FiniteSubsetsOf(S) : SumFunctionOnSet(f, u) # Cardinality(u) * c}
<1>1. ASSUME Bad # {} PROVE FALSE
  <2>0. PICK U \in Bad : \A V \in Bad : V \subseteq U => V = U
    <3> HIDE DEF Bad
    <3>1. Bad \subseteq FiniteSubsetsOf(S) BY DEF Bad
    <3> QED BY <1>1, <3>1, SmallestSet
  <2>1. IsFiniteSet(U) /\ U \subseteq S /\ SumFunctionOnSet(f, U) # Cardinality(U) * c
        BY DEF FiniteSubsetsOf
  <2>2. U # {}
    <3>1. Cardinality({}) = 0
          BY FS_EmptySet
    <3>2. 0 * c = 0
          OBVIOUS
    <3>3. U = {} => SumFunctionOnSet(f, U) = 0 /\ Cardinality(U) * c = 0
          BY <3>1, <3>2, SumOfNone
    <3> QED BY <2>1, <3>3
  <2> DEFINE p == PickOne(U)
             V == U \ {p}
  <2>3. p \in U /\ SumFunctionOnSet(f, U) = f[p] + SumFunctionOnSet(f, V)
        BY <2>1, <2>2, SumTakes
  <2> HIDE DEF p
  <2>4. V \in FiniteSubsetsOf(S) /\ IsFiniteSet(V)
        BY <2>1, FS_Subset DEF FiniteSubsetsOf
  <2>5. SumFunctionOnSet(f, V) = Cardinality(V) * c
    <3>1. V \subseteq U /\ V # U
          BY <2>3
    <3> QED BY <2>0, <2>4, <3>1
  <2>6. Cardinality(U) \in Nat /\ Cardinality(V) = Cardinality(U) - 1
        BY <2>1, <2>3, FS_RemoveElement, FS_CardinalityType
  <2>7. f[p] = c
        BY <2>1, <2>3
  <2> DEFINE k == Cardinality(U)
  <2> HIDE DEF V, k
  <2>8. c + (k - 1) * c = k * c
        BY <2>6 DEF k
  <2> QED BY <2>1, <2>3, <2>5, <2>6, <2>7, <2>8 DEF k
<1>2. S \in FiniteSubsetsOf(S)
      BY DEF FiniteSubsetsOf
<1> QED BY <1>1, <1>2

\* Values that are 0 can be left out.
LEMMA SumLeavesOutZeros ==
    ASSUME NEW f, NEW S, NEW T, IsFiniteSet(T), S \subseteq T, Integers(f, T),
           \A x \in T \ S : f[x] = 0
    PROVE  SumFunctionOnSet(f, T) = SumFunctionOnSet(f, S)
<1> DEFINE R == T \ S
<1>1. IsFiniteSet(S) /\ IsFiniteSet(R)
      BY FS_Subset
<1>2. Integers(f, S) /\ Integers(f, R)
      BY DEF Integers
<1>3. SumFunctionOnSet(f, R) = 0
  <2>1. SumFunctionOnSet(f, R) = Cardinality(R) * 0
        BY <1>1, SumOfConstant
  <2>2. Cardinality(R) \in Nat
        BY <1>1, FS_CardinalityType
  <2> QED BY <2>1, <2>2
<1>4. SumFunctionOnSet(f, S) \in Int
      BY <1>1, <1>2, SumIsInt
<1>5. S \cup R = T /\ S \cap R = {}
      OBVIOUS
<1> HIDE DEF R
<1>6. SumFunctionOnSet(f, S \cup R) = SumFunctionOnSet(f, S) + SumFunctionOnSet(f, R)
      BY <1>1, <1>2, <1>5, SumOfUnion
<1>7. SumFunctionOnSet(f, T) = SumFunctionOnSet(f, S) + SumFunctionOnSet(f, R)
      BY <1>5, <1>6
<1> QED BY <1>3, <1>4, <1>7

\* The values of f under the names that m gives them.
LEMMA SumRenamed ==
    ASSUME NEW f, NEW g, NEW m, NEW S, IsFiniteSet(S), Integers(f, S),
           \A x, y \in S : m[x] = m[y] => x = y,
           \A x \in S : f[x] = g[m[x]]
    PROVE  SumFunctionOnSet(f, S) = SumFunctionOnSet(g, {m[x] : x \in S})
<1> DEFINE Image(u) == {m[x] : x \in u}
           Bad == {u \in FiniteSubsetsOf(S) :
                      SumFunctionOnSet(f, u) # SumFunctionOnSet(g, Image(u))}
<1>1. ASSUME Bad # {} PROVE FALSE
  <2>0. PICK U \in Bad : \A V \in Bad : V \subseteq U => V = U
    <3> HIDE DEF Bad
    <3>1. Bad \subseteq FiniteSubsetsOf(S) BY DEF Bad
    <3> QED BY <1>1, <3>1, SmallestSet
  <2>1. IsFiniteSet(U) /\ U \subseteq S /\ SumFunctionOnSet(f, U) # SumFunctionOnSet(g, Image(U))
        BY DEF FiniteSubsetsOf
  <2>2. U # {}
    <3>1. Image({}) = {}
          OBVIOUS
    <3> QED BY <2>1, <3>1, SumOfNone
  <2> DEFINE p == PickOne(U)
             V == U \ {p}
  <2>3. p \in U /\ SumFunctionOnSet(f, U) = f[p] + SumFunctionOnSet(f, V)
        BY <2>1, <2>2, SumTakes
  <2> HIDE DEF p
  <2>4. V \in FiniteSubsetsOf(S)
        BY <2>1, FS_Subset DEF FiniteSubsetsOf
  <2>5. SumFunctionOnSet(f, V) = SumFunctionOnSet(g, Image(V))
    <3>1. V \subseteq U /\ V # U
          BY <2>3
    <3> QED BY <2>0, <2>4, <3>1
  <2>6. Image(U) \ {m[p]} = Image(V) /\ m[p] \in Image(U)
        BY <2>1, <2>3
  <2>7. IsFiniteSet(Image(U))
        BY <2>1, ImageFinite
  <2>8. Integers(g, Image(U))
        BY <2>1 DEF Integers
  <2>9. SumFunctionOnSet(g, Image(U)) = g[m[p]] + SumFunctionOnSet(g, Image(U) \ {m[p]})
    <3> HIDE DEF Image
    <3> QED BY <2>6, <2>7, <2>8, SumTakesAny
  <2>10. f[p] = g[m[p]]
        BY <2>1, <2>3
  <2> HIDE DEF V, Image
  <2> QED BY <2>1, <2>3, <2>5, <2>6, <2>9, <2>10
<1>2. S \in FiniteSubsetsOf(S)
      BY DEF FiniteSubsetsOf
<1> QED BY <1>1, <1>2

\* A sum over the cells of a partition is the sum over all that is in them.
LEMMA SumOfCells ==
    ASSUME NEW f, NEW g, NEW cell, NEW S, NEW T, IsFiniteSet(S), IsFiniteSet(T), Integers(g, T),
           \A x \in S : cell[x] \subseteq T,
           \A x, y \in S : x # y => cell[x] \cap cell[y] = {},
           \A x \in S : f[x] = SumFunctionOnSet(g, cell[x])
    PROVE  SumFunctionOnSet(f, S) = SumFunctionOnSet(g, UNION {cell[x] : x \in S})
<1> DEFINE All(u) == UNION {cell[x] : x \in u}
           Bad == {u \in FiniteSubsetsOf(S) :
                      SumFunctionOnSet(f, u) # SumFunctionOnSet(g, All(u))}
<1>1. ASSUME Bad # {} PROVE FALSE
  <2>0. PICK U \in Bad : \A V \in Bad : V \subseteq U => V = U
    <3> HIDE DEF Bad
    <3>1. Bad \subseteq FiniteSubsetsOf(S) BY DEF Bad
    <3> QED BY <1>1, <3>1, SmallestSet
  <2>1. IsFiniteSet(U) /\ U \subseteq S /\ SumFunctionOnSet(f, U) # SumFunctionOnSet(g, All(U))
        BY DEF FiniteSubsetsOf
  <2>2. U # {}
    <3>1. All({}) = {}
          OBVIOUS
    <3> QED BY <2>1, <3>1, SumOfNone
  <2> DEFINE p == PickOne(U)
             V == U \ {p}
  <2>3. p \in U /\ SumFunctionOnSet(f, U) = f[p] + SumFunctionOnSet(f, V)
        BY <2>1, <2>2, SumTakes
  <2> HIDE DEF p
  <2>4. V \in FiniteSubsetsOf(S)
        BY <2>1, FS_Subset DEF FiniteSubsetsOf
  <2>5. SumFunctionOnSet(f, V) = SumFunctionOnSet(g, All(V))
    <3>1. V \subseteq U /\ V # U
          BY <2>3
    <3> QED BY <2>0, <2>4, <3>1
  <2>6. All(U) = All(V) \cup cell[p]
        BY <2>3
  <2>7. All(V) \cap cell[p] = {}
        BY <2>1, <2>3
  <2>8. All(V) \subseteq T /\ cell[p] \subseteq T
        BY <2>1, <2>3
  <2> HIDE DEF All
  <2>9. /\ IsFiniteSet(All(V)) /\ IsFiniteSet(cell[p])
        /\ Integers(g, All(V)) /\ Integers(g, cell[p])
        BY <2>8, FS_Subset DEF Integers
  <2>10. SumFunctionOnSet(g, All(U)) =
             SumFunctionOnSet(g, All(V)) + SumFunctionOnSet(g, cell[p])
    <3>1. SumFunctionOnSet(g, All(V) \cup cell[p]) =
              SumFunctionOnSet(g, All(V)) + SumFunctionOnSet(g, cell[p])
      <4> HIDE DEF V
      <4> QED BY <2>7, <2>9, SumOfUnion
    <3> QED BY <2>6, <3>1
  <2>11. f[p] = SumFunctionOnSet(g, cell[p])
        BY <2>1, <2>3
  <2>12. SumFunctionOnSet(g, All(V)) \in Int /\ SumFunctionOnSet(g, cell[p]) \in Int
        BY <2>9, SumIsInt
  <2> HIDE DEF V
  <2> QED BY <2>1, <2>3, <2>5, <2>10, <2>11, <2>12
<1>2. S \in FiniteSubsetsOf(S)
      BY DEF FiniteSubsetsOf
<1> QED BY <1>1, <1>2

-----------------------------------------------------------------------------
(* The running sums of the view are sums over the rows so far.              *)

\* A function's own sum, by any function that has its values.
LEMMA SumOfRestriction ==
    ASSUME NEW f, NEW g, NEW S, IsFiniteSet(S), DOMAIN g = S, \A x \in S : g[x] = f[x]
    PROVE  SumFunction(g) = SumFunctionOnSet(f, S)
BY SumsAgree DEF SumFunction

\* The entries of a timeline and the rows of a table that they are made of:
\* entry[i] is that of row i of Q, other rows and entries count for nothing, and
\* the first entry holds the sum of the rows before it.
MadeOfRows(line, g, first, table, d, start, w, Q, entry) ==
    /\ IsFiniteSet(line) /\ Integers(g, line) /\ \A f \in line : f.at \in Nat
    /\ IsFiniteSet(DOMAIN table) /\ Integers(d, DOMAIN table)
    /\ \A i \in DOMAIN table : table[i].time \in Nat
    /\ first \in line /\ first.at = start
    /\ g[first] = SumFunctionOnSet(d, {i \in DOMAIN table : table[i].time < start})
    /\ Q \in SUBSET DOMAIN table
    /\ \A i \in Q : /\ entry[i] \in line /\ entry[i] # first
                    /\ entry[i].at = table[i].time /\ start <= table[i].time
                    /\ d[i] = g[entry[i]]
    /\ \A i, j \in Q : entry[i] = entry[j] => i = j
    /\ \A f \in line : f = first \/ g[f] = 0 \/ \E i \in Q : f = entry[i]
    /\ \A i \in DOMAIN table :
           start <= table[i].time /\ table[i].time <= w => i \in Q \/ d[i] = 0

LEMMA EntriesSumRows ==
    ASSUME NEW line, NEW w \in Nat, NEW start \in Nat, start <= w, NEW table, NEW g, NEW d,
           NEW first, NEW Q, NEW entry, MadeOfRows(line, g, first, table, d, start, w, Q, entry)
    PROVE  SumFunctionOnSet(g, {f \in line : f.at <= w}) =
               SumFunctionOnSet(d, {i \in DOMAIN table : table[i].time <= w})
<1> DEFINE F == {f \in line : f.at <= w}
           D == {i \in DOMAIN table : table[i].time <= w}
           Old == {i \in DOMAIN table : table[i].time < start}
           New == {i \in DOMAIN table : start <= table[i].time /\ table[i].time <= w}
           P == {i \in Q : table[i].time <= w}
           E == {entry[i] : i \in P}
           G == F \ {first}
<1>0. /\ IsFiniteSet(line) /\ Integers(g, line) /\ \A f \in line : f.at \in Nat
      /\ IsFiniteSet(DOMAIN table) /\ Integers(d, DOMAIN table)
      /\ \A i \in DOMAIN table : table[i].time \in Nat
      /\ first \in line /\ first.at = start
      /\ g[first] = SumFunctionOnSet(d, Old)
      /\ Q \in SUBSET DOMAIN table
      BY DEF MadeOfRows
<1>a. /\ \A i \in Q : /\ entry[i] \in line /\ entry[i] # first
                      /\ entry[i].at = table[i].time /\ start <= table[i].time
                      /\ d[i] = g[entry[i]]
      /\ \A i, j \in Q : entry[i] = entry[j] => i = j
      /\ \A f \in line : f = first \/ g[f] = 0 \/ \E i \in Q : f = entry[i]
      /\ \A i \in DOMAIN table :
             start <= table[i].time /\ table[i].time <= w => i \in Q \/ d[i] = 0
      BY DEF MadeOfRows
<1>1. /\ IsFiniteSet(F) /\ IsFiniteSet(D) /\ IsFiniteSet(Old) /\ IsFiniteSet(New)
      /\ IsFiniteSet(G) /\ IsFiniteSet(P)
  <2>1. F \in SUBSET line /\ G \in SUBSET line
        OBVIOUS
  <2>2. /\ D \in SUBSET DOMAIN table /\ Old \in SUBSET DOMAIN table
        /\ New \in SUBSET DOMAIN table /\ P \in SUBSET DOMAIN table
        BY <1>0
  <2> HIDE DEF F, D, Old, New, P, E, G
  <2> QED BY <1>0, <2>1, <2>2, FS_Subset
<1>2. /\ Integers(g, F) /\ Integers(g, G)
      /\ Integers(d, D) /\ Integers(d, Old) /\ Integers(d, New) /\ Integers(d, P)
      BY <1>0 DEF Integers
<1>3. SumFunctionOnSet(g, F) = g[first] + SumFunctionOnSet(g, G)
  <2>1. first \in F
        BY <1>0
  <2> HIDE DEF F
  <2> QED BY <1>1, <1>2, <2>1, SumTakesAny
<1>4. SumFunctionOnSet(g, G) = SumFunctionOnSet(g, E)
  <2>1. E \subseteq G
        BY <1>a
  <2>2. \A f \in G \ E : g[f] = 0
    <3> TAKE f \in G \ E
    <3>1. f \in line /\ f.at <= w /\ f # first
          OBVIOUS
    <3>2. ASSUME NEW i \in Q, f = entry[i] PROVE FALSE
      <4>1. i \in P
            BY <1>a, <3>1, <3>2
      <4> QED BY <3>2, <4>1
    <3> QED BY <1>a, <3>1, <3>2
  <2> HIDE DEF G, E
  <2> QED BY <1>1, <1>2, <2>1, <2>2, SumLeavesOutZeros
<1>5. SumFunctionOnSet(d, P) = SumFunctionOnSet(g, E)
  <2>1. /\ \A i \in P : d[i] = g[entry[i]]
        /\ \A i, j \in P : entry[i] = entry[j] => i = j
        BY <1>a
  <2> HIDE DEF P
  <2> QED BY <1>1, <1>2, <2>1, SumRenamed
<1>6. SumFunctionOnSet(d, New) = SumFunctionOnSet(d, P)
  <2>1. P \subseteq New /\ \A i \in New \ P : d[i] = 0
        BY <1>0, <1>a
  <2> HIDE DEF New, P
  <2> QED BY <1>1, <1>2, <2>1, SumLeavesOutZeros
<1>7. D = Old \cup New /\ Old \cap New = {}
      BY <1>0
<1> HIDE DEF F, D, Old, New, P, E, G
<1>8. SumFunctionOnSet(d, D) = SumFunctionOnSet(d, Old) + SumFunctionOnSet(d, New)
  <2>1. SumFunctionOnSet(d, Old \cup New) = SumFunctionOnSet(d, Old) + SumFunctionOnSet(d, New)
        BY <1>1, <1>2, <1>7, SumOfUnion
  <2> QED BY <1>7, <2>1
<1>9. SumFunctionOnSet(g, F) = SumFunctionOnSet(d, D)
      BY <1>3, <1>4, <1>5, <1>6, <1>8, <1>0
<1> QED BY <1>9 DEF F, D

Sofar(line, w) == {f \in line : f.at <= w}

\* At any week, the entries so far lend, owe and stake what the rows so far do.
LEMMA LentSofar ==
    ASSUME NEW hist, HistoryOK(hist), NEW t \in Nat, NEW w \in Nat,
           ProgramStart <= w, w < ProgramEnd
    PROVE  LET U == Sofar(Timeline(hist, t), w)
           IN  /\ SumFunction([f \in U |-> f.lending]) = SumUpto(LendingDelta, hist.loans, w)
               /\ SumFunction([f \in U |-> f.borrowing]) = SumUpto(BorrowingDelta, hist.loans, w)
<1> DEFINE line == Timeline(hist, t)
           U == Sofar(line, w)
           table == hist.loans
           D == {j \in DOMAIN table : table[j].time <= w}
           Old == {j \in DOMAIN table : table[j].time < ProgramStart}
           gl == [f \in line |-> f.lending]
           gb == [f \in line |-> f.borrowing]
           dl == [i \in DOMAIN table |-> LendingDelta(table[i])]
           db == [i \in DOMAIN table |-> BorrowingDelta(table[i])]
           Q == TransactionRows(hist)
           entry == [i \in Q |-> TransactionEntry(hist, i)]
           first == InitialEntry(hist)
<1>1. IsFiniteSet(line) /\ (\A f \in line : EntryOK(f)) /\ first \in line
      BY TimelineFinite, EntriesTyped DEF Timeline
<1>2. IsFiniteSet(DOMAIN table) /\ \A i \in DOMAIN table : table[i] \in Transaction
  <2>1. DOMAIN table = 1 .. Len(table) /\ Len(table) \in Int
        BY DEF HistoryOK
  <2>2. \A i \in DOMAIN table : table[i] \in Transaction
        BY DEF HistoryOK
  <2> QED BY <2>1, <2>2, FS_Interval
<1>3. \A f \in line : f.at \in Nat /\ f.lending \in Int /\ f.borrowing \in Int
      BY <1>1 DEF EntryOK
<1>4. \A i \in DOMAIN table : table[i].time \in Nat
      BY <1>2, RowTimes
<1>5. Integers(gl, line) /\ Integers(gb, line)
      BY <1>3 DEF Integers
<1>6. Integers(dl, DOMAIN table) /\ Integers(db, DOMAIN table)
      BY <1>2, DeltasAreInts DEF Integers
<1>7. Old \subseteq DOMAIN table /\ D \subseteq DOMAIN table /\ IsFiniteSet(Old) /\ IsFiniteSet(D)
  <2>1. Old \in SUBSET DOMAIN table /\ D \in SUBSET DOMAIN table
        OBVIOUS
  <2> HIDE DEF Old, D
  <2> QED BY <1>2, <2>1, FS_Subset
<1>8. /\ first.at = ProgramStart
      /\ gl[first] = SumFunctionOnSet(dl, Old) /\ gb[first] = SumFunctionOnSet(db, Old)
  <2> DEFINE l == [i \in Old |-> LendingDelta(table[i])]
             b == [i \in Old |-> BorrowingDelta(table[i])]
  <2>1. first.lending = SumFunction(l) /\ first.borrowing = SumFunction(b)
        BY DEF InitialEntry, SumIf
  <2>2. /\ DOMAIN l = Old /\ \A i \in Old : l[i] = dl[i]
        /\ DOMAIN b = Old /\ \A i \in Old : b[i] = db[i]
        OBVIOUS
  <2> HIDE DEF l, b, Old, dl, db
  <2>3. SumFunction(l) = SumFunctionOnSet(dl, Old) /\ SumFunction(b) = SumFunctionOnSet(db, Old)
        BY <1>7, <2>2, SumOfRestriction
  <2> QED BY <1>1, <2>1, <2>3, InitialEntryFacts
<1>9. Q \in SUBSET DOMAIN table
      BY DEF TransactionRows
<1>10. ASSUME NEW i \in Q
       PROVE  /\ entry[i] \in line /\ entry[i] # first /\ entry[i].at = table[i].time
              /\ ProgramStart <= table[i].time
              /\ dl[i] = gl[entry[i]] /\ db[i] = gb[entry[i]]
              /\ entry[i].src = i
  <2>1. entry[i] = TransactionEntry(hist, i)
        OBVIOUS
  <2>2. entry[i] \in line
        BY <2>1, EntriesByRow DEF Timeline
  <2>3. entry[i].type = "TRANSACTION" /\ entry[i].src = i /\ ProgramStart <= entry[i].at
        BY <2>1, TransactionEntryFacts
  <2>4. /\ entry[i].at = table[i].time /\ entry[i].lending = LendingDelta(table[i])
        /\ entry[i].borrowing = BorrowingDelta(table[i])
        BY <2>1 DEF TransactionEntry
  <2>5. first.type = "INITIAL"
        BY InitialEntryFacts
  <2> HIDE DEF entry, line, first
  <2> QED BY <1>9, <2>2, <2>3, <2>4, <2>5
<1>12. ASSUME NEW f \in line
       PROVE  f = first \/ (gl[f] = 0 /\ gb[f] = 0) \/ \E i \in Q : f = entry[i]
  <2>1. CASE \E i \in StakingRows(hist) : f = StakingEntry(hist, i)
        BY <2>1 DEF StakingEntry
  <2>2. CASE \E i \in ExpiryRows(hist, t) : f = ExpiryEntry(hist, i)
        BY <2>2 DEF ExpiryEntry
  <2> QED BY <2>1, <2>2, EntryKinds
<1>13. ASSUME NEW i \in DOMAIN table, ProgramStart <= table[i].time, table[i].time <= w
       PROVE  i \in Q \/ (dl[i] = 0 /\ db[i] = 0)
  <2>1. CASE table[i].token = "USDC"
    <3>1. InProgram(table[i])
          BY <1>4, <1>13, PointsAssumption DEF InProgram
    <3> QED BY <2>1, <3>1 DEF TransactionRows
  <2>2. CASE table[i].token # "USDC"
        BY <2>2 DEF LendingDelta, BorrowingDelta
  <2> QED BY <2>1, <2>2
<1>14. U \subseteq line /\ U = {f \in line : f.at <= w}
      BY DEF Sofar
<1>15. IsFiniteSet(U)
  <2>1. U \in SUBSET line
        BY <1>14
  <2> HIDE DEF U, line
  <2> QED BY <1>1, <2>1, FS_Subset
<1> DEFINE ul == [f \in U |-> f.lending]
           ub == [f \in U |-> f.borrowing]
           rl == [i \in D |-> LendingDelta(table[i])]
           rb == [i \in D |-> BorrowingDelta(table[i])]
<1>16. /\ SumUpto(LendingDelta, table, w) = SumFunction(rl)
       /\ SumUpto(BorrowingDelta, table, w) = SumFunction(rb)
      BY DEF SumUpto, SumIf
<1>17. /\ DOMAIN rl = D /\ \A i \in D : rl[i] = dl[i]
       /\ DOMAIN rb = D /\ \A i \in D : rb[i] = db[i]
      OBVIOUS
<1>18. /\ DOMAIN ul = U /\ \A f \in U : ul[f] = gl[f]
       /\ DOMAIN ub = U /\ \A f \in U : ub[f] = gb[f]
      BY <1>14
<1>19. D = {i \in DOMAIN table : table[i].time <= w}
      OBVIOUS
<1>20. Old = {i \in DOMAIN table : table[i].time < ProgramStart}
      OBVIOUS
<1> HIDE DEF line, U, D, Old, gl, gb, dl, db, Q, entry, first, ul, ub, rl, rb
<1>21. /\ SumFunction(rl) = SumFunctionOnSet(dl, D) /\ SumFunction(rb) = SumFunctionOnSet(db, D)
       /\ SumFunction(ul) = SumFunctionOnSet(gl, U) /\ SumFunction(ub) = SumFunctionOnSet(gb, U)
      BY <1>7, <1>15, <1>17, <1>18, SumOfRestriction
<1>11. \A i, j \in Q : entry[i] = entry[j] => i = j
      BY <1>10
<1>22. ProgramStart \in Nat
      BY PointsAssumption
<1> HIDE DEF table
<1>23. SumFunctionOnSet(gl, U) = SumFunctionOnSet(dl, D)
  <2>1. SumFunctionOnSet(gl, {f \in line : f.at <= w}) =
            SumFunctionOnSet(dl, {i \in DOMAIN table : table[i].time <= w})
    <3>1. gl[first] = SumFunctionOnSet(dl, {i \in DOMAIN table : table[i].time < ProgramStart})
          BY <1>8, <1>20
    <3>2. \A i \in Q : /\ entry[i] \in line /\ entry[i] # first
                       /\ entry[i].at = table[i].time /\ ProgramStart <= table[i].time
                       /\ dl[i] = gl[entry[i]]
          BY <1>10
    <3>3. \A f \in line : f = first \/ gl[f] = 0 \/ \E i \in Q : f = entry[i]
          BY <1>12
    <3>4. \A i \in DOMAIN table :
              ProgramStart <= table[i].time /\ table[i].time <= w => i \in Q \/ dl[i] = 0
          BY <1>13
    <3>5. first.at = ProgramStart /\ first \in line /\ \A f \in line : f.at \in Nat
          BY <1>1, <1>3, <1>8
    <3>6. IsFiniteSet(line) /\ IsFiniteSet(DOMAIN table)
          BY <1>1, <1>2
    <3>7. Integers(gl, line) /\ Integers(dl, DOMAIN table)
          BY <1>5, <1>6
    <3>8. MadeOfRows(line, gl, first, table, dl, ProgramStart, w, Q, entry)
          BY <1>4, <1>9, <1>11, <3>1, <3>2, <3>3, <3>4, <3>5, <3>6, <3>7 DEF MadeOfRows
    <3> QED BY <1>22, <3>8, EntriesSumRows
  <2> QED BY <1>14, <1>19, <2>1
<1>24. SumFunctionOnSet(gb, U) = SumFunctionOnSet(db, D)
  <2>1. SumFunctionOnSet(gb, {f \in line : f.at <= w}) =
            SumFunctionOnSet(db, {i \in DOMAIN table : table[i].time <= w})
    <3>1. gb[first] = SumFunctionOnSet(db, {i \in DOMAIN table : table[i].time < ProgramStart})
          BY <1>8, <1>20
    <3>2. \A i \in Q : /\ entry[i] \in line /\ entry[i] # first
                       /\ entry[i].at = table[i].time /\ ProgramStart <= table[i].time
                       /\ db[i] = gb[entry[i]]
          BY <1>10
    <3>3. \A f \in line : f = first \/ gb[f] = 0 \/ \E i \in Q : f = entry[i]
          BY <1>12
    <3>4. \A i \in DOMAIN table :
              ProgramStart <= table[i].time /\ table[i].time <= w => i \in Q \/ db[i] = 0
          BY <1>13
    <3>5. first.at = ProgramStart /\ first \in line /\ \A f \in line : f.at \in Nat
          BY <1>1, <1>3, <1>8
    <3>6. IsFiniteSet(line) /\ IsFiniteSet(DOMAIN table)
          BY <1>1, <1>2
    <3>7. Integers(gb, line) /\ Integers(db, DOMAIN table)
          BY <1>5, <1>6
    <3>8. MadeOfRows(line, gb, first, table, db, ProgramStart, w, Q, entry)
          BY <1>4, <1>9, <1>11, <3>1, <3>2, <3>3, <3>4, <3>5, <3>6, <3>7 DEF MadeOfRows
    <3> QED BY <1>22, <3>8, EntriesSumRows
  <2> QED BY <1>14, <1>19, <2>1
<1>25. /\ SumFunction(ul) = SumUpto(LendingDelta, table, w)
       /\ SumFunction(ub) = SumUpto(BorrowingDelta, table, w)
      BY <1>16, <1>21, <1>23, <1>24
<1> QED BY <1>25 DEF table, ul, ub, U, line

LEMMA StakedSofar ==
    ASSUME NEW hist, HistoryOK(hist), NEW t \in Nat, NEW w \in Nat,
           ProgramStart <= w, w < ProgramEnd
    PROVE  SumFunction([f \in Sofar(Timeline(hist, t), w) |-> f.staking]) =
               SumUpto(StakingDelta, hist.stakes, w)
<1> DEFINE line == Timeline(hist, t)
           U == Sofar(line, w)
           table == hist.stakes
           D == {j \in DOMAIN table : table[j].time <= w}
           Old == {j \in DOMAIN table : table[j].time < ProgramStart}
           g == [f \in line |-> f.staking]
           d == [i \in DOMAIN table |-> StakingDelta(table[i])]
           Q == StakingRows(hist)
           entry == [i \in Q |-> StakingEntry(hist, i)]
           first == InitialEntry(hist)
<1>1. IsFiniteSet(line) /\ (\A f \in line : EntryOK(f)) /\ first \in line
      BY TimelineFinite, EntriesTyped DEF Timeline
<1>2. IsFiniteSet(DOMAIN table) /\ \A i \in DOMAIN table : table[i] \in StakingEvent
  <2>1. DOMAIN table = 1 .. Len(table) /\ Len(table) \in Int
        BY DEF HistoryOK
  <2>2. \A i \in DOMAIN table : table[i] \in StakingEvent
        BY DEF HistoryOK
  <2> QED BY <2>1, <2>2, FS_Interval
<1>3. \A f \in line : f.at \in Nat /\ f.staking \in Int
      BY <1>1 DEF EntryOK
<1>4. \A i \in DOMAIN table : table[i].time \in Nat
      BY <1>2, RowTimes
<1>5. Integers(g, line)
      BY <1>3 DEF Integers
<1>6. Integers(d, DOMAIN table)
      BY <1>2, DeltasAreInts DEF Integers
<1>7. IsFiniteSet(Old) /\ IsFiniteSet(D)
  <2>1. Old \in SUBSET DOMAIN table /\ D \in SUBSET DOMAIN table
        OBVIOUS
  <2> HIDE DEF Old, D
  <2> QED BY <1>2, <2>1, FS_Subset
<1>8. first.at = ProgramStart /\ g[first] = SumFunctionOnSet(d, Old)
  <2> DEFINE s == [i \in Old |-> StakingDelta(table[i])]
  <2>1. first.staking = SumFunction(s)
        BY DEF InitialEntry, SumIf
  <2>2. DOMAIN s = Old /\ \A i \in Old : s[i] = d[i]
        OBVIOUS
  <2> HIDE DEF s, Old, d
  <2>3. SumFunction(s) = SumFunctionOnSet(d, Old)
        BY <1>7, <2>2, SumOfRestriction
  <2> QED BY <1>1, <2>1, <2>3, InitialEntryFacts
<1>9. Q \in SUBSET DOMAIN table
      BY DEF StakingRows
<1>10. ASSUME NEW i \in Q
       PROVE  /\ entry[i] \in line /\ entry[i] # first /\ entry[i].at = table[i].time
              /\ ProgramStart <= table[i].time /\ d[i] = g[entry[i]]
              /\ entry[i].src = i
  <2>1. entry[i] = StakingEntry(hist, i)
        OBVIOUS
  <2>2. entry[i] \in line
        BY <2>1, EntriesByRow DEF Timeline
  <2>3. entry[i].type = "STAKING" /\ entry[i].src = i /\ ProgramStart <= entry[i].at
        BY <2>1, StakingEntryFacts
  <2>4. entry[i].at = table[i].time /\ entry[i].staking = StakingDelta(table[i])
        BY <2>1 DEF StakingEntry
  <2>5. first.type = "INITIAL"
        BY InitialEntryFacts
  <2> HIDE DEF entry, line, first
  <2> QED BY <1>9, <2>2, <2>3, <2>4, <2>5
<1>11. ASSUME NEW f \in line
       PROVE  f = first \/ g[f] = 0 \/ \E i \in Q : f = entry[i]
  <2>1. CASE \E i \in TransactionRows(hist) : f = TransactionEntry(hist, i)
        BY <2>1 DEF TransactionEntry
  <2>2. CASE \E i \in ExpiryRows(hist, t) : f = ExpiryEntry(hist, i)
        BY <2>2 DEF ExpiryEntry
  <2> QED BY <2>1, <2>2, EntryKinds
<1>12. ASSUME NEW i \in DOMAIN table, ProgramStart <= table[i].time, table[i].time <= w
       PROVE  i \in Q
  <2>1. InProgram(table[i])
        BY <1>4, <1>12, PointsAssumption DEF InProgram
  <2> QED BY <2>1 DEF StakingRows
<1>13. U \subseteq line /\ U = {f \in line : f.at <= w}
      BY DEF Sofar
<1>14. IsFiniteSet(U)
  <2>1. U \in SUBSET line
        BY <1>13
  <2> HIDE DEF U, line
  <2> QED BY <1>1, <2>1, FS_Subset
<1> DEFINE u == [f \in U |-> f.staking]
           r == [i \in D |-> StakingDelta(table[i])]
<1>15. SumUpto(StakingDelta, table, w) = SumFunction(r)
      BY DEF SumUpto, SumIf
<1>16. /\ DOMAIN r = D /\ \A i \in D : r[i] = d[i]
       /\ DOMAIN u = U /\ \A f \in U : u[f] = g[f]
      BY <1>13
<1>17. D = {i \in DOMAIN table : table[i].time <= w}
      OBVIOUS
<1>18. Old = {i \in DOMAIN table : table[i].time < ProgramStart}
      OBVIOUS
<1> HIDE DEF line, U, D, Old, g, d, Q, entry, first, u, r
<1>19. SumFunction(r) = SumFunctionOnSet(d, D) /\ SumFunction(u) = SumFunctionOnSet(g, U)
      BY <1>7, <1>14, <1>16, SumOfRestriction
<1>20. \A i, j \in Q : entry[i] = entry[j] => i = j
      BY <1>10
<1>21. ProgramStart \in Nat
      BY PointsAssumption
<1> HIDE DEF table
<1>22. MadeOfRows(line, g, first, table, d, ProgramStart, w, Q, entry)
  <2>1. g[first] = SumFunctionOnSet(d, {i \in DOMAIN table : table[i].time < ProgramStart})
        BY <1>8, <1>18
  <2>2. \A i \in Q : /\ entry[i] \in line /\ entry[i] # first
                     /\ entry[i].at = table[i].time /\ ProgramStart <= table[i].time
                     /\ d[i] = g[entry[i]]
        BY <1>10
  <2>3. \A f \in line : f = first \/ g[f] = 0 \/ \E i \in Q : f = entry[i]
        BY <1>11
  <2>4. \A i \in DOMAIN table :
            ProgramStart <= table[i].time /\ table[i].time <= w => i \in Q \/ d[i] = 0
        BY <1>12
  <2>5. /\ first.at = ProgramStart /\ first \in line /\ IsFiniteSet(line)
        /\ IsFiniteSet(DOMAIN table) /\ \A f \in line : f.at \in Nat
        BY <1>1, <1>2, <1>3, <1>8
  <2> QED BY <1>4, <1>5, <1>6, <1>9, <1>20, <2>1, <2>2, <2>3, <2>4, <2>5 DEF MadeOfRows
<1>23. SumFunctionOnSet(g, U) = SumFunctionOnSet(d, D)
  <2>1. SumFunctionOnSet(g, {f \in line : f.at <= w}) =
            SumFunctionOnSet(d, {i \in DOMAIN table : table[i].time <= w})
        BY <1>21, <1>22, EntriesSumRows
  <2> QED BY <1>13, <1>17, <2>1
<1>24. SumFunction(u) = SumUpto(StakingDelta, table, w)
      BY <1>15, <1>19, <1>23
<1> QED BY <1>24 DEF table, u, U, line

-----------------------------------------------------------------------------
(* Which entry a week belongs to.                                           *)

LEMMA BeforeIsOrder ==
    ASSUME NEW e, NEW f, NEW g, EntryOK(e), EntryOK(f), EntryOK(g)
    PROVE  /\ ~(Before(e, f) /\ Before(f, e)) /\ ~Before(e, e)
           /\ Before(e, f) /\ Before(f, g) => Before(e, g)
<1>1. /\ e.at \in Nat /\ f.at \in Nat /\ g.at \in Nat
      /\ e.src \in Nat /\ f.src \in Nat /\ g.src \in Nat
      BY DEF EntryOK
<1>2. Rank(e.type) \in Nat /\ Rank(f.type) \in Nat /\ Rank(g.type) \in Nat
      BY RankFacts DEF EntryOK, EntryTypes
<1> QED BY <1>1, <1>2 DEF Before

LEMMA LastEntryExists ==
    ASSUME NEW hist, HistoryOK(hist), NEW t \in Nat,
           NEW K \in SUBSET Timeline(hist, t), K # {}
    PROVE  \E f \in K : \A g \in K : g = f \/ Before(g, f)
<1> DEFINE line == Timeline(hist, t)
           HasLast(u) == \E f \in u : \A g \in u : g = f \/ Before(g, f)
           Bad == {u \in FiniteSubsetsOf(K) : u # {} /\ ~HasLast(u)}
<1>0. IsFiniteSet(K) /\ \A f \in line : EntryOK(f)
      BY TimelineFinite, FS_Subset, EntriesTyped
<1>1. ASSUME Bad # {} PROVE FALSE
  <2>0. PICK U \in Bad : \A V \in Bad : V \subseteq U => V = U
    <3> HIDE DEF Bad
    <3>1. Bad \subseteq FiniteSubsetsOf(K) BY DEF Bad
    <3> QED BY <1>1, <3>1, SmallestSet
  <2>1. IsFiniteSet(U) /\ U \subseteq K /\ U # {} /\ ~HasLast(U)
        BY DEF FiniteSubsetsOf
  <2>2. PICK p \in U : TRUE
        BY <2>1
  <2> DEFINE V == U \ {p}
  <2>3. V \in FiniteSubsetsOf(K) /\ V \subseteq U /\ V # U
        BY <2>1, <2>2, FS_Subset DEF FiniteSubsetsOf
  <2>4. V \notin Bad
    <3> HIDE DEF Bad, V
    <3> QED BY <2>0, <2>3
  <2>5. V # {}
    <3>1. V = {} => U = {p}
          BY <2>2
    <3> QED BY <2>1, <3>1
  <2>6. HasLast(V)
        BY <2>3, <2>4, <2>5
  <2>7. PICK f \in V : \A g \in V : g = f \/ Before(g, f)
        BY <2>6
  <2>8. f # p /\ f \in line /\ p \in line /\ f \in U
        BY <2>1, <2>2
  <2>9. Before(p, f) \/ Before(f, p)
        BY <2>8, EntriesOrdered
  <2>10. CASE Before(p, f)
    <3>1. \A g \in U : g = f \/ Before(g, f)
          BY <2>7, <2>10
    <3> QED BY <2>1, <2>8, <3>1
  <2>11. CASE Before(f, p)
    <3>1. ASSUME NEW g \in U PROVE g = p \/ Before(g, p)
      <4>1. g = p \/ g = f \/ Before(g, f)
            BY <2>7
      <4>2. EntryOK(g) /\ EntryOK(f) /\ EntryOK(p)
            BY <1>0, <2>1, <2>8
      <4> QED BY <2>11, <4>1, <4>2, BeforeIsOrder
    <3> QED BY <2>1, <2>2, <3>1
  <2> QED BY <2>9, <2>10, <2>11
<1>2. K \in FiniteSubsetsOf(K)
      BY <1>0 DEF FiniteSubsetsOf
<1> QED BY <1>1, <1>2

\* In its period, an entry has every entry so far before it.
LEMMA UpToIsSofar ==
    ASSUME NEW hist, HistoryOK(hist), NEW t \in Nat, NEW e \in Timeline(hist, t), NEW w \in Nat,
           e.at <= w, w < PeriodEnd(Timeline(hist, t), e, t)
    PROVE  UpTo(Timeline(hist, t), e) = Sofar(Timeline(hist, t), w)
<1> DEFINE line == Timeline(hist, t)
<1>0. \A f \in line : EntryOK(f)
      BY EntriesTyped
<1>1. ASSUME NEW f \in line, f = e \/ Before(f, e) PROVE f.at <= w
  <2>1. EntryOK(e) /\ EntryOK(f)
        BY <1>0
  <2>2. f.at <= e.at
        BY <1>1, <2>1, BeforeIsNotLater DEF EntryOK
  <2> QED BY <2>1, <2>2 DEF EntryOK
<1>2. ASSUME NEW f \in line, f.at <= w PROVE f = e \/ Before(f, e)
  <2>1. f.at \in Nat
        BY <1>0 DEF EntryOK
  <2>2. /\ PeriodEnd(line, e, t) \in Nat
        /\ Before(e, f) => PeriodEnd(line, e, t) <= f.at
        BY PeriodEndFacts
  <2>3. ~Before(e, f)
        BY <1>2, <2>1, <2>2
  <2> QED BY <2>3, EntriesOrdered
<1> HIDE DEF line
<1>3. UpTo(line, e) = Sofar(line, w)
      BY <1>1, <1>2 DEF UpTo, Sofar
<1> QED BY <1>3 DEF line

\* Every week of the program so far lies in a period, and in one only.
LEMMA WeekHasPeriod ==
    ASSUME NEW hist, HistoryOK(hist), NEW t \in Nat, NEW w \in Nat,
           ProgramStart <= w, w < EffectiveEnd(t)
    PROVE  \E p \in wallet_points_detailed(hist, t) : p.from <= w /\ w < p.to
<1> DEFINE line == Timeline(hist, t)
           K == Sofar(line, w)
<1>0. \A f \in line : EntryOK(f)
      BY EntriesTyped
<1>1. InitialEntry(hist) \in K
      BY InitialEntryFacts DEF Sofar, Timeline
<1>2. K \in SUBSET line /\ K # {}
      BY <1>1 DEF Sofar
<1>3. PICK e \in K : \A g \in K : g = e \/ Before(g, e)
  <2> HIDE DEF K
  <2> QED BY <1>2, LastEntryExists
<1>4. e \in line /\ e.at <= w
      BY DEF Sofar
<1>5. w < PeriodEnd(line, e, t)
  <2>1. /\ PeriodEnd(line, e, t) \in Nat
        /\ \/ PeriodEnd(line, e, t) = EffectiveEnd(t)
           \/ \E f \in line : Before(e, f) /\ PeriodEnd(line, e, t) = f.at
        BY PeriodEndFacts
  <2>2. ASSUME NEW f \in line, Before(e, f), f.at <= w PROVE FALSE
    <3>1. f \in K
          BY <2>2 DEF Sofar
    <3>2. f = e \/ Before(f, e)
          BY <1>3, <3>1
    <3>3. EntryOK(e) /\ EntryOK(f)
          BY <1>0, <1>4
    <3> QED BY <2>2, <3>2, <3>3, BeforeIsOrder
  <2>3. \A f \in line : f.at \in Nat
        BY <1>0 DEF EntryOK
  <2> HIDE DEF line, K
  <2>4. ASSUME NEW f \in line, Before(e, f), PeriodEnd(line, e, t) = f.at PROVE w < f.at
        BY <2>2, <2>3, <2>4
  <2> QED BY <2>1, <2>4
<1> DEFINE p == Period(line, e, t)
<1>6. p.from = e.at /\ p.to = PeriodEnd(line, e, t)
      BY DEF Period
<1>7. PeriodOK(p)
      BY <1>4, PeriodsTyped
<1> HIDE DEF p
<1>8. p.from < EffectiveEnd(t) /\ p.from < p.to
      BY <1>4, <1>5, <1>6, <1>7, EffectiveEndFacts DEF PeriodOK
<1>9. p \in wallet_points_detailed(hist, t)
      BY <1>4, <1>8, DetailedElements DEF p
<1> QED BY <1>4, <1>5, <1>6, <1>9

LEMMA OnePeriodPerWeek ==
    ASSUME NEW hist, HistoryOK(hist), NEW t \in Nat, NEW w \in Nat,
           NEW p \in wallet_points_detailed(hist, t), p.from <= w, w < p.to,
           NEW q \in wallet_points_detailed(hist, t), q.from <= w, w < q.to
    PROVE  p = q
<1> DEFINE line == Timeline(hist, t)
<1>1. PICK e \in line : p = Period(line, e, t)
      BY DetailedElements
<1>2. PICK f \in line : q = Period(line, f, t)
      BY DetailedElements
<1>3. /\ p.from = e.at /\ p.to = PeriodEnd(line, e, t)
      /\ q.from = f.at /\ q.to = PeriodEnd(line, f, t)
      BY <1>1, <1>2 DEF Period
<1>4. /\ PeriodEnd(line, e, t) \in Nat /\ (Before(e, f) => PeriodEnd(line, e, t) <= f.at)
      /\ PeriodEnd(line, f, t) \in Nat /\ (Before(f, e) => PeriodEnd(line, f, t) <= e.at)
      /\ e.at \in Nat /\ f.at \in Nat
      BY PeriodEndFacts, EntriesTyped DEF EntryOK
<1>5. ~Before(e, f) /\ ~Before(f, e)
      BY <1>3, <1>4
<1>6. e = f
      BY <1>5, EntriesOrdered
<1> QED BY <1>1, <1>2, <1>6

-----------------------------------------------------------------------------
(* The boost of a period is that of the lock that runs in each of its weeks. *)

LEMMA MaxIsGreatest ==
    ASSUME NEW S \in SUBSET Int, NEW m \in S, \A n \in S : n <= m
    PROVE  Max(S) = m
<1>1. m \in Int /\ \A n \in S : n \in Int /\ m >= n
      OBVIOUS
<1>2. Max(S) \in S /\ \A n \in S : Max(S) >= n
      BY <1>1 DEF Max
<1>3. Max(S) \in Int /\ Max(S) >= m /\ Max(S) <= m
      BY <1>1, <1>2
<1> QED BY <1>1, <1>3

LEMMA MaxOfRows ==
    ASSUME NEW n \in Nat, NEW S \in SUBSET (1 .. n), S # {}
    PROVE  Max(S) \in S
<1> DEFINE K == {n - i : i \in S}
<1>1. K \in SUBSET Nat /\ K # {}
  <2>1. \A i \in S : n - i \in Nat
        OBVIOUS
  <2>2. K # {}
        OBVIOUS
  <2> QED BY <2>1, <2>2
<1>2. Min(K) \in K /\ \A k \in K : Min(K) <= k
  <2> HIDE DEF K
  <2> QED BY <1>1, MinIsLeast
<1>3. PICK i \in S : Min(K) = n - i
      BY <1>2
<1>4. ASSUME NEW j \in S PROVE j <= i
  <2>1. n - j \in K
        OBVIOUS
  <2>2. Min(K) <= n - j
        BY <1>2, <2>1
  <2>3. i \in Int /\ j \in Int /\ n - i <= n - j
    <3> HIDE DEF K
    <3> QED BY <1>3, <2>2
  <2> HIDE DEF K
  <2> QED BY <2>3
<1>5. S \in SUBSET Int
      OBVIOUS
<1> QED BY <1>4, <1>5, MaxIsGreatest

\* The entry f names the lock of stake i, or its end.
LockOf(f, hist, i) ==
    /\ i \in DOMAIN hist.stakes /\ IsStake(hist.stakes[i])
    /\ f.start = hist.stakes[i].time
    /\ \/ /\ f = StakingEntry(hist, i) /\ f.type = "STAKING" /\ i \in StakingRows(hist)
          /\ f.at = hist.stakes[i].time /\ f.lock = hist.stakes[i].lock
       \/ /\ f = InitialEntry(hist) /\ f.type = "INITIAL" /\ i = Max(InitialStakes(hist))
          /\ hist.stakes[i].time < ProgramStart /\ f.at = ProgramStart
          /\ f.lock = hist.stakes[i].lock
       \/ /\ f.type = "LOCK_EXPIRY" /\ LockedStake(hist.stakes[i])
          /\ f.at = ExpiryAt(hist.stakes[i]) /\ f.lock = 0
          /\ ProgramStart <= f.at

LEMMA StakesTyped ==
    ASSUME NEW hist, HistoryOK(hist), NEW i \in DOMAIN hist.stakes
    PROVE  /\ hist.stakes[i] \in StakingEvent
           /\ hist.stakes[i].time \in Nat /\ hist.stakes[i].lock \in Nat
           /\ i \in Nat
<1>1. hist.stakes \in Seq(StakingEvent)
      BY DEF HistoryOK
<1>2. hist.stakes[i] \in StakingEvent /\ i \in Nat
      BY <1>1
<1> QED BY <1>2 DEF StakingEvent

LEMMA InitialLock ==
    ASSUME NEW hist, HistoryOK(hist), InitialStakes(hist) # {}
    PROVE  LockOf(InitialEntry(hist), hist, Max(InitialStakes(hist)))
<1> DEFINE i == Max(InitialStakes(hist))
<1>1. /\ InitialStakes(hist) \in SUBSET (1 .. Len(hist.stakes)) /\ Len(hist.stakes) \in Nat
      BY DEF HistoryOK, InitialStakes
<1>2. i \in InitialStakes(hist)
      BY <1>1, MaxOfRows
<1>3. InitialEntry(hist).at = ProgramStart /\ InitialEntry(hist).type = "INITIAL"
      BY InitialEntryFacts
<1>4. InitialEntry(hist).lock = hist.stakes[i].lock /\ InitialEntry(hist).start = hist.stakes[i].time
      BY DEF InitialEntry
<1>5. i \in DOMAIN hist.stakes /\ IsStake(hist.stakes[i]) /\ hist.stakes[i].time < ProgramStart
      BY <1>2 DEF InitialStakes
<1> QED BY <1>3, <1>4, <1>5 DEF LockOf

LEMMA EntriesNameLocks ==
    ASSUME NEW hist, HistoryOK(hist), NEW t \in Nat, NEW f \in Timeline(hist, t)
    PROVE  \/ f.lock = Null /\ f.start = Null
           \/ \E i \in DOMAIN hist.stakes : LockOf(f, hist, i)
<1>1. CASE f = InitialEntry(hist)
  <2>1. CASE InitialStakes(hist) = {}
        BY <1>1, <2>1 DEF InitialEntry
  <2>2. CASE InitialStakes(hist) # {}
        BY <1>1, <2>2, InitialLock DEF LockOf
  <2> QED BY <2>1, <2>2
<1>2. ASSUME NEW i \in TransactionRows(hist), f = TransactionEntry(hist, i)
      PROVE  f.lock = Null /\ f.start = Null
      BY <1>2 DEF TransactionEntry
<1>3. ASSUME NEW i \in StakingRows(hist), f = StakingEntry(hist, i)
      PROVE  (f.lock = Null /\ f.start = Null) \/ LockOf(f, hist, i)
  <2>1. i \in DOMAIN hist.stakes
        BY DEF StakingRows
  <2>2. CASE IsStake(hist.stakes[i])
        BY <1>3, <2>1, <2>2 DEF LockOf, StakingEntry
  <2>3. CASE ~IsStake(hist.stakes[i])
        BY <1>3, <2>3 DEF StakingEntry
  <2> QED BY <2>2, <2>3
<1>4. ASSUME NEW i \in ExpiryRows(hist, t), f = ExpiryEntry(hist, i)
      PROVE  LockOf(f, hist, i)
  <2>1. /\ i \in DOMAIN hist.stakes /\ LockedStake(hist.stakes[i])
        /\ ProgramStart <= ExpiryAt(hist.stakes[i])
        BY DEF ExpiryRows
  <2>2. IsStake(hist.stakes[i])
        BY <2>1 DEF LockedStake
  <2> QED BY <1>4, <2>1, <2>2 DEF LockOf, ExpiryEntry
<1>5. StakingRows(hist) \subseteq DOMAIN hist.stakes /\ ExpiryRows(hist, t) \subseteq DOMAIN hist.stakes
      BY DEF StakingRows, ExpiryRows
<1> QED BY <1>1, <1>2, <1>3, <1>4, <1>5, EntryKinds

\* The entries up to e that know of a lock.
Knowing(line, e) == {f \in UpTo(line, e) : f.lock # Null}

LEMMA LockIsKnown ==
    ASSUME NEW hist, HistoryOK(hist), NEW t \in Nat, NEW f, NEW i, LockOf(f, hist, i)
    PROVE  f.lock # Null /\ f.start # Null /\ f.lock \in Nat /\ f.start \in Nat
<1>1. /\ i \in DOMAIN hist.stakes
      /\ f.start = hist.stakes[i].time
      /\ f.lock = hist.stakes[i].lock \/ f.lock = 0
      BY DEF LockOf
<1>2. hist.stakes[i].time \in Nat /\ hist.stakes[i].lock \in Nat
      BY <1>1, StakesTyped
<1> QED BY <1>1, <1>2 DEF Null

\* Both columns of the window are those of one entry.
LEMMA LastKnownLock ==
    ASSUME NEW hist, HistoryOK(hist), NEW t \in Nat, NEW e \in Timeline(hist, t)
    PROVE  LET line == Timeline(hist, t)
               lock == LastKnown(LAMBDA f : f.lock, line, e)
               start == LastKnown(LAMBDA f : f.start, line, e)
           IN  /\ Knowing(line, e) = {} => lock = Null
               /\ Knowing(line, e) # {} =>
                      \E f \in Knowing(line, e) :
                          /\ \A g \in Knowing(line, e) : g = f \/ Before(g, f)
                          /\ lock = f.lock /\ start = f.start
<1> DEFINE line == Timeline(hist, t)
           K == Knowing(line, e)
           last == CHOOSE f \in K : \A g \in K : g = f \/ Before(g, f)
           KL == {f \in UpTo(line, e) : f.lock # Null}
           KS == {f \in UpTo(line, e) : f.start # Null}
<1>1. UpTo(line, e) \subseteq line
      BY DEF UpTo
<1>2. KL = K
      BY DEF Knowing
<1>3. KS = K
  <2>1. ASSUME NEW f \in line PROVE f.lock # Null <=> f.start # Null
        BY EntriesNameLocks, LockIsKnown
  <2> HIDE DEF line
  <2> QED BY <1>1, <2>1 DEF Knowing
<1>4. K \in SUBSET line
      BY <1>1 DEF Knowing
<1>5. K # {} => last \in K /\ \A g \in K : g = last \/ Before(g, last)
  <2>1. K # {} => \E f \in K : \A g \in K : g = f \/ Before(g, f)
    <3> HIDE DEF K
    <3> QED BY <1>4, LastEntryExists
  <2> HIDE DEF K, line
  <2> QED BY <2>1
<1>6. LastKnown(LAMBDA f : f.lock, line, e) =
          IF KL = {} THEN Null ELSE (CHOOSE f \in KL : \A g \in KL : g = f \/ Before(g, f)).lock
      BY DEF LastKnown
<1>7. LastKnown(LAMBDA f : f.start, line, e) =
          IF KS = {} THEN Null ELSE (CHOOSE f \in KS : \A g \in KS : g = f \/ Before(g, f)).start
      BY DEF LastKnown
<1> HIDE DEF KL, KS, K, line
<1>8. /\ LastKnown(LAMBDA f : f.lock, line, e) = IF K = {} THEN Null ELSE last.lock
      /\ LastKnown(LAMBDA f : f.start, line, e) = IF K = {} THEN Null ELSE last.start
      BY <1>2, <1>3, <1>6, <1>7
<1> HIDE DEF last
<1> QED BY <1>5, <1>8 DEF K, line

Running(hist, w) ==
    {i \in DOMAIN hist.stakes : /\ LockedStake(hist.stakes[i]) /\ hist.stakes[i].time <= w
                                /\ w < ExpiryAt(hist.stakes[i])}

LEMMA EntriesPresent ==
    ASSUME NEW hist, NEW t
    PROVE  /\ InitialEntry(hist) \in Timeline(hist, t)
           /\ \A i \in StakingRows(hist) : StakingEntry(hist, i) \in Timeline(hist, t)
           /\ \A i \in ExpiryRows(hist, t) : ExpiryEntry(hist, i) \in Timeline(hist, t)
BY EntriesByRow DEF Timeline

\* While no lock runs, the last entry that knows of one knows that it is over.
LEMMA NoLockRuns ==
    ASSUME NEW hist, HistoryOK(hist), NEW t \in Nat, NEW e \in Timeline(hist, t), NEW w \in Nat,
           e.at <= w, w < PeriodEnd(Timeline(hist, t), e, t), w < EffectiveEnd(t),
           Running(hist, w) = {},
           NEW f \in Knowing(Timeline(hist, t), e),
           \A g \in Knowing(Timeline(hist, t), e) : g = f \/ Before(g, f)
    PROVE  f.lock \in {Null, 0} \/ f.start + f.lock < e.at
<1> DEFINE line == Timeline(hist, t)
           K == Knowing(line, e)
<1>1. UpTo(line, e) = Sofar(line, w)
      BY UpToIsSofar
<1>2. f \in line /\ f.at <= w /\ f.lock # Null
      BY <1>1 DEF Knowing, Sofar
<1>3. PICK i \in DOMAIN hist.stakes : LockOf(f, hist, i)
      BY <1>2, EntriesNameLocks
<1> DEFINE r == hist.stakes[i]
<1>4. r.time \in Nat /\ r.lock \in Nat
      BY StakesTyped
<1>5. EffectiveEnd(t) \in Nat /\ ProgramStart \in Nat /\ e.at \in Nat /\ ProgramStart <= e.at
      BY EffectiveEndFacts, EntriesTyped, PointsAssumption DEF EntryOK
<1>6. ASSUME f.lock # 0, ~(f.start + f.lock < e.at) PROVE FALSE
  <2>1. /\ f.lock = r.lock /\ f.start = r.time /\ IsStake(r)
        /\ \/ f.type = "STAKING" /\ f.at = r.time
           \/ f.type = "INITIAL" /\ f.at = ProgramStart /\ r.time < ProgramStart
        BY <1>3, <1>6 DEF LockOf
  <2>2. r.lock > 0 /\ LockedStake(r)
        BY <1>4, <1>6, <2>1 DEF LockedStake
  <2>3. r.time <= w
        BY <1>2, <1>4, <1>5, <2>1
  <2>4. ~(w < ExpiryAt(r))
        BY <2>2, <2>3 DEF Running
  <2>5. ExpiryAt(r) = r.time + r.lock /\ ExpiryAt(r) \in Nat
        BY <1>4 DEF ExpiryAt
  <2>6. ProgramStart <= ExpiryAt(r) /\ ExpiryAt(r) < EffectiveEnd(t) /\ ExpiryAt(r) <= w
    <3> HIDE DEF r
    <3> QED BY <1>4, <1>5, <1>6, <2>1, <2>4, <2>5
  <2>7. i \in ExpiryRows(hist, t)
        BY <2>2, <2>6 DEF ExpiryRows
  <2> DEFINE x == ExpiryEntry(hist, i)
  <2>8. x \in line /\ x.at = ExpiryAt(r) /\ x.type = "LOCK_EXPIRY" /\ x.lock = 0
        BY <2>7, EntriesPresent DEF ExpiryEntry
  <2>9. x \in K
    <3>1. x \in Sofar(line, w) /\ x.lock # Null
      <4> HIDE DEF x, line
      <4> QED BY <2>6, <2>8 DEF Sofar, Null
    <3> QED BY <1>1, <3>1 DEF Knowing
  <2> HIDE DEF x
  <2>10. x = f \/ Before(x, f)
        BY <2>9
  <2>11. x # f
        BY <2>1, <2>8
  <2> HIDE DEF r
  <2>12. ~Before(x, f)
    <3>1. CASE f.type = "STAKING" /\ f.at = r.time
      <4>1. f.at < x.at /\ f.at \in Nat /\ x.at \in Nat
            BY <1>4, <2>2, <2>5, <2>8, <3>1
      <4> QED BY <4>1 DEF Before
    <3>2. CASE f.type = "INITIAL" /\ f.at = ProgramStart
      <4>1. f.at <= x.at /\ f.at \in Nat /\ x.at \in Nat
            BY <1>5, <2>5, <2>6, <2>8, <3>2
      <4>2. Rank(f.type) = 0 /\ Rank(x.type) = 1 /\ f.type # x.type
            BY <2>8, <3>2, RankFacts
      <4> QED BY <4>1, <4>2 DEF Before
    <3> QED BY <2>1, <3>1, <3>2
  <2> QED BY <2>10, <2>11, <2>12
<1> QED BY <1>6

\* A running lock is the only one, and the entry of its stake the last to know.
OwnEntry(hist, i) ==
    IF hist.stakes[i].time < ProgramStart THEN InitialEntry(hist) ELSE StakingEntry(hist, i)

LEMMA OneLockRuns ==
    ASSUME NEW hist, HistoryOK(hist), PlainHistory(hist.stakes), NEW w \in Nat,
           NEW i \in Running(hist, w), NEW j \in DOMAIN hist.stakes, IsStake(hist.stakes[j]),
           hist.stakes[j].time <= w
    PROVE  /\ j = i \/ hist.stakes[j].time < hist.stakes[i].time
           /\ j # i /\ LockedStake(hist.stakes[j])
                  => ExpiryAt(hist.stakes[j]) <= hist.stakes[i].time
<1>1. i \in DOMAIN hist.stakes /\ LockedStake(hist.stakes[i]) /\ w < ExpiryAt(hist.stakes[i])
      BY DEF Running
<1>2. /\ hist.stakes[i].time \in Nat /\ hist.stakes[j].time \in Nat
      /\ hist.stakes[i].lock \in Nat
      BY <1>1, StakesTyped
<1>3. ExpiryAt(hist.stakes[i]) \in Nat /\ IsStake(hist.stakes[i])
      BY <1>1, <1>2 DEF ExpiryAt, LockedStake
<1>4. hist.stakes[i].time = hist.stakes[j].time => j = i
      BY <1>1 DEF PlainHistory, StakesApart
<1>5. hist.stakes[i].time < hist.stakes[j].time => ExpiryAt(hist.stakes[i]) <= hist.stakes[j].time
      BY <1>1 DEF PlainHistory, LocksDisjoint
<1>6. j = i \/ hist.stakes[j].time < hist.stakes[i].time
      BY <1>1, <1>2, <1>3, <1>4, <1>5
<1>7. ASSUME j # i, LockedStake(hist.stakes[j])
      PROVE  ExpiryAt(hist.stakes[j]) <= hist.stakes[i].time
      BY <1>1, <1>3, <1>6, <1>7 DEF PlainHistory, LocksDisjoint
<1> QED BY <1>6, <1>7

LEMMA OwnEntryFacts ==
    ASSUME NEW hist, HistoryOK(hist), ByTime(hist.stakes), PlainHistory(hist.stakes),
           NEW t \in Nat, NEW w \in Nat, ProgramStart <= w, w < ProgramEnd,
           NEW i \in Running(hist, w)
    PROVE  LET o == OwnEntry(hist, i)
           IN  /\ o \in Timeline(hist, t) /\ o.at <= w /\ LockOf(o, hist, i)
               /\ o.lock = hist.stakes[i].lock
               /\ IF hist.stakes[i].time < ProgramStart
                  THEN o = InitialEntry(hist) /\ o.type = "INITIAL" /\ o.at = ProgramStart
                  ELSE /\ o = StakingEntry(hist, i) /\ o.type = "STAKING"
                       /\ o.at = hist.stakes[i].time
<1> DEFINE r == hist.stakes[i]
           o == OwnEntry(hist, i)
<1>1. i \in DOMAIN hist.stakes /\ LockedStake(r) /\ r.time <= w /\ w < ExpiryAt(r) /\ IsStake(r)
      BY DEF Running, LockedStake
<1>2. r.time \in Nat /\ r.lock \in Nat /\ ProgramStart \in Nat /\ ProgramEnd \in Nat
      BY <1>1, StakesTyped, PointsAssumption
<1>3. CASE r.time < ProgramStart
  <2>1. i \in InitialStakes(hist)
        BY <1>1, <1>3 DEF InitialStakes
  <2>2. ASSUME NEW j \in InitialStakes(hist) PROVE j <= i
    <3>1. /\ j \in DOMAIN hist.stakes /\ IsStake(hist.stakes[j])
          /\ hist.stakes[j].time < ProgramStart
          BY DEF InitialStakes
    <3>2. hist.stakes[j].time \in Nat /\ i \in Nat /\ j \in Nat
          BY <1>1, <3>1, StakesTyped
    <3>3. hist.stakes[j].time <= w
          BY <1>2, <3>1, <3>2
    <3>4. j = i \/ hist.stakes[j].time < r.time
          BY <3>1, <3>3, OneLockRuns
    <3>5. i < j => r.time <= hist.stakes[j].time
          BY <1>1, <3>1 DEF ByTime
    <3> HIDE DEF r
    <3> QED BY <1>2, <3>2, <3>4, <3>5
  <2>3. InitialStakes(hist) \in SUBSET Int
        BY DEF InitialStakes, HistoryOK
  <2>4. Max(InitialStakes(hist)) = i
        BY <2>1, <2>2, <2>3, MaxIsGreatest
  <2>5. LockOf(InitialEntry(hist), hist, i)
        BY <2>1, <2>4, InitialLock
  <2>6. InitialEntry(hist).at = ProgramStart /\ InitialEntry(hist).type = "INITIAL"
        BY InitialEntryFacts
  <2>7. InitialEntry(hist).lock = r.lock
        BY <2>1, <2>4 DEF InitialEntry
  <2>8. o = InitialEntry(hist)
        BY <1>3 DEF OwnEntry
  <2>9. o \in Timeline(hist, t)
        BY <2>8, EntriesPresent
  <2> HIDE DEF o
  <2> QED BY <1>3, <2>5, <2>6, <2>7, <2>8, <2>9 DEF o
<1>4. CASE ~(r.time < ProgramStart)
  <2>1. i \in StakingRows(hist)
        BY <1>1, <1>2, <1>4 DEF StakingRows, InProgram
  <2>2. o = StakingEntry(hist, i)
        BY <1>4 DEF OwnEntry
  <2>3. o \in Timeline(hist, t)
        BY <2>1, <2>2, EntriesPresent
  <2>4. o.at = r.time /\ o.type = "STAKING" /\ o.lock = r.lock /\ o.start = r.time
        BY <1>1, <2>2 DEF StakingEntry
  <2>5. LockOf(o, hist, i)
        BY <1>1, <2>1, <2>2, <2>4 DEF LockOf
  <2> QED BY <1>1, <1>4, <2>2, <2>3, <2>4, <2>5
<1> QED BY <1>3, <1>4

LEMMA OwnEntryIsLast ==
    ASSUME NEW hist, HistoryOK(hist), ByTime(hist.stakes), PlainHistory(hist.stakes),
           NEW t \in Nat, NEW w \in Nat, ProgramStart <= w, w < ProgramEnd,
           NEW i \in Running(hist, w),
           NEW f \in Timeline(hist, t), f.at <= w, NEW j, LockOf(f, hist, j)
    PROVE  f = OwnEntry(hist, i) \/ Before(f, OwnEntry(hist, i))
<1> DEFINE r == hist.stakes[i]
           s == hist.stakes[j]
           o == OwnEntry(hist, i)
<1>1. /\ i \in DOMAIN hist.stakes /\ w < ExpiryAt(r)
      /\ j \in DOMAIN hist.stakes /\ IsStake(s)
      BY DEF Running, LockOf
<1>2. /\ r.time \in Nat /\ r.lock \in Nat /\ ProgramStart \in Nat
      /\ s.time \in Nat /\ s.lock \in Nat
      BY <1>1, StakesTyped, PointsAssumption
<1>3. /\ o \in Timeline(hist, t) /\ o.at <= w
      /\ r.time < ProgramStart =>
             o = InitialEntry(hist) /\ o.type = "INITIAL" /\ o.at = ProgramStart
      /\ ~(r.time < ProgramStart) =>
             o = StakingEntry(hist, i) /\ o.type = "STAKING" /\ o.at = r.time
      BY OwnEntryFacts
<1>4. ExpiryAt(r) \in Nat /\ ExpiryAt(s) = s.time + s.lock /\ ExpiryAt(s) \in Nat
      BY <1>2 DEF ExpiryAt
<1>5. \/ /\ f = StakingEntry(hist, j) /\ f.type = "STAKING" /\ j \in StakingRows(hist)
         /\ f.at = s.time
      \/ /\ f = InitialEntry(hist) /\ f.type = "INITIAL" /\ s.time < ProgramStart
         /\ f.at = ProgramStart
      \/ /\ f.type = "LOCK_EXPIRY" /\ LockedStake(s) /\ f.at = ExpiryAt(s) /\ ProgramStart <= f.at
      BY DEF LockOf
<1>6. s.time <= w
      BY <1>2, <1>4, <1>5
<1>7. /\ j = i \/ s.time < r.time
      /\ j # i /\ LockedStake(s) => ExpiryAt(s) <= r.time
      BY <1>1, <1>6, OneLockRuns
<1>8. j \in StakingRows(hist) => ProgramStart <= s.time
      BY DEF StakingRows, InProgram
<1> HIDE DEF o, r, s
<1>9. CASE f = StakingEntry(hist, j) /\ f.type = "STAKING" /\ j \in StakingRows(hist) /\ f.at = s.time
  <2>1. ProgramStart <= s.time
        BY <1>8, <1>9
  <2>2. CASE j = i
    <3>1. o = StakingEntry(hist, i)
          BY <1>2, <1>3, <2>1, <2>2 DEF r, s
    <3> QED BY <1>9, <2>2, <3>1 DEF o
  <2>3. CASE j # i
    <3>1. s.time < r.time /\ o.at = r.time
          BY <1>2, <1>3, <1>7, <2>1, <2>3
    <3>2. Before(f, o)
          BY <1>9, <3>1 DEF Before
    <3> QED BY <3>2 DEF o
  <2> QED BY <2>2, <2>3
<1>10. CASE f = InitialEntry(hist) /\ f.type = "INITIAL" /\ f.at = ProgramStart
  <2>1. CASE r.time < ProgramStart
        BY <1>3, <1>10, <2>1 DEF o
  <2>2. CASE ~(r.time < ProgramStart)
    <3>1. o.at = r.time /\ o.type = "STAKING"
          BY <1>3, <2>2
    <3>2. f.at < o.at \/ f.at = o.at
          BY <1>2, <1>10, <2>2, <3>1
    <3>3. Rank(f.type) < Rank(o.type)
          BY <1>10, <3>1, RankFacts
    <3>4. Before(f, o)
          BY <3>2, <3>3 DEF Before
    <3> QED BY <3>4 DEF o
  <2> QED BY <2>1, <2>2
<1>11. CASE f.type = "LOCK_EXPIRY" /\ LockedStake(s) /\ f.at = ExpiryAt(s) /\ ProgramStart <= f.at
  <2>1. j # i
    <3>1. ~(w < ExpiryAt(s))
          BY <1>2, <1>4, <1>11
    <3> QED BY <1>1, <3>1 DEF r, s
  <2>2. ExpiryAt(s) <= r.time
        BY <1>7, <1>11, <2>1
  <2>3. ~(r.time < ProgramStart)
        BY <1>2, <1>4, <1>11, <2>2
  <2>4. o.at = r.time /\ o.type = "STAKING"
        BY <1>3, <2>3
  <2>5. f.at < o.at \/ f.at = o.at
        BY <1>2, <1>4, <1>11, <2>2, <2>4
  <2>6. Rank(f.type) < Rank(o.type)
        BY <1>11, <2>4, RankFacts
  <2>7. Before(f, o)
        BY <2>5, <2>6 DEF Before
  <2> QED BY <2>7 DEF o
<1> QED BY <1>5, <1>9, <1>10, <1>11

LEMMA BoostFollowsRule ==
    ASSUME NEW hist, HistoryOK(hist), ByTime(hist.stakes), PlainHistory(hist.stakes),
           NEW t \in Nat, NEW e \in Timeline(hist, t), NEW w \in Nat, ProgramStart <= w,
           e.at <= w, w < PeriodEnd(Timeline(hist, t), e, t), w < EffectiveEnd(t)
    PROVE  LET line == Timeline(hist, t)
               lock == LastKnown(LAMBDA f : f.lock, line, e)
               start == LastKnown(LAMBDA f : f.start, line, e)
           IN  RuleBoost(hist.stakes, w) =
                   IF lock \in {Null, 0} \/ start = Null \/ start + lock < e.at THEN 10
                   ELSE get_staking_boost_multiplier(lock)
<1> DEFINE line == Timeline(hist, t)
           lock == LastKnown(LAMBDA f : f.lock, line, e)
           start == LastKnown(LAMBDA f : f.start, line, e)
           K == Knowing(line, e)
           run == Running(hist, w)
           boost == IF lock \in {Null, 0} \/ start = Null \/ start + lock < e.at THEN 10
                    ELSE get_staking_boost_multiplier(lock)
<1>0. /\ EffectiveEnd(t) \in Nat /\ ProgramStart \in Nat /\ ProgramEnd \in Nat
      /\ w < ProgramEnd /\ e.at \in Nat
      BY EffectiveEndFacts, EntriesTyped, PointsAssumption DEF EntryOK
<1>1. /\ K = {} => lock = Null
      /\ K # {} => \E f \in K : /\ \A g \in K : g = f \/ Before(g, f)
                                /\ lock = f.lock /\ start = f.start
      BY LastKnownLock
<1>2. UpTo(line, e) = Sofar(line, w)
      BY UpToIsSofar
<1>3. RuleBoost(hist.stakes, w) =
          IF run = {} THEN 10
          ELSE get_staking_boost_multiplier(Max({hist.stakes[i].lock : i \in run}))
      BY DEF RuleBoost, Running
<1>4. ASSUME run = {} PROVE RuleBoost(hist.stakes, w) = boost
  <2>1. lock \in {Null, 0} \/ start + lock < e.at
    <3>1. CASE K = {}
          BY <1>1, <3>1
    <3>2. CASE K # {}
      <4>1. PICK f \in K : (\A g \in K : g = f \/ Before(g, f)) /\ lock = f.lock /\ start = f.start
            BY <1>1, <3>2
      <4>2. f.lock \in {Null, 0} \/ f.start + f.lock < e.at
            BY <1>4, <4>1, NoLockRuns
      <4> HIDE DEF lock, start, K
      <4> QED BY <4>1, <4>2
    <3> QED BY <3>1, <3>2
  <2> HIDE DEF lock, start, run
  <2> QED BY <1>3, <1>4, <2>1
<1>5. ASSUME run # {} PROVE RuleBoost(hist.stakes, w) = boost
  <2>1. PICK i \in run : TRUE
        BY <1>5
  <2> DEFINE r == hist.stakes[i]
             o == OwnEntry(hist, i)
  <2>2. i \in DOMAIN hist.stakes /\ LockedStake(r) /\ w < ExpiryAt(r)
        BY DEF Running
  <2>3. r.time \in Nat /\ r.lock \in Nat /\ r.lock > 0
        BY <2>2, StakesTyped DEF LockedStake
  <2>4. ASSUME NEW j \in run PROVE j = i
    <3>1. /\ j \in DOMAIN hist.stakes /\ hist.stakes[j].time <= w /\ IsStake(hist.stakes[j])
          /\ i \in DOMAIN hist.stakes /\ r.time <= w /\ IsStake(r)
          BY DEF Running, LockedStake
    <3>2. j = i \/ hist.stakes[j].time < r.time
          BY <3>1, OneLockRuns
    <3>3. i = j \/ r.time < hist.stakes[j].time
          BY <3>1, OneLockRuns
    <3>4. hist.stakes[j].time \in Nat
          BY <3>1, StakesTyped
    <3> HIDE DEF r
    <3> QED BY <2>3, <3>2, <3>3, <3>4
  <2>5. Max({hist.stakes[j].lock : j \in run}) = r.lock
    <3>1. {hist.stakes[j].lock : j \in run} = {r.lock}
          BY <2>1, <2>4
    <3>2. Max({r.lock}) = r.lock
      <4> HIDE DEF r
      <4>1. {r.lock} \in SUBSET Int /\ r.lock \in {r.lock} /\ \A n \in {r.lock} : n <= r.lock
            BY <2>3
      <4> QED BY <4>1, MaxIsGreatest
    <3> QED BY <3>1, <3>2
  <2>6. o \in line /\ o.at <= w /\ LockOf(o, hist, i) /\ o.lock = r.lock
        BY <1>0, OwnEntryFacts
  <2>7. o.start = r.time /\ o.lock # Null
        BY <2>3, <2>6 DEF LockOf, Null
  <2>8. o \in K
    <3>1. o \in Sofar(line, w)
          BY <2>6 DEF Sofar
    <3> HIDE DEF o
    <3> QED BY <1>2, <2>7, <3>1 DEF Knowing
  <2>9. PICK f \in K : (\A g \in K : g = f \/ Before(g, f)) /\ lock = f.lock /\ start = f.start
        BY <1>1, <2>8
  <2>10. f \in line /\ f.at <= w /\ f.lock # Null
    <3>1. f \in UpTo(line, e) /\ f.lock # Null
          BY <2>9 DEF Knowing
    <3> QED BY <1>2, <3>1 DEF Sofar
  <2>11. f = o \/ Before(f, o)
    <3>1. PICK j \in DOMAIN hist.stakes : LockOf(f, hist, j)
          BY <2>10, EntriesNameLocks
    <3> QED BY <1>0, <2>10, <3>1, OwnEntryIsLast
  <2>12. f = o
    <3>1. o = f \/ Before(o, f)
          BY <2>8, <2>9
    <3>2. EntryOK(f) /\ EntryOK(o)
          BY <2>6, <2>10, EntriesTyped
    <3> HIDE DEF o
    <3> QED BY <2>11, <3>1, <3>2, BeforeIsOrder
  <2>13. lock = r.lock /\ start = r.time
    <3> HIDE DEF lock, start, o, r
    <3> QED BY <2>6, <2>7, <2>9, <2>12
  <2>14. ~(start + lock < e.at)
    <3>1. w < r.time + r.lock
          BY <2>2 DEF ExpiryAt
    <3> HIDE DEF lock, start, r
    <3> QED BY <1>0, <2>3, <2>13, <3>1
  <2>15. lock \notin {Null, 0} /\ start # Null
    <3> HIDE DEF lock, start, r
    <3> QED BY <2>3, <2>13 DEF Null
  <2> HIDE DEF lock, start, r, run
  <2> QED BY <1>3, <1>5, <2>5, <2>13, <2>14, <2>15
<1>6. RuleBoost(hist.stakes, w) = boost
      BY <1>4, <1>5
<1> QED BY <1>6

\* The points of a week in a period.
WeekRate(p) == IF Earns(p) THEN LendingRate(p) + BorrowingRate(p) ELSE 0

\* What the rule gives for a week in which the wallet lends enough.
WeekPoints(hist, w) == IF LentIn(hist, w) >= MinLending THEN RuleOfWeek(hist, w) ELSE 0

LEMMA WeekFollowsRule ==
    ASSUME NEW hist, HistoryOK(hist), ByTime(hist.stakes), PlainHistory(hist.stakes),
           NEW t \in Nat, NEW e \in Timeline(hist, t), NEW w \in Nat, ProgramStart <= w,
           e.at <= w, w < PeriodEnd(Timeline(hist, t), e, t), w < EffectiveEnd(t)
    PROVE  WeekPoints(hist, w) = WeekRate(Period(Timeline(hist, t), e, t))
<1> DEFINE line == Timeline(hist, t)
           lent == SumUpto(LendingDelta, hist.loans, w)
           owed == SumUpto(BorrowingDelta, hist.loans, w)
           staked == SumUpto(StakingDelta, hist.stakes, w)
           lock == LastKnown(LAMBDA f : f.lock, line, e)
           start == LastKnown(LAMBDA f : f.start, line, e)
           known == IF lock \in {Null, 0} \/ start = Null \/ start + lock < e.at THEN 10
                    ELSE get_staking_boost_multiplier(lock)
           rule == RuleBoost(hist.stakes, w)
           p == Period(line, e, t)
<1>0. ProgramStart <= w /\ w < ProgramEnd /\ MinLending \in Nat \ {0}
      BY EffectiveEndFacts, PointsAssumption
<1>1. UpTo(line, e) = Sofar(line, w)
      BY UpToIsSofar
<1>2. /\ RunningSum(LAMBDA f : f.lending, line, e) = SumFunction([f \in UpTo(line, e) |-> f.lending])
      /\ RunningSum(LAMBDA f : f.borrowing, line, e) = SumFunction([f \in UpTo(line, e) |-> f.borrowing])
      /\ RunningSum(LAMBDA f : f.staking, line, e) = SumFunction([f \in UpTo(line, e) |-> f.staking])
      BY DEF RunningSum
<1>3. /\ SumFunction([f \in Sofar(line, w) |-> f.lending]) = lent
      /\ SumFunction([f \in Sofar(line, w) |-> f.borrowing]) = owed
      BY <1>0, LentSofar
<1>4. SumFunction([f \in Sofar(line, w) |-> f.staking]) = staked
      BY <1>0, StakedSofar
<1>5. /\ RunningSum(LAMBDA f : f.lending, line, e) \in Int
      /\ RunningSum(LAMBDA f : f.borrowing, line, e) \in Int
      /\ RunningSum(LAMBDA f : f.staking, line, e) \in Int
      BY RunningSumsAreInts
<1>6. rule = known
      BY BoostFollowsRule
<1>7. p.lending = RunningSum(LAMBDA f : f.lending, line, e)
      BY DEF Period
<1>8. p.borrowing = Clamped(RunningSum(LAMBDA f : f.borrowing, line, e))
      BY DEF Period, BorrowingBalance
<1>9. p.staked = RunningSum(LAMBDA f : f.staking, line, e)
      BY DEF Period
<1>10. p.boost = PeriodBoost(RunningSum(LAMBDA f : f.staking, line, e),
                             RunningSum(LAMBDA f : f.lending, line, e), lock, start, e.at)
      BY DEF Period
<1> HIDE DEF p, line
<1>11. /\ p.lending = lent /\ p.borrowing = Clamped(owed) /\ p.staked = staked
       /\ lent \in Int /\ owed \in Int /\ staked \in Int
       /\ p.boost = PeriodBoost(staked, lent, lock, start, e.at)
  <2> HIDE DEF lent, owed, staked, lock, start
  <2> QED BY <1>1, <1>2, <1>3, <1>4, <1>5, <1>7, <1>8, <1>9, <1>10
<1>12. /\ LentIn(hist, w) = Clamped(lent)
       /\ RuleOfWeek(hist, w) =
              200 * Clamped(lent) + 100 * Clamped(owed) + 2 * Min({Clamped(staked), Clamped(lent)}) * rule
                  + Min({Clamped(staked), Clamped(owed)}) * rule
       BY DEF RuleOfWeek, LentIn
<1> HIDE DEF lent, owed, staked, lock, start, rule
<1>13. CASE lent < MinLending
  <2>1. ~Earns(p)
        BY <1>0, <1>11, <1>13 DEF Earns
  <2>2. Clamped(lent) < MinLending
    <3>1. CASE lent >= 0
          BY <1>11, <1>13, <3>1, ClampedFacts
    <3>2. CASE ~(lent >= 0)
      <4>1. Clamped(lent) = Max({lent, 0})
            BY DEF Clamped
      <4>2. Max({lent, 0}) = 0
            BY <1>11, <3>2, MaxIsGreatest
      <4> QED BY <1>0, <4>1, <4>2
    <3> QED BY <3>1, <3>2
  <2>3. ~(Clamped(lent) >= MinLending)
        BY <1>0, <1>11, <2>2, ClampedFacts
  <2> QED BY <1>12, <2>1, <2>3 DEF WeekPoints, WeekRate, p, line
<1>14. CASE ~(lent < MinLending)
  <2>1. Earns(p) /\ lent \in Nat
        BY <1>0, <1>11, <1>14 DEF Earns
  <2>9. Clamped(lent) = lent /\ lent >= MinLending
        BY <1>0, <1>11, <1>14, <2>1, ClampedFacts
  <2>10. WeekPoints(hist, w) = RuleOfWeek(hist, w)
         BY <1>12, <2>9 DEF WeekPoints
  <2>2. Clamped(owed) \in Nat
        BY <1>11, ClampedFacts
  <2>3. CASE staked <= 0
    <3>1. Clamped(staked) = 0
      <4>1. Clamped(staked) = Max({staked, 0})
            BY DEF Clamped
      <4>2. Max({staked, 0}) = 0
            BY <1>11, <2>3, MaxIsGreatest
      <4> QED BY <4>1, <4>2
    <3>2. Min({Clamped(staked), lent}) = 0 /\ Min({Clamped(staked), Clamped(owed)}) = 0
          BY <2>1, <2>2, <3>1, MinOfTwo
    <3>3. p.boost = 0
          BY <1>11, <2>3 DEF PeriodBoost
    <3>4. rule \in Int
          BY <1>6 DEF known, get_staking_boost_multiplier
    <3>5. RuleOfWeek(hist, w) = 200 * lent + 100 * Clamped(owed)
          BY <1>12, <2>1, <2>2, <2>9, <3>2, <3>4
    <3> DEFINE m == Min({p.staked, p.lending})
               n == Min({p.staked, p.borrowing})
    <3>6. m \in Int /\ n \in Int
          BY <1>11, <2>1, <2>2, MinOfTwo
    <3>7. LendingRate(p) = 200 * lent + 2 * m * 0 /\ BorrowingRate(p) = 100 * Clamped(owed) + n * 0
      <4> HIDE DEF m, n
      <4>1. LendingRate(p) = 200 * p.lending + 2 * m * p.boost
            BY DEF LendingRate, m
      <4>2. BorrowingRate(p) = 100 * p.borrowing + n * p.boost
            BY DEF BorrowingRate, n
      <4> QED BY <1>11, <3>3, <4>1, <4>2
    <3> HIDE DEF m, n
    <3>8. LendingRate(p) = 200 * lent /\ BorrowingRate(p) = 100 * Clamped(owed)
          BY <2>1, <2>2, <3>6, <3>7
    <3> QED BY <2>1, <2>10, <3>5, <3>8 DEF WeekRate, p, line
  <2>4. CASE ~(staked <= 0)
    <3>1. Clamped(staked) = staked
          BY <1>11, <2>4, ClampedFacts
    <3>2. p.boost = rule
          BY <1>6, <1>11, <1>14, <2>4 DEF PeriodBoost, known
    <3> DEFINE m == Min({staked, lent})
               n == Min({staked, Clamped(owed)})
    <3>3. m \in Int /\ n \in Int
          BY <1>11, <2>1, <2>2, MinOfTwo
    <3>4. rule \in Int
          BY <1>6 DEF known, get_staking_boost_multiplier
    <3>5. RuleOfWeek(hist, w) = 200 * lent + 100 * Clamped(owed) + 2 * m * rule + n * rule
          BY <1>12, <2>9, <3>1
    <3>6. LendingRate(p) = 200 * lent + 2 * m * rule
          BY <1>11, <3>2 DEF LendingRate
    <3>7. BorrowingRate(p) = 100 * Clamped(owed) + n * rule
          BY <1>11, <3>2 DEF BorrowingRate
    <3> HIDE DEF m, n
    <3> DEFINE a == m * rule
               b == n * rule
    <3>8. a \in Int /\ b \in Int /\ 2 * m * rule = 2 * a
          BY <3>3, <3>4
    <3> HIDE DEF a, b
    <3>9. RuleOfWeek(hist, w) = 200 * lent + 100 * Clamped(owed) + 2 * a + b
          BY <3>5, <3>8 DEF b
    <3>10. LendingRate(p) = 200 * lent + 2 * a /\ BorrowingRate(p) = 100 * Clamped(owed) + b
          BY <3>6, <3>7, <3>8 DEF b
    <3>11. LendingRate(p) + BorrowingRate(p) = 200 * lent + 100 * Clamped(owed) + 2 * a + b
          BY <2>1, <2>2, <3>8, <3>10
    <3> QED BY <2>1, <2>10, <3>9, <3>11 DEF WeekRate, p, line
  <2> QED BY <2>3, <2>4
<1> QED BY <1>13, <1>14

LEMMA RateIsNat ==
    ASSUME NEW p, PeriodOK(p)
    PROVE  WeekRate(p) \in Nat
<1>1. CASE Earns(p)
      BY <1>1, RatesAreNat DEF WeekRate
<1>2. CASE ~Earns(p)
      BY <1>2 DEF WeekRate
<1> QED BY <1>1, <1>2

\* A period earns its rate in each of its weeks.
LEMMA PeriodEarnsWeekly ==
    ASSUME NEW p, PeriodOK(p), p.from < p.to
    PROVE  Clamped(total_period_points(p)) = (p.to - p.from) * WeekRate(p)
<1>1. p.from \in Nat /\ p.to \in Nat /\ p.from <= p.to /\ p.to - p.from \in Nat
      BY DEF PeriodOK
<1>2. CASE Earns(p)
  <2> DEFINE a == LendingRate(p)
             b == BorrowingRate(p)
             n == p.to - p.from
  <2>1. a \in Nat /\ b \in Nat
        BY <1>2, RatesAreNat
  <2>2. LendingPoints(p) = n * a /\ BorrowingPoints(p) = n * b
        BY <1>2, PointsByRate
  <2>3. LendingPoints(p) \in Nat /\ BorrowingPoints(p) \in Nat
        BY <1>1, PointsAreNat
  <2>4. Clamped(total_period_points(p)) = LendingPoints(p) + BorrowingPoints(p)
        BY <2>3, ClampedFacts DEF total_period_points
  <2>5. WeekRate(p) = a + b /\ n \in Nat
        BY <1>1, <1>2 DEF WeekRate
  <2> HIDE DEF a, b, n
  <2>6. n * (a + b) = n * a + n * b
        BY <2>1, <2>5
  <2>7. Clamped(total_period_points(p)) = n * WeekRate(p)
        BY <2>2, <2>4, <2>5, <2>6
  <2> QED BY <2>7 DEF n
<1>3. CASE ~Earns(p)
  <2>1. LendingPoints(p) = 0 /\ BorrowingPoints(p) = 0 /\ WeekRate(p) = 0
        BY <1>3, PointsByRate DEF WeekRate
  <2>2. Clamped(total_period_points(p)) = 0
        BY <2>1, ClampedFacts DEF total_period_points
  <2> QED BY <1>1, <2>1, <2>2
<1> QED BY <1>2, <1>3

LEMMA WeeksFiniteSum ==
    ASSUME NEW g, NEW a \in Nat, NEW b \in Nat, a < b, NEW c \in Int,
           \A w \in a .. b - 1 : g[w] = c
    PROVE  SumFunctionOnSet(g, a .. b - 1) = (b - a) * c
<1>1. IsFiniteSet(a .. b - 1) /\ Cardinality(a .. b - 1) = b - a
  <2>1. b - 1 \in Int /\ a \in Int /\ a <= b - 1
        OBVIOUS
  <2>2. IsFiniteSet(a .. b - 1) /\ Cardinality(a .. b - 1) = (b - 1) - a + 1
        BY <2>1, FS_Interval
  <2> QED BY <2>2
<1>2. SumFunctionOnSet(g, a .. b - 1) = Cardinality(a .. b - 1) * c
      BY <1>1, SumOfConstant
<1> QED BY <1>1, <1>2

\* The weeks of the periods are those of the program so far.
LEMMA PeriodsCoverWeeks ==
    ASSUME NEW hist, HistoryOK(hist), NEW t \in Nat
    PROVE  LET W == wallet_points_detailed(hist, t)
           IN  /\ UNION {p.from .. p.to - 1 : p \in W} = ProgramStart .. EffectiveEnd(t) - 1
               /\ \A p \in W : p.from .. p.to - 1 \subseteq ProgramStart .. EffectiveEnd(t) - 1
               /\ \A p, q \in W : p # q => (p.from .. p.to - 1) \cap (q.from .. q.to - 1) = {}
<1> DEFINE W == wallet_points_detailed(hist, t)
           T == ProgramStart .. EffectiveEnd(t) - 1
<1>0. ProgramStart \in Nat /\ EffectiveEnd(t) \in Nat
      BY PointsAssumption, EffectiveEndFacts
<1>1. ASSUME NEW p \in W
      PROVE  /\ p.from \in Nat /\ p.to \in Nat
             /\ ProgramStart <= p.from /\ p.to <= EffectiveEnd(t)
  <2>1. PICK e \in Timeline(hist, t) : p = Period(Timeline(hist, t), e, t)
        BY DetailedElements
  <2>2. p.from = e.at /\ p.to = PeriodEnd(Timeline(hist, t), e, t)
        BY <2>1 DEF Period
  <2>3. /\ e.at \in Nat /\ ProgramStart <= e.at
        /\ PeriodEnd(Timeline(hist, t), e, t) \in Nat
        /\ PeriodEnd(Timeline(hist, t), e, t) <= EffectiveEnd(t)
        BY EntriesTyped, PeriodEndFacts DEF EntryOK
  <2> QED BY <2>2, <2>3
<1>2. \A w \in T : \E p \in W : p.from <= w /\ w < p.to
  <2> TAKE w \in T
  <2>1. w \in Nat /\ ProgramStart <= w /\ w < EffectiveEnd(t)
        BY <1>0
  <2> QED BY <2>1, WeekHasPeriod
<1>3. \A p \in W : p.from .. p.to - 1 \subseteq T
  <2> TAKE p \in W
  <2> HIDE DEF W
  <2> QED BY <1>0, <1>1
<1>4. ASSUME NEW p \in W, NEW q \in W, NEW w, w \in p.from .. p.to - 1, w \in q.from .. q.to - 1
      PROVE  p = q
  <2>1. p.from \in Nat /\ p.to \in Nat /\ q.from \in Nat /\ q.to \in Nat
        BY <1>1
  <2>2. w \in Nat /\ p.from <= w /\ w < p.to /\ q.from <= w /\ w < q.to
        BY <1>4, <2>1
  <2> QED BY <2>2, OnePeriodPerWeek
<1> HIDE DEF W, T
<1>5. UNION {p.from .. p.to - 1 : p \in W} = T
  <2>1. ASSUME NEW w \in T PROVE w \in UNION {p.from .. p.to - 1 : p \in W}
    <3>1. PICK p \in W : p.from <= w /\ w < p.to
          BY <1>2
    <3>2. w \in p.from .. p.to - 1
          BY <1>0, <1>1, <3>1 DEF T
    <3> QED BY <3>2
  <2>2. UNION {p.from .. p.to - 1 : p \in W} \subseteq T
        BY <1>3
  <2> QED BY <2>1, <2>2
<1>6. \A p, q \in W : p # q => (p.from .. p.to - 1) \cap (q.from .. q.to - 1) = {}
      BY <1>4
<1> QED BY <1>3, <1>5, <1>6 DEF W, T

\* Whatever rows are stored: every week of the program up to now is in one
\* period, and no period reaches outside.
THEOREM PeriodsTileHolds == PointsSpec => []PeriodsTile
<1>1. RowsOK => PeriodsTile
  <2> SUFFICES ASSUME RowsOK PROVE PeriodsTile
      OBVIOUS
  <2> DEFINE W == wallet_points_detailed(rows, now)
             T == ProgramStart .. EffectiveEnd(now) - 1
             covers(w) == {p \in W : p.from <= w /\ w < p.to}
  <2>0. HistoryOK(rows) /\ now \in Nat
        BY DEF RowsOK, HistoryOK
  <2>1. ProgramStart \in Nat /\ EffectiveEnd(now) \in Nat
        BY <2>0, PointsAssumption, EffectiveEndFacts
  <2>2. \A p \in W : ProgramStart <= p.from /\ p.to <= EffectiveEnd(now)
    <3> TAKE p \in W
    <3>1. PeriodOK(p) /\ p.from < p.to
          BY <2>0, DetailedFacts
    <3>2. p.from .. p.to - 1 \subseteq T
          BY <2>0, PeriodsCoverWeeks
    <3>3. p.from \in Nat /\ p.to \in Nat
          BY <3>1 DEF PeriodOK
    <3> HIDE DEF W
    <3>4. p.from \in p.from .. p.to - 1 /\ p.to - 1 \in p.from .. p.to - 1
          BY <3>1, <3>3
    <3>5. p.from \in T /\ p.to - 1 \in T
          BY <3>2, <3>4
    <3> QED BY <2>1, <3>3, <3>5
  <2>3. ASSUME NEW w \in Weeks(now) PROVE Cardinality(covers(w)) = 1
    <3>1. w \in Nat /\ ProgramStart <= w /\ w < EffectiveEnd(now)
          BY <2>1 DEF Weeks
    <3>2. PICK p \in W : p.from <= w /\ w < p.to
          BY <2>0, <3>1, WeekHasPeriod
    <3>3. \A q \in covers(w) : q = p
          BY <2>0, <3>1, <3>2, OnePeriodPerWeek
    <3>4. covers(w) = {p}
          BY <3>2, <3>3
    <3> QED BY <3>4, FS_Singleton
  <2> HIDE DEF W, T
  <2> QED BY <2>2, <2>3 DEF PeriodsTile, W
<1> QED BY <1>1, RowsCorrect, PTL

LEMMA ViewFollowsRule ==
    ASSUME NEW hist, HistoryOK(hist), ByTime(hist.stakes), PlainHistory(hist.stakes), NEW t \in Nat
    PROVE  total_points(hist, t) = RuleOver(hist, EarningWeeks(hist, t))
<1> DEFINE W == wallet_points_detailed(hist, t)
           T == ProgramStart .. EffectiveEnd(t) - 1
           f == [p \in W |-> Clamped(total_period_points(p))]
           g == [w \in T |-> WeekPoints(hist, w)]
           E == EarningWeeks(hist, t)
           h == [w \in E |-> RuleOfWeek(hist, w)]
           cell == [p \in W |-> p.from .. p.to - 1]
<1>0. ProgramStart \in Nat /\ EffectiveEnd(t) \in Nat
      BY PointsAssumption, EffectiveEndFacts
<1>1. /\ UNION {p.from .. p.to - 1 : p \in W} = T
      /\ \A p \in W : p.from .. p.to - 1 \subseteq T
      /\ \A p, q \in W : p # q => (p.from .. p.to - 1) \cap (q.from .. q.to - 1) = {}
      BY PeriodsCoverWeeks
<1>2. IsFiniteSet(W) /\ \A p \in W : PeriodOK(p) /\ p.from < p.to
      BY DetailedFacts
<1>3. ASSUME NEW p \in W, NEW w \in p.from .. p.to - 1
      PROVE  g[w] = WeekRate(p)
  <2>1. PICK e \in Timeline(hist, t) : p = Period(Timeline(hist, t), e, t)
        BY DetailedElements
  <2>2. p.from = e.at /\ p.to = PeriodEnd(Timeline(hist, t), e, t)
        BY <2>1 DEF Period
  <2>3. p.from \in Nat /\ p.to \in Nat
        BY <1>2 DEF PeriodOK
  <2>4. w \in T
        BY <1>1
  <2>5. w \in Nat /\ ProgramStart <= w /\ w < EffectiveEnd(t) /\ p.from <= w /\ w < p.to
        BY <1>0, <2>3, <2>4
  <2>6. WeekPoints(hist, w) = WeekRate(p)
        BY <2>1, <2>2, <2>5, WeekFollowsRule
  <2> QED BY <2>4, <2>6
<1>4. ASSUME NEW p \in W
      PROVE  f[p] = SumFunctionOnSet(g, p.from .. p.to - 1) /\ WeekRate(p) \in Nat
  <2>1. PeriodOK(p) /\ p.from < p.to
        BY <1>2
  <2>2. p.from \in Nat /\ p.to \in Nat /\ WeekRate(p) \in Nat
        BY <2>1, RateIsNat DEF PeriodOK
  <2>3. f[p] = (p.to - p.from) * WeekRate(p)
        BY <2>1, PeriodEarnsWeekly
  <2>4. \A w \in p.from .. p.to - 1 : g[w] = WeekRate(p)
        BY <1>3
  <2> DEFINE c == WeekRate(p)
             a == p.from
             b == p.to
  <2> HIDE DEF W, f, g
  <2>5. c \in Int /\ a \in Nat /\ b \in Nat /\ a < b /\ \A w \in a .. b - 1 : g[w] = c
        BY <2>1, <2>2, <2>4
  <2> HIDE DEF a, b, c
  <2>6. SumFunctionOnSet(g, a .. b - 1) = (b - a) * c
        BY <2>5, WeeksFiniteSum
  <2>7. SumFunctionOnSet(g, p.from .. p.to - 1) = (p.to - p.from) * WeekRate(p)
        BY <2>6 DEF a, b, c
  <2> QED BY <2>2, <2>3, <2>7
<1>5. Integers(g, T)
  <2>1. ASSUME NEW w \in T PROVE g[w] \in Int
    <3>1. w \in UNION {p.from .. p.to - 1 : p \in W}
          BY <1>1
    <3>2. PICK p \in W : w \in p.from .. p.to - 1
          BY <3>1
    <3>3. g[w] = WeekRate(p) /\ WeekRate(p) \in Nat
          BY <1>3, <1>4, <3>2
    <3> HIDE DEF g
    <3> QED BY <3>3
  <2> QED BY <2>1 DEF Integers
<1>6. IsFiniteSet(T)
  <2>1. EffectiveEnd(t) - 1 \in Int /\ ProgramStart \in Int
        BY <1>0
  <2> QED BY <2>1, FS_Interval
<1>7. total_points(hist, t) = SumFunctionOnSet(f, W)
      BY DEF total_points, SumOver, SumFunction
<1>8. RuleOver(hist, E) = SumFunctionOnSet(g, T)
  <2>1. E \subseteq T /\ \A w \in T : w \in E <=> LentIn(hist, w) >= MinLending
        BY DEF EarningWeeks, Weeks
  <2>2. \A w \in T \ E : g[w] = 0
        BY <2>1 DEF WeekPoints
  <2>3. \A w \in E : h[w] = g[w]
        BY <2>1 DEF WeekPoints
  <2>4. RuleOver(hist, E) = SumFunction(h) /\ DOMAIN h = E
        BY DEF RuleOver
  <2> HIDE DEF T, E, g, h
  <2>5. SumFunctionOnSet(g, T) = SumFunctionOnSet(g, E)
        BY <1>5, <1>6, <2>1, <2>2, SumLeavesOutZeros
  <2>6. IsFiniteSet(E)
        BY <1>6, <2>1, FS_Subset
  <2>7. SumFunction(h) = SumFunctionOnSet(g, E)
        BY <2>3, <2>4, <2>6, SumOfRestriction
  <2> QED BY <2>4, <2>5, <2>7
<1>9. /\ \A p \in W : cell[p] = p.from .. p.to - 1
      /\ UNION {cell[p] : p \in W} = UNION {p.from .. p.to - 1 : p \in W}
      OBVIOUS
<1> HIDE DEF W, T, f, g, cell
<1>10. /\ \A p \in W : cell[p] \subseteq T
       /\ \A p, q \in W : p # q => cell[p] \cap cell[q] = {}
       /\ \A p \in W : f[p] = SumFunctionOnSet(g, cell[p])
       BY <1>1, <1>4, <1>9
<1>11. SumFunctionOnSet(f, W) = SumFunctionOnSet(g, UNION {cell[p] : p \in W})
       BY <1>2, <1>5, <1>6, <1>10, SumOfCells
<1> QED BY <1>1, <1>7, <1>8, <1>9, <1>11 DEF E

\* The view's total is what README.md's rule gives over the weeks in which the
\* wallet lends enough, for all rows without a stake inside an earlier lock or
\* two staking rows in a block.
THEOREM PointsFollowRuleHolds == PointsSpec => []PointsFollowRule
<1>1. RowsOK => PointsFollowRule
      BY ViewFollowsRule DEF RowsOK, TableOK, PointsFollowRule, HistoryOK
<1> QED BY <1>1, RowsCorrect, PTL

-----------------------------------------------------------------------------
(* The two boosts of the leaderboard.                                       *)

Deltas(stakes) == [i \in DOMAIN stakes |-> StakingDelta(stakes[i])]

LEMMA StakedBySum ==
    ASSUME NEW stakes \in Seq(StakingEvent)
    PROVE  /\ SumIf(StakingDelta, stakes, AllRows) = SumFunctionOnSet(Deltas(stakes), 1 .. Len(stakes))
           /\ IsFiniteSet(1 .. Len(stakes)) /\ Integers(Deltas(stakes), 1 .. Len(stakes))
<1>1. IsFiniteSet(1 .. Len(stakes))
  <2>1. Len(stakes) \in Int
        OBVIOUS
  <2> QED BY <2>1, FS_Interval
<1>2. Integers(Deltas(stakes), 1 .. Len(stakes))
  <2>1. ASSUME NEW i \in 1 .. Len(stakes) PROVE Deltas(stakes)[i] \in Int
    <3>1. stakes[i] \in StakingEvent /\ Deltas(stakes)[i] = StakingDelta(stakes[i])
          BY DEF Deltas
    <3> QED BY <3>1, DeltasAreInts
  <2> QED BY <2>1 DEF Integers
<1> DEFINE D == {j \in DOMAIN stakes : AllRows(stakes[j])}
           f == [i \in D |-> StakingDelta(stakes[i])]
<1>3. SumIf(StakingDelta, stakes, AllRows) = SumFunction(f)
      BY DEF SumIf
<1>4. D = 1 .. Len(stakes) /\ DOMAIN stakes = 1 .. Len(stakes)
      BY DEF AllRows
<1>5. f = Deltas(stakes) /\ DOMAIN Deltas(stakes) = 1 .. Len(stakes)
      BY <1>4 DEF Deltas
<1> HIDE DEF f, D
<1> QED BY <1>1, <1>2, <1>3, <1>5 DEF SumFunction

\* With no unstake ahead of its stake, the newest row says whether anything is
\* staked: after a STAKE there is.
LEMMA BackedStaked ==
    ASSUME RowsOK, Backed(rows.stakes)
    PROVE  /\ Staked >= 0
           /\ rows.stakes # <<>> /\ ~EndsWithUnstake(rows.stakes) => Staked > 0
<1> DEFINE x == rows.stakes
           n == Len(x)
           g == Deltas(x)
<1>1. x \in Seq(StakingEvent) /\ DOMAIN x = 1 .. n /\ n \in Nat
      BY DEF RowsOK
<1>2. /\ Staked = SumFunctionOnSet(g, 1 .. n)
      /\ IsFiniteSet(1 .. n) /\ Integers(g, 1 .. n)
      BY <1>1, StakedBySum DEF Staked
<1>3. \A i \in 1 .. n : g[i] = StakingDelta(x[i]) /\ x[i] \in StakingEvent
      BY <1>1 DEF Deltas
<1>4. ASSUME NEW m \in 1 .. n PROVE SumFunctionOnSet(g, 1 .. m) >= 0
  <2> DEFINE f == [i \in 1 .. m |-> StakingDelta(x[i])]
  <2>1. SumFunction(f) >= 0
        BY <1>1 DEF Backed
  <2>2. DOMAIN f = 1 .. m /\ \A i \in 1 .. m : f[i] = g[i]
        BY <1>1, <1>3
  <2>3. IsFiniteSet(1 .. m)
        BY <1>1, FS_Interval
  <2> HIDE DEF f, g, x, n
  <2> QED BY <2>1, <2>2, <2>3, SumOfRestriction
<1> HIDE DEF g, n
<1>5. CASE n = 0
  <2>1. 1 .. n = {}
        BY <1>5
  <2>2. Staked = 0
        BY <1>2, <2>1, SumOfNone
  <2>3. rows.stakes = <<>>
        BY <1>1, <1>5 DEF n
  <2> QED BY <2>2, <2>3
<1>6. CASE n # 0
  <2>1. n \in 1 .. n
        BY <1>1, <1>6
  <2>2. Staked >= 0
        BY <1>2, <1>4, <2>1
  <2>3. ASSUME ~EndsWithUnstake(rows.stakes) PROVE Staked > 0
    <3>1. x[n].event = "STAKE"
      <4>1. x # <<>> /\ Last(x) = x[n]
            BY <1>1, <1>6 DEF Last, n
      <4>2. x[n].event \in {"STAKE", "UNSTAKE"}
            BY <1>3, <2>1 DEF StakingEvent
      <4> QED BY <2>3, <4>1, <4>2 DEF EndsWithUnstake
    <3>2. g[n] \in Nat /\ g[n] > 0
          BY <1>3, <2>1, <3>1 DEF StakingDelta, StakingEvent
    <3>3. Staked = g[n] + SumFunctionOnSet(g, (1 .. n) \ {n})
          BY <1>2, <2>1, SumTakesAny
    <3>4. (1 .. n) \ {n} = 1 .. n - 1
          BY <1>1
    <3>5. SumFunctionOnSet(g, 1 .. n - 1) >= 0 /\ SumFunctionOnSet(g, 1 .. n - 1) \in Int
      <4>1. CASE n = 1
        <5>1. 1 .. n - 1 = {}
              BY <4>1
        <5>2. SumFunctionOnSet(g, {}) = 0
              BY SumOfNone
        <5>3. SumFunctionOnSet(g, 1 .. n - 1) = SumFunctionOnSet(g, {})
              BY <5>1, Zenon
        <5> QED BY <5>2, <5>3
      <4>2. CASE n # 1
        <5>1. n - 1 \in 1 .. n
              BY <1>1, <1>6, <4>2
        <5>2. IsFiniteSet(1 .. n - 1) /\ Integers(g, 1 .. n - 1)
              BY <1>1, <1>2, FS_Interval DEF Integers
        <5>3. SumFunctionOnSet(g, 1 .. n - 1) \in Int
              BY <5>2, SumIsInt
        <5>4. SumFunctionOnSet(g, 1 .. n - 1) >= 0
              BY <1>4, <5>1
        <5> QED BY <5>3, <5>4
      <4> QED BY <4>1, <4>2
    <3>6. Staked = g[n] + SumFunctionOnSet(g, 1 .. n - 1)
          BY <3>3, <3>4
    <3> QED BY <3>2, <3>5, <3>6
  <2> QED BY <2>2, <2>3
<1> QED BY <1>5, <1>6

\* The current period of a running program is that of the week before now.
LEMMA CurrentPeriod ==
    ASSUME NEW hist, HistoryOK(hist), NEW t \in Nat, t <= ProgramEnd,
           NEW p \in current_states(hist, t)
    PROVE  /\ t - 1 \in Nat /\ ProgramStart <= t - 1
           /\ t - 1 < EffectiveEnd(t) /\ EffectiveEnd(t) = t
           /\ \E e \in Timeline(hist, t) :
                  /\ p = Period(Timeline(hist, t), e, t)
                  /\ e.at <= t - 1 /\ t - 1 < PeriodEnd(Timeline(hist, t), e, t)
<1> DEFINE W == wallet_points_detailed(hist, t)
<1>1. p \in W /\ \A q \in W : q.to <= p.to
      BY DEF current_states
<1>2. EffectiveEnd(t) = t /\ ProgramStart \in Nat
      BY EffectiveEndFacts, PointsAssumption
<1>3. \A q \in W : /\ q.from \in Nat /\ q.to \in Nat /\ q.from < q.to
                   /\ ProgramStart <= q.from /\ q.to <= t
  <2> TAKE q \in W
  <2>1. PICK e \in Timeline(hist, t) : q = Period(Timeline(hist, t), e, t)
        BY DetailedElements
  <2>2. q.from = e.at /\ q.to = PeriodEnd(Timeline(hist, t), e, t)
        BY <2>1 DEF Period
  <2>3. /\ e.at \in Nat /\ ProgramStart <= e.at
        /\ PeriodEnd(Timeline(hist, t), e, t) \in Nat
        /\ PeriodEnd(Timeline(hist, t), e, t) <= EffectiveEnd(t)
        BY EntriesTyped, PeriodEndFacts DEF EntryOK
  <2>4. q.from < q.to
        BY DetailedFacts
  <2> QED BY <1>2, <2>2, <2>3, <2>4
<1>4. t - 1 \in Nat /\ ProgramStart <= t - 1 /\ t - 1 < EffectiveEnd(t)
  <2> HIDE DEF W
  <2>1. /\ p.from \in Nat /\ p.to \in Nat /\ p.from < p.to
        /\ ProgramStart <= p.from /\ p.to <= t
        BY <1>1, <1>3
  <2> QED BY <1>2, <2>1
<1>5. PICK q \in W : q.from <= t - 1 /\ t - 1 < q.to
      BY <1>4, WeekHasPeriod
<1>6. p.from <= t - 1 /\ t - 1 < p.to
  <2> HIDE DEF W
  <2>1. q.to \in Nat /\ p.to \in Nat /\ q.to <= p.to /\ p.from \in Nat /\ p.from < p.to /\ p.to <= t
        BY <1>1, <1>3
  <2> QED BY <1>5, <2>1
<1>7. PICK e \in Timeline(hist, t) : p = Period(Timeline(hist, t), e, t)
      BY <1>1, DetailedElements
<1>8. p.from = e.at /\ p.to = PeriodEnd(Timeline(hist, t), e, t)
      BY <1>7 DEF Period
<1> QED BY <1>2, <1>4, <1>6, <1>7, <1>8

\* 1 for a STAKE and -1 for an UNSTAKE.
Steps(stakes) == [j \in DOMAIN stakes |-> IF IsStake(stakes[j]) THEN 1 ELSE -1]

NewerRows(stakes, i) ==
    {j \in DOMAIN stakes : \/ stakes[j].time > stakes[i].time
                           \/ stakes[j].time = stakes[i].time /\ j <= i}

LEMMA PositionBySum ==
    ASSUME NEW stakes \in Seq(StakingEvent), NEW i
    PROVE  /\ running_position(stakes, i) = SumFunctionOnSet(Steps(stakes), NewerRows(stakes, i))
           /\ IsFiniteSet(NewerRows(stakes, i)) /\ Integers(Steps(stakes), NewerRows(stakes, i))
<1> DEFINE N == NewerRows(stakes, i)
           f == [j \in N |-> IF IsStake(stakes[j]) THEN 1 ELSE -1]
<1>1. IsFiniteSet(N)
  <2>1. N \in SUBSET (1 .. Len(stakes)) /\ Len(stakes) \in Int
        BY DEF NewerRows
  <2>2. IsFiniteSet(1 .. Len(stakes))
        BY <2>1, FS_Interval
  <2> HIDE DEF N
  <2> QED BY <2>1, <2>2, FS_Subset
<1>2. running_position(stakes, i) = SumFunction(f)
      BY DEF running_position, NewerRows
<1>3. DOMAIN f = N /\ \A j \in N : f[j] = Steps(stakes)[j]
      BY DEF Steps, NewerRows
<1>4. Integers(Steps(stakes), N)
      BY DEF Integers, Steps, NewerRows
<1> HIDE DEF N, f
<1> QED BY <1>1, <1>2, <1>3, <1>4, SumOfRestriction DEF N

\* With an unstake as the last row, the newest stake is no position of its own.
LEMMA NoBoostAfterUnstake ==
    ASSUME NEW stakes \in Seq(StakingEvent), ByTime(stakes), StakesApart(stakes),
           stakes = <<>> \/ EndsWithUnstake(stakes), NEW t
    PROVE  current_staking_boost(stakes, t) = 0
<1> DEFINE n == Len(stakes)
<1>1. ASSUME NEW i \in NewestStake(stakes) PROVE running_position(stakes, i) # 1
  <2> DEFINE N == NewerRows(stakes, i)
             g == Steps(stakes)
  <2>1. /\ i \in DOMAIN stakes /\ IsStake(stakes[i])
        /\ \A j \in DOMAIN stakes : IsStake(stakes[j]) =>
               \/ stakes[j].time < stakes[i].time
               \/ stakes[j].time = stakes[i].time /\ i <= j
        BY DEF NewestStake
  <2>2. /\ DOMAIN stakes = 1 .. n /\ n \in Nat
        /\ \A j \in DOMAIN stakes : stakes[j] \in StakingEvent /\ stakes[j].time \in Nat
        BY RowTimes
  <2>3. n \in DOMAIN stakes /\ stakes[n].event = "UNSTAKE"
        BY <2>1, <2>2 DEF EndsWithUnstake, Last
  <2>4. n # i /\ i < n /\ ~IsStake(stakes[n])
        BY <2>1, <2>2, <2>3 DEF IsStake
  <2>5. stakes[i].time < stakes[n].time
    <3>1. stakes[i].time <= stakes[n].time
          BY <2>1, <2>3, <2>4 DEF ByTime
    <3>2. stakes[i].time # stakes[n].time
          BY <2>1, <2>3, <2>4 DEF StakesApart
    <3> QED BY <2>1, <2>2, <2>3, <3>1, <3>2
  <2>6. i \in N /\ n \in N \ {i}
        BY <2>1, <2>2, <2>3, <2>4, <2>5 DEF NewerRows
  <2>7. ASSUME NEW j \in N \ {i} PROVE g[j] = -1
    <3>1. /\ j \in DOMAIN stakes /\ j # i
          /\ stakes[j].time > stakes[i].time \/ (stakes[j].time = stakes[i].time /\ j <= i)
          BY DEF NewerRows
    <3>2. ~IsStake(stakes[j])
          BY <2>1, <2>2, <3>1
    <3> QED BY <3>1, <3>2 DEF Steps
  <2>8. g[i] = 1
        BY <2>1 DEF Steps
  <2>9. /\ running_position(stakes, i) = SumFunctionOnSet(g, N)
        /\ IsFiniteSet(N) /\ Integers(g, N)
        BY PositionBySum
  <2> HIDE DEF N, g, n
  <2>10. SumFunctionOnSet(g, N) = g[i] + SumFunctionOnSet(g, N \ {i})
         BY <2>6, <2>9, SumTakesAny
  <2>11. IsFiniteSet(N \ {i})
         BY <2>9, FS_RemoveElement
  <2>12. -1 \in Int
         OBVIOUS
  <2>13. SumFunctionOnSet(g, N \ {i}) = Cardinality(N \ {i}) * (-1)
         BY <2>7, <2>11, <2>12, SumOfConstant
  <2>14. Cardinality(N \ {i}) \in Nat /\ Cardinality(N \ {i}) # 0
         BY <2>6, <2>11, FS_CardinalityType, FS_EmptySet
  <2> QED BY <2>8, <2>9, <2>10, <2>13, <2>14
<1>2. {i \in NewestStake(stakes) : running_position(stakes, i) = 1} = {}
      BY <1>1
<1> QED BY <1>2 DEF current_staking_boost

\* With a stake as the last row, that stake is the position.
LEMMA BoostOfLastStake ==
    ASSUME NEW stakes \in Seq(StakingEvent), ByTime(stakes), StakesApart(stakes),
           stakes # <<>>, ~EndsWithUnstake(stakes), NEW t
    PROVE  LET r == stakes[Len(stakes)]
           IN  /\ IsStake(r)
               /\ current_staking_boost(stakes, t) =
                      IF ExpiryAt(r) < t THEN 10 ELSE get_staking_boost_multiplier(r.lock)
<1> DEFINE n == Len(stakes)
           N == NewerRows(stakes, n)
           g == Steps(stakes)
<1>1. /\ DOMAIN stakes = 1 .. n /\ n \in Nat /\ n \in DOMAIN stakes
      /\ \A j \in DOMAIN stakes : stakes[j] \in StakingEvent /\ stakes[j].time \in Nat
      BY RowTimes
<1>2. IsStake(stakes[n])
  <2>1. stakes[n].event \in {"STAKE", "UNSTAKE"}
        BY <1>1 DEF StakingEvent
  <2> QED BY <2>1 DEF EndsWithUnstake, Last, IsStake
<1>3. ASSUME NEW j \in DOMAIN stakes, j # n PROVE stakes[j].time < stakes[n].time
  <2>1. stakes[j].time <= stakes[n].time
        BY <1>1, <1>3 DEF ByTime
  <2>2. stakes[j].time # stakes[n].time
        BY <1>1, <1>3 DEF StakesApart
  <2> QED BY <1>1, <2>1, <2>2
<1>4. NewestStake(stakes) = {n}
  <2>1. n \in NewestStake(stakes)
        BY <1>1, <1>2, <1>3 DEF NewestStake
  <2>2. ASSUME NEW i \in NewestStake(stakes) PROVE i = n
    <3>1. /\ i \in DOMAIN stakes
          /\ stakes[n].time < stakes[i].time \/ stakes[n].time = stakes[i].time
          BY <1>1, <1>2 DEF NewestStake
    <3> QED BY <1>1, <1>3, <3>1
  <2> QED BY <2>1, <2>2
<1>5. N = {n}
      BY <1>1, <1>3 DEF NewerRows
<1>6. running_position(stakes, n) = SumFunctionOnSet(g, N) /\ IsFiniteSet(N) /\ Integers(g, N)
      BY PositionBySum
<1>7. g[n] = 1
      BY <1>1, <1>2 DEF Steps
<1> HIDE DEF N, g, n
<1>8. running_position(stakes, n) = 1
  <2>1. SumFunctionOnSet(g, N) = g[n] + SumFunctionOnSet(g, N \ {n})
        BY <1>5, <1>6, SumTakesAny
  <2>2. SumFunctionOnSet(g, N \ {n}) = 0
    <3>1. N \ {n} = {}
          BY <1>5
    <3> QED BY <3>1, SumOfNone
  <2> QED BY <1>6, <1>7, <2>1, <2>2
<1>9. {i \in NewestStake(stakes) : running_position(stakes, i) = 1} = {n}
      BY <1>4, <1>8
<1>10. (CHOOSE i \in {n} : TRUE) = n
       OBVIOUS
<1>11. current_staking_boost(stakes, t) =
           IF ExpiryAt(stakes[n]) < t THEN 10 ELSE get_staking_boost_multiplier(stakes[n].lock)
       BY <1>9, <1>10 DEF current_staking_boost
<1> QED BY <1>2, <1>11 DEF n

\* A balance that no row of this week changed was there a week ago.
LEMMA LastRowIsOlder ==
    ASSUME RowsOK, StakesApart(rows.stakes), now - 1 \in Nat,
           SumUpto(StakingDelta, rows.stakes, now - 1) = Staked,
           rows.stakes # <<>>, ~EndsWithUnstake(rows.stakes)
    PROVE  rows.stakes[Len(rows.stakes)].time <= now - 1
<1> DEFINE x == rows.stakes
           n == Len(x)
           g == Deltas(x)
           D == {j \in DOMAIN x : x[j].time <= now - 1}
           f == [i \in D |-> StakingDelta(x[i])]
<1>1. /\ x \in Seq(StakingEvent) /\ now \in Nat
      /\ \A i \in DOMAIN x : x[i].time <= now
      BY DEF RowsOK, TableOK
<1>2. /\ DOMAIN x = 1 .. n /\ n \in Nat /\ n \in DOMAIN x
      /\ \A j \in DOMAIN x : x[j] \in StakingEvent /\ x[j].time \in Nat
      BY <1>1, RowTimes
<1>3. x[n].event = "STAKE"
  <2>1. x[n].event \in {"STAKE", "UNSTAKE"}
        BY <1>2 DEF StakingEvent
  <2> QED BY <2>1 DEF EndsWithUnstake, Last
<1>4. /\ Staked = SumFunctionOnSet(g, 1 .. n)
      /\ IsFiniteSet(1 .. n) /\ Integers(g, 1 .. n)
      BY <1>1, StakedBySum DEF Staked
<1>5. SumUpto(StakingDelta, x, now - 1) = SumFunction(f)
      BY DEF SumUpto, SumIf
<1>6. DOMAIN f = D /\ \A i \in D : f[i] = g[i]
      BY DEF Deltas
<1>7. g[n] = x[n].amount /\ x[n].amount > 0 /\ x[n].amount \in Nat
  <2>1. x[n] \in StakingEvent /\ g[n] = StakingDelta(x[n])
        BY <1>2 DEF Deltas
  <2>2. x[n].amount \in Nat \ {0}
        BY <2>1 DEF StakingEvent
  <2>3. StakingDelta(x[n]) = x[n].amount
        BY <1>3 DEF StakingDelta
  <2> HIDE DEF g, n
  <2> QED BY <2>1, <2>2, <2>3
<1>8. ASSUME x[n].time = now PROVE FALSE
  <2>1. D = (1 .. n) \ {n}
    <3>1. ASSUME NEW j \in 1 .. n, j # n PROVE x[j].time <= now - 1
      <4>1. x[j].time # x[n].time
            BY <1>2, <3>1 DEF StakesApart
      <4>2. x[j].time <= now /\ x[j].time \in Nat
            BY <1>1, <1>2
      <4> HIDE DEF x, n
      <4> QED BY <1>1, <1>8, <4>1, <4>2
    <3>2. ~(x[n].time <= now - 1)
      <4> HIDE DEF x, n
      <4> QED BY <1>1, <1>8
    <3> HIDE DEF x, n
    <3> QED BY <1>2, <3>1, <3>2
  <2>2. n \in 1 .. n
        BY <1>2
  <2> HIDE DEF x, n, g, D, f
  <2>3. SumFunctionOnSet(g, 1 .. n) = g[n] + SumFunctionOnSet(g, (1 .. n) \ {n})
        BY <1>4, <2>2, SumTakesAny
  <2>4. IsFiniteSet((1 .. n) \ {n}) /\ Integers(g, (1 .. n) \ {n})
        BY <1>4, FS_RemoveElement DEF Integers
  <2>5. SumFunction(f) = SumFunctionOnSet(g, (1 .. n) \ {n})
        BY <1>6, <2>1, <2>4, SumOfRestriction
  <2>6. SumFunctionOnSet(g, (1 .. n) \ {n}) \in Int
        BY <2>4, SumIsInt
  <2>7. SumFunction(f) = SumFunctionOnSet(g, 1 .. n)
        BY <1>4, <1>5 DEF x
  <2> QED BY <1>7, <2>3, <2>5, <2>6, <2>7
<1>9. x[n].time <= now /\ x[n].time \in Nat
      BY <1>1, <1>2
<1> HIDE DEF x, n
<1>10. x[n].time <= now - 1
       BY <1>1, <1>8, <1>9
<1> QED BY <1>10 DEF x, n

\* Of a stake that is the last row, the rule knows what the row says.
LEMMA RuleOfLastStake ==
    ASSUME NEW stakes \in Seq(StakingEvent), ByTime(stakes), PlainHistory(stakes), stakes # <<>>,
           IsStake(stakes[Len(stakes)]), NEW t \in Nat, t - 1 \in Nat,
           stakes[Len(stakes)].time <= t - 1
    PROVE  LET r == stakes[Len(stakes)]
           IN  RuleBoost(stakes, t - 1) =
                   IF ExpiryAt(r) < t THEN 10 ELSE get_staking_boost_multiplier(r.lock)
<1> DEFINE n == Len(stakes)
           r == stakes[n]
           run == {i \in DOMAIN stakes : /\ LockedStake(stakes[i]) /\ stakes[i].time <= t - 1
                                         /\ t - 1 < ExpiryAt(stakes[i])}
<1>1. /\ DOMAIN stakes = 1 .. n /\ n \in Nat /\ n \in DOMAIN stakes
      /\ \A j \in DOMAIN stakes : /\ stakes[j].time \in Nat /\ stakes[j].lock \in Nat
                                  /\ ExpiryAt(stakes[j]) \in Nat
  <2>1. DOMAIN stakes = 1 .. n /\ n \in Nat /\ n \in DOMAIN stakes
        OBVIOUS
  <2>2. \A j \in DOMAIN stakes : stakes[j] \in StakingEvent
        OBVIOUS
  <2> QED BY <2>1, <2>2 DEF StakingEvent, ExpiryAt
<1>2. ASSUME NEW j \in run PROVE j = n
  <2>1. /\ j \in DOMAIN stakes /\ LockedStake(stakes[j]) /\ stakes[j].time <= t - 1
        /\ t - 1 < ExpiryAt(stakes[j])
        OBVIOUS
  <2> SUFFICES ASSUME j # n PROVE FALSE
      OBVIOUS
  <2>2. stakes[j].time <= r.time
        BY <1>1, <2>1 DEF ByTime
  <2>3. stakes[j].time # r.time
        BY <1>1, <2>1 DEF PlainHistory, StakesApart
  <2>4. stakes[j].time < r.time
        BY <1>1, <2>1, <2>2, <2>3
  <2>5. ExpiryAt(stakes[j]) <= r.time
        BY <1>1, <2>1, <2>4 DEF PlainHistory, LocksDisjoint
  <2>6. r.time \in Nat /\ ExpiryAt(stakes[j]) \in Nat /\ r.time <= t - 1
        BY <1>1, <2>1
  <2> HIDE DEF r, run, n
  <2> QED BY <2>1, <2>5, <2>6
<1>3. RuleBoost(stakes, t - 1) =
          IF run = {} THEN 10 ELSE get_staking_boost_multiplier(Max({stakes[i].lock : i \in run}))
      BY DEF RuleBoost
<1>4. r.time \in Nat /\ r.lock \in Nat /\ ExpiryAt(r) \in Nat /\ r.time <= t - 1
      BY <1>1
<1>5. n \in run <=> LockedStake(r) /\ t - 1 < ExpiryAt(r)
      BY <1>1, <1>4
<1>6. CASE n \in run
  <2>1. ~(ExpiryAt(r) < t)
    <3> HIDE DEF r, run
    <3> QED BY <1>4, <1>5, <1>6
  <2>2. {stakes[i].lock : i \in run} = {r.lock}
    <3> HIDE DEF run, n
    <3> QED BY <1>2, <1>6 DEF r
  <2>3. Max({r.lock}) = r.lock
    <3> HIDE DEF r
    <3>1. {r.lock} \in SUBSET Int /\ r.lock \in {r.lock} /\ \A m \in {r.lock} : m <= r.lock
          BY <1>4
    <3> QED BY <3>1, MaxIsGreatest
  <2>4. RuleBoost(stakes, t - 1) = get_staking_boost_multiplier(r.lock)
    <3> HIDE DEF run, r, n
    <3> QED BY <1>3, <1>6, <2>2, <2>3
  <2> QED BY <2>1, <2>4
<1>7. CASE n \notin run
  <2>1. run = {}
        BY <1>2, <1>7
  <2>2. RuleBoost(stakes, t - 1) = 10
        BY <1>3, <2>1
  <2>3. CASE r.lock > 0
    <3>1. LockedStake(r)
          BY <2>3 DEF LockedStake
    <3>2. ExpiryAt(r) < t
      <4> HIDE DEF r, run
      <4> QED BY <1>4, <1>5, <1>7, <3>1
    <3> QED BY <2>2, <3>2
  <2>4. CASE ~(r.lock > 0)
    <3>1. r.lock = 0
      <4> HIDE DEF r
      <4> QED BY <1>4, <2>4
    <3>2. ExpiryAt(r) < t
      <4> HIDE DEF r
      <4> QED BY <1>4, <3>1 DEF ExpiryAt
    <3> QED BY <2>2, <3>2
  <2> QED BY <2>3, <2>4
<1> QED BY <1>6, <1>7

LEMMA BoostsAgree ==
    ASSUME RowsOK, now <= ProgramEnd, PlainHistory(rows.stakes), Backed(rows.stakes),
           NEW p \in current_states(rows, now), Earns(p), p.staked = Staked,
           ~(p.staked > 0 /\ EndsWithUnstake(rows.stakes))
    PROVE  p.boost = current_staking_boost(rows.stakes, now)
<1> DEFINE line == Timeline(rows, now)
           stakes == rows.stakes
           w == now - 1
<1>1. /\ HistoryOK(rows) /\ stakes \in Seq(StakingEvent) /\ ByTime(stakes)
      /\ now \in Nat /\ StakesApart(stakes)
      BY DEF RowsOK, TableOK, HistoryOK, PlainHistory
<1>2. /\ w \in Nat /\ ProgramStart <= w /\ w < EffectiveEnd(now) /\ EffectiveEnd(now) = now
      /\ \E e \in line : p = Period(line, e, now) /\ e.at <= w /\ w < PeriodEnd(line, e, now)
      BY <1>1, CurrentPeriod
<1>3. PICK e \in line : p = Period(line, e, now) /\ e.at <= w /\ w < PeriodEnd(line, e, now)
      BY <1>2
<1> DEFINE staked == RunningSum(LAMBDA f : f.staking, line, e)
           lending == RunningSum(LAMBDA f : f.lending, line, e)
           lock == LastKnown(LAMBDA f : f.lock, line, e)
           start == LastKnown(LAMBDA f : f.start, line, e)
           known == IF lock \in {Null, 0} \/ start = Null \/ start + lock < e.at THEN 10
                    ELSE get_staking_boost_multiplier(lock)
<1>4. /\ p.staked = staked /\ p.lending = lending
      /\ p.boost = PeriodBoost(staked, lending, lock, start, e.at)
      BY <1>3 DEF Period
<1>5. RuleBoost(stakes, w) = known
      BY <1>1, <1>2, <1>3, BoostFollowsRule
<1>6. staked = SumUpto(StakingDelta, stakes, w)
  <2>1. staked = SumFunction([f \in UpTo(line, e) |-> f.staking])
        BY DEF RunningSum
  <2>2. UpTo(line, e) = Sofar(line, w)
        BY <1>1, <1>2, <1>3, UpToIsSofar
  <2>3. w < ProgramEnd
        BY <1>1, <1>2, PointsAssumption
  <2>4. SumFunction([f \in Sofar(line, w) |-> f.staking]) = SumUpto(StakingDelta, stakes, w)
        BY <1>1, <1>2, <2>3, StakedSofar
  <2> HIDE DEF line, staked
  <2> QED BY <2>1, <2>2, <2>4
<1>0. lending \in Int
      BY <1>1, RunningSumsAreInts
<1>7. Staked \in Int
      BY StakedIsInt
<1>8. Staked >= 0 /\ (stakes # <<>> /\ ~EndsWithUnstake(stakes) => Staked > 0)
      BY BackedStaked
<1> HIDE DEF line, staked, lending, lock, start
<1>9. CASE Staked = 0
  <2>1. p.boost = 0
    <3>1. staked <= 0
      <4>1. staked = 0
            BY <1>4, <1>9
      <4> QED BY <4>1
    <3>2. PeriodBoost(staked, lending, lock, start, e.at) = 0
          BY <3>1 DEF PeriodBoost
    <3> QED BY <1>4, <3>2
  <2>2. stakes = <<>> \/ EndsWithUnstake(stakes)
        BY <1>8, <1>9
  <2>3. current_staking_boost(stakes, now) = 0
    <3> HIDE DEF stakes
    <3> QED BY <1>1, <2>2, NoBoostAfterUnstake
  <2> QED BY <2>1, <2>3
<1>10. CASE Staked # 0
  <2>1. Staked > 0 /\ ~EndsWithUnstake(stakes)
        BY <1>7, <1>8, <1>10
  <2>2. stakes # <<>>
    <3> SUFFICES ASSUME stakes = <<>> PROVE FALSE
        OBVIOUS
    <3>1. Staked = SumFunctionOnSet(Deltas(stakes), 1 .. Len(stakes))
          BY <1>1, StakedBySum DEF Staked
    <3>2. 1 .. Len(stakes) = {}
          OBVIOUS
    <3> HIDE DEF stakes
    <3> QED BY <1>10, <3>1, <3>2, SumOfNone
  <2>3. p.boost = RuleBoost(stakes, w)
    <3>1. ~(staked <= 0) /\ ~(lending < MinLending)
      <4>1. p.lending >= MinLending
            BY DEF Earns
      <4>2. lending \in Int /\ MinLending \in Int
            BY <1>0, PointsAssumption
      <4> QED BY <1>4, <1>7, <2>1, <4>1, <4>2
    <3>2. PeriodBoost(staked, lending, lock, start, e.at) = known
          BY <3>1 DEF PeriodBoost, known
    <3> HIDE DEF known
    <3> QED BY <1>4, <1>5, <3>2
  <2>4. stakes[Len(stakes)].time <= w
        BY <1>1, <1>2, <1>4, <1>6, <2>1, <2>2, LastRowIsOlder
  <2>5. /\ IsStake(stakes[Len(stakes)])
        /\ current_staking_boost(stakes, now) =
               IF ExpiryAt(stakes[Len(stakes)]) < now THEN 10
               ELSE get_staking_boost_multiplier(stakes[Len(stakes)].lock)
        BY <1>1, <2>1, <2>2, BoostOfLastStake
  <2>6. RuleBoost(stakes, now - 1) =
            IF ExpiryAt(stakes[Len(stakes)]) < now THEN 10
            ELSE get_staking_boost_multiplier(stakes[Len(stakes)].lock)
        BY <1>1, <1>2, <2>2, <2>4, <2>5, RuleOfLastStake
  <2> QED BY <2>3, <2>5, <2>6
<1> QED BY <1>9, <1>10

\* The boosts of wallet_points_detailed and wallet_current_staking_boost are
\* the same one, but for a wallet whose last staking row takes out a part.
THEOREM CurrentBoostsAgreeHolds == PointsSpec => []CurrentBoostsAgree
<1>1. RowsOK => CurrentBoostsAgree
      BY BoostsAgree DEF CurrentBoostsAgree
<1> QED BY <1>1, RowsCorrect, PTL

-----------------------------------------------------------------------------
(* The pages of the leaderboard.                                            *)

\* The count of pages, and where they start and end.
LEMMA PageArithmetic ==
    ASSUME NEW limit \in Nat, limit > 0, NEW count \in Nat
    PROVE  LET last == TotalPages(limit, count)
           IN  /\ last \in Nat /\ count <= last * limit
               /\ count = 0 => last = 0
               /\ \A page \in Nat : 1 <= page /\ page <= last =>
                      (page - 1) * limit \in Nat /\ (page - 1) * limit < count
<1> DEFINE a == count + limit - 1
           last == TotalPages(limit, count)
<1>1. a \in Nat
      OBVIOUS
<1>2. last = a \div limit
      BY DEF TotalPages
<1> HIDE DEF a, last
<1>3. last \in Nat /\ last * limit <= a /\ a < last * limit + limit
      BY <1>1, <1>2
<1>4. count <= last * limit
  <2> DEFINE m == last * limit
  <2>1. m \in Int
        BY <1>3
  <2> HIDE DEF m
  <2>2. a < m + limit /\ a = count + limit - 1
        BY <1>3 DEF a, m
  <2>3. count <= m
        BY <2>1, <2>2
  <2> QED BY <2>3 DEF m
<1>5. ASSUME count = 0 PROVE last = 0
  <2>1. a < limit
        BY <1>5 DEF a
  <2>2. last >= 1 => last * limit >= limit
        BY <1>3
  <2> QED BY <1>1, <1>3, <2>1, <2>2
<1>6. ASSUME NEW page \in Nat, 1 <= page, page <= last
      PROVE  (page - 1) * limit \in Nat /\ (page - 1) * limit < count
  <2> DEFINE k == page - 1
             d == last - page
  <2>1. k \in Nat /\ d \in Nat /\ last = k + 1 + d
        BY <1>3, <1>6
  <2> HIDE DEF k, d
  <2>2. last * limit = k * limit + limit + d * limit /\ k * limit \in Nat /\ d * limit \in Nat
        BY <2>1
  <2> DEFINE x == k * limit
             y == d * limit
  <2>3. x \in Nat /\ y \in Nat /\ x + limit + y <= a
        BY <1>3, <2>2
  <2> HIDE DEF x, y
  <2>4. x < count
        BY <2>3 DEF a
  <2> QED BY <2>3, <2>4 DEF x, k
<1> QED BY <1>3, <1>4, <1>5, <1>6 DEF last

LEMMA SubSeqFacts ==
    ASSUME NEW S, NEW s \in Seq(S), NEW m \in Nat, NEW n \in Nat, m >= 1, n <= Len(s)
    PROVE  /\ m > n => SubSeq(s, m, n) = <<>>
           /\ m <= n => /\ SubSeq(s, m, n) \in Seq(S) /\ Len(SubSeq(s, m, n)) = n - m + 1
                        /\ \A i \in 1 .. n - m + 1 : SubSeq(s, m, n)[i] = s[i + m - 1]
OBVIOUS

\* A page holds the next rows, and none after the last page.
LEMMA PageFacts ==
    ASSUME NEW S, NEW s \in Seq(S), NEW limit \in Nat, limit > 0, NEW page \in Nat, page >= 1
    PROVE  LET last == TotalPages(limit, Len(s))
           IN  LeaderboardPage(s, limit, page) # <<>> <=> page <= last
<1> DEFINE n == Len(s)
           last == TotalPages(limit, n)
           offset == (page - 1) * limit
           to == Min({offset + limit, n})
<1>1. n \in Nat
      OBVIOUS
<1>2. /\ last \in Nat /\ n <= last * limit
      /\ page <= last => offset \in Nat /\ offset < n
      BY <1>1, PageArithmetic
<1>3. offset \in Nat
  <2> DEFINE k == page - 1
  <2>1. k \in Nat
        OBVIOUS
  <2> HIDE DEF k
  <2>2. k * limit \in Nat
        BY <2>1
  <2> QED BY <2>2 DEF k
<1>4. page > last => n <= offset
  <2> SUFFICES ASSUME page > last PROVE n <= offset
      OBVIOUS
  <2> DEFINE d == page - 1 - last
  <2>1. d \in Nat /\ page - 1 = last + d
        BY <1>2
  <2> HIDE DEF d, last
  <2>2. (last + d) * limit = last * limit + d * limit /\ d * limit \in Nat /\ last * limit \in Nat
        BY <1>2, <2>1
  <2>3. offset = last * limit + d * limit
        BY <2>1, <2>2
  <2> HIDE DEF offset, n
  <2> QED BY <1>1, <1>2, <2>2, <2>3
<1>5. LeaderboardPage(s, limit, page) = SubSeq(s, offset + 1, to)
      BY DEF LeaderboardPage, calculateOffset
<1> HIDE DEF offset, last
<1>6. to = (IF offset + limit <= n THEN offset + limit ELSE n)
      BY <1>1, <1>3, MinOfTwo
<1> HIDE DEF to
<1>7. to \in Nat /\ to <= n
      BY <1>1, <1>3, <1>6
<1>8. CASE page <= last
  <2>1. offset + 1 <= to
        BY <1>1, <1>2, <1>3, <1>6, <1>8
  <2>2. Len(SubSeq(s, offset + 1, to)) = to - (offset + 1) + 1
        BY <1>3, <1>7, <2>1, SubSeqFacts
  <2>3. Len(SubSeq(s, offset + 1, to)) # 0
        BY <1>3, <1>7, <2>1, <2>2
  <2>4. SubSeq(s, offset + 1, to) # <<>>
    <3> DEFINE part == SubSeq(s, offset + 1, to)
    <3> HIDE DEF part
    <3>1. Len(part) # 0 => part # <<>>
          OBVIOUS
    <3> QED BY <2>3, <3>1 DEF part
  <2> QED BY <1>5, <1>8, <2>4 DEF last
<1>9. CASE page > last
  <2>1. offset + 1 > to
        BY <1>1, <1>3, <1>4, <1>7, <1>9
  <2>2. SubSeq(s, offset + 1, to) = <<>>
        BY <1>3, <1>7, <2>1, SubSeqFacts
  <2> QED BY <1>2, <1>5, <1>9, <2>2 DEF last
<1> QED BY <1>2, <1>8, <1>9

\* What was read, and the page that continues it.
LEMMA PartsJoin ==
    ASSUME NEW S, NEW s \in Seq(S), NEW a \in Nat, NEW b \in Nat, a <= b, b <= Len(s)
    PROVE  SubSeq(s, 1, a) \o SubSeq(s, a + 1, b) = SubSeq(s, 1, b)
<1> DEFINE x == SubSeq(s, 1, a)
           y == SubSeq(s, a + 1, b)
           z == SubSeq(s, 1, b)
<1>1. Len(s) \in Nat
      OBVIOUS
<1>2. x \in Seq(S) /\ Len(x) = a /\ \A i \in 1 .. a : x[i] = s[i]
  <2>1. CASE a = 0
    <3>1. x = <<>>
          BY <1>1, <2>1, SubSeqFacts
    <3> HIDE DEF x
    <3> QED BY <2>1, <3>1
  <2>2. CASE a > 0
    <3>1. x \in Seq(S) /\ Len(x) = a - 1 + 1 /\ \A i \in 1 .. a - 1 + 1 : x[i] = s[i + 1 - 1]
          BY <1>1, <2>2, SubSeqFacts
    <3>2. a - 1 + 1 = a /\ \A i \in 1 .. a : i + 1 - 1 = i
          OBVIOUS
    <3> HIDE DEF x
    <3> QED BY <3>1, <3>2
  <2> QED BY <2>1, <2>2
<1>3. z \in Seq(S) /\ Len(z) = b /\ \A i \in 1 .. b : z[i] = s[i]
  <2>1. CASE b = 0
    <3>1. z = <<>>
          BY <1>1, <2>1, SubSeqFacts
    <3> HIDE DEF z
    <3> QED BY <2>1, <3>1
  <2>2. CASE b > 0
    <3>1. z \in Seq(S) /\ Len(z) = b - 1 + 1 /\ \A i \in 1 .. b - 1 + 1 : z[i] = s[i + 1 - 1]
          BY <1>1, <2>2, SubSeqFacts
    <3>2. b - 1 + 1 = b /\ \A i \in 1 .. b : i + 1 - 1 = i
          OBVIOUS
    <3> HIDE DEF z
    <3> QED BY <3>1, <3>2
  <2> QED BY <2>1, <2>2
<1>4. y \in Seq(S) /\ Len(y) = b - a /\ \A i \in 1 .. b - a : y[i] = s[i + a]
  <2>1. CASE a = b
    <3>1. y = <<>>
          BY <1>1, <2>1, SubSeqFacts
    <3> HIDE DEF y
    <3> QED BY <2>1, <3>1
  <2>2. CASE a < b
    <3>1. /\ y \in Seq(S) /\ Len(y) = b - (a + 1) + 1
          /\ \A i \in 1 .. b - (a + 1) + 1 : y[i] = s[i + (a + 1) - 1]
          BY <1>1, <2>2, SubSeqFacts
    <3>2. b - (a + 1) + 1 = b - a /\ \A i \in 1 .. b - a : i + (a + 1) - 1 = i + a
          OBVIOUS
    <3> HIDE DEF y
    <3> QED BY <3>1, <3>2
  <2> QED BY <2>1, <2>2
<1> HIDE DEF x, y, z
<1>5. /\ x \o y \in Seq(S) /\ Len(x \o y) = a + (b - a)
      /\ \A j \in 1 .. a : (x \o y)[j] = x[j]
      /\ \A j \in 1 .. b - a : (x \o y)[a + j] = y[j]
      BY <1>2, <1>4, ConcatFacts
<1>6. ASSUME NEW i \in 1 .. b PROVE (x \o y)[i] = z[i]
  <2> DEFINE xy == x \o y
  <2>0. /\ \A j \in 1 .. a : xy[j] = x[j]
        /\ \A j \in 1 .. b - a : xy[a + j] = y[j]
        BY <1>5
  <2> HIDE DEF xy
  <2>1. CASE i <= a
    <3>1. i \in 1 .. a
          BY <2>1
    <3>2. xy[i] = s[i] /\ z[i] = s[i]
          BY <1>2, <1>3, <2>0, <3>1
    <3> QED BY <3>2 DEF xy
  <2>2. CASE i > a
    <3> DEFINE j == i - a
    <3>1. j \in 1 .. b - a /\ a + j = i /\ j + a = i
          BY <2>2
    <3> HIDE DEF j
    <3>2. xy[a + j] = s[j + a]
          BY <1>4, <2>0, <3>1
    <3>3. xy[i] = s[i] /\ z[i] = s[i]
          BY <1>3, <3>1, <3>2
    <3> QED BY <3>3 DEF xy
  <2>3. i <= a \/ i > a
        OBVIOUS
  <2> QED BY <2>1, <2>2, <2>3
<1>7. Len(x \o y) = Len(z)
      BY <1>3, <1>5
<1>8. x \o y = z
      BY <1>3, <1>5, <1>6, <1>7
<1> QED BY <1>8 DEF x, y, z

\* The fold of ReadAllPages over every set of pages: q[i] is the number of the
\* page read i-th, and the pages of a set are read in the order of i.
Reads(g, order, q, S) ==
    g = [u \in SUBSET S |->
           IF u = {} THEN <<>>
           ELSE g[u \ {Max(u)}] \o LeaderboardPage(order, PageSize, q[Max(u)])]

Reader(order, q, S) == CHOOSE g : Reads(g, order, q, S)

ReadsAt(g, order, q, u) ==
    g[u] = IF u = {} THEN <<>>
           ELSE g[u \ {Max(u)}] \o LeaderboardPage(order, PageSize, q[Max(u)])

LEMMA ReadsEverywhere ==
    ASSUME NEW g, NEW order, NEW q, NEW S, Reads(g, order, q, S)
    PROVE  \A u \in SUBSET S : ReadsAt(g, order, q, u)
<1> DEFINE F(u) == IF u = {} THEN <<>>
                   ELSE g[u \ {Max(u)}] \o LeaderboardPage(order, PageSize, q[Max(u)])
           h == [u \in SUBSET S |-> F(u)]
<1>1. g = h
      BY DEF Reads
<1>2. \A u \in SUBSET S : h[u] = F(u)
      OBVIOUS
<1> HIDE DEF h
<1>3. \A u \in SUBSET S : g[u] = F(u)
      BY <1>1, <1>2
<1> QED BY <1>3 DEF ReadsAt

LEMMA ReadsUnique ==
    ASSUME NEW order, NEW q, NEW n \in Nat, NEW S, NEW T, S \subseteq 1 .. n, T \subseteq 1 .. n,
           NEW g, NEW h, Reads(g, order, q, S), Reads(h, order, q, T), NEW s \in SUBSET S, s \subseteq T
    PROVE  g[s] = h[s]
<1>g. \A u \in SUBSET S : ReadsAt(g, order, q, u)
      BY ReadsEverywhere
<1>h. \A u \in SUBSET T : ReadsAt(h, order, q, u)
      BY ReadsEverywhere
<1> DEFINE Bad == {u \in FiniteSubsetsOf(S) : u \subseteq T /\ g[u] # h[u]}
<1>f. IsFiniteSet(1 .. n)
  <2>1. n \in Int
        OBVIOUS
  <2> QED BY <2>1, FS_Interval
<1>1. ASSUME Bad # {} PROVE FALSE
  <2>0. PICK U \in Bad : \A V \in Bad : V \subseteq U => V = U
    <3> HIDE DEF Bad
    <3>1. Bad \subseteq FiniteSubsetsOf(S)
          BY DEF Bad
    <3> QED BY <1>1, <3>1, SmallestSet
  <2>1. U \in SUBSET S /\ U \subseteq T /\ g[U] # h[U] /\ IsFiniteSet(U)
        BY DEF FiniteSubsetsOf
  <2>2. U # {}
    <3> SUFFICES ASSUME U = {} PROVE FALSE
        OBVIOUS
    <3>1. g[U] = <<>>
          BY <1>g, <2>1 DEF ReadsAt
    <3>2. h[U] = <<>>
          BY <1>h, <2>1 DEF ReadsAt
    <3> QED BY <2>1, <3>1, <3>2
  <2> DEFINE V == U \ {Max(U)}
  <2>3. Max(U) \in U
        BY <2>1, <2>2, MaxOfRows
  <2>4. V \in FiniteSubsetsOf(S) /\ V \subseteq T /\ V \subseteq U /\ V # U
        BY <2>1, <2>3, FS_Subset DEF FiniteSubsetsOf
  <2>5. g[V] = h[V]
        BY <2>0, <2>4
  <2>6. g[U] = g[V] \o LeaderboardPage(order, PageSize, q[Max(U)])
        BY <1>g, <2>1, <2>2 DEF ReadsAt
  <2>7. h[U] = h[V] \o LeaderboardPage(order, PageSize, q[Max(U)])
        BY <1>h, <2>1, <2>2 DEF ReadsAt
  <2> QED BY <2>1, <2>5, <2>6, <2>7
<1>2. s \in FiniteSubsetsOf(S)
      BY <1>f, FS_Subset DEF FiniteSubsetsOf
<1> QED BY <1>1, <1>2

LEMMA ReaderReads ==
    ASSUME NEW order, NEW q, NEW n \in Nat, NEW S, S \subseteq 1 .. n
    PROVE  Reads(Reader(order, q, S), order, q, S)
<1> DEFINE R(u) == Reader(order, q, u)
           Page(u) == LeaderboardPage(order, PageSize, q[Max(u)])
           Bad == {u \in FiniteSubsetsOf(S) : ~Reads(R(u), order, q, u)}
<1>f. IsFiniteSet(S)
  <2>1. n \in Int
        OBVIOUS
  <2>2. IsFiniteSet(1 .. n)
        BY <2>1, FS_Interval
  <2> QED BY <2>2, FS_Subset
<1>1. ASSUME Bad # {} PROVE FALSE
  <2>0. PICK U \in Bad : \A V \in Bad : V \subseteq U => V = U
    <3> HIDE DEF Bad
    <3>1. Bad \subseteq FiniteSubsetsOf(S)
          BY DEF Bad
    <3> QED BY <1>1, <3>1, SmallestSet
  <2>1. U \subseteq 1 .. n
        BY DEF FiniteSubsetsOf
  <2>2. ASSUME NEW V \in SUBSET U, V # U PROVE Reads(R(V), order, q, V)
        BY <2>0, <2>2, FS_Subset DEF FiniteSubsetsOf
  <2> DEFINE Total(V) == R(V)[V]
             g == [u \in SUBSET U |-> IF u = {} THEN <<>> ELSE Total(u \ {Max(u)}) \o Page(u)]
  <2>3. ASSUME NEW V \in SUBSET U, V # U PROVE Total(V) = g[V]
    <3>1. Reads(R(V), order, q, V)
          BY <2>2, <2>3
    <3>2. Total(V) = IF V = {} THEN <<>> ELSE R(V)[V \ {Max(V)}] \o Page(V)
          BY <3>1, ReadsEverywhere DEF ReadsAt
    <3>3. CASE V = {}
          BY <3>2, <3>3
    <3>4. CASE V # {}
      <4> DEFINE W == V \ {Max(V)}
      <4>1. Max(V) \in V
            BY <2>1, <3>4, MaxOfRows
      <4>2. W \in SUBSET U /\ W # U /\ W \subseteq V
            BY <2>3, <4>1
      <4>3. Reads(R(W), order, q, W)
            BY <2>2, <4>2
      <4>4. V \subseteq 1 .. n /\ W \subseteq 1 .. n /\ W \in SUBSET V /\ W \in SUBSET W
            BY <2>1
      <4> DEFINE rv == R(V)
                 rw == R(W)
      <4>6. Reads(rv, order, q, V) /\ Reads(rw, order, q, W)
            BY <3>1, <4>3
      <4>5. R(V)[W] = R(W)[W]
        <5> HIDE DEF W, rv, rw
        <5>1. rv[W] = rw[W]
              BY <4>4, <4>6, ReadsUnique
        <5> QED BY <5>1 DEF rv, rw
      <4> QED BY <3>2, <3>4, <4>5
    <3> QED BY <3>3, <3>4
  <2>4. \A u \in SUBSET U : u # {} => u \ {Max(u)} \in SUBSET U /\ u \ {Max(u)} # U
    <3> TAKE u \in SUBSET U
    <3>1. u # {} => Max(u) \in u
          BY <2>1, MaxOfRows
    <3> QED BY <3>1
  <2>5. \A u \in SUBSET U : u # {} => Total(u \ {Max(u)}) = g[u \ {Max(u)}]
        BY <2>3, <2>4
  <2>6. g = [u \in SUBSET U |-> IF u = {} THEN <<>> ELSE g[u \ {Max(u)}] \o Page(u)]
    <3> HIDE DEF Total, Page
    <3> QED BY <2>5
  <2>7. Reads(g, order, q, U)
    <3> HIDE DEF g
    <3> QED BY <2>6 DEF Reads
  <2>8. Reads(R(U), order, q, U)
    <3> HIDE DEF g
    <3> QED BY <2>7 DEF Reader
  <2> QED BY <2>8
<1>2. S \in FiniteSubsetsOf(S)
      BY <1>f DEF FiniteSubsetsOf
<1> QED BY <1>1, <1>2

LEMMA ReadAllIsReader ==
    ASSUME NEW order
    PROVE  LET N == TotalPages(PageSize, Len(order))
               q == [p \in 1 .. N |-> p]
           IN  ReadAllPages(order) = Reader(order, q, 1 .. N)[1 .. N]
<1> DEFINE N == TotalPages(PageSize, Len(order))
           q == [p \in 1 .. N |-> p]
<1>1. ReadAllPages(order) = FoldLeft(LAMBDA read, page : read \o LeaderboardPage(order, PageSize, page), <<>>, q)
      BY DEF ReadAllPages
<1>2. DOMAIN q = 1 .. N
      OBVIOUS
<1> HIDE DEF q, N
<1>3. FoldLeft(LAMBDA read, page : read \o LeaderboardPage(order, PageSize, page), <<>>, q)
          = Reader(order, q, DOMAIN q)[DOMAIN q]
      BY DEF FoldLeft, MapThenFoldSet, Reader, Reads
<1> QED BY <1>1, <1>2, <1>3 DEF q, N

\* Reading the pages one after the other gives the rows in their order.
LEMMA PagesGiveAll ==
    ASSUME PageSize \in Nat, PageSize > 0, NEW S, NEW order \in Seq(S)
    PROVE  ReadAllPages(order) = order
<1> DEFINE n == Len(order)
           N == TotalPages(PageSize, n)
           q == [p \in 1 .. N |-> p]
           g == Reader(order, q, 1 .. N)
           Upto(k) == Min({k * PageSize, n})
           Bad == {k \in 0 .. N : g[1 .. k] # SubSeq(order, 1, Upto(k))}
<1>0. n \in Nat
      OBVIOUS
<1>1. n \in Nat /\ N \in Nat /\ n <= N * PageSize
  <2> HIDE DEF n
  <2> QED BY <1>0, PageArithmetic
<1>2. \A k \in 1 .. N : (k - 1) * PageSize \in Nat /\ (k - 1) * PageSize < n
  <2> HIDE DEF n
  <2>1. \A page \in Nat : 1 <= page /\ page <= N =>
            (page - 1) * PageSize \in Nat /\ (page - 1) * PageSize < n
        BY <1>0, PageArithmetic
  <2>2. \A k \in 1 .. N : k \in Nat /\ 1 <= k /\ k <= N
        BY <1>1
  <2> HIDE DEF N
  <2> QED BY <2>1, <2>2
<1>3. ReadAllPages(order) = g[1 .. N]
      BY ReadAllIsReader
<1>4. \A u \in SUBSET (1 .. N) : ReadsAt(g, order, q, u)
  <2> HIDE DEF N, q
  <2>1. Reads(g, order, q, 1 .. N)
        BY <1>1, ReaderReads
  <2> QED BY <2>1, ReadsEverywhere
<1>5. \A p \in 1 .. N : q[p] = p
      OBVIOUS
<1> HIDE DEF n, N, q, g
<1>6. ASSUME Bad # {} PROVE FALSE
  <2>1. Bad \in SUBSET Nat
        BY <1>1
  <2> DEFINE k == Min(Bad)
  <2>2. k \in Bad /\ \A j \in Bad : k <= j
    <3> HIDE DEF Bad
    <3> QED BY <1>6, <2>1, MinIsLeast
  <2> HIDE DEF k
  <2>3. k \in 0 .. N /\ g[1 .. k] # SubSeq(order, 1, Upto(k)) /\ k \in Nat
    <3> HIDE DEF Upto
    <3> QED BY <1>1, <2>2
  <2>4. k # 0
    <3> SUFFICES ASSUME k = 0 PROVE FALSE
        OBVIOUS
    <3>1. 1 .. k = {}
          OBVIOUS
    <3>2. g[{}] = <<>>
          BY <1>4 DEF ReadsAt
    <3>3. Upto(k) = 0
      <4>1. k * PageSize = 0
            OBVIOUS
      <4> QED BY <1>1, <4>1, MinOfTwo
    <3>4. SubSeq(order, 1, 0) = <<>>
          BY SubSeqFacts
    <3> QED BY <2>3, <3>1, <3>2, <3>3, <3>4
  <2> DEFINE j == k - 1
             a == j * PageSize
  <2>5. j \in Nat /\ j \in 0 .. N /\ k \in 1 .. N /\ j < k /\ k = j + 1
        BY <1>1, <2>3, <2>4
  <2>6. a \in Nat /\ a < n
        BY <1>2, <2>5
  <2>7. k * PageSize = a + PageSize
    <3> HIDE DEF j
    <3> QED BY <2>5
  <2>8. j \notin Bad
    <3>1. ASSUME j \in Bad PROVE FALSE
      <4>1. k <= j
            BY <2>2, <3>1
      <4> HIDE DEF Bad
      <4> QED BY <2>5, <4>1
    <3> QED BY <3>1
  <2>9. g[1 .. j] = SubSeq(order, 1, Upto(j))
        BY <2>5, <2>8
  <2>10. Upto(j) = a
    <3>1. Min({a, n}) = a
      <4> HIDE DEF a
      <4> QED BY <1>1, <2>6, MinOfTwo
    <3> QED BY <3>1
  <2>11. Max(1 .. k) = k /\ (1 .. k) \ {k} = 1 .. j /\ 1 .. k # {} /\ 1 .. k \in SUBSET (1 .. N)
    <3>1. 1 .. k \in SUBSET Int /\ k \in 1 .. k /\ \A m \in 1 .. k : m <= k
          BY <2>5
    <3>2. Max(1 .. k) = k
          BY <3>1, MaxIsGreatest
    <3>3. (1 .. k) \ {k} = 1 .. j
          BY <2>5
    <3>4. 1 .. k \in SUBSET (1 .. N)
          BY <1>1, <2>5
    <3> QED BY <3>1, <3>2, <3>3, <3>4
  <2>12. g[1 .. k] = g[1 .. j] \o LeaderboardPage(order, PageSize, k)
    <3>1. g[1 .. k] = g[(1 .. k) \ {Max(1 .. k)}] \o LeaderboardPage(order, PageSize, q[Max(1 .. k)])
          BY <1>4, <2>11 DEF ReadsAt
    <3>2. q[k] = k
          BY <1>5, <2>5
    <3> QED BY <2>11, <3>1, <3>2
  <2>13. LeaderboardPage(order, PageSize, k) = SubSeq(order, a + 1, Min({a + PageSize, n}))
         BY DEF LeaderboardPage, calculateOffset, n
  <2>14. Upto(k) = Min({a + PageSize, n})
         BY <2>7
  <2> DEFINE b == Min({a + PageSize, n})
  <2> HIDE DEF a, Upto, j, Bad
  <2>15. b \in Nat /\ a <= b /\ b <= n
         BY <1>1, <2>6, MinOfTwo
  <2> HIDE DEF b
  <2>16. SubSeq(order, 1, a) \o SubSeq(order, a + 1, b) = SubSeq(order, 1, b)
         BY <2>6, <2>15, PartsJoin DEF n
  <2> QED BY <2>3, <2>9, <2>10, <2>12, <2>13, <2>14, <2>16 DEF b
<1>7. g[1 .. N] = SubSeq(order, 1, Upto(N))
  <2>1. N \in 0 .. N
        BY <1>1
  <2> HIDE DEF Upto
  <2> QED BY <1>6, <2>1
<1>8. Upto(N) = n
  <2>1. N * PageSize \in Int
        BY <1>1
  <2> QED BY <1>1, <2>1, MinOfTwo
<1>9. SubSeq(order, 1, n) = order
      BY DEF n
<1> QED BY <1>3, <1>7, <1>8, <1>9

Above(totals, w) == {v \in Ranked(totals) : totals[v] > totals[w]}

TotalsOK(totals) == IsFiniteSet(DOMAIN totals) /\ \A w \in DOMAIN totals : totals[w] \in Nat

LEMMA RankedFinite ==
    ASSUME NEW totals, TotalsOK(totals)
    PROVE  /\ IsFiniteSet(Ranked(totals)) /\ Cardinality(Ranked(totals)) \in Nat
           /\ \A w \in Ranked(totals) : totals[w] \in Nat
           /\ \A w : IsFiniteSet(Above(totals, w)) /\ Cardinality(Above(totals, w)) \in Nat
<1>1. Ranked(totals) \in SUBSET DOMAIN totals
      BY DEF Ranked
<1>2. IsFiniteSet(Ranked(totals))
      BY <1>1, FS_Subset DEF TotalsOK
<1>3. ASSUME NEW w PROVE IsFiniteSet(Above(totals, w))
  <2>1. Above(totals, w) \in SUBSET Ranked(totals)
        BY DEF Above
  <2> QED BY <1>2, <2>1, FS_Subset
<1> QED BY <1>1, <1>2, <1>3, FS_CardinalityType DEF TotalsOK

\* A higher total is a better rank.
LEMMA HigherRanksFirst ==
    ASSUME NEW totals, TotalsOK(totals), NEW v \in Ranked(totals), NEW w \in Ranked(totals),
           totals[v] > totals[w]
    PROVE  rank(totals, v) < rank(totals, w)
<1> DEFINE A == Above(totals, v)
           B == Above(totals, w)
<1>1. totals[v] \in Nat /\ totals[w] \in Nat /\ \A x \in Ranked(totals) : totals[x] \in Nat
      BY RankedFinite
<1>2. A \in SUBSET B /\ v \in B /\ v \notin A
      BY <1>1 DEF Above
<1>3. IsFiniteSet(A) /\ IsFiniteSet(B) /\ Cardinality(A) \in Nat /\ Cardinality(B) \in Nat
      BY RankedFinite
<1>4. rank(totals, v) = 1 + Cardinality(A) /\ rank(totals, w) = 1 + Cardinality(B)
      BY DEF rank, Above
<1> HIDE DEF A, B
<1>5. Cardinality(A) <= Cardinality(B) /\ (Cardinality(A) = Cardinality(B) => A = B)
      BY <1>2, <1>3, FS_Subset
<1>6. A # B
      BY <1>2
<1> QED BY <1>3, <1>4, <1>5, <1>6

\* What SetToSeqs gives: a sequence that has each element once.
LEMMA OrdersAreBijections ==
    ASSUME NEW R, IsFiniteSet(R), NEW order \in SetToSeqs(R)
    PROVE  /\ Cardinality(R) \in Nat
           /\ order \in [1 .. Cardinality(R) -> R]
           /\ \A i, j \in 1 .. Cardinality(R) : order[i] = order[j] => i = j
           /\ \A v \in R : \E i \in 1 .. Cardinality(R) : order[i] = v
           /\ order \in Seq(R) /\ Len(order) = Cardinality(R)
<1> DEFINE n == Cardinality(R)
           D == 1 .. n
<1>1. n \in Nat
      BY FS_CardinalityType
<1>2. order \in [D -> R] /\ \A i, j \in D : i # j => order[i] # order[j]
      BY DEF SetToSeqs
<1>3. IsFiniteSet(D) /\ Cardinality(D) = n
  <2>1. n \in Int /\ 1 \in Int
        BY <1>1
  <2> HIDE DEF n
  <2>2. IsFiniteSet(D) /\ Cardinality(D) = IF 1 <= n THEN n - 1 + 1 ELSE 0
        BY <2>1, FS_Interval
  <2> QED BY <1>1, <2>2
<1>4. order \in Injection(D, R)
  <2> HIDE DEF D
  <2> QED BY <1>2 DEF Injection, IsInjective
<1>5. order \in Surjection(D, R)
  <2> HIDE DEF D
  <2> QED BY <1>3, <1>4, FS_Injection DEF n
<1>6. \A v \in R : \E i \in D : order[i] = v
  <2> HIDE DEF D
  <2> QED BY <1>5 DEF Surjection
<1>7. order \in Seq(R) /\ Len(order) = n
  <2> HIDE DEF n
  <2> QED BY <1>1, <1>2
<1> QED BY <1>1, <1>2, <1>6, <1>7

\* Without ties, a wallet's rank is its place in the order.
LEMMA RankIsPlace ==
    ASSUME NEW totals, TotalsOK(totals), NoTies(totals), NEW order \in RankOrders(totals),
           NEW i \in 1 .. Cardinality(Ranked(totals))
    PROVE  order[i] \in Ranked(totals) /\ rank(totals, order[i]) = i
<1> DEFINE R == Ranked(totals)
           n == Cardinality(R)
           A == Above(totals, order[i])
<1>1. /\ IsFiniteSet(R) /\ n \in Nat /\ \A v \in R : totals[v] \in Nat
      /\ IsFiniteSet(A)
      BY RankedFinite
<1>2. /\ order \in SetToSeqs(R)
      /\ \A j, k \in DOMAIN order : j < k => rank(totals, order[j]) <= rank(totals, order[k])
      BY DEF RankOrders
<1>3. /\ order \in [1 .. n -> R]
      /\ \A j, k \in 1 .. n : order[j] = order[k] => j = k
      /\ \A v \in R : \E j \in 1 .. n : order[j] = v
  <2> HIDE DEF R
  <2> QED BY <1>1, <1>2, OrdersAreBijections
<1>4. \A v \in R : rank(totals, v) \in Nat
  <2>1. \A v \in R : rank(totals, v) = 1 + Cardinality(Above(totals, v))
        BY DEF rank, Above
  <2>2. \A v \in R : Cardinality(Above(totals, v)) \in Nat
        BY RankedFinite
  <2> HIDE DEF R
  <2> QED BY <2>1, <2>2
<1>5. ASSUME NEW j \in 1 .. n, NEW k \in 1 .. n, j < k
      PROVE  totals[order[j]] > totals[order[k]]
  <2>1. order[j] \in R /\ order[k] \in R /\ order[j] # order[k]
        BY <1>3, <1>5
  <2>2. totals[order[j]] # totals[order[k]]
        BY <2>1 DEF NoTies
  <2>3. j \in DOMAIN order /\ k \in DOMAIN order
        BY <1>3
  <2>4. rank(totals, order[j]) <= rank(totals, order[k])
        BY <1>2, <1>5, <2>3
  <2>5. totals[order[k]] > totals[order[j]] =>
            rank(totals, order[k]) < rank(totals, order[j])
        BY <2>1, HigherRanksFirst
  <2>6. totals[order[j]] \in Nat /\ totals[order[k]] \in Nat
        BY <1>1, <2>1
  <2>7. rank(totals, order[j]) \in Nat /\ rank(totals, order[k]) \in Nat
        BY <1>4, <2>1
  <2> QED BY <2>2, <2>4, <2>5, <2>6, <2>7
<1>6. i \in 1 .. n /\ order[i] \in R /\ i \in Nat
      BY <1>3
<1> DEFINE D == 1 .. i - 1
           f == [j \in D |-> order[j]]
<1>7. f \in Bijection(D, A)
  <2>1. \A j \in D : j \in 1 .. n /\ j < i
        BY <1>1, <1>6
  <2>2. \A j \in D : order[j] \in A
    <3> TAKE j \in D
    <3>1. order[j] \in R /\ totals[order[j]] > totals[order[i]]
          BY <1>3, <1>5, <1>6, <2>1
    <3> QED BY <3>1 DEF Above
  <2>3. ASSUME NEW v \in A PROVE \E j \in D : order[j] = v
    <3>1. v \in R /\ totals[v] > totals[order[i]]
          BY DEF Above
    <3>2. PICK j \in 1 .. n : order[j] = v
          BY <1>3, <3>1
    <3>3. totals[order[j]] \in Nat /\ totals[order[i]] \in Nat
          BY <1>1, <1>6, <3>1, <3>2
    <3>4. j # i
          BY <3>1, <3>2, <3>3
    <3>5. ~(i < j)
          BY <1>5, <1>6, <3>1, <3>2, <3>3
    <3>6. j \in D
          BY <1>1, <1>6, <3>4, <3>5
    <3> QED BY <3>2, <3>6
  <2>4. \A j, k \in D : f[j] = f[k] => j = k
        BY <1>3, <2>1
  <2> HIDE DEF D, A, R, n
  <2>5. f \in [D -> A] /\ DOMAIN f = D
        BY <2>2
  <2>6. f \in Injection(D, A)
    <3> HIDE DEF f
    <3> QED BY <2>4, <2>5 DEF Injection, IsInjective
  <2>7. f \in Surjection(D, A)
    <3>1. \A v \in A : \E j \in D : f[j] = v
          BY <2>3
    <3> HIDE DEF f
    <3> QED BY <2>5, <3>1 DEF Surjection
  <2> QED BY <2>6, <2>7 DEF Bijection
<1>8. Cardinality(A) = i - 1
  <2>1. i - 1 \in Nat /\ 1 \in Int /\ i - 1 \in Int
        BY <1>6
  <2>2. IsFiniteSet(D) /\ Cardinality(D) = i - 1
    <3> DEFINE m == i - 1
    <3>1. m \in Nat /\ m \in Int /\ 1 \in Int
          BY <2>1
    <3> HIDE DEF m
    <3>2. IsFiniteSet(1 .. m) /\ Cardinality(1 .. m) = IF 1 <= m THEN m - 1 + 1 ELSE 0
          BY <3>1, FS_Interval
    <3>3. IsFiniteSet(1 .. m) /\ Cardinality(1 .. m) = m
          BY <3>1, <3>2
    <3> QED BY <3>3 DEF m
  <2>3. ExistsBijection(D, A)
    <3> HIDE DEF D, A, f
    <3> QED BY <1>7 DEF ExistsBijection
  <2> HIDE DEF D, A
  <2> QED BY <2>2, <2>3, FS_Bijection
<1>9. rank(totals, order[i]) = 1 + Cardinality(A)
      BY DEF rank, Above
<1>10. rank(totals, order[i]) = i
       BY <1>6, <1>8, <1>9
<1> QED BY <1>6, <1>10

LEMMA LeaderboardTotalsOK ==
    ASSUME RowsOK
    PROVE  TotalsOK(Totals)
<1>1. total_points(rows, now) \in Nat
      BY TotalIsNat DEF RowsOK, HistoryOK
<1>2. DOMAIN Totals = {Self} \cup DOMAIN Rivals
      BY DEF Totals
<1>3. IsFiniteSet({Self} \cup DOMAIN Rivals)
      BY LeaderboardAssumption, FS_Singleton, FS_Union
<1>4. \A w \in DOMAIN Totals : Totals[w] \in Nat
      BY <1>1, LeaderboardAssumption DEF Totals
<1> QED BY <1>2, <1>3, <1>4 DEF TotalsOK

LEMMA PagesCover ==
    ASSUME NEW totals, TotalsOK(totals), NoTies(totals), NEW order \in RankOrders(totals)
    PROVE  LET last == TotalPages(PageSize, Cardinality(Ranked(totals)))
           IN  /\ ReadAllPages(order) = order
               /\ \A i \in DOMAIN order : DashboardRank(totals, order[i]) = i
               /\ \A page \in 1 .. last :
                      LET meta == createMeta(PageSize, page, Len(order))
                      IN  /\ LeaderboardPage(order, PageSize, page) # <<>>
                          /\ meta.hasNextPage = (LeaderboardPage(order, PageSize, page + 1) # <<>>)
<1> DEFINE R == Ranked(totals)
           n == Cardinality(R)
           last == TotalPages(PageSize, n)
<1>1. IsFiniteSet(R)
      BY RankedFinite
<1>2. order \in SetToSeqs(R)
      BY DEF RankOrders
<1>3. order \in Seq(R) /\ Len(order) = n /\ n \in Nat /\ DOMAIN order = 1 .. n
  <2> HIDE DEF R
  <2> QED BY <1>1, <1>2, OrdersAreBijections
<1>4. PageSize \in Nat /\ PageSize > 0
      BY LeaderboardAssumption
<1>5. ReadAllPages(order) = order
  <2> HIDE DEF R
  <2> QED BY <1>3, <1>4, PagesGiveAll
<1>6. \A i \in DOMAIN order : DashboardRank(totals, order[i]) = i
      BY <1>3, RankIsPlace DEF DashboardRank
<1>7. last \in Nat
  <2> HIDE DEF n
  <2> QED BY <1>3, <1>4, PageArithmetic
<1>8. ASSUME NEW page \in 1 .. last
      PROVE  /\ LeaderboardPage(order, PageSize, page) # <<>>
             /\ createMeta(PageSize, page, Len(order)).hasNextPage =
                    (LeaderboardPage(order, PageSize, page + 1) # <<>>)
  <2> HIDE DEF R, n, last
  <2>1. page \in Nat /\ 1 <= page /\ page <= last /\ page + 1 \in Nat /\ page + 1 >= 1
        BY <1>7
  <2>2. last = TotalPages(PageSize, Len(order))
        BY <1>3 DEF last
  <2>3. LeaderboardPage(order, PageSize, page) # <<>> <=> page <= last
        BY <1>3, <1>4, <2>1, <2>2, PageFacts
  <2>4. LeaderboardPage(order, PageSize, page + 1) # <<>> <=> page + 1 <= last
        BY <1>3, <1>4, <2>1, <2>2, PageFacts
  <2>5. createMeta(PageSize, page, Len(order)).hasNextPage = (page < last)
    <3>1. ~(page > TotalPages(PageSize, Len(order)))
          BY <1>7, <2>1, <2>2
    <3>2. createMeta(PageSize, page, Len(order)).hasNextPage = (page < TotalPages(PageSize, Len(order)))
          BY <3>1 DEF createMeta
    <3> QED BY <2>2, <3>2
  <2>6. (page < last) = (page + 1 <= last)
        BY <1>7, <2>1
  <2>7. (page + 1 <= last) = (LeaderboardPage(order, PageSize, page + 1) # <<>>)
        BY <2>4
  <2> QED BY <2>1, <2>3, <2>5, <2>6, <2>7
<1> QED BY <1>5, <1>6, <1>8

\* A client that follows hasNextPage over an unchanged leaderboard without
\* ties gets every wallet with points once, and finds each at its rank.
THEOREM PagesCoverLeaderboardHolds == PointsSpec => []PagesCoverLeaderboard
<1>1. RowsOK => PagesCoverLeaderboard
  <2> SUFFICES ASSUME RowsOK PROVE PagesCoverLeaderboard
      OBVIOUS
  <2>1. TotalsOK(Totals)
        BY LeaderboardTotalsOK
  <2> QED BY <2>1, PagesCover DEF PagesCoverLeaderboard
<1> QED BY <1>1, RowsCorrect, PTL
=============================================================================
