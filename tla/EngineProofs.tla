----------------------------- MODULE EngineProofs -----------------------------
(***************************************************************************)
(* What holds of the engine and of its risk gate for every set of          *)
(* entities, every market, every strategy and every limit.                 *)
(*                                                                         *)
(* First the gate on its own: its working book is the opening book with    *)
(* the accepted intents in it, summed by name, and from that its caps      *)
(* follow.  Then the types.  Then the safety properties, carried by one    *)
(* inductive invariant whose parts say when an order was decided, where    *)
(* an order is while it settles, and how many shares stand behind a        *)
(* waiting sale; the cap on names takes a second one on top of it, an      *)
(* account of names from the gate to the close.                            *)
(***************************************************************************)
EXTENDS Engine, FiniteSetTheorems, WellFoundedInduction, TLAPS

-----------------------------------------------------------------------------
(* Sums over finite sets. *)

Pick(s) == CHOOSE x \in s : TRUE

\* F adds up f over the subsets of S, one element at a time.
AddsUp(F, f, S) ==
    F = [s \in SUBSET S |-> IF s = {} THEN 0 ELSE f[Pick(s)] + F[s \ {Pick(s)}]]

\* A sum of the community modules is the last value of such a function.
LEMMA SumUnfolds ==
    ASSUME NEW f, NEW S
    PROVE  SumFunctionOnSet(f, S) = (CHOOSE F : AddsUp(F, f, S))[S]
BY DEF SumFunctionOnSet, FoldFunctionOnSet, MapThenFoldSet, AddsUp, Pick

\* A set of subsets of a finite set has one none of whose parts is in it.
LEMMA SmallestSubset ==
    ASSUME NEW S, IsFiniteSet(S), NEW T \in SUBSET (SUBSET S), T # {}
    PROVE  \E m \in T : \A t \in SUBSET m : t # m => t \notin T
<1>1. IsWellFoundedOn(StrictSubsetOrdering(S), SUBSET S)
    BY FS_StrictSubsetOrderingWellFounded, FS_FiniteSubsetsOfFinite
<1>2. PICK m \in T : \A t \in T : ~ (<<t, m>> \in StrictSubsetOrdering(S))
    BY <1>1, WFMin
<1>3. ASSUME NEW t \in SUBSET m, t # m, t \in T
      PROVE  FALSE
    <2>1. <<t, m>> \in (SUBSET S) \X (SUBSET S)
        BY <1>3
    <2>2. <<t, m>> \in StrictSubsetOrdering(S)
        BY <1>3, <2>1 DEF StrictSubsetOrdering
    <2>3. QED
        BY <1>2, <1>3, <2>2
<1>4. QED
    BY <1>3

\* What is picked is there, and is gone when it is taken away.
LEMMA PickIn ==
    ASSUME NEW s, s # {}
    PROVE  Pick(s) \in s /\ s \ {Pick(s)} # s /\ s \ {Pick(s)} \subseteq s
<1>1. \E x : x \in s
    OBVIOUS
<1>2. Pick(s) \in s
    BY <1>1 DEF Pick
<1>3. QED
    BY <1>2

\* One step of the sum.
LEMMA AddsUpAt ==
    ASSUME NEW F, NEW f, NEW S, AddsUp(F, f, S), NEW s \in SUBSET S
    PROVE  F[s] = IF s = {} THEN 0 ELSE f[Pick(s)] + F[s \ {Pick(s)}]
BY DEF AddsUp

\* Two functions that add up f agree on the subsets they share: look at a
\* smallest one on which they would not.
LEMMA AddsUpUnique ==
    ASSUME NEW f, NEW S, NEW T, NEW F, NEW G, AddsUp(F, f, S), AddsUp(G, f, T),
           NEW U, U \subseteq S, U \subseteq T, IsFiniteSet(U)
    PROVE  F[U] = G[U]
<1> DEFINE Bad == {u \in SUBSET U : F[u] # G[u]}
<1>1. SUFFICES ASSUME Bad # {} PROVE FALSE
    OBVIOUS
<1>0. Bad \in SUBSET (SUBSET U)
    OBVIOUS
<1>2. PICK m \in Bad : \A t \in SUBSET m : t # m => t \notin Bad
    <2> HIDE DEF Bad
    <2>1. QED
        BY <1>0, <1>1, SmallestSubset
<1>3. F[m] = IF m = {} THEN 0 ELSE f[Pick(m)] + F[m \ {Pick(m)}]
    <2>1. m \in SUBSET S
        OBVIOUS
    <2>2. QED
        BY <2>1, AddsUpAt
<1>4. G[m] = IF m = {} THEN 0 ELSE f[Pick(m)] + G[m \ {Pick(m)}]
    <2>1. m \in SUBSET T
        OBVIOUS
    <2>2. QED
        BY <2>1, AddsUpAt
<1>5. CASE m = {}
    BY <1>3, <1>4, <1>5
<1>6. CASE m # {}
    <2>1. m \ {Pick(m)} \notin Bad
        BY <1>2, <1>6, PickIn
    <2>2. F[m \ {Pick(m)}] = G[m \ {Pick(m)}]
        BY <2>1
    <2>3. QED
        BY <1>3, <1>4, <1>6, <2>2
<1>7. QED
    BY <1>5, <1>6

\* There is a function that adds up f, by the same argument.
LEMMA AddsUpExists ==
    ASSUME NEW f, NEW S, IsFiniteSet(S)
    PROVE  \E F : AddsUp(F, f, S)
<1> DEFINE Bad == {s \in SUBSET S : ~ \E F : AddsUp(F, f, s)}
<1>1. SUFFICES ASSUME Bad # {} PROVE FALSE
    OBVIOUS
<1>0. Bad \in SUBSET (SUBSET S)
    OBVIOUS
<1>2. PICK m \in Bad : \A t \in SUBSET m : t # m => t \notin Bad
    <2> HIDE DEF Bad
    <2>1. QED
        BY <1>0, <1>1, SmallestSubset
<1> DEFINE Of(t) == CHOOSE G : AddsUp(G, f, t)
           F == [s \in SUBSET m |->
                    IF s = {} THEN 0 ELSE f[Pick(s)] + Of(s \ {Pick(s)})[s \ {Pick(s)}]]
<1>3. \A t \in SUBSET m : t # m => AddsUp(Of(t), f, t)
    <2>1. TAKE t \in SUBSET m
    <2>2. HAVE t # m
    <2>3. t \in SUBSET S
        OBVIOUS
    <2>4. \E G : AddsUp(G, f, t)
        BY <1>2, <2>2, <2>3
    <2>5. QED
        BY <2>4
<1> HIDE DEF Of
<1>4. ASSUME NEW s \in SUBSET m, s # {}
      PROVE  F[s \ {Pick(s)}] = Of(s \ {Pick(s)})[s \ {Pick(s)}]
    <2> DEFINE t == s \ {Pick(s)}
    <2>1. t \in SUBSET m /\ t # m
        BY <1>4, PickIn
    <2>2. Of(t)[t] = IF t = {} THEN 0 ELSE f[Pick(t)] + Of(t)[t \ {Pick(t)}]
        <3>1. t \in SUBSET t /\ AddsUp(Of(t), f, t)
            BY <1>3, <2>1
        <3>2. QED
            BY <3>1, AddsUpAt
    <2>3. F[t] = IF t = {} THEN 0 ELSE f[Pick(t)] + Of(t \ {Pick(t)})[t \ {Pick(t)}]
        BY <2>1
    <2>4. CASE t = {}
        BY <2>2, <2>3, <2>4
    <2>5. CASE t # {}
        <3> DEFINE u == t \ {Pick(t)}
        <3>1. u \subseteq t /\ u # m /\ u \in SUBSET m
            BY <2>1, <2>5, PickIn
        <3>2. IsFiniteSet(u)
            BY <3>1, FS_Subset
        <3>3. AddsUp(Of(t), f, t) /\ AddsUp(Of(u), f, u)
            BY <1>3, <2>1, <3>1
        <3>4. Of(t)[u] = Of(u)[u]
            <4>1. u \subseteq u
                OBVIOUS
            <4> HIDE DEF u, t
            <4>2. QED
                BY <3>1, <3>2, <3>3, <4>1, AddsUpUnique
        <3>5. QED
            BY <2>2, <2>3, <2>5, <3>4
    <2>6. QED
        BY <2>4, <2>5
<1>5. AddsUp(F, f, m)
    <2> DEFINE R(s) == IF s = {} THEN 0 ELSE f[Pick(s)] + F[s \ {Pick(s)}]
    <2>1. \A s \in SUBSET m : F[s] = R(s)
        <3>1. TAKE s \in SUBSET m
        <3>2. F[s] = IF s = {} THEN 0 ELSE f[Pick(s)] + Of(s \ {Pick(s)})[s \ {Pick(s)}]
            OBVIOUS
        <3>3. CASE s = {}
            BY <3>2, <3>3
        <3>4. CASE s # {}
            BY <1>4, <3>2, <3>4
        <3>5. QED
            BY <3>3, <3>4
    <2>2. F = [s \in SUBSET m |-> F[s]]
        OBVIOUS
    <2> HIDE DEF F
    <2>3. F = [s \in SUBSET m |-> R(s)]
        BY <2>1, <2>2
    <2>4. QED
        BY <2>3 DEF AddsUp
<1>6. QED
    BY <1>2, <1>5

\* A sum over the empty set.
LEMMA SumEmpty ==
    ASSUME NEW f
    PROVE  SumFunctionOnSet(f, {}) = 0
<1> DEFINE F == CHOOSE G : AddsUp(G, f, {})
<1>1. AddsUp(F, f, {})
    BY AddsUpExists, FS_EmptySet
<1>2. F[{}] = 0
    <2> HIDE DEF F
    <2>1. QED
        BY <1>1, AddsUpAt
<1>3. QED
    BY <1>2, SumUnfolds

\* The sum over a subset is the value of any function that adds up over more.
LEMMA SumIs ==
    ASSUME NEW f, NEW S, IsFiniteSet(S), NEW T \in SUBSET S, NEW F, AddsUp(F, f, S)
    PROVE  SumFunctionOnSet(f, T) = F[T]
<1> DEFINE G == CHOOSE H : AddsUp(H, f, T)
<1>1. IsFiniteSet(T)
    BY FS_Subset
<1>2. AddsUp(G, f, T)
    BY <1>1, AddsUpExists
<1>3. G[T] = F[T]
    <2> HIDE DEF G
    <2>1. QED
        BY <1>1, <1>2, AddsUpUnique
<1>4. QED
    BY <1>3, SumUnfolds

\* A sum is the summand picked and the sum of the rest.
LEMMA SumPick ==
    ASSUME NEW f, NEW S, IsFiniteSet(S), S # {}
    PROVE  SumFunctionOnSet(f, S) = f[Pick(S)] + SumFunctionOnSet(f, S \ {Pick(S)})
<1>1. PICK F : AddsUp(F, f, S)
    BY AddsUpExists
<1>2. F[S] = f[Pick(S)] + F[S \ {Pick(S)}]
    <2>1. S \in SUBSET S
        OBVIOUS
    <2>2. QED
        BY <1>1, <2>1, AddsUpAt
<1>3. SumFunctionOnSet(f, S) = F[S]
    BY <1>1, SumIs
<1>4. SumFunctionOnSet(f, S \ {Pick(S)}) = F[S \ {Pick(S)}]
    BY <1>1, SumIs
<1>5. QED
    BY <1>2, <1>3, <1>4

\* A sum of integers is an integer.
LEMMA SumInt ==
    ASSUME NEW f, NEW S, IsFiniteSet(S), \A x \in S : f[x] \in Int
    PROVE  SumFunctionOnSet(f, S) \in Int
<1> DEFINE Bad == {s \in SUBSET S : SumFunctionOnSet(f, s) \notin Int}
<1>1. SUFFICES ASSUME Bad # {} PROVE FALSE
    <2>1. S \in SUBSET S
        OBVIOUS
    <2>2. QED
        BY <2>1
<1>2. Bad \in SUBSET (SUBSET S)
    OBVIOUS
<1>3. PICK m \in Bad : \A t \in SUBSET m : t # m => t \notin Bad
    <2> HIDE DEF Bad
    <2>1. QED
        BY <1>1, <1>2, SmallestSubset
<1>4. IsFiniteSet(m) /\ m \subseteq S
    <2>1. m \subseteq S
        OBVIOUS
    <2>2. QED
        BY <2>1, FS_Subset
<1>5. m # {}
    BY SumEmpty
<1>6. Pick(m) \in S /\ m \ {Pick(m)} \in SUBSET S /\ m \ {Pick(m)} \notin Bad
    BY <1>3, <1>4, <1>5, PickIn
<1>7. SumFunctionOnSet(f, m \ {Pick(m)}) \in Int
    BY <1>6
<1>8. SumFunctionOnSet(f, m) = f[Pick(m)] + SumFunctionOnSet(f, m \ {Pick(m)})
    BY <1>4, <1>5, SumPick
<1>9. QED
    BY <1>6, <1>7, <1>8

\* Any element may be split off a sum.
LEMMA SumSplit ==
    ASSUME NEW f, NEW S, IsFiniteSet(S), \A x \in S : f[x] \in Int, NEW a \in S
    PROVE  SumFunctionOnSet(f, S) = f[a] + SumFunctionOnSet(f, S \ {a})
<1> DEFINE Splits(s) == \A x \in s : SumFunctionOnSet(f, s) = f[x] + SumFunctionOnSet(f, s \ {x})
           Bad == {s \in SUBSET S : ~ Splits(s)}
<1>1. SUFFICES ASSUME Bad # {} PROVE FALSE
    <2>1. S \in SUBSET S
        OBVIOUS
    <2>2. QED
        BY <2>1
<1>2. Bad \in SUBSET (SUBSET S)
    OBVIOUS
<1>3. PICK m \in Bad : \A t \in SUBSET m : t # m => t \notin Bad
    <2> HIDE DEF Bad
    <2>1. QED
        BY <1>1, <1>2, SmallestSubset
<1>4. IsFiniteSet(m) /\ m \subseteq S
    <2>1. m \subseteq S
        OBVIOUS
    <2>2. QED
        BY <2>1, FS_Subset
<1>5. PICK x \in m : SumFunctionOnSet(f, m) # f[x] + SumFunctionOnSet(f, m \ {x})
    OBVIOUS
<1> DEFINE p == Pick(m)
<1>6. p \in m /\ m # {}
    BY <1>5, PickIn
<1>7. SumFunctionOnSet(f, m) = f[p] + SumFunctionOnSet(f, m \ {p})
    BY <1>4, <1>6, SumPick
<1>8. x # p
    BY <1>5, <1>7
<1>9. SumFunctionOnSet(f, m \ {p}) = f[x] + SumFunctionOnSet(f, (m \ {p}) \ {x})
    <2>1. m \ {p} \in SUBSET m /\ m \ {p} # m /\ m \ {p} \in SUBSET S
        BY <1>4, <1>6
    <2>2. Splits(m \ {p})
        BY <1>3, <2>1
    <2>3. x \in m \ {p}
        BY <1>5, <1>8
    <2>4. QED
        BY <2>2, <2>3
<1>10. SumFunctionOnSet(f, m \ {x}) = f[p] + SumFunctionOnSet(f, (m \ {x}) \ {p})
    <2>1. m \ {x} \in SUBSET m /\ m \ {x} # m /\ m \ {x} \in SUBSET S
        BY <1>4, <1>5
    <2>2. Splits(m \ {x})
        BY <1>3, <2>1
    <2>3. p \in m \ {x}
        BY <1>6, <1>8
    <2>4. QED
        BY <2>2, <2>3
<1> DEFINE r == SumFunctionOnSet(f, (m \ {x}) \ {p})
<1>11. (m \ {p}) \ {x} = (m \ {x}) \ {p}
    OBVIOUS
<1>12. r \in Int /\ f[x] \in Int /\ f[p] \in Int
    <2>1. IsFiniteSet((m \ {x}) \ {p})
        BY <1>4, FS_Subset
    <2>2. \A y \in (m \ {x}) \ {p} : f[y] \in Int
        BY <1>4
    <2>3. QED
        BY <1>4, <1>5, <1>6, <2>1, <2>2, SumInt
<1>13. QED
    <2> HIDE DEF r, p
    <2>1. SumFunctionOnSet(f, m) = f[p] + (f[x] + r)
        BY <1>7, <1>9, <1>11 DEF r
    <2>2. SumFunctionOnSet(f, m \ {x}) = f[p] + r
        BY <1>10 DEF r
    <2>3. QED
        BY <1>5, <1>12, <2>1, <2>2

\* The sum depends on f only where it is added up.
LEMMA SumSame ==
    ASSUME NEW f, NEW g, NEW S, IsFiniteSet(S), \A x \in S : f[x] = g[x]
    PROVE  SumFunctionOnSet(f, S) = SumFunctionOnSet(g, S)
<1> DEFINE Bad == {s \in SUBSET S : SumFunctionOnSet(f, s) # SumFunctionOnSet(g, s)}
<1>1. SUFFICES ASSUME Bad # {} PROVE FALSE
    <2>1. S \in SUBSET S
        OBVIOUS
    <2>2. QED
        BY <2>1
<1>2. Bad \in SUBSET (SUBSET S)
    OBVIOUS
<1>3. PICK m \in Bad : \A t \in SUBSET m : t # m => t \notin Bad
    <2> HIDE DEF Bad
    <2>1. QED
        BY <1>1, <1>2, SmallestSubset
<1>4. IsFiniteSet(m) /\ m \subseteq S
    <2>1. m \subseteq S
        OBVIOUS
    <2>2. QED
        BY <2>1, FS_Subset
<1>5. m # {}
    BY SumEmpty
<1>6. Pick(m) \in S /\ m \ {Pick(m)} \in SUBSET S /\ m \ {Pick(m)} \notin Bad
    BY <1>3, <1>4, <1>5, PickIn
<1>7. SumFunctionOnSet(f, m \ {Pick(m)}) = SumFunctionOnSet(g, m \ {Pick(m)})
    BY <1>6
<1>8. SumFunctionOnSet(f, m) = f[Pick(m)] + SumFunctionOnSet(f, m \ {Pick(m)})
    BY <1>4, <1>5, SumPick
<1>9. SumFunctionOnSet(g, m) = g[Pick(m)] + SumFunctionOnSet(g, m \ {Pick(m)})
    BY <1>4, <1>5, SumPick
<1>10. QED
    BY <1>6, <1>7, <1>8, <1>9

\* One term of a sum changes.
LEMMA SumUpdate ==
    ASSUME NEW f, NEW g, NEW S, IsFiniteSet(S), NEW a \in S,
           \A x \in S : f[x] \in Int /\ g[x] \in Int,
           \A x \in S : x # a => f[x] = g[x]
    PROVE  SumFunctionOnSet(g, S) = SumFunctionOnSet(f, S) + g[a] - f[a]
<1>1. IsFiniteSet(S \ {a})
    BY FS_Subset
<1>2. SumFunctionOnSet(f, S) = f[a] + SumFunctionOnSet(f, S \ {a})
    BY SumSplit
<1>3. SumFunctionOnSet(g, S) = g[a] + SumFunctionOnSet(g, S \ {a})
    BY SumSplit
<1>4. SumFunctionOnSet(f, S \ {a}) = SumFunctionOnSet(g, S \ {a})
    BY <1>1, SumSame
<1>5. SumFunctionOnSet(f, S \ {a}) \in Int
    BY <1>1, SumInt
<1>6. f[a] \in Int /\ g[a] \in Int
    OBVIOUS
<1>7. QED
    BY <1>2, <1>3, <1>4, <1>5, <1>6

\* A term is added to a sum.
LEMMA SumAdd ==
    ASSUME NEW f, NEW S, IsFiniteSet(S), NEW a, a \notin S, \A x \in S \cup {a} : f[x] \in Int
    PROVE  SumFunctionOnSet(f, S \cup {a}) = SumFunctionOnSet(f, S) + f[a]
<1>1. IsFiniteSet(S \cup {a}) /\ (S \cup {a}) \ {a} = S
    BY FS_AddElement
<1>2. SumFunctionOnSet(f, S \cup {a}) = f[a] + SumFunctionOnSet(f, (S \cup {a}) \ {a})
    BY <1>1, SumSplit
<1>3. SumFunctionOnSet(f, S) \in Int /\ f[a] \in Int
    BY SumInt
<1>4. SumFunctionOnSet(f, S \cup {a}) = f[a] + SumFunctionOnSet(f, S)
    BY <1>1, <1>2
<1> HIDE DEF SumFunctionOnSet
<1>5. QED
    BY <1>3, <1>4

\* Larger terms, larger sum.
LEMMA SumMonotone ==
    ASSUME NEW f, NEW g, NEW S, IsFiniteSet(S),
           \A x \in S : f[x] \in Int /\ g[x] \in Int /\ f[x] <= g[x]
    PROVE  SumFunctionOnSet(f, S) <= SumFunctionOnSet(g, S)
<1> DEFINE Bad == {s \in SUBSET S : ~ (SumFunctionOnSet(f, s) <= SumFunctionOnSet(g, s))}
<1>1. SUFFICES ASSUME Bad # {} PROVE FALSE
    <2>1. S \in SUBSET S
        OBVIOUS
    <2>2. QED
        BY <2>1
<1>2. Bad \in SUBSET (SUBSET S)
    OBVIOUS
<1>3. PICK m \in Bad : \A t \in SUBSET m : t # m => t \notin Bad
    <2> HIDE DEF Bad
    <2>1. QED
        BY <1>1, <1>2, SmallestSubset
<1>4. IsFiniteSet(m) /\ m \subseteq S
    <2>1. m \subseteq S
        OBVIOUS
    <2>2. QED
        BY <2>1, FS_Subset
<1>5. m # {}
    BY SumEmpty
<1> DEFINE p == Pick(m)
           r == m \ {p}
<1>6. p \in S /\ r \in SUBSET S /\ r \notin Bad
    BY <1>3, <1>4, <1>5, PickIn
<1>7. SumFunctionOnSet(f, r) <= SumFunctionOnSet(g, r)
    BY <1>6
<1>8. SumFunctionOnSet(f, m) = f[p] + SumFunctionOnSet(f, r)
    BY <1>4, <1>5, SumPick
<1>9. SumFunctionOnSet(g, m) = g[p] + SumFunctionOnSet(g, r)
    BY <1>4, <1>5, SumPick
<1>10. SumFunctionOnSet(f, r) \in Int /\ SumFunctionOnSet(g, r) \in Int
    <2> HIDE DEF p
    <2>1. IsFiniteSet(r)
        BY <1>4, FS_Subset
    <2>2. QED
        BY <1>6, <2>1, SumInt
<1>11. f[p] \in Int /\ g[p] \in Int /\ f[p] <= g[p]
    BY <1>6
<1>12. QED
    <2> HIDE DEF p, r
    <2>1. SumFunctionOnSet(f, m) <= SumFunctionOnSet(g, m)
        BY <1>7, <1>8, <1>9, <1>10, <1>11
    <2>2. QED
        BY <2>1

\* A sum of zeros is zero.
LEMMA SumOfNothing ==
    ASSUME NEW f, NEW S, IsFiniteSet(S), \A x \in S : f[x] = 0
    PROVE  SumFunctionOnSet(f, S) = 0
<1> DEFINE Bad == {s \in SUBSET S : SumFunctionOnSet(f, s) # 0}
<1>1. SUFFICES ASSUME Bad # {} PROVE FALSE
    <2>1. S \in SUBSET S
        OBVIOUS
    <2>2. QED
        BY <2>1
<1>2. Bad \in SUBSET (SUBSET S)
    OBVIOUS
<1>3. PICK m \in Bad : \A t \in SUBSET m : t # m => t \notin Bad
    <2> HIDE DEF Bad
    <2>1. QED
        BY <1>1, <1>2, SmallestSubset
<1>4. IsFiniteSet(m) /\ m \subseteq S
    <2>1. m \subseteq S
        OBVIOUS
    <2>2. QED
        BY <2>1, FS_Subset
<1>5. m # {}
    BY SumEmpty
<1>6. Pick(m) \in S /\ m \ {Pick(m)} \in SUBSET S /\ m \ {Pick(m)} \notin Bad
    BY <1>3, <1>4, <1>5, PickIn
<1>7. SumFunctionOnSet(f, m \ {Pick(m)}) = 0
    BY <1>6
<1>8. SumFunctionOnSet(f, m) = f[Pick(m)] + SumFunctionOnSet(f, m \ {Pick(m)})
    BY <1>4, <1>5, SumPick
<1>9. QED
    BY <1>6, <1>7, <1>8

\* A sum of amounts is an amount, and no term exceeds it.
LEMMA SumNat ==
    ASSUME NEW f, NEW S, IsFiniteSet(S), \A x \in S : f[x] \in Nat
    PROVE  SumFunctionOnSet(f, S) \in Nat /\ \A x \in S : f[x] <= SumFunctionOnSet(f, S)
<1>1. ASSUME NEW T \in SUBSET S
      PROVE  SumFunctionOnSet(f, T) \in Nat
    <2> DEFINE zero == [x \in T |-> 0]
    <2>1. IsFiniteSet(T)
        BY FS_Subset
    <2>2. SumFunctionOnSet(zero, T) = 0
        BY <2>1, SumOfNothing
    <2>3. \A x \in T : zero[x] \in Int /\ f[x] \in Int /\ zero[x] <= f[x]
        OBVIOUS
    <2>4. SumFunctionOnSet(f, T) \in Int
        BY <2>1, <2>3, SumInt
    <2>5. SumFunctionOnSet(zero, T) <= SumFunctionOnSet(f, T)
        <3> HIDE DEF zero
        <3>1. QED
            BY <2>1, <2>3, SumMonotone
    <2>6. QED
        BY <2>2, <2>4, <2>5
<1>2. ASSUME NEW x \in S
      PROVE  f[x] <= SumFunctionOnSet(f, S)
    <2>1. SumFunctionOnSet(f, S) = f[x] + SumFunctionOnSet(f, S \ {x})
        BY SumSplit
    <2>2. SumFunctionOnSet(f, S \ {x}) \in Nat
        BY <1>1
    <2>3. QED
        BY <2>1, <2>2
<1>3. QED
    BY <1>1, <1>2

\* Terms of zero may be left out.
LEMMA SumWithoutZeros ==
    ASSUME NEW f, NEW S, IsFiniteSet(S), NEW T \in SUBSET S,
           \A x \in S : f[x] \in Int, \A x \in S \ T : f[x] = 0
    PROVE  SumFunctionOnSet(f, S) = SumFunctionOnSet(f, T)
<1> DEFINE Rest == S \ T
           Bad == {u \in SUBSET Rest : SumFunctionOnSet(f, T \cup u) # SumFunctionOnSet(f, T)}
<1>1. SUFFICES ASSUME Bad # {} PROVE FALSE
    <2>1. Rest \in SUBSET Rest /\ T \cup Rest = S
        OBVIOUS
    <2>2. SumFunctionOnSet(f, T \cup Rest) = SumFunctionOnSet(f, T)
        BY <2>1
    <2>3. QED
        BY <2>1, <2>2
<1>2. Bad \in SUBSET (SUBSET Rest) /\ IsFiniteSet(Rest)
    BY FS_Subset
<1>3. PICK m \in Bad : \A t \in SUBSET m : t # m => t \notin Bad
    <2> HIDE DEF Bad, Rest
    <2>1. QED
        BY <1>1, <1>2, SmallestSubset
<1>4. m \subseteq Rest
    BY <1>2
<1>5. m # {}
    <2>1. T \cup {} = T
        OBVIOUS
    <2>2. QED
        BY <2>1
<1> DEFINE p == Pick(m)
           r == m \ {p}
<1>6. p \in m /\ r \in SUBSET Rest /\ r \notin Bad
    BY <1>3, <1>4, <1>5, PickIn
<1>7. SumFunctionOnSet(f, T \cup r) = SumFunctionOnSet(f, T)
    BY <1>6
<1> HIDE DEF p
<1>8. p \notin T \cup r /\ (T \cup r) \cup {p} = T \cup m /\ f[p] = 0
    BY <1>4, <1>6
<1>9. IsFiniteSet(T \cup r) /\ \A x \in (T \cup r) \cup {p} : f[x] \in Int
    <2>1. T \cup r \in SUBSET S /\ p \in S
        BY <1>4, <1>6
    <2>2. QED
        BY <2>1, FS_Subset
<1>10. SumFunctionOnSet(f, (T \cup r) \cup {p}) = SumFunctionOnSet(f, T \cup r) + f[p]
    <2> DEFINE u == T \cup r
    <2>1. p \notin u /\ IsFiniteSet(u) /\ \A x \in u \cup {p} : f[x] \in Int
        BY <1>8, <1>9
    <2> HIDE DEF u
    <2>2. SumFunctionOnSet(f, u \cup {p}) = SumFunctionOnSet(f, u) + f[p]
        BY <2>1, SumAdd
    <2>3. QED
        BY <2>2 DEF u
<1>11. SumFunctionOnSet(f, T) \in Int
    <2>1. IsFiniteSet(T) /\ \A x \in T : f[x] \in Int
        BY FS_Subset
    <2>2. QED
        BY <2>1, SumInt
<1>12. SumFunctionOnSet(f, T \cup m) = SumFunctionOnSet(f, T \cup r) + f[p]
    <2> HIDE DEF r
    <2>1. QED
        BY <1>8, <1>10
<1>13. SumFunctionOnSet(f, T \cup m) = SumFunctionOnSet(f, T)
    <2>1. SumFunctionOnSet(f, T \cup m) = SumFunctionOnSet(f, T) + 0
        BY <1>7, <1>8, <1>12
    <2>2. QED
        BY <2>1, <1>11
<1>14. QED
    BY <1>3, <1>13

\* The values a function takes on a finite set are finitely many.
LEMMA ImageFinite ==
    ASSUME NEW f, NEW S, IsFiniteSet(S), NEW T, \A t \in T : \E x \in S : t = f[x]
    PROVE  IsFiniteSet(T)
<1> DEFINE D == {x \in S : f[x] \in T}
           g == [x \in D |-> f[x]]
<1>1. g \in Surjection(D, T)
    BY DEF Surjection
<1>2. IsFiniteSet(D)
    BY FS_Subset
<1>3. QED
    <2> HIDE DEF g, D
    <2>1. QED
        BY <1>1, <1>2, FS_Surjection

\* The terms may be numbered anew.
LEMMA SumShift ==
    ASSUME NEW f, NEW g, NEW S \in SUBSET Int, IsFiniteSet(S),
           \A i \in S : g[i] \in Int /\ f[i + 1] = g[i]
    PROVE  SumFunctionOnSet(f, {i + 1 : i \in S}) = SumFunctionOnSet(g, S)
<1> DEFINE Up(s) == {i + 1 : i \in s}
           Bad == {s \in SUBSET S : SumFunctionOnSet(f, Up(s)) # SumFunctionOnSet(g, s)}
<1>1. SUFFICES ASSUME Bad # {} PROVE FALSE
    <2>1. S \in SUBSET S
        OBVIOUS
    <2>2. QED
        BY <2>1
<1>2. Bad \in SUBSET (SUBSET S)
    OBVIOUS
<1>3. PICK m \in Bad : \A t \in SUBSET m : t # m => t \notin Bad
    <2> HIDE DEF Bad
    <2>1. QED
        BY <1>1, <1>2, SmallestSubset
<1>4. IsFiniteSet(m) /\ m \subseteq S
    <2>1. m \subseteq S
        OBVIOUS
    <2>2. QED
        BY <2>1, FS_Subset
<1>5. m # {}
    <2>1. Up({}) = {}
        OBVIOUS
    <2> HIDE DEF Up
    <2>2. QED
        BY <2>1, SumEmpty
<1> DEFINE p == Pick(m)
           r == m \ {p}
<1>6. p \in m /\ p \in S /\ r \in SUBSET S /\ r \notin Bad
    BY <1>3, <1>4, <1>5, PickIn
<1> HIDE DEF p
<1>7. SumFunctionOnSet(f, Up(r)) = SumFunctionOnSet(g, r)
    BY <1>6
<1>8. SumFunctionOnSet(g, m) = g[p] + SumFunctionOnSet(g, r)
    <2>1. \A i \in m : g[i] \in Int
        BY <1>4
    <2>2. p \in m /\ IsFiniteSet(m)
        BY <1>4, <1>6
    <2>3. SumFunctionOnSet(g, m) = g[p] + SumFunctionOnSet(g, m \ {p})
        <3> HIDE DEF Bad, Up
        <3>1. QED
            BY <2>1, <2>2, SumSplit
    <2>4. QED
        BY <2>3
<1>9. SumFunctionOnSet(f, Up(m)) = f[p + 1] + SumFunctionOnSet(f, Up(m) \ {p + 1})
    <2>1. IsFiniteSet(Up(m))
        <3> DEFINE up == [i \in m |-> i + 1]
        <3>1. \A t \in Up(m) : \E i \in m : t = up[i]
            OBVIOUS
        <3> HIDE DEF up, Up
        <3>2. QED
            BY <1>4, <3>1, ImageFinite
    <2>2. \A j \in Up(m) : f[j] \in Int
        BY <1>4
    <2>3. p + 1 \in Up(m)
        BY <1>6
    <2> HIDE DEF Up
    <2>4. QED
        BY <2>1, <2>2, <2>3, SumSplit
<1>10. Up(m) \ {p + 1} = Up(r)
    <2>1. m \subseteq Int /\ p \in Int
        BY <1>4, <1>6
    <2>2. \A i \in m : i + 1 = p + 1 <=> i = p
        BY <2>1
    <2>3. QED
        BY <2>2
<1>11. f[p + 1] = g[p]
    BY <1>6
<1>12. QED
    <2> HIDE DEF Up, r
    <2>1. SumFunctionOnSet(f, Up(m)) = SumFunctionOnSet(g, m)
        BY <1>7, <1>8, <1>9, <1>10, <1>11
    <2>2. QED
        BY <2>1 DEF Up

-----------------------------------------------------------------------------
(* Batches and what was accepted of them. *)

SaleOf(e, in) == ~Malformed(in) /\ in.entity = e /\ in.side = "sell"

On(s, e, side) == {i \in DOMAIN s : s[i].entity = e /\ s[i].side = side}

\* What is not malformed names an entity and is worth something.
LEMMA WellFormed ==
    ASSUME NEW in \in Submitted
    PROVE  /\ Notional(in) \in Int
           /\ ~Malformed(in) => in.entity \in Entities /\ in.side \in Sides /\ Notional(in) \in Nat \ {0}
<1>1. in.qty \in Int /\ in.price \in Int
    BY DEF Submitted
<1>2. in.qty > 0 /\ in.price > 0 => in.qty * in.price \in Nat \ {0}
    <2>1. SUFFICES ASSUME in.qty > 0, in.price > 0
                   PROVE  in.qty * in.price \in Nat \ {0}
        OBVIOUS
    <2>2. in.qty \in Nat \ {0} /\ in.price \in Nat \ {0}
        BY <1>1, <2>1
    <2>3. QED
        BY <2>2
<1>3. in.qty * in.price \in Int
    BY <1>1
<1>4. QED
    BY <1>1, <1>2, <1>3 DEF Malformed, Notional

\* The intent looked at next is one of the sales still ahead, or is not.
LEMMA SalesOfTail ==
    ASSUME NEW b \in Seq(Submitted), b # <<>>, NEW e
    PROVE  SumFunctionOnSet(Notionals(b), SalesOf(e, b)) =
             SumFunctionOnSet(Notionals(Tail(b)), SalesOf(e, Tail(b)))
               + IF SaleOf(e, Head(b)) THEN Notional(Head(b)) ELSE 0
<1> DEFINE t == Tail(b)
           T == SalesOf(e, t)
           Up == {i + 1 : i \in T}
           f == Notionals(b)
           g == Notionals(t)
<1>1. t \in Seq(Submitted) /\ Len(t) = Len(b) - 1 /\ Len(b) \in Nat \ {0}
    OBVIOUS
<1>2. DOMAIN b = 1..Len(b) /\ DOMAIN t = 1..(Len(b) - 1)
    BY <1>1
<1>3. \A i \in 1..(Len(b) - 1) : t[i] = b[i + 1]
    BY <1>1
<1>4. Head(b) = b[1] /\ 1 \in DOMAIN b
    BY <1>1, <1>2
<1>5. \A i \in DOMAIN b : b[i] \in Submitted /\ f[i] = Notional(b[i]) /\ f[i] \in Int
    BY <1>2, WellFormed DEF Notionals
<1>6. \A i \in DOMAIN t : t[i] \in Submitted /\ g[i] = Notional(t[i]) /\ g[i] \in Int
    BY <1>1, <1>2, WellFormed DEF Notionals
<1>7. T \in SUBSET Int /\ IsFiniteSet(T) /\ T \subseteq DOMAIN t
    <2>1. T \subseteq 1..(Len(b) - 1)
        BY <1>2 DEF SalesOf
    <2>2. IsFiniteSet(1..(Len(b) - 1))
        BY <1>1, FS_Interval
    <2>3. QED
        BY <1>2, <2>1, <2>2, FS_Subset
<1>8. SumFunctionOnSet(f, Up) = SumFunctionOnSet(g, T)
    <2>1. \A i \in T : g[i] \in Int /\ f[i + 1] = g[i]
        <3>1. TAKE i \in T
        <3>2. i \in 1..(Len(b) - 1) /\ i + 1 \in DOMAIN b
            BY <1>1, <1>2, <1>7
        <3>3. QED
            BY <1>2, <1>3, <1>5, <1>6, <3>2
    <2> HIDE DEF T, f, g
    <2>2. QED
        BY <1>7, <2>1, SumShift
<1>9. \A i \in DOMAIN b : i \in SalesOf(e, b) <=> SaleOf(e, b[i])
    BY DEF SalesOf, SaleOf
<1>10. \A i \in DOMAIN t : i \in T <=> SaleOf(e, b[i + 1])
    BY <1>2, <1>3 DEF SalesOf, SaleOf
<1>11. 1 \notin Up /\ IsFiniteSet(Up) /\ \A j \in Up \cup {1} : f[j] \in Int
    <2>1. \A i \in T : i + 1 # 1 /\ i + 1 \in DOMAIN b
        BY <1>1, <1>2, <1>7
    <2>2. IsFiniteSet(Up)
        <3>1. Up \subseteq 1..Len(b)
            BY <1>2, <2>1
        <3>2. IsFiniteSet(1..Len(b))
            BY <1>1, FS_Interval
        <3> HIDE DEF Up
        <3>3. QED
            BY <3>1, <3>2, FS_Subset
    <2>3. QED
        BY <1>4, <1>5, <2>1, <2>2
<1>12. SalesOf(e, b) = IF SaleOf(e, Head(b)) THEN Up \cup {1} ELSE Up
    <2>1. \A j \in DOMAIN b : j = 1 \/ (j - 1 \in DOMAIN t /\ (j - 1) + 1 = j)
        BY <1>1, <1>2
    <2>2. \A j \in DOMAIN b : j \in Up <=> j # 1 /\ SaleOf(e, b[j])
        <3>1. TAKE j \in DOMAIN b
        <3>2. CASE j = 1
            BY <1>11, <3>2
        <3>3. CASE j - 1 \in DOMAIN t /\ (j - 1) + 1 = j /\ j # 1
            <4>1. j - 1 \in T <=> SaleOf(e, b[j])
                BY <1>10, <3>3
            <4>2. j \in Up <=> j - 1 \in T
                <5>1. \A i \in T : i \in Int
                    BY <1>7
                <5>2. j \in Int
                    BY <1>2
                <5>3. \A i \in T : i + 1 = j => i = j - 1
                    BY <5>1, <5>2
                <5>4. QED
                    BY <3>3, <5>3
            <4>3. QED
                BY <3>3, <4>1, <4>2
        <3>4. QED
            BY <2>1, <3>2, <3>3
    <2>3. Up \subseteq DOMAIN b /\ SalesOf(e, b) \subseteq DOMAIN b
        BY <1>1, <1>2, <1>7 DEF SalesOf
    <2> HIDE DEF Up
    <2>4. QED
        BY <1>4, <1>9, <2>2, <2>3
<1>13. SumFunctionOnSet(f, Up \cup {1}) = SumFunctionOnSet(f, Up) + f[1]
    <2> HIDE DEF Up, f
    <2>1. QED
        BY <1>11, SumAdd
<1>14. SumFunctionOnSet(f, Up) \in Int
    <2> HIDE DEF Up, f
    <2>1. QED
        BY <1>11, SumInt
<1>15. f[1] = Notional(Head(b))
    BY <1>4, <1>5
<1>16. QED
    BY <1>8, <1>12, <1>13, <1>14, <1>15

\* An accepted intent adds its worth to what was accepted on its side.
LEMMA NotionalOfAppend ==
    ASSUME NEW s \in Seq(Submitted), NEW in \in Submitted, NEW e, NEW side
    PROVE  SumFunctionOnSet(Notionals(Append(s, in)), On(Append(s, in), e, side)) =
             SumFunctionOnSet(Notionals(s), On(s, e, side))
               + IF in.entity = e /\ in.side = side THEN Notional(in) ELSE 0
<1> DEFINE t == Append(s, in)
           n == Len(s) + 1
           f == Notionals(s)
           g == Notionals(t)
           S == On(s, e, side)
<1>1. Len(s) \in Nat /\ t \in Seq(Submitted) /\ Len(t) = n
    OBVIOUS
<1>2. DOMAIN s = 1..Len(s) /\ DOMAIN t = 1..n
    BY <1>1
<1>3. t[n] = in /\ n \in DOMAIN t /\ n \notin DOMAIN s /\ \A i \in DOMAIN s : t[i] = s[i] /\ i \in DOMAIN t
    BY <1>1, <1>2
<1>4. DOMAIN t = DOMAIN s \cup {n}
    BY <1>1, <1>2
<1>5. \A i \in DOMAIN s : f[i] = g[i]
    BY <1>3 DEF Notionals
<1>6. \A i \in DOMAIN t : g[i] \in Int
    BY <1>1, <1>2, WellFormed DEF Notionals
<1>7. g[n] = Notional(in)
    BY <1>3 DEF Notionals
<1>8. IsFiniteSet(S) /\ S \subseteq DOMAIN s
    <2>1. IsFiniteSet(1..Len(s))
        BY <1>1, FS_Interval
    <2>2. QED
        BY <1>2, <2>1, FS_Subset DEF On
<1>9. On(t, e, side) = IF in.entity = e /\ in.side = side THEN S \cup {n} ELSE S
    BY <1>3, <1>4 DEF On
<1>10. SumFunctionOnSet(f, S) = SumFunctionOnSet(g, S)
    BY <1>5, <1>8, SumSame
<1>11. SumFunctionOnSet(g, S) \in Int
    BY <1>3, <1>6, <1>8, SumInt
<1>12. SumFunctionOnSet(g, S \cup {n}) = SumFunctionOnSet(g, S) + g[n]
    <2>1. n \notin S /\ \A x \in S \cup {n} : g[x] \in Int
        BY <1>3, <1>6, <1>8
    <2> HIDE DEF n, S, g
    <2>2. QED
        BY <1>8, <2>1, SumAdd
<1>13. QED
    BY <1>7, <1>9, <1>10, <1>11, <1>12

-----------------------------------------------------------------------------
(* The gate's invariant. *)

\* Of the sales not yet looked at, those the gate will let through.
SalesLeft(e) == SumFunctionOnSet(Notionals(batch), SalesOf(e, batch))

\* The working book is the book plus what was accepted, it covers the sales
\* still ahead, and it is within the caps since the first purchase.
GateInv ==
    /\ IsBook(book)
    /\ batch \in Seq(Submitted)
    /\ accepted \in Seq(Submitted)
    /\ \A i \in DOMAIN accepted : ~Malformed(accepted[i])
    /\ notional \in [Entities -> Nat]
    /\ names = {e \in Entities : notional[e] > 0}
    /\ \A e \in Entities : notional[e] = Projected(e) /\ SalesLeft(e) <= notional[e]
    /\ total \in Int /\ total = ProjectedTotal
    /\ \A e \in Bought : book.equity > 0 => notional[e] * 100 <= MaxStockPct * book.equity
    /\ Bought # {} /\ MaxBookNotional > 0 => total <= MaxBookNotional
    /\ Bought \ DOMAIN book.positions # {} => Cardinality(names) <= MaxPositions

\* What the caps and the projection come to under the invariant.
LEMMA GateInvSafe == GateInv => CapsHoldForTheBatch /\ RefusedLeavesNoTrace
<1>1. SUFFICES ASSUME GateInv PROVE CapsHoldForTheBatch /\ RefusedLeavesNoTrace
    OBVIOUS
<1>2. Bought \subseteq Entities /\ \A e \in Entities : notional[e] = Projected(e)
    BY <1>1 DEF GateInv, Bought
<1>3. names = {e \in Entities : Projected(e) > 0}
    BY <1>1, <1>2 DEF GateInv
<1>4. CapsHoldForTheBatch
    BY <1>1, <1>2, <1>3 DEF GateInv, CapsHoldForTheBatch
<1>5. \A e \in Entities : e \in names <=> notional[e] > 0
    BY <1>1 DEF GateInv
<1>6. QED
    BY <1>1, <1>2, <1>4, <1>5 DEF GateInv, RefusedLeavesNoTrace

\* What a book opens the gate with.
LEMMA StartTypes ==
    ASSUME IsBook(book)
    PROVE  /\ \A e \in Entities : StartNotional(e) \in Nat /\ (StartNotional(e) > 0 <=> e \in DOMAIN book.positions)
           /\ StartTotal \in Int
<1>1. \A e \in DOMAIN book.positions : book.positions[e] \in Nat \ {0}
    BY DEF IsBook
<1>2. IsFiniteSet(DOMAIN book.positions)
    BY EntitiesAssumption, FS_Subset DEF IsBook
<1>3. StartTotal \in Int
    BY <1>1, <1>2, SumInt DEF StartTotal, SumFunction
<1>4. QED
    BY <1>1, <1>3 DEF StartNotional

\* The invariant holds of the gate as it opens.
LEMMA GateInitInv == GateInit => GateInv
<1> SUFFICES ASSUME GateInit PROVE GateInv
    OBVIOUS
<1>1. IsBook(book) /\ batch \in Seq(Submitted) /\ accepted = <<>>
    BY DEF GateInit
<1>2. \A e, side : AcceptedOn(e, side) = {}
    BY <1>1 DEF AcceptedOn
<1>3. \A e \in Entities : Projected(e) = StartNotional(e)
    <2>1. AcceptedNotional({}) = 0
        BY SumEmpty DEF AcceptedNotional
    <2>2. TAKE e \in Entities
    <2>3. StartNotional(e) \in Nat
        BY <1>1, StartTypes
    <2>4. Projected(e) = StartNotional(e) + AcceptedNotional({}) - AcceptedNotional({})
        BY <1>2 DEF Projected
    <2>5. QED
        BY <2>1, <2>3, <2>4
<1>4. Bought = {}
    BY <1>2 DEF Bought
<1>5. names = {e \in Entities : notional[e] > 0} /\ notional \in [Entities -> Nat]
    <2>1. names = DOMAIN book.positions /\ notional = [e \in Entities |-> StartNotional(e)]
        BY DEF GateInit
    <2>2. QED
        BY <1>1, <2>1, StartTypes DEF IsBook
<1>6. \A e \in Entities : notional[e] = Projected(e) /\ SalesLeft(e) <= notional[e]
    BY <1>3 DEF GateInit, CoversItsSales, SalesLeft
<1>7. total \in Int /\ total = ProjectedTotal
    <2> DEFINE f == [e \in Entities |-> Projected(e) - StartNotional(e)]
    <2>1. \A e \in Entities : f[e] = 0
        BY <1>1, <1>3, StartTypes
    <2>2. SumFunctionOnSet(f, Entities) = 0
        <3> HIDE DEF f
        <3>1. QED
            BY <2>1, EntitiesAssumption, SumOfNothing
    <2>3. ProjectedTotal = StartTotal + 0
        BY <2>2 DEF ProjectedTotal, SumFunction
    <2>4. QED
        BY <1>1, <2>3, StartTypes DEF GateInit
<1>8. QED
    BY <1>1, <1>4, <1>5, <1>6, <1>7 DEF GateInv

\* What an accepted intent does to the projection.
Worth(in) == IF in.side = "buy" THEN Notional(in) ELSE -Notional(in)

\* A projection is a number.
LEMMA ProjectedTypes ==
    ASSUME IsBook(book), accepted \in Seq(Submitted)
    PROVE  \A e \in Entities, side \in Sides :
               /\ AcceptedNotional(AcceptedOn(e, side)) \in Int
               /\ Projected(e) \in Int
<1>1. \A e \in Entities, side \in Sides : AcceptedNotional(AcceptedOn(e, side)) \in Int
    <2>1. TAKE e \in Entities, side \in Sides
    <2>2. IsFiniteSet(DOMAIN accepted)
        <3>1. DOMAIN accepted = 1..Len(accepted) /\ Len(accepted) \in Nat
            OBVIOUS
        <3>2. QED
            BY <3>1, FS_Interval
    <2>3. IsFiniteSet(AcceptedOn(e, side))
        BY <2>2, FS_Subset DEF AcceptedOn
    <2>4. \A i \in AcceptedOn(e, side) : Notionals(accepted)[i] \in Int
        <3>1. \A i \in DOMAIN accepted : accepted[i] \in Submitted
            OBVIOUS
        <3>2. QED
            BY <3>1, WellFormed DEF AcceptedOn, Notionals
    <2>5. QED
        BY <2>3, <2>4, SumInt DEF AcceptedNotional
<1>2. "buy" \in Sides /\ "sell" \in Sides
    BY DEF Sides
<1>3. QED
    BY <1>1, <1>2, StartTypes DEF Projected

\* An accepted intent moves the projection of its name by its notional, and
\* the total with it.
LEMMA ProjectionMoves ==
    ASSUME IsBook(book), accepted \in Seq(Submitted), NEW in \in Submitted, ~Malformed(in),
           accepted' = Append(accepted, in), book' = book
    PROVE  /\ \A e \in Entities :
                 Projected(e)' = Projected(e) + IF e = in.entity THEN Worth(in) ELSE 0
           /\ ProjectedTotal' = ProjectedTotal + Worth(in)
           /\ Bought' = IF in.side = "buy" THEN Bought \cup {in.entity} ELSE Bought
<1>1. in.entity \in Entities /\ in.side \in Sides /\ Notional(in) \in Nat \ {0}
    BY WellFormed
<1>2. \A e, side : AcceptedOn(e, side) = On(accepted, e, side)
    BY DEF AcceptedOn, On
<1>3. \A e, side : AcceptedOn(e, side)' = On(accepted', e, side)
    BY DEF AcceptedOn, On
<1>4. \A e \in Entities, side \in Sides :
        AcceptedNotional(AcceptedOn(e, side))' =
          AcceptedNotional(AcceptedOn(e, side))
            + IF in.entity = e /\ in.side = side THEN Notional(in) ELSE 0
    <2>1. TAKE e \in Entities, side \in Sides
    <2>2. AcceptedNotional(AcceptedOn(e, side)) =
            SumFunctionOnSet(Notionals(accepted), On(accepted, e, side))
        BY <1>2 DEF AcceptedNotional
    <2>3. AcceptedNotional(AcceptedOn(e, side))' =
            SumFunctionOnSet(Notionals(accepted'), On(accepted', e, side))
        BY <1>3 DEF AcceptedNotional
    <2>4. QED
        BY <2>2, <2>3, NotionalOfAppend
<1>5. \A e \in Entities : StartNotional(e)' = StartNotional(e) /\ StartNotional(e) \in Int
    BY StartTypes DEF StartNotional
<1>6. \A e \in Entities :
        Projected(e)' = Projected(e) + IF e = in.entity THEN Worth(in) ELSE 0
    <2>1. TAKE e \in Entities
    <2>2. "buy" \in Sides /\ "sell" \in Sides /\ (in.side = "buy" \/ in.side = "sell")
        BY <1>1 DEF Sides
    <2>3. AcceptedNotional(AcceptedOn(e, "buy")) \in Int /\ AcceptedNotional(AcceptedOn(e, "sell")) \in Int
        BY <2>2, ProjectedTypes
    <2>4. Projected(e) = StartNotional(e) + AcceptedNotional(AcceptedOn(e, "buy"))
                           - AcceptedNotional(AcceptedOn(e, "sell"))
        BY DEF Projected
    <2>5. Projected(e)' = StartNotional(e) + AcceptedNotional(AcceptedOn(e, "buy"))'
                            - AcceptedNotional(AcceptedOn(e, "sell"))'
        BY <1>5 DEF Projected
    <2> DEFINE B == AcceptedNotional(AcceptedOn(e, "buy"))
               S == AcceptedNotional(AcceptedOn(e, "sell"))
    <2>6. AcceptedNotional(AcceptedOn(e, "buy"))' = B + IF in.entity = e /\ in.side = "buy" THEN Notional(in) ELSE 0
        BY <1>4, <2>2
    <2>7. AcceptedNotional(AcceptedOn(e, "sell"))' = S + IF in.entity = e /\ in.side = "sell" THEN Notional(in) ELSE 0
        BY <1>4, <2>2
    <2>8. StartNotional(e) \in Int
        BY <1>5
    <2>9. B \in Int /\ S \in Int
        BY <2>3
    <2> HIDE DEF B, S
    <2>10. Projected(e) = StartNotional(e) + B - S
        BY <2>4 DEF B, S
    <2>11. Projected(e)' = StartNotional(e) + (B + IF in.entity = e /\ in.side = "buy" THEN Notional(in) ELSE 0)
                            - (S + IF in.entity = e /\ in.side = "sell" THEN Notional(in) ELSE 0)
        BY <2>5, <2>6, <2>7
    <2>12. QED
        BY <1>1, <2>2, <2>8, <2>9, <2>10, <2>11 DEF Worth
<1>7. ProjectedTotal' = ProjectedTotal + Worth(in)
    <2> DEFINE f == [e \in Entities |-> Projected(e) - StartNotional(e)]
               g == [e \in Entities |-> Projected(e)' - StartNotional(e)]
    <2>1. StartTotal' = StartTotal /\ StartTotal \in Int
        BY StartTypes DEF StartTotal
    <2>2. ProjectedTotal = StartTotal + SumFunctionOnSet(f, Entities)
        BY DEF ProjectedTotal, SumFunction
    <2>3. ProjectedTotal' = StartTotal + SumFunctionOnSet(g, Entities)
        <3>1. [e \in Entities |-> Projected(e) - StartNotional(e)]' = g
            BY <1>5
        <3>2. ProjectedTotal' = StartTotal' + SumFunction([e \in Entities |-> Projected(e) - StartNotional(e)]')
            BY DEF ProjectedTotal
        <3>3. SumFunction(g) = SumFunctionOnSet(g, Entities)
            BY DEF SumFunction
        <3>4. QED
            BY <2>1, <3>1, <3>2, <3>3
    <2>4. Worth(in) \in Int
        BY <1>1 DEF Worth
    <2>5. \A e \in Entities : f[e] \in Int /\ g[e] \in Int /\ (e # in.entity => f[e] = g[e])
        <3>1. \A e \in Entities : Projected(e) \in Int
            BY ProjectedTypes DEF Sides
        <3>2. QED
            BY <1>5, <1>6, <2>4, <3>1
    <2>6. g[in.entity] = f[in.entity] + Worth(in)
        <3>1. Projected(in.entity) \in Int
            BY <1>1, ProjectedTypes DEF Sides
        <3>2. QED
            BY <1>1, <1>5, <1>6, <2>4, <3>1
    <2>7. SumFunctionOnSet(g, Entities) = SumFunctionOnSet(f, Entities) + g[in.entity] - f[in.entity]
        <3> HIDE DEF f, g
        <3>1. QED
            BY <1>1, <2>5, EntitiesAssumption, SumUpdate
    <2>8. SumFunctionOnSet(f, Entities) \in Int /\ f[in.entity] \in Int
        <3> HIDE DEF f, g
        <3>1. QED
            BY <1>1, <2>5, EntitiesAssumption, SumInt
    <2> HIDE DEF f, g
    <2>9. QED
        BY <2>1, <2>2, <2>3, <2>4, <2>6, <2>7, <2>8
<1>8. Bought' = IF in.side = "buy" THEN Bought \cup {in.entity} ELSE Bought
    <2> DEFINE n == Len(accepted) + 1
    <2>1. DOMAIN accepted = 1..Len(accepted) /\ DOMAIN accepted' = 1..n /\ Len(accepted) \in Nat
        OBVIOUS
    <2>2. accepted'[n] = in /\ DOMAIN accepted' = DOMAIN accepted \cup {n}
        BY <2>1
    <2>3. \A i \in DOMAIN accepted : accepted'[i] = accepted[i]
        BY <2>1
    <2>4. \A e : On(accepted', e, "buy") # {} <=> On(accepted, e, "buy") # {} \/ (in.entity = e /\ in.side = "buy")
        <3> HIDE DEF n
        <3>1. QED
            BY <2>2, <2>3 DEF On
    <2>5. Bought = {e \in Entities : On(accepted, e, "buy") # {}}
        BY <1>2 DEF Bought
    <2>6. Bought' = {e \in Entities : On(accepted', e, "buy") # {}}
        BY <1>3 DEF Bought
    <2>7. QED
        BY <1>1, <2>4, <2>5, <2>6
<1>9. QED
    BY <1>6, <1>7, <1>8

\* The names with a notional are finitely many.
LEMMA NamesFinite == IsFiniteSet({e \in Entities : notional[e] > 0})
BY EntitiesAssumption, FS_Subset

\* What a step does to the sales still ahead.
LEMMA SalesAhead ==
    ASSUME batch \in Seq(Submitted), batch # <<>>, batch' = Tail(batch)
    PROVE  \A e \in Entities :
               /\ SalesLeft(e) \in Nat /\ SalesLeft(e)' \in Nat
               /\ SalesLeft(e) = SalesLeft(e)' + IF SaleOf(e, Head(batch)) THEN Notional(Head(batch)) ELSE 0
<1>1. TAKE e \in Entities
<1>2. ASSUME NEW b \in Seq(Submitted)
      PROVE  SumFunctionOnSet(Notionals(b), SalesOf(e, b)) \in Nat
    <2>1. DOMAIN b = 1..Len(b) /\ Len(b) \in Nat
        OBVIOUS
    <2>2. IsFiniteSet(SalesOf(e, b)) /\ SalesOf(e, b) \subseteq DOMAIN b
        <3>1. IsFiniteSet(DOMAIN b)
            BY <2>1, FS_Interval
        <3>2. SalesOf(e, b) \subseteq DOMAIN b
            BY DEF SalesOf
        <3>3. QED
            BY <3>1, <3>2, FS_Subset
    <2>3. \A i \in SalesOf(e, b) : Notionals(b)[i] \in Nat
        <3>1. \A i \in DOMAIN b : b[i] \in Submitted
            OBVIOUS
        <3>2. QED
            BY <2>2, <3>1, WellFormed DEF SalesOf, Notionals
    <2>4. QED
        BY <2>2, <2>3, SumNat
<1>3. Tail(batch) \in Seq(Submitted)
    OBVIOUS
<1>4. SalesLeft(e) = SumFunctionOnSet(Notionals(batch), SalesOf(e, batch))
    BY DEF SalesLeft
<1>5. SalesLeft(e)' = SumFunctionOnSet(Notionals(Tail(batch)), SalesOf(e, Tail(batch)))
    BY DEF SalesLeft
<1>6. QED
    BY <1>2, <1>3, <1>4, <1>5, SalesOfTail

\* Checking one intent keeps the invariant, whatever is decided.
LEMMA GateStepInv == GateInv /\ CheckIntent => GateInv'
<1> SUFFICES ASSUME GateInv, CheckIntent PROVE GateInv'
    OBVIOUS
<1>0. PICK in : in = Head(batch)
    OBVIOUS
<1>1. batch \in Seq(Submitted) /\ batch # <<>> /\ batch' = Tail(batch) /\ book' = book
    BY DEF GateInv, CheckIntent
<1>2. in \in Submitted /\ batch' \in Seq(Submitted)
    BY <1>0, <1>1
<1>3. IsBook(book) /\ IsBook(book)' /\ accepted \in Seq(Submitted)
    BY <1>1 DEF GateInv, IsBook
<1>4. \A e \in Entities :
        /\ SalesLeft(e) \in Nat /\ SalesLeft(e)' \in Nat
        /\ SalesLeft(e) = SalesLeft(e)' + IF SaleOf(e, in) THEN Notional(in) ELSE 0
    BY <1>0, <1>1, SalesAhead
<1>5. \A e \in Entities : notional[e] \in Nat /\ notional[e] = Projected(e) /\ SalesLeft(e) <= notional[e]
    BY DEF GateInv
<1>6. CASE Reject(in)
    <2>1. UNCHANGED <<names, notional, total, accepted, book>>
        BY <1>1, <1>6 DEF Reject
    <2>2. \A e \in Entities : Projected(e)' = Projected(e) /\ SalesLeft(e)' <= SalesLeft(e)
        <3>1. \A e \in Entities : Projected(e)' = Projected(e)
            BY <2>1 DEF Projected, StartNotional, AcceptedNotional, AcceptedOn
        <3>2. \A e \in Entities : SaleOf(e, in) => Notional(in) \in Nat
            BY <1>2, WellFormed DEF SaleOf
        <3>3. QED
            BY <1>4, <3>1, <3>2
    <2>3. ProjectedTotal' = ProjectedTotal /\ Bought' = Bought
        BY <2>1 DEF ProjectedTotal, StartTotal, Projected, StartNotional, AcceptedNotional, AcceptedOn, Bought
    <2>4. \A e \in Entities : notional[e]' = Projected(e)' /\ SalesLeft(e)' <= notional[e]'
        BY <1>4, <1>5, <2>1, <2>2
    <2>5. QED
        BY <1>2, <1>3, <2>1, <2>3, <2>4 DEF GateInv
<1>7. CASE AcceptSell(in) \/ AcceptBuy(in)
    <2>1. accepted' = Append(accepted, in) /\ ~Malformed(in)
        BY <1>7 DEF AcceptSell, AcceptBuy, Refusal
    <2>2. in.entity \in Entities /\ in.side \in Sides /\ Notional(in) \in Nat \ {0}
        BY <1>2, <2>1, WellFormed
    <2>3. /\ accepted' \in Seq(Submitted)
          /\ \A i \in DOMAIN accepted' : ~Malformed(accepted'[i])
        <3>1. \A i \in DOMAIN accepted : ~Malformed(accepted[i])
            BY DEF GateInv
        <3>2. DOMAIN accepted = 1..Len(accepted) /\ Len(accepted) \in Nat
            BY <1>3
        <3>3. DOMAIN accepted' = 1..(Len(accepted) + 1)
            BY <1>2, <1>3, <2>1
        <3>4. \A i \in DOMAIN accepted' : accepted'[i] = in \/ (i \in DOMAIN accepted /\ accepted'[i] = accepted[i])
            BY <1>2, <1>3, <2>1, <3>2, <3>3
        <3>5. QED
            BY <1>2, <1>3, <2>1, <3>1, <3>4
    <2>4. /\ \A e \in Entities : Projected(e)' = Projected(e) + IF e = in.entity THEN Worth(in) ELSE 0
          /\ ProjectedTotal' = ProjectedTotal + Worth(in)
          /\ Bought' = IF in.side = "buy" THEN Bought \cup {in.entity} ELSE Bought
        BY <1>1, <1>2, <1>3, <2>1, ProjectionMoves
    <2>5. /\ notional \in [Entities -> Nat]
          /\ names = {e \in Entities : notional[e] > 0} /\ IsFiniteSet(names)
          /\ total \in Int /\ total = ProjectedTotal
        BY NamesFinite DEF GateInv
    <2>6. CASE AcceptSell(in)
        <3> DEFINE left == notional[in.entity] - Notional(in)
        <3>1. in.side = "sell" /\ Worth(in) = -Notional(in) /\ SaleOf(in.entity, in)
            BY <2>1, <2>6 DEF AcceptSell, Worth, SaleOf
        <3>2. left \in Nat /\ SalesLeft(in.entity)' <= left
            <4>1. /\ SalesLeft(in.entity) \in Nat /\ SalesLeft(in.entity)' \in Nat
                  /\ SalesLeft(in.entity) = SalesLeft(in.entity)' + Notional(in)
                BY <1>4, <2>2, <3>1
            <4>2. notional[in.entity] \in Nat /\ SalesLeft(in.entity) <= notional[in.entity]
                BY <1>5, <2>2
            <4>3. QED
                BY <2>2, <4>1, <4>2
        <3>3. notional' = [notional EXCEPT ![in.entity] = left]
            <4>1. notional' = [notional EXCEPT ![in.entity] = IF left <= 0 THEN 0 ELSE left]
                BY <2>6 DEF AcceptSell
            <4>2. (IF left <= 0 THEN 0 ELSE left) = left
                BY <3>2
            <4>3. QED
                BY <4>1, <4>2
        <3>4. names' = {e \in Entities : notional'[e] > 0} /\ names' \subseteq names
            <4>1. names' = IF left <= 0 THEN names \ {in.entity} ELSE names
                BY <2>6 DEF AcceptSell
            <4>2. \A e \in Entities : notional'[e] = IF e = in.entity THEN left ELSE notional[e]
                BY <2>5, <3>3
            <4>3. left > 0 => notional[in.entity] > 0
                BY <1>5, <2>2, <3>2
            <4> HIDE DEF left
            <4>4. QED
                BY <2>2, <2>5, <3>2, <4>1, <4>2, <4>3
        <3>5. \A e \in Entities : notional'[e] = Projected(e)' /\ SalesLeft(e)' <= notional'[e]
                                   /\ notional'[e] <= notional[e]
            <4>1. TAKE e \in Entities
            <4>2. CASE e = in.entity
                <5>1. notional'[e] = left /\ notional[e] \in Nat
                    BY <1>5, <2>2, <2>5, <3>3, <4>2
                <5>2. Projected(e)' = Projected(e) - Notional(in) /\ notional[e] = Projected(e)
                    BY <1>5, <2>2, <2>4, <3>1, <4>2
                <5>3. Notional(in) \in Nat /\ SalesLeft(e)' <= left
                    <6>1. SalesLeft(e)' = SalesLeft(in.entity)'
                        BY <4>2
                    <6>2. QED
                        BY <2>2, <3>2, <6>1
                <5>4. notional[e] = notional[in.entity]
                    BY <4>2
                <5>5. left = notional[e] - Notional(in)
                    BY <5>4
                <5> HIDE DEF left
                <5>6. QED
                    BY <5>1, <5>2, <5>3, <5>5
            <4>3. CASE e # in.entity
                <5>1. ~SaleOf(e, in)
                    BY <4>3 DEF SaleOf
                <5>2. notional'[e] = notional[e] /\ Projected(e)' = Projected(e)
                    BY <1>5, <2>4, <2>5, <3>3, <4>3
                <5>3. QED
                    BY <1>4, <1>5, <5>1, <5>2
            <4>4. QED
                BY <4>2, <4>3
        <3>6. total' = total - Notional(in) /\ total' \in Int /\ total' = ProjectedTotal' /\ total' <= total
            BY <2>2, <2>4, <2>5, <2>6, <3>1 DEF AcceptSell
        <3>7. Bought' = Bought
            BY <2>4, <3>1
        <3>8. \A e \in Bought' : book'.equity > 0 => notional'[e] * 100 <= MaxStockPct * book'.equity
            <4>1. TAKE e \in Bought'
            <4>2. e \in Entities /\ (book.equity > 0 => notional[e] * 100 <= MaxStockPct * book.equity)
                BY <3>7 DEF GateInv, Bought
            <4>3. notional'[e] \in Nat /\ notional'[e] <= notional[e]
                BY <2>5, <3>2, <3>3, <3>5, <4>2
            <4>4. MaxStockPct * book.equity \in Int
                <5>1. MaxStockPct \in Int /\ book.equity \in Int
                    BY <1>3, LimitsAssumption DEF IsBook
                <5>2. QED
                    BY <5>1
            <4>5. QED
                BY <1>1, <1>5, <4>2, <4>3, <4>4
        <3>9. Bought' # {} /\ MaxBookNotional > 0 => total' <= MaxBookNotional
            BY <2>5, <3>6, <3>7, LimitsAssumption DEF GateInv
        <3>10. Bought' \ DOMAIN book'.positions # {} => Cardinality(names') <= MaxPositions
            <4>1. Cardinality(names') <= Cardinality(names) /\ Cardinality(names) \in Nat /\ Cardinality(names') \in Nat
                BY <2>5, <3>4, FS_Subset, FS_CardinalityType
            <4>2. QED
                BY <1>1, <3>7, <4>1, LimitsAssumption DEF GateInv
        <3>11. notional' \in [Entities -> Nat]
            BY <2>5, <3>2, <3>3
        <3>12. QED
            BY <1>2, <1>3, <2>3, <3>4, <3>5, <3>6, <3>8, <3>9, <3>10, <3>11 DEF GateInv
    <2>7. CASE AcceptBuy(in)
        <3> DEFINE now == notional[in.entity] + Notional(in)
        <3>1. in.side = "buy" /\ Worth(in) = Notional(in) /\ \A e : ~SaleOf(e, in)
            BY <2>7 DEF AcceptBuy, Worth, SaleOf
        <3>2. notional' = [notional EXCEPT ![in.entity] = now] /\ now \in Nat \ {0}
            BY <2>2, <2>5, <2>7 DEF AcceptBuy
        <3>3. names' = {e \in Entities : notional'[e] > 0} /\ names' = names \cup {in.entity}
            <4>1. names' = names \cup {in.entity}
                BY <2>7 DEF AcceptBuy
            <4>2. \A e \in Entities : notional'[e] = IF e = in.entity THEN now ELSE notional[e]
                BY <2>5, <3>2
            <4> HIDE DEF now
            <4>3. QED
                BY <2>2, <2>5, <3>2, <4>1, <4>2
        <3>4. \A e \in Entities : notional'[e] = Projected(e)' /\ SalesLeft(e)' <= notional'[e]
            <4>1. TAKE e \in Entities
            <4>2. SalesLeft(e)' <= notional[e]
                BY <1>4, <1>5, <3>1
            <4>3. CASE e = in.entity
                BY <1>4, <1>5, <2>2, <2>4, <2>5, <3>1, <3>2, <4>2, <4>3
            <4>4. CASE e # in.entity
                BY <1>5, <2>4, <2>5, <3>2, <4>2, <4>4
            <4>5. QED
                BY <4>3, <4>4
        <3>5. total' = total + Notional(in) /\ total' \in Int /\ total' = ProjectedTotal'
            BY <2>2, <2>4, <2>5, <2>7, <3>1 DEF AcceptBuy
        <3>6. Bought' = Bought \cup {in.entity}
            BY <2>4, <3>1
        <3>7. ~NoRoomForName(in) /\ ~OverStockCap(in) /\ ~OverBookCap(in)
            BY <2>7, <3>1 DEF AcceptBuy, Refusal, BuyRefusal
        <3>8. \A e \in Bought' : book'.equity > 0 => notional'[e] * 100 <= MaxStockPct * book'.equity
            <4>1. TAKE e \in Bought'
            <4>2. MaxStockPct * book.equity \in Int /\ book.equity \in Int
                <5>1. MaxStockPct \in Int /\ book.equity \in Int
                    BY <1>3, LimitsAssumption DEF IsBook
                <5>2. QED
                    BY <5>1
            <4>3. CASE e = in.entity
                <5>1. notional'[e] = now
                    BY <2>2, <2>5, <3>2, <4>3
                <5>2. book.equity > 0 => ~(now * 100 > MaxStockPct * book.equity)
                    BY <3>7 DEF OverStockCap
                <5>3. now * 100 \in Int
                    BY <3>2
                <5> HIDE DEF now
                <5>4. QED
                    BY <1>1, <4>2, <5>1, <5>2, <5>3
            <4>4. CASE e # in.entity
                <5>1. e \in Bought /\ e \in Entities
                    BY <3>6, <4>4 DEF Bought
                <5>2. notional'[e] = notional[e]
                    BY <2>5, <3>2, <4>4, <5>1
                <5>3. QED
                    BY <1>1, <5>1, <5>2 DEF GateInv
            <4>5. QED
                BY <4>3, <4>4
        <3>9. Bought' # {} /\ MaxBookNotional > 0 => total' <= MaxBookNotional
            BY <2>2, <2>5, <3>5, <3>7, LimitsAssumption DEF OverBookCap
        <3>10. Bought' \ DOMAIN book'.positions # {} => Cardinality(names') <= MaxPositions
            <4>1. Cardinality(names) \in Nat
                BY <2>5, FS_CardinalityType
            <4>2. CASE in.entity \in names
                <5>1. names' = names
                    BY <3>3, <4>2
                <5>2. CASE in.entity \in DOMAIN book.positions
                    BY <1>1, <3>6, <5>1, <5>2 DEF GateInv
                <5>3. CASE in.entity \notin DOMAIN book.positions
                    <6>1. in.entity \in Bought
                        <7>1. SUFFICES ASSUME in.entity \notin Bought PROVE FALSE
                            OBVIOUS
                        <7>2. AcceptedOn(in.entity, "buy") = {}
                            BY <2>2, <7>1 DEF Bought
                        <7>3. AcceptedNotional(AcceptedOn(in.entity, "buy")) = 0
                            BY <7>2, SumEmpty DEF AcceptedNotional
                        <7>4. StartNotional(in.entity) = 0
                            BY <5>3 DEF StartNotional
                        <7>5. AcceptedNotional(AcceptedOn(in.entity, "sell")) \in Nat
                            <8>1. DOMAIN accepted = 1..Len(accepted) /\ Len(accepted) \in Nat
                                BY <1>3
                            <8>0. IsFiniteSet(DOMAIN accepted)
                                BY <8>1, FS_Interval
                            <8>2. IsFiniteSet(AcceptedOn(in.entity, "sell"))
                                BY <8>0, FS_Subset DEF AcceptedOn
                            <8>3. \A i \in DOMAIN accepted : accepted[i] \in Submitted /\ ~Malformed(accepted[i])
                                BY <1>3 DEF GateInv
                            <8>4. \A i \in AcceptedOn(in.entity, "sell") : Notionals(accepted)[i] \in Nat
                                BY <8>3, WellFormed DEF AcceptedOn, Notionals
                            <8>5. QED
                                BY <8>2, <8>4, SumNat DEF AcceptedNotional
                        <7>6. notional[in.entity] = 0 + 0 - AcceptedNotional(AcceptedOn(in.entity, "sell"))
                            BY <1>5, <2>2, <7>3, <7>4 DEF Projected
                        <7>7. notional[in.entity] > 0
                            BY <2>5, <4>2
                        <7>8. QED
                            BY <7>5, <7>6, <7>7
                    <6>2. Bought \ DOMAIN book.positions # {}
                        BY <5>3, <6>1
                    <6>3. QED
                        BY <5>1, <6>2 DEF GateInv
                <5>4. QED
                    BY <5>2, <5>3
            <4>3. CASE in.entity \notin names
                <5>1. Cardinality(names) < MaxPositions
                    BY <3>7, <4>1, <4>3, LimitsAssumption DEF NoRoomForName
                <5>2. Cardinality(names') = Cardinality(names) + 1
                    BY <2>5, <3>3, <4>3, FS_AddElement
                <5>3. QED
                    BY <4>1, <5>1, <5>2, LimitsAssumption
            <4>4. QED
                BY <4>2, <4>3
        <3>11. notional' \in [Entities -> Nat]
            BY <2>5, <3>2
        <3>12. QED
            BY <1>2, <1>3, <2>3, <3>3, <3>4, <3>5, <3>8, <3>9, <3>10, <3>11 DEF GateInv
    <2>8. QED
        BY <1>7, <2>6, <2>7
<1>8. QED
    BY <1>0, <1>6, <1>7 DEF CheckIntent

\* A step that leaves the gate alone keeps it.
LEMMA GateIdleInv == GateInv /\ UNCHANGED gateVars => GateInv'
<1> SUFFICES ASSUME GateInv, UNCHANGED gateVars PROVE GateInv'
    OBVIOUS
<1>1. QED
    BY DEF GateInv, gateVars, SalesLeft, ProjectedTotal, StartTotal, Projected, StartNotional,
       AcceptedNotional, AcceptedOn, Bought

\* Whatever batch is checked against whatever book, no accepted batch takes the
\* book over a cap it did not already break (risk.go, Gate.Check).
THEOREM GateKeepsCaps == GateSpec => []CapsHoldForTheBatch
<1>1. GateInv /\ [GateNext]_gateVars => GateInv'
    BY GateStepInv, GateIdleInv DEF GateNext, Decided
<1>2. QED
    BY <1>1, GateInitInv, GateInvSafe, PTL DEF GateSpec

\* An intent that is refused leaves the working book as it was, so that it
\* counts against no cap of a later one (risk.go, the reject closure).
THEOREM GateLeavesNoTrace == GateSpec => []RefusedLeavesNoTrace
<1>1. GateInv /\ [GateNext]_gateVars => GateInv'
    BY GateStepInv, GateIdleInv DEF GateNext, Decided
<1>2. QED
    BY <1>1, GateInitInv, GateInvSafe, PTL DEF GateSpec

-----------------------------------------------------------------------------
(* Reductions pass the gate. *)

RuleNames == {"malformed_intent", "kill_switch", "daily_loss_cap", "min_notional",
              "max_positions", "max_stock_fraction", "max_book_notional", "none"}

\* A refusal that traps nobody: of a purchase, or for a reason that is not a cap.
FreeRefusal ==
    {r \in [intent : Submitted, rule : RuleNames] :
        r.intent.side = "sell" => r.rule \in {"malformed_intent", "kill_switch"}}

RefusalsFree == rejected \in Seq(FreeRefusal)

\* Whatever the book, its losses and what the batch held before, a turn of the
\* gate refuses no reduction by a cap.
LEMMA CheckIntentFree ==
    ASSUME GateInv, RefusalsFree, CheckIntent
    PROVE  RefusalsFree'
<1> DEFINE in == Head(batch)
           refused == [intent |-> in, rule |-> Refusal(in)]
<1>1. in \in Submitted
    BY DEF GateInv, CheckIntent
<1>2. Refusal(in) # "none" => refused \in FreeRefusal
    <2>1. Refusal(in) \in RuleNames
        BY DEF Refusal, BuyRefusal, RuleNames
    <2>2. in.side = "sell" => Refusal(in) \in {"malformed_intent", "kill_switch", "none"}
        BY DEF Refusal
    <2>3. refused \in [intent : Submitted, rule : RuleNames]
        BY <1>1, <2>1
    <2>4. QED
        BY <2>2, <2>3 DEF FreeRefusal
<1>3. CASE Reject(in)
    <2>1. rejected' = Append(rejected, refused) /\ refused \in FreeRefusal
        BY <1>2, <1>3 DEF Reject
    <2>2. QED
        BY <2>1 DEF RefusalsFree
<1>4. CASE AcceptSell(in) \/ AcceptBuy(in)
    BY <1>4 DEF AcceptSell, AcceptBuy, RefusalsFree
<1>5. QED
    BY <1>3, <1>4 DEF CheckIntent

\* A cap never refuses a reduction, on a day of losses beyond the daily cap too:
\* not the loss cap, the floor, the number of names nor the size of the book
\* (risk.go, the package comment on reductions).
THEOREM ReductionsPass == GateSpec => []NeverTrapped
<1>1. GateInit => RefusalsFree
    BY DEF GateInit, RefusalsFree
<1>2. GateInv /\ RefusalsFree /\ [GateNext]_gateVars => RefusalsFree'
    BY CheckIntentFree DEF GateNext, Decided, gateVars, RefusalsFree
<1>3. GateInv /\ [GateNext]_gateVars => GateInv'
    BY GateStepInv, GateIdleInv DEF GateNext, Decided
<1>4. RefusalsFree => NeverTrapped
    BY DEF RefusalsFree, FreeRefusal, NeverTrapped
<1>5. QED
    BY <1>1, <1>2, <1>3, <1>4, GateInitInv, PTL DEF GateSpec

-----------------------------------------------------------------------------
(* Arithmetic of shares and money. *)

\* Scaling by a ratio never makes shares negative.
LEMMA ScaledNat ==
    ASSUME NEW q \in Nat, NEW n \in Nat \ {0}, NEW d \in Nat \ {0}
    PROVE  (q * n) \div d \in Nat
<1>1. q * n \in Nat
    OBVIOUS
<1>2. QED
    BY <1>1

\* A floor of a quotient is monotone.
LEMMA DivMonotone ==
    ASSUME NEW a \in Nat, NEW b \in Nat, NEW d \in Nat \ {0}, a <= b
    PROVE  a \div d <= b \div d
OBVIOUS

\* A waiting sale of no more than is held is still covered after both are
\* scaled by the same ratio.
LEMMA ScaledMonotone ==
    ASSUME NEW p \in Nat, NEW q \in Nat, p <= q,
           NEW n \in Nat \ {0}, NEW d \in Nat \ {0}
    PROVE  (p * n) \div d <= (q * n) \div d
<1>1. p * n <= q * n
    OBVIOUS
<1>2. p * n \in Nat /\ q * n \in Nat
    OBVIOUS
<1>3. QED
    BY <1>1, <1>2, DivMonotone

\* A share of an amount that is at most all of it.
LEMMA BpsBounds ==
    ASSUME NEW amount \in Nat, NEW rate \in Nat
    PROVE  /\ Bps(amount, rate) \in Nat
           /\ rate <= 10000 => Bps(amount, rate) <= amount
<1>1. amount * rate \in Nat
    OBVIOUS
<1>2. rate <= 10000 => amount * rate <= amount * 10000
    OBVIOUS
<1>3. QED
    BY <1>1, <1>2 DEF Bps

\* A multiple divides exactly.
LEMMA ExactQuotient ==
    ASSUME NEW n \in Nat \ {0}, NEW x \in Nat
    PROVE  (x * n) \div n = x
<1> DEFINE k == (x * n) \div n
           r == (x * n) % n
<1>1. x * n \in Nat
    OBVIOUS
<1>2. k \in Int /\ r \in Int /\ x * n = n * k + r /\ 0 <= r /\ r < n
    BY <1>1
<1> HIDE DEF k, r
<1>3. n * (x - k) = r
    BY <1>2
<1>4. ~(x - k >= 1)
    <2>1. SUFFICES ASSUME x - k >= 1 PROVE FALSE
        OBVIOUS
    <2>2. n * (x - k) >= n * 1
        BY <1>2, <2>1
    <2>3. QED
        BY <1>2, <1>3, <2>2
<1>5. ~(x - k <= -1)
    <2>1. SUFFICES ASSUME x - k <= -1 PROVE FALSE
        OBVIOUS
    <2>2. n * (x - k) <= n * (-1)
        BY <1>2, <2>1
    <2>3. QED
        BY <1>2, <1>3, <2>2
<1>6. x = k
    BY <1>2, <1>4, <1>5
<1>7. QED
    BY <1>6 DEF k

\* A division that leaves no rest is exact.
LEMMA ExactDivision ==
    ASSUME NEW n \in Nat \ {0}, NEW x \in Nat, x % n = 0
    PROVE  (x \div n) \in Nat /\ (x \div n) * n = x
<1>0. x \in Int /\ n \in Int /\ n > 0
    OBVIOUS
<1>1. x \div n \in Int /\ x = n * (x \div n) + (x % n)
    BY <1>0
<1>2. x \div n >= 0
    <2> DEFINE k == x \div n
    <2>1. k \in Int /\ x = n * k
        BY <1>1
    <2> HIDE DEF k
    <2>2. ~(k <= -1)
        <3>1. SUFFICES ASSUME k <= -1 PROVE FALSE
            OBVIOUS
        <3>2. n * k <= n * (-1)
            BY <2>1, <3>1
        <3>3. QED
            BY <2>1, <3>2
    <2>3. k >= 0
        BY <2>1, <2>2
    <2>4. QED
        BY <2>3 DEF k
<1>3. QED
    BY <1>1, <1>2

\* Shares rescaled, marked anew and with the fraction paid out are worth what
\* they were.
LEMMA ActionIsNeutral ==
    ASSUME NEW q \in Nat, NEW m \in Nat, NEW p \in Nat, NEW n \in Nat \ {0}, NEW d \in Nat \ {0},
           m * d = p * n
    PROVE  /\ (m * d) \div n = p
           /\ ((q * n) \div d) * p + (((q * n) % d) * m) \div n = q * m
<1> DEFINE s == (q * n) \div d
           r == (q * n) % d
<1>1. q * n \in Nat
    OBVIOUS
<1>2. s \in Nat /\ r \in Nat /\ q * n = d * s + r
    <2>1. s \in Int /\ r \in Int /\ q * n = d * s + r /\ r >= 0
        BY <1>1
    <2>2. s >= 0
        BY <1>1
    <2>3. QED
        BY <2>1, <2>2
<1> HIDE DEF s, r
<1>3. r * m = (q * m - s * p) * n
    <2>1. (q * n) * m = (d * s) * m + r * m
        <3>1. (d * s + r) * m = (d * s) * m + r * m
            BY <1>2
        <3>2. QED
            BY <1>2, <3>1
    <2>2. (d * s) * m = s * (m * d)
        BY <1>2
    <2>3. s * (m * d) = s * (p * n)
        OBVIOUS
    <2>4. s * (p * n) = (s * p) * n /\ (q * n) * m = (q * m) * n
        BY <1>2
    <2>5. (q * m - s * p) * n = (q * m) * n - (s * p) * n
        BY <1>2
    <2>6. r * m \in Nat /\ (s * p) * n \in Nat /\ (q * m) * n \in Nat
        BY <1>2
    <2>7. (q * m) * n = (s * p) * n + r * m
        BY <2>1, <2>2, <2>3, <2>4
    <2>8. QED
        BY <2>5, <2>6, <2>7
<1> DEFINE x == q * m - s * p
<1>4. x \in Nat
    <2>1. x \in Int /\ x * n = r * m /\ r * m \in Nat
        BY <1>2, <1>3
    <2> HIDE DEF x
    <2>2. ~(x <= -1)
        <3>1. SUFFICES ASSUME x <= -1 PROVE FALSE
            OBVIOUS
        <3>2. x * n <= (-1) * n
            BY <2>1, <3>1
        <3>3. QED
            BY <2>1, <3>2
    <2>3. QED
        BY <2>1, <2>2
<1>5. (r * m) \div n = x
    <2>1. r * m = x * n
        BY <1>3
    <2> HIDE DEF x
    <2>2. QED
        BY <1>4, <2>1, ExactQuotient
<1>6. (m * d) \div n = p
    BY ExactQuotient
<1>7. s * p + (r * m) \div n = q * m
    BY <1>2, <1>5
<1>8. QED
    BY <1>6, <1>7 DEF s, r

-----------------------------------------------------------------------------
(* The values the model is built from keep their types. *)

\* Applying a corporate action to a holding leaves a holding.
LEMMA AfterActionType ==
    ASSUME NEW p \in Position, NEW r \in Ratio
    PROVE  AfterAction(p, r) \in Position /\ FractionCash(p, r) \in Nat
<1>1. Scaled(p.qty, r) \in Nat /\ AdjustedMark(p.mark, r) \in Nat
    BY ScaledNat DEF Scaled, AdjustedMark, Position, Ratio
<1>2. (p.qty * r.num) % r.den \in Nat
    <2>1. p.qty * r.num \in Nat /\ r.den \in Nat \ {0}
        BY DEF Position, Ratio
    <2>2. QED
        BY <2>1
<1>3. ((p.qty * r.num) % r.den) * p.mark \in Nat
    BY <1>2 DEF Position
<1>4. QED
    BY <1>1, <1>3 DEF AfterAction, FractionCash, NoPosition, Position, Ratio

\* What the book is worth, added up over every entity: what is not held is
\* worth nothing.
Worths(p) == [e \in Entities |-> p[e].qty * p[e].mark]

\* The value of the holdings is a sum over all entities, zero for those not held.
LEMMA ValueOverAll ==
    ASSUME NEW p \in Holdings
    PROVE  /\ HoldingsValue(p) = SumFunctionOnSet(Worths(p), Entities)
           /\ \A e \in Entities : Worths(p)[e] \in Nat
<1> DEFINE w == Worths(p)
           h == [e \in Held(p) |-> p[e].qty * p[e].mark]
<1>1. \A e \in Entities : p[e].qty \in Nat /\ p[e].mark \in Nat
    BY DEF Holdings, Position
<1>2. \A e \in Entities : w[e] = p[e].qty * p[e].mark /\ w[e] \in Nat
    BY <1>1 DEF Worths
<1>3. Held(p) \in SUBSET Entities /\ IsFiniteSet(Held(p))
    BY EntitiesAssumption, FS_Subset DEF Held
<1>4. \A e \in Entities \ Held(p) : w[e] = 0
    <2>1. TAKE e \in Entities \ Held(p)
    <2>2. p[e].qty = 0
        BY <1>1 DEF Held
    <2>3. 0 * p[e].mark = 0
        BY <1>1
    <2>4. QED
        BY <1>2, <2>2, <2>3
<1>5. SumFunctionOnSet(w, Entities) = SumFunctionOnSet(w, Held(p))
    <2> HIDE DEF w
    <2>1. \A e \in Entities : w[e] \in Int
        BY <1>2
    <2>2. QED
        BY <1>3, <1>4, <2>1, EntitiesAssumption, SumWithoutZeros
<1>6. SumFunctionOnSet(w, Held(p)) = SumFunctionOnSet(h, Held(p))
    <2>1. \A e \in Held(p) : w[e] = h[e]
        BY <1>2, <1>3
    <2> HIDE DEF w, h
    <2>2. QED
        BY <1>3, <2>1, SumSame
<1>7. HoldingsValue(p) = SumFunctionOnSet(h, Held(p))
    BY DEF HoldingsValue, SumFunction
<1>8. QED
    BY <1>2, <1>5, <1>6, <1>7

\* One holding changes, and the book's worth by as much as it.
LEMMA ValueUpdate ==
    ASSUME NEW p \in Holdings, NEW e \in Entities, NEW x \in Position
    PROVE  /\ HoldingsValue(p) \in Nat
           /\ HoldingsValue([p EXCEPT ![e] = x]) =
                HoldingsValue(p) + x.qty * x.mark - p[e].qty * p[e].mark
<1> DEFINE q == [p EXCEPT ![e] = x]
           f == Worths(p)
           g == Worths(q)
<1>1. q \in Holdings
    BY DEF Holdings
<1>2. \A y \in Entities : f[y] \in Int /\ g[y] \in Int /\ f[y] \in Nat
    BY <1>1, ValueOverAll
<1>3. \A y \in Entities : y # e => f[y] = g[y]
    BY DEF Worths, Holdings
<1>4. f[e] = p[e].qty * p[e].mark /\ g[e] = x.qty * x.mark
    BY DEF Worths, Holdings
<1>5. HoldingsValue(p) = SumFunctionOnSet(f, Entities)
    BY ValueOverAll
<1>6. HoldingsValue(q) = SumFunctionOnSet(g, Entities)
    BY <1>1, ValueOverAll
<1>7. SumFunctionOnSet(g, Entities) = SumFunctionOnSet(f, Entities) + g[e] - f[e]
    <2> HIDE DEF f, g
    <2>1. QED
        BY <1>2, <1>3, EntitiesAssumption, SumUpdate
<1>8. SumFunctionOnSet(f, Entities) \in Nat
    <2> HIDE DEF f
    <2>1. QED
        BY <1>2, EntitiesAssumption, SumNat
<1>9. QED
    BY <1>4, <1>5, <1>6, <1>7, <1>8

\* A bar's price with slippage, and the charges on a turnover, are amounts.
LEMMA FillOfType ==
    ASSUME NEW o \in Order, NEW b, b \in [DOMAIN b -> Bars], o.entity \in DOMAIN b
    PROVE  FillOf(o, b) \in Fill
<1> DEFINE open == b[o.entity].open
           price == FillPrice(open, o.side)
<1>1. open \in Nat
    BY EngineAssumption DEF Bar
<1>2. price \in Nat
    <2>1. SlippageBps \in Nat /\ SlippageBps <= 10000
        BY ChargesAssumption
    <2>2. Bps(open, SlippageBps) \in Nat /\ Bps(open, SlippageBps) <= open
        BY <1>1, <2>1, BpsBounds
    <2>3. QED
        BY <1>1, <2>2 DEF FillPrice
<1>3. o.qty * price \in Nat
    BY <1>2 DEF Order
<1>4. Charges(o.side, o.qty * price) \in Nat
    BY <1>3, BpsBounds, ChargesAssumption DEF Charges
<1>5. QED
    BY <1>2, <1>4 DEF FillOf, Fill

\* A function into S over some entities is one over its own domain.
LEMMA PartialFunction ==
    ASSUME NEW S, NEW f
    PROVE  f \in UNION {[D -> S] : D \in SUBSET Entities}
               <=> DOMAIN f \subseteq Entities /\ f \in [DOMAIN f -> S]
OBVIOUS

\* What a strategy may propose is a sequence of intents, at most one per
\* entity, that sells no more than is held.
LEMMA BatchType ==
    ASSUME TypeOK, NEW b \in Batches
    PROVE  /\ b \in Seq(Intent)
           /\ \A i, j \in DOMAIN b : i # j => b[i].entity # b[j].entity
           /\ \A i \in DOMAIN b : b[i].side = "sell" => b[i].qty <= pos[b[i].entity].qty
<1>1. Proposals \subseteq Intent
    <2>1. Held(pos) \subseteq Entities
        BY DEF Held
    <2>2. \A e \in Entities : pos[e].qty \in Nat /\ pos[e].mark \in Nat
        BY DEF TypeOK, Holdings, Position
    <2>3. DOMAIN bars \subseteq Entities /\ \A e \in DOMAIN bars : bars[e].close \in Nat
        <3>1. DOMAIN bars \subseteq Entities /\ bars \in [DOMAIN bars -> Bars]
            BY PartialFunction DEF TypeOK
        <3>2. QED
            BY <3>1, EngineAssumption DEF Bar
    <2>4. BuySizes \subseteq Nat
        BY EngineAssumption
    <2>5. QED
        BY <2>1, <2>2, <2>3, <2>4 DEF Proposals, Intent, Sides
<1>2. PICK n \in 0..Cardinality(Entities) : b \in [1..n -> Proposals]
    BY DEF Batches
<1>3. n \in Nat
    BY <1>2, FS_CardinalityType, EntitiesAssumption
<1>4. b \in Seq(Intent)
    BY <1>1, <1>2, <1>3
<1>5. QED
    BY <1>4 DEF Batches

-----------------------------------------------------------------------------
(* Type correctness. *)

\* A step of the gate keeps its variables' types.
LEMMA CheckIntentType ==
    ASSUME GateTypeOK, CheckIntent
    PROVE  GateTypeOK'
<1> DEFINE in == Head(batch)
<1>1. in \in Intent /\ batch' \in Seq(Intent)
    BY DEF GateTypeOK, CheckIntent
<1>2. in.entity \in Entities
    BY <1>1 DEF Intent
<1>3. CASE Reject(in)
    BY <1>1, <1>3 DEF GateTypeOK, Reject
<1>4. CASE AcceptSell(in)
    <2>1. names' \in SUBSET Entities
        BY <1>4 DEF AcceptSell, GateTypeOK
    <2>2. accepted' \in Seq(Intent)
        BY <1>1, <1>4 DEF AcceptSell, GateTypeOK
    <2>3. QED
        BY <1>1, <2>1, <2>2 DEF GateTypeOK
<1>5. CASE AcceptBuy(in)
    BY <1>1, <1>2, <1>5 DEF GateTypeOK, AcceptBuy
<1>6. QED
    BY <1>3, <1>4, <1>5 DEF CheckIntent

\* A corporate action on a holding, and the cash it pays for a fraction.
LEMMA AdjustHoldingType ==
    ASSUME TypeOK, NEW e \in Entities, AdjustHolding(e)
    PROVE  TypeOK'
<1>1. adj[e] \in Ratio /\ pos[e] \in Position
    <2>1. adj \in [DOMAIN adj -> Ratios] /\ e \in DOMAIN adj
        BY PartialFunction DEF TypeOK, AdjustHolding
    <2>2. QED
        BY <2>1, EngineAssumption DEF TypeOK, Holdings
<1>2. AfterAction(pos[e], adj[e]) \in Position /\ FractionCash(pos[e], adj[e]) \in Nat
    BY <1>1, AfterActionType
<1>3. pos' \in Holdings
    BY <1>2 DEF AdjustHolding, TypeOK, Holdings
<1>4. cash' \in Int
    BY <1>2 DEF AdjustHolding, TypeOK
<1>5. todo' \in SUBSET DOMAIN adj
    BY DEF AdjustHolding, TypeOK
<1>6. QED
    BY <1>3, <1>4, <1>5 DEF TypeOK, AdjustHolding, GateTypeOK, orderVars, resultVars, gateVars

\* A waiting order stays an order when it is scaled.
LEMMA ScaledOrderType ==
    ASSUME TypeOK, NEW o \in Order
    PROVE  /\ ScaledOrder(o) \in Order
           /\ ScaledOrder(o) = [o EXCEPT !.qty = ScaledOrder(o).qty]
<1>1. CASE o.entity \in DOMAIN adj
    <2>1. adj[o.entity] \in Ratio
        BY <1>1, PartialFunction, EngineAssumption DEF TypeOK
    <2>2. Scaled(o.qty, adj[o.entity]) \in Nat
        BY <2>1, ScaledNat DEF Scaled, Order, Ratio
    <2>3. QED
        BY <1>1, <2>2 DEF ScaledOrder, Order
<1>2. CASE o.entity \notin DOMAIN adj
    BY <1>2 DEF ScaledOrder, Order
<1>3. QED
    BY <1>1, <1>2

\* A fill moves cash and shares between holdings.
LEMMA ApplyFillType ==
    ASSUME TypeOK, NEW f \in queue, ApplyFill(f)
    PROVE  TypeOK'
<1> DEFINE e == f.order.entity
           p == pos[e]
<1>1. /\ f \in Fill /\ f.order \in Order /\ e \in Entities
      /\ f.price \in Nat /\ f.charges \in Nat /\ f.order.qty \in Nat
      /\ p \in Position /\ p.qty \in Nat
    BY DEF TypeOK, Fill, Order, Holdings, Position
<1>2. Turnover(f) \in Nat /\ Outflow(f) \in Nat
    <2>1. f.order.qty * f.price \in Nat
        BY <1>1
    <2>2. QED
        BY <1>1, <2>1 DEF Turnover, Outflow
<1>3. CASE FillBuy(f)
    <2>1. AfterBuy(p, f.order.qty, f.price) \in Position
        BY <1>1 DEF AfterBuy, Position
    <2>2. pos' \in Holdings
        BY <1>3, <2>1 DEF FillBuy, TypeOK, Holdings
    <2>3. cash' \in Int /\ costs' \in Nat /\ queue' \in SUBSET Fill /\ filled' \in SUBSET Fill
        BY <1>1, <1>2, <1>3 DEF FillBuy, Record, TypeOK
    <2>4. QED
        BY <1>3, <2>2, <2>3 DEF TypeOK, GateTypeOK, FillBuy, Record, loopVars, gateVars
<1>4. CASE FillSell(f)
    <2>1. AfterSell(p, f.order.qty, f.price) \in Position
        <3>1. f.order.qty <= p.qty
            BY <1>4 DEF FillSell
        <3>2. QED
            BY <1>1, <3>1 DEF AfterSell, Position, NoPosition
    <2>2. pos' \in Holdings
        BY <1>4, <2>1 DEF FillSell, TypeOK, Holdings
    <2>3. cash' \in Int /\ costs' \in Nat /\ queue' \in SUBSET Fill /\ filled' \in SUBSET Fill
        BY <1>1, <1>2, <1>4 DEF FillSell, Record, TypeOK
    <2>4. QED
        BY <1>4, <2>2, <2>3 DEF TypeOK, GateTypeOK, FillSell, Record, loopVars, gateVars
<1>5. CASE RefuseBuy(f)
    BY <1>1, <1>5 DEF TypeOK, GateTypeOK, RefuseBuy, loopVars, bookVars, resultVars, gateVars
<1>6. CASE AbortFill(f)
    BY <1>6 DEF TypeOK, GateTypeOK, AbortFill, bookVars, orderVars, resultVars, gateVars, Phases
<1>7. QED
    BY <1>3, <1>4, <1>5, <1>6 DEF ApplyFill

\* Marking at the close replaces marks and leaves shares alone.
LEMMA MarkedType ==
    ASSUME TypeOK
    PROVE  /\ Marked(pos, Closes) \in Holdings
           /\ \A e \in Entities : Marked(pos, Closes)[e].qty = pos[e].qty
<1>1. \A e \in DOMAIN Closes : Closes[e] \in Nat
    <2>1. bars \in [DOMAIN bars -> Bars]
        BY PartialFunction DEF TypeOK
    <2>2. QED
        BY <2>1, EngineAssumption DEF Closes, Bar
<1> SUFFICES ASSUME NEW e \in Entities
             PROVE  /\ Marked(pos, Closes)[e] \in Position
                    /\ Marked(pos, Closes)[e].qty = pos[e].qty
    BY DEF Marked, Holdings
<1>2. pos[e] \in Position
    BY DEF TypeOK, Holdings
<1>3. QED
    BY <1>1, <1>2 DEF Marked, Position

\* What the gate accepted becomes orders.
LEMMA AwaitOpenType ==
    ASSUME TypeOK, AwaitOpen
    PROVE  TypeOK'
<1>1. \A i \in DOMAIN accepted : OrderOf(accepted[i], session) \in Order
    <2>1. session \in Nat /\ accepted \in Seq(Intent)
        BY DEF TypeOK, GateTypeOK
    <2>2. \A i \in DOMAIN accepted : accepted[i] \in Intent
        BY <2>1
    <2>3. \A in \in Intent : OrderOf(in, session) \in Order
        BY <2>1 DEF OrderOf, Order, Intent
    <2>4. QED
        BY <2>2, <2>3
<1>2. pending' \in SUBSET Order
    BY <1>1 DEF AwaitOpen, TypeOK
<1>3. session' \in Nat /\ phase' \in Phases
    BY DEF AwaitOpen, EndSession, TypeOK, Phases
<1>4. QED
    BY <1>2, <1>3 DEF TypeOK, GateTypeOK, AwaitOpen, bookVars, resultVars, gateVars

\* Every step keeps every variable's type.
LEMMA TypeStep == TypeOK /\ [Next]_vars => TypeOK'
<1> SUFFICES ASSUME TypeOK, [Next]_vars
             PROVE  TypeOK'
    OBVIOUS
<1>1. CASE ReadMarket
    <2>1. PICK S \in SUBSET Entities, A \in SUBSET Entities :
            \E b \in [S -> Bars], a \in [A -> Ratios] : OpenSession(b, a)
        BY <1>1 DEF ReadMarket
    <2>2. PICK b \in [S -> Bars], a \in [A -> Ratios] : OpenSession(b, a)
        BY <2>1
    <2>3. /\ bars' \in UNION {[D -> Bars] : D \in SUBSET Entities}
          /\ adj' \in UNION {[D -> Ratios] : D \in SUBSET Entities}
        BY <2>2 DEF OpenSession
    <2>4. todo' \in SUBSET DOMAIN adj'
        BY <2>2 DEF OpenSession
    <2>5. QED
        BY <2>2, <2>3, <2>4 DEF TypeOK, GateTypeOK, OpenSession, bookVars, gateVars, Phases
<1>2. CASE \E e \in Entities : AdjustHolding(e)
    BY <1>2, AdjustHoldingType
<1>3. CASE ScaleOrders
    <2>1. pending' \in SUBSET Order
        BY <1>3, ScaledOrderType DEF ScaleOrders, TypeOK
    <2>2. QED
        BY <1>3, <2>1 DEF TypeOK, GateTypeOK, ScaleOrders, bookVars, resultVars, gateVars, Phases
<1>4. CASE MeetOpen
    <2>1. bars \in [DOMAIN bars -> Bars]
        BY PartialFunction DEF TypeOK
    <2>2. queue' \in SUBSET Fill
        BY <1>4, <2>1, FillOfType DEF MeetOpen, TypeOK, FillsOf, Fillable
    <2>3. unfilled' \in SUBSET Order
        BY <1>4 DEF MeetOpen, TypeOK, NotTraded
    <2>4. QED
        BY <1>4, <2>2, <2>3 DEF TypeOK, GateTypeOK, MeetOpen, bookVars, resultVars, gateVars, Phases
<1>5. CASE \E f \in queue : ApplyFill(f)
    BY <1>5, ApplyFillType
<1>6. CASE FillsDone
    BY <1>6 DEF TypeOK, GateTypeOK, FillsDone, bookVars, resultVars, gateVars, Phases
<1>7. CASE CloseSession
    <2>1. pos' \in Holdings
        BY <1>7, MarkedType DEF CloseSession
    <2>2. drops' \in SUBSET Entities
        BY <1>7 DEF CloseSession, Held
    <2>3. QED
        BY <1>7, <2>1, <2>2 DEF TypeOK, GateTypeOK, CloseSession, orderVars, gateVars, Phases
<1>8. CASE \E b \in Batches : Decide(b)
    <2>1. PICK b \in Batches : Decide(b)
        BY <1>8
    <2>2. GateTypeOK' /\ session' \in Nat /\ phase' \in Phases
        <3>1. CASE b = <<>>
            BY <2>1, <3>1 DEF Decide, EndSession, TypeOK, GateTypeOK, gateVars, Phases
        <3>2. CASE b # <<>>
            <4>1. batch' \in Seq(Intent) /\ accepted' \in Seq(Intent)
                BY <2>1, <3>2, BatchType DEF Decide, OpenGate
            <4>2. names' \in SUBSET Entities
                BY <2>1, <3>2 DEF Decide, OpenGate, GateBook, Held
            <4>3. QED
                BY <2>1, <3>2, <4>1, <4>2 DEF Decide, TypeOK, GateTypeOK, Phases
        <3>3. QED
            BY <3>1, <3>2
    <2>3. QED
        BY <2>1, <2>2 DEF Decide, TypeOK, bookVars, orderVars, resultVars
<1>9. CASE Gate
    <2>1. GateTypeOK'
        BY <1>9, CheckIntentType DEF Gate, TypeOK
    <2>2. QED
        BY <1>9, <2>1 DEF Gate, TypeOK, loopVars, bookVars, orderVars, resultVars
<1>10. CASE AwaitOpen
    BY <1>10, AwaitOpenType
<1>11. CASE Fail
    BY <1>11 DEF TypeOK, GateTypeOK, Fail, bookVars, orderVars, resultVars, gateVars, Phases
<1>12. CASE UNCHANGED vars
    BY <1>12 DEF TypeOK, GateTypeOK, vars, loopVars, bookVars, orderVars, resultVars, gateVars
<1>13. QED
    BY <1>1, <1>2, <1>3, <1>4, <1>5, <1>6, <1>7, <1>8, <1>9, <1>10, <1>11, <1>12
    DEF Next, Trade, Finished

\* The initial state is typed.
LEMMA InitTypeOK == Init => TypeOK
<1> SUFFICES ASSUME Init
             PROVE  TypeOK
    OBVIOUS
<1>1. bars \in [{} -> Bars] /\ adj \in [{} -> Ratios]
    BY DEF Init, NoBars, NoActions
<1>2. EmptyBook \in Holdings
    BY DEF EmptyBook, Holdings, NoPosition, Position
<1>3. InitialCash \in Int /\ InitialCash \in Nat
    BY EngineAssumption
<1>4. QED
    BY <1>1, <1>2, <1>3 DEF Init, TypeOK, GateTypeOK, Phases

\* The variables of the engine have their types in every reachable state, for
\* every market, strategy and limit (engine.go, Run).
THEOREM TypeCorrect == Spec => []TypeOK
    BY InitTypeOK, TypeStep, PTL DEF Spec

-----------------------------------------------------------------------------
(* Safety: the invariant. *)

Waiting == {"session", "adjust", "open", "fill"}

\* Waiting orders are from the close just before, a close leaves none, and the
\* lists of a session start empty.
Dated ==
    /\ phase \in Waiting => \A o \in pending : o.decidedOn = session - 1
    /\ phase \in {"close", "decide", "gate"} => pending = {}
    /\ phase \in {"adjust", "open"} => filled = {} /\ unfilled = {}

\* While fills are applied, each one is what the open makes of its order, and
\* no buy is refused before the last sale.
Settling ==
    phase = "fill" =>
        /\ \A f \in queue \cup filled : f = FillOf(f.order, bars) /\ Fillable(f.order, bars)
        /\ (\E o \in unfilled : Fillable(o, bars)) =>
                \A f \in queue : f.order.side = "buy"

\* No two orders wait for one entity, and none for no shares.
OnePerEntity ==
    /\ \A o, p \in pending : o.entity = p.entity => o = p
    /\ \A o \in pending : o.qty > 0

\* The same of what the gate is looking at: the intents still to be checked
\* and the accepted ones name different entities.
GateOnePerEntity ==
    phase = "gate" =>
        /\ \A i, j \in DOMAIN batch : i # j => batch[i].entity # batch[j].entity
        /\ \A i, j \in DOMAIN accepted : i # j => accepted[i].entity # accepted[j].entity
        /\ \A i \in DOMAIN batch, j \in DOMAIN accepted :
                batch[i].entity # accepted[j].entity
        /\ \A j \in DOMAIN accepted : accepted[j].qty > 0

CoveredIntent(in) == in.side = "sell" => in.qty <= pos[in.entity].qty

GateCovered ==
    phase = "gate" =>
        /\ \A i \in DOMAIN batch : CoveredIntent(batch[i])
        /\ \A j \in DOMAIN accepted : CoveredIntent(accepted[j])

\* The shares that must stand behind a waiting sale in each phase: before the
\* adjustments, between the adjustment of its holding and its own scaling, and
\* once both are scaled.
SaleCovered(o) ==
    CASE phase = "session" -> o.qty <= pos[o.entity].qty
      [] phase = "adjust" ->
            IF o.entity \in DOMAIN adj \ todo
            THEN Scaled(o.qty, adj[o.entity]) <= pos[o.entity].qty
            ELSE o.qty <= pos[o.entity].qty
      [] phase = "open" -> o.qty <= pos[o.entity].qty \/ Vanished(o.entity)
      [] OTHER -> TRUE

PendingCovered == \A o \in pending : o.side = "sell" => SaleCovered(o)

QueueCovered ==
    phase = "fill" =>
        /\ \A f, g \in queue : f.order.entity = g.order.entity => f = g
        /\ \A f \in queue :
            /\ f.order.qty > 0
            /\ f.order.side = "sell" =>
                    f.order.qty <= pos[f.order.entity].qty \/ Vanished(f.order.entity)

IInv ==
    /\ Dated /\ NextOpenOnly
    /\ Settling /\ OrdersSettleOnce /\ RefusedBuysUnaffordable
    /\ OnePerEntity /\ GateOnePerEntity
    /\ GateCovered /\ PendingCovered /\ QueueCovered
    /\ AbortOnlyWhenVanished

-----------------------------------------------------------------------------
(* When an order was decided. *)

\* Each step keeps the dates of the orders in line with the session.
LEMMA DatedStep ==
    TypeOK /\ Dated /\ NextOpenOnly /\ [Next]_vars => Dated' /\ NextOpenOnly'
<1> SUFFICES ASSUME TypeOK, Dated, NextOpenOnly, [Next]_vars
             PROVE  Dated' /\ NextOpenOnly'
    OBVIOUS
<1> USE DEF Dated, NextOpenOnly, Waiting, OrdersOf
<1>1. CASE ReadMarket
    BY <1>1 DEF ReadMarket, OpenSession
<1>2. CASE \E e \in Entities : AdjustHolding(e)
    BY <1>2 DEF AdjustHolding, orderVars
<1>3. CASE ScaleOrders
    <2>1. \A o \in pending : ScaledOrder(o).decidedOn = o.decidedOn
        <3> SUFFICES ASSUME NEW o \in pending
                     PROVE  ScaledOrder(o).decidedOn = o.decidedOn
            OBVIOUS
        <3>1. o \in Order
            BY DEF TypeOK
        <3>2. QED
            BY <3>1 DEF ScaledOrder, Order
    <2>2. QED
        BY <1>3, <2>1 DEF ScaleOrders
<1>4. CASE MeetOpen
    <2>1. queue' = FillsOf(pending, bars) /\ unfilled' \subseteq pending
        BY <1>4 DEF MeetOpen, NotTraded
    <2>2. \A f \in queue' : f.order \in pending
        BY <2>1 DEF FillsOf, FillOf
    <2>3. QED
        BY <1>4, <2>1, <2>2 DEF MeetOpen
<1>5. CASE \E f \in queue : ApplyFill(f)
    <2>1. PICK f \in queue : ApplyFill(f)
        BY <1>5
    <2>2. CASE FillBuy(f)
        BY <2>2 DEF FillBuy, NextFill, Record, loopVars
    <2>3. CASE FillSell(f)
        BY <2>3 DEF FillSell, NextFill, Record, loopVars
    <2>4. CASE RefuseBuy(f)
        BY <2>4 DEF RefuseBuy, NextFill, loopVars
    <2>5. CASE AbortFill(f)
        BY <2>5 DEF AbortFill
    <2>6. QED
        BY <2>1, <2>2, <2>3, <2>4, <2>5 DEF ApplyFill
<1>6. CASE FillsDone
    BY <1>6 DEF FillsDone
<1>7. CASE CloseSession
    BY <1>7 DEF CloseSession, orderVars
<1>8. CASE \E b \in Batches : Decide(b)
    <2>1. PICK b \in Batches : Decide(b)
        BY <1>8
    <2>2. CASE b = <<>>
        BY <2>1, <2>2 DEF Decide, EndSession, orderVars
    <2>3. CASE b # <<>>
        BY <2>1, <2>3 DEF Decide, orderVars
    <2>4. QED
        BY <2>2, <2>3
<1>9. CASE Gate
    BY <1>9 DEF Gate, loopVars, orderVars
<1>10. CASE AwaitOpen
    <2>1. \A o \in pending' : o.decidedOn = session
        BY <1>10 DEF AwaitOpen, OrderOf
    <2>2. phase' = "done" \/ (phase' = "session" /\ session' = session + 1)
        BY <1>10 DEF AwaitOpen, EndSession
    <2>3. QED
        BY <2>1, <2>2 DEF TypeOK
<1>11. CASE Fail
    BY <1>11 DEF Fail
<1>12. CASE UNCHANGED vars
    BY <1>12 DEF vars, loopVars, orderVars
<1>13. QED
    BY <1>1, <1>2, <1>3, <1>4, <1>5, <1>6, <1>7, <1>8, <1>9, <1>10, <1>11, <1>12
    DEF Next, Trade, Finished

-----------------------------------------------------------------------------
(* Where an order is while it settles. *)

\* The open splits the waiting orders into those that fill and those that do
\* not; each fill is what the open makes of its order.
LEMMA MeetOpenSplits ==
    ASSUME TypeOK
    PROVE  /\ pending = OrdersOf(FillsOf(pending, bars)) \cup NotTraded(pending, bars)
           /\ OrdersOf(FillsOf(pending, bars)) \cap NotTraded(pending, bars) = {}
           /\ \A f \in FillsOf(pending, bars) :
                f = FillOf(f.order, bars) /\ Fillable(f.order, bars) /\ f.order \in pending
           /\ \A o \in NotTraded(pending, bars) : ~Fillable(o, bars)
<1>1. \A o : FillOf(o, bars).order = o
    BY DEF FillOf
<1>2. \A f \in FillsOf(pending, bars) :
        f = FillOf(f.order, bars) /\ Fillable(f.order, bars) /\ f.order \in pending
    BY <1>1 DEF FillsOf
<1>3. OrdersOf(FillsOf(pending, bars)) = {o \in pending : Fillable(o, bars)}
    BY <1>1 DEF FillsOf, OrdersOf
<1>4. QED
    BY <1>2, <1>3 DEF NotTraded

\* Paying for a fill that was applied leaves no more cash than before.
LEMMA OutflowNat ==
    ASSUME TypeOK, NEW f \in queue
    PROVE  /\ Turnover(f) \in Nat /\ Outflow(f) \in Nat
           /\ f.charges \in Nat /\ f.order \in Order
<1>1. f.order \in Order /\ f.order.qty \in Nat /\ f.price \in Nat /\ f.charges \in Nat
    BY DEF TypeOK, Fill, Order
<1>2. f.order.qty * f.price \in Nat
    BY <1>1
<1>3. QED
    BY <1>1, <1>2 DEF Turnover, Outflow

\* One fill, applied or refused, keeps every order in one place and leaves no
\* refused buy affordable.
LEMMA ApplyFillSettles ==
    ASSUME TypeOK, Settling, OrdersSettleOnce, RefusedBuysUnaffordable,
           NEW f \in queue, ApplyFill(f)
    PROVE  Settling' /\ OrdersSettleOnce' /\ RefusedBuysUnaffordable'
<1> USE DEF Settling, OrdersSettleOnce, RefusedBuysUnaffordable, OrdersOf
<1>1. phase = "fill"
    BY DEF ApplyFill, FillBuy, FillSell, RefuseBuy, AbortFill, NextFill
<1>2. \A g \in queue \cup filled : f.order = g.order => f = g
    BY <1>1
<1>3. f.order.side = "sell" => \A o \in unfilled : ~Fillable(o, bars)
    BY <1>1
<1>4. CASE FillBuy(f) \/ FillSell(f)
    <2>1. /\ queue' = queue \ {f} /\ filled' = filled \cup {f} /\ unfilled' = unfilled
          /\ phase' = phase /\ bars' = bars /\ pending' = pending
        BY <1>4 DEF FillBuy, FillSell, Record, loopVars
    <2>2. f.order.side = "buy" => cash' \in Int /\ cash' <= cash
        BY <1>4, OutflowNat DEF FillBuy, FillSell, TypeOK
    <2>3. Settling'
        BY <1>1, <2>1
    <2>4. OrdersSettleOnce'
        BY <1>1, <1>2, <2>1
    <2>5. RefusedBuysUnaffordable'
        <3> SUFFICES ASSUME NEW o \in unfilled, Fillable(o, bars)
                     PROVE  o.side = "buy" /\ ~(Outflow(FillOf(o, bars)) <= cash')
            BY <2>1 DEF CanAfford
        <3>1. o.side = "buy" /\ ~(Outflow(FillOf(o, bars)) <= cash)
            BY <1>1 DEF CanAfford
        <3>2. f.order.side = "buy"
            BY <1>3, <1>4 DEF FillBuy, FillSell
        <3>3. Outflow(FillOf(o, bars)) \in Nat
            <4>1. bars \in [DOMAIN bars -> Bars] /\ o \in Order /\ o.entity \in DOMAIN bars
                BY PartialFunction DEF TypeOK, Fillable
            <4>2. FillOf(o, bars) \in Fill
                BY <4>1, FillOfType
            <4>3. /\ FillOf(o, bars).order.qty \in Nat /\ FillOf(o, bars).price \in Nat
                  /\ FillOf(o, bars).charges \in Nat
                BY <4>2 DEF Fill, Order
            <4>4. FillOf(o, bars).order.qty * FillOf(o, bars).price \in Nat
                BY <4>3
            <4>5. QED
                BY <4>3, <4>4 DEF Outflow, Turnover
        <3>4. QED
            BY <2>2, <3>1, <3>2, <3>3 DEF TypeOK
    <2>6. QED
        BY <2>3, <2>4, <2>5
<1>5. CASE RefuseBuy(f)
    <2>1. /\ queue' = queue \ {f} /\ unfilled' = unfilled \cup {f.order}
          /\ filled' = filled /\ cash' = cash
          /\ phase' = phase /\ bars' = bars /\ pending' = pending
        BY <1>5 DEF RefuseBuy, loopVars, bookVars
    <2>2. /\ f.order.side = "buy" /\ ~CanAfford(cash, Outflow(f))
          /\ \A g \in queue : g.order.side = "buy"
        <3>1. \A g \in queue : g.order.side \in Sides
            BY DEF TypeOK, Fill, Order
        <3>2. QED
            BY <1>5, <3>1 DEF RefuseBuy, NextFill, Sides
    <2>3. Settling'
        BY <1>1, <2>1, <2>2
    <2>4. OrdersSettleOnce'
        BY <1>1, <1>2, <2>1
    <2>5. RefusedBuysUnaffordable'
        BY <1>1, <2>1, <2>2 DEF CanAfford
    <2>6. QED
        BY <2>3, <2>4, <2>5
<1>6. CASE AbortFill(f)
    BY <1>6 DEF AbortFill
<1>7. QED
    BY <1>4, <1>5, <1>6 DEF ApplyFill

\* Only the steps of stages 1 and 2 touch orders that are settling.
LEMMA SettlingStep ==
    /\ TypeOK /\ Dated
    /\ Settling /\ OrdersSettleOnce /\ RefusedBuysUnaffordable
    /\ [Next]_vars
    => Settling' /\ OrdersSettleOnce' /\ RefusedBuysUnaffordable'
<1> SUFFICES ASSUME TypeOK, Dated, Settling, OrdersSettleOnce, RefusedBuysUnaffordable,
                    [Next]_vars
             PROVE  Settling' /\ OrdersSettleOnce' /\ RefusedBuysUnaffordable'
    OBVIOUS
<1>1. CASE MeetOpen
    <2>1. /\ queue' = FillsOf(pending, bars) /\ unfilled' = NotTraded(pending, bars)
          /\ filled' = {} /\ pending' = pending /\ bars' = bars
        BY <1>1 DEF MeetOpen, Dated
    <2>2. OrdersSettleOnce'
        BY <2>1, MeetOpenSplits DEF OrdersSettleOnce, OrdersOf
    <2>3. QED
        BY <2>1, <2>2, MeetOpenSplits DEF Settling, RefusedBuysUnaffordable
<1>2. CASE \E f \in queue : ApplyFill(f)
    BY <1>2, ApplyFillSettles
<1>3. CASE UNCHANGED vars
    BY <1>3 DEF vars, loopVars, bookVars, orderVars, Settling, OrdersSettleOnce,
                RefusedBuysUnaffordable
<1>4. ASSUME phase' # "fill"
      PROVE  Settling' /\ OrdersSettleOnce' /\ RefusedBuysUnaffordable'
    BY <1>4 DEF Settling, OrdersSettleOnce, RefusedBuysUnaffordable
<1>5. CASE \E b \in Batches : Decide(b)
    BY <1>5, <1>4 DEF Decide, EndSession
<1>6. QED
    BY <1>1, <1>2, <1>3, <1>4, <1>5
    DEF Next, Trade, ReadMarket, OpenSession, AdjustHolding, ScaleOrders, FillsDone,
        CloseSession, Gate, loopVars, AwaitOpen, EndSession, Fail, Finished

-----------------------------------------------------------------------------
(* Cash. *)

\* Cash falls below zero in no step but a sale that costs more than it brings.
LEMMA CashStep ==
    ASSUME TypeOK, [Next]_vars, cash' < 0, cash' < cash
    PROVE  \E f \in queue \ queue' : f.order.side = "sell" /\ Turnover(f) < f.charges
<1>1. CASE \E e \in Entities : AdjustHolding(e)
    <2>1. PICK e \in Entities : AdjustHolding(e)
        BY <1>1
    <2>2. adj[e] \in Ratio /\ pos[e] \in Position
        BY <2>1, PartialFunction, EngineAssumption DEF TypeOK, AdjustHolding, Holdings
    <2>3. FractionCash(pos[e], adj[e]) \in Nat
        BY <2>2, AfterActionType
    <2>4. cash' \in Int /\ cash \in Int /\ cash' >= cash
        BY <2>1, <2>3 DEF AdjustHolding, TypeOK
    <2>5. QED
        BY <2>4
<1>2. CASE \E f \in queue : ApplyFill(f)
    <2>1. PICK f \in queue : ApplyFill(f)
        BY <1>2
    <2>2. cash \in Int /\ Outflow(f) \in Nat /\ Turnover(f) \in Nat /\ f.charges \in Nat
        BY OutflowNat DEF TypeOK
    <2>3. CASE FillBuy(f)
        BY <2>2, <2>3 DEF FillBuy, CanAfford
    <2>4. CASE FillSell(f)
        BY <2>2, <2>4 DEF FillSell, Record
    <2>5. CASE RefuseBuy(f) \/ AbortFill(f)
        BY <2>2, <2>5 DEF RefuseBuy, AbortFill, bookVars
    <2>6. QED
        BY <2>1, <2>3, <2>4, <2>5 DEF ApplyFill
<1>3. ASSUME cash' = cash PROVE FALSE
    BY <1>3 DEF TypeOK
<1>4. QED
    BY <1>1, <1>2, <1>3
    DEF Next, Trade, ReadMarket, OpenSession, ScaleOrders, MeetOpen, FillsDone, CloseSession,
        Decide, Gate, AwaitOpen, Fail, Finished, vars, bookVars

-----------------------------------------------------------------------------
(* One order per entity. *)

\* A turn of the gate's loop takes the first intent off the batch; what it
\* accepts is that intent, and for a positive number of shares.
LEMMA CheckIntentMoves ==
    ASSUME GateTypeOK, CheckIntent
    PROVE  /\ 1 \in DOMAIN batch
           /\ \A i \in DOMAIN batch' : i \in Nat \ {0} /\ i + 1 \in DOMAIN batch
                                        /\ batch'[i] = batch[i + 1]
           /\ \A j \in DOMAIN accepted' :
                \/ j \in DOMAIN accepted /\ accepted'[j] = accepted[j]
                \/ /\ j = Len(accepted) + 1
                   /\ accepted'[j] = batch[1] /\ batch[1].qty > 0
<1> DEFINE in == Head(batch)
<1>1. batch \in Seq(Intent) /\ batch # <<>> /\ batch' = Tail(batch) /\ accepted \in Seq(Intent)
    BY DEF GateTypeOK, CheckIntent
<1>2. /\ 1 \in DOMAIN batch
      /\ \A i \in DOMAIN batch' : i \in Nat \ {0} /\ i + 1 \in DOMAIN batch
                                   /\ batch'[i] = batch[i + 1]
    BY <1>1
<1>3. in = batch[1] /\ in.qty \in Nat
    <2>1. in = batch[1] /\ in \in Intent
        BY <1>1
    <2>2. QED
        BY <2>1 DEF Intent
<1>4. CASE Reject(in)
    BY <1>2, <1>4 DEF Reject
<1>5. CASE AcceptSell(in) \/ AcceptBuy(in)
    <2>1. Refusal(in) = "none" /\ accepted' = Append(accepted, in)
        BY <1>5 DEF AcceptSell, AcceptBuy
    <2>2. ~Malformed(in)
        BY <2>1 DEF Refusal
    <2>3. in.qty > 0
        BY <1>3, <2>2 DEF Malformed
    <2>4. \A j \in DOMAIN accepted' :
            \/ j \in DOMAIN accepted /\ accepted'[j] = accepted[j]
            \/ j = Len(accepted) + 1 /\ accepted'[j] = in
        BY <1>1, <1>3, <2>1
    <2>5. QED
        BY <1>2, <1>3, <2>3, <2>4
<1>6. QED
    BY <1>4, <1>5 DEF CheckIntent

\* A scaled order is for the same entity, side and session, and for at least
\* one share.
LEMMA ScaledOrderKeeps ==
    ASSUME TypeOK, NEW o \in Order, o.qty > 0
    PROVE  /\ ScaledOrder(o).entity = o.entity /\ ScaledOrder(o).side = o.side
           /\ ScaledOrder(o).qty > 0
           /\ o.entity \in DOMAIN adj =>
                \/ ScaledOrder(o).qty = Scaled(o.qty, adj[o.entity])
                \/ Scaled(o.qty, adj[o.entity]) = 0 /\ ScaledOrder(o).qty = 1
           /\ o.entity \notin DOMAIN adj => ScaledOrder(o) = o
<1>1. CASE o.entity \in DOMAIN adj
    <2>1. adj[o.entity] \in Ratio
        BY <1>1, PartialFunction, EngineAssumption DEF TypeOK
    <2>2. Scaled(o.qty, adj[o.entity]) \in Nat
        BY <2>1, ScaledNat DEF Scaled, Order, Ratio
    <2>3. QED
        BY <1>1, <2>2 DEF ScaledOrder, Order
<1>2. CASE o.entity \notin DOMAIN adj
    BY <1>2 DEF ScaledOrder, Order
<1>3. QED
    BY <1>1, <1>2

\* Each step keeps the orders, and the intents at the gate, one per entity.
LEMMA OnePerEntityStep ==
    TypeOK /\ Dated /\ OnePerEntity /\ GateOnePerEntity /\ [Next]_vars
    => OnePerEntity' /\ GateOnePerEntity'
<1> SUFFICES ASSUME TypeOK, Dated, OnePerEntity, GateOnePerEntity, [Next]_vars
             PROVE  OnePerEntity' /\ GateOnePerEntity'
    OBVIOUS
<1>1. CASE ScaleOrders
    <2>1. \A o \in pending : o \in Order /\ o.qty > 0
        BY DEF TypeOK, OnePerEntity
    <2>2. \A o \in pending :
            ScaledOrder(o).entity = o.entity /\ ScaledOrder(o).qty > 0
        BY <2>1, ScaledOrderKeeps
    <2>3. pending' = {ScaledOrder(o) : o \in pending} /\ phase' # "gate"
        BY <1>1 DEF ScaleOrders
    <2>4. OnePerEntity'
        BY <2>2, <2>3 DEF OnePerEntity
    <2>5. QED
        BY <2>3, <2>4 DEF GateOnePerEntity
<1>2. CASE \E b \in Batches : Decide(b)
    <2>1. PICK b \in Batches : Decide(b)
        BY <1>2
    <2>2. OnePerEntity'
        BY <2>1 DEF Decide, orderVars, OnePerEntity
    <2>3. CASE b = <<>>
        BY <2>1, <2>2, <2>3 DEF Decide, EndSession, GateOnePerEntity
    <2>4. CASE b # <<>>
        <3>1. batch' = b /\ accepted' = <<>>
            BY <2>1, <2>4 DEF Decide, OpenGate
        <3>2. QED
            BY <2>2, <3>1, BatchType DEF GateOnePerEntity
    <2>5. QED
        BY <2>3, <2>4
<1>3. CASE Gate
    <2>1. phase = "gate" /\ CheckIntent /\ GateTypeOK
        BY <1>3 DEF Gate, TypeOK
    <2>2. batch \in Seq(Intent) /\ accepted \in Seq(Intent)
        BY <2>1 DEF GateTypeOK
    <2>3. \A j \in DOMAIN accepted : j # Len(accepted) + 1
        BY <2>2
    <2>4. GateOnePerEntity'
        <3>1. \A i, j \in DOMAIN batch' : i # j => batch'[i].entity # batch'[j].entity
            BY <2>1, CheckIntentMoves DEF GateOnePerEntity
        <3>2. \A i, j \in DOMAIN accepted' :
                i # j => accepted'[i].entity # accepted'[j].entity
            BY <2>1, <2>3, CheckIntentMoves DEF GateOnePerEntity
        <3>3. \A i \in DOMAIN batch', j \in DOMAIN accepted' :
                batch'[i].entity # accepted'[j].entity
            BY <2>1, <2>3, CheckIntentMoves DEF GateOnePerEntity
        <3>4. \A j \in DOMAIN accepted' : accepted'[j].qty > 0
            BY <2>1, CheckIntentMoves DEF GateOnePerEntity
        <3>5. QED
            BY <3>1, <3>2, <3>3, <3>4 DEF GateOnePerEntity
    <2>5. QED
        BY <1>3, <2>4 DEF Gate, orderVars, OnePerEntity
<1>4. CASE AwaitOpen
    <2>1. pending' = {OrderOf(accepted[i], session) : i \in DOMAIN accepted}
        BY <1>4 DEF AwaitOpen, Dated
    <2>2. /\ \A i, j \in DOMAIN accepted : i # j => accepted[i].entity # accepted[j].entity
          /\ \A j \in DOMAIN accepted : accepted[j].qty > 0
        BY <1>4 DEF AwaitOpen, GateOnePerEntity
    <2>3. OnePerEntity'
        BY <2>1, <2>2 DEF OnePerEntity, OrderOf
    <2>4. QED
        BY <1>4, <2>3 DEF AwaitOpen, EndSession, GateOnePerEntity
<1>5. CASE FillsDone
    BY <1>5 DEF FillsDone, OnePerEntity, GateOnePerEntity
<1>6. CASE UNCHANGED vars
    BY <1>6 DEF vars, loopVars, orderVars, gateVars, OnePerEntity, GateOnePerEntity
<1>7. ASSUME pending' = pending, phase' # "gate"
      PROVE  OnePerEntity' /\ GateOnePerEntity'
    BY <1>7 DEF OnePerEntity, GateOnePerEntity
<1>8. CASE \E f \in queue : ApplyFill(f)
    BY <1>7, <1>8 DEF ApplyFill, FillBuy, FillSell, RefuseBuy, AbortFill, Record, NextFill,
                      loopVars, orderVars
<1>9. QED
    BY <1>1, <1>2, <1>3, <1>4, <1>5, <1>6, <1>7, <1>8
    DEF Next, Trade, ReadMarket, OpenSession, AdjustHolding, MeetOpen,
        CloseSession, Fail, Finished, orderVars

-----------------------------------------------------------------------------
(* The shares behind a waiting sale. *)

\* A ratio of one changes no share count.
LEMMA ScaledByOne ==
    ASSUME NEW q \in Nat, NEW r \in Ratio, r.num = r.den
    PROVE  Scaled(q, r) = q
<1> DEFINE n == r.num
<1>1. n \in Nat \ {0} /\ Scaled(q, r) = (q * n) \div n
    BY DEF Scaled, Ratio
<1> HIDE DEF n
<1>2. (q * n) \div n = q
    BY <1>1
<1>3. QED
    BY <1>1, <1>2

\* Only a consolidation leaves nothing of a share.
LEMMA ScaledToNothing ==
    ASSUME NEW q \in Nat \ {0}, NEW r \in Ratio, Scaled(q, r) = 0
    PROVE  r.num < r.den
<1> DEFINE n == r.num
           d == r.den
<1>1. n \in Nat \ {0} /\ d \in Nat \ {0} /\ (q * n) \div d = 0
    BY DEF Scaled, Ratio
<1> HIDE DEF n, d
<1>2. q * n \in Nat /\ n <= q * n
    BY <1>1
<1>3. q * n < d
    BY <1>1, <1>2
<1>4. n < d
    BY <1>1, <1>2, <1>3
<1>5. QED
    BY <1>4 DEF n, d

\* A holding and a sale of at most all of it stay so when an action rescales
\* both.
LEMMA ActionKeepsCover ==
    ASSUME NEW p \in Position, NEW q \in Nat, q <= p.qty, NEW r \in Ratio
    PROVE  Scaled(q, r) <= AfterAction(p, r).qty
<1>1. Scaled(q, r) <= Scaled(p.qty, r)
    BY ScaledMonotone DEF Scaled, Position, Ratio
<1>2. AfterAction(p, r).qty = Scaled(p.qty, r)
    BY DEF AfterAction, NoPosition
<1>3. QED
    BY <1>1, <1>2

\* Types of what a waiting order and its holding are compared by.
LEMMA PendingTypes ==
    ASSUME TypeOK, NEW o \in pending
    PROVE  /\ o \in Order /\ o.entity \in Entities /\ o.qty \in Nat
           /\ pos[o.entity] \in Position /\ pos[o.entity].qty \in Nat
           /\ o.entity \in DOMAIN adj => adj[o.entity] \in Ratio
<1>1. o \in Order /\ o.entity \in Entities /\ o.qty \in Nat
    BY DEF TypeOK, Order
<1>2. pos[o.entity] \in Position /\ pos[o.entity].qty \in Nat
    BY <1>1 DEF TypeOK, Holdings, Position
<1>3. o.entity \in DOMAIN adj => adj[o.entity] \in Ratio
    BY PartialFunction, EngineAssumption DEF TypeOK
<1>4. QED
    BY <1>1, <1>2, <1>3

\* Reading the actions of a session: a name left out of the ones to adjust has
\* no shares, or a ratio of one.
LEMMA OpenSessionCovers ==
    ASSUME TypeOK, OnePerEntity, PendingCovered, ReadMarket
    PROVE  PendingCovered'
<1>1. PICK A \in SUBSET Entities : \E b, a : a \in [A -> Ratios] /\ OpenSession(b, a)
    BY DEF ReadMarket
<1>2. PICK b, a : a \in [A -> Ratios] /\ OpenSession(b, a)
    BY <1>1
<1> SUFFICES ASSUME NEW o \in pending, o.side = "sell"
             PROVE  SaleCovered(o)'
    BY <1>2 DEF OpenSession, PendingCovered
<1>3. /\ phase = "session" /\ phase' = "adjust" /\ pos' = pos /\ adj' = a
      /\ todo' = {e \in DOMAIN a \cap Held(pos) : a[e].num # a[e].den}
    BY <1>2 DEF OpenSession, bookVars
<1>4. o.qty <= pos[o.entity].qty /\ o.qty > 0
    BY <1>3 DEF PendingCovered, SaleCovered, OnePerEntity
<1>5. o.entity \in DOMAIN a \ todo' => Scaled(o.qty, a[o.entity]) = o.qty
    <2> SUFFICES ASSUME o.entity \in DOMAIN a \ todo'
                 PROVE  Scaled(o.qty, a[o.entity]) = o.qty
        OBVIOUS
    <2>1. o.entity \in Held(pos)
        BY <1>4, PendingTypes DEF Held
    <2>2. a[o.entity] \in Ratio /\ a[o.entity].num = a[o.entity].den
        BY <1>2, <1>3, <2>1, EngineAssumption
    <2>3. QED
        BY <2>2, PendingTypes, ScaledByOne
<1>6. QED
    BY <1>3, <1>4, <1>5 DEF SaleCovered

\* Adjusting one holding.
LEMMA AdjustHoldingCovers ==
    ASSUME TypeOK, PendingCovered, NEW e \in Entities, AdjustHolding(e)
    PROVE  PendingCovered'
<1> SUFFICES ASSUME NEW o \in pending, o.side = "sell"
             PROVE  SaleCovered(o)'
    BY DEF AdjustHolding, orderVars, PendingCovered
<1>1. /\ phase = "adjust" /\ phase' = "adjust" /\ adj' = adj /\ e \in todo
      /\ todo' = todo \ {e} /\ pos' = [pos EXCEPT ![e] = AfterAction(@, adj[e])]
    BY DEF AdjustHolding
<1>2. SaleCovered(o)
    BY DEF PendingCovered
<1>3. CASE o.entity = e
    <2>1. o.qty <= pos[e].qty /\ e \in DOMAIN adj
        BY <1>1, <1>2, <1>3 DEF SaleCovered, TypeOK
    <2>2. Scaled(o.qty, adj[e]) <= AfterAction(pos[e], adj[e]).qty
        BY <1>3, <2>1, PendingTypes, ActionKeepsCover
    <2>3. pos'[e] = AfterAction(pos[e], adj[e])
        BY <1>1 DEF TypeOK, Holdings
    <2>4. QED
        BY <1>1, <1>3, <2>1, <2>2, <2>3 DEF SaleCovered
<1>4. CASE o.entity # e
    <2>1. pos'[o.entity] = pos[o.entity]
        BY <1>1, <1>4, PendingTypes DEF TypeOK, Holdings
    <2>2. QED
        BY <1>1, <1>2, <1>4, <2>1 DEF SaleCovered
<1>5. QED
    BY <1>3, <1>4

\* Scaling the waiting orders: the one share an order keeps at least is there
\* unless a consolidation took the whole holding.
LEMMA ScaleOrdersCovers ==
    ASSUME TypeOK, OnePerEntity, PendingCovered, ScaleOrders
    PROVE  PendingCovered'
<1>1. /\ phase = "adjust" /\ phase' = "open" /\ todo = {} /\ adj' = adj /\ pos' = pos
      /\ pending' = {ScaledOrder(o) : o \in pending}
    BY DEF ScaleOrders, bookVars
<1> SUFFICES ASSUME NEW o \in pending, NEW s, s = ScaledOrder(o), s.side = "sell"
             PROVE  SaleCovered(s)'
    BY <1>1 DEF PendingCovered
<1> DEFINE e == o.entity
<1>2. o.qty > 0 /\ o.qty \in Nat /\ o \in Order
    BY PendingTypes DEF OnePerEntity
<1>3. s.entity = e /\ o.side = "sell"
    BY <1>2, ScaledOrderKeeps
<1>4. SaleCovered(o)
    BY <1>3 DEF PendingCovered
<1>5. CASE e \in DOMAIN adj
    <2>1. Scaled(o.qty, adj[e]) <= pos[e].qty
        BY <1>1, <1>4, <1>5 DEF SaleCovered
    <2>2. CASE s.qty = Scaled(o.qty, adj[e])
        BY <1>1, <1>3, <2>1, <2>2 DEF SaleCovered
    <2>3. CASE Scaled(o.qty, adj[e]) = 0 /\ s.qty = 1
        <3>1. adj[e].num < adj[e].den
            BY <1>2, <1>5, <2>3, PendingTypes, ScaledToNothing
        <3>2. s.qty <= pos[e].qty \/ Vanished(e)
            BY <1>5, <2>3, <3>1, PendingTypes DEF Vanished
        <3>3. Vanished(e) = Vanished(e)'
            BY <1>1 DEF Vanished
        <3>4. QED
            BY <1>1, <1>3, <3>2, <3>3 DEF SaleCovered
    <2>4. QED
        BY <1>2, <1>5, <2>2, <2>3, ScaledOrderKeeps
<1>6. CASE e \notin DOMAIN adj
    <2>1. o.qty <= pos[e].qty /\ s = o
        BY <1>1, <1>2, <1>4, <1>6, ScaledOrderKeeps DEF SaleCovered
    <2>2. QED
        BY <1>1, <2>1 DEF SaleCovered
<1>7. QED
    BY <1>5, <1>6

\* One fill: the holdings behind the other fills' sales are left alone, and a
\* run aborts only over a sale no shares stand behind.
LEMMA ApplyFillCovers ==
    ASSUME TypeOK, QueueCovered, NEW f \in queue, ApplyFill(f)
    PROVE  QueueCovered' /\ AbortOnlyWhenVanished'
<1>1. phase = "fill" /\ adj' = adj /\ queue' \subseteq queue
    BY DEF ApplyFill, FillBuy, FillSell, RefuseBuy, AbortFill, NextFill, Record,
           loopVars, orderVars
<1>2. /\ \A g, h \in queue : g.order.entity = h.order.entity => g = h
      /\ \A g \in queue :
            /\ g.order.qty > 0
            /\ g.order.side = "sell" =>
                    g.order.qty <= pos[g.order.entity].qty \/ Vanished(g.order.entity)
    BY <1>1 DEF QueueCovered
<1>3. \A g \in queue : g.order.entity \in Entities /\ g.order.qty \in Nat
    BY DEF TypeOK, Fill, Order
<1>4. ASSUME phase' = "fill", queue' = queue \ {f},
             \A e \in Entities : e # f.order.entity => pos'[e] = pos[e]
      PROVE  QueueCovered' /\ AbortOnlyWhenVanished'
    <2>1. \A g \in queue' : pos'[g.order.entity] = pos[g.order.entity]
        BY <1>2, <1>3, <1>4
    <2>2. \A g \in queue' : Vanished(g.order.entity) = Vanished(g.order.entity)'
        BY <1>1, <2>1 DEF Vanished
    <2>3. QED
        BY <1>1, <1>2, <1>4, <2>1, <2>2 DEF QueueCovered, AbortOnlyWhenVanished
<1>5. CASE FillBuy(f) \/ FillSell(f)
    <2>1. phase' = "fill" /\ queue' = queue \ {f}
        BY <1>1, <1>5 DEF FillBuy, FillSell, Record, loopVars
    <2>2. \A e \in Entities : e # f.order.entity => pos'[e] = pos[e]
        BY <1>5 DEF FillBuy, FillSell, TypeOK, Holdings
    <2>3. QED
        BY <1>4, <2>1, <2>2
<1>6. CASE RefuseBuy(f)
    BY <1>1, <1>4, <1>6 DEF RefuseBuy, loopVars, bookVars
<1>7. CASE AbortFill(f)
    <2>1. phase' = "aborted" /\ queue' = queue /\ pos' = pos
        BY <1>7 DEF AbortFill, orderVars, bookVars
    <2>2. pos[f.order.entity].qty \in Nat
        BY <1>3 DEF TypeOK, Holdings, Position
    <2>3. f.order.side = "sell" /\ Vanished(f.order.entity)
        BY <1>2, <1>3, <1>7, <2>2 DEF AbortFill
    <2>4. Vanished(f.order.entity)'
        BY <1>1, <2>1, <2>3 DEF Vanished
    <2>5. QED
        BY <2>1, <2>3, <2>4 DEF QueueCovered, AbortOnlyWhenVanished
<1>8. QED
    BY <1>5, <1>6, <1>7 DEF ApplyFill

\* Every step keeps shares behind the sales at the gate, waiting for an open
\* and being filled.
LEMMA CoverStep ==
    /\ TypeOK /\ Dated /\ OnePerEntity /\ GateOnePerEntity
    /\ GateCovered /\ PendingCovered /\ QueueCovered /\ AbortOnlyWhenVanished
    /\ [Next]_vars
    => GateCovered' /\ PendingCovered' /\ QueueCovered' /\ AbortOnlyWhenVanished'
<1> SUFFICES ASSUME TypeOK, Dated, OnePerEntity, GateOnePerEntity,
                    GateCovered, PendingCovered, QueueCovered, AbortOnlyWhenVanished,
                    [Next]_vars
             PROVE  GateCovered' /\ PendingCovered' /\ QueueCovered' /\ AbortOnlyWhenVanished'
    OBVIOUS
<1>1. ASSUME phase' \notin {"gate", "fill", "aborted"}, PendingCovered'
      PROVE  GateCovered' /\ PendingCovered' /\ QueueCovered' /\ AbortOnlyWhenVanished'
    BY <1>1 DEF GateCovered, QueueCovered, AbortOnlyWhenVanished
<1>2. ASSUME phase' \notin {"session", "adjust", "open"}
      PROVE  PendingCovered'
    BY <1>2 DEF PendingCovered, SaleCovered
<1>3. CASE ReadMarket
    BY <1>1, <1>3, OpenSessionCovers DEF ReadMarket, OpenSession
<1>4. CASE \E e \in Entities : AdjustHolding(e)
    BY <1>1, <1>4, AdjustHoldingCovers DEF AdjustHolding
<1>5. CASE ScaleOrders
    BY <1>1, <1>5, ScaleOrdersCovers DEF ScaleOrders
<1>6. CASE MeetOpen
    <2>1. /\ phase = "open" /\ phase' \in {"fill", "close"} /\ adj' = adj /\ pos' = pos
          /\ queue' = FillsOf(pending, bars)
        BY <1>6 DEF MeetOpen, bookVars
    <2>2. \A f, g \in queue' : f.order.entity = g.order.entity => f = g
        BY <2>1, MeetOpenSplits DEF OnePerEntity
    <2>3. \A f \in queue' :
            /\ f.order.qty > 0
            /\ f.order.side = "sell" =>
                    f.order.qty <= pos[f.order.entity].qty \/ Vanished(f.order.entity)
        BY <2>1, MeetOpenSplits DEF OnePerEntity, PendingCovered, SaleCovered
    <2>4. \A e \in Entities : Vanished(e) = Vanished(e)'
        BY <2>1 DEF Vanished
    <2>5. \A f \in queue' : f.order.entity \in Entities
        BY <2>1, MeetOpenSplits, PendingTypes
    <2>6. QueueCovered'
        BY <2>1, <2>2, <2>3, <2>4, <2>5 DEF QueueCovered
    <2>7. QED
        BY <1>2, <2>1, <2>6 DEF GateCovered, AbortOnlyWhenVanished
<1>7. CASE \E f \in queue : ApplyFill(f)
    <2>1. phase' \in {"fill", "aborted"}
        BY <1>7 DEF ApplyFill, FillBuy, FillSell, RefuseBuy, AbortFill, Record, NextFill,
                    loopVars
    <2>2. QED
        BY <1>2, <1>7, <2>1, ApplyFillCovers DEF GateCovered
<1>8. CASE FillsDone \/ CloseSession \/ Fail
    BY <1>1, <1>2, <1>8 DEF FillsDone, CloseSession, Fail
<1>9. CASE \E b \in Batches : Decide(b)
    <2>1. PICK b \in Batches : Decide(b)
        BY <1>9
    <2>2. CASE b = <<>>
        <3>1. pending' = {} /\ phase' \in {"session", "done"}
            BY <2>1, <2>2 DEF Decide, EndSession, Dated, orderVars
        <3>2. QED
            BY <1>1, <3>1 DEF PendingCovered
    <2>3. CASE b # <<>>
        <3>1. phase' = "gate" /\ batch' = b /\ accepted' = <<>> /\ pos' = pos
            BY <2>1, <2>3 DEF Decide, OpenGate, bookVars
        <3>2. GateCovered'
            BY <3>1, BatchType DEF GateCovered, CoveredIntent
        <3>3. QED
            BY <1>2, <3>1, <3>2 DEF QueueCovered, AbortOnlyWhenVanished
    <2>4. QED
        BY <2>2, <2>3
<1>10. CASE Gate
    <2>1. phase = "gate" /\ phase' = "gate" /\ pos' = pos /\ CheckIntent /\ GateTypeOK
        BY <1>10 DEF Gate, TypeOK, loopVars, bookVars
    <2>2. GateCovered'
        BY <2>1, CheckIntentMoves DEF GateCovered, CoveredIntent
    <2>3. QED
        BY <1>2, <2>1, <2>2 DEF QueueCovered, AbortOnlyWhenVanished
<1>11. CASE AwaitOpen
    <2>1. /\ phase = "gate" /\ phase' \in {"session", "done"} /\ pos' = pos
          /\ pending' = {OrderOf(accepted[i], session) : i \in DOMAIN accepted}
        BY <1>11 DEF AwaitOpen, EndSession, Dated, bookVars
    <2>2. PendingCovered'
        BY <2>1 DEF PendingCovered, SaleCovered, GateCovered, CoveredIntent, OrderOf
    <2>3. QED
        BY <1>1, <2>1, <2>2
<1>12. CASE UNCHANGED vars
    BY <1>12 DEF vars, loopVars, bookVars, orderVars, gateVars, GateCovered, CoveredIntent,
                 PendingCovered, SaleCovered, QueueCovered, AbortOnlyWhenVanished, Vanished
<1>13. QED
    BY <1>3, <1>4, <1>5, <1>6, <1>7, <1>8, <1>9, <1>10, <1>11, <1>12
    DEF Next, Trade, Finished

-----------------------------------------------------------------------------
(* Whole sales. *)

\* An order to sell all that is held.
IsExit(o, e) == o.entity = e /\ o.side = "sell" /\ o.qty = pos[e].qty

\* The shares a waiting order will have once it is scaled like its holding was.
SharesToBe(o) ==
    IF phase = "adjust" /\ o.entity \in DOMAIN adj \ todo
    THEN Scaled(o.qty, adj[o.entity]) ELSE o.qty

Leaving(e) == \E o \in pending : o.entity = e /\ o.side = "sell" /\ SharesToBe(o) = pos[e].qty

\* Reading the market, no order and no holding changes.
LEMMA ReadMarketLeaving ==
    ASSUME TypeOK, ReadMarket, NEW e \in Held(pos'), Leaving(e)
    PROVE  e \in Held(pos) /\ Leaving(e)'
<1>1. PICK A \in SUBSET Entities : \E b, a : a \in [A -> Ratios] /\ OpenSession(b, a)
    BY DEF ReadMarket
<1>2. PICK b, a : a \in [A -> Ratios] /\ OpenSession(b, a)
    BY <1>1
<1>3. /\ phase = "session" /\ phase' = "adjust" /\ pos' = pos /\ pending' = pending /\ adj' = a
      /\ todo' = {x \in DOMAIN a \cap Held(pos) : a[x].num # a[x].den}
    BY <1>2 DEF OpenSession, bookVars
<1>4. PICK o \in pending : o.entity = e /\ o.side = "sell" /\ SharesToBe(o) = pos[e].qty
    BY DEF Leaving
<1>5. SharesToBe(o) = o.qty /\ e \in Held(pos)
    BY <1>3 DEF SharesToBe
<1>6. SharesToBe(o)' = o.qty
    <2>1. CASE e \in DOMAIN a \ todo'
        <3>1. a[e] \in Ratio /\ a[e].num = a[e].den
            BY <1>2, <1>3, <1>5, <2>1, EngineAssumption
        <3>2. QED
            BY <1>3, <1>4, <3>1, PendingTypes, ScaledByOne DEF SharesToBe
    <2>2. CASE e \notin DOMAIN a \ todo'
        BY <1>3, <1>4, <2>2 DEF SharesToBe
    <2>3. QED
        BY <2>1, <2>2
<1>7. QED
    BY <1>3, <1>4, <1>5, <1>6 DEF Leaving

\* An action on a holding is the one its order will see.
LEMMA AdjustHoldingLeaving ==
    ASSUME TypeOK, NEW x \in Entities, AdjustHolding(x), NEW e \in Held(pos')
    PROVE  e \in Held(pos) /\ (Leaving(e) => Leaving(e)')
<1>1. /\ phase = "adjust" /\ phase' = "adjust" /\ adj' = adj /\ x \in todo /\ pending' = pending
      /\ todo' = todo \ {x} /\ pos' = [pos EXCEPT ![x] = AfterAction(@, adj[x])]
    BY DEF AdjustHolding, orderVars
<1>2. CASE e = x
    <2>1. pos'[x].qty = Scaled(pos[x].qty, adj[x]) /\ x \in DOMAIN adj
        BY <1>1 DEF TypeOK, Holdings, AfterAction, NoPosition
    <2>2. pos[x].qty \in Nat /\ adj[x] \in Ratio
        BY <2>1, PartialFunction, EngineAssumption DEF TypeOK, Holdings, Position
    <2>3. pos[x].qty = 0 => Scaled(pos[x].qty, adj[x]) = 0
        <3>1. adj[x].den \in Nat \ {0} /\ adj[x].num \in Nat
            BY <2>2 DEF Ratio
        <3>2. 0 * adj[x].num = 0 /\ 0 \div adj[x].den = 0
            BY <3>1
        <3>3. QED
            BY <3>2 DEF Scaled
    <2>4. e \in Held(pos)
        BY <1>2, <2>1, <2>2, <2>3 DEF Held
    <2>5. \A o \in pending : o.entity = x =>
              SharesToBe(o) = o.qty /\ SharesToBe(o)' = Scaled(o.qty, adj[x])
        BY <1>1, <2>1 DEF SharesToBe
    <2>6. QED
        BY <1>1, <1>2, <2>1, <2>4, <2>5 DEF Leaving
<1>3. CASE e # x
    <2>1. pos'[e] = pos[e] /\ e \in Held(pos)
        BY <1>1, <1>3 DEF TypeOK, Holdings, Held
    <2>2. \A o \in pending : o.entity = e => SharesToBe(o)' = SharesToBe(o)
        BY <1>1, <1>3 DEF SharesToBe
    <2>3. QED
        BY <1>1, <2>1, <2>2 DEF Leaving
<1>4. QED
    BY <1>2, <1>3

\* Once both are scaled, an order is for the whole holding still.
LEMMA ScaleOrdersLeaving ==
    ASSUME TypeOK, OnePerEntity, ScaleOrders, NEW e \in Held(pos'), Leaving(e)
    PROVE  e \in Held(pos) /\ Leaving(e)'
<1>1. /\ phase = "adjust" /\ phase' = "open" /\ todo = {} /\ adj' = adj /\ pos' = pos
      /\ pending' = {ScaledOrder(o) : o \in pending}
    BY DEF ScaleOrders, bookVars
<1>2. PICK o \in pending : o.entity = e /\ o.side = "sell" /\ SharesToBe(o) = pos[e].qty
    BY DEF Leaving
<1>3. o \in Order /\ o.qty > 0 /\ pos[e].qty > 0
    BY <1>1, <1>2, PendingTypes DEF OnePerEntity, Held
<1>4. PICK s \in pending' : s = ScaledOrder(o)
    BY <1>1
<1>5. s.entity = e /\ s.side = "sell"
    BY <1>2, <1>3, <1>4, ScaledOrderKeeps
<1>6. s.qty = pos[e].qty
    <2>1. CASE e \in DOMAIN adj
        BY <1>1, <1>2, <1>3, <1>4, <2>1, ScaledOrderKeeps DEF SharesToBe
    <2>2. CASE e \notin DOMAIN adj
        BY <1>2, <1>3, <1>4, <2>2, ScaledOrderKeeps DEF SharesToBe
    <2>3. QED
        BY <2>1, <2>2
<1>7. SharesToBe(s)' = s.qty
    BY <1>1 DEF SharesToBe
<1>8. QED
    BY <1>1, <1>5, <1>6, <1>7 DEF Leaving, Held

\* What an order leaves at the open: a fill for the whole holding, or an exit
\* that missed it.
LEMMA MeetOpenLeaving ==
    ASSUME TypeOK, MeetOpen, NEW e \in Held(pos), Leaving(e)
    PROVE  \/ \E f \in queue' : IsExit(f.order, e)
           \/ e \in MissedExits' /\ (e \notin DOMAIN bars \/ bars[e].open = 0)
<1>1. phase = "open" /\ queue' = FillsOf(pending, bars) /\ unfilled' = NotTraded(pending, bars)
    BY DEF MeetOpen
<1>2. PICK o \in pending : IsExit(o, e)
    BY <1>1 DEF Leaving, SharesToBe, IsExit
<1>3. CASE Fillable(o, bars)
    <2>1. FillOf(o, bars) \in queue' /\ FillOf(o, bars).order = o
        BY <1>1, <1>3 DEF FillsOf, FillOf
    <2>2. QED
        BY <1>2, <2>1
<1>4. CASE ~Fillable(o, bars)
    <2>1. e \in MissedExits'
        BY <1>1, <1>2, <1>4 DEF NotTraded, MissedExits, IsExit
    <2>2. e \in DOMAIN bars => bars[e].open \in Nat
        BY PartialFunction, EngineAssumption DEF TypeOK, Bar
    <2>3. QED
        BY <1>2, <1>4, <2>1, <2>2 DEF Fillable, IsExit
<1>5. QED
    BY <1>3, <1>4

\* A fill leaves the other holdings alone, and takes its own whole if it is an
\* exit.
LEMMA FillSellLeaving ==
    ASSUME TypeOK, QueueCovered, NEW f \in queue, FillSell(f), NEW e \in Held(pos')
    PROVE  /\ e \in Held(pos)
           /\ (\E g \in queue : IsExit(g.order, e)) =>
                  \E g \in queue' : g.order.entity = e /\ g.order.side = "sell"
                                        /\ g.order.qty = pos'[e].qty
<1> DEFINE x == f.order.entity
<1>1. /\ phase = "fill" /\ queue' = queue \ {f}
      /\ pos' = [pos EXCEPT ![x] = AfterSell(@, f.order.qty, f.price)]
    BY DEF FillSell, NextFill, Record
<1>2. x \in Entities /\ f.order.qty \in Nat /\ pos[x].qty \in Nat
    BY DEF TypeOK, Fill, Order, Holdings, Position
<1>3. CASE e = x
    <2>1. pos'[x] = AfterSell(pos[x], f.order.qty, f.price) /\ pos'[x].qty > 0
        BY <1>1, <1>2, <1>3 DEF TypeOK, Holdings, Held
    <2>2. pos[x].qty # f.order.qty /\ pos[x].qty > 0
        BY <1>2, <2>1 DEF AfterSell, NoPosition
    <2>3. \A g \in queue : g.order.entity = x => g = f
        BY <1>1 DEF QueueCovered
    <2>4. QED
        BY <1>2, <1>3, <2>2, <2>3 DEF IsExit, Held
<1>4. CASE e # x
    <2>1. pos'[e] = pos[e] /\ e \in Held(pos)
        BY <1>1, <1>4 DEF TypeOK, Holdings, Held
    <2>2. QED
        BY <1>1, <1>4, <2>1 DEF IsExit
<1>5. QED
    BY <1>3, <1>4

-----------------------------------------------------------------------------
(* The cap on names.                                                       *)

NamesCapped == Cardinality(names) <= MaxPositions

\* An order, or an intent, for a name the book does not hold.
Enters(o) == o.side = "buy" /\ pos[o.entity].qty = 0

\* Until an intent is looked at, the working book has its name as the holdings
\* do, and a sale is priced at the mark.
AsHeld(in) ==
    /\ in.entity \in names <=> in.entity \in Held(pos)
    /\ notional[in.entity] = pos[in.entity].qty * pos[in.entity].mark
    /\ in.side = "sell" => in.price = pos[in.entity].mark

BatchAsHeld == DOMAIN notional = Entities /\ \A i \in DOMAIN batch : AsHeld(batch[i])

\* names, the working book's, has every holding but those an exit was accepted
\* for and every name bought, and respects the cap once a new name is accepted.
NamesAccount ==
    /\ \A e \in Held(pos) : e \in names \/ \E j \in DOMAIN accepted : IsExit(accepted[j], e)
    /\ \A j \in DOMAIN accepted : accepted[j].side = "buy" => accepted[j].entity \in names
    /\ \A j \in DOMAIN accepted : Enters(accepted[j]) => NamesCapped

\* The same of the orders while they wait.  Of a name with an action nothing is
\* said: a consolidation may take its holding and make a top-up a new name.
NamesWait ==
    pending # {} =>
        /\ \A e \in Held(pos) : e \in names \/ Leaving(e)
        /\ \A o \in pending : o.side = "buy" => o.entity \in names
        /\ \A o \in pending :
              Enters(o) /\ (phase = "session" \/ o.entity \notin DOMAIN adj) => NamesCapped

\* And of the fills, where an exit may have missed the open.
NamesFill ==
    /\ \A e \in Held(pos) : e \in names \cup MissedExits \/ \E f \in queue : IsExit(f.order, e)
    /\ \A f \in queue : f.order.side = "buy" => f.order.entity \in names
    /\ \A f \in queue : Enters(f.order) /\ f.order.entity \notin DOMAIN adj => NamesCapped
    /\ NewNames # {} => NamesCapped

NamesClose == NewNames # {} => Held(pos) \subseteq names \cup MissedExits /\ NamesCapped

CapInv ==
    /\ phase = "gate" => BatchAsHeld /\ NamesAccount
    /\ phase \in {"session", "adjust", "open"} => NamesWait
    /\ phase = "fill" => NamesFill
    /\ phase = "close" => NamesClose

\* A sale at the mark that leaves nothing of a holding's value is an exit.
LEMMA NothingLeft ==
    ASSUME NEW p \in Nat, NEW q \in Nat, NEW m \in Nat \ {0}, q <= p, p * m - q * m <= 0
    PROVE  q = p
<1> SUFFICES ASSUME q < p
             PROVE  FALSE
    OBVIOUS
<1>1. PICK d \in Nat \ {0} : p = q + d
    <2>1. p - q \in Nat \ {0} /\ p = q + (p - q)
        OBVIOUS
    <2>2. QED
        BY <2>1
<1>2. p * m = q * m + d * m /\ d * m > 0 /\ q * m \in Nat
    BY <1>1
<1>3. QED
    BY <1>2

\* What the gate does with one intent: the names of the intents to come are
\* left alone, and a name is dropped for an exit only and taken up under the
\* cap only.
LEMMA GateNames ==
    ASSUME TypeOK, GateOnePerEntity, GateCovered, BatchAsHeld, NamesAccount, Gate
    PROVE  (BatchAsHeld /\ NamesAccount)'
<1> DEFINE in == batch[1]
           x == in.entity
<1>1. /\ phase = "gate" /\ CheckIntent /\ GateTypeOK /\ pos' = pos
      /\ batch \in Seq(Intent) /\ batch # <<>> /\ accepted \in Seq(Intent)
    BY DEF Gate, CheckIntent, bookVars, TypeOK, GateTypeOK
<1>2. in = Head(batch) /\ 1 \in DOMAIN batch /\ in \in Intent
    BY <1>1
<1>3. x \in Entities /\ in.qty \in Nat /\ in.price \in Nat /\ AsHeld(in)
    BY <1>2 DEF Intent, BatchAsHeld
<1>4. pos[x].qty \in Nat /\ pos[x].mark \in Nat
    BY <1>3 DEF TypeOK, Holdings, Position
<1>5. \A i \in DOMAIN batch' :
          i + 1 \in DOMAIN batch /\ batch'[i] = batch[i + 1] /\ batch'[i].entity # x
    BY <1>1, <1>2, CheckIntentMoves DEF GateOnePerEntity
<1>6. \A j \in DOMAIN accepted : accepted[j].entity # x
    BY <1>1, <1>2 DEF GateOnePerEntity
<1>7. \A i \in DOMAIN batch' : batch'[i].entity \in Entities
    <2>1. \A i \in DOMAIN batch : batch[i] \in Intent
        BY <1>1
    <2>2. QED
        BY <1>5, <2>1 DEF Intent
<1>8. ASSUME DOMAIN notional' = Entities,
             \A y \in Entities : y # x => (y \in names' <=> y \in names) /\ notional'[y] = notional[y]
      PROVE  BatchAsHeld'
    BY <1>1, <1>5, <1>7, <1>8 DEF BatchAsHeld, AsHeld, Held
<1>9. IsFiniteSet(names) /\ Cardinality(names) \in Nat
    BY <1>1, EntitiesAssumption, FS_Subset, FS_CardinalityType DEF GateTypeOK
<1>10. ASSUME accepted' = Append(accepted, in)
       PROVE  /\ \A j \in DOMAIN accepted : j \in DOMAIN accepted' /\ accepted'[j] = accepted[j]
              /\ Len(accepted) + 1 \in DOMAIN accepted' /\ accepted'[Len(accepted) + 1] = in
              /\ \A j \in DOMAIN accepted' :
                    \/ j \in DOMAIN accepted /\ accepted'[j] = accepted[j]
                    \/ accepted'[j] = in
    BY <1>1, <1>2, <1>10
<1>11. CASE Reject(in)
    <2>1. names' = names /\ notional' = notional /\ accepted' = accepted
        BY <1>11 DEF Reject
    <2>2. NamesAccount'
        BY <1>1, <2>1 DEF NamesAccount, Held, IsExit, Enters, NamesCapped
    <2>3. QED
        BY <1>8, <2>1, <2>2 DEF BatchAsHeld
<1>12. CASE AcceptSell(in)
    <2> DEFINE left == notional[x] - Notional(in)
    <2>1. /\ in.side = "sell" /\ ~Malformed(in) /\ accepted' = Append(accepted, in)
          /\ names' = IF left <= 0 THEN names \ {x} ELSE names
          /\ notional' = [notional EXCEPT ![x] = IF left <= 0 THEN 0 ELSE left]
        BY <1>12 DEF AcceptSell, Refusal
    <2>2. BatchAsHeld'
        BY <1>8, <2>1 DEF BatchAsHeld
    <2>3. left <= 0 => in.qty = pos[x].qty
        <3>1. in.price = pos[x].mark /\ in.price # 0 /\ in.qty <= pos[x].qty
            BY <1>1, <1>2, <1>3, <2>1 DEF AsHeld, Malformed, GateCovered, CoveredIntent
        <3>2. left = pos[x].qty * pos[x].mark - in.qty * pos[x].mark
            BY <1>3, <3>1 DEF AsHeld, Notional
        <3>3. QED
            BY <1>3, <1>4, <3>1, <3>2, NothingLeft
    <2>4. \A e \in Held(pos) : e \in names' \/ \E j \in DOMAIN accepted' : IsExit(accepted'[j], e)
        <3> SUFFICES ASSUME NEW e \in Held(pos), e \notin names'
                     PROVE  \E j \in DOMAIN accepted' : IsExit(accepted'[j], e)
            OBVIOUS
        <3>1. CASE e \notin names
            BY <1>10, <2>1, <3>1 DEF NamesAccount
        <3>2. CASE e \in names
            <4>1. e = x /\ left <= 0
                BY <2>1, <3>2
            <4>2. IsExit(in, e)
                BY <2>1, <2>3, <4>1 DEF IsExit
            <4>3. QED
                BY <1>10, <2>1, <4>2
        <3>3. QED
            BY <3>1, <3>2
    <2>5. \A j \in DOMAIN accepted' : accepted'[j].side = "buy" => accepted'[j].entity \in names'
        BY <1>6, <1>10, <2>1 DEF NamesAccount
    <2>6. NamesCapped => NamesCapped'
        <3>1. names' \subseteq names
            BY <2>1
        <3>2. Cardinality(names') <= Cardinality(names) /\ Cardinality(names') \in Nat
            BY <1>9, <3>1, FS_Subset, FS_CardinalityType
        <3>3. QED
            BY <1>9, <3>2, LimitsAssumption DEF NamesCapped
    <2>7. \A j \in DOMAIN accepted' : Enters(accepted'[j]) => NamesCapped'
        BY <1>10, <2>1, <2>6 DEF NamesAccount, Enters
    <2>8. QED
        BY <1>1, <2>2, <2>4, <2>5, <2>7 DEF NamesAccount, Held, IsExit, Enters
<1>13. CASE AcceptBuy(in)
    <2>1. /\ in.side = "buy" /\ BuyRefusal(in) = "none" /\ accepted' = Append(accepted, in)
          /\ names' = names \cup {x}
          /\ notional' = [notional EXCEPT ![x] = @ + Notional(in)]
        BY <1>13 DEF AcceptBuy, Refusal
    <2>2. BatchAsHeld'
        BY <1>8, <2>1 DEF BatchAsHeld
    <2>3. ~NoRoomForName(in)
        BY <2>1 DEF BuyRefusal
    <2>4. \A e \in Held(pos) : e \in names' \/ \E j \in DOMAIN accepted' : IsExit(accepted'[j], e)
        BY <1>10, <2>1 DEF NamesAccount
    <2>5. \A j \in DOMAIN accepted' : accepted'[j].side = "buy" => accepted'[j].entity \in names'
        BY <1>10, <2>1 DEF NamesAccount
    <2>6. CASE x \in names
        <3>1. names' = names /\ ~Enters(in)
            BY <1>3, <2>1, <2>6 DEF AsHeld, Held, Enters
        <3>2. \A j \in DOMAIN accepted' : Enters(accepted'[j]) => NamesCapped'
            BY <1>10, <2>1, <3>1 DEF NamesAccount, NamesCapped
        <3>3. QED
            BY <1>1, <2>2, <2>4, <2>5, <3>2 DEF NamesAccount, Held, IsExit, Enters
    <2>7. CASE x \notin names
        <3>1. Cardinality(names) < MaxPositions
            BY <1>9, <2>3, <2>7, LimitsAssumption DEF NoRoomForName
        <3>2. Cardinality(names') = Cardinality(names) + 1
            BY <1>9, <2>1, <2>7, FS_AddElement
        <3>3. NamesCapped'
            BY <1>9, <3>1, <3>2, LimitsAssumption DEF NamesCapped
        <3>4. QED
            BY <1>1, <2>2, <2>4, <2>5, <3>3 DEF NamesAccount, Held, IsExit, Enters
    <2>8. QED
        BY <2>6, <2>7
<1>14. QED
    BY <1>1, <1>2, <1>11, <1>12, <1>13 DEF CheckIntent

\* A decision hands the gate the holdings at their marks.
LEMMA DecideNames ==
    ASSUME TypeOK, NEW b \in Batches, Decide(b), b # <<>>
    PROVE  phase' = "gate" /\ (BatchAsHeld /\ NamesAccount)'
<1>1. /\ phase' = "gate" /\ batch' = b /\ accepted' = <<>> /\ pos' = pos
      /\ names' = Held(pos)
      /\ notional' = [e \in Entities |->
            IF e \in Held(pos) THEN [h \in Held(pos) |-> pos[h].qty * pos[h].mark][e] ELSE 0]
    BY DEF Decide, OpenGate, GateBook, bookVars
<1>2. \A e \in Entities : notional'[e] = pos[e].qty * pos[e].mark
    <2> SUFFICES ASSUME NEW e \in Entities
                 PROVE  notional'[e] = pos[e].qty * pos[e].mark
        OBVIOUS
    <2>1. pos[e].qty \in Nat /\ pos[e].mark \in Nat
        BY DEF TypeOK, Holdings, Position
    <2>2. CASE e \in Held(pos)
        BY <1>1, <2>2
    <2>3. CASE e \notin Held(pos)
        <3>1. pos[e].qty = 0
            BY <2>1, <2>3 DEF Held
        <3>2. 0 * pos[e].mark = 0
            BY <2>1
        <3>3. QED
            BY <1>1, <2>3, <3>1, <3>2
    <2>4. QED
        BY <2>2, <2>3
<1>3. \A i \in DOMAIN b :
          b[i].entity \in Entities /\ (b[i].side = "sell" => b[i].price = pos[b[i].entity].mark)
    <2> SUFFICES ASSUME NEW i \in DOMAIN b
                 PROVE  /\ b[i].entity \in Entities
                        /\ b[i].side = "sell" => b[i].price = pos[b[i].entity].mark
        OBVIOUS
    <2>1. b[i] \in Proposals
        BY DEF Batches
    <2>2. DOMAIN bars \subseteq Entities
        BY PartialFunction DEF TypeOK
    <2>3. QED
        BY <2>1, <2>2 DEF Proposals, Held
<1>4. BatchAsHeld'
    BY <1>1, <1>2, <1>3 DEF BatchAsHeld, AsHeld, Held
<1>5. NamesAccount'
    BY <1>1 DEF NamesAccount, Held
<1>6. QED
    BY <1>1, <1>4, <1>5

\* The accepted intents wait as the gate left them.
LEMMA AwaitOpenNames ==
    ASSUME Dated, NamesAccount, AwaitOpen
    PROVE  phase' \in {"session", "done"} /\ (phase' = "session" => NamesWait')
<1>1. /\ phase = "gate" /\ phase' \in {"session", "done"} /\ pos' = pos /\ names' = names
      /\ pending' = {OrderOf(accepted[i], session) : i \in DOMAIN accepted}
    BY DEF AwaitOpen, EndSession, bookVars, gateVars, Dated
<1>2. \A o \in pending' : SharesToBe(o)' = o.qty
    BY <1>1 DEF SharesToBe
<1>3. \A e \in Held(pos) : e \in names \/ Leaving(e)'
    <2> SUFFICES ASSUME NEW e \in Held(pos), e \notin names
                 PROVE  Leaving(e)'
        OBVIOUS
    <2>1. PICK j \in DOMAIN accepted : IsExit(accepted[j], e)
        BY DEF NamesAccount
    <2>2. OrderOf(accepted[j], session) \in pending'
        BY <1>1
    <2>3. QED
        BY <1>1, <1>2, <2>1, <2>2 DEF Leaving, IsExit, OrderOf
<1>4. \A o \in pending' : o.side = "buy" => o.entity \in names
    BY <1>1 DEF NamesAccount, OrderOf
<1>5. \A o \in pending' : Enters(o) => NamesCapped
    BY <1>1 DEF NamesAccount, Enters, OrderOf
<1>6. QED
    BY <1>1, <1>3, <1>4, <1>5 DEF NamesWait, Held, Enters, NamesCapped

\* While they wait, actions rescale holdings and orders.
LEMMA WaitingNames ==
    ASSUME TypeOK, OnePerEntity, NamesWait,
           ReadMarket \/ ScaleOrders \/ \E x \in Entities : AdjustHolding(x)
    PROVE  phase' \in {"adjust", "open"} /\ NamesWait'
<1>1. CASE ReadMarket
    <2>1. phase = "session" /\ phase' = "adjust" /\ pos' = pos /\ pending' = pending /\ names' = names
        BY <1>1 DEF ReadMarket, OpenSession, bookVars, gateVars
    <2>2. QED
        BY <1>1, <2>1, ReadMarketLeaving DEF NamesWait, Enters, NamesCapped
<1>2. CASE ScaleOrders
    <2>1. /\ phase = "adjust" /\ phase' = "open" /\ adj' = adj /\ pos' = pos /\ names' = names
          /\ pending' = {ScaledOrder(o) : o \in pending}
        BY <1>2 DEF ScaleOrders, bookVars, gateVars
    <2>2. \A o \in pending :
              /\ ScaledOrder(o).entity = o.entity /\ ScaledOrder(o).side = o.side
              /\ o \in Order
        BY PendingTypes, ScaledOrderKeeps DEF OnePerEntity
    <2>3. QED
        BY <1>2, <2>1, <2>2, ScaleOrdersLeaving DEF NamesWait, Enters, NamesCapped
<1>3. ASSUME NEW x \in Entities, AdjustHolding(x)
      PROVE  phase' \in {"adjust", "open"} /\ NamesWait'
    <2>1. /\ phase = "adjust" /\ phase' = "adjust" /\ adj' = adj /\ x \in DOMAIN adj
          /\ pending' = pending /\ names' = names
          /\ pos' = [pos EXCEPT ![x] = AfterAction(@, adj[x])]
        BY <1>3 DEF AdjustHolding, orderVars, gateVars, TypeOK
    <2>2. \A o \in pending : o.entity # x => pos'[o.entity] = pos[o.entity]
        BY <2>1, PendingTypes DEF TypeOK, Holdings
    <2>3. QED
        BY <1>3, <2>1, <2>2, AdjustHoldingLeaving DEF NamesWait, Enters, NamesCapped
<1>4. QED
    BY <1>1, <1>2, <1>3

\* The open splits the orders, and the exits, into fills and misses.
LEMMA MeetOpenNames ==
    ASSUME TypeOK, Dated, NamesWait, MeetOpen
    PROVE  /\ phase' \in {"fill", "close"}
           /\ phase' = "fill" => NamesFill'
           /\ phase' = "close" => NamesClose'
<1>1. /\ phase = "open" /\ pos' = pos /\ names' = names /\ adj' = adj /\ filled' = {}
      /\ queue' = FillsOf(pending, bars)
      /\ phase' = IF pending = {} THEN "close" ELSE "fill"
    BY DEF MeetOpen, bookVars, gateVars, Dated
<1>2. NewNames' = {}
    BY <1>1 DEF NewNames
<1>3. CASE pending = {}
    BY <1>1, <1>2, <1>3 DEF NamesClose
<1>4. CASE pending # {}
    <2>1. \A e \in Held(pos) :
              e \in names \cup MissedExits' \/ \E f \in queue' : IsExit(f.order, e)
        BY <1>4, MeetOpenLeaving DEF NamesWait
    <2>2. \A f \in queue' : f.order \in pending
        BY <1>1, MeetOpenSplits
    <2>3. QED
        BY <1>1, <1>2, <1>4, <2>1, <2>2 DEF NamesWait, NamesFill, Held, IsExit, Enters, NamesCapped
<1>5. QED
    BY <1>3, <1>4

\* A fill makes a name new only if no share of it was held, and leaves those
\* that are new so.
LEMMA ApplyFillNames ==
    ASSUME TypeOK, OnePerEntity, OrdersSettleOnce, QueueCovered, NamesFill, NEW f \in queue, ApplyFill(f)
    PROVE  phase' = "aborted" \/ (phase' = "fill" /\ NamesFill')
<1> DEFINE x == f.order.entity
<1>1. /\ phase = "fill" /\ names' = names /\ adj' = adj
    BY DEF ApplyFill, FillBuy, FillSell, RefuseBuy, AbortFill, NextFill, Record, loopVars, gateVars
<1>2. /\ x \in Entities /\ f.order.qty \in Nat /\ pos[x].qty \in Nat
    BY DEF TypeOK, Fill, Order, Holdings, Position
<1>3. \A g \in queue : g # f => g.order.entity # x
    BY <1>1 DEF QueueCovered
<1>4. \A g \in filled : g.order.entity # x
    <2> SUFFICES ASSUME NEW g \in filled, g.order.entity = x
                 PROVE  FALSE
        OBVIOUS
    <2>1. g.order \in OrdersOf(filled) /\ f.order \in OrdersOf(queue)
        BY DEF OrdersOf
    <2>2. g.order = f.order
        BY <1>1, <2>1 DEF OrdersSettleOnce, OnePerEntity
    <2>3. QED
        BY <1>1, <2>1, <2>2 DEF OrdersSettleOnce
<1>5. \A e \in Entities : pos[e].qty \in Nat
    BY DEF TypeOK, Holdings, Position
<1>6. ASSUME phase' = "fill", queue' = queue \ {f}, filled' = filled \cup {f}, unfilled' = unfilled,
             \A e \in Entities : e # x => pos'[e] = pos[e]
      PROVE  /\ MissedExits' = MissedExits
             /\ \A g \in queue' : /\ g.order.side = "buy" => g.order.entity \in names'
                                  /\ Enters(g.order)' /\ g.order.entity \notin DOMAIN adj' => NamesCapped'
             /\ NewNames' \subseteq NewNames \cup {e \in {x} \ DOMAIN adj : f.order.side = "buy" /\ f.order.qty = pos'[x].qty}
    <2>1. MissedExits' = MissedExits
        BY <1>6 DEF MissedExits
    <2>2. \A g \in queue' : g.order.entity \in Entities /\ pos'[g.order.entity] = pos[g.order.entity]
        BY <1>3, <1>6 DEF TypeOK, Fill, Order
    <2>3. \A g \in queue' : /\ g.order.side = "buy" => g.order.entity \in names'
                            /\ Enters(g.order)' /\ g.order.entity \notin DOMAIN adj' => NamesCapped'
        BY <1>1, <1>6, <2>2 DEF NamesFill, Enters, NamesCapped
    <2>4. NewNames' \subseteq NewNames \cup {e \in {x} \ DOMAIN adj : f.order.side = "buy" /\ f.order.qty = pos'[x].qty}
        <3> SUFFICES ASSUME NEW e \in Entities \ DOMAIN adj,
                            NEW g \in filled \cup {f},
                            g.order.entity = e, g.order.side = "buy", g.order.qty = pos'[e].qty
                     PROVE  e \in NewNames \/ (e = x /\ f.order.side = "buy" /\ f.order.qty = pos'[x].qty)
            BY <1>1, <1>6 DEF NewNames
        <3>1. CASE g = f
            BY <3>1
        <3>2. CASE g \in filled
            <4>1. e # x /\ pos'[e] = pos[e]
                BY <1>4, <1>6, <3>2
            <4>2. QED
                BY <3>2, <4>1 DEF NewNames
        <3>3. QED
            BY <3>1, <3>2
    <2>5. QED
        BY <2>1, <2>3, <2>4
<1>7. CASE FillBuy(f)
    <2>1. /\ f.order.side = "buy" /\ phase' = "fill" /\ queue' = queue \ {f} /\ filled' = filled \cup {f}
          /\ unfilled' = unfilled
          /\ pos' = [pos EXCEPT ![x] = AfterBuy(@, f.order.qty, f.price)]
        BY <1>1, <1>7 DEF FillBuy, Record, loopVars
    <2>2. /\ \A e \in Entities : e # x => pos'[e] = pos[e]
          /\ pos'[x].qty = pos[x].qty + f.order.qty
        BY <1>2, <2>1 DEF AfterBuy, TypeOK, Holdings
    <2>3. x \in names
        BY <2>1 DEF NamesFill
    <2>4. \A e \in Held(pos') : e \in names' \cup MissedExits' \/ \E g \in queue' : (IsExit(g.order, e))'
        <3> SUFFICES ASSUME NEW e \in Held(pos'), e # x, e \notin names \cup MissedExits
                     PROVE  \E g \in queue' : (IsExit(g.order, e))'
            BY <1>1, <1>6, <2>1, <2>2, <2>3
        <3>1. e \in Held(pos) /\ pos'[e] = pos[e]
            BY <2>2 DEF Held
        <3>2. PICK g \in queue : IsExit(g.order, e)
            BY <3>1 DEF NamesFill
        <3>3. g # f
            BY <2>1, <3>2 DEF IsExit
        <3>4. QED
            BY <2>1, <3>1, <3>2, <3>3 DEF IsExit
    <2>5. NewNames' # {} => NamesCapped'
        <3>1. x \notin DOMAIN adj /\ f.order.qty = pos'[x].qty => NamesCapped
            BY <1>2, <2>1, <2>2 DEF NamesFill, Enters
        <3>2. NewNames' # {} => NewNames # {} \/ (x \notin DOMAIN adj /\ f.order.qty = pos'[x].qty)
            BY <1>6, <2>1, <2>2
        <3>3. QED
            BY <1>1, <3>1, <3>2 DEF NamesFill, NamesCapped
    <2>6. QED
        BY <1>6, <2>1, <2>2, <2>4, <2>5 DEF NamesFill
<1>8. CASE FillSell(f)
    <2>1. /\ f.order.side = "sell" /\ phase' = "fill" /\ queue' = queue \ {f} /\ filled' = filled \cup {f}
          /\ unfilled' = unfilled
          /\ pos' = [pos EXCEPT ![x] = AfterSell(@, f.order.qty, f.price)]
        BY <1>1, <1>8 DEF FillSell, Record, loopVars
    <2>2. \A e \in Entities : e # x => pos'[e] = pos[e]
        BY <2>1 DEF TypeOK, Holdings
    <2>3. \A e \in Held(pos') : e \in names' \cup MissedExits' \/ \E g \in queue' : (IsExit(g.order, e))'
        <3> SUFFICES ASSUME NEW e \in Held(pos'), e \notin names \cup MissedExits
                     PROVE  \E g \in queue' : (IsExit(g.order, e))'
            BY <1>1, <1>6, <2>1, <2>2
        <3>1. e \in Held(pos)
            BY <1>8, FillSellLeaving
        <3>2. \E g \in queue : IsExit(g.order, e)
            BY <3>1 DEF NamesFill
        <3>3. QED
            BY <1>8, <3>2, FillSellLeaving DEF IsExit
    <2>4. NewNames' # {} => NamesCapped'
        BY <1>1, <1>6, <2>1, <2>2 DEF NamesFill, NamesCapped
    <2>5. QED
        BY <1>6, <2>1, <2>2, <2>3, <2>4 DEF NamesFill
<1>9. CASE RefuseBuy(f)
    <2>1. /\ f.order.side = "buy" /\ phase' = "fill" /\ queue' = queue \ {f} /\ filled' = filled
          /\ unfilled' = unfilled \cup {f.order} /\ pos' = pos
        BY <1>1, <1>9 DEF RefuseBuy, loopVars, bookVars
    <2>2. MissedExits' = MissedExits
        BY <2>1 DEF MissedExits
    <2>3. NewNames' = NewNames
        BY <1>1, <2>1 DEF NewNames
    <2>4. QED
        BY <1>1, <2>1, <2>2, <2>3 DEF NamesFill, Held, IsExit, Enters, NamesCapped
<1>10. CASE AbortFill(f)
    BY <1>10 DEF AbortFill
<1>11. QED
    BY <1>7, <1>8, <1>9, <1>10 DEF ApplyFill

\* Every step keeps the account of names.
LEMMA CapStep ==
    ASSUME TypeOK, IInv, CapInv, [Next]_vars
    PROVE  CapInv'
<1> USE DEF CapInv
<1>1. CASE ReadMarket \/ ScaleOrders \/ \E x \in Entities : AdjustHolding(x)
    <2>1. phase \in {"session", "adjust"}
        BY <1>1 DEF ReadMarket, OpenSession, ScaleOrders, AdjustHolding
    <2>2. QED
        BY <1>1, <2>1, WaitingNames DEF IInv
<1>2. CASE MeetOpen
    <2>1. phase = "open"
        BY <1>2 DEF MeetOpen
    <2>2. QED
        BY <1>2, <2>1, MeetOpenNames DEF IInv
<1>3. CASE \E f \in queue : ApplyFill(f)
    <2>1. phase = "fill"
        BY <1>3 DEF ApplyFill, FillBuy, FillSell, RefuseBuy, AbortFill, NextFill
    <2>2. QED
        BY <1>3, <2>1, ApplyFillNames DEF IInv
<1>4. CASE FillsDone
    <2>1. /\ phase = "fill" /\ phase' = "close" /\ queue = {} /\ pos' = pos /\ names' = names
          /\ adj' = adj /\ filled' = filled /\ unfilled' = unfilled
        BY <1>4 DEF FillsDone, bookVars, gateVars
    <2>2. NamesClose
        BY <2>1 DEF NamesFill, NamesClose
    <2>3. QED
        BY <2>1, <2>2 DEF NamesClose, NewNames, MissedExits, Held, NamesCapped
<1>5. CASE CloseSession \/ Fail
    BY <1>5 DEF CloseSession, Fail
<1>6. CASE \E b \in Batches : Decide(b)
    <2>1. PICK b \in Batches : Decide(b)
        BY <1>6
    <2>2. CASE b = <<>>
        <3>1. phase = "decide" /\ phase' \in {"session", "done"} /\ pending' = {}
            BY <2>1, <2>2 DEF Decide, EndSession, orderVars, IInv, Dated
        <3>2. QED
            BY <3>1 DEF NamesWait
    <2>3. CASE b # <<>>
        BY <2>1, <2>3, DecideNames
    <2>4. QED
        BY <2>2, <2>3
<1>7. CASE Gate
    <2>1. phase = "gate" /\ phase' = "gate"
        BY <1>7 DEF Gate, loopVars
    <2>2. QED
        BY <1>7, <2>1, GateNames DEF IInv
<1>8. CASE AwaitOpen
    <2>1. phase = "gate"
        BY <1>8 DEF AwaitOpen
    <2>2. QED
        BY <1>8, <2>1, AwaitOpenNames DEF IInv
<1>9. CASE UNCHANGED vars
    BY <1>9 DEF vars, loopVars, bookVars, orderVars, gateVars, BatchAsHeld, AsHeld, NamesAccount,
                NamesWait, NamesFill, NamesClose, NamesCapped, Enters, IsExit, Leaving, SharesToBe,
                Held, NewNames, MissedExits
<1>10. QED
    BY <1>1, <1>2, <1>3, <1>4, <1>5, <1>6, <1>7, <1>8, <1>9 DEF Next, Trade, Finished

\* What the account says of a book at its marks.
LEMMA AccountBounds ==
    ASSUME TypeOK, CapInv
    PROVE  CapUpToMissedExits
<1> SUFFICES ASSUME phase = "close", NewNames # {}
             PROVE  Cardinality(Held(pos)) <= MaxPositions + Cardinality(MissedExits)
    BY DEF CapUpToMissedExits
<1>1. Held(pos) \subseteq names \cup MissedExits /\ Cardinality(names) <= MaxPositions
    BY DEF CapInv, NamesClose, NamesCapped
<1>2. names \subseteq Entities /\ MissedExits \subseteq Entities
    BY DEF TypeOK, GateTypeOK, MissedExits, Order
<1>3. IsFiniteSet(names) /\ IsFiniteSet(MissedExits)
    BY <1>2, EntitiesAssumption, FS_Subset
<1>4. /\ IsFiniteSet(names \cup MissedExits)
      /\ Cardinality(names \cup MissedExits) =
            Cardinality(names) + Cardinality(MissedExits) - Cardinality(names \cap MissedExits)
    BY <1>3, FS_Union
<1>5. IsFiniteSet(names \cap MissedExits)
    BY <1>3, FS_Intersection
<1>6. /\ Cardinality(names) \in Nat /\ Cardinality(MissedExits) \in Nat
      /\ Cardinality(names \cap MissedExits) \in Nat /\ Cardinality(Held(pos)) \in Nat
      /\ Cardinality(Held(pos)) <= Cardinality(names \cup MissedExits)
    BY <1>1, <1>3, <1>4, <1>5, FS_Subset, FS_CardinalityType
<1>7. QED
    BY <1>1, <1>4, <1>6, LimitsAssumption

-----------------------------------------------------------------------------
(* What the gate judges by, inside the engine.                             *)

\* The marks of this model are whole numbers and an action may floor one to
\* nothing, at which the gate takes an intent for malformed; the marks of the
\* code are not floored.
Priced == \A e \in Held(pos) : pos[e].mark > 0


\* What a decision hands over is a book and a batch as the gate expects them:
\* holdings worth something, and of each at most one sale, of what is held.
LEMMA DecideOpensGate ==
    ASSUME TypeOK, Priced, NEW b \in Batches, Decide(b), b # <<>>
    PROVE  GateInit'
<1>1. /\ book' = GateBook /\ batch' = b /\ accepted' = <<>> /\ rejected' = <<>>
      /\ names' = DOMAIN GateBook.positions
      /\ notional' = [e \in Entities |->
            IF e \in DOMAIN GateBook.positions THEN GateBook.positions[e] ELSE 0]
      /\ total' = SumFunction(GateBook.positions)
    BY DEF Decide, OpenGate
<1>2. IsFiniteSet(Held(pos)) /\ Held(pos) \subseteq Entities
    BY EntitiesAssumption, FS_Subset DEF Held
<1>3. \A e \in Held(pos) : pos[e].qty * pos[e].mark \in Nat \ {0}
    <2>1. TAKE e \in Held(pos)
    <2>2. pos[e].qty \in Nat \ {0} /\ pos[e].mark \in Nat \ {0}
        BY <1>2 DEF Held, Priced, TypeOK, Holdings, Position
    <2>3. QED
        BY <2>2
<1>4. IsBook(book)'
    <2>1. HoldingsValue(pos) \in Int
        <3> DEFINE f == [e \in Held(pos) |-> pos[e].qty * pos[e].mark]
        <3>1. \A e \in Held(pos) : f[e] \in Int
            BY <1>3
        <3>2. SumFunctionOnSet(f, Held(pos)) \in Int
            <4> HIDE DEF f
            <4>1. QED
                BY <1>2, <3>1, SumInt
        <3>3. QED
            BY <3>2 DEF HoldingsValue, SumFunction
    <2>2. Equity(cash, pos) \in Int
        BY <2>1 DEF Equity, TypeOK
    <2>3. QED
        BY <1>1, <1>2, <1>3, <2>2 DEF IsBook, GateBook
<1>5. batch' \in Seq(Submitted)
    <2>1. Intent \subseteq Submitted
        <3>1. SUFFICES ASSUME NEW in \in Intent PROVE in \in Submitted
            OBVIOUS
        <3>2. in = [entity |-> in.entity, side |-> in.side, qty |-> in.qty, price |-> in.price]
            BY DEF Intent
        <3>3. /\ in.entity \in Entities \cup {0} /\ in.side \in Sides \cup {"none"}
              /\ in.qty \in Int /\ in.price \in Int
            BY DEF Intent
        <3>4. QED
            BY <3>2, <3>3 DEF Submitted
    <2>2. b \in Seq(Intent)
        BY BatchType
    <2>3. QED
        BY <1>1, <2>1, <2>2
<1>6. \A e \in Entities : StartNotional(e)' = IF e \in Held(pos) THEN pos[e].qty * pos[e].mark ELSE 0
    BY <1>1 DEF StartNotional, GateBook
<1>7. CoversItsSales'
    <2>1. SUFFICES ASSUME NEW e \in Entities
                   PROVE  SumFunctionOnSet(Notionals(b), SalesOf(e, b)) <= StartNotional(e)'
        BY <1>1 DEF CoversItsSales
    <2>2. CASE SalesOf(e, b) = {}
        <3>1. StartNotional(e)' \in Nat
            BY <1>3, <1>6
        <3>2. QED
            BY <2>2, <3>1, SumEmpty
    <2>3. CASE SalesOf(e, b) # {}
        <3>1. PICK i \in SalesOf(e, b) : TRUE
            BY <2>3
        <3>2. i \in DOMAIN b /\ b[i].entity = e /\ b[i].side = "sell"
            BY <3>1 DEF SalesOf
        <3>3. SalesOf(e, b) = {i}
            <4>1. \A j \in DOMAIN b : b[j].entity = e => j = i
                BY <3>2 DEF Batches
            <4>2. QED
                BY <3>1, <4>1 DEF SalesOf
        <3>4. b[i].qty \in Nat /\ b[i].qty <= pos[e].qty /\ b[i].price = pos[e].mark /\ e \in Held(pos)
            <4>1. b[i] \in Proposals /\ b[i].qty <= pos[e].qty
                BY <3>2 DEF Batches
            <4>2. b[i].price = pos[e].mark /\ e \in Held(pos)
                BY <3>2, <4>1 DEF Proposals
            <4>3. b[i] \in Intent
                BY <3>2, BatchType
            <4>4. QED
                BY <4>1, <4>2, <4>3 DEF Intent
        <3>5. pos[e].qty \in Nat /\ pos[e].mark \in Nat
            BY DEF TypeOK, Holdings, Position
        <3>6. b[i].qty * pos[e].mark <= pos[e].qty * pos[e].mark /\ b[i].qty * pos[e].mark \in Nat
            BY <3>4, <3>5
        <3>7. Notionals(b)[i] = b[i].qty * pos[e].mark
            BY <3>2, <3>4 DEF Notionals, Notional
        <3>8. SumFunctionOnSet(Notionals(b), {i}) = Notionals(b)[i]
            <4> DEFINE f == Notionals(b)
            <4>1. IsFiniteSet({}) /\ {} \cup {i} = {i}
                BY FS_EmptySet
            <4>2. f[i] \in Int
                BY <3>6, <3>7
            <4> HIDE DEF f
            <4>3. SumFunctionOnSet(f, {} \cup {i}) = SumFunctionOnSet(f, {}) + f[i]
                BY <4>1, <4>2, SumAdd
            <4>4. SumFunctionOnSet(f, {i}) = 0 + f[i]
                BY <4>1, <4>3, SumEmpty
            <4>5. SumFunctionOnSet(f, {i}) = f[i]
                BY <4>2, <4>4
            <4>6. QED
                BY <4>5 DEF f
        <3>9. QED
            BY <1>6, <3>3, <3>4, <3>6, <3>7, <3>8
    <2>4. QED
        BY <2>2, <2>3
<1>8. /\ names' = DOMAIN book'.positions
      /\ notional' = [e \in Entities |-> StartNotional(e)']
      /\ total' = StartTotal'
    BY <1>1 DEF StartNotional, StartTotal
<1>9. QED
    BY <1>1, <1>4, <1>5, <1>7, <1>8 DEF GateInit

\* Inside the engine the gate opens on the book of the session and checks the
\* strategy's intents one by one, so its
\* invariant is kept there too.
LEMMA GateEngineStep ==
    ASSUME TypeOK, Priced, GateInv, [Next]_vars
    PROVE  GateInv' \/ GateInit'
<1>1. CASE UNCHANGED gateVars
    BY <1>1, GateIdleInv
<1>2. CASE Gate
    BY <1>2, GateStepInv DEF Gate
<1>3. ASSUME NEW b \in Batches, Decide(b)
      PROVE  GateInv' \/ GateInit'
    <2>1. CASE b = <<>>
        BY <1>1, <1>3, <2>1 DEF Decide
    <2>2. CASE b # <<>>
        BY <1>3, <2>2, DecideOpensGate
    <2>3. QED
        BY <2>1, <2>2
<1>4. CASE ReadMarket
    BY <1>1, <1>4 DEF ReadMarket, OpenSession
<1>5. CASE Trade
    BY <1>1, <1>5 DEF Trade, AdjustHolding, ScaleOrders, MeetOpen, ApplyFill, FillBuy, RefuseBuy,
                      FillSell, Record, AbortFill, FillsDone, CloseSession
<1>6. CASE AwaitOpen \/ Fail \/ Finished \/ UNCHANGED vars
    BY <1>1, <1>6 DEF AwaitOpen, Fail, Finished, vars
<1>7. QED
    BY <1>2, <1>3, <1>4, <1>5, <1>6 DEF Next

-----------------------------------------------------------------------------
(* The theorems. *)

\* The inductive invariant holds: initially nothing waits, and each of its
\* groups is kept by every step given the ones before it.
THEOREM Invariance == Spec => [](TypeOK /\ IInv)
<1>1. Init => TypeOK /\ IInv
    <2> SUFFICES ASSUME Init, TypeOK
                 PROVE  IInv
        BY InitTypeOK
    <2>1. /\ pending = {} /\ queue = {} /\ phase \in {"session", "failed"}
          /\ accepted = <<>> /\ batch = <<>>
        BY DEF Init
    <2>2. QED
        BY <2>1 DEF IInv, Dated, Waiting, NextOpenOnly, Settling, OrdersSettleOnce,
                    RefusedBuysUnaffordable, OnePerEntity, GateOnePerEntity, GateCovered,
                    PendingCovered, SaleCovered, QueueCovered, AbortOnlyWhenVanished
<1>2. TypeOK /\ IInv /\ [Next]_vars => (TypeOK /\ IInv)'
    BY TypeStep, DatedStep, SettlingStep, OnePerEntityStep, CoverStep DEF IInv
<1>3. QED
    BY <1>1, <1>2, PTL DEF Spec

\* Every order that meets an open was decided at the close of the session just
\* before (engine.go, Run's stages; Order.DecidedOn).
THEOREM NextOpen == Spec => []NextOpenOnly
<1>1. IInv => NextOpenOnly
    BY DEF IInv
<1>2. QED
    BY <1>1, Invariance, PTL

\* Every order sent to the broker is in exactly one of filled, unfilled and
\* still to be applied (engine.go, the apply loop and Result.Unfilled).
THEOREM SettleOnce == Spec => []OrdersSettleOnce
<1>1. IInv => OrdersSettleOnce
    BY DEF IInv
<1>2. QED
    BY <1>1, Invariance, PTL

\* A buy refused for cash cannot be paid for with the cash the session's fills
\* leave (engine.go, the sells-first sort before Apply).
THEOREM RefusedUnaffordable == Spec => []RefusedBuysUnaffordable
<1>1. IInv => RefusedBuysUnaffordable
    BY DEF IInv
<1>2. QED
    BY <1>1, Invariance, PTL

\* A run is thrown away over a fill only when a consolidation consumed a whole
\* holding with a sale of it waiting (engine.go, Apply's errors).
THEOREM AbortsOnlyWhenVanished == Spec => []AbortOnlyWhenVanished
<1>1. IInv => AbortOnlyWhenVanished
    BY DEF IInv
<1>2. QED
    BY <1>1, Invariance, PTL

\* Cash falls below zero only by a sale that costs more than it brings in
\* (Portfolio.Apply, ErrInsufficientCash).
THEOREM CashNeverBorrowed == Spec => NoLeverage
<1>1. TypeOK /\ [Next]_vars =>
        [cash' < 0 /\ cash' < cash =>
            \E f \in queue \ queue' : f.order.side = "sell" /\ Turnover(f) < f.charges]_vars
    BY CashStep
<1>2. QED
    BY <1>1, TypeCorrect, PTL DEF Spec, NoLeverage

\* The cap on names holds up to the exits that missed an open, for any market,
\* strategy and limits (Gate.Check's working book against Paper.Execute).
THEOREM CapHolds == Spec => []CapUpToMissedExits
<1>1. Init => CapInv
    BY DEF Init, CapInv, NamesWait
<1>2. TypeOK /\ IInv /\ CapInv /\ [Next]_vars => CapInv'
    BY CapStep
<1>3. TypeOK /\ CapInv => CapUpToMissedExits
    BY AccountBounds
<1>4. QED
    BY <1>1, <1>2, <1>3, Invariance, PTL DEF Spec

\* Inside the engine the caps bind each batch as a whole, and a refused intent
\* leaves no trace (Gate.Check on the book and the batch Run hands it).
THEOREM GateSound ==
    Spec /\ []Priced => [](CapsHoldForTheBatch /\ RefusedLeavesNoTrace)
<1>1. Init => GateInv
    <2>1. Init => GateInit
        <3> SUFFICES ASSUME Init PROVE GateInit
            OBVIOUS
        <3>1. /\ book = NoBook /\ batch = <<>> /\ accepted = <<>> /\ rejected = <<>>
              /\ names = {} /\ notional = [e \in Entities |-> 0] /\ total = 0
            BY DEF Init
        <3>2. book.positions = [e \in {} |-> 0] /\ IsBook(book)
            BY <3>1 DEF NoBook, IsBook
        <3>3. \A e \in Entities : StartNotional(e) = 0
            BY <3>2 DEF StartNotional
        <3>4. StartTotal = 0
            BY <3>2, SumEmpty DEF StartTotal, SumFunction
        <3>5. CoversItsSales
            <4>1. \A e : SalesOf(e, batch) = {}
                BY <3>1 DEF SalesOf
            <4>2. QED
                BY <3>3, <4>1, SumEmpty DEF CoversItsSales
        <3>6. QED
            BY <3>1, <3>2, <3>3, <3>4, <3>5 DEF GateInit
    <2>2. QED
        BY <2>1, GateInitInv
<1>2. TypeOK /\ Priced /\ GateInv /\ [Next]_vars => GateInv'
    <2>1. TypeOK /\ Priced /\ GateInv /\ [Next]_vars => GateInv' \/ GateInit'
        BY GateEngineStep
    <2>2. GateInit' => GateInv'
        BY GateInitInv, PTL
    <2>3. QED
        BY <2>1, <2>2
<1>3. QED
    BY <1>1, <1>2, GateInvSafe, TypeCorrect, PTL DEF Spec
=============================================================================
