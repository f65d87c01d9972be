--------------------------- MODULE KeyExchangeProofs ---------------------------
(***************************************************************************)
(* For any master group, any other group and any order of the keys: the    *)
(* exchange of key shares ends in one key.                                 *)
(***************************************************************************)
EXTENDS KeyExchange, FiniteSetTheorems, TLAPS

-----------------------------------------------------------------------------
(* Sums over finite sets.                                                  *)

\* The element a fold takes next.
Pick(s) == CHOOSE x \in s : TRUE
\* g holds the sums of f over all subsets of T.
IsFold(f, g, T) ==
    g = [s \in SUBSET T |-> IF s = {} THEN 0 ELSE f[Pick(s)] + g[s \ {Pick(s)}]]

\* A leaf that names no prover is for SMT, tried again with more time when it fails.
USE SMTT(30), SMTT(40), SMTT(50)

\* The picked element is one of the set.
LEMMA PickIn == ASSUME NEW s, s # {} PROVE Pick(s) \in s
BY DEF Pick

\* A non-empty family of subsets of a finite set has a minimal member.
LEMMA SmallestSubset ==
    ASSUME NEW S, IsFiniteSet(S), NEW F, F \subseteq SUBSET S, F # {}
    PROVE  \E T \in F : \A U \in F : ~(U \subseteq T /\ U # T)
<1>1. IsWellFoundedOn(StrictSubsetOrdering(S), SUBSET S)
  BY FS_StrictSubsetOrderingWellFounded, FS_FiniteSubsetsOfFinite, Zenon
<1>2. PICK T \in F : \A U \in F : ~(<<U, T>> \in StrictSubsetOrdering(S))
  BY <1>1, WFMin
<1>3. QED
  BY <1>2, Zenon DEF StrictSubsetOrdering

\* Two folds agree where both are defined.
LEMMA FoldUnique ==
    ASSUME NEW f, NEW S, IsFiniteSet(S), NEW A \in SUBSET S, NEW B \in SUBSET S, NEW g, NEW h,
           IsFold(f, g, A), IsFold(f, h, B), NEW s, s \subseteq A, s \subseteq B
    PROVE  g[s] = h[s]
<1> DEFINE F == {t \in SUBSET S : t \subseteq A /\ t \subseteq B /\ g[t] # h[t]}
<1>1. SUFFICES ASSUME F # {} PROVE FALSE
  OBVIOUS
<1>2. PICK t \in F : \A u \in F : ~(u \subseteq t /\ u # t)
  <2>1. F \subseteq SUBSET S
    OBVIOUS
  <2> HIDE DEF F
  <2>2. QED
    BY <1>1, <2>1, SmallestSubset
<1>3. t # {}
  BY <1>2 DEF IsFold
<1>4. Pick(t) \in t
  BY <1>3, PickIn
<1> DEFINE u == t \ {Pick(t)}
<1>5. g[u] = h[u]
  BY <1>2, <1>4
<1>6. g[t] = f[Pick(t)] + g[u] /\ h[t] = f[Pick(t)] + h[u]
  BY <1>2, <1>3, Zenon DEF IsFold
<1>7. QED
  BY <1>2, <1>5, <1>6

\* There is a fold over every finite set.
LEMMA FoldExists ==
    ASSUME NEW f, NEW S, IsFiniteSet(S)
    PROVE  \E g : IsFold(f, g, S)
<1> DEFINE F == {T \in SUBSET S : ~ \E g : IsFold(f, g, T)}
<1>1. SUFFICES ASSUME F # {} PROVE FALSE
  OBVIOUS
<1>2. PICK T \in F : \A U \in F : ~(U \subseteq T /\ U # T)
  <2>1. F \subseteq SUBSET S
    OBVIOUS
  <2> HIDE DEF F
  <2>2. QED
    BY <1>1, <2>1, SmallestSubset
<1> DEFINE Some(U) == CHOOSE g : IsFold(f, g, U)
           V(U) == Some(U)[U]
           G == [s \in SUBSET T |-> IF s = {} THEN 0 ELSE f[Pick(s)] + V(s \ {Pick(s)})]
<1>3. ASSUME NEW U \in SUBSET T, U # T
      PROVE  IsFold(f, Some(U), U)
  <2>1. U \notin F /\ U \in SUBSET S
    BY <1>2, <1>3
  <2>2. \E g : IsFold(f, g, U)
    BY <2>1
  <2> HIDE DEF IsFold
  <2>3. QED
    BY <2>2
<1>4. ASSUME NEW U \in SUBSET T, U # T
      PROVE  G[U] = V(U)
  <2>1. CASE U = {}
    <3>1. IsFold(f, Some(U), U)
      BY <1>3, <1>4
    <3> HIDE DEF Some
    <3>2. Some(U)[U] = 0
      BY <3>1, <2>1 DEF IsFold
    <3>3. QED
      BY <3>2, <2>1
  <2>2. CASE U # {}
    <3> DEFINE W == U \ {Pick(U)}
    <3>1. W \in SUBSET T /\ W # T /\ W \in SUBSET U
      BY <1>4
    <3>2. IsFold(f, Some(U), U) /\ IsFold(f, Some(W), W)
      BY <3>1, <1>3, <1>4, Zenon
    <3>3. Some(U)[W] = Some(W)[W]
      <4>1. U \in SUBSET S /\ W \in SUBSET S
        BY <1>2, <1>4
      <4> HIDE DEF Some, W
      <4>2. QED
        BY <3>1, <3>2, <4>1, FoldUnique
    <3>4. Some(U)[U] = f[Pick(U)] + Some(U)[W]
      <4> HIDE DEF Some
      <4>1. QED
        BY <3>2, <2>2, Zenon DEF IsFold
    <3>5. G[U] = f[Pick(U)] + V(W)
      <4> HIDE DEF Some
      <4>1. QED
        BY <2>2
    <3>6. QED
      BY <3>3, <3>4, <3>5
  <2>3. QED
    BY <2>1, <2>2
<1>5. ASSUME NEW s \in SUBSET T, s # {}
      PROVE  G[s \ {Pick(s)}] = V(s \ {Pick(s)})
  <2>1. s \ {Pick(s)} \in SUBSET T /\ s \ {Pick(s)} # T
    BY <1>5, PickIn
  <2> HIDE DEF G, V
  <2>2. QED
    BY <2>1, <1>4
<1>6. IsFold(f, G, T)
  <2> HIDE DEF V
  <2>1. G = [s \in SUBSET T |-> IF s = {} THEN 0 ELSE f[Pick(s)] + G[s \ {Pick(s)}]]
    BY <1>5, Zenon
  <2> HIDE DEF G
  <2>2. QED
    BY <2>1, Zenon DEF IsFold
<1>7. QED
  <2> HIDE DEF G
  <2>1. QED
    BY <1>2, <1>6

\* A sum is the value of the fold.
LEMMA SumIsFold ==
    ASSUME NEW f, NEW S, IsFiniteSet(S), NEW g, IsFold(f, g, S)
    PROVE  SumFunctionOnSet(f, S) = g[S]
<1> DEFINE Rec(h) == h = [s \in SUBSET S |-> IF s = {} THEN 0
                                ELSE f[CHOOSE x \in s : TRUE] + h[s \ {CHOOSE x \in s : TRUE}]]
<1>1. SumFunctionOnSet(f, S) = (CHOOSE h : Rec(h))[S]
  BY DEF SumFunctionOnSet, FoldFunctionOnSet, MapThenFoldSet
<1> DEFINE k == CHOOSE h : Rec(h)
<1>2. Rec(k)
  <2>1. \E h : Rec(h)
    BY Zenon DEF IsFold, Pick
  <2> HIDE DEF Rec
  <2>2. QED
    BY <2>1
<1>3. IsFold(f, k, S)
  <2> HIDE DEF k
  <2>1. QED
    BY <1>2 DEF IsFold, Pick
<1>4. k[S] = g[S]
  <2> HIDE DEF k
  <2>1. QED
    BY <1>3, FoldUnique
<1>5. QED
  BY <1>1, <1>4
\* The sum over the empty set is zero.
LEMMA SumEmpty == ASSUME NEW f PROVE SumFunctionOnSet(f, {}) = 0
<1>1. PICK g : IsFold(f, g, {})
  BY FoldExists, FS_EmptySet
<1>2. SumFunctionOnSet(f, {}) = g[{}]
  BY <1>1, SumIsFold, FS_EmptySet
<1>3. g[{}] = 0
  BY <1>1 DEF IsFold
<1>4. QED
  BY <1>2, <1>3

\* The sum over a set that is not empty begins with the picked element.
LEMMA SumPick ==
    ASSUME NEW f, NEW S, IsFiniteSet(S), S # {}
    PROVE  SumFunctionOnSet(f, S) = f[Pick(S)] + SumFunctionOnSet(f, S \ {Pick(S)})
<1> SUFFICES ASSUME NEW R, R = S \ {Pick(S)}
             PROVE  SumFunctionOnSet(f, S) = f[Pick(S)] + SumFunctionOnSet(f, R)
  OBVIOUS
<1>1. IsFiniteSet(R) /\ R \in SUBSET S
  BY FS_Subset
<1>2. PICK g : IsFold(f, g, S)
  BY FoldExists
<1>3. PICK h : IsFold(f, h, R)
  BY <1>1, FoldExists
<1>4. g[R] = h[R]
  <2>1. S \in SUBSET S /\ R \in SUBSET R
    OBVIOUS
  <2>2. QED
    BY <1>1, <1>2, <1>3, <2>1, FoldUnique
<1>5. SumFunctionOnSet(f, S) = g[S] /\ SumFunctionOnSet(f, R) = h[R]
  BY <1>1, <1>2, <1>3, SumIsFold
<1>6. g[S] = f[Pick(S)] + g[R]
  BY <1>2, Zenon DEF IsFold
<1>7. QED
  BY <1>4, <1>5, <1>6

\* A sum of integers is an integer.
LEMMA SumType ==
    ASSUME NEW f, NEW S, IsFiniteSet(S), \A x \in S : f[x] \in Int
    PROVE  SumFunctionOnSet(f, S) \in Int
<1> DEFINE F == {T \in SUBSET S : SumFunctionOnSet(f, T) \notin Int}
<1>1. SUFFICES ASSUME F # {} PROVE FALSE
  OBVIOUS
<1>2. PICK T \in F : \A U \in F : ~(U \subseteq T /\ U # T)
  <2>1. F \subseteq SUBSET S
    OBVIOUS
  <2> HIDE DEF F
  <2>2. QED
    BY <1>1, <2>1, SmallestSubset
<1>3. T # {}
  <2>1. SumFunctionOnSet(f, T) \notin Int
    BY <1>2
  <2>2. SumFunctionOnSet(f, {}) \in Int
    BY SumEmpty
  <2>3. QED
    BY <2>1, <2>2
<1>4. Pick(T) \in T /\ IsFiniteSet(T) /\ T \in SUBSET S
  BY <1>2, <1>3, PickIn, FS_Subset
<1>5. SumFunctionOnSet(f, T \ {Pick(T)}) \in Int
  BY <1>2, <1>4
<1>6. SumFunctionOnSet(f, T) = f[Pick(T)] + SumFunctionOnSet(f, T \ {Pick(T)})
  BY <1>3, <1>4, SumPick
<1>7. QED
  BY <1>2, <1>4, <1>5, <1>6

\* Any element may be taken out of a sum first: the order does not matter.
LEMMA SumRemove ==
    ASSUME NEW f, NEW S, IsFiniteSet(S), \A y \in S : f[y] \in Int, NEW x \in S
    PROVE  SumFunctionOnSet(f, S) = f[x] + SumFunctionOnSet(f, S \ {x})
<1> DEFINE Bad(T) == \E y \in T : SumFunctionOnSet(f, T) # f[y] + SumFunctionOnSet(f, T \ {y})
           F == {T \in SUBSET S : Bad(T)}
<1>1. SUFFICES ASSUME F # {} PROVE FALSE
  BY Zenon
<1>2. PICK T \in F : \A U \in F : ~(U \subseteq T /\ U # T)
  <2>1. F \subseteq SUBSET S
    OBVIOUS
  <2> HIDE DEF F
  <2>2. QED
    BY <1>1, <2>1, SmallestSubset
<1>3. PICK y \in T : SumFunctionOnSet(f, T) # f[y] + SumFunctionOnSet(f, T \ {y})
  BY <1>2
<1> DEFINE p == Pick(T)
<1>4. p \in T /\ IsFiniteSet(T) /\ T \in SUBSET S /\ T # {}
  BY <1>2, <1>3, PickIn, FS_Subset
<1>5. SumFunctionOnSet(f, T) = f[p] + SumFunctionOnSet(f, T \ {p})
  BY <1>4, SumPick
<1>6. y # p
  BY <1>3, <1>5
<1>7. ~Bad(T \ {p}) /\ ~Bad(T \ {y})
  <2>1. T \ {p} \notin F /\ T \ {y} \notin F
    BY <1>2, <1>3, <1>4, Zenon
  <2>2. T \ {p} \in SUBSET S /\ T \ {y} \in SUBSET S
    BY <1>4
  <2>3. QED
    BY <2>1, <2>2, Zenon
<1>8. /\ SumFunctionOnSet(f, T \ {p}) = f[y] + SumFunctionOnSet(f, (T \ {p}) \ {y})
      /\ SumFunctionOnSet(f, T \ {y}) = f[p] + SumFunctionOnSet(f, (T \ {y}) \ {p})
  BY <1>3, <1>4, <1>6, <1>7, Zenon
<1>9. (T \ {p}) \ {y} = (T \ {y}) \ {p}
  OBVIOUS
<1>10. SumFunctionOnSet(f, (T \ {p}) \ {y}) \in Int
  <2>1. IsFiniteSet((T \ {p}) \ {y}) /\ (T \ {p}) \ {y} \subseteq S
    BY <1>4, FS_Subset
  <2>2. QED
    BY <2>1, SumType
<1>11. f[p] \in Int /\ f[y] \in Int
  BY <1>3, <1>4
<1>12. QED
  <2> DEFINE r == SumFunctionOnSet(f, (T \ {p}) \ {y})
             rp == SumFunctionOnSet(f, T \ {p})
             ry == SumFunctionOnSet(f, T \ {y})
             t == SumFunctionOnSet(f, T)
             fp == f[p]
             fy == f[y]
  <2>1. t = fp + rp /\ rp = fy + r /\ ry = fp + r /\ t # fy + ry
    BY <1>3, <1>5, <1>8, <1>9
  <2>2. r \in Int /\ fp \in Int /\ fy \in Int
    BY <1>10, <1>11
  <2> HIDE DEF r, rp, ry, t, fp, fy
  <2>3. QED
    BY <2>1, <2>2

\* An element that is not in a set is added to its sum.
LEMMA SumAdd ==
    ASSUME NEW f, NEW S, IsFiniteSet(S), NEW x, x \notin S, \A y \in S \cup {x} : f[y] \in Int
    PROVE  SumFunctionOnSet(f, S \cup {x}) = f[x] + SumFunctionOnSet(f, S)
<1>1. IsFiniteSet(S \cup {x}) /\ (S \cup {x}) \ {x} = S
  BY FS_AddElement
<1>2. SumFunctionOnSet(f, S \cup {x}) = f[x] + SumFunctionOnSet(f, (S \cup {x}) \ {x})
  BY <1>1, SumRemove
<1>3. QED
  BY <1>1, <1>2

\* A sum depends on what is summed up only.
LEMMA SumEqual ==
    ASSUME NEW f, NEW g, NEW S, IsFiniteSet(S), \A x \in S : f[x] = g[x]
    PROVE  SumFunctionOnSet(f, S) = SumFunctionOnSet(g, S)
<1> DEFINE F == {T \in SUBSET S : SumFunctionOnSet(f, T) # SumFunctionOnSet(g, T)}
<1>1. SUFFICES ASSUME F # {} PROVE FALSE
  OBVIOUS
<1>2. PICK T \in F : \A U \in F : ~(U \subseteq T /\ U # T)
  <2>1. F \subseteq SUBSET S
    OBVIOUS
  <2> HIDE DEF F
  <2>2. QED
    BY <1>1, <2>1, SmallestSubset
<1>3. T # {}
  BY <1>2, SumEmpty, Zenon
<1>4. Pick(T) \in T /\ IsFiniteSet(T) /\ T \in SUBSET S
  BY <1>2, <1>3, PickIn, FS_Subset
<1>5. SumFunctionOnSet(f, T \ {Pick(T)}) = SumFunctionOnSet(g, T \ {Pick(T)})
  BY <1>2, <1>4
<1>6. /\ SumFunctionOnSet(f, T) = f[Pick(T)] + SumFunctionOnSet(f, T \ {Pick(T)})
      /\ SumFunctionOnSet(g, T) = g[Pick(T)] + SumFunctionOnSet(g, T \ {Pick(T)})
  BY <1>3, <1>4, SumPick
<1>7. QED
  BY <1>2, <1>4, <1>5, <1>6

-----------------------------------------------------------------------------
(* Remainders.                                                             *)

\* Quotient and remainder of a number.
LEMMA DivMod ==
    ASSUME NEW a \in Int, NEW p \in Nat \ {0}
    PROVE  /\ a = p * (a \div p) + (a % p)
           /\ a \div p \in Int /\ a % p \in 0 .. p - 1
<1>1. a = p * (a \div p) + (a % p)
  OBVIOUS
<1>2. a \div p \in Int
  OBVIOUS
<1>3. a % p \in 0 .. p - 1
  OBVIOUS
<1>4. QED
  BY <1>1, <1>2, <1>3

\* Remainders that differ by a multiple are the same.
LEMMA NoMultiple ==
    ASSUME NEW p \in Nat \ {0}, NEW q \in Int, NEW r \in 0 .. p - 1, NEW s \in 0 .. p - 1,
           p * q + r = s
    PROVE  q = 0
<1>1. CASE q >= 1
  <2>1. PICK k \in Nat : q = 1 + k
    <3>1. q - 1 \in Nat /\ q = 1 + (q - 1)
      BY <1>1
    <3>2. QED
      BY <3>1
  <2>2. p * q = p + p * k
    BY <2>1
  <2>3. p * k >= 0 /\ p * k \in Int
    BY <2>1
  <2>4. QED
    BY <2>2, <2>3
<1>2. CASE q <= -1
  <2>1. PICK k \in Nat : q = -1 - k
    <3>1. -1 - q \in Nat /\ q = -1 - (-1 - q)
      BY <1>2
    <3>2. QED
      BY <3>1
  <2>2. p * q = -p - p * k
    BY <2>1
  <2>3. p * k >= 0 /\ p * k \in Int
    BY <2>1
  <2>4. QED
    BY <2>2, <2>3
<1>3. QED
  BY <1>1, <1>2

\* Numbers that differ by a multiple have the same remainder.
LEMMA ModUnique ==
    ASSUME NEW a \in Int, NEW b \in Int, NEW q \in Int, NEW p \in Nat \ {0}, a - b = p * q
    PROVE  a % p = b % p
<1> DEFINE qa == a \div p
           qb == b \div p
           ra == a % p
           rb == b % p
<1>1. /\ a = p * qa + ra /\ b = p * qb + rb
      /\ ra \in 0 .. p - 1 /\ rb \in 0 .. p - 1 /\ qa \in Int /\ qb \in Int
  BY DivMod
<1> HIDE DEF qa, qb, ra, rb
<1>2. p * qa + ra = p * qb + rb + p * q /\ p * q \in Int
  BY <1>1
<1>3. p * (qa - qb - q) + ra = rb /\ qa - qb - q \in Int
  BY <1>1, <1>2
<1>4. qa - qb - q = 0
  BY <1>1, <1>3, NoMultiple
<1>5. ra = rb
  BY <1>1, <1>3, <1>4
<1>6. QED
  BY <1>5 DEF ra, rb

\* A remainder may be taken before a number is added.
LEMMA ModPlus ==
    ASSUME NEW a \in Int, NEW b \in Int, NEW p \in Nat \ {0}
    PROVE  (b + (a % p)) % p = (b + a) % p
<1> DEFINE q == a \div p
           r == a % p
<1>1. a = p * q + r /\ q \in Int /\ r \in Int
  BY DivMod
<1> HIDE DEF q, r
<1>2. (b + a) - (b + r) = p * q /\ b + a \in Int /\ b + r \in Int
  BY <1>1
<1>3. \A x, y \in Int : x - y = p * q => x % p = y % p
  BY <1>1, ModUnique
<1>4. (b + a) % p = (b + r) % p
  BY <1>2, <1>3
<1>5. QED
  BY <1>4 DEF r

\* The sum of sums is the sum of both.
LEMMA SumPlus ==
    ASSUME NEW f, NEW g, NEW h, NEW S, IsFiniteSet(S),
           \A x \in S : f[x] \in Int /\ g[x] \in Int /\ h[x] = f[x] + g[x]
    PROVE  SumFunctionOnSet(h, S) = SumFunctionOnSet(f, S) + SumFunctionOnSet(g, S)
<1> DEFINE F == {T \in SUBSET S : SumFunctionOnSet(h, T) # SumFunctionOnSet(f, T) + SumFunctionOnSet(g, T)}
<1>1. SUFFICES ASSUME F # {} PROVE FALSE
  OBVIOUS
<1>2. PICK T \in F : \A U \in F : ~(U \subseteq T /\ U # T)
  <2>1. F \subseteq SUBSET S
    OBVIOUS
  <2> HIDE DEF F
  <2>2. QED
    BY <1>1, <2>1, SmallestSubset
<1>3. T # {}
  <2>1. SumFunctionOnSet(h, T) # SumFunctionOnSet(f, T) + SumFunctionOnSet(g, T)
    BY <1>2
  <2>2. T = {} => SumFunctionOnSet(h, T) = 0 /\ SumFunctionOnSet(f, T) = 0 /\ SumFunctionOnSet(g, T) = 0
    BY SumEmpty
  <2>3. QED
    BY <2>1, <2>2
<1>4. SUFFICES ASSUME NEW x, x = Pick(T), NEW U, U = T \ {x} PROVE FALSE
  BY Zenon
<1>5. x \in T /\ IsFiniteSet(T) /\ T \in SUBSET S
  BY <1>2, <1>3, <1>4, PickIn, FS_Subset
<1>6. IsFiniteSet(U) /\ U \in SUBSET S
  BY <1>4, <1>5, FS_Subset
<1>7. SumFunctionOnSet(h, U) = SumFunctionOnSet(f, U) + SumFunctionOnSet(g, U)
  BY <1>2, <1>4, <1>5
<1>8. /\ SumFunctionOnSet(f, T) = f[x] + SumFunctionOnSet(f, U) /\ SumFunctionOnSet(g, T) = g[x] + SumFunctionOnSet(g, U)
      /\ SumFunctionOnSet(h, T) = h[x] + SumFunctionOnSet(h, U)
  BY <1>3, <1>4, <1>5, SumPick
<1>9. SumFunctionOnSet(f, U) \in Int /\ SumFunctionOnSet(g, U) \in Int
  BY <1>6, SumType
<1>10. f[x] \in Int /\ g[x] \in Int /\ h[x] = f[x] + g[x]
  BY <1>5
<1>11. SumFunctionOnSet(h, T) = SumFunctionOnSet(f, T) + SumFunctionOnSet(g, T)
  BY <1>7, <1>8, <1>9, <1>10
<1>12. QED
  BY <1>2, <1>11

\* Remainders may be taken before or after summing up.
LEMMA SumMod ==
    ASSUME NEW f, NEW h, NEW S, IsFiniteSet(S), NEW p \in Nat \ {0},
           \A x \in S : f[x] \in Int /\ h[x] = f[x] % p
    PROVE  SumFunctionOnSet(h, S) % p = SumFunctionOnSet(f, S) % p
<1> DEFINE F == {T \in SUBSET S : SumFunctionOnSet(h, T) % p # SumFunctionOnSet(f, T) % p}
<1>1. SUFFICES ASSUME F # {} PROVE FALSE
  OBVIOUS
<1>2. PICK T \in F : \A U \in F : ~(U \subseteq T /\ U # T)
  <2>1. F \subseteq SUBSET S
    OBVIOUS
  <2> HIDE DEF F
  <2>2. QED
    BY <1>1, <2>1, SmallestSubset
<1>3. T # {}
  BY <1>2, SumEmpty, Zenon
<1>4. SUFFICES ASSUME NEW x, x = Pick(T), NEW U, U = T \ {x} PROVE FALSE
  BY Zenon
<1>5. x \in T /\ IsFiniteSet(T) /\ T \in SUBSET S
  BY <1>2, <1>3, <1>4, PickIn, FS_Subset
<1>6. IsFiniteSet(U) /\ U \in SUBSET S
  BY <1>4, <1>5, FS_Subset
<1>7. SumFunctionOnSet(h, U) % p = SumFunctionOnSet(f, U) % p
  BY <1>2, <1>4, <1>5
<1>8. SumFunctionOnSet(f, T) = f[x] + SumFunctionOnSet(f, U) /\ SumFunctionOnSet(h, T) = h[x] + SumFunctionOnSet(h, U)
  BY <1>3, <1>4, <1>5, SumPick
<1>9. \A y \in S : f[y] \in Int /\ h[y] \in Int /\ h[y] = f[y] % p
  <2>1. \A a \in Int : a % p \in Int
    BY DivMod
  <2>2. QED
    BY <2>1
<1>10. SumFunctionOnSet(f, U) \in Int /\ SumFunctionOnSet(h, U) \in Int /\ f[x] \in Int /\ h[x] = f[x] % p
  BY <1>5, <1>6, <1>9, SumType
<1>11. (h[x] + SumFunctionOnSet(h, U)) % p = (f[x] + SumFunctionOnSet(f, U)) % p
  <2>1. SUFFICES ASSUME NEW a \in Int, NEW b \in Int, NEW c \in Int, b % p = c % p
                 PROVE  ((a % p) + b) % p = (a + c) % p
    BY <1>7, <1>10
  <2>2. a % p \in Int /\ b % p \in Int
    BY DivMod
  <2>3. \A i, j \in Int : (j + (i % p)) % p = (j + i) % p
    BY ModPlus, Zenon
  <2>4. ((a % p) + (b % p)) % p = ((a % p) + b) % p
    BY <2>2, <2>3, Zenon
  <2>5. ((a % p) + (c % p)) % p = ((a % p) + c) % p
    BY <2>2, <2>3, Zenon
  <2>6. (c + (a % p)) % p = (c + a) % p
    BY <2>3, Zenon
  <2>7. c + (a % p) = (a % p) + c /\ c + a = a + c
    BY <2>2
  <2>8. QED
    BY <2>1, <2>4, <2>5, <2>6, <2>7
<1>12. QED
  BY <1>2, <1>8, <1>11

\* The sums of the rows of a table, and the table with its columns as rows.
RowSums(w, A, B) == [i \in A |-> SumFunctionOnSet(w[i], B)]
Transpose(w, A, B) == [d \in B |-> [i \in A |-> w[i][d]]]

\* The sum of a table: by rows it is the same as by columns.
LEMMA SumSwap ==
    ASSUME NEW w, NEW A, NEW B, IsFiniteSet(A), IsFiniteSet(B),
           \A i \in A, d \in B : w[i][d] \in Int
    PROVE  SumFunctionOnSet(RowSums(Transpose(w, A, B), B, A), B) = SumFunctionOnSet(RowSums(w, A, B), A)
<1> SUFFICES ASSUME NEW v, NEW row, NEW column,
                    \A i \in A, d \in B : v[d][i] = w[i][d],
                    \A i \in A : row[i] = SumFunctionOnSet(w[i], B),
                    \A d \in B : column[d] = SumFunctionOnSet(v[d], A)
             PROVE  SumFunctionOnSet(column, B) = SumFunctionOnSet(row, A)
  <2> DEFINE t == Transpose(w, A, B)
  <2>1. \A i \in A, d \in B : t[d][i] = w[i][d]
    BY DEF Transpose
  <2> HIDE DEF t
  <2>2. \A i \in A : RowSums(w, A, B)[i] = SumFunctionOnSet(w[i], B)
    BY DEF RowSums
  <2>3. \A d \in B : RowSums(t, B, A)[d] = SumFunctionOnSet(t[d], A)
    BY DEF RowSums
  <2>4. SumFunctionOnSet(RowSums(t, B, A), B) = SumFunctionOnSet(RowSums(w, A, B), A)
    BY <2>1, <2>2, <2>3
  <2>5. QED
    BY <2>4 DEF t
<1> DEFINE col(d) == v[d]
           cols(T) == [d \in B |-> SumFunctionOnSet(col(d), T)]
           F == {T \in SUBSET A : SumFunctionOnSet(cols(T), B) # SumFunctionOnSet(row, T)}
<1>1. SUFFICES ASSUME F # {} PROVE FALSE
  <2>1. SUFFICES SumFunctionOnSet(column, B) = SumFunctionOnSet(cols(A), B)
    OBVIOUS
  <2>2. \A d \in B : column[d] = cols(A)[d]
    OBVIOUS
  <2> HIDE DEF cols
  <2>3. QED
    BY <2>2, SumEqual
<1>2. PICK T \in F : \A U \in F : ~(U \subseteq T /\ U # T)
  <2>1. F \subseteq SUBSET A
    OBVIOUS
  <2> HIDE DEF F
  <2>2. QED
    BY <1>1, <2>1, SmallestSubset
<1>3. T # {}
  <2>1. \A d \in B : cols({})[d] = 0
    BY SumEmpty
  <2>2. SumFunctionOnSet(cols({}), B) = 0
    <3> DEFINE z == [d \in B |-> 0]
    <3>1. SumFunctionOnSet(cols({}), B) = SumFunctionOnSet(z, B)
      BY <2>1, SumEqual
    <3>2. SumFunctionOnSet(z, B) = SumFunctionOnSet(z, B) + SumFunctionOnSet(z, B)
      BY SumPlus
    <3>3. SumFunctionOnSet(z, B) \in Int
      BY SumType
    <3> HIDE DEF z
    <3>4. SumFunctionOnSet(z, B) = 0
      <4>1. \A n \in Int : n = n + n => n = 0
        OBVIOUS
      <4>2. QED
        BY <3>2, <3>3, <4>1, Zenon
    <3>5. QED
      BY <3>1, <3>4
  <2>3. SumFunctionOnSet(row, {}) = 0
    BY SumEmpty
  <2>4. QED
    BY <1>2, <2>2, <2>3, Zenon
<1>4. SUFFICES ASSUME NEW x, x = Pick(T), NEW U, U = T \ {x} PROVE FALSE
  BY Zenon
<1>5. x \in T /\ IsFiniteSet(T) /\ T \in SUBSET A
  BY <1>2, <1>3, <1>4, PickIn, FS_Subset
<1>6. IsFiniteSet(U) /\ U \in SUBSET A
  BY <1>4, <1>5, FS_Subset
<1>7. SumFunctionOnSet(cols(U), B) = SumFunctionOnSet(row, U)
  <2> HIDE DEF cols
  <2>1. U \notin F
    <3> HIDE DEF F
    <3>1. QED
      BY <1>2, <1>4, <1>5
  <2>2. QED
    BY <1>6, <2>1
<1>8. SumFunctionOnSet(row, T) = row[x] + SumFunctionOnSet(row, U) /\ row[x] = SumFunctionOnSet(w[x], B)
  <2>1. row[x] = SumFunctionOnSet(w[x], B)
    BY <1>5
  <2>2. QED
    BY <1>3, <1>4, <1>5, <2>1, SumPick
<1>9. \A d \in B : /\ SumFunctionOnSet(col(d), T) = w[x][d] + SumFunctionOnSet(col(d), U)
                   /\ SumFunctionOnSet(col(d), U) \in Int /\ w[x][d] \in Int
  <2> TAKE d \in B
  <2>1. col(d)[x] = w[x][d] /\ \A i \in A : col(d)[i] \in Int
    BY <1>5
  <2> HIDE DEF col
  <2>2. SumFunctionOnSet(col(d), T) = col(d)[x] + SumFunctionOnSet(col(d), U)
    BY <1>3, <1>4, <1>5, SumPick
  <2>3. SumFunctionOnSet(col(d), U) \in Int
    BY <1>6, <2>1, SumType
  <2>4. QED
    BY <1>5, <2>1, <2>2, <2>3
<1>10. SumFunctionOnSet(cols(T), B) = SumFunctionOnSet(w[x], B) + SumFunctionOnSet(cols(U), B)
  <2>1. \A d \in B : /\ w[x][d] \in Int /\ cols(U)[d] \in Int
                     /\ cols(T)[d] = w[x][d] + cols(U)[d]
    <3> HIDE DEF col
    <3>1. QED
      BY <1>9
  <2> HIDE DEF cols
  <2>2. QED
    BY <2>1, SumPlus
<1>11. QED
  <2> HIDE DEF cols
  <2>1. QED
    BY <1>2, <1>7, <1>8, <1>10

-----------------------------------------------------------------------------
(* The exchange.                                                           *)

\* The masters whose message d has handled.
Ok(d) == {i \in Masters : call[i][d] = "ok"}
\* What the masters send to member d of the other group.
Column(d) == [i \in Masters |-> share[i][d]]

\* What a member has counted and accumulated is what the masters have sent to it.
ExchangeIInv ==
    /\ TypeOK
    /\ \A i \in Masters :
          /\ master[i] = "start" => \A d \in Members : call[i][d] = "none"
          /\ master[i] # "start" => SumFunctionOnSet(share[i], Others) % P = secret[i]
          /\ master[i] = "done" => layer[i] = "completed"
    /\ \A d \in Members :
          /\ layer[d] = "inProgress" => count[d] = Cardinality(Ok(d))
          /\ d \in firing \/ layer[d] = "completed" => Ok(d) = Masters
    /\ \A d \in Masters : public[d] = SumFunctionOnSet(secret, Ok(d)) % P
    /\ \A d \in Others : secret[d] = SumFunctionOnSet(Column(d), Ok(d)) % P

\* No member is of both groups, and the constants have their types.
LEMMA GroupsApart ==
    ASSUME ExchangeAssumption
    PROVE  /\ \A d \in Others : d \notin Masters
           /\ \A d \in Masters : d \notin Others
           /\ \A i \in Masters : i \in Members /\ i # None
           /\ \A d \in Others : d \in Members
           /\ P \in Nat \ {0} /\ Z \subseteq Int /\ 0 \in Z
           /\ Cardinality(Masters) \in Nat
BY FS_CardinalityType DEF ExchangeAssumption, Members, Z

\* Accumulated values are values of the group of keys.
LEMMA AccumulateType ==
    ASSUME ExchangeAssumption, NEW a \in Z, NEW x \in Z
    PROVE  Accumulate(a, x) \in Z
<1>1. a + x \in Int /\ P \in Nat \ {0}
  BY GroupsApart DEF Z
<1>2. QED
  BY <1>1, DivMod DEF Accumulate, Z

\* The masters that were handled are finitely many.
LEMMA OkFinite ==
    ASSUME ExchangeAssumption, NEW d
    PROVE  IsFiniteSet(Ok(d)) /\ Ok(d) \subseteq Masters
<1>1. Ok(d) \in SUBSET Masters
  BY DEF Ok
<1>2. QED
  BY <1>1, FS_Subset DEF ExchangeAssumption

\* The invariant holds when the members are made.
LEMMA ExchangeInit ==
    ASSUME ExchangeAssumption
    PROVE  Init => ExchangeIInv
<1> SUFFICES ASSUME Init PROVE ExchangeIInv
  OBVIOUS
<1> USE DEF Init
<1>1. TypeOK
  BY GroupsApart DEF TypeOK, Members, Threshold
<1>2. \A d \in Members : Ok(d) = {}
  BY DEF Ok
<1>3. \A i \in Masters :
          /\ master[i] = "start" => \A d \in Members : call[i][d] = "none"
          /\ master[i] # "start" => SumFunctionOnSet(share[i], Others) % P = secret[i]
          /\ master[i] = "done" => layer[i] = "completed"
  OBVIOUS
<1>4. \A d \in Members :
          /\ layer[d] = "inProgress" => count[d] = Cardinality(Ok(d))
          /\ d \in firing \/ layer[d] = "completed" => Ok(d) = Masters
  BY <1>2, FS_EmptySet, Zenon
<1>5. 0 % P = 0
  BY GroupsApart
<1>6. \A d \in Masters : public[d] = SumFunctionOnSet(secret, Ok(d)) % P
  BY <1>2, <1>5, SumEmpty, GroupsApart, Zenon
<1>7. \A d \in Others : secret[d] = SumFunctionOnSet(Column(d), Ok(d)) % P
  BY <1>2, <1>5, SumEmpty, GroupsApart, Zenon
<1>8. QED
  BY <1>1, <1>3, <1>4, <1>6, <1>7 DEF ExchangeIInv

\* Steps after which the same messages have been handled keep what was accumulated.
LEMMA SameHandled ==
    ASSUME ExchangeAssumption, ExchangeIInv, UNCHANGED <<secret, public, share>>,
           \A d \in Members : Ok(d)' = Ok(d)
    PROVE  /\ \A d \in Masters : public'[d] = SumFunctionOnSet(secret', Ok(d)') % P
           /\ \A d \in Others : secret'[d] = SumFunctionOnSet(Column(d)', Ok(d)') % P
<1>1. \A d \in Others : Column(d)' = Column(d)
  BY DEF Column
<1>2. QED
  BY <1>1, GroupsApart DEF ExchangeIInv

\* StartKeyExchange: nothing of this master has been handled yet.
LEMMA StartStep ==
    ASSUME ExchangeAssumption, ExchangeIInv, NEW i \in Masters, StartKeyExchange(i)
    PROVE  ExchangeIInv'
<1> USE DEF StartKeyExchange
<1>1. PICK f \in AdditiveShares(secret[i]) : share' = [share EXCEPT ![i] = f]
  BY Zenon
<1>2. f \in [Others -> Z] /\ SumFunctionOnSet(f, Others) % P = secret[i]
  BY <1>1 DEF AdditiveShares
<1>3. TypeOK'
  BY <1>1, <1>2 DEF ExchangeIInv, TypeOK
<1>4. \A d \in Members : call[i][d] = "none"
  BY DEF ExchangeIInv
<1>5. \A d \in Members : Ok(d)' = Ok(d) /\ i \notin Ok(d)
  BY <1>4 DEF Ok, ExchangeIInv, TypeOK
<1>6. \A j \in Masters :
          /\ master'[j] = "start" => \A d \in Members : call'[j][d] = "none"
          /\ master'[j] # "start" => SumFunctionOnSet(share'[j], Others) % P = secret'[j]
          /\ master'[j] = "done" => layer'[j] = "completed"
  BY <1>1, <1>2 DEF ExchangeIInv, TypeOK
<1>7. \A d \in Members :
          /\ layer'[d] = "inProgress" => count'[d] = Cardinality(Ok(d)')
          /\ d \in firing' \/ layer'[d] = "completed" => Ok(d)' = Masters
  BY <1>5 DEF ExchangeIInv
<1>8. \A d \in Masters : public'[d] = SumFunctionOnSet(secret', Ok(d)') % P
  BY <1>5, GroupsApart DEF ExchangeIInv
<1>9. \A d \in Others : secret'[d] = SumFunctionOnSet(Column(d)', Ok(d)') % P
  <2> TAKE d \in Others
  <2>1. \A j \in Ok(d) : Column(d)'[j] = Column(d)[j]
    BY <1>1, <1>5, GroupsApart, OkFinite DEF Column, ExchangeIInv, TypeOK
  <2>2. SumFunctionOnSet(Column(d)', Ok(d)) = SumFunctionOnSet(Column(d), Ok(d))
    BY <2>1, OkFinite, SumEqual
  <2>3. QED
    BY <2>2, <1>5, GroupsApart DEF ExchangeIInv
<1>10. QED
  BY <1>3, <1>6, <1>7, <1>8, <1>9 DEF ExchangeIInv

\* The steps around a message that is not handled: it is lost or waits for k.mu.
LEMMA WaitStep ==
    ASSUME ExchangeAssumption, ExchangeIInv, NEW i \in Masters, NEW d \in Members,
           Lose(i, d) \/ Lock(i, d)
    PROVE  ExchangeIInv'
<1>1. PICK label \in {"lost", "locked"} : call' = [call EXCEPT ![i][d] = label]
  BY DEF Lose, Lock
<1>2. /\ call[i][d] = "sent" /\ mu' \in [Members -> Masters \cup {None}]
      /\ UNCHANGED <<secret, public, share, count, layer, firing, master, panicked>>
  <2>1. CASE Lose(i, d)
    BY <2>1 DEF Lose, ExchangeIInv, TypeOK
  <2>2. CASE Lock(i, d)
    BY <2>2 DEF Lock, ExchangeIInv, TypeOK
  <2>3. QED
    BY <2>1, <2>2, Zenon
<1>3. TypeOK'
  BY <1>1, <1>2 DEF ExchangeIInv, TypeOK
<1>4. \A e \in Members : Ok(e)' = Ok(e)
  BY <1>1, <1>2 DEF Ok, ExchangeIInv, TypeOK
<1>5. \A j \in Masters :
          /\ master'[j] = "start" => \A e \in Members : call'[j][e] = "none"
          /\ master'[j] # "start" => SumFunctionOnSet(share'[j], Others) % P = secret'[j]
          /\ master'[j] = "done" => layer'[j] = "completed"
  BY <1>1, <1>2 DEF ExchangeIInv, TypeOK
<1>6. \A e \in Members :
          /\ layer'[e] = "inProgress" => count'[e] = Cardinality(Ok(e)')
          /\ e \in firing' \/ layer'[e] = "completed" => Ok(e)' = Masters
  BY <1>2, <1>4 DEF ExchangeIInv
<1>7. QED
  BY <1>2, <1>3, <1>4, <1>5, <1>6, SameHandled, Zenon DEF ExchangeIInv

\* Trigger: the count starts again, but there is nothing left to count.
LEMMA TriggerStep ==
    ASSUME ExchangeAssumption, ExchangeIInv, NEW d \in Members, Trigger(d)
    PROVE  ExchangeIInv'
<1> USE DEF Trigger
<1>1. TypeOK'
  BY GroupsApart DEF ExchangeIInv, TypeOK, Threshold
<1>2. \A e \in Members : Ok(e)' = Ok(e)
  BY DEF Ok
<1>3. \A j \in Masters :
          /\ master'[j] = "start" => \A e \in Members : call'[j][e] = "none"
          /\ master'[j] # "start" => SumFunctionOnSet(share'[j], Others) % P = secret'[j]
          /\ master'[j] = "done" => layer'[j] = "completed"
  BY GroupsApart DEF ExchangeIInv, TypeOK
<1>4. \A e \in Members :
          /\ layer'[e] = "inProgress" => count'[e] = Cardinality(Ok(e)')
          /\ e \in firing' \/ layer'[e] = "completed" => Ok(e)' = Masters
  BY <1>2 DEF ExchangeIInv, TypeOK
<1>5. QED
  BY <1>1, <1>2, <1>3, <1>4, SameHandled DEF ExchangeIInv

\* A master goes on: with all answers, or with an error of a private share.
LEMMA MasterStep ==
    ASSUME ExchangeAssumption, ExchangeIInv, NEW i \in Masters, Sent(i) \/ Finish(i)
    PROVE  ExchangeIInv'
<1> USE DEF Sent, Finish, Completed
<1>1. TypeOK'
  BY DEF ExchangeIInv, TypeOK
<1>2. \A e \in Members : Ok(e)' = Ok(e)
  BY Zenon DEF Ok
<1>3. \A j \in Masters :
          /\ master'[j] = "start" => \A e \in Members : call'[j][e] = "none"
          /\ master'[j] # "start" => SumFunctionOnSet(share'[j], Others) % P = secret'[j]
          /\ master'[j] = "done" => layer'[j] = "completed"
  BY DEF ExchangeIInv, TypeOK
<1>4. \A e \in Members :
          /\ layer'[e] = "inProgress" => count'[e] = Cardinality(Ok(e)')
          /\ e \in firing' \/ layer'[e] = "completed" => Ok(e)' = Masters
  BY <1>2 DEF ExchangeIInv
<1>5. QED
  BY <1>1, <1>2, <1>3, <1>4, SameHandled, Zenon DEF ExchangeIInv

\* ReceiveKeyShare: the message is counted and its share accumulated once.
LEMMA ReceiveStep ==
    ASSUME ExchangeAssumption, ExchangeIInv, NEW i \in Masters, NEW d \in Members,
           ReceiveKeyShare(i, d)
    PROVE  ExchangeIInv'
<1> USE DEF ReceiveKeyShare, Done
<1>1. /\ i \notin Ok(d) /\ Ok(d)' = Ok(d) \cup {i}
      /\ \A e \in Members : e # d => Ok(e)' = Ok(e)
  BY DEF Ok, ExchangeIInv, TypeOK
<1>2. /\ count[d] = Cardinality(Ok(d)) /\ Cardinality(Ok(d)') = count[d] + 1
      /\ IsFiniteSet(Ok(d)') /\ Ok(d)' \in SUBSET Masters
  <2>1. IsFiniteSet(Ok(d)) /\ Ok(d) \subseteq Masters
    BY OkFinite
  <2>2. /\ IsFiniteSet(Ok(d) \cup {i})
        /\ Cardinality(Ok(d) \cup {i}) = Cardinality(Ok(d)) + 1
    BY <1>1, <2>1, FS_AddElement
  <2>3. count[d] = Cardinality(Ok(d))
    BY DEF ExchangeIInv
  <2>4. QED
    BY <1>1, <2>1, <2>2, <2>3
<1>3. /\ count[d] + 1 <= Threshold
      /\ count[d] + 1 = Threshold => Ok(d)' = Masters
  BY <1>2, FS_Subset DEF ExchangeAssumption, Threshold
<1>4. /\ count' = [count EXCEPT ![d] = count[d] + 1] /\ count'[d] = count[d] + 1
      /\ count[d] \in Nat
  BY GroupsApart DEF ExchangeIInv, TypeOK, Threshold
<1>5. ~panicked'
  <2>1. ~(count'[d] > Threshold)
    BY <1>3, <1>4, GroupsApart DEF Threshold
  <2>2. ~panicked
    BY DEF ExchangeIInv, TypeOK
  <2>3. QED
    BY <2>1, <2>2, Zenon
<1>6. /\ secret' \in [Members -> Z] /\ public' \in [Members -> Z]
      /\ \A j \in Masters : secret'[j] = secret[j]
  <2> i \in Members /\ secret \in [Members -> Z] /\ public \in [Members -> Z]
    BY GroupsApart DEF ExchangeIInv, TypeOK
  <2>1. CASE d \in Masters
    <3>1. Accumulate(public[d], secret[i]) \in Z
      BY AccumulateType
    <3>2. public' = [public EXCEPT ![d] = Accumulate(public[d], secret[i])] /\ secret' = secret
      BY <2>1
    <3>3. QED
      BY <3>1, <3>2
  <2>2. CASE d \notin Masters
    <3>1. share[i][d] \in Z
      BY <2>2 DEF ExchangeIInv, TypeOK, Members
    <3>2. Accumulate(secret[d], share[i][d]) \in Z
      BY <3>1, AccumulateType
    <3>3. secret' = [secret EXCEPT ![d] = Accumulate(secret[d], share[i][d])] /\ public' = public
      BY <2>2
    <3>4. QED
      BY <2>2, <3>2, <3>3, GroupsApart
  <2>3. QED
    BY <2>1, <2>2
<1>7. count' \in [Members -> 0 .. Threshold]
  BY <1>3, <1>4, GroupsApart DEF ExchangeIInv, TypeOK, Threshold
<1>8. TypeOK'
  <2>1. /\ call' \in [Masters -> [Members -> {"none", "sent", "locked", "ok", "lost"}]]
        /\ mu' \in [Members -> Masters \cup {None}] /\ firing' \subseteq Members
    BY DEF ExchangeIInv, TypeOK
  <2>2. QED
    BY <1>5, <1>6, <1>7, <2>1 DEF ExchangeIInv, TypeOK
<1>9. \A j \in Masters :
          /\ master'[j] = "start" => \A e \in Members : call'[j][e] = "none"
          /\ master'[j] # "start" => SumFunctionOnSet(share'[j], Others) % P = secret'[j]
          /\ master'[j] = "done" => layer'[j] = "completed"
  BY <1>6 DEF ExchangeIInv, TypeOK
<1>10. \A e \in Members :
          /\ layer'[e] = "inProgress" => count'[e] = Cardinality(Ok(e)')
          /\ e \in firing' \/ layer'[e] = "completed" => Ok(e)' = Masters
  <2> TAKE e \in Members
  <2>1. CASE e = d
    BY <2>1, <1>2, <1>3, <1>4 DEF ExchangeIInv, Ok
  <2>2. CASE e # d
    BY <2>2, <1>1, <1>4 DEF ExchangeIInv, TypeOK
  <2>3. QED
    BY <2>1, <2>2
<1>11. \A e \in Masters : public'[e] = SumFunctionOnSet(secret', Ok(e)') % P
  <2> TAKE e \in Masters
  <2>1. SumFunctionOnSet(secret', Ok(e)') = SumFunctionOnSet(secret, Ok(e)')
    BY <1>1, <1>2, <1>6, OkFinite, SumEqual, GroupsApart
  <2>2. CASE e = d
    <3>1. public'[e] = (public[d] + secret[i]) % P
      BY <2>2 DEF Accumulate, ExchangeIInv, TypeOK
    <3>2. SumFunctionOnSet(secret, Ok(d)') = secret[i] + SumFunctionOnSet(secret, Ok(d))
      <4>1. \A j \in Ok(d) \cup {i} : secret[j] \in Int
        BY OkFinite, GroupsApart DEF ExchangeIInv, TypeOK
      <4>2. QED
        BY <1>1, <4>1, OkFinite, SumAdd
    <3>3. public[d] = SumFunctionOnSet(secret, Ok(d)) % P
      BY <2>2 DEF ExchangeIInv
    <3>4. SumFunctionOnSet(secret, Ok(d)) \in Int /\ secret[i] \in Int /\ public[d] \in Int
      BY OkFinite, SumType, GroupsApart DEF ExchangeIInv, TypeOK
    <3>5. \A a, b \in Int : (b + (a % P)) % P = (b + a) % P
      BY ModPlus, GroupsApart
    <3>6. (secret[i] + public[d]) % P = (secret[i] + SumFunctionOnSet(secret, Ok(d))) % P
      BY <3>3, <3>4, <3>5
    <3>7. public[d] + secret[i] = secret[i] + public[d]
      BY <3>4
    <3>8. QED
      BY <2>1, <2>2, <3>1, <3>2, <3>6, <3>7
  <2>3. CASE e # d
    <3>1. public'[e] = public[e] /\ Ok(e)' = Ok(e)
      BY <1>1, <2>3, GroupsApart DEF ExchangeIInv, TypeOK
    <3>2. QED
      BY <2>1, <3>1 DEF ExchangeIInv
  <2>4. QED
    BY <2>2, <2>3
<1>12. \A e \in Others : secret'[e] = SumFunctionOnSet(Column(e)', Ok(e)') % P
  <2> TAKE e \in Others
  <2>1. Column(e)' = Column(e) /\ \A j \in Masters : Column(e)[j] \in Int
    BY GroupsApart DEF Column, ExchangeIInv, TypeOK
  <2>2. CASE e = d
    <3>1. secret'[e] = (secret[d] + Column(d)[i]) % P
      BY <2>2, GroupsApart DEF Accumulate, ExchangeIInv, TypeOK, Column
    <3>2. SumFunctionOnSet(Column(d), Ok(d)') = Column(d)[i] + SumFunctionOnSet(Column(d), Ok(d))
      BY <1>1, <2>1, <2>2, OkFinite, SumAdd
    <3>3. secret[d] = SumFunctionOnSet(Column(d), Ok(d)) % P
      BY <2>2 DEF ExchangeIInv
    <3>4. SumFunctionOnSet(Column(d), Ok(d)) \in Int /\ Column(d)[i] \in Int /\ secret[d] \in Int
      BY <2>1, <2>2, OkFinite, SumType, GroupsApart DEF ExchangeIInv, TypeOK
    <3>5. \A a, b \in Int : (b + (a % P)) % P = (b + a) % P
      BY ModPlus, GroupsApart
    <3>6. (Column(d)[i] + secret[d]) % P = (Column(d)[i] + SumFunctionOnSet(Column(d), Ok(d))) % P
      BY <3>3, <3>4, <3>5
    <3>7. secret[d] + Column(d)[i] = Column(d)[i] + secret[d]
      BY <3>4
    <3>8. QED
      BY <2>1, <2>2, <3>1, <3>2, <3>6, <3>7
  <2>3. CASE e # d
    <3>1. secret'[e] = secret[e] /\ Ok(e)' = Ok(e)
      BY <1>1, <2>3, GroupsApart DEF ExchangeIInv, TypeOK
    <3>2. QED
      BY <2>1, <3>1 DEF ExchangeIInv
  <2>4. QED
    BY <2>2, <2>3
<1>13. QED
  BY <1>8, <1>9, <1>10, <1>11, <1>12 DEF ExchangeIInv

\* Every step keeps the invariant.
LEMMA ExchangeStep ==
    ASSUME ExchangeAssumption
    PROVE  ExchangeIInv /\ [Next]_vars => ExchangeIInv'
<1> SUFFICES ASSUME ExchangeIInv, [Next]_vars PROVE ExchangeIInv'
  OBVIOUS
<1>1. CASE UNCHANGED vars
  <2>1. TypeOK'
    BY <1>1 DEF vars, ExchangeIInv, TypeOK
  <2>2. \A d \in Members : Ok(d)' = Ok(d)
    BY <1>1 DEF vars, Ok
  <2>3. QED
    BY <1>1, <2>1, <2>2, SameHandled DEF vars, ExchangeIInv
<1>2. CASE Next
  BY <1>2, StartStep, WaitStep, TriggerStep, MasterStep, ReceiveStep
     DEF Next, Step, Master, Handle
<1>3. QED
  BY <1>1, <1>2

\* What the members have accumulated is one key as soon as they are complete.
LEMMA ExchangeImplies ==
    ASSUME ExchangeAssumption, ExchangeIInv
    PROVE  SharesInv
<1>1. PublicKeyComplete
  BY GroupsApart DEF PublicKeyComplete, ExchangeIInv
<1>2. SharesAddUp
  <2> SUFFICES ASSUME \A d \in Others : layer[d] = "completed"
               PROVE  SumFunctionOnSet(secret, Others) % P = SumFunctionOnSet(secret, Masters) % P
    BY DEF SharesAddUp
  <2> DEFINE cols == [d \in Others |-> SumFunctionOnSet(Column(d), Masters)]
             rows == [i \in Masters |-> SumFunctionOnSet(share[i], Others)]
  <2>1. \A i \in Masters, d \in Others : share[i][d] \in Int
    BY GroupsApart DEF ExchangeIInv, TypeOK
  <2>2. IsFiniteSet(Masters) /\ IsFiniteSet(Others) /\ P \in Nat \ {0}
    BY GroupsApart DEF ExchangeAssumption
  <2>3. SumFunctionOnSet(cols, Others) = SumFunctionOnSet(rows, Masters)
    <3>1. cols = RowSums(Transpose(share, Masters, Others), Others, Masters)
      BY DEF RowSums, Transpose, Column
    <3>2. rows = RowSums(share, Masters, Others)
      BY DEF RowSums
    <3>3. QED
      BY <2>1, <2>2, <3>1, <3>2, SumSwap
  <2>4. \A d \in Others : cols[d] \in Int /\ secret[d] = cols[d] % P
    <3> TAKE d \in Others
    <3>1. \A i \in Masters : Column(d)[i] \in Int
      BY <2>1 DEF Column
    <3>2. SumFunctionOnSet(Column(d), Masters) \in Int
      BY <2>2, <3>1, SumType
    <3>3. Ok(d) = Masters /\ secret[d] = SumFunctionOnSet(Column(d), Ok(d)) % P
      BY GroupsApart DEF ExchangeIInv
    <3>4. QED
      BY <3>2, <3>3
  <2>5. \A i \in Masters : rows[i] \in Int /\ secret[i] = rows[i] % P
    <3> TAKE i \in Masters
    <3>1. SumFunctionOnSet(share[i], Others) \in Int
      BY <2>1, <2>2, SumType
    <3>2. PICK d \in Others : TRUE
      BY DEF ExchangeAssumption
    <3>3. i \in Ok(d)
      BY GroupsApart DEF ExchangeIInv
    <3>4. master[i] # "start"
      BY <3>3, GroupsApart DEF ExchangeIInv, Ok
    <3>5. SumFunctionOnSet(share[i], Others) % P = secret[i]
      BY <3>4 DEF ExchangeIInv
    <3>6. QED
      BY <3>1, <3>5
  <2> HIDE DEF cols, rows
  <2>6. SumFunctionOnSet(secret, Others) % P = SumFunctionOnSet(cols, Others) % P
    BY <2>2, <2>4, SumMod
  <2>7. SumFunctionOnSet(secret, Masters) % P = SumFunctionOnSet(rows, Masters) % P
    BY <2>2, <2>5, SumMod
  <2>8. QED
    BY <2>3, <2>6, <2>7
<1>3. QED
  BY <1>1, <1>2 DEF SharesInv, ExchangeIInv

\* exchangeKeys.go: for any groups and any order of the messages, with lost calls as well,
\* a complete master has the sum of all public keys, and the secrets of a complete group
\* add up to the secret that belongs to it.
THEOREM OneKey ==
    ASSUME ExchangeAssumption
    PROVE  Spec => []SharesInv
<1>1. Init => ExchangeIInv
  BY ExchangeInit
<1>2. ExchangeIInv /\ [Next]_vars => ExchangeIInv'
  BY ExchangeStep
<1>3. ExchangeIInv => SharesInv
  BY ExchangeImplies
<1>4. QED
  BY <1>1, <1>2, <1>3, PTL DEF Spec
===============================================================================
