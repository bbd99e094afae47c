---------------------------- MODULE SumTheorems ----------------------------
(***************************************************************************)
(* Sums over finite sets.  SumFunctionOnSet, which the quantities of the   *)
(* components are added up with, is a fold that takes an arbitrary element *)
(* at a time; the lemmas here make it the sum one expects, whatever the    *)
(* order.  Induction over the subsets of a finite set is first order here: *)
(* the strict subset ordering is well founded, so a property that fails    *)
(* for some subset fails for a smallest one.                               *)
(***************************************************************************)
EXTENDS FiniteSetsExt, FiniteSetTheorems, TLAPS

(* The element a fold takes next. *)
Chosen(t) == CHOOSE x \in t : TRUE

(* g is a table of the sums of f over the subsets of S. *)
IsSum(f, S, g) ==
    g = [t \in SUBSET S |-> IF t = {} THEN 0 ELSE f[Chosen(t)] + g[t \ {Chosen(t)}]]

(* The library's fold, with its definitions expanded. *)
LEMMA SumDef ==
    ASSUME NEW f, NEW S
    PROVE  SumFunctionOnSet(f, S) = (CHOOSE g : IsSum(f, S, g))[S]
  BY DEF SumFunctionOnSet, FoldFunctionOnSet, MapThenFoldSet, IsSum, Chosen

(* A non-empty set has the element that is taken from it. *)
LEMMA ChosenIn ==
    ASSUME NEW t, t # {}
    PROVE  Chosen(t) \in t
  BY DEF Chosen

(* A non-empty set of subsets of a finite set has a smallest member. *)
LEMMA MinimalSubset ==
    ASSUME NEW S, IsFiniteSet(S), NEW T \in SUBSET (SUBSET S), T # {}
    PROVE  \E m \in T : \A u \in T : u \subseteq m => u = m
  <1>1. IsWellFoundedOn(StrictSubsetOrdering(S), SUBSET S)
    BY FS_StrictSubsetOrderingWellFounded, FS_FiniteSubsetsOfFinite
  <1>2. PICK m \in T : \A u \in T : ~ (<<u, m>> \in StrictSubsetOrdering(S))
    <2> HIDE DEF StrictSubsetOrdering
    <2>1. T \subseteq SUBSET S
      OBVIOUS
    <2>2. QED
      BY <1>1, <2>1, WFMin
  <1>3. QED
    BY <1>2 DEF StrictSubsetOrdering

(* Two functions that compute sums agree where both are defined. *)
LEMMA SumUnique ==
    ASSUME NEW f, NEW S, IsFiniteSet(S), NEW T \in SUBSET S, NEW g, NEW h,
           IsSum(f, S, g), IsSum(f, T, h)
    PROVE  \A t \in SUBSET T : g[t] = h[t]
  <1> DEFINE Differ == {t \in SUBSET T : g[t] # h[t]}
  <1>1. SUFFICES ASSUME Differ # {} PROVE FALSE
    OBVIOUS
  <1>2. PICK m \in Differ : \A u \in Differ : u \subseteq m => u = m
    <2>1. Differ \in SUBSET (SUBSET S)
      OBVIOUS
    <2> HIDE DEF Differ
    <2>2. QED
      BY <1>1, <2>1, MinimalSubset
  <1>3. g[m] = IF m = {} THEN 0 ELSE f[Chosen(m)] + g[m \ {Chosen(m)}]
    BY DEF IsSum
  <1>4. h[m] = IF m = {} THEN 0 ELSE f[Chosen(m)] + h[m \ {Chosen(m)}]
    BY DEF IsSum
  <1>5. m # {}
    BY <1>3, <1>4
  <1>6. m \ {Chosen(m)} \in SUBSET T /\ m \ {Chosen(m)} \subseteq m /\ m \ {Chosen(m)} # m
    BY <1>5, ChosenIn
  <1>7. g[m \ {Chosen(m)}] = h[m \ {Chosen(m)}]
    BY <1>6, <1>2
  <1>8. QED
    BY <1>2, <1>3, <1>4, <1>5, <1>7

(* The table the fold is defined by. *)
TheSum(f, S) == CHOOSE g : IsSum(f, S, g)

(* Such a function exists for every finite set. *)
LEMMA SumExists ==
    ASSUME NEW f, NEW S, IsFiniteSet(S)
    PROVE  IsSum(f, S, TheSum(f, S))
  <1> DEFINE Bad == {T \in SUBSET S : ~IsSum(f, T, TheSum(f, T))}
  <1>1. SUFFICES ASSUME Bad # {} PROVE FALSE
    OBVIOUS
  <1>2. PICK m \in Bad : \A u \in Bad : u \subseteq m => u = m
    <2>1. Bad \in SUBSET (SUBSET S)
      OBVIOUS
    <2> HIDE DEF Bad
    <2>2. QED
      BY <1>1, <2>1, MinimalSubset
  <1>3. \A u \in SUBSET m : u # m => IsSum(f, u, TheSum(f, u))
    BY <1>2
  <1> DEFINE G == [t \in SUBSET m |-> IF t = {} THEN 0
                     ELSE f[Chosen(t)] + TheSum(f, t \ {Chosen(t)})[t \ {Chosen(t)}]]
  <1>4. ASSUME NEW t \in SUBSET m, t # {}
        PROVE  G[t \ {Chosen(t)}] = TheSum(f, t \ {Chosen(t)})[t \ {Chosen(t)}]
    <2> DEFINE u == t \ {Chosen(t)}
    <2>1. u \in SUBSET m /\ u # m /\ u \in SUBSET S
      BY <1>4, ChosenIn
    <2>2. IsSum(f, u, TheSum(f, u)) /\ IsFiniteSet(u)
      BY <2>1, <1>3, FS_Subset
    <2>3. TheSum(f, u)[u] = IF u = {} THEN 0 ELSE f[Chosen(u)] + TheSum(f, u)[u \ {Chosen(u)}]
      BY <2>2 DEF IsSum
    <2>4. CASE u = {}
      BY <2>1, <2>3, <2>4
    <2>5. CASE u # {}
      <3> DEFINE v == u \ {Chosen(u)}
      <3>1. v \in SUBSET u /\ v \in SUBSET m /\ v # m
        BY <2>1, <2>5, ChosenIn
      <3>2. IsSum(f, v, TheSum(f, v))
        BY <3>1, <1>3
      <3>3. TheSum(f, u)[v] = TheSum(f, v)[v]
        <4> HIDE DEF u, v
        <4>1. v \in SUBSET v
          OBVIOUS
        <4>2. QED
        BY <4>1, <2>2, <3>1, <3>2, SumUnique
      <3>4. G[u] = f[Chosen(u)] + TheSum(f, v)[v]
        <4> HIDE DEF u
        <4>1. QED
        BY <2>1, <2>5
      <3>5. QED
        BY <3>3, <3>4, <2>3, <2>5
    <2>6. QED
      BY <2>4, <2>5
  <1>5. IsSum(f, m, G)
    <2>1. \A t \in SUBSET m :
             (IF t = {} THEN 0 ELSE f[Chosen(t)] + TheSum(f, t \ {Chosen(t)})[t \ {Chosen(t)}])
             = (IF t = {} THEN 0 ELSE f[Chosen(t)] + G[t \ {Chosen(t)}])
      <3> HIDE DEF G
      <3>1. QED
        BY <1>4
    <2> DEFINE A(t) == IF t = {} THEN 0 ELSE f[Chosen(t)] + TheSum(f, t \ {Chosen(t)})[t \ {Chosen(t)}]
               B(t) == IF t = {} THEN 0 ELSE f[Chosen(t)] + G[t \ {Chosen(t)}]
    <2>2. G = [t \in SUBSET m |-> A(t)]
      OBVIOUS
    <2>3. \A t \in SUBSET m : A(t) = B(t)
      BY <2>1
    <2>4. G = [t \in SUBSET m |-> B(t)]
      <3> HIDE DEF A, B, G
      <3>1. QED
        BY <2>2, <2>3
    <2>5. QED
      <3> HIDE DEF G
      <3>1. QED
      BY <2>4 DEF IsSum
  <1>6. IsSum(f, m, TheSum(f, m))
    <2> HIDE DEF G
    <2>1. QED
      BY <1>5 DEF TheSum
  <1>7. QED
    BY <1>2, <1>6

(* Induction over a finite set, for a property given as a set of subsets. *)
LEMMA SubsetInduction ==
    ASSUME NEW S, IsFiniteSet(S), NEW Good,
           \A T \in SUBSET S : (\A x \in T : T \ {x} \in Good) => T \in Good
    PROVE  \A T \in SUBSET S : T \in Good
  <1> DEFINE Bad == {T \in SUBSET S : T \notin Good}
  <1>1. SUFFICES ASSUME Bad # {} PROVE FALSE
    OBVIOUS
  <1>2. PICK m \in Bad : \A u \in Bad : u \subseteq m => u = m
    <2>1. Bad \in SUBSET (SUBSET S)
      OBVIOUS
    <2> HIDE DEF Bad
    <2>2. QED
      BY <1>1, <2>1, MinimalSubset
  <1>3. \A x \in m : m \ {x} \in SUBSET S /\ m \ {x} \subseteq m /\ m \ {x} # m
    OBVIOUS
  <1>4. \A x \in m : m \ {x} \in Good
    BY <1>2, <1>3
  <1>5. QED
    BY <1>2, <1>4

-----------------------------------------------------------------------------

(* The sum of nothing. *)
LEMMA SumEmpty ==
    ASSUME NEW f
    PROVE  SumFunctionOnSet(f, {}) = 0
  <1>1. IsSum(f, {}, TheSum(f, {})) 
    BY SumExists, FS_EmptySet
  <1>2. TheSum(f, {})[{}] = 0
    BY <1>1 DEF IsSum
  <1>3. QED
    BY <1>2, SumDef DEF TheSum

(* A sum is the element the fold takes first and the sum of the others. *)
LEMMA SumStep ==
    ASSUME NEW f, NEW S, IsFiniteSet(S), S # {}
    PROVE  SumFunctionOnSet(f, S) =
             f[Chosen(S)] + SumFunctionOnSet(f, S \ {Chosen(S)})
  <1> DEFINE u == S \ {Chosen(S)}
  <1>1. u \in SUBSET S /\ IsFiniteSet(u)
    BY FS_Subset
  <1>2. IsSum(f, S, TheSum(f, S)) /\ IsSum(f, u, TheSum(f, u))
    BY <1>1, SumExists
  <1>3. TheSum(f, S)[S] = f[Chosen(S)] + TheSum(f, S)[u]
    BY <1>2 DEF IsSum
  <1>4. TheSum(f, S)[u] = TheSum(f, u)[u]
    <2> HIDE DEF u
    <2>1. u \in SUBSET u
      OBVIOUS
    <2>2. QED
      BY <1>1, <1>2, <2>1, SumUnique
  <1>5. SumFunctionOnSet(f, S) = TheSum(f, S)[S] /\ SumFunctionOnSet(f, u) = TheSum(f, u)[u]
    BY SumDef DEF TheSum
  <1>6. QED
    BY <1>3, <1>4, <1>5

(* Sums of integers are integers. *)
LEMMA SumType ==
    ASSUME NEW S, IsFiniteSet(S), NEW f, \A x \in S : f[x] \in Int
    PROVE  \A T \in SUBSET S : SumFunctionOnSet(f, T) \in Int
  <1> DEFINE Good == {T \in SUBSET S : SumFunctionOnSet(f, T) \in Int}
  <1>1. ASSUME NEW T \in SUBSET S, \A x \in T : T \ {x} \in Good
        PROVE  T \in Good
    <2>1. CASE T = {}
      BY <2>1, SumEmpty
    <2>2. CASE T # {}
      <3>1. SumFunctionOnSet(f, T) = f[Chosen(T)] + SumFunctionOnSet(f, T \ {Chosen(T)})
        BY <2>2, SumStep, FS_Subset
      <3>2. Chosen(T) \in T
        BY <2>2, ChosenIn
      <3>3. f[Chosen(T)] \in Int /\ SumFunctionOnSet(f, T \ {Chosen(T)}) \in Int
        BY <1>1, <3>2
      <3>4. QED
        BY <3>1, <3>3
    <2>3. QED
      BY <2>1, <2>2
  <1>2. \A T \in SUBSET S : T \in Good
    <2> HIDE DEF Good
    <2>1. QED
      BY <1>1, SubsetInduction
  <1>3. QED
    BY <1>2

(* Any element can be taken first: the order does not matter. *)
LEMMA SumRemove ==
    ASSUME NEW S, IsFiniteSet(S), NEW f, \A y \in S : f[y] \in Int, NEW x \in S
    PROVE  SumFunctionOnSet(f, S) = f[x] + SumFunctionOnSet(f, S \ {x})
  <1> DEFINE Good == {T \in SUBSET S : \A y \in T :
                        SumFunctionOnSet(f, T) = f[y] + SumFunctionOnSet(f, T \ {y})}
  <1>1. ASSUME NEW T \in SUBSET S, \A y \in T : T \ {y} \in Good
        PROVE  T \in Good
    <2> SUFFICES ASSUME NEW y \in T
                 PROVE  SumFunctionOnSet(f, T) = f[y] + SumFunctionOnSet(f, T \ {y})
      OBVIOUS
    <2> DEFINE c == Chosen(T)
    <2>1. c \in T
      BY ChosenIn
    <2>2. SumFunctionOnSet(f, T) = f[c] + SumFunctionOnSet(f, T \ {c})
      BY SumStep, FS_Subset
    <2> HIDE DEF c
    <2>3. CASE y = c
      BY <2>2, <2>3
    <2>4. CASE y # c
      <3>1. SumFunctionOnSet(f, T \ {c}) = f[y] + SumFunctionOnSet(f, (T \ {c}) \ {y})
        BY <1>1, <2>1, <2>4
      <3>2. SumFunctionOnSet(f, T \ {y}) = f[c] + SumFunctionOnSet(f, (T \ {y}) \ {c})
        BY <1>1, <2>1, <2>4
      <3>3. (T \ {c}) \ {y} = (T \ {y}) \ {c}
        OBVIOUS
      <3>4. f[c] \in Int /\ f[y] \in Int /\ SumFunctionOnSet(f, (T \ {c}) \ {y}) \in Int
        <4>1. (T \ {c}) \ {y} \in SUBSET S
          OBVIOUS
        <4>2. QED
          BY <2>1, <4>1, SumType
      <3> DEFINE rest == SumFunctionOnSet(f, (T \ {c}) \ {y})
      <3>5. /\ SumFunctionOnSet(f, T) = f[c] + (f[y] + rest)
            /\ SumFunctionOnSet(f, T \ {y}) = f[c] + rest
        BY <2>2, <3>1, <3>2, <3>3
      <3> HIDE DEF rest
      <3>6. f[c] \in Int /\ f[y] \in Int /\ rest \in Int
        BY <3>4 DEF rest
      <3>7. QED
        BY <3>5, <3>6
    <2>5. QED
      BY <2>3, <2>4
  <1>2. \A T \in SUBSET S : T \in Good
    <2> HIDE DEF Good
    <2>1. QED
      BY <1>1, SubsetInduction
  <1>3. QED
    BY <1>2

(* Sums of functions that are at most as large everywhere. *)
LEMMA SumMonotone ==
    ASSUME NEW S, IsFiniteSet(S), NEW f, NEW g,
           \A x \in S : f[x] \in Int /\ g[x] \in Int /\ f[x] <= g[x]
    PROVE  /\ SumFunctionOnSet(f, S) <= SumFunctionOnSet(g, S)
           /\ SumFunctionOnSet(f, S) >= SumFunctionOnSet(g, S) => \A x \in S : f[x] = g[x]
  <1> DEFINE Good == {T \in SUBSET S :
         /\ SumFunctionOnSet(f, T) <= SumFunctionOnSet(g, T)
         /\ SumFunctionOnSet(f, T) >= SumFunctionOnSet(g, T) => \A x \in T : f[x] = g[x]}
  <1>1. ASSUME NEW T \in SUBSET S, \A y \in T : T \ {y} \in Good
        PROVE  T \in Good
    <2>1. CASE T = {}
      BY <2>1, SumEmpty
    <2>2. CASE T # {}
      <3> DEFINE c == Chosen(T)  u == T \ {c}
      <3>1. c \in T /\ u \in Good /\ u \in SUBSET S /\ T = u \union {c}
        BY <2>2, ChosenIn, <1>1
      <3>2. /\ SumFunctionOnSet(f, T) = f[c] + SumFunctionOnSet(f, u)
            /\ SumFunctionOnSet(g, T) = g[c] + SumFunctionOnSet(g, u)
        BY <2>2, SumStep, FS_Subset
      <3> HIDE DEF c, u
      <3>3. SumFunctionOnSet(f, u) \in Int /\ SumFunctionOnSet(g, u) \in Int
        BY <3>1, SumType
      <3>4. /\ SumFunctionOnSet(f, u) <= SumFunctionOnSet(g, u)
            /\ SumFunctionOnSet(f, u) >= SumFunctionOnSet(g, u) => \A x \in u : f[x] = g[x]
            /\ f[c] \in Int /\ g[c] \in Int /\ f[c] <= g[c]
        BY <3>1
      <3>5. SumFunctionOnSet(f, T) <= SumFunctionOnSet(g, T)
        BY <3>2, <3>3, <3>4
      <3>6. ASSUME SumFunctionOnSet(f, T) >= SumFunctionOnSet(g, T)
            PROVE  \A x \in T : f[x] = g[x]
        <4>1. f[c] = g[c] /\ SumFunctionOnSet(f, u) >= SumFunctionOnSet(g, u)
          BY <3>2, <3>3, <3>4, <3>6
        <4>2. QED
          BY <4>1, <3>1, <3>4
      <3>7. QED
        BY <3>5, <3>6
    <2>3. QED
      BY <2>1, <2>2
  <1>2. \A T \in SUBSET S : T \in Good
    <2> HIDE DEF Good
    <2>1. QED
      BY <1>1, SubsetInduction
  <1>3. QED
    BY <1>2

(* Equal functions have equal sums. *)
LEMMA SumEqual ==
    ASSUME NEW S, IsFiniteSet(S), NEW f, NEW g, \A x \in S : f[x] \in Int /\ f[x] = g[x]
    PROVE  SumFunctionOnSet(f, S) = SumFunctionOnSet(g, S)
  <1>1. SumFunctionOnSet(f, S) <= SumFunctionOnSet(g, S)
    BY SumMonotone
  <1>2. SumFunctionOnSet(g, S) <= SumFunctionOnSet(f, S)
    BY SumMonotone
  <1>3. SumFunctionOnSet(g, S) \in Int /\ SumFunctionOnSet(f, S) \in Int
    BY SumType
  <1>4. QED
    BY <1>1, <1>2, <1>3

(* A change of one entry changes the sum by as much. *)
LEMMA SumUpdate ==
    ASSUME NEW S, IsFiniteSet(S), NEW f, NEW g, NEW x \in S,
           \A y \in S : f[y] \in Int /\ g[y] \in Int,
           \A y \in S \ {x} : g[y] = f[y]
    PROVE  SumFunctionOnSet(g, S) = SumFunctionOnSet(f, S) + (g[x] - f[x])
  <1>1. /\ SumFunctionOnSet(f, S) = f[x] + SumFunctionOnSet(f, S \ {x})
        /\ SumFunctionOnSet(g, S) = g[x] + SumFunctionOnSet(g, S \ {x})
    BY SumRemove
  <1>2. SumFunctionOnSet(f, S \ {x}) = SumFunctionOnSet(g, S \ {x})
    <2>1. IsFiniteSet(S \ {x})
      BY FS_Subset
    <2>2. QED
      BY <2>1, SumEqual
  <1>3. SumFunctionOnSet(f, S \ {x}) \in Int
    BY SumType
  <1>4. QED
    BY <1>1, <1>2, <1>3

(* Sums of natural numbers. *)
LEMMA SumNat ==
    ASSUME NEW S, IsFiniteSet(S), NEW f, \A x \in S : f[x] \in Nat
    PROVE  /\ SumFunctionOnSet(f, S) \in Nat
           /\ \A x \in S : f[x] <= SumFunctionOnSet(f, S)
           /\ SumFunctionOnSet(f, S) = 0 => \A x \in S : f[x] = 0
  <1> DEFINE Good == {T \in SUBSET S : SumFunctionOnSet(f, T) \in Nat}
  <1>1. ASSUME NEW T \in SUBSET S, \A x \in T : T \ {x} \in Good
        PROVE  T \in Good
    <2>1. CASE T = {}
      BY <2>1, SumEmpty
    <2>2. CASE T # {}
      <3>1. SumFunctionOnSet(f, T) = f[Chosen(T)] + SumFunctionOnSet(f, T \ {Chosen(T)})
        BY <2>2, SumStep, FS_Subset
      <3>2. Chosen(T) \in T
        BY <2>2, ChosenIn
      <3>3. f[Chosen(T)] \in Nat /\ SumFunctionOnSet(f, T \ {Chosen(T)}) \in Nat
        BY <1>1, <3>2
      <3>4. QED
        BY <3>1, <3>3
    <2>3. QED
      BY <2>1, <2>2
  <1>2. \A T \in SUBSET S : T \in Good
    <2> HIDE DEF Good
    <2>1. QED
      BY <1>1, SubsetInduction
  <1>3. ASSUME NEW x \in S
        PROVE  f[x] <= SumFunctionOnSet(f, S)
    <2>1. SumFunctionOnSet(f, S) = f[x] + SumFunctionOnSet(f, S \ {x})
      BY SumRemove
    <2>2. SumFunctionOnSet(f, S \ {x}) \in Nat
      BY <1>2
    <2>3. QED
      BY <2>1, <2>2
  <1>4. SumFunctionOnSet(f, S) \in Nat
    BY <1>2
  <1>5. QED
    BY <1>3, <1>4

(* Sums of entries add up entry by entry. *)
LEMMA SumAdd ==
    ASSUME NEW S, IsFiniteSet(S), NEW f, NEW g, NEW h,
           \A x \in S : f[x] \in Int /\ g[x] \in Int /\ h[x] = f[x] + g[x]
    PROVE  SumFunctionOnSet(h, S) = SumFunctionOnSet(f, S) + SumFunctionOnSet(g, S)
  <1> DEFINE Good == {T \in SUBSET S :
           SumFunctionOnSet(h, T) = SumFunctionOnSet(f, T) + SumFunctionOnSet(g, T)}
  <1>1. ASSUME NEW T \in SUBSET S, \A y \in T : T \ {y} \in Good
        PROVE  T \in Good
    <2>1. CASE T = {}
      BY <2>1, SumEmpty
    <2>2. CASE T # {}
      <3> DEFINE c == Chosen(T)  u == T \ {c}
      <3>1. c \in T /\ u \in Good /\ u \in SUBSET S
        BY <2>2, ChosenIn, <1>1
      <3>2. /\ SumFunctionOnSet(f, T) = f[c] + SumFunctionOnSet(f, u)
            /\ SumFunctionOnSet(g, T) = g[c] + SumFunctionOnSet(g, u)
            /\ SumFunctionOnSet(h, T) = h[c] + SumFunctionOnSet(h, u)
        BY <2>2, SumStep, FS_Subset
      <3> HIDE DEF c, u
      <3>3. SumFunctionOnSet(f, u) \in Int /\ SumFunctionOnSet(g, u) \in Int
        BY <3>1, SumType
      <3>4. /\ SumFunctionOnSet(h, u) = SumFunctionOnSet(f, u) + SumFunctionOnSet(g, u)
            /\ f[c] \in Int /\ g[c] \in Int /\ h[c] = f[c] + g[c]
        BY <3>1
      <3>5. QED
        BY <3>2, <3>3, <3>4
    <2>3. QED
      BY <2>1, <2>2
  <1>2. \A T \in SUBSET S : T \in Good
    <2> HIDE DEF Good
    <2>1. QED
      BY <1>1, SubsetInduction
  <1>3. QED
    BY <1>2

(* The sum of nothing but zeros is zero. *)
LEMMA SumAllZero ==
    ASSUME NEW S, IsFiniteSet(S), NEW f, \A x \in S : f[x] = 0
    PROVE  SumFunctionOnSet(f, S) = 0
  <1> DEFINE Good == {T \in SUBSET S : SumFunctionOnSet(f, T) = 0}
  <1>1. ASSUME NEW T \in SUBSET S, \A x \in T : T \ {x} \in Good
        PROVE  T \in Good
    <2>1. CASE T = {}
      BY <2>1, SumEmpty
    <2>2. CASE T # {}
      <3>1. SumFunctionOnSet(f, T) = f[Chosen(T)] + SumFunctionOnSet(f, T \ {Chosen(T)})
        BY <2>2, SumStep, FS_Subset
      <3>2. Chosen(T) \in T
        BY <2>2, ChosenIn
      <3>3. f[Chosen(T)] = 0 /\ SumFunctionOnSet(f, T \ {Chosen(T)}) = 0
        BY <1>1, <3>2
      <3>4. QED
        BY <3>1, <3>3
    <2>3. QED
      BY <2>1, <2>2
  <1> HIDE DEF Good
  <1>2. \A T \in SUBSET S : T \in Good
    BY <1>1, SubsetInduction
  <1>3. S \in Good
    BY <1>2
  <1>4. QED
    BY <1>3 DEF Good

(* A non-empty finite set of integers has a greatest element, which Max    *)
(* names.                                                                  *)
LEMMA MaxIn ==
    ASSUME NEW S, IsFiniteSet(S), S \subseteq Int, S # {}
    PROVE  Max(S) \in S /\ \A y \in S : Max(S) >= y
  <1> DEFINE Good == {T \in SUBSET S : T = {} \/ \E x \in T : \A y \in T : x >= y}
  <1>1. ASSUME NEW T \in SUBSET S, \A x \in T : T \ {x} \in Good
        PROVE  T \in Good
    <2> SUFFICES ASSUME T # {} PROVE \E x \in T : \A y \in T : x >= y
      OBVIOUS
    <2>1. PICK a \in T : TRUE
      OBVIOUS
    <2>2. T \ {a} \in Good
      BY <1>1
    <2>3. CASE T \ {a} = {}
      BY <2>3
    <2>4. CASE T \ {a} # {}
      <3>1. PICK b \in T \ {a} : \A y \in T \ {a} : b >= y
        BY <2>2, <2>4
      <3>2. a \in Int /\ b \in Int /\ \A y \in T : y \in Int
        OBVIOUS
      <3>3. CASE a >= b
        <4>1. \A y \in T : a >= y
          BY <3>1, <3>2, <3>3
        <4>2. QED
          BY <4>1
      <3>4. CASE ~(a >= b)
        <4>1. \A y \in T : b >= y
          BY <3>1, <3>2, <3>4
        <4>2. QED
          BY <4>1
      <3>5. QED
        BY <3>3, <3>4
    <2>5. QED
      BY <2>3, <2>4
  <1> HIDE DEF Good
  <1>2. \A T \in SUBSET S : T \in Good
    BY <1>1, SubsetInduction
  <1>3. S \in Good
    BY <1>2
  <1>4. \E x \in S : \A y \in S : x >= y
    BY <1>3 DEF Good
  <1>5. QED
    BY <1>4 DEF Max

(* A sum with at most one entry that is not zero. *)
LEMMA SumSingle ==
    ASSUME NEW S, IsFiniteSet(S), NEW f, NEW x \in S, f[x] \in Int,
           \A y \in S \ {x} : f[y] = 0
    PROVE  SumFunctionOnSet(f, S) = f[x]
  <1>1. \A y \in S : f[y] \in Int
    OBVIOUS
  <1>2. SumFunctionOnSet(f, S) = f[x] + SumFunctionOnSet(f, S \ {x})
    BY <1>1, SumRemove
  <1>3. SumFunctionOnSet(f, S \ {x}) = 0
    <2>1. IsFiniteSet(S \ {x})
      BY FS_Subset
    <2>2. QED
      BY <2>1, SumAllZero
  <1>4. QED
    BY <1>2, <1>3

(* A sum over a longer interval adds the last entry. *)
LEMMA SumUpTo ==
    ASSUME NEW n \in Nat, NEW f, NEW g,
           \A i \in 1..n+1 : g[i] \in Int, \A i \in 1..n : f[i] = g[i]
    PROVE  SumFunctionOnSet(g, 1..n+1) = SumFunctionOnSet(f, 1..n) + g[n+1]
  <1>1. IsFiniteSet(1..n+1) /\ IsFiniteSet(1..n)
    BY FS_Interval
  <1>2. SumFunctionOnSet(g, 1..n+1) = g[n+1] + SumFunctionOnSet(g, (1..n+1) \ {n+1})
    BY <1>1, SumRemove
  <1>3. (1..n+1) \ {n+1} = 1..n
    OBVIOUS
  <1>4. SumFunctionOnSet(f, 1..n) = SumFunctionOnSet(g, 1..n)
    <2>1. \A i \in 1..n : f[i] \in Int /\ f[i] = g[i]
      OBVIOUS
    <2>2. QED
      BY <1>1, <2>1, SumEqual
  <1>5. SumFunctionOnSet(g, 1..n) \in Int
    <2>1. \A i \in 1..n : g[i] \in Int
      OBVIOUS
    <2>2. QED
      BY <1>1, <2>1, SumType
  <1> DEFINE last == g[n+1]
             sum == SumFunctionOnSet(f, 1..n)
  <1>6. /\ last \in Int /\ sum \in Int
        /\ SumFunctionOnSet(g, 1..n+1) = last + sum
    <2>1. sum \in Int
      BY <1>4, <1>5
    <2>2. SumFunctionOnSet(g, 1..n+1) = last + sum
      BY <1>2, <1>3, <1>4
    <2>3. QED
      BY <2>1, <2>2
  <1>7. SumFunctionOnSet(g, 1..n+1) = sum + last
    <2> HIDE DEF last, sum
    <2>1. QED
      BY <1>6
  <1>8. QED
    BY <1>7

(* The sum of the row sums of a table is the sum of its column sums. *)
LEMMA SumSwap ==
    ASSUME NEW S, IsFiniteSet(S), NEW I, IsFiniteSet(I), NEW F,
           \A x \in S, i \in I : F[x][i] \in Int
    PROVE  SumFunctionOnSet([x \in S |-> SumFunctionOnSet(F[x], I)], S)
             = SumFunctionOnSet([i \in I |-> SumFunctionOnSet([x \in S |-> F[x][i]], S)], I)
  <1> DEFINE RowSum == [x \in S |-> SumFunctionOnSet(F[x], I)]
             Column == [i \in I |-> [x \in S |-> F[x][i]]]
             Columns(T) == [i \in I |-> SumFunctionOnSet(Column[i], T)]
             Good == {T \in SUBSET S :
                        SumFunctionOnSet(RowSum, T) = SumFunctionOnSet(Columns(T), I)}
  <1>1. ASSUME NEW T \in SUBSET S, \A y \in T : T \ {y} \in Good
        PROVE  T \in Good
    <2>1. CASE T = {}
      <3>1. \A i \in I : Columns(T)[i] = 0
        BY <2>1, SumEmpty
      <3>2. SumFunctionOnSet(Columns(T), I) = 0
        <4> HIDE DEF Columns
        <4>1. QED
          BY <3>1, SumAllZero
      <3>3. QED
        BY <2>1, <3>2, SumEmpty
    <2>2. CASE T # {}
      <3> DEFINE c == Chosen(T)  u == T \ {c}
      <3>1. c \in T /\ u \in Good /\ u \in SUBSET S
        BY <2>2, ChosenIn, <1>1
      <3>2. SumFunctionOnSet(RowSum, T) = RowSum[c] + SumFunctionOnSet(RowSum, u)
        BY <2>2, SumStep, FS_Subset
      <3>3. \A i \in I : SumFunctionOnSet(Column[i], T)
                           = Column[i][c] + SumFunctionOnSet(Column[i], u)
        BY <2>2, SumStep, FS_Subset
      <3> HIDE DEF c, u
      <3>4. RowSum[c] = SumFunctionOnSet(F[c], I) /\ \A i \in I : Column[i][c] = F[c][i]
        BY <3>1
      <3>5. \A i \in I : SumFunctionOnSet(Column[i], u) \in Int
        <4> SUFFICES ASSUME NEW i \in I PROVE SumFunctionOnSet(Column[i], u) \in Int
          OBVIOUS
        <4>1. \A x \in S : Column[i][x] \in Int
          OBVIOUS
        <4> HIDE DEF Column
        <4>2. QED
          BY <4>1, <3>1, SumType
      <3>6. \A i \in I : /\ F[c][i] \in Int /\ Columns(u)[i] \in Int
                         /\ Columns(T)[i] = F[c][i] + Columns(u)[i]
        <4> HIDE DEF Column
        <4>1. QED
          BY <3>1, <3>3, <3>4, <3>5
      <3>7. SumFunctionOnSet(Columns(T), I)
              = SumFunctionOnSet(F[c], I) + SumFunctionOnSet(Columns(u), I)
        <4> HIDE DEF Columns
        <4>1. QED
          BY <3>6, SumAdd
      <3>8. SumFunctionOnSet(RowSum, u) = SumFunctionOnSet(Columns(u), I)
        BY <3>1
      <3> HIDE DEF RowSum, Columns
      <3>9. SumFunctionOnSet(RowSum, T) = SumFunctionOnSet(Columns(T), I)
        BY <3>2, <3>4, <3>7, <3>8
      <3>10. QED
        BY <3>9
    <2>3. QED
      BY <2>1, <2>2
  <1>2. S \in Good
    <2>1. \A T \in SUBSET S : T \in Good
      <3> HIDE DEF Good
      <3>1. QED
        BY <1>1, SubsetInduction
    <2>2. QED
      BY <2>1
  <1>3. Columns(S) = [i \in I |-> SumFunctionOnSet([x \in S |-> F[x][i]], S)]
    OBVIOUS
  <1>4. QED
    <2> HIDE DEF Columns
    <2>1. QED
      BY <1>2, <1>3
=============================================================================
