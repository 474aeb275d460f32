--------------------------------- MODULE Sums ---------------------------------
(***************************************************************************)
(* Facts about the sums of the community module Functions, for the proofs  *)
(* that add up balances, delegations and transactions.                     *)
(*                                                                         *)
(* The library's induction principles take an operator as a parameter,     *)
(* which a prover cannot find.  Here an induction over the subsets of a    *)
(* finite set is an argument about the set of its exceptions, which, when  *)
(* it is not empty, has a smallest member.                                 *)
(***************************************************************************)
EXTENDS Functions, FiniteSetsExt, FiniteSetTheorems, WellFoundedInduction, TLAPS

(* Among exceptions to a claim about the subsets of a finite set, one is   *)
(* such that the claim holds of it less any one of its members.            *)
LEMMA SmallestException ==
    ASSUME NEW S, IsFiniteSet(S), NEW E, E \subseteq SUBSET S, E # {}
    PROVE  \E s \in E : \A x \in s : s \ {x} \notin E
<1> DEFINE R == StrictSubsetOrdering(S)
<1>1. IsWellFoundedOn(R, FiniteSubsetsOf(S))
  BY FS_StrictSubsetOrderingWellFounded
<1>2. E \subseteq FiniteSubsetsOf(S)
  BY FS_Subset DEF FiniteSubsetsOf
<1> HIDE DEF R
<1>3. PICK s \in E : \A y \in E : ~(<<y, s>> \in R)
  BY <1>1, <1>2, WFMin
<1>4. ASSUME NEW x \in s, s \ {x} \in E
      PROVE  FALSE
  BY <1>3, <1>4 DEF R, StrictSubsetOrdering
<1> QED BY <1>3, <1>4
-----------------------------------------------------------------------------
(* The recursive function behind a fold: F takes members of S, in an order *)
(* that c chooses, and says for each how it changes what is accumulated.   *)

\* g gives what is accumulated over every subset of S.
FoldsSubsets(F, c, base, S, g) ==
    g = [s \in SUBSET S |-> IF s = {} THEN base ELSE F[c[s]][g[s \ {c[s]}]]]

(* Two such functions agree wherever both are defined.                     *)
LEMMA FoldsAgree ==
    ASSUME NEW F, NEW c, NEW base, NEW S, NEW T, NEW g, NEW h, IsFiniteSet(S),
           \A s \in SUBSET S : s # {} => c[s] \in s,
           FoldsSubsets(F, c, base, S, g), FoldsSubsets(F, c, base, T, h)
    PROVE  \A s \in SUBSET (S \cap T) : g[s] = h[s]
<1> DEFINE E == {s \in SUBSET (S \cap T) : g[s] # h[s]}
<1>1. SUFFICES ASSUME E # {} PROVE FALSE
  OBVIOUS
<1>2. PICK s \in E : \A x \in s : s \ {x} \notin E
  <2>1. E \subseteq SUBSET S
    OBVIOUS
  <2> HIDE DEF E
  <2> QED BY <1>1, <2>1, SmallestException
<1>3. s \in SUBSET S /\ s \in SUBSET T /\ g[s] # h[s]
  OBVIOUS
<1>4. CASE s = {}
  BY <1>3, <1>4 DEF FoldsSubsets
<1>5. CASE s # {}
  <2>1. c[s] \in s
    BY <1>5
  <2>2. g[s \ {c[s]}] = h[s \ {c[s]}]
    BY <1>2, <2>1
  <2>3. g[s] = F[c[s]][g[s \ {c[s]}]]
    BY <1>3, <1>5 DEF FoldsSubsets
  <2>4. h[s] = F[c[s]][h[s \ {c[s]}]]
    BY <1>3, <1>5 DEF FoldsSubsets
  <2> QED BY <2>2, <2>3, <2>4, <1>3
<1> QED BY <1>4, <1>5

(* There is such a function for every finite set: from those for the sets  *)
(* with one member less, which agree, one is put together for the whole.   *)
LEMMA FoldsExist ==
    ASSUME NEW F, NEW c, NEW base, NEW S, IsFiniteSet(S),
           \A s \in SUBSET S : s # {} => c[s] \in s
    PROVE  \E g : FoldsSubsets(F, c, base, S, g)
<1> DEFINE E == {s \in SUBSET S : ~ \E g : FoldsSubsets(F, c, base, s, g)}
<1>1. SUFFICES ASSUME E # {} PROVE FALSE
  BY DEF E
<1>2. PICK s \in E : \A x \in s : s \ {x} \notin E
  <2>1. E \subseteq SUBSET S
    OBVIOUS
  <2> HIDE DEF E
  <2> QED BY <1>1, <2>1, SmallestException
<1> DEFINE G == [x \in s |-> CHOOSE g : FoldsSubsets(F, c, base, s \ {x}, g)]
<1>3. ASSUME NEW x \in s
      PROVE  FoldsSubsets(F, c, base, s \ {x}, G[x])
  <2>1. s \ {x} \in SUBSET S
    OBVIOUS
  <2>2. \E g : FoldsSubsets(F, c, base, s \ {x}, g)
    BY <1>2, <2>1
  <2>3. FoldsSubsets(F, c, base, s \ {x}, CHOOSE g : FoldsSubsets(F, c, base, s \ {x}, g))
    BY <2>2
  <2> QED BY <2>3
<1> DEFINE h == [t \in SUBSET s |->
                   IF t = {} THEN base
                             ELSE F[c[t]][G[c[t]][t \ {c[t]}]]]
<1>4. ~ FoldsSubsets(F, c, base, s, h) /\ IsFiniteSet(s) /\ s \in SUBSET S
  BY FS_Subset
<1> HIDE DEF E, G
<1>5. ASSUME NEW t \in SUBSET s, t # {}
      PROVE  h[t \ {c[t]}] = G[c[t]][t \ {c[t]}]
  <2> DEFINE x == c[t]
             u == t \ {x}
  <2>1. x \in t
    BY <1>4, <1>5
  <2>2. FoldsSubsets(F, c, base, s \ {x}, G[x])
    BY <1>3, <2>1
  <2>3. u \in SUBSET s /\ u \in SUBSET (s \ {x})
    OBVIOUS
  <2>4. CASE u = {}
    <3>1. G[x][u] = base
      BY <2>2, <2>3, <2>4 DEF FoldsSubsets
    <3> QED BY <3>1, <2>3, <2>4
  <2>5. CASE u # {}
    <3> DEFINE y == c[u]
               v == u \ {y}
    <3>1. y \in u /\ y \in s
      BY <1>4, <2>5, <2>3
    <3>2. h[u] = F[y][G[y][v]]
      BY <2>3, <2>5
    <3>3. FoldsSubsets(F, c, base, s \ {y}, G[y])
      BY <1>3, <3>1
    <3>4. v \in SUBSET ((s \ {x}) \cap (s \ {y}))
      OBVIOUS
    <3>5. IsFiniteSet(s \ {x})
      BY <1>4, FS_Subset
    <3> DEFINE gx == G[x]
               gy == G[y]
               sx == s \ {x}
               sy == s \ {y}
    <3>6. /\ FoldsSubsets(F, c, base, sx, gx) /\ FoldsSubsets(F, c, base, sy, gy)
          /\ IsFiniteSet(sx) /\ u \in SUBSET sx /\ v \in SUBSET (sx \cap sy)
          /\ \A r \in SUBSET sx : r # {} => c[r] \in r
      BY <1>4, <2>2, <2>3, <3>3, <3>4, <3>5
    <3> HIDE DEF h, gx, gy, sx, sy, u, x, v, y
    <3>7. gx[u] = F[y][gx[v]]
      <4>1. gx[u] = IF u = {} THEN base ELSE F[c[u]][gx[u \ {c[u]}]]
        BY <3>6 DEF FoldsSubsets
      <4> QED BY <2>5, <4>1 DEF v, y
    <3>8. gx[v] = gy[v]
      BY <3>6, FoldsAgree
    <3>9. h[u] = G[x][u]
      BY <3>2, <3>7, <3>8 DEF gx, gy
    <3> QED BY <3>9 DEF u, x
  <2> QED BY <2>4, <2>5
<1>6. \A t \in SUBSET s :
        h[t] = IF t = {} THEN base ELSE F[c[t]][h[t \ {c[t]}]]
  BY <1>5
<1>7. h = [t \in SUBSET s |-> h[t]]
  OBVIOUS
<1> HIDE DEF h
<1>8. [t \in SUBSET s |-> h[t]]
        = [t \in SUBSET s |-> IF t = {} THEN base
                                        ELSE F[c[t]][h[t \ {c[t]}]]]
  BY <1>6
<1> QED BY <1>4, <1>7, <1>8 DEF FoldsSubsets

(* What is accumulated has the type of what it starts from.                *)
LEMMA FoldsType ==
    ASSUME NEW F, NEW c, NEW base, NEW S, NEW g, IsFiniteSet(S),
           \A s \in SUBSET S : s # {} => c[s] \in s,
           FoldsSubsets(F, c, base, S, g),
           NEW Acc, base \in Acc, \A x \in S : F[x] \in [Acc -> Acc]
    PROVE  \A s \in SUBSET S : g[s] \in Acc
<1> DEFINE E == {s \in SUBSET S : g[s] \notin Acc}
<1>1. SUFFICES ASSUME E # {} PROVE FALSE
  OBVIOUS
<1>2. PICK s \in E : \A x \in s : s \ {x} \notin E
  <2>1. E \subseteq SUBSET S
    OBVIOUS
  <2> HIDE DEF E
  <2> QED BY <1>1, <2>1, SmallestException
<1>3. s \in SUBSET S /\ g[s] \notin Acc
  OBVIOUS
<1>4. s # {}
  BY <1>3 DEF FoldsSubsets
<1>5. c[s] \in s /\ g[s \ {c[s]}] \in Acc
  BY <1>2, <1>3, <1>4
<1>6. g[s] = F[c[s]][g[s \ {c[s]}]]
  BY <1>3, <1>4 DEF FoldsSubsets
<1> QED BY <1>3, <1>5, <1>6

-----------------------------------------------------------------------------
(* Folds over the numbers up to n, which are those over sequences.         *)

LEMMA UpTo == ASSUME NEW n \in Nat PROVE IsFiniteSet(1..n)
BY FS_Interval

(* Among exceptions to a claim about the numbers up to n, which holds of   *)
(* zero, one is such that the claim holds of the number before it.         *)
LEMMA SmallestNumber ==
    ASSUME NEW n \in Nat, NEW E, E \subseteq 1..n, E # {}
    PROVE  \E k \in E : k - 1 \notin E
<1> DEFINE Intervals == {s \in SUBSET (1..n) : \E k \in E : s = 1..k}
<1>1. Intervals # {}
  <2>1. PICK k \in E : TRUE
    OBVIOUS
  <2>2. 1..k \in SUBSET (1..n)
    OBVIOUS
  <2> QED BY <2>2
<1>2. Intervals \subseteq SUBSET (1..n)
  OBVIOUS
<1> HIDE DEF Intervals
<1>3. PICK s \in Intervals : \A x \in s : s \ {x} \notin Intervals
  BY <1>1, <1>2, UpTo, SmallestException
<1>4. PICK k \in E : s = 1..k
  BY DEF Intervals
<1>5. k \in s /\ s \ {k} = 1..(k - 1) /\ s \ {k} \in SUBSET (1..n)
  BY <1>4
<1>6. k - 1 \notin E
  BY <1>3, <1>5 DEF Intervals
<1> QED BY <1>6

LEMMA MaxIn ==
    ASSUME NEW n \in Nat, NEW s \in SUBSET (1..n), s # {}
    PROVE  Max(s) \in s /\ \A x \in s : Max(s) >= x
<1> DEFINE Greatest(t) == \E x \in t : \A y \in t : x >= y
           E == {t \in SUBSET (1..n) : t # {} /\ ~Greatest(t)}
<1>1. SUFFICES ASSUME E # {} PROVE FALSE
  BY DEF Max
<1>2. PICK t \in E : \A x \in t : t \ {x} \notin E
  <2>1. E \subseteq SUBSET (1..n)
    OBVIOUS
  <2> HIDE DEF E
  <2> QED BY <1>1, <2>1, UpTo, SmallestException
<1>3. t \in SUBSET (1..n) /\ t # {} /\ ~Greatest(t)
  OBVIOUS
<1>4. PICK x \in t : TRUE
  BY <1>3
<1>5. CASE t \ {x} = {}
  BY <1>3, <1>4, <1>5
<1>6. CASE t \ {x} # {}
  <2>1. PICK y \in t \ {x} : \A z \in t \ {x} : y >= z
    BY <1>2, <1>3, <1>6
  <2>2. x \in Int /\ y \in Int /\ \A z \in t : z \in Int
    BY <1>3
  <2> QED BY <1>3, <2>1, <2>2
<1> QED BY <1>5, <1>6

LEMMA MaxUpTo ==
    ASSUME NEW k \in Nat, k # 0
    PROVE  Max(1..k) = k /\ (1..k) \ {k} = 1..(k - 1)
<1>1. Max(1..k) \in 1..k /\ \A x \in 1..k : Max(1..k) >= x
  <2> DEFINE s == 1..k
  <2>1. s \in SUBSET (1..k) /\ s # {}
    OBVIOUS
  <2> HIDE DEF s
  <2>2. Max(s) \in s /\ \A x \in s : Max(s) >= x
    BY <2>1, MaxIn
  <2> QED BY <2>2 DEF s
<1> HIDE DEF Max
<1>2. k \in 1..k
  OBVIOUS
<1> QED BY <1>1, <1>2

LEMMA NumbersUpTo ==
    ASSUME NEW n \in Nat, NEW k \in 1..n
    PROVE  /\ 1..k \in SUBSET (1..n) /\ 1..k # {}
           /\ Max(1..k) = k /\ (1..k) \ {Max(1..k)} = 1..(k - 1)
<1>1. k \in Nat /\ k # 0 /\ k \in 1..k
  OBVIOUS
<1>2. 1..k \in SUBSET (1..n)
  OBVIOUS
<1>3. Max(1..k) = k /\ (1..k) \ {k} = 1..(k - 1)
  BY <1>1, MaxUpTo
<1> HIDE DEF Max
<1> QED BY <1>1, <1>2, <1>3

(* What holds of a number, and of each one after a number it holds of,     *)
(* holds from there on.                                                    *)
LEMMA StepByStep ==
    ASSUME NEW n \in Nat, NEW k \in 0..n, NEW G, k \in G,
           \A i \in 1..n : i > k /\ i - 1 \in G => i \in G
    PROVE  \A i \in k..n : i \in G
<1> DEFINE E == {i \in 1..n : i > k /\ i \notin G}
<1>1. E = {}
  <2>1. SUFFICES ASSUME E # {} PROVE FALSE
    OBVIOUS
  <2>2. E \subseteq 1..n
    OBVIOUS
  <2> HIDE DEF E
  <2>3. PICK i \in E : i - 1 \notin E
    BY <2>1, <2>2, SmallestNumber
  <2>4. i \in 1..n /\ i > k /\ i \notin G
    BY DEF E
  <2>5. i - 1 \in G
    BY <2>3, <2>4 DEF E
  <2> QED BY <2>4, <2>5
<1> QED BY <1>1

(* What FoldLeft looks for is there.                                       *)
Steps(n, F, base, g) ==
    \A s \in SUBSET (1..n) : g[s] = IF s = {} THEN base ELSE F[Max(s)][g[s \ {Max(s)}]]

LEMMA StepsExist ==
    ASSUME NEW n \in Nat, NEW Acc, NEW base \in Acc, NEW F, \A i \in 1..n : F[i] \in [Acc -> Acc]
    PROVE  \E g \in [SUBSET (1..n) -> Acc] : Steps(n, F, base, g)
<1> DEFINE S == 1..n
           c == [s \in SUBSET S |-> Max(s)]
<1>1. IsFiniteSet(S) /\ \A i \in S : F[i] \in [Acc -> Acc]
  BY UpTo
<1>2. \A s \in SUBSET S : s # {} => c[s] \in s
  BY MaxIn
<1>3. \A s \in SUBSET S : c[s] = Max(s)
  OBVIOUS
<1> HIDE DEF c, S
<1>4. PICK g : FoldsSubsets(F, c, base, S, g)
  BY <1>1, <1>2, FoldsExist
<1>5. \A s \in SUBSET S : g[s] \in Acc
  BY <1>1, <1>2, <1>4, FoldsType
<1>6. g \in [SUBSET S -> Acc]
  <2>1. g = [s \in SUBSET S |-> g[s]]
    BY <1>4 DEF FoldsSubsets
  <2> QED BY <1>5, <2>1
<1>7. ASSUME NEW s \in SUBSET S
      PROVE  g[s] = IF s = {} THEN base ELSE F[Max(s)][g[s \ {Max(s)}]]
  BY <1>3, <1>4 DEF FoldsSubsets
<1> QED BY <1>6, <1>7 DEF S, Steps
-----------------------------------------------------------------------------
(* A recursive function that takes one step after the other, step i from   *)
(* what there is after the one before as F[i] says.                        *)
Iterates(n, base, F, g) == g = [i \in 0..n |-> IF i = 0 THEN base ELSE F[i][g[i - 1]]]

LEMMA IteratesExist ==
    ASSUME NEW n \in Nat, NEW base, NEW F
    PROVE  \E g : Iterates(n, base, F, g)
<1> DEFINE G == {k \in 0..n : \E g : Iterates(k, base, F, g)}
<1>1. 0 \in G
  <2>1. PICK f : f = [k \in 0..0 |-> base]
    OBVIOUS
  <2>2. f = [k \in 0..0 |-> IF k = 0 THEN base ELSE F[k][f[k - 1]]]
    BY <2>1
  <2> QED BY <2>2 DEF Iterates
<1>2. ASSUME NEW i \in 1..n, i > 0, i - 1 \in G
      PROVE  i \in G
  <2>1. PICK f : Iterates(i - 1, base, F, f)
    BY <1>2
  <2>2. PICK g : g = [k \in 0..i |-> IF k = i THEN F[i][f[i - 1]] ELSE f[k]]
    OBVIOUS
  <2>3. ASSUME NEW k \in 0..i
        PROVE  g[k] = IF k = 0 THEN base ELSE F[k][g[k - 1]]
    <3>1. CASE k = 0
      <4>1. f[0] = base
        BY <2>1 DEF Iterates
      <4> QED BY <2>2, <3>1, <4>1
    <3>2. CASE k # 0 /\ k # i
      <4>1. k \in 0..(i - 1) /\ k - 1 \in 0..i /\ k - 1 # i
        BY <3>2
      <4>2. f[k] = F[k][f[k - 1]]
        BY <2>1, <3>2, <4>1 DEF Iterates
      <4>3. g[k] = f[k] /\ g[k - 1] = f[k - 1]
        BY <2>2, <3>2, <4>1
      <4> QED BY <3>2, <4>2, <4>3
    <3>3. CASE k = i
      <4>1. k - 1 \in 0..i /\ k - 1 # i /\ k # 0
        BY <3>3
      <4>2. g[k - 1] = f[i - 1] /\ g[k] = F[i][f[i - 1]]
        BY <2>2, <3>3, <4>1
      <4> QED BY <3>3, <4>1, <4>2
    <3> QED BY <3>1, <3>2, <3>3
  <2>4. g = [k \in 0..i |-> g[k]]
    BY <2>2
  <2>5. Iterates(i, base, F, g)
    BY <2>3, <2>4 DEF Iterates
  <2> QED BY <2>5
<1> HIDE DEF G
<1>3. 0 \in 0..n
  OBVIOUS
<1>4. \A i \in 0..n : i \in G
  BY <1>1, <1>2, <1>3, StepByStep
<1>5. n \in G
  BY <1>4
<1> QED BY <1>5 DEF G

LEMMA IteratesStay ==
    ASSUME NEW n \in Nat, NEW S, NEW base \in S, NEW F, NEW g, Iterates(n, base, F, g),
           \A i \in 1..n : \A x \in S : F[i][x] \in S
    PROVE  \A i \in 0..n : g[i] \in S
<1> DEFINE G == {i \in 0..n : g[i] \in S}
<1>1. \A i \in 0..n : g[i] = IF i = 0 THEN base ELSE F[i][g[i - 1]]
  BY DEF Iterates
<1>2. 0 \in G
  <2>1. 0 \in 0..n
    OBVIOUS
  <2> QED BY <1>1, <2>1
<1>3. ASSUME NEW i \in 1..n, i > 0, i - 1 \in G
      PROVE  i \in G
  <2>1. i \in 0..n /\ i # 0 /\ g[i - 1] \in S
    BY <1>3
  <2>2. g[i] = F[i][g[i - 1]]
    BY <1>1, <2>1
  <2> QED BY <2>1, <2>2
<1> HIDE DEF G
<1>4. 0 \in 0..n
  OBVIOUS
<1>5. \A i \in 0..n : i \in G
  BY <1>2, <1>3, <1>4, StepByStep
<1> QED BY <1>5 DEF G
-----------------------------------------------------------------------------
(* The recursive function behind a sum.                                    *)

First(s) == CHOOSE x \in s : TRUE

LEMMA FirstIn == ASSUME NEW s, s # {} PROVE First(s) \in s
BY DEF First

\* g gives the sum of f over every subset of S.
SumsSubsets(f, S, g) ==
    g = [s \in SUBSET S |-> IF s = {} THEN 0
                                      ELSE f[First(s)] + g[s \ {First(s)}]]

LEMMA SumIsChosen ==
    ASSUME NEW f, NEW S
    PROVE  SumFunctionOnSet(f, S) = (CHOOSE g : SumsSubsets(f, S, g))[S]
BY DEF SumFunctionOnSet, FoldFunctionOnSet, MapThenFoldSet, SumsSubsets, First

LEMMA SumsAt ==
    ASSUME NEW f, NEW S, NEW g, SumsSubsets(f, S, g), NEW s \in SUBSET S
    PROVE  g[s] = IF s = {} THEN 0 ELSE f[First(s)] + g[s \ {First(s)}]
BY DEF SumsSubsets

(* Two such functions agree wherever both are defined.                     *)
LEMMA SumsAgree ==
    ASSUME NEW f, NEW S, NEW T, IsFiniteSet(S), NEW g, NEW h,
           SumsSubsets(f, S, g), SumsSubsets(f, T, h)
    PROVE  \A s \in SUBSET (S \cap T) : g[s] = h[s]
<1> DEFINE E == {s \in SUBSET (S \cap T) : g[s] # h[s]}
<1>1. SUFFICES ASSUME E # {} PROVE FALSE
  OBVIOUS
<1>2. PICK s \in E : \A x \in s : s \ {x} \notin E
  <2>1. E \subseteq SUBSET S
    OBVIOUS
  <2> HIDE DEF E
  <2> QED BY <1>1, <2>1, SmallestException
<1>3. s \in SUBSET S /\ s \in SUBSET T /\ g[s] # h[s]
  OBVIOUS
<1>4. CASE s = {}
  BY <1>3, <1>4, SumsAt
<1>5. CASE s # {}
  <2>1. First(s) \in s
    BY <1>5, FirstIn
  <2>2. g[s \ {First(s)}] = h[s \ {First(s)}]
    BY <1>2, <2>1
  <2>3. g[s] = f[First(s)] + g[s \ {First(s)}]
    BY <1>3, <1>5, SumsAt
  <2>4. h[s] = f[First(s)] + h[s \ {First(s)}]
    BY <1>3, <1>5, SumsAt
  <2> QED BY <2>2, <2>3, <2>4, <1>3
<1> QED BY <1>4, <1>5

LEMMA SumsExist ==
    ASSUME NEW f, NEW S, IsFiniteSet(S), \A x \in S : f[x] \in Int
    PROVE  \E g : SumsSubsets(f, S, g)
<1> DEFINE F == [x \in S |-> [n \in Int |-> f[x] + n]]
           c == [s \in SUBSET S |-> First(s)]
<1>1. \A s \in SUBSET S : s # {} => c[s] \in s /\ c[s] = First(s)
  BY FirstIn
<1>2. \A x \in S : F[x] \in [Int -> Int]
  OBVIOUS
<1>3. \A x \in S : \A n \in Int : F[x][n] = f[x] + n
  OBVIOUS
<1> HIDE DEF F, c
<1>4. PICK g : FoldsSubsets(F, c, 0, S, g)
  BY <1>1, FoldsExist
<1>5. \A s \in SUBSET S : g[s] \in Int
  BY <1>1, <1>2, <1>4, FoldsType
<1>6. \A s \in SUBSET S :
        g[s] = IF s = {} THEN 0 ELSE f[First(s)] + g[s \ {First(s)}]
  <2> SUFFICES ASSUME NEW s \in SUBSET S, s # {}
               PROVE  g[s] = f[First(s)] + g[s \ {First(s)}]
    BY <1>4 DEF FoldsSubsets
  <2>1. First(s) \in S /\ c[s] = First(s)
    BY <1>1
  <2>2. g[s] = F[First(s)][g[s \ {First(s)}]]
    BY <1>4, <2>1 DEF FoldsSubsets
  <2> QED BY <1>3, <1>5, <2>1, <2>2
<1>7. g = [s \in SUBSET S |-> g[s]]
  BY <1>4 DEF FoldsSubsets
<1>8. [s \in SUBSET S |-> g[s]]
        = [s \in SUBSET S |-> IF s = {} THEN 0
                                        ELSE f[First(s)] + g[s \ {First(s)}]]
  BY <1>6
<1> QED BY <1>7, <1>8 DEF SumsSubsets

(* The sum over a finite set is that of a member and of the others.        *)
LEMMA SumUnfolds ==
    ASSUME NEW f, NEW S, IsFiniteSet(S), \A x \in S : f[x] \in Int
    PROVE  SumFunctionOnSet(f, S) =
             IF S = {} THEN 0
                       ELSE f[First(S)] + SumFunctionOnSet(f, S \ {First(S)})
<1> DEFINE g == CHOOSE g : SumsSubsets(f, S, g)
           T == S \ {First(S)}
           h == CHOOSE h : SumsSubsets(f, T, h)
<1>1. IsFiniteSet(T) /\ T \in SUBSET (S \cap T)
  BY FS_Subset
<1>2. SumsSubsets(f, S, g)
  <2>1. \E x : SumsSubsets(f, S, x)
    BY SumsExist
  <2> QED BY <2>1
<1>3. SumsSubsets(f, T, h)
  <2> HIDE DEF T
  <2>1. \E x : SumsSubsets(f, T, x)
    BY <1>1, SumsExist
  <2> QED BY <2>1
<1>4. SumFunctionOnSet(f, S) = g[S] /\ SumFunctionOnSet(f, T) = h[T]
  BY SumIsChosen
<1> HIDE DEF g, h
<1>5. g[S] = IF S = {} THEN 0 ELSE f[First(S)] + g[T]
  BY <1>2, SumsAt
<1>6. g[T] = h[T]
  <2> HIDE DEF T
  <2> QED BY <1>1, <1>2, <1>3, SumsAgree
<1> QED BY <1>4, <1>5, <1>6
-----------------------------------------------------------------------------
(* Sums over finite sets.                                                  *)

LEMMA SumEmpty == ASSUME NEW f PROVE SumFunctionOnSet(f, {}) = 0
BY FS_EmptySet, SumUnfolds

LEMMA SumInt ==
    ASSUME NEW f, NEW S, IsFiniteSet(S), \A x \in S : f[x] \in Int
    PROVE  SumFunctionOnSet(f, S) \in Int
<1> DEFINE E == {s \in SUBSET S : SumFunctionOnSet(f, s) \notin Int}
<1>1. SUFFICES ASSUME E # {} PROVE FALSE
  BY DEF E
<1>2. PICK s \in E : \A x \in s : s \ {x} \notin E
  <2>1. E \subseteq SUBSET S
    OBVIOUS
  <2> HIDE DEF E
  <2> QED BY <1>1, <2>1, SmallestException
<1>3. s \in SUBSET S /\ IsFiniteSet(s) /\ SumFunctionOnSet(f, s) \notin Int
  BY FS_Subset
<1>4. s # {}
  BY <1>3, SumEmpty
<1>5. First(s) \in s
  BY <1>4, FirstIn
<1>6. SumFunctionOnSet(f, s \ {First(s)}) \in Int
  BY <1>2, <1>5, <1>3
<1>7. SumFunctionOnSet(f, s) = f[First(s)] + SumFunctionOnSet(f, s \ {First(s)})
  BY <1>3, <1>4, SumUnfolds
<1> QED BY <1>3, <1>5, <1>6, <1>7

(* It does not matter which member is taken out first.                     *)
LEMMA SumRemove ==
    ASSUME NEW f, NEW S, IsFiniteSet(S), \A y \in S : f[y] \in Int, NEW x \in S
    PROVE  SumFunctionOnSet(f, S) = f[x] + SumFunctionOnSet(f, S \ {x})
<1> DEFINE Sum(s) == SumFunctionOnSet(f, s)
           E == {s \in SUBSET S : \E y \in s : Sum(s) # f[y] + Sum(s \ {y})}
<1>1. SUFFICES ASSUME E # {} PROVE FALSE
  BY DEF E
<1>2. PICK s \in E : \A y \in s : s \ {y} \notin E
  <2>1. E \subseteq SUBSET S
    OBVIOUS
  <2> HIDE DEF E
  <2> QED BY <1>1, <2>1, SmallestException
<1>3. \A t \in SUBSET S : IsFiniteSet(t) /\ Sum(t) \in Int
  <2>1. \A t \in SUBSET S : IsFiniteSet(t)
    BY FS_Subset
  <2>2. \A t \in SUBSET S : Sum(t) \in Int
    BY <2>1, SumInt
  <2> QED BY <2>1, <2>2
<1>4. \A t \in SUBSET S : t # {} => Sum(t) = f[First(t)] + Sum(t \ {First(t)})
  BY <1>3, SumUnfolds
<1> HIDE DEF Sum
<1>5. PICK y \in s : Sum(s) # f[y] + Sum(s \ {y})
  OBVIOUS
<1> DEFINE z == First(s)
<1>6. s \in SUBSET S /\ s # {} /\ z \in s
  BY FirstIn
<1>7. Sum(s) = f[z] + Sum(s \ {z})
  BY <1>4, <1>6
<1>8. y # z
  BY <1>5, <1>7
<1> HIDE DEF z
<1>9. Sum(s \ {z}) = f[y] + Sum((s \ {z}) \ {y})
  <2>1. s \ {z} \notin E /\ s \ {z} \in SUBSET S /\ y \in s \ {z}
    BY <1>2, <1>6, <1>8
  <2> QED BY <2>1
<1>10. Sum(s \ {y}) = f[z] + Sum((s \ {y}) \ {z})
  <2>1. s \ {y} \notin E /\ s \ {y} \in SUBSET S /\ z \in s \ {y}
    BY <1>2, <1>6, <1>8
  <2> QED BY <2>1
<1> DEFINE w == Sum((s \ {y}) \ {z})
<1>11. (s \ {z}) \ {y} = (s \ {y}) \ {z}
  OBVIOUS
<1>12. w \in Int /\ f[y] \in Int /\ f[z] \in Int
  BY <1>3, <1>6
<1>13. Sum(s) = f[z] + (f[y] + w) /\ Sum(s \ {y}) = f[z] + w
  BY <1>7, <1>9, <1>10, <1>11
<1> HIDE DEF w, E
<1> QED BY <1>5, <1>12, <1>13

LEMMA SumInsert ==
    ASSUME NEW f, NEW S, IsFiniteSet(S), \A y \in S : f[y] \in Int,
           NEW x, x \notin S, f[x] \in Int
    PROVE  SumFunctionOnSet(f, S \cup {x}) = f[x] + SumFunctionOnSet(f, S)
<1> DEFINE T == S \cup {x}
<1>1. IsFiniteSet(T) /\ \A y \in T : f[y] \in Int
  BY FS_AddElement
<1>2. T \ {x} = S /\ x \in T
  OBVIOUS
<1> HIDE DEF T
<1> QED BY <1>1, <1>2, SumRemove DEF T

LEMMA SumSame ==
    ASSUME NEW f, NEW g, NEW S, IsFiniteSet(S), \A x \in S : f[x] \in Int,
           \A x \in S : f[x] = g[x]
    PROVE  SumFunctionOnSet(f, S) = SumFunctionOnSet(g, S)
<1> DEFINE E == {s \in SUBSET S : SumFunctionOnSet(f, s) # SumFunctionOnSet(g, s)}
<1>1. SUFFICES ASSUME E # {} PROVE FALSE
  BY DEF E
<1>2. PICK s \in E : \A x \in s : s \ {x} \notin E
  <2>1. E \subseteq SUBSET S
    OBVIOUS
  <2> HIDE DEF E
  <2> QED BY <1>1, <2>1, SmallestException
<1>3. /\ s \in SUBSET S /\ IsFiniteSet(s)
      /\ SumFunctionOnSet(f, s) # SumFunctionOnSet(g, s)
  BY FS_Subset
<1>4. s # {}
  BY <1>3, SumEmpty
<1>5. First(s) \in s
  BY <1>4, FirstIn
<1>6. SumFunctionOnSet(f, s \ {First(s)}) = SumFunctionOnSet(g, s \ {First(s)})
  BY <1>2, <1>5, <1>3
<1>7. SumFunctionOnSet(f, s) = f[First(s)] + SumFunctionOnSet(f, s \ {First(s)})
  BY <1>3, <1>4, SumUnfolds
<1>8. SumFunctionOnSet(g, s) = g[First(s)] + SumFunctionOnSet(g, s \ {First(s)})
  BY <1>3, <1>4, SumUnfolds
<1> QED BY <1>3, <1>5, <1>6, <1>7, <1>8

LEMMA SumNat ==
    ASSUME NEW f, NEW S, IsFiniteSet(S), \A x \in S : f[x] \in Nat
    PROVE  SumFunctionOnSet(f, S) \in Nat
<1> DEFINE E == {s \in SUBSET S : SumFunctionOnSet(f, s) \notin Nat}
<1>1. SUFFICES ASSUME E # {} PROVE FALSE
  BY DEF E
<1>2. PICK s \in E : \A x \in s : s \ {x} \notin E
  <2>1. E \subseteq SUBSET S
    OBVIOUS
  <2> HIDE DEF E
  <2> QED BY <1>1, <2>1, SmallestException
<1>3. s \in SUBSET S /\ IsFiniteSet(s) /\ SumFunctionOnSet(f, s) \notin Nat
  BY FS_Subset
<1>4. s # {}
  BY <1>3, SumEmpty
<1>5. First(s) \in s
  BY <1>4, FirstIn
<1>6. SumFunctionOnSet(f, s \ {First(s)}) \in Nat
  BY <1>2, <1>5, <1>3
<1>7. SumFunctionOnSet(f, s) = f[First(s)] + SumFunctionOnSet(f, s \ {First(s)})
  BY <1>3, <1>4, SumUnfolds
<1> QED BY <1>3, <1>5, <1>6, <1>7
-----------------------------------------------------------------------------
(* Sums of all the values of a function.                                   *)

LEMMA TotalNat ==
    ASSUME NEW S, IsFiniteSet(S), NEW f \in [S -> Nat]
    PROVE  SumFunction(f) \in Nat
BY SumNat DEF SumFunction

LEMMA TotalSame ==
    ASSUME NEW S, IsFiniteSet(S), NEW f, NEW g, DOMAIN f = S, DOMAIN g = S,
           \A x \in S : f[x] \in Int, \A x \in S : f[x] = g[x]
    PROVE  SumFunction(f) = SumFunction(g)
BY SumSame DEF SumFunction

LEMMA TotalZero ==
    ASSUME NEW S, IsFiniteSet(S)
    PROVE  SumFunction([x \in S |-> 0]) = 0
<1> DEFINE f == [x \in S |-> 0]
           E == {s \in SUBSET S : SumFunctionOnSet(f, s) # 0}
<1>1. SUFFICES ASSUME E # {} PROVE FALSE
  BY DEF SumFunction
<1>2. PICK s \in E : \A x \in s : s \ {x} \notin E
  <2>1. E \subseteq SUBSET S
    OBVIOUS
  <2> HIDE DEF E
  <2> QED BY <1>1, <2>1, SmallestException
<1>3. s \in SUBSET S /\ IsFiniteSet(s) /\ SumFunctionOnSet(f, s) # 0
  BY FS_Subset
<1>4. s # {}
  BY <1>3, SumEmpty
<1>5. First(s) \in s /\ f[First(s)] = 0 /\ \A x \in s : f[x] \in Int
  BY <1>3, <1>4, FirstIn
<1>6. SumFunctionOnSet(f, s \ {First(s)}) = 0
  BY <1>2, <1>5, <1>3
<1> HIDE DEF f
<1>7. SumFunctionOnSet(f, s) = f[First(s)] + SumFunctionOnSet(f, s \ {First(s)})
  BY <1>3, <1>4, <1>5, SumUnfolds
<1> QED BY <1>3, <1>5, <1>6, <1>7

(* One value of a finite sum is among the summands.                        *)
LEMMA TotalCovers ==
    ASSUME NEW S, IsFiniteSet(S), NEW f \in [S -> Nat], NEW x \in S
    PROVE  f[x] <= SumFunction(f)
<1> DEFINE rest == SumFunctionOnSet(f, S \ {x})
<1>1. SumFunction(f) = f[x] + rest
  BY SumRemove DEF SumFunction
<1>2. rest \in Nat
  <2>1. IsFiniteSet(S \ {x})
    BY FS_Subset
  <2> QED BY <2>1, SumNat
<1> HIDE DEF rest
<1> QED BY <1>1, <1>2

(* A sum follows the one value that changes.                               *)
LEMMA TotalChanges ==
    ASSUME NEW S, IsFiniteSet(S), NEW f, NEW g, DOMAIN f = S, DOMAIN g = S,
           \A y \in S : f[y] \in Int, NEW x \in S,
           \A y \in S \ {x} : g[y] = f[y], g[x] \in Int
    PROVE  SumFunction(g) = SumFunction(f) - f[x] + g[x]
<1> DEFINE T == S \ {x}
           rest == SumFunctionOnSet(f, T)
<1>1. IsFiniteSet(T) /\ \A y \in T : f[y] \in Int /\ f[y] = g[y]
  BY FS_Subset
<1>2. SumFunction(f) = f[x] + rest
  BY SumRemove DEF SumFunction
<1>3. SumFunction(g) = g[x] + SumFunctionOnSet(g, T)
  <2>1. \A y \in S : g[y] \in Int
    OBVIOUS
  <2> QED BY <2>1, SumRemove DEF SumFunction
<1> HIDE DEF T
<1>4. SumFunctionOnSet(g, T) = rest
  BY <1>1, SumSame
<1>5. rest \in Int /\ f[x] \in Int
  BY <1>1, SumInt
<1> HIDE DEF rest
<1> QED BY <1>2, <1>3, <1>4, <1>5

(* The sum of the values up to a number grows one by one.                  *)
LEMMA SumUpTo ==
    ASSUME NEW n \in Nat, NEW f, \A i \in 1..n : f[i] \in Nat, NEW k \in 1..n
    PROVE  /\ SumFunctionOnSet(f, 1..(k - 1)) \in Nat
           /\ SumFunctionOnSet(f, 1..k) = SumFunctionOnSet(f, 1..(k - 1)) + f[k]
<1> DEFINE S == 1..(k - 1)
<1>1. k \in Nat /\ k - 1 \in Nat /\ \A y \in S : y \in 1..n
  OBVIOUS
<1>2. k \notin S /\ S \cup {k} = 1..k
  OBVIOUS
<1>3. f[k] \in Int /\ f[k] \in Nat /\ \A y \in S : f[y] \in Int /\ f[y] \in Nat
  BY <1>1
<1>4. IsFiniteSet(S)
  BY <1>1, UpTo
<1> HIDE DEF S
<1>5. SumFunctionOnSet(f, S \cup {k}) = f[k] + SumFunctionOnSet(f, S)
  BY <1>2, <1>3, <1>4, SumInsert
<1>6. SumFunctionOnSet(f, S) \in Nat
  BY <1>3, <1>4, SumNat
<1>7. SumFunctionOnSet(f, 1..k) = f[k] + SumFunctionOnSet(f, S)
  BY <1>2, <1>5
<1>8. f[k] + SumFunctionOnSet(f, S) = SumFunctionOnSet(f, S) + f[k]
  BY <1>3, <1>6
<1> QED BY <1>6, <1>7, <1>8 DEF S
=============================================================================
