---------------------------- MODULE ChecksProofs ----------------------------
(***************************************************************************)
(* Whatever the checks, the outputs and the files are: a plan passes exactly *)
(* when each of its checks is right, and nothing but a check that asks       *)
(* nothing passes on an empty output.                                       *)
(*                                                                         *)
(* The code works by loops over texts, lists and paths; the properties speak *)
(* of positions.  Each loop is a recursion whose equations are solved here:  *)
(* splitting by the positions of the separators, joining as its inverse,    *)
(* keeping by the rank of what is kept, walking by the places of a value.    *)
(***************************************************************************)
EXTENDS Checks, FiniteSetTheorems, WellFoundedInduction, SequenceTheorems, TLAPS

----------------------------------------------------------------------------
(* Induction on the natural numbers *)

\* The library's order of the natural numbers, as a set of pairs.
LEMMA LessThan == OpToRel(<, Nat) = {ss \in Nat \X Nat : ss[1] < ss[2]}
BY Zenon DEF OpToRel

\* A set of natural numbers that is not empty has a least member.
LEMMA Least ==
  ASSUME NEW T \in SUBSET Nat, T # {}
  PROVE  \E x \in T : \A y \in T : x <= y
<1> DEFINE R == {ss \in Nat \X Nat : ss[1] < ss[2]}
<1>1. IsWellFoundedOn(R, Nat)
  BY NatLessThanWellFounded, LessThan
<1>2. \E x \in T : \A y \in T : ~(<<y, x>> \in R)
  <2> HIDE DEF R
  <2> QED BY <1>1, WFMin
<1>3. \A x, y \in Nat : y < x => <<y, x>> \in R
  OBVIOUS
<1>4. PICK x \in T : \A y \in T : ~(<<y, x>> \in R)
  BY <1>2
<1> HIDE DEF R
<1>5. \A y \in T : ~(y < x)
  BY <1>3, <1>4
<1> QED BY <1>5

\* What holds of 0, and of n + 1 when it holds of n, holds of them all.
LEMMA Counting ==
  ASSUME NEW S, 0 \in S, \A n \in Nat : n \in S => n + 1 \in S
  PROVE  Nat \subseteq S
<1>1. SUFFICES ASSUME Nat \ S # {} PROVE FALSE
  OBVIOUS
<1>2. PICK x \in Nat \ S : \A y \in Nat \ S : x <= y
  BY <1>1, Least
<1>3. x # 0 /\ x - 1 \in Nat
  BY <1>2
<1>4. x - 1 \in S
  BY <1>2, <1>3
<1> QED BY <1>2, <1>3, <1>4

\* The same, up to a bound.
LEMMA CountingUpTo ==
  ASSUME NEW N \in Nat, NEW S, 0 \in S, \A n \in 1..N : n - 1 \in S => n \in S
  PROVE  \A n \in 0..N : n \in S
<1> DEFINE T == {n \in Nat : n <= N => n \in S}
<1>1. 0 \in T
  OBVIOUS
<1>2. ASSUME NEW n \in Nat, n \in T PROVE n + 1 \in T
  <2>1. n + 1 <= N => n \in S /\ n + 1 \in 1..N /\ (n + 1) - 1 = n
    BY <1>2
  <2> QED
    BY <2>1
<1>3. Nat \subseteq T
  <2> HIDE DEF T
  <2> QED
    BY <1>1, <1>2, Counting
<1> QED
  BY <1>3

\* A recursion of N steps over the values of X, and what it computes.
Steps(N, X) == [1..N -> [X -> X]]
Computes(f, N, X, base, Step) ==
  /\ f \in [0..N -> X] /\ f[0] = base
  /\ \A n \in 1..N : f[n] = Step[n][f[n - 1]]

\* There is a function that a recursion of N steps computes.
LEMMA Recursion ==
  ASSUME NEW N \in Nat, NEW X, NEW base \in X, NEW Step \in Steps(N, X)
  PROVE  \E f : Computes(f, N, X, base, Step)
<1> DEFINE S == {m \in Nat : \E f \in [0..m -> X] :
                   f[0] = base /\ \A n \in 1..m : f[n] = Step[n][f[n - 1]]}
<1>1. 0 \in S
  <2> DEFINE f == [i \in 0..0 |-> base]
  <2>1. f \in [0..0 -> X] /\ f[0] = base /\ \A n \in 1..0 : f[n] = Step[n][f[n - 1]]
    OBVIOUS
  <2> HIDE DEF f
  <2> QED
    BY <2>1
<1>2. ASSUME NEW m \in 1..N, m - 1 \in S PROVE m \in S
  <2>1. PICK f \in [0..(m - 1) -> X] :
          f[0] = base /\ \A n \in 1..(m - 1) : f[n] = Step[n][f[n - 1]]
    BY <1>2
  <2> DEFINE g == [i \in 0..m |-> IF i = m THEN Step[m][f[m - 1]] ELSE f[i]]
  <2>2. Step[m][f[m - 1]] \in X
    BY DEF Steps
  <2>3. g \in [0..m -> X]
    BY <2>2
  <2>4. g[0] = base
    BY <2>1
  <2>5. ASSUME NEW n \in 1..m PROVE g[n] = Step[n][g[n - 1]]
    <3>1. CASE n = m
      BY <3>1
    <3>2. CASE n # m
      <4>1. n \in 1..(m - 1) /\ n - 1 \in 0..(m - 1)
        BY <3>2
      <4> QED
        BY <3>2, <4>1, <2>1
    <3> QED
      BY <3>1, <3>2
  <2> HIDE DEF g
  <2>6. m \in Nat
    OBVIOUS
  <2> QED
    BY <2>3, <2>4, <2>5, <2>6
<1>3. N \in S
  <2> HIDE DEF S
  <2>1. \A n \in 0..N : n \in S
    BY <1>1, <1>2, CountingUpTo
  <2> QED
    BY <2>1
<1> QED
  BY <1>3 DEF Computes

\* Whatever satisfies the equations is a function that the recursion computes.
LEMMA Equations ==
  ASSUME NEW N \in Nat, NEW X, NEW base \in X, NEW Step \in Steps(N, X), NEW h,
         h = [n \in 0..N |-> h[n]], h[0] = base,
         \A n \in 1..N : h[n - 1] \in X => h[n] = Step[n][h[n - 1]]
  PROVE  Computes(h, N, X, base, Step)
<1> DEFINE S == {n \in 0..N : h[n] \in X}
<1>1. 0 \in S
  OBVIOUS
<1>2. ASSUME NEW n \in 1..N, n - 1 \in S PROVE n \in S
  <2>1. h[n - 1] \in X /\ Step[n] \in [X -> X]
    BY <1>2 DEF Steps
  <2>2. h[n] = Step[n][h[n - 1]]
    BY <2>1
  <2>3. n \in 0..N
    OBVIOUS
  <2> QED
    BY <2>1, <2>2, <2>3
<1>3. \A n \in 0..N : h[n] \in X
  <2> HIDE DEF S
  <2>1. \A n \in 0..N : n \in S
    BY <1>1, <1>2, CountingUpTo
  <2> QED
    BY <2>1 DEF S
<1>4. h \in [0..N -> X]
  BY <1>3
<1>5. \A n \in 1..N : n - 1 \in 0..N
  OBVIOUS
<1> QED
  BY <1>3, <1>4, <1>5 DEF Computes

\* Each turn is from a value of X.
LEMMA Turning ==
  ASSUME NEW N \in Nat, NEW X, NEW base, NEW Step, NEW f, Computes(f, N, X, base, Step)
  PROVE  \A n \in 1..N : f[n - 1] \in X /\ f[n] = Step[n][f[n - 1]]
<1>1. \A n \in 1..N : n - 1 \in 0..N
  OBVIOUS
<1> QED
  BY <1>1 DEF Computes

----------------------------------------------------------------------------
(* The loops *)

\* One turn of Only.
OnlyTurn(items, places, kept, n) ==
  IF n \in places THEN Append(kept, items[n]) ELSE kept
OnlySteps(X, items, places) ==
  [n \in 1..Len(items) |-> [kept \in Seq(X) |-> OnlyTurn(items, places, kept, n)]]

\* Only, as a recursion.
LEMMA OnlyLoop ==
  ASSUME NEW X, NEW items \in Seq(X), NEW places
  PROVE  \E f : /\ Computes(f, Len(items), Seq(X), <<>>, OnlySteps(X, items, places))
                /\ Only(items, places) = f[Len(items)]
<1> DEFINE N == Len(items)
           Step == OnlySteps(X, items, places)
           Body(g) == [n \in 0..N |-> IF n = 0 THEN <<>> ELSE OnlyTurn(items, places, g[n - 1], n)]
           had == CHOOSE g : g = Body(g)
<1>1. N \in Nat /\ <<>> \in Seq(X)
  OBVIOUS
<1>2. Step \in Steps(N, Seq(X))
  BY DEF Steps, OnlySteps, OnlyTurn
<1>3. PICK f : Computes(f, N, Seq(X), <<>>, Step)
  <2> HIDE DEF N, Step
  <2> QED
    BY <1>1, <1>2, Recursion
<1>4. f = Body(f)
  <2>1. /\ f \in [0..N -> Seq(X)] /\ f[0] = <<>>
        /\ \A n \in 1..N : f[n] = Step[n][f[n - 1]] /\ f[n - 1] \in Seq(X)
    <3>1. \A n \in 1..N : n - 1 \in 0..N
      BY <1>1
    <3> QED
      BY <1>3, <3>1 DEF Computes
  <2>2. \A n \in 1..N : f[n] = OnlyTurn(items, places, f[n - 1], n)
    BY <2>1 DEF OnlySteps
  <2> QED
    BY <2>1, <2>2
<1>5. Only(items, places) = had[N]
  BY Zenon DEF Only, Loop, OnlyTurn
<1>6. had = Body(had)
  <2> HIDE DEF Body
  <2> QED
    BY <1>4
<1>7. \A n \in 0..N : had[n] = Body(had)[n]
  <2> HIDE DEF Body, had
  <2> QED
    BY <1>6
<1>8. had[0] = <<>> /\ \A n \in 1..N : had[n] = OnlyTurn(items, places, had[n - 1], n)
  <2> HIDE DEF had
  <2>1. \A n \in 1..N : n \in 0..N /\ n # 0
    BY <1>1
  <2> QED
    BY <1>1, <1>7, <2>1
<1>9. Computes(had, N, Seq(X), <<>>, Step)
  <2>1. had = [n \in 0..N |-> had[n]]
    <3> HIDE DEF had
    <3> QED BY <1>6
  <2>2. \A n \in 1..N : had[n - 1] \in Seq(X) => had[n] = Step[n][had[n - 1]]
    <3> HIDE DEF had
    <3> QED BY <1>8 DEF OnlySteps
  <2> HIDE DEF N, Step, had
  <2> QED
    BY <1>1, <1>2, <1>8, <2>1, <2>2, Equations
<1> HIDE DEF had
<1> QED
  BY <1>5, <1>9

\* A function of the places up to n is a list.
LEMMA Listed ==
  ASSUME NEW B, NEW n \in Nat, NEW s \in [1..n -> B]
  PROVE  s \in Seq(B) /\ Len(s) = n
<1>1. s \in Seq(B)
  BY SeqDef
<1> QED
  BY <1>1

----------------------------------------------------------------------------
(* Least, greatest, and how many before *)

UpTo(S, n) == {m \in S : m <= n}
Before(M, i) == Cardinality({m \in M : m < i})

\* Min is the least.
LEMMA MinIs ==
  ASSUME NEW T \in SUBSET Nat, T # {}
  PROVE  Min(T) \in T /\ \A y \in T : Min(T) <= y
<1>1. \E x \in T : \A y \in T : x <= y
  BY Least
<1> QED
  BY <1>1 DEF Min

\* Max is the greatest.
LEMMA MaxIs ==
  ASSUME NEW N \in Nat, NEW T \in SUBSET (0..N), T # {}
  PROVE  Max(T) \in T /\ \A y \in T : y <= Max(T)
<1> DEFINE S == {N - y : y \in T}
<1>0. \A y \in T : y \in Nat /\ y <= N /\ N - y \in Nat
  OBVIOUS
<1>1. S \in SUBSET Nat /\ S # {}
  BY <1>0
<1>2. PICK x \in S : \A y \in S : x <= y
  <2> HIDE DEF S
  <2> QED
    BY <1>1, Least
<1>3. PICK z \in T : x = N - z
  OBVIOUS
<1>4. \A y \in T : N - y \in S
  OBVIOUS
<1>5. ASSUME NEW y \in T PROVE z >= y
  <2>1. x <= N - y
    <3> HIDE DEF S
    <3> QED
      BY <1>2, <1>4
  <2> QED
    BY <1>0, <1>3, <2>1
<1>6. \E u \in T : \A y \in T : u >= y
  BY <1>5
<1>7. Max(T) \in T /\ \A y \in T : Max(T) >= y
  BY <1>6 DEF Max
<1> QED
  BY <1>7


\* Those up to n are those before n, and n if it is one.
LEMMA UpToMore ==
  ASSUME NEW N \in Nat, NEW S \in SUBSET (1..N), NEW n \in 1..N
  PROVE  /\ n \in S => UpTo(S, n) = UpTo(S, n - 1) \cup {n}
         /\ n \notin S => UpTo(S, n) = UpTo(S, n - 1)
<1>1. \A m \in S : m <= n <=> m <= n - 1 \/ m = n
  OBVIOUS
<1>2. n \in S => UpTo(S, n) = UpTo(S, n - 1) \cup {n}
  BY <1>1 DEF UpTo
<1>3. n \notin S => UpTo(S, n) = UpTo(S, n - 1)
  BY <1>1 DEF UpTo
<1> QED
  BY <1>2, <1>3

\* How many of S there are up to n, as n grows.
LEMMA Tally ==
  ASSUME NEW N \in Nat, NEW S \in SUBSET (1..N)
  PROVE  /\ UpTo(S, 0) = {} /\ Cardinality(UpTo(S, 0)) = 0 /\ UpTo(S, N) = S
         /\ \A n \in 0..N : Cardinality(UpTo(S, n)) \in Nat
         /\ \A n \in S : Cardinality(UpTo(S, n)) = Cardinality(UpTo(S, n - 1)) + 1
         /\ \A m, n \in 0..N : m <= n =>
              Cardinality(UpTo(S, m)) <= Cardinality(UpTo(S, n))
<1>1. \A n \in 0..N : IsFiniteSet(UpTo(S, n)) /\ Cardinality(UpTo(S, n)) \in Nat
  <2>1. IsFiniteSet(1..N)
    BY FS_Interval
  <2>2. \A n \in 0..N : UpTo(S, n) \subseteq 1..N
    BY DEF UpTo
  <2> QED
    BY <2>1, <2>2, FS_Subset, FS_CardinalityType
<1>2. UpTo(S, 0) = {} /\ UpTo(S, N) = S
  <2>1. \A m \in S : ~(m <= 0)
    OBVIOUS
  <2>2. \A m \in S : m <= N
    OBVIOUS
  <2>3. UpTo(S, 0) = {}
    BY <2>1 DEF UpTo
  <2> QED
    BY <2>2, <2>3 DEF UpTo
<1>3. Cardinality(UpTo(S, 0)) = 0
  BY <1>2, FS_EmptySet
<1>4. ASSUME NEW n \in S PROVE Cardinality(UpTo(S, n)) = Cardinality(UpTo(S, n - 1)) + 1
  <2>1. n \in 1..N /\ n - 1 \in 0..N
    OBVIOUS
  <2>2. UpTo(S, n) = UpTo(S, n - 1) \cup {n}
    BY <2>1, UpToMore
  <2>3. n \notin UpTo(S, n - 1)
    BY <2>1 DEF UpTo
  <2> QED
    BY <1>1, <2>1, <2>2, <2>3, FS_AddElement
<1>5. ASSUME NEW m \in 0..N, NEW n \in 0..N, m <= n
      PROVE  Cardinality(UpTo(S, m)) <= Cardinality(UpTo(S, n))
  <2>1. UpTo(S, m) \subseteq UpTo(S, n)
    <3>1. \A k \in S : k <= m => k <= n
      BY <1>5
    <3> QED
      BY <3>1 DEF UpTo
  <2> QED
    BY <1>1, <2>1, FS_Subset
<1> QED
  BY <1>1, <1>2, <1>3, <1>4, <1>5


\* The number of those before a place, as the place grows.
LEMMA Ranks ==
  ASSUME NEW N \in Nat, NEW M \in SUBSET (1..N)
  PROVE  /\ Before(M, 1) = 0 /\ Before(M, N + 1) = Cardinality(M)
         /\ \A i \in 1..(N + 1) : Before(M, i) \in Nat
         /\ \A i \in 1..N : Before(M, i + 1) = Before(M, i) + (IF i \in M THEN 1 ELSE 0)
         /\ \A i, j \in 1..(N + 1) : i <= j => Before(M, i) <= Before(M, j)
<1> DEFINE C(n) == Cardinality(UpTo(M, n))
<1>1. /\ C(0) = 0 /\ C(N) = Cardinality(M)
      /\ \A n \in 0..N : C(n) \in Nat
      /\ \A n \in M : C(n) = C(n - 1) + 1
      /\ \A m, n \in 0..N : m <= n => C(m) <= C(n)
  BY Tally
<1>2. \A n \in 1..N : n \notin M => C(n) = C(n - 1)
  BY UpToMore
<1>3. ASSUME NEW i \in 1..(N + 1) PROVE Before(M, i) = C(i - 1) /\ i - 1 \in 0..N
  <2>1. \A m \in M : m < i <=> m <= i - 1
    OBVIOUS
  <2>2. {m \in M : m < i} = UpTo(M, i - 1)
    BY <2>1 DEF UpTo
  <2> QED
    BY <2>2 DEF Before
<1> HIDE DEF C
<1>4. \A i \in 1..N : i \in 1..(N + 1) /\ i + 1 \in 1..(N + 1) /\ (i + 1) - 1 = i
  OBVIOUS
<1>5. ASSUME NEW i \in 1..N
      PROVE  Before(M, i + 1) = Before(M, i) + (IF i \in M THEN 1 ELSE 0)
  <2>1. Before(M, i + 1) = C(i) /\ Before(M, i) = C(i - 1) /\ i - 1 \in 0..N
    BY <1>3, <1>4
  <2>2. C(i - 1) \in Nat
    BY <1>1, <2>1
  <2> QED
    BY <1>1, <1>2, <2>1, <2>2
<1>6. Before(M, 1) = 0
  <2>1. 1 \in 1..(N + 1) /\ 1 - 1 = 0
    OBVIOUS
  <2> QED
    BY <1>1, <1>3, <2>1
<1>7. Before(M, N + 1) = Cardinality(M)
  <2>1. N + 1 \in 1..(N + 1) /\ (N + 1) - 1 = N
    OBVIOUS
  <2> QED
    BY <1>1, <1>3, <2>1
<1>8. \A i \in 1..(N + 1) : Before(M, i) \in Nat
  BY <1>1, <1>3
<1>9. ASSUME NEW i \in 1..(N + 1), NEW j \in 1..(N + 1), i <= j
      PROVE  Before(M, i) <= Before(M, j)
  <2>1. i - 1 <= j - 1
    BY <1>9
  <2> QED
    BY <1>1, <1>3, <2>1
<1> QED
  BY <1>5, <1>6, <1>7, <1>8, <1>9

----------------------------------------------------------------------------
(* Splitting *)

\* What is between the marks up to a place, as the place grows.
LEMMA BetweenGrows ==
  ASSUME NEW N \in Nat, NEW M \in SUBSET (1..N), NEW n \in 1..N, NEW k \in Nat
  PROVE  /\ k # Before(M, n) + 1 \/ n \in M => Between(M, k, n) = Between(M, k, n - 1)
         /\ k = Before(M, n) + 2 => Between(M, k, n - 1) = {}
         /\ k = Before(M, n) + 1 /\ n \notin M =>
              /\ Between(M, k, n) = Between(M, k, n - 1) \cup {n}
              /\ Between(M, k, n - 1) = {} \/ n - 1 \in Between(M, k, n - 1)
<1>1. \A i, e : i \in Between(M, k, e) <=> i \in 1..e /\ i \notin M /\ Before(M, i) = k - 1
  BY DEF Between, Before
<1>2. n \in Nat /\ \A i : i \in 1..n <=> i \in 1..(n - 1) \/ i = n
  OBVIOUS
<1>3. Before(M, n) \in Nat /\ \A i \in 1..(n - 1) : Before(M, i) \in Nat /\ Before(M, i) <= Before(M, n)
  <2>1. n \in 1..(N + 1) /\ \A i \in 1..(n - 1) : i \in 1..(N + 1) /\ i <= n
    BY <1>2
  <2> QED
    BY <2>1, Ranks
<1>4. ASSUME k # Before(M, n) + 1 \/ n \in M PROVE Between(M, k, n) = Between(M, k, n - 1)
  <2>1. Before(M, n) # k - 1 \/ n \in M
    BY <1>3, <1>4
  <2>2. \A i : i \in Between(M, k, n) <=> i \in Between(M, k, n - 1)
    BY <1>1, <1>2, <2>1
  <2> QED
    BY <2>2
<1>5. ASSUME k = Before(M, n) + 2 PROVE Between(M, k, n - 1) = {}
  <2>1. \A i \in 1..(n - 1) : Before(M, i) # k - 1
    BY <1>3, <1>5
  <2>2. \A i : i \notin Between(M, k, n - 1)
    BY <1>1, <2>1
  <2> QED
    BY <2>2
<1>6. ASSUME k = Before(M, n) + 1, n \notin M
      PROVE  Between(M, k, n) = Between(M, k, n - 1) \cup {n}
  <2>1. Before(M, n) = k - 1
    BY <1>3, <1>6
  <2>2. \A i : i \in Between(M, k, n) <=> i \in Between(M, k, n - 1) \/ i = n
    BY <1>1, <1>2, <1>6, <2>1
  <2> QED
    BY <2>2
<1>7. ASSUME k = Before(M, n) + 1, n \notin M, NEW i \in Between(M, k, n - 1)
      PROVE  n - 1 \in Between(M, k, n - 1)
  <2>1. i \in 1..(n - 1) /\ Before(M, i) = k - 1 /\ i \notin M
    BY <1>1
  <2>2. n - 1 \in 1..(n - 1) /\ n - 1 \in 1..N /\ i \in 1..(N + 1) /\ n - 1 \in 1..(N + 1)
    BY <2>1
  <2>3. /\ Before(M, i) <= Before(M, n - 1) /\ Before(M, n - 1) \in Nat
        /\ Before(M, (n - 1) + 1) = Before(M, n - 1) + (IF n - 1 \in M THEN 1 ELSE 0)
    <3>1. i <= n - 1
      BY <2>1
    <3>2. Before(M, i) <= Before(M, n - 1)
      BY <2>2, <3>1, Ranks
    <3>3. /\ \A j \in 1..(N + 1) : Before(M, j) \in Nat
          /\ \A j \in 1..N : Before(M, j + 1) = Before(M, j) + (IF j \in M THEN 1 ELSE 0)
      BY Ranks
    <3> QED
      BY <2>2, <3>2, <3>3
  <2>4. (n - 1) + 1 = n
    BY <1>2
  <2>5. Before(M, n) = Before(M, n - 1) + (IF n - 1 \in M THEN 1 ELSE 0)
    BY <2>3, <2>4
  <2>6. Before(M, n - 1) = k - 1 /\ n - 1 \notin M
    BY <1>3, <1>7, <2>1, <2>3, <2>5
  <2> QED
    BY <1>1, <2>2, <2>6
<1> QED
  BY <1>4, <1>5, <1>6, <1>7

\* A part stays as it is, but for the last.
LEMMA BetweenSame ==
  ASSUME NEW N \in Nat, NEW M \in SUBSET (1..N), NEW n \in 1..N, NEW k \in Nat,
         k # Before(M, n) + 1 \/ n \in M
  PROVE  Between(M, k, n) = Between(M, k, n - 1)
BY BetweenGrows

\* A text, character by character.
LEMMA TextIs ==
  ASSUME NEW text \in Texts
  PROVE  /\ Len(text) \in Nat /\ DOMAIN text = 1..Len(text)
         /\ \A i \in 1..Len(text) : text[i] \in Characters
         /\ text = [i \in 1..Len(text) |-> text[i]]
BY DEF Texts

\* A piece is a text.
LEMMA PieceType ==
  ASSUME NEW text \in Texts, NEW B \in SUBSET (1..Len(text))
  PROVE  Piece(text, B) \in Texts
<1>1. CASE B = {}
  BY <1>1 DEF Piece, Texts
<1>2. CASE B # {}
  <2>1. Len(text) \in Nat /\ B \in SUBSET Nat /\ B \in SUBSET (0..Len(text))
    BY TextIs
  <2>2. PICK a, b \in 1..Len(text) : a = Min(B) /\ b = Max(B)
    BY <1>2, <2>1, MinIs, MaxIs
  <2>3. \A i \in a..b : i \in 1..Len(text)
    BY <2>1
  <2>4. SubSeq(text, a, b) \in Seq(Characters)
    <3>1. \A i \in a..b : text[i] \in Characters
      BY <2>3, TextIs
    <3>2. a \in Int /\ b \in Int
      OBVIOUS
    <3> QED
      BY <3>1, <3>2, SubSeqProperties
  <2> QED
    BY <1>2, <2>2, <2>4 DEF Piece, Texts
<1> QED
  BY <1>1, <1>2

\* What is between a and b.
LEMMA PieceIs ==
  ASSUME NEW text \in Texts, NEW a \in 1..Len(text), NEW b \in a..Len(text)
  PROVE  Piece(text, a..b) = SubSeq(text, a, b)
<1>1. Len(text) \in Nat /\ a \in a..b /\ b \in a..b /\ a..b \in SUBSET Nat /\ a..b \in SUBSET (0..Len(text))
  BY TextIs
<1>2. Min(a..b) = a
  <2>1. Min(a..b) \in a..b /\ Min(a..b) <= a
    BY <1>1, MinIs
  <2> QED
    BY <1>1, <2>1
<1>3. Max(a..b) = b
  <2>1. Max(a..b) \in a..b /\ b <= Max(a..b)
    BY <1>1, MaxIs
  <2> QED
    BY <1>1, <2>1
<1> QED
  BY <1>1, <1>2, <1>3 DEF Piece

\* A piece that grows by the character after it.
LEMMA PieceMore ==
  ASSUME NEW text \in Texts, NEW n \in 1..Len(text), NEW B \in SUBSET (1..(n - 1)),
         B = {} \/ n - 1 \in B
  PROVE  Piece(text, B \cup {n}) = Append(Piece(text, B), text[n])
<1>1. /\ Len(text) \in Nat /\ n \in Nat /\ text[n] \in Characters
      /\ \A y \in B : y \in Nat /\ 1 <= y /\ y <= n - 1
      /\ text \in Seq(Characters)
  BY TextIs DEF Texts
<1>2. CASE B = {}
  <2>1. Piece(text, n..n) = SubSeq(text, n, n)
    <3>1. n \in n..Len(text)
      BY <1>1
    <3> QED
      BY <3>1, PieceIs
  <2>2. B \cup {n} = n..n
    BY <1>1, <1>2
  <2>3. SubSeq(text, n, n) = SubSeq(text, n, n - 1) \o <<text[n]>>
    <3>1. n \in n..Len(text)
      BY <1>1
    <3> QED
      BY <1>1, <3>1, SubSeqRecursiveSecond
  <2>4. SubSeq(text, n, n - 1) = <<>>
    BY <1>1, SubSeqEmpty
  <2>5. <<>> \o <<text[n]>> = Append(<<>>, text[n])
    BY <1>1
  <2>6. Piece(text, B) = <<>>
    BY <1>2 DEF Piece
  <2> QED
    BY <2>1, <2>2, <2>3, <2>4, <2>5, <2>6, Zenon
<1>3. CASE n - 1 \in B
  <2>1. PICK C : C = B \cup {n}
    OBVIOUS
  <2>2. /\ B # {} /\ C # {} /\ B \in SUBSET Nat /\ C \in SUBSET Nat
        /\ B \in SUBSET (0..n) /\ C \in SUBSET (0..n)
    BY <1>1, <1>3, <2>1
  <2>3. \A y : y \in C <=> y \in B \/ y = n
    BY <2>1
  <2>4. PICK b : b = Max(B) /\ b \in B /\ \A y \in B : y <= b
    BY <1>1, <2>2, MaxIs
  <2>5. b = n - 1
    BY <1>1, <1>3, <2>4
  <2>6. PICK c : c = Max(C) /\ c \in C /\ \A y \in C : y <= c
    <3>1. Max(C) \in C /\ \A y \in C : y <= Max(C)
      BY <1>1, <2>2, MaxIs
    <3> QED
      BY <3>1
  <2>7. c = n
    <3>1. n <= c /\ (c \in B \/ c = n)
      BY <2>3, <2>6
    <3>2. n \in Nat /\ \A y \in B : y \in Nat /\ y <= n - 1
      BY <1>1
    <3>3. ASSUME c \in B PROVE FALSE
      <4>1. c \in Nat /\ c <= n - 1
        BY <3>2, <3>3
      <4> QED
        BY <3>1, <3>2, <4>1
    <3> QED
      BY <3>1, <3>3
  <2>8. PICK a : a = Min(B) /\ a \in B /\ \A y \in B : a <= y
    BY <2>2, MinIs
  <2>9. PICK d : d = Min(C) /\ d \in C /\ \A y \in C : d <= y
    BY <2>2, MinIs
  <2>10. d = a
    BY <1>1, <2>3, <2>8, <2>9
  <2>11. SubSeq(text, a, n) = Append(SubSeq(text, a, n - 1), text[n])
    <3>1. a \in 1..Len(text) /\ n \in a..Len(text)
      BY <1>1, <2>8
    <3>2. SubSeq(text, a, n) = SubSeq(text, a, n - 1) \o <<text[n]>>
      BY <1>1, <3>1, SubSeqRecursiveSecond
    <3>3. SubSeq(text, a, n - 1) \in Seq(Characters)
      <4>1. \A i \in a..(n - 1) : i \in 1..Len(text)
        BY <1>1, <3>1
      <4>2. \A i \in a..(n - 1) : text[i] \in Characters
        BY <4>1, TextIs
      <4>3. a \in Int /\ n - 1 \in Int
        BY <1>1, <3>1
      <4> QED
        BY <4>2, <4>3, SubSeqProperties
    <3>4. SubSeq(text, a, n - 1) \o <<text[n]>> = Append(SubSeq(text, a, n - 1), text[n])
      BY <1>1, <3>3, AppendIsConcat
    <3> QED
      BY <3>2, <3>4
  <2>12. Piece(text, C) = SubSeq(text, a, n)
    BY <2>2, <2>6, <2>7, <2>9, <2>10 DEF Piece
  <2>13. Piece(text, B) = SubSeq(text, a, n - 1)
    BY <2>2, <2>4, <2>5, <2>8 DEF Piece
  <2> QED
    BY <2>1, <2>11, <2>12, <2>13
<1> QED
  BY <1>2, <1>3

\* A list with one more item.
LEMMA AppendIs ==
  ASSUME NEW X, NEW K \in Nat, NEW f \in [1..K -> X], NEW g \in [1..(K + 1) -> X],
         NEW e, g[K + 1] = e, \A k \in 1..K : g[k] = f[k]
  PROVE  g = Append(f, e)
<1>1. f \in Seq(X) /\ Len(f) = K
  BY Listed
<1>2. K + 1 \in Nat
  OBVIOUS
<1>3. g \in Seq(X) /\ Len(g) = K + 1
  BY <1>2, Listed
<1>4. K + 1 \in 1..(K + 1) /\ e \in X
  OBVIOUS
<1>5. /\ Append(f, e) \in Seq(X) /\ Len(Append(f, e)) = K + 1
      /\ \A k \in 1..K : Append(f, e)[k] = f[k]
      /\ Append(f, e)[K + 1] = e
  BY <1>1, <1>4, AppendProperties
<1>6. \A k \in 1..(K + 1) : k \in 1..K \/ k = K + 1
  OBVIOUS
<1>7. \A k \in 1..(K + 1) : g[k] = Append(f, e)[k]
  BY <1>5, <1>6
<1> QED
  BY <1>3, <1>5, <1>7, SeqEqual

\* One character.
LEMMA OneCharacter ==
  ASSUME NEW X, NEW text \in Seq(X), NEW n \in 1..Len(text)
  PROVE  SubSeq(text, n, n) = <<text[n]>>
<1>1. Len(text) \in Nat /\ n \in Nat /\ n \in n..Len(text) /\ text[n] \in X
  OBVIOUS
<1>2. SubSeq(text, n, n) = SubSeq(text, n, n - 1) \o <<text[n]>>
  BY <1>1, SubSeqRecursiveSecond
<1>3. SubSeq(text, n, n - 1) = <<>>
  BY <1>1, SubSeqEmpty
<1>4. <<text[n]>> \in Seq(X)
  BY <1>1
<1> QED
  BY <1>2, <1>3, <1>4, ConcatEmptySeq

\* What Split has of the characters up to n.
CutParts(text, M, n) == [k \in 1..(Before(M, n + 1) + 1) |-> Piece(text, Between(M, k, n))]
Cut(text, M, n) == [parts |-> CutParts(text, M, n), skip |-> 0]

LEMMA CutPartsType ==
  ASSUME NEW text \in Texts, NEW M \in SUBSET (1..Len(text)), NEW n \in 0..Len(text)
  PROVE  /\ CutParts(text, M, n) \in [1..(Before(M, n + 1) + 1) -> Texts]
         /\ Before(M, n + 1) \in Nat
<1>1. Len(text) \in Nat /\ n + 1 \in 1..(Len(text) + 1)
  BY TextIs
<1>2. Before(M, n + 1) \in Nat
  BY <1>1, Ranks
<1>3. ASSUME NEW k \in 1..(Before(M, n + 1) + 1) PROVE Piece(text, Between(M, k, n)) \in Texts
  <2>1. \A i : i \in Between(M, k, n) => i \in 1..n
    BY DEF Between
  <2>2. Between(M, k, n) \in SUBSET (1..Len(text))
    BY <1>1, <2>1
  <2> QED
    BY <2>2, PieceType
<1> QED
  BY <1>2, <1>3 DEF CutParts

\* A mark begins a part.
LEMMA CutAtMark ==
  ASSUME NEW text \in Texts, NEW M \in SUBSET (1..Len(text)), NEW n \in 1..Len(text), n \in M
  PROVE  CutParts(text, M, n) = Append(CutParts(text, M, n - 1), <<>>)
<1>1. Len(text) \in Nat /\ n - 1 \in 0..Len(text) /\ n \in 0..Len(text) /\ (n - 1) + 1 = n
  BY TextIs
<1> DEFINE K == Before(M, n) + 1
           f == CutParts(text, M, n - 1)
           g == CutParts(text, M, n)
<1>2. f \in [1..(Before(M, (n - 1) + 1) + 1) -> Texts] /\ Before(M, (n - 1) + 1) \in Nat
  BY <1>1, CutPartsType
<1>3. g \in [1..(Before(M, n + 1) + 1) -> Texts] /\ Before(M, n + 1) \in Nat
  BY <1>1, CutPartsType
<1>4. Before(M, n + 1) = Before(M, n) + 1
  <2>1. \A i \in 1..Len(text) : Before(M, i + 1) = Before(M, i) + (IF i \in M THEN 1 ELSE 0)
    BY <1>1, Ranks
  <2> QED
    BY <2>1
<1>5. K \in Nat /\ f \in [1..K -> Texts] /\ g \in [1..(K + 1) -> Texts]
  BY <1>1, <1>2, <1>3, <1>4
<1>6. ASSUME NEW k \in 1..K PROVE g[k] = f[k]
  <2>1. k \in Nat
    BY <1>5
  <2>2. Between(M, k, n) = Between(M, k, n - 1)
    BY <1>1, <2>1, BetweenSame
  <2>3. k \in 1..(Before(M, n + 1) + 1) /\ k \in 1..(Before(M, (n - 1) + 1) + 1)
    BY <1>1, <1>4, <1>5
  <2> QED
    BY <2>2, <2>3 DEF CutParts
<1>7. g[K + 1] = <<>>
  <2>1. K + 1 = Before(M, n) + 2 /\ K + 1 \in Nat
    BY <1>1, <1>2
  <2>2. Between(M, K + 1, n) = {}
    <3>1. Between(M, K + 1, n) = Between(M, K + 1, n - 1)
      BY <1>1, <2>1, BetweenSame
    <3>2. Between(M, K + 1, n - 1) = {}
      BY <1>1, <2>1, BetweenGrows
    <3> QED
      BY <3>1, <3>2
  <2>3. K + 1 \in 1..(Before(M, n + 1) + 1)
    BY <1>4, <1>5
  <2> QED
    BY <2>2, <2>3 DEF CutParts, Piece
<1> HIDE DEF K, f, g
<1>8. g = Append(f, <<>>)
  BY <1>5, <1>6, <1>7, AppendIs
<1> QED
  BY <1>8 DEF f, g

\* Any other character is one more of the last part.
LEMMA CutElsewhere ==
  ASSUME NEW text \in Texts, NEW M \in SUBSET (1..Len(text)), NEW n \in 1..Len(text), n \notin M
  PROVE  LET f == CutParts(text, M, n - 1)
         IN CutParts(text, M, n) = [f EXCEPT ![Len(f)] = Append(@, text[n])]
<1>1. Len(text) \in Nat /\ n - 1 \in 0..Len(text) /\ n \in 0..Len(text) /\ (n - 1) + 1 = n
  BY TextIs
<1> DEFINE K == Before(M, n) + 1
           f == CutParts(text, M, n - 1)
           g == CutParts(text, M, n)
<1>2. f \in [1..(Before(M, (n - 1) + 1) + 1) -> Texts] /\ Before(M, (n - 1) + 1) \in Nat
  BY <1>1, CutPartsType
<1>3. g \in [1..(Before(M, n + 1) + 1) -> Texts] /\ Before(M, n + 1) \in Nat
  BY <1>1, CutPartsType
<1>4. Before(M, n + 1) = Before(M, n)
  <2>1. \A i \in 1..Len(text) : Before(M, i + 1) = Before(M, i) + (IF i \in M THEN 1 ELSE 0)
    BY <1>1, Ranks
  <2> QED
    BY <1>1, <1>2, <2>1
<1>5. K \in Nat /\ K \in 1..K /\ f \in [1..K -> Texts] /\ g \in [1..K -> Texts]
  BY <1>1, <1>2, <1>3, <1>4
<1>6. Len(f) = K
  BY <1>5, Listed
<1>7. ASSUME NEW k \in 1..K, k # K PROVE g[k] = f[k]
  <2>1. k \in Nat
    BY <1>5
  <2>2. Between(M, k, n) = Between(M, k, n - 1)
    BY <1>1, <1>7, <2>1, BetweenSame
  <2>3. k \in 1..(Before(M, n + 1) + 1) /\ k \in 1..(Before(M, (n - 1) + 1) + 1)
    BY <1>1, <1>4, <1>5
  <2> QED
    BY <2>2, <2>3 DEF CutParts
<1>8. g[K] = Append(f[K], text[n])
  <2> DEFINE B == Between(M, K, n - 1)
  <2>1. Between(M, K, n) = B \cup {n} /\ (B = {} \/ n - 1 \in B)
    BY <1>1, <1>5, BetweenGrows
  <2>2. B \in SUBSET (1..(n - 1))
    BY DEF Between
  <2>3. K \in 1..(Before(M, n + 1) + 1) /\ K \in 1..(Before(M, (n - 1) + 1) + 1)
    BY <1>1, <1>4, <1>5
  <2>4. g[K] = Piece(text, Between(M, K, n)) /\ f[K] = Piece(text, B)
    BY <2>3 DEF CutParts
  <2> HIDE DEF B, K, f, g
  <2>5. Piece(text, B \cup {n}) = Append(Piece(text, B), text[n])
    BY <2>1, <2>2, PieceMore
  <2> QED
    BY <2>1, <2>4, <2>5
<1> HIDE DEF K, f, g
<1>9. g = [f EXCEPT ![K] = Append(f[K], text[n])]
  BY <1>5, <1>7, <1>8
<1>10. g = [f EXCEPT ![Len(f)] = Append(@, text[n])]
  BY <1>6, <1>9
<1> QED
  BY <1>10 DEF f, g

\* One turn of Split, with a separator of one character.
LEMMA CutTurn ==
  ASSUME NEW text \in Texts, NEW sep, Len(sep) = 1, NEW n \in 1..Len(text)
  PROVE  SplitTurn(sep, text, Cut(text, Marks(text, sep), n - 1), n) = Cut(text, Marks(text, sep), n)
<1> DEFINE M == Marks(text, sep)
           f == CutParts(text, M, n - 1)
<1>1. M \in SUBSET (1..Len(text)) /\ \A i \in 1..Len(text) : i \in M <=> <<text[i]>> = sep
  BY TextIs DEF Marks
<1>2. SubSeq(text, n, n + Len(sep) - 1) = <<text[n]>>
  <2>1. n + Len(sep) - 1 = n
    OBVIOUS
  <2>2. SubSeq(text, n, n) = <<text[n]>>
    BY OneCharacter DEF Texts
  <2> QED
    BY <2>1, <2>2
<1>3. Cut(text, M, n - 1).parts = f /\ Cut(text, M, n - 1).skip = 0
  BY DEF Cut
<1>4. ASSUME n \in M PROVE SplitTurn(sep, text, Cut(text, M, n - 1), n) = Cut(text, M, n)
  <2>1. CutParts(text, M, n) = Append(f, <<>>)
    BY <1>1, <1>4, CutAtMark
  <2>2. Len(sep) - 1 = 0 /\ ~(0 > 0)
    OBVIOUS
  <2>3. <<text[n]>> = sep
    BY <1>1, <1>4
  <2> HIDE DEF M, f
  <2> QED
    BY <1>2, <1>3, <2>1, <2>2, <2>3, Zenon DEF SplitTurn, Cut
<1>5. ASSUME n \notin M PROVE SplitTurn(sep, text, Cut(text, M, n - 1), n) = Cut(text, M, n)
  <2>1. CutParts(text, M, n) = [f EXCEPT ![Len(f)] = Append(@, text[n])]
    BY <1>1, <1>5, CutElsewhere
  <2>2. ~(0 > 0)
    OBVIOUS
  <2>3. <<text[n]>> # sep
    BY <1>1, <1>5
  <2> HIDE DEF M, f
  <2> QED
    BY <1>2, <1>3, <2>1, <2>2, <2>3, Zenon DEF SplitTurn, Cut
<1> QED
  BY <1>4, <1>5

\* Split by one character: the parts between its places.
LEMMA SplitIs ==
  ASSUME NEW text \in Texts, NEW sep, Len(sep) = 1
  PROVE  Split(text, sep) =
           [k \in 1..(Cardinality(Marks(text, sep)) + 1) |-> CellAt(text, sep, k)]
<1> DEFINE N == Len(text)
           M == Marks(text, sep)
           start == [parts |-> <<<<>>>>, skip |-> 0]
           Body(g) == [n \in 0..N |-> IF n = 0 THEN start ELSE SplitTurn(sep, text, g[n - 1], n)]
           had == CHOOSE g : g = Body(g)
           f == [n \in 0..N |-> Cut(text, M, n)]
<1>1. N \in Nat /\ M \in SUBSET (1..N)
  BY TextIs DEF Marks
<1>2. Cut(text, M, 0) = start
  <2>1. Before(M, 0 + 1) = 0
    <3>1. Before(M, 1) = 0
      <4> HIDE DEF M, N
      <4> QED
        BY <1>1, Ranks
    <3> QED
      BY <3>1
  <2>2. Between(M, 1, 0) = {}
    BY DEF Between
  <2>3. Piece(text, Between(M, 1, 0)) = <<>>
    BY <2>2 DEF Piece
  <2>4. [k \in 1..1 |-> Piece(text, Between(M, k, 0))] = <<<<>>>>
    <3>1. \A k \in 1..1 : Piece(text, Between(M, k, 0)) = <<>>
      BY <2>3
    <3> HIDE DEF M
    <3> QED
      BY <3>1
  <2>5. CutParts(text, M, 0) = <<<<>>>>
    <3> HIDE DEF M
    <3> QED
      BY <2>1, <2>4 DEF CutParts
  <2> QED
    BY <2>5 DEF Cut
<1>3. \A n \in 1..N : Cut(text, M, n) = SplitTurn(sep, text, Cut(text, M, n - 1), n)
  BY CutTurn
<1>4. f = Body(f)
  <2>1. \A n \in 1..N : n - 1 \in 0..N
    BY <1>1
  <2>2. \A n \in 0..N : f[n] = IF n = 0 THEN start ELSE SplitTurn(sep, text, f[n - 1], n)
    <3> HIDE DEF start, M
    <3> QED
      BY <1>1, <1>2, <1>3, <2>1
  <2> HIDE DEF start, N, M
  <2>3. f = [n \in 0..N |-> f[n]]
    OBVIOUS
  <2> HIDE DEF f
  <2> QED
    BY <2>2, <2>3
<1>5. Split(text, sep) = had[N].parts
  <2>1. sep # <<>>
    OBVIOUS
  <2> QED
    BY <2>1, Zenon DEF Split, Loop
<1>6. had = Body(had)
  <2> HIDE DEF Body, f
  <2> QED
    BY <1>4
<1> HIDE DEF f
<1>7. \A n \in 0..N : had[n] = Body(had)[n]
  <2> HIDE DEF Body, had
  <2> QED
    BY <1>6
<1>8. had[0] = start /\ \A n \in 1..N : had[n] = SplitTurn(sep, text, had[n - 1], n)
  <2> HIDE DEF had, start
  <2>1. \A n \in 1..N : n \in 0..N /\ n # 0
    BY <1>1
  <2> QED
    BY <1>1, <1>7, <2>1
<1> HIDE DEF had, start, M, N
<1> DEFINE S == {n \in 0..N : had[n] = Cut(text, M, n)}
<1>9. 0 \in S
  BY <1>1, <1>2, <1>8
<1>10. ASSUME NEW n \in 1..N, n - 1 \in S PROVE n \in S
  <2>1. n \in 0..N
    BY <1>1
  <2> QED
    BY <1>3, <1>8, <1>10, <2>1
<1>11. N \in S
  <2> HIDE DEF S
  <2>1. \A n \in 0..N : n \in S
    BY <1>1, <1>9, <1>10, CountingUpTo
  <2> QED
    BY <1>1, <2>1
<1>12. Split(text, sep) = CutParts(text, M, N)
  <2>1. had[N] = Cut(text, M, N)
    BY <1>11
  <2> QED
    BY <1>5, <2>1 DEF Cut
<1>13. Before(M, N + 1) = Cardinality(M)
  BY <1>1, Ranks
<1>14. CutParts(text, M, N) = [k \in 1..(Cardinality(M) + 1) |-> Piece(text, Between(M, k, N))]
  BY <1>13 DEF CutParts
<1> QED
  BY <1>12, <1>14 DEF M, N, CellAt

----------------------------------------------------------------------------
(* Lines *)

\* A part that is not empty goes from one place to another, up to the mark that
\* ends it or to the end, if it is the last.
LEMMA Stretch ==
  ASSUME NEW N \in Nat, NEW M \in SUBSET (1..N), NEW k \in Nat, Between(M, k, N) # {}
  PROVE  \E a \in 1..N : \E b \in a..N :
           /\ Between(M, k, N) = a..b
           /\ b # N => b + 1 \in M
           /\ b = N => k = Cardinality(M) + 1
<1> DEFINE B == Between(M, k, N)
<1>1. \A i : i \in B <=> i \in 1..N /\ i \notin M /\ Before(M, i) = k - 1
  BY DEF Between, Before
<1> HIDE DEF B
<1>2. /\ Before(M, N + 1) = Cardinality(M)
      /\ \A i \in 1..(N + 1) : Before(M, i) \in Nat
      /\ \A i \in 1..N : Before(M, i + 1) = Before(M, i) + (IF i \in M THEN 1 ELSE 0)
  BY Ranks
<1>3. \A i, j \in 1..(N + 1) : i <= j => Before(M, i) <= Before(M, j)
  BY Ranks
<1>4. B # {} /\ B \in SUBSET Nat /\ B \in SUBSET (0..N)
  <2>1. B # {}
    BY DEF B
  <2> QED
    BY <1>1, <2>1
<1>5. PICK a : a \in B /\ \A y \in B : a <= y
  BY <1>4, MinIs
<1>6. PICK b : b \in B /\ \A y \in B : y <= b
  BY <1>4, MaxIs
<1>7. a \in 1..N /\ b \in a..N
  BY <1>1, <1>5, <1>6
<1>8. ASSUME NEW j \in a..b PROVE j \in B
  <2>1. /\ j \in 1..N /\ j \in 1..(N + 1) /\ a \in 1..(N + 1) /\ b \in 1..(N + 1)
        /\ a <= j /\ j <= b /\ j + 1 \in 1..(N + 1)
    BY <1>7
  <2>2. Before(M, a) = k - 1 /\ Before(M, b) = k - 1 /\ b \notin M
    BY <1>1, <1>5, <1>6
  <2>3. Before(M, a) <= Before(M, j) /\ Before(M, j) <= Before(M, b)
    BY <1>3, <2>1
  <2>4. Before(M, j) = k - 1
    BY <1>2, <2>1, <2>2, <2>3
  <2>5. ASSUME j \in M PROVE FALSE
    <3>1. j # b /\ j + 1 <= b
      BY <2>1, <2>2, <2>5
    <3>2. Before(M, j + 1) <= Before(M, b)
      BY <1>3, <2>1, <3>1
    <3>3. Before(M, j + 1) = Before(M, j) + 1
      BY <1>2, <2>1, <2>5
    <3> QED
      BY <2>2, <2>4, <3>2, <3>3
  <2> QED
    BY <1>1, <2>1, <2>4, <2>5
<1>9. B = a..b
  <2>1. \A i : i \in B => i \in a..b
    <3>1. \A i \in B : i \in Nat /\ a <= i /\ i <= b
      BY <1>4, <1>5, <1>6
    <3> QED
      BY <1>7, <3>1
  <2> QED
    BY <1>8, <2>1
<1>10. ASSUME b # N PROVE b + 1 \in M
  <2>1. b + 1 \in 1..N /\ b \in 1..N /\ b \in Nat
    BY <1>7, <1>10
  <2>2. b \notin M /\ Before(M, b) = k - 1
    BY <1>1, <1>6
  <2>3. Before(M, b + 1) = k - 1
    <3>1. Before(M, b + 1) = Before(M, b) + 0
      BY <1>2, <2>1, <2>2
    <3> QED
      BY <2>2, <3>1
  <2>4. b + 1 \notin B
    <3>1. ~(b + 1 <= b)
      BY <2>1
    <3> QED
      BY <1>6, <3>1
  <2> QED
    BY <1>1, <2>1, <2>3, <2>4
<1>11. ASSUME b = N PROVE k = Cardinality(M) + 1
  <2>1. N \notin M /\ Before(M, N) = k - 1 /\ N \in 1..N
    BY <1>1, <1>6, <1>11
  <2>2. Before(M, N + 1) = Before(M, N) + 0
    BY <1>2, <2>1
  <2> QED
    BY <1>2, <2>1, <2>2
<1> QED
  BY <1>7, <1>9, <1>10, <1>11 DEF B

\* Nothing in the last part is before a mark.
LEMMA LastPart ==
  ASSUME NEW N \in Nat, NEW M \in SUBSET (1..N), NEW i \in Between(M, Cardinality(M) + 1, N)
  PROVE  i + 1 \notin M
<1>1. /\ Before(M, N + 1) = Cardinality(M)
      /\ \A j \in 1..(N + 1) : Before(M, j) \in Nat
      /\ \A j \in 1..N : Before(M, j + 1) = Before(M, j) + (IF j \in M THEN 1 ELSE 0)
  BY Ranks
<1>2. i \in 1..N /\ i \notin M /\ Before(M, i) = (Cardinality(M) + 1) - 1
  BY DEF Between, Before
<1>3. SUFFICES ASSUME i + 1 \in M PROVE FALSE
  OBVIOUS
<1>4. i + 1 \in 1..N /\ (i + 1) + 1 \in 1..(N + 1) /\ N + 1 \in 1..(N + 1) /\ (i + 1) + 1 <= N + 1
  <2>1. i \in Nat /\ i + 1 \in 1..N
    BY <1>2, <1>3
  <2> QED
    BY <2>1
<1>5. Before(M, i + 1) = Before(M, i) + 0
  BY <1>1, <1>2
<1>6. Before(M, (i + 1) + 1) = Before(M, i + 1) + 1
  BY <1>1, <1>3, <1>4
<1>7. Before(M, (i + 1) + 1) <= Before(M, N + 1)
  <2>1. \A j, n \in 1..(N + 1) : j <= n => Before(M, j) <= Before(M, n)
    BY Ranks
  <2> QED
    BY <1>4, <2>1
<1>8. Cardinality(M) \in Nat
  <2>1. N + 1 \in 1..(N + 1)
    OBVIOUS
  <2> QED
    BY <1>1, <2>1
<1> QED
  BY <1>1, <1>2, <1>5, <1>6, <1>7, <1>8

\* A piece of the beginning of a text is one of the text.
LEMMA PieceOfStart ==
  ASSUME NEW text \in Texts, NEW e \in 0..Len(text), NEW B \in SUBSET (1..e)
  PROVE  Piece(SubSeq(text, 1, e), B) = Piece(text, B)
<1> DEFINE body == SubSeq(text, 1, e)
<1>0. Len(text) \in Nat /\ \A i \in 1..e : text[i] \in Characters
  BY TextIs
<1>1. body \in Seq(Characters) /\ Len(body) = e /\ \A i \in 1..e : body[i] = text[i]
  <2>1. 1 \in Int /\ e \in Int
    BY <1>0
  <2> QED
    BY <1>0, <2>1, SubSeqProperties
<1>2. CASE B = {}
  BY <1>2 DEF Piece
<1>3. CASE B # {}
  <2>1. B \in SUBSET Nat /\ B \in SUBSET (0..e) /\ e \in Nat
    BY <1>0
  <2>2. PICK a, b \in 1..e : a = Min(B) /\ b = Max(B)
    <3>1. Min(B) \in B /\ Max(B) \in B
      BY <1>3, <2>1, MinIs, MaxIs
    <3> QED
      BY <3>1
  <2>3. SubSeq(body, a, b) = SubSeq(text, a, b)
    <3>1. \A i \in a..b : i \in 1..e
      BY <2>1
    <3>2. /\ SubSeq(body, a, b) \in Seq(Characters)
          /\ Len(SubSeq(body, a, b)) = IF a <= b THEN b - a + 1 ELSE 0
          /\ \A i \in 1..(b - a + 1) : SubSeq(body, a, b)[i] = body[a + i - 1]
      <4>1. \A i \in a..b : body[i] \in Characters
        BY <1>0, <1>1, <3>1
      <4>2. a \in Int /\ b \in Int
        BY <2>1
      <4> HIDE DEF body
      <4> QED
        BY <4>1, <4>2, SubSeqProperties
    <3>3. /\ SubSeq(text, a, b) \in Seq(Characters)
          /\ Len(SubSeq(text, a, b)) = IF a <= b THEN b - a + 1 ELSE 0
          /\ \A i \in 1..(b - a + 1) : SubSeq(text, a, b)[i] = text[a + i - 1]
      <4>1. \A i \in a..b : text[i] \in Characters
        BY <1>0, <3>1
      <4>2. a \in Int /\ b \in Int
        BY <2>1
      <4> QED
        BY <4>1, <4>2, SubSeqProperties
    <3> HIDE DEF body
    <3>4. \A i \in 1..Len(SubSeq(body, a, b)) : i \in 1..(b - a + 1) /\ a + i - 1 \in 1..e
      BY <2>1, <3>2
    <3>5. \A i \in 1..Len(SubSeq(body, a, b)) : SubSeq(body, a, b)[i] = SubSeq(text, a, b)[i]
      BY <1>1, <3>2, <3>3, <3>4
    <3> QED
      BY <3>2, <3>3, <3>5, SeqEqual
  <2> HIDE DEF body
  <2>4. Piece(body, B) = Piece(text, B)
    BY <1>3, <2>2, <2>3 DEF Piece
  <2> QED
    BY <2>4 DEF body
<1> QED
  BY <1>2, <1>3

\* The beginning of a text.
LEMMA StartOf ==
  ASSUME NEW text \in Texts, NEW e \in 0..Len(text)
  PROVE  /\ SubSeq(text, 1, e) \in Texts /\ Len(SubSeq(text, 1, e)) = e
         /\ \A i \in 1..e : SubSeq(text, 1, e)[i] = text[i]
<1>1. Len(text) \in Nat /\ e \in Nat /\ \A i \in 1..e : text[i] \in Characters
  BY TextIs
<1>2. 1 \in Int /\ e \in Int
  BY <1>1
<1> QED
  BY <1>1, <1>2, SubSeqProperties DEF Texts

\* A piece that ends in a carriage return loses it.
LEMMA UnixPiece ==
  ASSUME NEW text \in Texts, NEW a \in 1..Len(text), NEW b \in a..Len(text)
  PROVE  Unix(Piece(text, a..b)) =
           Piece(text, IF text[b] = CR THEN a..(b - 1) ELSE a..b)
<1>1. Len(text) \in Nat /\ a \in Nat /\ b \in Nat /\ 1 <= a /\ a <= b /\ b <= Len(text) /\ text \in Seq(Characters)
  BY TextIs DEF Texts
<1>2. Piece(text, a..b) = SubSeq(text, a, b)
  BY PieceIs
<1>3. PICK line : line = SubSeq(text, a, b)
  OBVIOUS
<1>4. line \in Seq(Characters) /\ Len(line) = b - a + 1 /\ \A i \in 1..(b - a + 1) : line[i] = text[a + i - 1]
  <2>1. \A i \in a..b : text[i] \in Characters
    BY <1>1, TextIs
  <2>2. a \in Int /\ b \in Int
    BY <1>1
  <2>3. /\ line \in Seq(Characters) /\ Len(line) = IF a <= b THEN b - a + 1 ELSE 0
        /\ \A i \in 1..(b - a + 1) : line[i] = text[a + i - 1]
    BY <1>3, <2>1, <2>2, SubSeqProperties
  <2> QED
    BY <1>1, <2>3
<1>5. line # <<>> /\ Last(line) = text[b]
  <2>1. Len(line) \in 1..(b - a + 1) /\ a + Len(line) - 1 = b
    BY <1>1, <1>4
  <2>2. line[Len(line)] = text[b]
    BY <1>4, <2>1
  <2> QED
    BY <1>1, <1>4, <2>2 DEF Last
<1>6. CASE text[b] # CR
  BY <1>2, <1>3, <1>5, <1>6 DEF Unix
<1>7. CASE text[b] = CR
  <2>1. line = Append(SubSeq(text, a, b - 1), text[b])
    <3>1. a \in 1..Len(text) /\ b \in a..Len(text)
      BY <1>1
    <3>2. line = SubSeq(text, a, b - 1) \o <<text[b]>>
      BY <1>1, <1>3, <3>1, SubSeqRecursiveSecond
    <3>3. SubSeq(text, a, b - 1) \in Seq(Characters) /\ text[b] \in Characters
      <4>1. \A i \in a..(b - 1) : text[i] \in Characters
        BY <1>1, TextIs
      <4>2. a \in Int /\ b - 1 \in Int
        BY <1>1
      <4> QED
        BY <1>1, <4>1, <4>2, SubSeqProperties
    <3> QED
      BY <3>2, <3>3, AppendIsConcat
  <2>2. Front(line) = SubSeq(text, a, b - 1)
    <3>1. SubSeq(text, a, b - 1) \in Seq(Characters) /\ Len(SubSeq(text, a, b - 1)) = b - a
          /\ \A i \in 1..(b - a) : SubSeq(text, a, b - 1)[i] = text[a + i - 1]
      <4>1. \A i \in a..(b - 1) : text[i] \in Characters
        BY <1>1, TextIs
      <4>2. a \in Int /\ b - 1 \in Int
        BY <1>1
      <4>3. (b - 1) - a + 1 = b - a /\ (a <= b - 1 \/ b - a = 0)
        BY <1>1
      <4>4. /\ SubSeq(text, a, b - 1) \in Seq(Characters)
            /\ Len(SubSeq(text, a, b - 1)) = IF a <= b - 1 THEN (b - 1) - a + 1 ELSE 0
            /\ \A i \in 1..((b - 1) - a + 1) : SubSeq(text, a, b - 1)[i] = text[a + i - 1]
        BY <4>1, <4>2, SubSeqProperties
      <4> QED
        BY <1>1, <4>3, <4>4
    <3>2. Len(line) - 1 = b - a /\ b - a \in 0..Len(line)
      BY <1>1, <1>4
    <3>3. /\ SubSeq(line, 1, b - a) \in Texts /\ Len(SubSeq(line, 1, b - a)) = b - a
          /\ \A i \in 1..(b - a) : SubSeq(line, 1, b - a)[i] = line[i]
      BY <1>4, <3>2, StartOf DEF Texts
    <3>4. \A i \in 1..(b - a) : i \in 1..(b - a + 1)
      BY <1>1
    <3>5. \A i \in 1..(b - a) : SubSeq(line, 1, b - a)[i] = SubSeq(text, a, b - 1)[i]
      BY <1>4, <3>1, <3>3, <3>4
    <3>6. SubSeq(line, 1, b - a) = SubSeq(text, a, b - 1)
      BY <3>1, <3>3, <3>5, SeqEqual DEF Texts
    <3> QED
      BY <3>2, <3>6 DEF Front
  <2>3. Piece(text, a..(b - 1)) = SubSeq(text, a, b - 1)
    <3>1. CASE a = b
      <4>1. a..(b - 1) = {} /\ SubSeq(text, a, b - 1) = <<>>
        <5>1. a..(b - 1) = {}
          BY <1>1, <3>1
        <5>2. a \in Int /\ b - 1 \in Int /\ b - 1 < a
          BY <1>1, <3>1
        <5> QED
          BY <5>1, <5>2, SubSeqEmpty
      <4> QED
        BY <4>1 DEF Piece
    <3>2. CASE a # b
      <4>1. b - 1 \in a..Len(text)
        BY <1>1, <3>2
      <4> QED
        BY <4>1, PieceIs
    <3> QED
      BY <3>1, <3>2
  <2> QED
    BY <1>2, <1>3, <1>5, <1>7, <2>2, <2>3 DEF Unix
<1> QED
  BY <1>6, <1>7

\* The end of what is kept of a text that is trimmed at its right.
LEMMA KeptEnd ==
  ASSUME NEW text \in Texts, NEW chars
  PROVE  LET end == Max({0} \cup Outside(text, chars))
         IN /\ end \in 0..Len(text)
            /\ \A i \in 1..Len(text) : i > end => text[i] \in chars
            /\ end # 0 => end \in 1..Len(text) /\ text[end] \notin chars
            /\ Outside(text, chars) = {} => end = 0
<1> DEFINE T == {0} \cup Outside(text, chars)
<1>1. Len(text) \in Nat /\ \A i : i \in Outside(text, chars) <=> i \in 1..Len(text) /\ text[i] \notin chars
  BY TextIs DEF Outside
<1>2. T \in SUBSET (0..Len(text)) /\ T # {} /\ \A i : i \in T <=> i = 0 \/ (i \in 1..Len(text) /\ text[i] \notin chars)
  BY <1>1
<1> HIDE DEF T
<1>3. PICK end : end = Max(T) /\ end \in T /\ \A y \in T : y <= end
  <2>1. Max(T) \in T /\ \A y \in T : y <= Max(T)
    BY <1>1, <1>2, MaxIs
  <2> QED
    BY <2>1
<1>4. end \in 0..Len(text)
  BY <1>2, <1>3
<1>5. ASSUME NEW i \in 1..Len(text), i > end PROVE text[i] \in chars
  <2>1. i \notin T
    <3>1. ~(i <= end)
      BY <1>1, <1>4, <1>5
    <3> QED
      BY <1>3, <3>1
  <2> QED
    BY <1>2, <2>1
<1>6. end # 0 => end \in 1..Len(text) /\ text[end] \notin chars
  BY <1>2, <1>3
<1>7. Outside(text, chars) = {} => end = 0
  BY <1>1, <1>2, <1>3
<1> QED
  BY <1>3, <1>4, <1>5, <1>6, <1>7 DEF T

\* Where the lines of a text end, and the line feeds up to there.
End(text) == Max({0} \cup Outside(text, {CR, LF}))
Feeds(text) == {i \in 1..End(text) : text[i] = LF}
OwnOf(text, n) ==
  {i \in Between(Feeds(text), n, End(text)) : ~(text[i] = CR /\ i + 1 \in Feeds(text))}

LEMMA RefLinesIs ==
  ASSUME NEW text
  PROVE  RefLines(text) =
           IF End(text) = 0 THEN <<>>
           ELSE [n \in 1..(Cardinality(Feeds(text)) + 1) |-> Piece(text, OwnOf(text, n))]
BY DEF RefLines, End, Feeds, OwnOf

LEMMA EndIs ==
  ASSUME NEW text \in Texts
  PROVE  /\ End(text) \in 0..Len(text) /\ End(text) \in Nat
         /\ \A i \in 1..Len(text) : i > End(text) => text[i] \in {CR, LF}
         /\ End(text) # 0 => End(text) \in 1..Len(text) /\ text[End(text)] \notin {CR, LF}
         /\ Feeds(text) \in SUBSET (1..End(text))
         /\ Cardinality(Feeds(text)) \in Nat
<1>1. /\ End(text) \in 0..Len(text)
      /\ \A i \in 1..Len(text) : i > End(text) => text[i] \in {CR, LF}
      /\ End(text) # 0 => End(text) \in 1..Len(text) /\ text[End(text)] \notin {CR, LF}
  BY KeptEnd DEF End
<1>2. Len(text) \in Nat /\ End(text) \in Nat
  BY <1>1, TextIs
<1>3. Feeds(text) \in SUBSET (1..End(text))
  BY DEF Feeds
<1>4. Cardinality(Feeds(text)) \in Nat
  <2>1. IsFiniteSet(1..End(text))
    BY <1>2, FS_Interval
  <2>2. IsFiniteSet(Feeds(text))
    BY <1>3, <2>1, FS_Subset
  <2> QED
    BY <2>2, FS_CardinalityType
<1> QED
  BY <1>1, <1>2, <1>3, <1>4

\* A line of the code is a line by positions.
LEMMA LineIs ==
  ASSUME NEW text \in Texts, End(text) # 0, NEW n \in 1..(Cardinality(Feeds(text)) + 1)
  PROVE  LET part == Piece(text, Between(Feeds(text), n, End(text)))
         IN Piece(text, OwnOf(text, n)) =
              IF n < Cardinality(Feeds(text)) + 1 THEN Unix(part) ELSE part
<1> DEFINE N == End(text)
           M == Feeds(text)
           C == Cardinality(M)
           B == Between(M, n, N)
           own == OwnOf(text, n)
<1>1. N \in Nat /\ M \in SUBSET (1..N) /\ C \in Nat /\ n \in Nat /\ N \in 1..Len(text) /\ Len(text) \in Nat
  BY EndIs, TextIs
<1>2. \A i : i \in own <=> i \in B /\ ~(text[i] = CR /\ i + 1 \in M)
  BY DEF OwnOf
<1>3. \A i \in M : text[i] = LF
  BY DEF Feeds
<1> HIDE DEF N, M, C, own
<1>4. CASE n = C + 1
  <2>1. \A i \in B : i + 1 \notin M
    BY <1>1, <1>4, LastPart DEF C
  <2>2. own = B
    BY <1>2, <2>1
  <2>3. ~(n < C + 1)
    BY <1>1, <1>4
  <2> QED
    BY <2>2, <2>3 DEF N, M, C, own
<1>5. CASE n # C + 1 /\ B = {}
  <2>1. own = {}
    BY <1>2, <1>5
  <2>2. Piece(text, own) = <<>> /\ Piece(text, B) = <<>>
    BY <1>5, <2>1 DEF Piece
  <2>3. Unix(<<>>) = <<>>
    BY DEF Unix
  <2> HIDE DEF B
  <2>4. Piece(text, own) = IF n < C + 1 THEN Unix(Piece(text, B)) ELSE Piece(text, B)
    BY <2>2, <2>3
  <2> QED
    BY <2>4 DEF N, M, C, own, B
<1>6. CASE n # C + 1 /\ B # {}
  <2>1. PICK a \in 1..N : \E b \in a..N : B = a..b /\ b # N /\ b + 1 \in M
    BY <1>1, <1>6, Stretch DEF C
  <2>0. PICK b \in a..N : B = a..b /\ b # N /\ b + 1 \in M
    BY <2>1
  <2>2. a \in 1..Len(text) /\ b \in a..Len(text) /\ a \in Nat /\ b \in Nat
    BY <1>1
  <2>3. Unix(Piece(text, B)) = Piece(text, IF text[b] = CR THEN a..(b - 1) ELSE a..b)
    BY <2>0, <2>2, UnixPiece
  <2>4. \A i \in B : i \notin M
    BY DEF Between
  <2> HIDE DEF B
  <2>5. \A i \in a..b : i + 1 \in M <=> i = b
    <3>1. \A i \in a..b : i # b => i + 1 \in a..b
      BY <2>2
    <3> QED
      BY <2>0, <2>4, <3>1
  <2>6. \A i : i \in own <=> i \in a..b /\ ~(text[b] = CR /\ i = b)
    BY <1>2, <2>0, <2>5
  <2>7. own = IF text[b] = CR THEN a..(b - 1) ELSE a..b
    <3>1. \A i : i \in a..(b - 1) <=> i \in a..b /\ i # b
      BY <2>2
    <3>2. CASE text[b] = CR
      BY <2>6, <3>1, <3>2
    <3>3. CASE text[b] # CR
      BY <2>6, <3>3
    <3> QED
      BY <3>2, <3>3
  <2>8. n < C + 1
    BY <1>1, <1>6 DEF C, M, N
  <2>9. Piece(text, own) = Unix(Piece(text, B))
    BY <2>3, <2>7
  <2> QED
    BY <2>8, <2>9 DEF N, M, C, own, B
<1> QED
  BY <1>4, <1>5, <1>6

\* A list of one.
LEMMA OneItem ==
  ASSUME NEW X, NEW c \in X
  PROVE  <<c>> \in Seq(X) /\ Len(<<c>>) = 1
OBVIOUS

\* A line feed is a text.
LEMMA FeedIsText == <<LF>> \in Texts /\ Len(<<LF>>) = 1 /\ LF \in Characters
<1>1. LF \in Characters
  BY DEF Characters
<1> QED
  BY <1>1, OneItem DEF Texts

\* splitLines gives the lines by positions.
LEMMA LinesRight ==
  ASSUME NEW text \in Texts
  PROVE  Lines(text) = RefLines(text)
<1> DEFINE N == End(text)
           M == Feeds(text)
           C == Cardinality(M)
           body == SubSeq(text, 1, N)
           sep == <<LF>>
<1>1. N \in 0..Len(text) /\ M \in SUBSET (1..N) /\ C \in Nat /\ N \in Nat
  BY EndIs
<1>2. body \in Texts /\ Len(body) = N /\ \A i \in 1..N : body[i] = text[i]
  BY <1>1, StartOf
<1>3. TrimRight(text, {CR, LF}) = body
  BY DEF TrimRight, End
<1>4. body = <<>> <=> N = 0
  <2>1. \A t \in Seq(Characters) : t = <<>> <=> Len(t) = 0
    OBVIOUS
  <2> HIDE DEF body, N
  <2> QED
    BY <1>2, <2>1 DEF Texts
<1>5. CASE N = 0
  <2>1. Lines(text) = <<>>
    BY <1>3, <1>4, <1>5 DEF Lines
  <2>2. RefLines(text) = <<>>
    BY <1>5, RefLinesIs
  <2> QED
    BY <2>1, <2>2
<1>6. CASE N # 0
  <2>1. sep \in Texts /\ Len(sep) = 1
    BY FeedIsText
  <2>2. Marks(body, sep) = M
    <3>1. DOMAIN body = 1..N
      <4> HIDE DEF body
      <4> QED
        BY <1>2 DEF Texts
    <3>2. \A i \in 1..N : <<body[i]>> = sep <=> text[i] = LF
      BY <1>2
    <3> HIDE DEF body, sep
    <3> QED
      BY <3>1, <3>2 DEF Marks, Feeds
  <2> HIDE DEF body, N, M, C
  <2> DEFINE parts == Split(body, sep)
             Part(k) == Piece(text, Between(M, k, N))
  <2>3. parts = [k \in 1..(C + 1) |-> CellAt(body, sep, k)]
    <3> HIDE DEF sep
    <3> QED
      BY <1>2, <2>1, <2>2, SplitIs DEF C
  <2>4. \A k \in 1..(C + 1) : CellAt(body, sep, k) = Part(k)
    <3>1. ASSUME NEW k \in 1..(C + 1) PROVE CellAt(body, sep, k) = Piece(body, Between(M, k, N))
      <4> HIDE DEF sep
      <4> QED
        BY <1>2, <2>2 DEF CellAt
    <3>2. \A k : Between(M, k, N) \in SUBSET (1..N)
      BY DEF Between
    <3>3. \A k : Piece(body, Between(M, k, N)) = Piece(text, Between(M, k, N))
      BY <1>1, <3>2, PieceOfStart DEF body
    <3> QED
      BY <3>1, <3>3
  <2>5. parts = [k \in 1..(C + 1) |-> Part(k)]
    <3> HIDE DEF sep, parts, Part
    <3> QED
      BY <2>3, <2>4
  <2>6. DOMAIN parts = 1..(C + 1) /\ Len(parts) = C + 1
    <3>1. C + 1 \in Nat
      BY <1>1
    <3>2. parts \in [1..(C + 1) -> {Part(k) : k \in 1..(C + 1)}]
      <4> HIDE DEF Part, sep, parts
      <4> QED
        BY <2>5
    <3> HIDE DEF parts
    <3>3. Len(parts) = C + 1
      BY <3>1, <3>2, Listed
    <3> QED
      BY <2>5, <3>3
  <2>7. Lines(text) = [n \in 1..(C + 1) |-> IF n < C + 1 THEN Unix(Part(n)) ELSE Part(n)]
    <3>1. Lines(text) = [n \in DOMAIN parts |-> IF n < Len(parts) THEN Unix(parts[n]) ELSE parts[n]]
      BY <1>3, <1>4, <1>6 DEF Lines
    <3> HIDE DEF Part, parts
    <3> QED
      BY <2>5, <2>6, <3>1
  <2>8. RefLines(text) = [n \in 1..(C + 1) |-> Piece(text, OwnOf(text, n))]
    BY <1>6, RefLinesIs DEF N, M, C
  <2>9. \A n \in 1..(C + 1) : Piece(text, OwnOf(text, n)) = IF n < C + 1 THEN Unix(Part(n)) ELSE Part(n)
    BY <1>6, LineIs DEF N, M, C
  <2> HIDE DEF Part
  <2> QED
    BY <2>7, <2>8, <2>9
<1> QED
  BY <1>5, <1>6

----------------------------------------------------------------------------
(* Joining *)

\* A text without line ends.
Bare(line) == \A i \in 1..Len(line) : line[i] \notin {CR, LF}

\* Two texts with a line feed between them.
LEMMA Fed ==
  ASSUME NEW t \in Texts, NEW r \in Texts
  PROVE  LET u == t \o <<LF>> \o r
         IN /\ u \in Texts /\ Len(u) = Len(t) + 1 + Len(r)
            /\ \A i \in 1..Len(t) : u[i] = t[i]
            /\ u[Len(t) + 1] = LF
            /\ \A i \in 1..Len(r) : u[Len(t) + 1 + i] = r[i]
            /\ t \o <<LF>> = Append(t, LF)
<1>1. t \in Seq(Characters) /\ r \in Seq(Characters) /\ Len(t) \in Nat /\ Len(r) \in Nat
  BY TextIs DEF Texts
<1>2. LF \in Characters
  BY FeedIsText
<1>3. PICK v : v = Append(t, LF)
  OBVIOUS
<1>4. /\ v \in Seq(Characters) /\ Len(v) = Len(t) + 1
      /\ \A i \in 1..Len(t) : v[i] = t[i]
      /\ v[Len(t) + 1] = LF
  BY <1>1, <1>2, <1>3, AppendProperties
<1>5. t \o <<LF>> = v
  BY <1>1, <1>2, <1>3, AppendIsConcat
<1>6. PICK u : u = v \o r
  OBVIOUS
<1>7. /\ u \in Seq(Characters) /\ Len(u) = Len(v) + Len(r)
      /\ \A i \in 1..(Len(v) + Len(r)) : u[i] = IF i <= Len(v) THEN v[i] ELSE r[i - Len(v)]
  <2>1. v \o r \in Seq(Characters) /\ Len(v \o r) = Len(v) + Len(r)
    BY <1>1, <1>4, ConcatProperties
  <2>2. \A i \in 1..(Len(v) + Len(r)) : (v \o r)[i] = IF i <= Len(v) THEN v[i] ELSE r[i - Len(v)]
    BY <1>1, <1>4, ConcatProperties
  <2> QED
    BY <1>6, <2>1, <2>2
<1>8. \A i \in 1..Len(t) : i \in 1..(Len(v) + Len(r)) /\ i <= Len(v)
  BY <1>1, <1>4
<1>9. \A i \in 1..Len(t) : u[i] = t[i]
  BY <1>4, <1>7, <1>8
<1>10. u[Len(t) + 1] = LF
  <2>1. Len(t) + 1 \in 1..(Len(v) + Len(r)) /\ Len(t) + 1 <= Len(v)
    BY <1>1, <1>4
  <2> QED
    BY <1>4, <1>7, <2>1
<1>11. ASSUME NEW i \in 1..Len(r) PROVE u[Len(t) + 1 + i] = r[i]
  <2>1. /\ Len(t) + 1 + i \in 1..(Len(v) + Len(r)) /\ ~(Len(t) + 1 + i <= Len(v))
        /\ Len(t) + 1 + i - Len(v) = i
    BY <1>1, <1>4
  <2> QED
    BY <1>7, <2>1
<1> QED
  BY <1>1, <1>3, <1>4, <1>5, <1>6, <1>7, <1>9, <1>10, <1>11 DEF Texts

\* The marks and what is before them, with one more line.
OneMark(t, M, u, Q) ==
  /\ M \in SUBSET (1..Len(t)) /\ Q \in SUBSET (1..Len(u))
  /\ Q = M \cup {Len(t) + 1} /\ Cardinality(Q) = Cardinality(M) + 1
  /\ Cardinality(M) \in Nat
  /\ \A i \in 1..(Len(t) + 1) : Before(Q, i) = Before(M, i)
  /\ \A i \in 1..Len(u) : i > Len(t) + 1 => Before(Q, i) = Cardinality(M) + 1

LEMMA FedMarks ==
  ASSUME NEW t \in Texts, NEW r \in Texts, Bare(r), NEW u, u = t \o <<LF>> \o r
  PROVE  OneMark(t, Marks(t, <<LF>>), u, Marks(u, <<LF>>))
<1>0. PICK M, Q : M = Marks(t, <<LF>>) /\ Q = Marks(u, <<LF>>)
  OBVIOUS
<1> DEFINE L == Len(t)
<1>1. /\ u \in Texts /\ Len(u) = L + 1 + Len(r) /\ L \in Nat /\ Len(r) \in Nat
      /\ \A i \in 1..L : u[i] = t[i]
      /\ u[L + 1] = LF
      /\ \A i \in 1..Len(r) : u[L + 1 + i] = r[i]
  BY Fed, TextIs
<1>2. /\ \A i : i \in M <=> i \in 1..L /\ t[i] = LF
      /\ \A i : i \in Q <=> i \in 1..Len(u) /\ u[i] = LF
  <2>1. DOMAIN t = 1..L /\ DOMAIN u = 1..Len(u)
    BY <1>1, TextIs
  <2>2. \A c : <<c>> = <<LF>> <=> c = LF
    OBVIOUS
  <2> QED
    BY <1>0, <2>1, <2>2 DEF Marks
<1> HIDE DEF L
<1>3. ASSUME NEW i \in 1..Len(u), i > L + 1 PROVE u[i] # LF
  <2>1. i - (L + 1) \in 1..Len(r) /\ L + 1 + (i - (L + 1)) = i
    BY <1>1, <1>3
  <2>2. u[i] = r[i - (L + 1)]
    BY <1>1, <2>1
  <2> QED
    BY <2>1, <2>2 DEF Bare
<1>4. \A i : i \in Q <=> i \in M \/ i = L + 1
  <2>1. \A i : i \in 1..Len(u) <=> i \in 1..L \/ i = L + 1 \/ (i \in 1..Len(u) /\ i > L + 1)
    BY <1>1
  <2>2. L + 1 \in 1..Len(u)
    BY <1>1
  <2> QED
    BY <1>1, <1>2, <1>3, <2>1, <2>2
<1>5. Q = M \cup {L + 1} /\ M \in SUBSET (1..L) /\ Q \in SUBSET (1..Len(u))
  BY <1>2, <1>4
<1>6. IsFiniteSet(M) /\ Cardinality(M) \in Nat
  <2>1. IsFiniteSet(1..L)
    BY <1>1, FS_Interval
  <2> QED
    BY <1>5, <2>1, FS_Subset, FS_CardinalityType
<1>7. Cardinality(Q) = Cardinality(M) + 1
  <2>1. L + 1 \notin M
    BY <1>1, <1>2
  <2> QED
    BY <1>5, <1>6, <2>1, FS_AddElement
<1>8. ASSUME NEW i \in 1..(L + 1) PROVE Before(Q, i) = Before(M, i)
  <2>1. ~(L + 1 < i)
    BY <1>1
  <2>2. {m \in Q : m < i} = {m \in M : m < i}
    BY <1>4, <2>1
  <2> QED
    BY <2>2 DEF Before
<1>9. ASSUME NEW i \in 1..Len(u), i > L + 1 PROVE Before(Q, i) = Cardinality(M) + 1
  <2>1. \A m \in Q : m < i
    <3>1. \A m \in M : m \in Nat /\ m <= L
      BY <1>1, <1>2
    <3>2. i \in Nat /\ L \in Nat /\ L + 1 < i
      BY <1>1, <1>9
    <3>3. \A m \in M : m < i
      BY <3>1, <3>2
    <3> QED
      BY <1>4, <3>2, <3>3
  <2>2. {m \in Q : m < i} = Q
    BY <2>1
  <2> QED
    BY <1>7, <2>2 DEF Before
<1> QED
  BY <1>0, <1>5, <1>6, <1>7, <1>8, <1>9 DEF OneMark, L

\* Split undoes a line feed.
LEMMA SplitFed ==
  ASSUME NEW t \in Texts, NEW r \in Texts, Bare(r)
  PROVE  Split(t \o <<LF>> \o r, <<LF>>) = Append(Split(t, <<LF>>), r)
<1>0. PICK u, M, Q : u = t \o <<LF>> \o r /\ M = Marks(t, <<LF>>) /\ Q = Marks(u, <<LF>>)
  OBVIOUS
<1> DEFINE L == Len(t)
           C == Cardinality(M)
<1>1. /\ u \in Texts /\ Len(u) = L + 1 + Len(r) /\ L \in Nat /\ Len(r) \in Nat
      /\ \A i \in 1..L : u[i] = t[i]
      /\ \A i \in 1..Len(r) : u[L + 1 + i] = r[i]
  BY <1>0, Fed, TextIs
<1>2. /\ M \in SUBSET (1..L) /\ Q \in SUBSET (1..Len(u))
      /\ Q = M \cup {L + 1} /\ Cardinality(Q) = C + 1 /\ C \in Nat
      /\ \A i \in 1..(L + 1) : Before(Q, i) = Before(M, i)
      /\ \A i \in 1..Len(u) : i > L + 1 => Before(Q, i) = C + 1
  <2>1. OneMark(t, M, u, Q)
    BY <1>0, FedMarks
  <2> QED
    BY <2>1 DEF OneMark
<1>3. /\ Split(t, <<LF>>) = [k \in 1..(C + 1) |-> CellAt(t, <<LF>>, k)]
      /\ Split(u, <<LF>>) = [k \in 1..((C + 1) + 1) |-> CellAt(u, <<LF>>, k)]
  <2>1. Split(t, <<LF>>) = [k \in 1..(C + 1) |-> CellAt(t, <<LF>>, k)]
    BY <1>0, SplitIs, FeedIsText
  <2>2. Split(u, <<LF>>) = [k \in 1..(Cardinality(Q) + 1) |-> CellAt(u, <<LF>>, k)]
    BY <1>0, <1>1, SplitIs, FeedIsText
  <2> HIDE DEF L, C
  <2> QED
    BY <1>2, <2>1, <2>2
<1>4. /\ \A k : CellAt(t, <<LF>>, k) = Piece(t, Between(M, k, L))
      /\ \A k : CellAt(u, <<LF>>, k) = Piece(u, Between(Q, k, Len(u)))
  BY <1>0 DEF CellAt
<1> HIDE DEF L, C
<1>5. \A S, i, k, e : i \in Between(S, k, e) <=> i \in 1..e /\ i \notin S /\ Before(S, i) = k - 1
  BY DEF Between, Before
<1>6. \A i \in 1..(L + 1) : Before(M, i) \in Nat /\ Before(M, i) <= C
  <2>1. \A i \in 1..(L + 1) : i <= L + 1 /\ L + 1 \in 1..(L + 1)
    BY <1>1
  <2>2. \A i, j \in 1..(L + 1) : i <= j => Before(M, i) <= Before(M, j)
    BY <1>1, <1>2, Ranks
  <2>3. Before(M, L + 1) = C /\ \A i \in 1..(L + 1) : Before(M, i) \in Nat
    BY <1>1, <1>2, Ranks DEF C
  <2> QED
    BY <2>1, <2>2, <2>3
<1>7. ASSUME NEW k \in 1..(C + 1) PROVE Piece(u, Between(Q, k, Len(u))) = Piece(t, Between(M, k, L))
  <2>1. Between(Q, k, Len(u)) = Between(M, k, L)
    <3>1. ASSUME NEW i PROVE i \in Between(Q, k, Len(u)) <=> i \in Between(M, k, L)
      <4>1. i \in 1..L => /\ i \in 1..Len(u) /\ (i \in Q <=> i \in M)
                          /\ Before(Q, i) = Before(M, i)
        <5>1. i \in 1..L => i \in 1..Len(u) /\ i # L + 1 /\ i \in 1..(L + 1)
          BY <1>1
        <5> QED
          BY <1>2, <5>1
      <4>2. i = L + 1 => i \in Q
        BY <1>2
      <4>3. i \in 1..Len(u) /\ i > L + 1 => Before(Q, i) # k - 1
        <5>1. C + 1 # k - 1
          BY <1>2
        <5> QED
          BY <1>2, <5>1
      <4>4. i \in 1..Len(u) => i \in 1..L \/ i = L + 1 \/ i > L + 1
        BY <1>1
      <4> QED
        BY <1>5, <4>1, <4>2, <4>3, <4>4
    <3> QED
      BY <3>1
  <2>2. Between(M, k, L) \in SUBSET (1..L)
    BY DEF Between
  <2>3. SubSeq(u, 1, L) = t
    <3>1. L \in 0..Len(u)
      BY <1>1
    <3>2. /\ SubSeq(u, 1, L) \in Texts /\ Len(SubSeq(u, 1, L)) = L
          /\ \A i \in 1..L : SubSeq(u, 1, L)[i] = u[i]
      BY <1>1, <3>1, StartOf
    <3>3. \A i \in 1..L : SubSeq(u, 1, L)[i] = t[i]
      BY <1>1, <3>2
    <3> QED
      BY <3>2, <3>3, SeqEqual DEF Texts, L
  <2>4. L \in 0..Len(u)
    BY <1>1
  <2>5. Piece(SubSeq(u, 1, L), Between(M, k, L)) = Piece(u, Between(M, k, L))
    BY <1>1, <2>2, <2>4, PieceOfStart
  <2> QED
    BY <2>1, <2>3, <2>5
<1>8. Piece(u, Between(Q, C + 2, Len(u))) = r
  <2>1. Between(Q, C + 2, Len(u)) = (L + 2)..Len(u)
    <3>1. ASSUME NEW i PROVE i \in Between(Q, C + 2, Len(u)) <=> i \in (L + 2)..Len(u)
      <4>1. i \in 1..L => Before(Q, i) # (C + 2) - 1
        <5>1. i \in 1..L => i \in 1..(L + 1)
          BY <1>1
        <5> QED
          <6>1. i \in 1..L => Before(Q, i) = Before(M, i) /\ Before(M, i) \in Nat /\ Before(M, i) <= C
            BY <1>2, <1>6, <5>1
          <6> QED
            BY <1>2, <6>1
      <4>2. i = L + 1 => i \in Q
        BY <1>2
      <4>3. i \in 1..Len(u) /\ i > L + 1 => Before(Q, i) = (C + 2) - 1 /\ i \notin Q
        <5>1. i \in 1..Len(u) /\ i > L + 1 => i \notin M /\ i # L + 1
          BY <1>1, <1>2
        <5>2. (C + 2) - 1 = C + 1
          BY <1>2
        <5> QED
          BY <1>2, <5>1, <5>2
      <4>4. i \in 1..Len(u) <=> i \in 1..L \/ i = L + 1 \/ (i \in 1..Len(u) /\ i > L + 1)
        BY <1>1
      <4>5. i \in (L + 2)..Len(u) <=> i \in 1..Len(u) /\ i > L + 1
        BY <1>1
      <4>6. i \in 1..L => ~(i > L + 1)
        BY <1>1
      <4>7. i = L + 1 => ~(i > L + 1)
        BY <1>1
      <4> QED
        BY <1>5, <4>1, <4>2, <4>3, <4>4, <4>5, <4>6, <4>7
    <3> QED
      BY <3>1
  <2>2. CASE Len(r) = 0
    <3>1. (L + 2)..Len(u) = {}
      BY <1>1, <2>2
    <3>2. r = <<>>
      BY <2>2 DEF Texts
    <3> QED
      BY <2>1, <3>1, <3>2 DEF Piece
  <2>3. CASE Len(r) # 0
    <3>1. /\ L + 2 \in 1..Len(u) /\ Len(u) \in (L + 2)..Len(u)
          /\ Len(u) - (L + 2) + 1 = Len(r) /\ L + 2 <= Len(u)
      BY <1>1, <2>3
    <3>2. Piece(u, (L + 2)..Len(u)) = SubSeq(u, L + 2, Len(u))
      BY <1>1, <3>1, PieceIs
    <3>3. /\ SubSeq(u, L + 2, Len(u)) \in Seq(Characters)
          /\ Len(SubSeq(u, L + 2, Len(u))) = Len(r)
          /\ \A i \in 1..Len(r) : SubSeq(u, L + 2, Len(u))[i] = u[(L + 2) + i - 1]
      <4>1. \A i \in (L + 2)..Len(u) : u[i] \in Characters
        <5>1. \A i \in (L + 2)..Len(u) : i \in 1..Len(u)
          BY <1>1
        <5> QED
          BY <1>1, <5>1, TextIs
      <4>2. L + 2 \in Int /\ Len(u) \in Int
        BY <1>1
      <4>3. /\ SubSeq(u, L + 2, Len(u)) \in Seq(Characters)
            /\ Len(SubSeq(u, L + 2, Len(u))) = IF L + 2 <= Len(u) THEN Len(u) - (L + 2) + 1 ELSE 0
            /\ \A i \in 1..(Len(u) - (L + 2) + 1) :
                 SubSeq(u, L + 2, Len(u))[i] = u[(L + 2) + i - 1]
        BY <4>1, <4>2, SubSeqProperties
      <4> QED
        BY <3>1, <4>3
    <3>4. \A i \in 1..Len(r) : (L + 2) + i - 1 = L + 1 + i
      BY <1>1
    <3>5. \A i \in 1..Len(r) : SubSeq(u, L + 2, Len(u))[i] = r[i]
      BY <1>1, <3>3, <3>4
    <3>6. r \in Seq(Characters)
      BY DEF Texts
    <3>7. SubSeq(u, L + 2, Len(u)) = r
      BY <3>3, <3>5, <3>6, SeqEqual
    <3> QED
      BY <2>1, <3>2, <3>7
  <2> QED
    BY <2>2, <2>3
<1> DEFINE f == Split(t, <<LF>>)
           g == Split(u, <<LF>>)
<1>9. f \in [1..(C + 1) -> Texts]
  <2>1. ASSUME NEW k \in 1..(C + 1) PROVE Piece(t, Between(M, k, L)) \in Texts
    <3>1. Between(M, k, L) \in SUBSET (1..L)
      BY DEF Between
    <3> QED
      BY <3>1, PieceType DEF L
  <2> HIDE DEF f
  <2>2. f = [k \in 1..(C + 1) |-> CellAt(t, <<LF>>, k)]
    BY <1>3 DEF f
  <2> QED
    BY <1>4, <2>1, <2>2
<1>10. \A k \in 1..(C + 1) : g[k] = f[k]
  <2>1. \A k \in 1..(C + 1) : k \in 1..((C + 1) + 1)
    BY <1>2
  <2>2. /\ \A k \in 1..(C + 1) : f[k] = CellAt(t, <<LF>>, k)
        /\ \A k \in 1..(C + 1) : g[k] = CellAt(u, <<LF>>, k)
    BY <1>3, <2>1
  <2> HIDE DEF f, g
  <2> QED
    BY <1>4, <1>7, <2>2
<1>11. g[(C + 1) + 1] = r
  <2>1. (C + 1) + 1 \in 1..((C + 1) + 1) /\ (C + 1) + 1 = C + 2
    BY <1>2
  <2>2. g[C + 2] = CellAt(u, <<LF>>, C + 2)
    BY <1>3, <2>1
  <2> HIDE DEF g
  <2> QED
    BY <1>4, <1>8, <2>1, <2>2
<1>12. g \in [1..((C + 1) + 1) -> Texts]
  <2>1. \A k \in 1..((C + 1) + 1) : k \in 1..(C + 1) \/ k = (C + 1) + 1
    BY <1>2
  <2>2. g = [k \in 1..((C + 1) + 1) |-> g[k]]
    BY <1>3
  <2> HIDE DEF f, g
  <2>3. \A k \in 1..((C + 1) + 1) : g[k] \in Texts
    BY <1>9, <1>10, <1>11, <2>1
  <2> QED
    BY <2>2, <2>3
<1>13. C + 1 \in Nat
  BY <1>2
<1> HIDE DEF f, g
<1>14. g = Append(f, r)
  BY <1>9, <1>10, <1>11, <1>12, <1>13, AppendIs
<1> QED
  BY <1>0, <1>14 DEF f, g

\* Split leaves a line as it is.
LEMMA SplitBare ==
  ASSUME NEW r \in Texts, Bare(r)
  PROVE  Split(r, <<LF>>) = <<r>>
<1>1. DOMAIN r = 1..Len(r) /\ Len(r) \in Nat
  BY TextIs
<1>2. Marks(r, <<LF>>) = {}
  <2>1. \A i \in 1..Len(r) : <<r[i]>> # <<LF>>
    BY DEF Bare
  <2> QED
    BY <1>1, <2>1 DEF Marks
<1>3. Cardinality({}) = 0
  BY FS_EmptySet
<1>4. Between({}, 1, Len(r)) = 1..Len(r)
  <2>1. \A i : {m \in {} : m < i} = {}
    OBVIOUS
  <2>2. \A i \in 1..Len(r) : Cardinality({m \in {} : m < i}) = 1 - 1
    BY <1>3, <2>1
  <2> QED
    BY <2>2 DEF Between
<1>5. Piece(r, 1..Len(r)) = r
  <2>1. CASE Len(r) = 0
    <3>1. r = <<>> /\ 1..Len(r) = {}
      BY <2>1 DEF Texts
    <3> QED
      BY <3>1 DEF Piece
  <2>2. CASE Len(r) # 0
    <3>1. 1 \in 1..Len(r) /\ Len(r) \in 1..Len(r)
      BY <1>1, <2>2
    <3>2. Piece(r, 1..Len(r)) = SubSeq(r, 1, Len(r))
      BY <3>1, PieceIs
    <3> QED
      BY <3>2, SubSeqFull DEF Texts
  <2> QED
    BY <2>1, <2>2
<1>6. Split(r, <<LF>>) = [k \in 1..(0 + 1) |-> CellAt(r, <<LF>>, k)]
  BY <1>2, <1>3, SplitIs, FeedIsText
<1>7. CellAt(r, <<LF>>, 1) = r
  BY <1>2, <1>4, <1>5 DEF CellAt
<1>8. 0 + 1 = 1 /\ \A k \in 1..1 : CellAt(r, <<LF>>, k) = r
  BY <1>7
<1> QED
  BY <1>6, <1>8

\* One turn of Join.
JoinTurn(rows, text, n) == text \o (IF n = 1 THEN <<>> ELSE <<LF>>) \o rows[n]
JoinSteps(rows) == [n \in 1..Len(rows) |-> [text \in Texts |-> JoinTurn(rows, text, n)]]

\* Join, as a recursion.
LEMMA JoinLoop ==
  ASSUME NEW rows \in Seq(Texts)
  PROVE  \E f : /\ Computes(f, Len(rows), Texts, <<>>, JoinSteps(rows))
                /\ Join(rows) = f[Len(rows)]
<1> DEFINE N == Len(rows)
           Step == JoinSteps(rows)
           Body(g) == [n \in 0..N |-> IF n = 0 THEN <<>> ELSE JoinTurn(rows, g[n - 1], n)]
           had == CHOOSE g : g = Body(g)
<1>1. N \in Nat /\ <<>> \in Texts
  BY DEF Texts
<1>2. Step \in Steps(N, Texts)
  <2>1. ASSUME NEW text \in Texts, NEW n \in 1..N PROVE JoinTurn(rows, text, n) \in Texts
    <3>1. rows[n] \in Texts
      OBVIOUS
    <3>2. IF n = 1 THEN <<>> \in Texts ELSE <<LF>> \in Texts
      BY <1>1, FeedIsText
    <3>3. text \o (IF n = 1 THEN <<>> ELSE <<LF>>) \in Texts
      BY <3>2, ConcatProperties DEF Texts
    <3> QED
      BY <3>1, <3>3, ConcatProperties DEF JoinTurn, Texts
  <2> QED
    BY <2>1 DEF Steps, JoinSteps
<1>3. PICK f : Computes(f, N, Texts, <<>>, Step)
  <2> HIDE DEF N, Step
  <2> QED
    BY <1>1, <1>2, Recursion
<1>4. f = Body(f)
  <2>1. /\ f \in [0..N -> Texts] /\ f[0] = <<>>
        /\ \A n \in 1..N : f[n] = Step[n][f[n - 1]] /\ f[n - 1] \in Texts
    <3>1. \A n \in 1..N : n - 1 \in 0..N
      BY <1>1
    <3> QED
      BY <1>3, <3>1 DEF Computes
  <2>2. \A n \in 1..N : f[n] = JoinTurn(rows, f[n - 1], n)
    BY <2>1 DEF JoinSteps
  <2> QED
    BY <2>1, <2>2
<1>5. Join(rows) = had[N]
  BY Zenon DEF Join, Loop, JoinTurn
<1>6. had = Body(had)
  <2> HIDE DEF Body
  <2> QED
    BY <1>4
<1>7. \A n \in 0..N : had[n] = Body(had)[n]
  <2> HIDE DEF Body, had
  <2> QED
    BY <1>6
<1>8. had[0] = <<>> /\ \A n \in 1..N : had[n] = JoinTurn(rows, had[n - 1], n)
  <2> HIDE DEF had
  <2>1. \A n \in 1..N : n \in 0..N /\ n # 0
    BY <1>1
  <2> QED
    BY <1>1, <1>7, <2>1
<1>9. Computes(had, N, Texts, <<>>, Step)
  <2>1. had = [n \in 0..N |-> had[n]]
    <3> HIDE DEF had
    <3> QED BY <1>6
  <2>2. \A n \in 1..N : had[n - 1] \in Texts => had[n] = Step[n][had[n - 1]]
    <3> HIDE DEF had
    <3> QED BY <1>8 DEF JoinSteps
  <2> HIDE DEF N, Step, had
  <2> QED
    BY <1>1, <1>2, <1>8, <2>1, <2>2, Equations
<1> HIDE DEF had
<1> QED
  BY <1>5, <1>9

\* What Join has of the first rows.
JoinsTo(f, rows) ==
  /\ Join(rows) = f[Len(rows)] /\ f[0] = <<>> /\ \A n \in 0..Len(rows) : f[n] \in Texts
  /\ 1 <= Len(rows) => f[1] = rows[1]
  /\ \A n \in 2..Len(rows) : f[n] = f[n - 1] \o <<LF>> \o rows[n]

LEMMA Joins ==
  ASSUME NEW rows \in Seq(Texts)
  PROVE  \E f : JoinsTo(f, rows)
<1> DEFINE N == Len(rows)
<1>0. N \in Nat /\ \A n \in 1..N : rows[n] \in Texts
  OBVIOUS
<1>1. PICK f : Computes(f, N, Texts, <<>>, JoinSteps(rows)) /\ Join(rows) = f[N]
  BY JoinLoop
<1> HIDE DEF N
<1>2. f[0] = <<>> /\ \A n \in 0..N : f[n] \in Texts
  BY <1>1 DEF Computes
<1>3. \A n \in 1..N : f[n] = JoinTurn(rows, f[n - 1], n)
  <2>1. ASSUME NEW n \in 1..N PROVE f[n] = JoinTurn(rows, f[n - 1], n)
    <3>1. f[n - 1] \in Texts /\ f[n] = JoinSteps(rows)[n][f[n - 1]]
      BY <1>0, <1>1, Turning
    <3> QED
      BY <3>1 DEF JoinSteps, N
  <2> QED
    BY <2>1
<1>4. ASSUME 1 <= N PROVE f[1] = rows[1]
  <2>1. 1 \in 1..N /\ 1 - 1 = 0
    BY <1>0, <1>4
  <2>2. f[1] = <<>> \o <<>> \o rows[1]
    BY <1>2, <1>3, <2>1 DEF JoinTurn
  <2>3. <<>> \in Seq(Characters) /\ rows[1] \in Seq(Characters)
    BY <1>0, <2>1 DEF Texts
  <2>4. <<>> \o <<>> = <<>> /\ <<>> \o rows[1] = rows[1]
    BY <2>3, ConcatEmptySeq
  <2> QED
    BY <2>2, <2>4
<1>5. ASSUME NEW n \in 2..N PROVE f[n] = f[n - 1] \o <<LF>> \o rows[n]
  <2>1. n \in 1..N /\ n # 1
    BY <1>0
  <2> QED
    BY <1>3, <2>1 DEF JoinTurn
<1> QED
  BY <1>1, <1>2, <1>4, <1>5 DEF JoinsTo, N

\* The first items and the one after them.
LEMMA FirstItems ==
  ASSUME NEW X, NEW rows \in Seq(X), NEW n \in 1..Len(rows)
  PROVE  /\ SubSeq(rows, 1, n) = Append(SubSeq(rows, 1, n - 1), rows[n])
         /\ SubSeq(rows, 1, n - 1) \in Seq(X)
<1>1. Len(rows) \in Nat /\ 1 \in 1..Len(rows) /\ n \in 1..Len(rows) /\ rows[n] \in X
  OBVIOUS
<1>2. SubSeq(rows, 1, n) = SubSeq(rows, 1, n - 1) \o <<rows[n]>>
  BY <1>1, SubSeqRecursiveSecond
<1>3. SubSeq(rows, 1, n - 1) \in Seq(X)
  <2>1. \A i \in 1..(n - 1) : rows[i] \in X
    BY <1>1
  <2>2. 1 \in Int /\ n - 1 \in Int
    BY <1>1
  <2> QED
    BY <2>1, <2>2, SubSeqProperties
<1> QED
  BY <1>1, <1>2, <1>3, AppendIsConcat

\* Split undoes Join.
LEMMA SplitJoined ==
  ASSUME NEW rows \in Seq(Texts), \A n \in 1..Len(rows) : Bare(rows[n]),
         NEW f, JoinsTo(f, rows)
  PROVE  \A n \in 1..Len(rows) : Split(f[n], <<LF>>) = SubSeq(rows, 1, n)
<1> DEFINE N == Len(rows)
           S == {n \in 0..N : n # 0 => Split(f[n], <<LF>>) = SubSeq(rows, 1, n)}
<1>1. N \in Nat /\ \A n \in 1..N : rows[n] \in Texts
  OBVIOUS
<1>2. 0 \in S
  BY <1>1
<1>3. ASSUME NEW n \in 1..N, n - 1 \in S PROVE n \in S
  <2>1. CASE n = 1
    <3>1. Split(rows[1], <<LF>>) = <<rows[1]>>
      BY <2>1, SplitBare
    <3>2. SubSeq(rows, 1, 1) = <<rows[1]>>
      BY <2>1, OneCharacter
    <3>3. f[1] = rows[1]
      BY <1>1, <2>1 DEF JoinsTo
    <3> QED
      BY <1>1, <2>1, <3>1, <3>2, <3>3
  <2>2. CASE n # 1
    <3>1. n \in 2..N /\ n - 1 # 0 /\ n - 1 \in 0..N
      BY <1>1, <2>2
    <3>2. Split(f[n - 1], <<LF>>) = SubSeq(rows, 1, n - 1)
      BY <1>3, <3>1
    <3>3. f[n] = f[n - 1] \o <<LF>> \o rows[n] /\ f[n - 1] \in Texts
      BY <3>1 DEF JoinsTo
    <3>4. Split(f[n], <<LF>>) = Append(Split(f[n - 1], <<LF>>), rows[n])
      BY <1>1, <3>3, SplitFed
    <3>5. SubSeq(rows, 1, n) = Append(SubSeq(rows, 1, n - 1), rows[n])
      BY FirstItems
    <3>6. n \in 0..N
      BY <1>1
    <3> QED
      BY <3>2, <3>4, <3>5, <3>6
  <2> QED
    BY <2>1, <2>2
<1>4. \A n \in 0..N : n \in S
  <2> HIDE DEF S, N
  <2> QED
    BY <1>1, <1>2, <1>3, CountingUpTo
<1> QED
  BY <1>1, <1>4

\* Trimming does not see another line end.
LEMMA TrimMore ==
  ASSUME NEW t \in Texts, NEW c \in {CR, LF}
  PROVE  TrimRight(Append(t, c), {CR, LF}) = TrimRight(t, {CR, LF})
<1>0. PICK u : u = Append(t, c)
  OBVIOUS
<1>1. /\ u \in Texts /\ Len(u) = Len(t) + 1 /\ Len(t) \in Nat
      /\ \A i \in 1..Len(t) : u[i] = t[i]
      /\ u[Len(t) + 1] = c
  <2>1. c \in Characters /\ t \in Seq(Characters)
    BY DEF Characters, Texts
  <2> QED
    BY <1>0, <2>1, AppendProperties DEF Texts
<1>2. Outside(u, {CR, LF}) = Outside(t, {CR, LF})
  <2>1. DOMAIN u = 1..Len(u) /\ DOMAIN t = 1..Len(t)
    BY <1>1, TextIs
  <2>2. \A i : i \in 1..Len(u) <=> i \in 1..Len(t) \/ i = Len(t) + 1
    BY <1>1
  <2>3. \A i : i \in Outside(u, {CR, LF}) <=> i \in Outside(t, {CR, LF})
    BY <1>1, <2>1, <2>2 DEF Outside
  <2> QED
    BY <2>3
<1>3. End(u) = End(t) /\ End(t) \in 0..Len(t) /\ End(t) \in 0..Len(u)
  <2>1. End(t) \in 0..Len(t)
    BY EndIs
  <2> QED
    <3>1. End(u) = End(t)
      BY <1>2 DEF End
    <3>2. End(t) \in 0..Len(u)
      BY <1>1, <2>1
    <3> QED
      BY <2>1, <3>1, <3>2
<1>4. SubSeq(u, 1, End(t)) = SubSeq(t, 1, End(t))
  <2>1. /\ SubSeq(u, 1, End(t)) \in Seq(Characters) /\ Len(SubSeq(u, 1, End(t))) = End(t)
        /\ \A i \in 1..End(t) : SubSeq(u, 1, End(t))[i] = u[i]
    BY <1>1, <1>3, StartOf DEF Texts
  <2>2. /\ SubSeq(t, 1, End(t)) \in Seq(Characters) /\ Len(SubSeq(t, 1, End(t))) = End(t)
        /\ \A i \in 1..End(t) : SubSeq(t, 1, End(t))[i] = t[i]
    BY <1>3, StartOf DEF Texts
  <2>3. \A i \in 1..End(t) : i \in 1..Len(t)
    BY <1>1, <1>3
  <2>4. \A i \in 1..End(t) : SubSeq(u, 1, End(t))[i] = SubSeq(t, 1, End(t))[i]
    BY <1>1, <2>1, <2>2, <2>3
  <2> QED
    BY <2>1, <2>2, <2>4, SeqEqual
<1>5. TrimRight(u, {CR, LF}) = SubSeq(u, 1, End(u)) /\ TrimRight(t, {CR, LF}) = SubSeq(t, 1, End(t))
  BY DEF TrimRight, End
<1> QED
  BY <1>0, <1>3, <1>4, <1>5

\* Nothing is trimmed of a text that does not end in a line end.
LEMMA TrimSame ==
  ASSUME NEW t \in Texts, t # <<>> => t[Len(t)] \notin {CR, LF}
  PROVE  TrimRight(t, {CR, LF}) = t
<1>1. TrimRight(t, {CR, LF}) = SubSeq(t, 1, End(t))
  BY DEF TrimRight, End
<1>2. End(t) \in 0..Len(t) /\ Len(t) \in Nat /\ \A i \in 1..Len(t) : i > End(t) => t[i] \in {CR, LF}
  BY EndIs, TextIs
<1>3. End(t) = Len(t)
  <2>1. CASE t = <<>>
    BY <1>2, <2>1
  <2>2. CASE t # <<>>
    <3>1. Len(t) \in 1..Len(t)
      <4>1. \A s \in Seq(Characters) : s # <<>> => Len(s) # 0
        OBVIOUS
      <4> QED
        BY <1>2, <2>2, <4>1 DEF Texts
    <3>2. ~(Len(t) > End(t))
      BY <1>2, <2>2, <3>1
    <3> QED
      BY <1>2, <3>2
  <2> QED
    BY <2>1, <2>2
<1>4. SubSeq(t, 1, Len(t)) = t
  BY SubSeqFull DEF Texts
<1> QED
  BY <1>1, <1>3, <1>4

\* How a text ends after a line feed.
LEMMA FedEnd ==
  ASSUME NEW t \in Texts, NEW r \in Texts, NEW u, u = t \o <<LF>> \o r
  PROVE  u # <<>> /\ (Len(r) # 0 => u[Len(u)] = r[Len(r)])
<1>1. Len(t) \in Nat /\ Len(r) \in Nat
  BY TextIs
<1>2. Len(u) = Len(t) + 1 + Len(r) /\ \A i \in 1..Len(r) : u[Len(t) + 1 + i] = r[i]
  BY Fed
<1>3. Len(u) # 0
  BY <1>1, <1>2
<1>4. Len(r) # 0 => Len(r) \in 1..Len(r)
  BY <1>1
<1>5. Len(r) # 0 => u[Len(u)] = r[Len(r)]
  BY <1>2, <1>4
<1>6. u # <<>>
  BY <1>3
<1> QED
  BY <1>5, <1>6

\* The last row that is not blank.
LastShown(rows, p) ==
  /\ p \in 0..Len(rows)
  /\ p # 0 => rows[p] # <<>>
  /\ \A n \in 1..Len(rows) : n > p => rows[n] = <<>>

\* Beyond that row there are only line feeds.
LEMMA TrimJoined ==
  ASSUME NEW rows \in Seq(Texts), \A n \in 1..Len(rows) : Bare(rows[n]),
         NEW f, JoinsTo(f, rows), NEW p, LastShown(rows, p)
  PROVE  TrimRight(f[Len(rows)], {CR, LF}) = f[p]
<1> DEFINE N == Len(rows)
           S == {n \in 0..N : n >= p => TrimRight(f[n], {CR, LF}) = f[p]}
<1>1. N \in Nat /\ (\A n \in 1..N : rows[n] \in Texts) /\ p \in 0..N /\ p \in Nat
  BY DEF LastShown
<1>2. \A n \in 0..N : f[n] \in Texts
  BY DEF JoinsTo
<1>3. TrimRight(f[p], {CR, LF}) = f[p]
  <2>1. CASE p = 0
    <3>1. f[p] = <<>>
      BY <2>1 DEF JoinsTo
    <3> QED
      BY <1>1, <1>2, <3>1, TrimSame
  <2>2. CASE p # 0
    <3>1. p \in 1..N /\ rows[p] # <<>> /\ rows[p] \in Texts
      BY <1>1, <2>2 DEF LastShown
    <3>2. Len(rows[p]) \in 1..Len(rows[p]) /\ rows[p][Len(rows[p])] \notin {CR, LF}
      <4>1. \A s \in Seq(Characters) : s # <<>> => Len(s) \in 1..Len(s)
        OBVIOUS
      <4>2. Len(rows[p]) \in 1..Len(rows[p])
        BY <3>1, <4>1 DEF Texts
      <4> QED
        BY <3>1, <4>2 DEF Bare
    <3>3. f[p][Len(f[p])] = rows[p][Len(rows[p])]
      <4>1. CASE p = 1
        BY <1>1, <4>1, <3>1 DEF JoinsTo
      <4>2. CASE p # 1
        <5>1. p \in 2..N /\ p - 1 \in 0..N
          BY <1>1, <3>1, <4>2
        <5>2. f[p] = f[p - 1] \o <<LF>> \o rows[p] /\ f[p - 1] \in Texts
          BY <1>2, <5>1 DEF JoinsTo
        <5>3. f[p][Len(f[p])] = rows[p][Len(rows[p])]
          <6>1. Len(rows[p]) # 0
            BY <3>2
          <6>2. PICK t, r, u : t = f[p - 1] /\ r = rows[p] /\ u = f[p]
            OBVIOUS
          <6>3. t \in Texts /\ r \in Texts /\ u = t \o <<LF>> \o r
            BY <3>1, <5>2, <6>2
          <6>4. Len(r) # 0 => u[Len(u)] = r[Len(r)]
            BY <6>3, FedEnd
          <6> QED
            BY <6>1, <6>2, <6>4
        <5> QED
          BY <5>3
      <4> QED
        BY <4>1, <4>2
    <3> QED
      BY <1>1, <1>2, <3>2, <3>3, TrimSame
  <2> QED
    BY <2>1, <2>2
<1>4. 0 \in S
  BY <1>1, <1>3
<1>5. ASSUME NEW n \in 1..N, n - 1 \in S PROVE n \in S
  <2>1. CASE n < p
    <3>1. n \in 0..N /\ ~(n >= p)
      BY <1>1, <2>1
    <3> QED
      BY <3>1
  <2>2. CASE n = p
    <3>1. n \in 0..N
      BY <1>1
    <3> QED
      BY <1>3, <2>2, <3>1
  <2>3. CASE n > p
    <3>1. n - 1 >= p /\ n - 1 \in 0..N /\ n \in 0..N
      BY <1>1, <2>3
    <3>2. TrimRight(f[n - 1], {CR, LF}) = f[p] /\ f[n - 1] \in Texts
      BY <1>2, <1>5, <3>1
    <3>3. rows[n] = <<>>
      BY <2>3 DEF LastShown
    <3>4. CASE n = 1
      <4>1. f[1] = <<>> /\ f[n - 1] = <<>>
        BY <1>1, <3>3, <3>4 DEF JoinsTo
      <4> QED
        BY <3>1, <3>2, <3>4, <4>1
    <3>5. CASE n # 1
      <4>1. n \in 2..N
        BY <1>1, <3>5
      <4>2. f[n] = f[n - 1] \o <<LF>> \o <<>>
        BY <3>3, <4>1 DEF JoinsTo
      <4>3. f[n - 1] \o <<LF>> = Append(f[n - 1], LF) /\ Append(f[n - 1], LF) \in Seq(Characters)
        <5>1. <<>> \in Texts
          BY DEF Texts
        <5>2. f[n - 1] \in Seq(Characters) /\ LF \in Characters
          BY <3>2, FeedIsText DEF Texts
        <5> QED
          BY <3>2, <5>2, AppendIsConcat, AppendProperties
      <4>4. f[n] = Append(f[n - 1], LF)
        BY <4>2, <4>3, ConcatEmptySeq
      <4>5. TrimRight(f[n], {CR, LF}) = f[p]
        BY <3>2, <4>4, TrimMore
      <4> QED
        BY <3>1, <4>5
    <3> QED
      BY <3>4, <3>5
  <2> QED
    BY <1>1, <2>1, <2>2, <2>3
<1>6. N \in S
  <2> HIDE DEF S, N
  <2>1. \A n \in 0..N : n \in S
    BY <1>1, <1>4, <1>5, CountingUpTo
  <2> QED
    BY <1>1, <2>1
<1> QED
  BY <1>1, <1>6

\* splitLines gives back the rows that were joined, up to the last that is not
\* blank.
LEMMA JoinedLines ==
  ASSUME NEW rows \in Seq(Texts), \A n \in 1..Len(rows) : Bare(rows[n]),
         NEW p, LastShown(rows, p)
  PROVE  Lines(Join(rows)) = SubSeq(rows, 1, p)
<1>1. Len(rows) \in Nat /\ (\A n \in 1..Len(rows) : rows[n] \in Texts) /\ p \in 0..Len(rows)
  BY DEF LastShown
<1>2. PICK f : JoinsTo(f, rows)
  BY Joins
<1>3. TrimRight(Join(rows), {CR, LF}) = f[p]
  <2>1. TrimRight(f[Len(rows)], {CR, LF}) = f[p]
    BY <1>2, TrimJoined
  <2> QED
    BY <1>2, <2>1 DEF JoinsTo
<1>4. CASE p = 0
  <2>1. f[p] = <<>>
    BY <1>2, <1>4 DEF JoinsTo
  <2>2. SubSeq(rows, 1, 0) = <<>>
    BY SubSeqEmpty
  <2> QED
    BY <1>3, <1>4, <2>1, <2>2 DEF Lines
<1>5. CASE p # 0
  <2>1. p \in 1..Len(rows) /\ p \in Nat
    BY <1>1, <1>5
  <2>2. Split(f[p], <<LF>>) = SubSeq(rows, 1, p)
    BY <1>2, <2>1, SplitJoined
  <2>3. PICK q : q = SubSeq(rows, 1, p)
    OBVIOUS
  <2>4. q \in Seq(Texts) /\ Len(q) = p /\ DOMAIN q = 1..p /\ \A n \in 1..p : q[n] = rows[n]
    <3>1. \A i \in 1..p : rows[i] \in Texts
      BY <1>1, <2>1
    <3>2. 1 \in Int /\ p \in Int
      BY <2>1
    <3>3. /\ q \in Seq(Texts) /\ Len(q) = IF 1 <= p THEN p - 1 + 1 ELSE 0
          /\ \A i \in 1..(p - 1 + 1) : q[i] = rows[1 + i - 1]
      BY <2>3, <3>1, <3>2, SubSeqProperties
    <3>4. p - 1 + 1 = p /\ 1 <= p /\ \A i \in 1..p : 1 + i - 1 = i
      BY <2>1
    <3> QED
      BY <3>3, <3>4
  <2>5. f[p] # <<>>
    <3>1. CASE p = 1
      BY <1>1, <1>2, <2>1, <3>1 DEF JoinsTo, LastShown
    <3>2. CASE p # 1
      <4>1. p \in 2..Len(rows) /\ p - 1 \in 0..Len(rows)
        BY <1>1, <2>1, <3>2
      <4>2. f[p] = f[p - 1] \o <<LF>> \o rows[p] /\ f[p - 1] \in Texts /\ rows[p] \in Texts
        BY <1>1, <1>2, <2>1, <4>1 DEF JoinsTo
      <4> QED
        BY <4>2, FedEnd
    <3> QED
      BY <3>1, <3>2
  <2>6. \A n \in 1..p : Unix(q[n]) = q[n]
    <3>1. ASSUME NEW n \in 1..p PROVE Unix(q[n]) = q[n]
      <4>1. q[n] \in Texts /\ Bare(q[n])
        BY <1>1, <2>1, <2>4
      <4>2. q[n] # <<>> => Len(q[n]) \in 1..Len(q[n])
        <5>1. \A s \in Seq(Characters) : s # <<>> => Len(s) \in 1..Len(s)
          OBVIOUS
        <5> QED
          BY <4>1, <5>1 DEF Texts
      <4>3. q[n] # <<>> => Last(q[n]) # CR
        BY <4>1, <4>2 DEF Bare, Last
      <4> QED
        BY <4>3 DEF Unix
    <3> QED
      BY <3>1
  <2>7. Lines(Join(rows)) = [n \in DOMAIN q |-> IF n < Len(q) THEN Unix(q[n]) ELSE q[n]]
    BY <1>3, <2>2, <2>3, <2>5 DEF Lines
  <2>8. q = [n \in 1..p |-> q[n]]
    BY <2>4
  <2> QED
    BY <2>3, <2>4, <2>6, <2>7, <2>8
<1> QED
  BY <1>4, <1>5

----------------------------------------------------------------------------
(* What is kept, by its rank *)

Rank(P, m) == Cardinality(UpTo(P, m))

\* What is kept of the first n items.
KeptOf(items, P, n, q) ==
  /\ Len(q) = Rank(P, n)
  /\ \A m \in UpTo(P, n) : Rank(P, m) \in 1..Len(q) /\ q[Rank(P, m)] = items[m]
  /\ \A j \in 1..Len(q) : \E m \in UpTo(P, n) : j = Rank(P, m)

\* One turn keeps what it should.
LEMMA KeptTurn ==
  ASSUME NEW X, NEW items \in Seq(X), NEW P \in SUBSET (1..Len(items)),
         NEW n \in 1..Len(items), NEW q \in Seq(X), KeptOf(items, P, n - 1, q)
  PROVE  KeptOf(items, P, n, OnlyTurn(items, P, q, n))
<1>1. Len(items) \in Nat /\ n \in Nat /\ n - 1 \in Nat /\ items[n] \in X /\ Len(q) \in Nat
  OBVIOUS
<1>2. CASE n \notin P
  <2>1. UpTo(P, n) = UpTo(P, n - 1)
    <3>1. \A m \in P : m <= n <=> m <= n - 1
      BY <1>1, <1>2
    <3> QED
      BY <3>1 DEF UpTo
  <2>2. OnlyTurn(items, P, q, n) = q
    BY <1>2 DEF OnlyTurn
  <2> QED
    BY <2>1, <2>2 DEF KeptOf, Rank
<1>3. CASE n \in P
  <2>1. UpTo(P, n) = UpTo(P, n - 1) \cup {n}
    BY <1>1, <1>3, UpToMore
  <2>2. PICK r : r = OnlyTurn(items, P, q, n)
    OBVIOUS
  <2>3. /\ r \in Seq(X) /\ Len(r) = Len(q) + 1
        /\ \A i \in 1..Len(q) : r[i] = q[i]
        /\ r[Len(q) + 1] = items[n]
    <3>1. r = Append(q, items[n])
      BY <1>3, <2>2 DEF OnlyTurn
    <3> QED
      BY <1>1, <3>1, AppendProperties
  <2>4. Rank(P, n) = Rank(P, n - 1) + 1 /\ Rank(P, n - 1) = Len(q)
    <3>1. Rank(P, n) = Rank(P, n - 1) + 1
      BY <1>1, <1>3, Tally DEF Rank
    <3> QED
      BY <3>1 DEF KeptOf
  <2>5. ASSUME NEW m \in UpTo(P, n) PROVE Rank(P, m) \in 1..Len(r) /\ r[Rank(P, m)] = items[m]
    <3>1. CASE m = n
      BY <1>1, <2>3, <2>4, <3>1
    <3>2. CASE m \in UpTo(P, n - 1)
      <4>1. Rank(P, m) \in 1..Len(q) /\ q[Rank(P, m)] = items[m]
        BY <3>2 DEF KeptOf
      <4> QED
        BY <1>1, <2>3, <4>1
    <3> QED
      BY <2>1, <3>1, <3>2
  <2>6. ASSUME NEW j \in 1..Len(r) PROVE \E m \in UpTo(P, n) : j = Rank(P, m)
    <3>1. CASE j = Len(q) + 1
      BY <2>1, <2>4, <3>1
    <3>2. CASE j # Len(q) + 1
      <4>1. j \in 1..Len(q)
        BY <1>1, <2>3, <3>2
      <4>2. PICK m \in UpTo(P, n - 1) : j = Rank(P, m)
        BY <4>1 DEF KeptOf
      <4> QED
        BY <2>1, <4>2
    <3> QED
      BY <3>1, <3>2
  <2>7. Len(r) = Rank(P, n)
    BY <2>3, <2>4
  <2> QED
    BY <2>2, <2>5, <2>6, <2>7 DEF KeptOf
<1> QED
  BY <1>2, <1>3

\* Only keeps each item at its rank.
LEMMA OnlyIs ==
  ASSUME NEW X, NEW items \in Seq(X), NEW P \in SUBSET (1..Len(items))
  PROVE  /\ Only(items, P) \in Seq(X) /\ Len(Only(items, P)) = Cardinality(P)
         /\ KeptOf(items, P, Len(items), Only(items, P))
         /\ UpTo(P, Len(items)) = P
<1> DEFINE N == Len(items)
<1>1. PICK f : /\ Computes(f, N, Seq(X), <<>>, OnlySteps(X, items, P))
               /\ Only(items, P) = f[N]
  BY OnlyLoop
<1>2. N \in Nat
  OBVIOUS
<1>3. f[0] = <<>> /\ (\A n \in 0..N : f[n] \in Seq(X)) /\ \A n \in 1..N : f[n] = OnlyTurn(items, P, f[n - 1], n)
  <2>1. f[0] = <<>> /\ \A n \in 0..N : f[n] \in Seq(X)
    BY <1>1 DEF Computes
  <2>2. ASSUME NEW n \in 1..N PROVE f[n] = OnlyTurn(items, P, f[n - 1], n)
    <3>1. f[n - 1] \in Seq(X) /\ f[n] = OnlySteps(X, items, P)[n][f[n - 1]]
      <4> HIDE DEF N
      <4> QED
        BY <1>1, <1>2, Turning
    <3> QED
      BY <3>1 DEF OnlySteps
  <2> QED
    BY <2>1, <2>2
<1> DEFINE S == {n \in 0..N : KeptOf(items, P, n, f[n])}
<1>4. UpTo(P, 0) = {} /\ Rank(P, 0) = 0 /\ UpTo(P, N) = P
  BY <1>2, Tally DEF Rank
<1>5. 0 \in S
  <2>1. KeptOf(items, P, 0, <<>>)
    <3>1. Len(<<>>) = 0 /\ 1..0 = {}
      OBVIOUS
    <3> QED
      BY <1>4, <3>1 DEF KeptOf
  <2> QED
    BY <1>2, <1>3, <2>1
<1>6. ASSUME NEW n \in 1..N, n - 1 \in S PROVE n \in S
  <2>1. n \in 0..N /\ n - 1 \in 0..N
    BY <1>2
  <2>2. KeptOf(items, P, n - 1, f[n - 1]) /\ f[n - 1] \in Seq(X)
    BY <1>3, <1>6, <2>1
  <2>3. KeptOf(items, P, n, OnlyTurn(items, P, f[n - 1], n))
    BY <2>2, KeptTurn
  <2> QED
    BY <1>3, <2>1, <2>3
<1>7. KeptOf(items, P, N, f[N])
  <2>1. \A n \in 0..N : n \in S
    <3> HIDE DEF S, N
    <3> QED
      BY <1>2, <1>5, <1>6, CountingUpTo
  <2> QED
    BY <1>2, <2>1
<1>8. f[N] \in Seq(X)
  BY <1>2, <1>3
<1> QED
  BY <1>1, <1>4, <1>7, <1>8 DEF KeptOf, Rank

\* The same, said of the items.
LEMMA OnlyItems ==
  ASSUME NEW X, NEW items \in Seq(X), NEW P \in SUBSET (1..Len(items)),
         NEW q, q = Only(items, P)
  PROVE  /\ q \in Seq(X) /\ Len(q) = Cardinality(P)
         /\ \A m \in P : Rank(P, m) \in 1..Len(q) /\ q[Rank(P, m)] = items[m]
         /\ \A j \in 1..Len(q) : \E m \in P : j = Rank(P, m) /\ q[j] = items[m]
<1>1. /\ q \in Seq(X) /\ Len(q) = Cardinality(P)
      /\ KeptOf(items, P, Len(items), q) /\ UpTo(P, Len(items)) = P
  BY OnlyIs
<1>2. \A m \in P : Rank(P, m) \in 1..Len(q) /\ q[Rank(P, m)] = items[m]
  BY <1>1 DEF KeptOf
<1>3. \A j \in 1..Len(q) : \E m \in P : j = Rank(P, m)
  BY <1>1 DEF KeptOf
<1>4. \A j \in 1..Len(q) : \E m \in P : j = Rank(P, m) /\ q[j] = items[m]
  BY <1>2, <1>3
<1> QED
  BY <1>1, <1>2, <1>4

\* Ranks grow.
LEMMA RanksGrow ==
  ASSUME NEW N \in Nat, NEW P \in SUBSET (1..N)
  PROVE  /\ Rank(P, 0) = 0
         /\ \A m \in 0..N : Rank(P, m) \in Nat /\ Rank(P, m) <= Cardinality(P)
         /\ \A m, n \in 0..N : m <= n => Rank(P, m) <= Rank(P, n)
         /\ \A m \in P : \A n \in 0..N : n < m => Rank(P, n) < Rank(P, m)
<1>1. /\ Rank(P, 0) = 0 /\ Rank(P, N) = Cardinality(P)
      /\ \A m \in 0..N : Rank(P, m) \in Nat
      /\ \A m \in P : Rank(P, m) = Rank(P, m - 1) + 1
  BY Tally DEF Rank
<1>2. \A m, n \in 0..N : m <= n => Rank(P, m) <= Rank(P, n)
  BY Tally DEF Rank
<1>3. \A m \in 0..N : Rank(P, m) <= Cardinality(P)
  <2>1. \A m \in 0..N : m <= N /\ N \in 0..N
    OBVIOUS
  <2> QED
    BY <1>1, <1>2, <2>1
<1>4. ASSUME NEW m \in P, NEW n \in 0..N, n < m PROVE Rank(P, n) < Rank(P, m)
  <2>1. m - 1 \in 0..N /\ n <= m - 1
    BY <1>4
  <2>2. Rank(P, n) <= Rank(P, m - 1) /\ Rank(P, n) \in Nat /\ Rank(P, m - 1) \in Nat
    BY <1>1, <1>2, <2>1
  <2> QED
    BY <1>1, <2>2
<1> QED
  BY <1>1, <1>2, <1>3, <1>4

----------------------------------------------------------------------------
(* What is shown *)

\* Lines are texts.
LEMMA LinesType ==
  ASSUME NEW text \in Texts
  PROVE  RefLines(text) \in Seq(Texts) /\ Lines(text) = RefLines(text)
<1>1. CASE End(text) = 0
  <2>1. RefLines(text) = <<>>
    BY <1>1, RefLinesIs
  <2> QED
    BY <2>1, LinesRight
<1>2. CASE End(text) # 0
  <2> DEFINE C == Cardinality(Feeds(text))
             f == [n \in 1..(C + 1) |-> Piece(text, OwnOf(text, n))]
  <2>1. C + 1 \in Nat /\ End(text) \in 1..Len(text) /\ Len(text) \in Nat
    BY <1>2, EndIs, TextIs
  <2>2. ASSUME NEW n \in 1..(C + 1) PROVE Piece(text, OwnOf(text, n)) \in Texts
    <3>1. OwnOf(text, n) \in SUBSET (1..Len(text))
      <4>1. \A i : i \in OwnOf(text, n) => i \in 1..End(text)
        BY DEF OwnOf, Between
      <4>2. \A i \in 1..End(text) : i \in 1..Len(text)
        BY <2>1
      <4> QED
        BY <4>1, <4>2
    <3> QED
      BY <3>1, PieceType
  <2>3. f \in [1..(C + 1) -> Texts]
    BY <2>2
  <2> HIDE DEF C, f
  <2>4. f \in Seq(Texts)
    BY <2>1, <2>3, Listed
  <2>5. RefLines(text) = f
    BY <1>2, RefLinesIs DEF C, f
  <2> QED
    BY <2>4, <2>5, LinesRight
<1> QED
  BY <1>1, <1>2

\* The last row shown, among the rows and among those picked.
LEMMA LastPicked ==
  ASSUME NEW rows \in Seq(Texts), NEW P \in SUBSET (1..Len(rows)),
         NEW row, \A n \in P : row[n] = rows[n],
         NEW last, last = Max({0} \cup {n \in P : row[n] # <<>>})
  PROVE  last \in 0..Len(rows) /\ LastShown(Only(rows, P), Rank(P, last))
<1> DEFINE N == Len(rows)
           T == {0} \cup {n \in P : row[n] # <<>>}
<1>0. PICK q : q = Only(rows, P)
  OBVIOUS
<1>2. \A n : n \in T <=> n = 0 \/ (n \in P /\ row[n] # <<>>)
  OBVIOUS
<1>1. N \in Nat /\ T \in SUBSET (0..N) /\ T # {}
  <2>0. Len(rows) \in Nat /\ P \in SUBSET (1..Len(rows))
    OBVIOUS
  <2>1. N \in Nat /\ 0 \in 0..N /\ \A n \in P : n \in 0..N
    <3> HIDE DEF T
    <3> QED
      BY <2>0
  <2> HIDE DEF T, N
  <2> QED
    BY <1>2, <2>1
<1> HIDE DEF T, N
<1>3. last \in T /\ \A n \in T : n <= last
  BY <1>1, MaxIs DEF T
<1>4. last \in 0..N /\ last \in Nat
  BY <1>1, <1>3
<1>5. /\ q \in Seq(Texts) /\ Len(q) = Cardinality(P)
      /\ \A m \in P : Rank(P, m) \in 1..Len(q) /\ q[Rank(P, m)] = rows[m]
      /\ \A j \in 1..Len(q) : \E m \in P : j = Rank(P, m) /\ q[j] = rows[m]
  BY <1>0, OnlyItems
<1>6. /\ Rank(P, 0) = 0
      /\ \A m \in 0..N : Rank(P, m) \in Nat /\ Rank(P, m) <= Cardinality(P)
      /\ \A m, n \in 0..N : m <= n => Rank(P, m) <= Rank(P, n)
  BY <1>1, RanksGrow DEF N
<1>7. Len(q) \in Nat
  BY <1>5
<1>8. Rank(P, last) \in 0..Len(q)
  BY <1>4, <1>5, <1>6, <1>7
<1>9. ASSUME Rank(P, last) # 0 PROVE q[Rank(P, last)] # <<>>
  <2>1. last # 0
    BY <1>6, <1>9
  <2>2. last \in P /\ row[last] # <<>>
    BY <1>2, <1>3, <2>1
  <2> QED
    BY <1>5, <2>2
<1>10. ASSUME NEW j \in 1..Len(q), j > Rank(P, last) PROVE q[j] = <<>>
  <2>1. PICK m \in P : j = Rank(P, m) /\ q[j] = rows[m]
    BY <1>5
  <2>2. m \in 0..N /\ m \in Nat /\ m \in 1..N
    BY <1>1 DEF N
  <2>3. ~(m <= last)
    <3>1. m <= last => Rank(P, m) <= Rank(P, last)
      BY <1>4, <1>6, <2>2
    <3>2. Rank(P, last) \in Nat /\ Rank(P, m) \in Nat
      BY <1>4, <1>6, <2>2
    <3> QED
      BY <1>10, <2>1, <3>1, <3>2
  <2>4. m \notin T
    BY <1>3, <2>3
  <2>5. row[m] = <<>>
    BY <1>2, <2>4
  <2> QED
    BY <2>1, <2>5
<1> QED
  BY <1>0, <1>4, <1>8, <1>9, <1>10 DEF LastShown, N

\* The first items of a list are those of another.
LEMMA SameItems ==
  ASSUME NEW X, NEW L \in Seq(X), NEW q \in Seq(X), NEW p \in 0..Len(q)
  PROVE  L = SubSeq(q, 1, p) <=> Len(L) = p /\ \A j \in 1..p : L[j] = q[j]
<1>1. Len(q) \in Nat /\ p \in Nat
  OBVIOUS
<1>2. PICK s : s = SubSeq(q, 1, p)
  OBVIOUS
<1>3. s \in Seq(X) /\ Len(s) = p /\ \A i \in 1..p : s[i] = q[i]
  <2>1. \A i \in 1..p : q[i] \in X
    BY <1>1
  <2>2. 1 \in Int /\ p \in Int
    BY <1>1
  <2>3. /\ s \in Seq(X) /\ Len(s) = IF 1 <= p THEN p - 1 + 1 ELSE 0
        /\ \A i \in 1..(p - 1 + 1) : s[i] = q[1 + i - 1]
    BY <1>2, <2>1, <2>2, SubSeqProperties
  <2>4. p - 1 + 1 = p /\ (1 <= p \/ p = 0) /\ \A i \in 1..p : 1 + i - 1 = i
    BY <1>1
  <2> QED
    BY <1>1, <2>3, <2>4
<1>4. L = s => Len(L) = p /\ \A j \in 1..p : L[j] = q[j]
  BY <1>3
<1>5. ASSUME Len(L) = p, \A j \in 1..p : L[j] = q[j] PROVE L = s
  <2>1. \A j \in 1..Len(L) : L[j] = s[j]
    BY <1>3, <1>5
  <2> QED
    BY <1>3, <1>5, <2>1, SeqEqual
<1> QED
  BY <1>2, <1>4, <1>5

\* The lines of an output are those of the rows picked and joined, exactly if it
\* shows these.
LEMMA ShowsIs ==
  ASSUME NEW got \in Texts, NEW rows \in Seq(Texts), \A n \in 1..Len(rows) : Bare(rows[n]),
         NEW P \in SUBSET (1..Len(rows)), NEW row, \A n \in P : row[n] = rows[n]
  PROVE  SameLines(got, Join(Only(rows, P))) <=> Shows(got, P, row)
<1>0. PICK q, last, L : /\ q = Only(rows, P) /\ last = Max({0} \cup {n \in P : row[n] # <<>>})
                        /\ L = RefLines(got)
  OBVIOUS
<1> DEFINE p == Rank(P, last)
           kept == {n \in P : n <= last}
<1>1. L \in Seq(Texts) /\ Lines(got) = L
  BY <1>0, LinesType
<1>2. /\ q \in Seq(Texts) /\ Len(q) = Cardinality(P)
      /\ \A m \in P : Rank(P, m) \in 1..Len(q) /\ q[Rank(P, m)] = rows[m]
      /\ \A j \in 1..Len(q) : \E m \in P : j = Rank(P, m) /\ q[j] = rows[m]
  BY <1>0, OnlyItems
<1>3. last \in 0..Len(rows) /\ LastShown(q, p)
  BY <1>0, LastPicked
<1>4. \A j \in 1..Len(q) : Bare(q[j])
  BY <1>2
<1>5. Lines(Join(q)) = SubSeq(q, 1, p)
  BY <1>2, <1>3, <1>4, JoinedLines
<1>6. p \in 0..Len(q)
  BY <1>3 DEF LastShown
<1>7. SameLines(got, Join(q)) <=> Len(L) = p /\ \A j \in 1..p : L[j] = q[j]
  <2>1. SameLines(got, Join(q)) <=> L = SubSeq(q, 1, p)
    BY <1>1, <1>5 DEF SameLines
  <2> HIDE DEF p
  <2>2. L = SubSeq(q, 1, p) <=> Len(L) = p /\ \A j \in 1..p : L[j] = q[j]
    BY <1>1, <1>2, <1>6, SameItems
  <2> QED
    BY <2>1, <2>2
<1>8. kept = UpTo(P, last) /\ p = Cardinality(kept)
  BY DEF UpTo, Rank
<1>9. ASSUME NEW n \in kept PROVE Cardinality({m \in kept : m <= n}) = Rank(P, n)
  <2>1. \A m \in P : m <= n => m <= last
    BY <1>3, <1>9
  <2>2. {m \in kept : m <= n} = UpTo(P, n)
    BY <2>1 DEF UpTo
  <2> QED
    BY <2>2 DEF Rank
<1>10. Shows(got, P, row) <=> Len(L) = p /\ \A n \in kept : L[Rank(P, n)] = row[n]
  <2>1. Shows(got, P, row) <=>
          Len(L) = Cardinality(kept) /\ \A n \in kept : L[Cardinality({m \in kept : m <= n})] = row[n]
    BY <1>0, Zenon DEF Shows
  <2> HIDE DEF kept, p
  <2> QED
    BY <1>8, <1>9, <2>1
<1>11. /\ Len(rows) \in Nat
       /\ \A m, n \in 0..Len(rows) : m <= n => Rank(P, m) <= Rank(P, n)
       /\ \A m \in P : \A n \in 0..Len(rows) : n < m => Rank(P, n) < Rank(P, m)
       /\ \A m \in 0..Len(rows) : Rank(P, m) \in Nat
  <2>1. Len(rows) \in Nat
    OBVIOUS
  <2> QED
    BY <2>1, RanksGrow
<1>12. \A m \in P : m \in kept <=> Rank(P, m) \in 1..p
  <2>1. ASSUME NEW m \in P PROVE m \in kept <=> Rank(P, m) \in 1..p
    <3>1. m \in 0..Len(rows) /\ m \in Nat /\ last \in Nat /\ last \in 0..Len(rows)
      BY <1>3, <1>11
    <3>2. Rank(P, m) \in 1..Len(q) /\ Rank(P, m) \in Nat
      BY <1>2, <1>11, <3>1
    <3>3. m <= last => Rank(P, m) <= p
      BY <1>11, <3>1
    <3>4. last < m => p < Rank(P, m)
      BY <1>11, <3>1
    <3>5. p \in Nat
      BY <1>11, <3>1
    <3>6. m \in kept <=> m <= last
      OBVIOUS
    <3> HIDE DEF kept, p
    <3> QED
      BY <3>1, <3>2, <3>3, <3>4, <3>5, <3>6
  <2> QED
    BY <2>1
<1> HIDE DEF kept, p
<1>13. (\A j \in 1..p : L[j] = q[j]) <=> \A n \in kept : L[Rank(P, n)] = row[n]
  <2>1. kept \subseteq P
    BY DEF kept
  <2>2. ASSUME \A j \in 1..p : L[j] = q[j], NEW n \in kept PROVE L[Rank(P, n)] = row[n]
    <3>1. n \in P /\ Rank(P, n) \in 1..p
      BY <1>12, <2>1
    <3> QED
      BY <1>2, <2>2, <3>1
  <2>3. ASSUME \A n \in kept : L[Rank(P, n)] = row[n], NEW j \in 1..p PROVE L[j] = q[j]
    <3>1. j \in 1..Len(q)
      BY <1>2, <1>6
    <3>2. PICK m \in P : j = Rank(P, m) /\ q[j] = rows[m]
      BY <1>2, <3>1
    <3>3. m \in kept
      BY <1>12, <3>2
    <3> QED
      BY <2>3, <3>2, <3>3
  <2> QED
    BY <2>2, <2>3
<1> QED
  BY <1>0, <1>7, <1>10, <1>13

----------------------------------------------------------------------------
(* Filters and columns *)

\* What a line has is next to each other.
LEMMA OwnStretch ==
  ASSUME NEW text \in Texts, NEW n \in Nat, OwnOf(text, n) # {}
  PROVE  \E c \in 1..End(text) : \E e \in c..End(text) : OwnOf(text, n) = c..e
<1> DEFINE N == End(text)
           M == Feeds(text)
           B == Between(M, n, N)
           own == OwnOf(text, n)
<1>1. N \in Nat /\ M \in SUBSET (1..N)
  BY EndIs
<1>2. \A i : i \in own <=> i \in B /\ ~(text[i] = CR /\ i + 1 \in M)
  BY DEF OwnOf
<1>3. \A i \in B : i \in 1..N /\ i \notin M
  BY DEF Between
<1> HIDE DEF N, M, B, own
<1>4. own # {} /\ B # {}
  BY <1>2 DEF own
<1>5. PICK a \in 1..N : \E b \in a..N : B = a..b
  BY <1>1, <1>4, Stretch DEF B
<1>6. PICK b \in a..N : B = a..b
  BY <1>5
<1>7. own \in SUBSET Nat /\ own \in SUBSET (0..N)
  BY <1>1, <1>2, <1>3
<1>8. PICK c : c \in own /\ \A y \in own : c <= y
  BY <1>4, <1>7, MinIs
<1>9. PICK e : e \in own /\ \A y \in own : y <= e
  BY <1>1, <1>4, <1>7, MaxIs
<1>10. /\ c \in 1..N /\ e \in c..N /\ c \in a..b /\ e \in a..b
       /\ a \in Nat /\ b \in Nat
  BY <1>1, <1>2, <1>3, <1>6, <1>8, <1>9
<1>11. ASSUME NEW i \in c..e PROVE i \in own
  <2>1. CASE i = e
    BY <1>9, <2>1
  <2>2. CASE i # e
    <3>1. i \in a..b /\ i + 1 \in a..b
      BY <1>10, <2>2
    <3>2. i \in B /\ i + 1 \notin M
      BY <1>3, <1>6, <3>1
    <3> QED
      BY <1>2, <3>2
  <2> QED
    BY <2>1, <2>2
<1>12. ASSUME NEW i \in own PROVE i \in c..e
  <2>1. i \in Nat /\ c <= i /\ i <= e
    BY <1>7, <1>8, <1>9
  <2> QED
    BY <1>10, <2>1
<1>13. own = c..e
  BY <1>11, <1>12
<1> QED
  BY <1>10, <1>13 DEF own, N

\* The characters of a piece.
LEMMA PieceChars ==
  ASSUME NEW text \in Texts, NEW a \in 1..Len(text), NEW b \in a..Len(text),
         NEW i \in 1..Len(Piece(text, a..b))
  PROVE  a + i - 1 \in a..b /\ Piece(text, a..b)[i] = text[a + i - 1]
<1>1. Len(text) \in Nat /\ a \in Int /\ b \in Int /\ a <= b
  BY TextIs
<1>2. \A j \in a..b : text[j] \in Characters
  BY <1>1, TextIs
<1>3. PICK s : s = SubSeq(text, a, b)
  OBVIOUS
<1>4. Piece(text, a..b) = s
  BY <1>3, PieceIs
<1>5. /\ Len(s) = IF a <= b THEN b - a + 1 ELSE 0
      /\ \A j \in 1..(b - a + 1) : s[j] = text[a + j - 1]
  BY <1>1, <1>2, <1>3, SubSeqProperties
<1>6. i \in 1..(b - a + 1)
  BY <1>1, <1>4, <1>5
<1> QED
  BY <1>1, <1>4, <1>5, <1>6

\* A piece of characters that are no line ends.
LEMMA BarePiece ==
  ASSUME NEW text \in Texts, NEW a \in 1..Len(text), NEW b \in a..Len(text),
         \A i \in a..b : text[i] \notin {CR, LF}
  PROVE  Bare(Piece(text, a..b))
BY PieceChars DEF Bare

\* A piece of nothing.
LEMMA BareNothing == ASSUME NEW text PROVE Bare(Piece(text, {}))
BY DEF Bare, Piece

\* A cell of a line without line ends has none.
LEMMA BareCell ==
  ASSUME NEW line \in Texts, Bare(line), NEW delimiter, NEW k
  PROVE  CellAt(line, delimiter, k) \in Texts /\ Bare(CellAt(line, delimiter, k))
<1> DEFINE B == Between(Marks(line, delimiter), k, Len(line))
<1>1. B \in SUBSET (1..Len(line)) /\ Len(line) \in Nat
  BY TextIs DEF Between
<1>2. CellAt(line, delimiter, k) = Piece(line, B)
  BY DEF CellAt
<1> HIDE DEF B
<1>3. Piece(line, B) \in Texts
  BY <1>1, PieceType
<1>4. CASE B = {}
  BY <1>2, <1>3, <1>4, BareNothing
<1>5. CASE B # {}
  <2>1. B \in SUBSET Nat /\ B \in SUBSET (0..Len(line))
    BY <1>1
  <2>2. PICK a, b \in 1..Len(line) : a = Min(B) /\ b = Max(B)
    BY <1>1, <1>5, <2>1, MinIs, MaxIs
  <2>3. a <= b
    <3>1. Min(B) <= Max(B)
      BY <1>1, <1>5, <2>1, MinIs, MaxIs
    <3> QED
      BY <2>2, <3>1
  <2>4. Piece(line, B) = SubSeq(line, a, b)
    BY <1>5, <2>2 DEF Piece
  <2>5. b \in a..Len(line) /\ \A i \in a..b : i \in 1..Len(line)
    BY <1>1, <2>3
  <2>6. Piece(line, a..b) = SubSeq(line, a, b)
    BY <2>5, PieceIs
  <2>7. \A i \in a..b : line[i] \notin {CR, LF}
    BY <2>5 DEF Bare
  <2>8. Bare(Piece(line, a..b))
    BY <2>5, <2>7, BarePiece
  <2> QED
    BY <1>2, <1>3, <2>4, <2>6, <2>8
<1> QED
  BY <1>4, <1>5

\* Without carriage returns but in line ends, no line has any.
LEMMA CleanLines ==
  ASSUME NEW text \in Texts, Clean(text)
  PROVE  \A n \in 1..Len(RefLines(text)) : Bare(RefLines(text)[n])
<1>1. CASE End(text) = 0
  <2>1. RefLines(text) = <<>>
    BY <1>1, RefLinesIs
  <2> QED
    BY <2>1
<1>2. CASE End(text) # 0
  <2> DEFINE C == Cardinality(Feeds(text))
  <2>1. /\ C \in Nat /\ End(text) \in 1..Len(text) /\ Len(text) \in Nat
        /\ text[End(text)] \notin {CR, LF} /\ DOMAIN text = 1..Len(text)
    BY <1>2, EndIs, TextIs
  <2>2. RefLines(text) = [n \in 1..(C + 1) |-> Piece(text, OwnOf(text, n))]
    BY <1>2, RefLinesIs
  <2>3. Len(RefLines(text)) = C + 1
    <3>1. RefLines(text) \in Seq(Texts) /\ DOMAIN RefLines(text) = 1..(C + 1)
      BY <2>2, LinesType
    <3>2. DOMAIN RefLines(text) = 1..Len(RefLines(text)) /\ Len(RefLines(text)) \in Nat
      BY <3>1
    <3> HIDE DEF C
    <3> QED
      BY <2>1, <3>1, <3>2
  <2>4. ASSUME NEW n \in 1..(C + 1) PROVE Bare(Piece(text, OwnOf(text, n)))
    <3>1. CASE OwnOf(text, n) = {}
      BY <3>1, BareNothing
    <3>2. CASE OwnOf(text, n) # {}
      <4>1. PICK c \in 1..End(text) : \E e \in c..End(text) : OwnOf(text, n) = c..e
        BY <2>1, <3>2, OwnStretch
      <4>2. PICK e \in c..End(text) : OwnOf(text, n) = c..e
        BY <4>1
      <4>3. c \in 1..Len(text) /\ e \in c..Len(text)
        BY <2>1
      <4>4. ASSUME NEW i \in c..e PROVE text[i] \notin {CR, LF}
        <5>1. i \in OwnOf(text, n) /\ i \in 1..End(text) /\ i \in 1..Len(text)
          BY <2>1, <4>2, <4>3
        <5>2. i \notin Feeds(text) /\ ~(text[i] = CR /\ i + 1 \in Feeds(text))
          BY <5>1 DEF OwnOf, Between
        <5>3. text[i] # LF
          BY <5>1, <5>2 DEF Feeds
        <5>4. ASSUME text[i] = CR PROVE FALSE
          <6>1. i # End(text) /\ text[i + 1] = LF
            BY <2>1, <5>1, <5>4 DEF Clean
          <6>2. i + 1 \in 1..End(text)
            BY <2>1, <5>1, <6>1
          <6>3. i + 1 \in Feeds(text)
            BY <6>1, <6>2 DEF Feeds
          <6> QED
            BY <5>2, <5>4, <6>3
        <5> QED
          BY <5>3, <5>4
      <4> QED
        BY <4>2, <4>3, <4>4, BarePiece
    <3> QED
      BY <3>1, <3>2
  <2> HIDE DEF C
  <2> QED
    BY <2>2, <2>3, <2>4
<1> QED
  BY <1>1, <1>2

\* filterLines gives what the pattern is in.
LEMMA FilterRight ==
  ASSUME NEW got \in Texts, NEW source \in Texts, Clean(source), NEW pattern
  PROVE  SameLines(got, FilterLines(source, pattern)) <=> RightFilter(got, source, pattern)
<1>0. PICK lines, P : lines = RefLines(source) /\ P = {n \in DOMAIN lines : Occurs(pattern, lines[n])}
  OBVIOUS
<1>1. lines \in Seq(Texts) /\ Lines(source) = lines /\ \A n \in 1..Len(lines) : Bare(lines[n])
  BY <1>0, LinesType, CleanLines
<1>2. P \in SUBSET (1..Len(lines))
  BY <1>0, <1>1
<1>3. SameLines(got, Join(Only(lines, P))) <=> Shows(got, P, lines)
  BY <1>1, <1>2, ShowsIs
<1> QED
  BY <1>0, <1>1, <1>3 DEF FilterLines, RightFilter

\* The cells of a column.
LEMMA CellsRight ==
  ASSUME NEW got \in Texts, NEW rows \in Seq(Texts), \A n \in 1..Len(rows) : Bare(rows[n]),
         NEW first \in {1, 2}, NEW delimiter, Len(delimiter) = 1, NEW k \in Nat, k # 0,
         NEW P, P = {n \in first..Len(rows) : HasCell(rows[n], delimiter, k)}
  PROVE  SameLines(got, Cells(rows, first, delimiter, k)) <=>
           Shows(got, P, [n \in P |-> CellAt(rows[n], delimiter, k)])
<1>1. Len(rows) \in Nat /\ DOMAIN rows = 1..Len(rows) /\ \A n \in 1..Len(rows) : rows[n] \in Texts
  OBVIOUS
<1>2. P \in SUBSET (1..Len(rows)) /\ \A n \in first..Len(rows) : n \in 1..Len(rows)
  BY <1>1
<1> DEFINE parts == [n \in DOMAIN rows |-> Split(rows[n], delimiter)]
           has == {n \in first..Len(rows) : k <= Len(parts[n])}
           items == [n \in DOMAIN rows |-> IF n \in has THEN parts[n][k] ELSE <<>>]
           row == [n \in P |-> CellAt(rows[n], delimiter, k)]
<1>3. ASSUME NEW n \in 1..Len(rows)
      PROVE  /\ k <= Len(parts[n]) <=> HasCell(rows[n], delimiter, k)
             /\ HasCell(rows[n], delimiter, k) => parts[n][k] = CellAt(rows[n], delimiter, k)
  <2>1. PICK C : C = Cardinality(Marks(rows[n], delimiter))
    OBVIOUS
  <2>2. C \in Nat
    <3>1. Marks(rows[n], delimiter) \in SUBSET (1..Len(rows[n])) /\ Len(rows[n]) \in Nat
      BY <1>1, TextIs DEF Marks
    <3>2. IsFiniteSet(1..Len(rows[n]))
      BY <3>1, FS_Interval
    <3> QED
      BY <2>1, <3>1, <3>2, FS_Subset, FS_CardinalityType
  <2>3. PICK s : s = Split(rows[n], delimiter)
    OBVIOUS
  <2>4. s = [j \in 1..(C + 1) |-> CellAt(rows[n], delimiter, j)]
    BY <1>1, <2>1, <2>3, SplitIs
  <2>5. Len(s) = C + 1
    <3>1. s \in [1..(C + 1) -> Texts]
      BY <1>1, <2>4, BareCell
    <3>2. C + 1 \in Nat
      BY <2>2
    <3> QED
      BY <3>1, <3>2, Listed
  <2>6. HasCell(rows[n], delimiter, k) <=> k <= C + 1
    BY <2>1 DEF HasCell
  <2>7. k <= C + 1 => s[k] = CellAt(rows[n], delimiter, k)
    BY <2>2, <2>4
  <2>8. parts[n] = s
    BY <1>1, <2>3
  <2> HIDE DEF parts
  <2> QED
    BY <2>5, <2>6, <2>7, <2>8
<1> HIDE DEF parts
<1>4. has = P
  BY <1>2, <1>3
<1>5. /\ \A n \in 1..Len(rows) : items[n] \in Texts /\ Bare(items[n])
      /\ \A n \in P : row[n] = items[n]
      /\ items = [n \in 1..Len(rows) |-> items[n]]
  <2>1. ASSUME NEW n \in 1..Len(rows) PROVE items[n] \in Texts /\ Bare(items[n])
    <3>1. CASE n \in P
      <4>1. HasCell(rows[n], delimiter, k)
        BY <3>1
      <4>2. items[n] = CellAt(rows[n], delimiter, k)
        BY <1>1, <1>3, <1>4, <3>1, <4>1
      <4> QED
        BY <1>1, <4>2, BareCell
    <3>2. CASE n \notin P
      <4>1. items[n] = <<>>
        BY <1>1, <1>4, <3>2
      <4>2. <<>> \in Texts /\ Bare(<<>>)
        BY DEF Texts, Bare
      <4> HIDE DEF items
      <4> QED
        BY <4>1, <4>2
    <3> QED
      BY <3>1, <3>2
  <2>2. ASSUME NEW n \in P PROVE row[n] = items[n]
    <3>1. n \in 1..Len(rows) /\ HasCell(rows[n], delimiter, k)
      BY <1>2
    <3>2. items[n] = parts[n][k]
      BY <1>1, <1>4, <3>1
    <3> QED
      BY <1>3, <3>1, <3>2
  <2>3. items = [n \in 1..Len(rows) |-> items[n]]
    BY <1>1
  <2> QED
    BY <2>1, <2>2, <2>3
<1>6. Cells(rows, first, delimiter, k) = Join(Only(items, P))
  <2>1. Cells(rows, first, delimiter, k) = Join(Only(items, has))
    BY Zenon DEF Cells, parts
  <2> QED
    BY <1>4, <2>1
<1> HIDE DEF has, items, row
<1>7. items \in Seq(Texts) /\ Len(items) = Len(rows)
  <2>1. items \in [1..Len(rows) -> Texts]
    BY <1>5
  <2> QED
    BY <1>1, <2>1, Listed
<1>8. SameLines(got, Join(Only(items, P))) <=> Shows(got, P, row)
  BY <1>2, <1>5, <1>7, ShowsIs
<1> QED
  BY <1>6, <1>8 DEF row

----------------------------------------------------------------------------
(* Numbers and headers *)

\* The digits have the values 0 to 9.
LEMMA ValueIs ==
  ASSUME NEW digit \in Digits
  PROVE  Value(digit) \in 0..9
<1>1. PICK i \in DOMAIN DigitList : digit = DigitList[i]
  BY DEF Digits, Range
<1>2. DOMAIN DigitList = 1..10
  BY DEF DigitList
<1>3. i - 1 \in 0..9 /\ (i - 1) + 1 = i
  BY <1>2
<1> HIDE DEF DigitList
<1>4. \E v \in 0..9 : DigitList[v + 1] = digit
  BY <1>1, <1>3
<1> QED
  BY <1>4 DEF Value

NumberTurn(text, n, i) == 10 * n + Value(text[i])
NumberSteps(text) == [i \in 1..Len(text) |-> [n \in Nat |-> NumberTurn(text, n, i)]]

\* The magnitude of a text of digits is a number.
LEMMA MagnitudeType ==
  ASSUME NEW text \in Texts, Outside(text, Digits) = {}
  PROVE  Magnitude(text) \in Nat
<1> DEFINE N == Len(text)
           Step == NumberSteps(text)
           Body(g) == [n \in 0..N |-> IF n = 0 THEN 0 ELSE NumberTurn(text, g[n - 1], n)]
           had == CHOOSE g : g = Body(g)
<1>1. N \in Nat /\ 0 \in Nat
  BY TextIs
<1>2. Step \in Steps(N, Nat)
  <2>1. ASSUME NEW i \in 1..Len(text) PROVE Value(text[i]) \in Nat
    <3>1. text[i] \in Digits
      BY TextIs DEF Outside
    <3>2. Value(text[i]) \in 0..9
      BY <3>1, ValueIs
    <3> QED
      BY <3>2
  <2> QED
    BY <2>1 DEF Steps, NumberSteps, NumberTurn
<1>3. PICK f : Computes(f, N, Nat, 0, Step)
  <2> HIDE DEF N, Step
  <2> QED
    BY <1>1, <1>2, Recursion
<1>4. f = Body(f)
  <2>1. /\ f \in [0..N -> Nat] /\ f[0] = 0
        /\ \A n \in 1..N : f[n] = Step[n][f[n - 1]] /\ f[n - 1] \in Nat
    <3>1. \A n \in 1..N : n - 1 \in 0..N
      BY <1>1
    <3> QED
      BY <1>3, <3>1 DEF Computes
  <2>2. \A n \in 1..N : f[n] = NumberTurn(text, f[n - 1], n)
    BY <2>1 DEF NumberSteps
  <2> QED
    BY <2>1, <2>2
<1>5. Magnitude(text) = had[N]
  BY Zenon DEF Magnitude, Loop, NumberTurn
<1>6. had = Body(had)
  <2> HIDE DEF Body
  <2> QED
    BY <1>4
<1>7. \A n \in 0..N : had[n] = Body(had)[n]
  <2> HIDE DEF Body, had
  <2> QED
    BY <1>6
<1>8. had[0] = 0 /\ \A n \in 1..N : had[n] = NumberTurn(text, had[n - 1], n)
  <2> HIDE DEF had
  <2>1. \A n \in 1..N : n \in 0..N /\ n # 0
    BY <1>1
  <2> QED
    BY <1>1, <1>7, <2>1
<1>9. Computes(had, N, Nat, 0, Step)
  <2>1. had = [n \in 0..N |-> had[n]]
    <3> HIDE DEF had
    <3> QED BY <1>6
  <2>2. \A n \in 1..N : had[n - 1] \in Nat => had[n] = Step[n][had[n - 1]]
    <3> HIDE DEF had
    <3> QED BY <1>8 DEF NumberSteps
  <2> HIDE DEF N, Step, had
  <2> QED
    BY <1>1, <1>2, <1>8, <2>1, <2>2, Equations
<1> HIDE DEF had
<1> QED
  BY <1>1, <1>5, <1>9 DEF Computes

\* A sign is one character, and the rest is a text.
LEMMA UnsignedType ==
  ASSUME NEW text \in Texts
  PROVE  Unsigned(text) \in Texts
BY DEF Unsigned, Texts

\* A text that strconv.Atoi takes is an integer.
LEMMA NumberType ==
  ASSUME NEW text \in Texts, Numeric(text)
  PROVE  Number(text) \in Int
<1>1. PICK t : t = Unsigned(text)
  OBVIOUS
<1>2. t \in Texts /\ Outside(t, Digits) = {}
  BY <1>1, UnsignedType DEF Numeric
<1>3. PICK n : n = Magnitude(t)
  OBVIOUS
<1>4. n \in Nat
  BY <1>2, <1>3, MagnitudeType
<1>5. Number(text) = IF text[1] = "-" THEN -n ELSE n
  BY <1>1, <1>3 DEF Number
<1> QED
  BY <1>4, <1>5

\* Digits are no sign.
LEMMA NoSign ==
  ASSUME NEW digit \in Digits
  PROVE  digit \notin {"+", "-"}
<1>1. PICK i \in DOMAIN DigitList : digit = DigitList[i]
  BY DEF Digits, Range
<1> QED
  BY <1>1 DEF DigitList

\* The columns of the header: those of the first line's parts that have it.
LEMMA HeadersRight ==
  ASSUME NEW lines \in Seq(Texts), lines # <<>>, NEW delimiter, Len(delimiter) = 1, NEW header
  PROVE  /\ Headed(lines, delimiter, header) = HeaderAt(lines, delimiter, header)
         /\ HeaderAt(lines, delimiter, header) \in SUBSET (Nat \ {0})
<1>1. PICK line : line = lines[1] /\ line \in Texts
  OBVIOUS
<1>2. PICK C, M : M = Marks(line, delimiter) /\ C = Cardinality(M)
  OBVIOUS
<1>3. C \in Nat /\ C <= Len(line) /\ Len(line) \in Nat
  <2>0. PICK N : N = Len(line)
    OBVIOUS
  <2>1. M \in SUBSET (1..N) /\ N \in Nat
    BY <1>1, <1>2, <2>0, TextIs DEF Marks
  <2>2. IsFiniteSet(1..N) /\ Cardinality(1..N) = N
    <3>1. IsFiniteSet(1..N) /\ Cardinality(1..N) = IF 1 > N THEN 0 ELSE N - 1 + 1
      BY <2>1, FS_Interval
    <3> QED
      BY <2>1, <3>1
  <2> QED
    BY <1>2, <2>0, <2>1, <2>2, FS_Subset, FS_CardinalityType
<1>4. PICK s : s = Split(line, delimiter)
  OBVIOUS
<1>5. s = [j \in 1..(C + 1) |-> CellAt(line, delimiter, j)]
  BY <1>1, <1>2, <1>4, SplitIs
<1>6. DOMAIN s = 1..(C + 1) /\ \A j \in 1..(C + 1) : s[j] = CellAt(line, delimiter, j)
  BY <1>5
<1>7. Headed(lines, delimiter, header) = {n \in DOMAIN s : Trim(s[n]) = header}
  BY <1>1, <1>4 DEF Headed
<1>8. HeaderAt(lines, delimiter, header) =
        {k \in 1..(Len(line) + 1) : k <= C + 1 /\ Trim(CellAt(line, delimiter, k)) = header}
  BY <1>1, <1>2 DEF HeaderAt, HasCell
<1>9. \A k : k \in 1..(C + 1) <=> k \in 1..(Len(line) + 1) /\ k <= C + 1
  BY <1>3
<1>10. Headed(lines, delimiter, header) = HeaderAt(lines, delimiter, header)
  BY <1>6, <1>7, <1>8, <1>9
<1>11. \A k \in 1..(Len(line) + 1) : k \in Nat \ {0}
  BY <1>3
<1> QED
  BY <1>8, <1>10, <1>11

\* delimitedColumnByNumber and delimitedColumnByHeader give the column asked for.
LEMMA ColumnRight ==
  ASSUME NEW got \in Texts, NEW source \in Texts, Clean(source),
         NEW delimiter, Len(delimiter) = 1, NEW column \in Texts
  PROVE  ColumnMatches(got, source, delimiter, column) <=>
           RightColumn(got, source, delimiter, column)
<1>0. PICK lines : lines = RefLines(source)
  OBVIOUS
<1>1. lines \in Seq(Texts) /\ Lines(source) = lines /\ \A n \in 1..Len(lines) : Bare(lines[n])
  BY <1>0, LinesType, CleanLines
<1>2. PICK k : k = WantedColumn(lines, delimiter, column)
  OBVIOUS
<1>3. PICK P : P = WantedRows(lines, delimiter, column)
  OBVIOUS
<1>4. RightColumn(got, source, delimiter, column) <=>
        /\ column # <<>>
        /\ IF Numeric(column) THEN k > 0 ELSE HeaderAt(lines, delimiter, column) # {}
        /\ Shows(got, P, [n \in P |-> CellAt(lines[n], delimiter, k)])
  BY <1>0, <1>2, <1>3 DEF RightColumn
<1>5. CASE Numeric(column)
  <2>1. k = Number(column) /\ k \in Int
    BY <1>2, <1>5, NumberType DEF WantedColumn
  <2>2. P = {n \in 1..Len(lines) : HasCell(lines[n], delimiter, k)}
    BY <1>2, <1>3, <1>5 DEF WantedRows
  <2>3. ColumnMatches(got, source, delimiter, column) <=>
          column # <<>> /\ k >= 1 /\ SameLines(got, Cells(lines, 1, delimiter, k))
    BY <1>1, <1>5, <2>1 DEF ColumnMatches
  <2>4. ASSUME k > 0
        PROVE SameLines(got, Cells(lines, 1, delimiter, k)) <=>
                Shows(got, P, [n \in P |-> CellAt(lines[n], delimiter, k)])
    <3>1. PICK first : first = 1 /\ first \in {1, 2}
      OBVIOUS
    <3>2. P = {n \in first..Len(lines) : HasCell(lines[n], delimiter, k)}
      BY <2>2, <3>1
    <3>3. k \in Nat /\ k # 0
      BY <2>1, <2>4
    <3> QED
      BY <1>1, <3>1, <3>2, <3>3, CellsRight
  <2>5. k >= 1 <=> k > 0
    BY <2>1
  <2> QED
    BY <1>4, <1>5, <2>3, <2>4, <2>5
<1>6. CASE ~Numeric(column) /\ lines = <<>>
  <2>1. HeaderAt(lines, delimiter, column) = {}
    BY <1>6 DEF HeaderAt
  <2>2. ~ColumnMatches(got, source, delimiter, column)
    BY <1>1, <1>6 DEF ColumnMatches
  <2> QED
    BY <1>4, <1>6, <2>1, <2>2
<1>7. CASE ~Numeric(column) /\ lines # <<>>
  <2>1. PICK H : H = HeaderAt(lines, delimiter, column)
    OBVIOUS
  <2>2. H = Headed(lines, delimiter, column) /\ H \in SUBSET (Nat \ {0})
    BY <1>1, <1>7, <2>1, HeadersRight
  <2>3. k = Min(H)
    BY <1>2, <1>7, <2>1 DEF WantedColumn
  <2>4. P = {n \in 2..Len(lines) : HasCell(lines[n], delimiter, k)}
    BY <1>2, <1>3, <1>7 DEF WantedRows
  <2>5. ColumnMatches(got, source, delimiter, column) <=>
          column # <<>> /\ H # {} /\ SameLines(got, Cells(lines, 2, delimiter, k))
    BY <1>1, <1>7, <2>2, <2>3 DEF ColumnMatches, ByHeader
  <2>6. ASSUME H # {}
        PROVE SameLines(got, Cells(lines, 2, delimiter, k)) <=>
                Shows(got, P, [n \in P |-> CellAt(lines[n], delimiter, k)])
    <3>1. PICK first : first = 2 /\ first \in {1, 2}
      OBVIOUS
    <3>2. P = {n \in first..Len(lines) : HasCell(lines[n], delimiter, k)}
      BY <2>4, <3>1
    <3>3. H \in SUBSET Nat
      BY <2>2
    <3>4. k \in H
      BY <2>3, <2>6, <3>3, MinIs
    <3>5. k \in Nat /\ k # 0
      BY <2>2, <3>4
    <3> QED
      BY <1>1, <3>1, <3>2, <3>5, CellsRight
  <2> QED
    BY <1>4, <1>7, <2>1, <2>5, <2>6
<1> QED
  BY <1>5, <1>6, <1>7

----------------------------------------------------------------------------
(* Counts *)

\* A run of digits has the number of its digits, if that is an int.
LEMMA DigitsNumeric ==
  ASSUME NEW part \in Texts, part # <<>>, \A i \in 1..Len(part) : part[i] \in Digits
  PROVE  /\ Number(part) \in Nat
         /\ Numeric(part) <=> Number(part) <= MaxInt
<1>1. DOMAIN part = 1..Len(part) /\ Len(part) \in Nat
  BY TextIs
<1>2. 1 \in 1..Len(part)
  BY <1>1 DEF Texts
<1>3. part[1] \notin {"+", "-"}
  BY <1>2, NoSign
<1>4. Unsigned(part) = part
  BY <1>3 DEF Unsigned
<1>5. Outside(part, Digits) = {}
  BY <1>1 DEF Outside
<1>6. PICK n : n = Magnitude(part)
  OBVIOUS
<1>7. n \in Nat
  BY <1>5, <1>6, MagnitudeType
<1>8. Number(part) = n
  BY <1>3, <1>4, <1>6 DEF Number
<1>9. MaxInt \in Nat
  BY ChecksAssumption
<1>10. -MaxInt - 1 <= n
  BY <1>7, <1>9
<1> QED
  BY <1>4, <1>5, <1>7, <1>8, <1>10 DEF Numeric

\* firstInt gives the first number of a text, if there is one.
LEMMA CountRight ==
  ASSUME NEW text \in Texts, NEW number \in Nat, number <= MaxInt
  PROVE  FirstInt(text) = number <=> FirstNumberIs(text, number)
<1> DEFINE others == Outside(text, Digits)
           digits == DOMAIN text \ others
<1>1. DOMAIN text = 1..Len(text) /\ Len(text) \in Nat
  BY TextIs
<1>2. /\ \A i : i \in digits <=> i \in 1..Len(text) /\ text[i] \in Digits
      /\ \A i : i \in others <=> i \in 1..Len(text) /\ text[i] \notin Digits
  BY <1>1 DEF Outside
<1>3. FirstDigits(text) =
        LET first == Min(digits)
            end == Min({i \in others : i > first} \cup {Len(text) + 1})
        IN IF digits = {} THEN <<>> ELSE SubSeq(text, first, end - 1)
  BY DEF FirstDigits
<1> HIDE DEF others, digits
<1>4. CASE digits = {}
  <2>0. FirstDigits(text) = <<>> /\ ~Numeric(<<>>)
    BY <1>3, <1>4 DEF Numeric, Unsigned
  <2>1. FirstInt(text) = -1
    BY <2>0 DEF FirstInt
  <2>2. FirstInt(text) # number
    BY <2>1
  <2>3. ASSUME NEW i \in DOMAIN text, NEW j \in i..Len(text), \A d \in i..j : text[d] \in Digits
        PROVE  FALSE
    <3>1. i \in 1..Len(text) /\ i \in i..j
      BY <1>1
    <3> QED
      BY <1>2, <1>4, <2>3, <3>1
  <2> QED
    BY <2>2, <2>3 DEF FirstNumberIs
<1>5. CASE digits # {}
  <2>1. digits \in SUBSET Nat
    BY <1>2
  <2>2. PICK f \in digits : f = Min(digits) /\ \A y \in digits : f <= y
    BY <1>5, <2>1, MinIs
  <2> DEFINE ends == {i \in others : i > f} \cup {Len(text) + 1}
  <2>3. ends \in SUBSET Nat /\ ends # {}
    BY <1>1, <1>2
  <2>4. PICK e \in ends : e = Min(ends) /\ \A y \in ends : e <= y
    <3> HIDE DEF ends
    <3> QED
      BY <2>3, MinIs
  <2>5. FirstDigits(text) = SubSeq(text, f, e - 1)
    BY <1>3, <1>5, <2>2, <2>4
  <2>6. f \in 1..Len(text) /\ text[f] \in Digits /\ f \notin others
    BY <1>2
  <2>7. e \in Nat /\ e > f /\ e <= Len(text) + 1
    <3>1. Len(text) + 1 \in ends
      OBVIOUS
    <3>2. e <= Len(text) + 1
      BY <2>4, <3>1
    <3>3. Len(text) + 1 > f
      BY <1>1, <2>6
    <3> QED
      BY <2>3, <3>2, <3>3
  <2>8. e = Len(text) + 1 \/ (e \in 1..Len(text) /\ text[e] \notin Digits)
    BY <1>2
  <2>9. ASSUME NEW d \in f..(e - 1) PROVE text[d] \in Digits
    <3>1. d \in 1..Len(text) /\ d >= f /\ d < e
      BY <1>1, <2>6, <2>7
    <3>2. CASE text[d] \notin Digits
      <4>1. d \in others /\ d # f
        BY <1>2, <2>6, <3>1, <3>2
      <4>2. d > f
        BY <2>6, <3>1, <4>1
      <4>3. d \in ends
        BY <4>1, <4>2
      <4>4. e <= d
        BY <2>4, <4>3
      <4> QED
        BY <2>7, <3>1, <4>4
    <3> QED
      BY <3>2
  <2> HIDE DEF ends
  <2>13. PICK part : part = SubSeq(text, f, e - 1)
    OBVIOUS
  <2>14. Number(part) \in Nat /\ (Numeric(part) <=> Number(part) <= MaxInt)
    <3>0. PICK j : j = e - 1
      OBVIOUS
    <3>1. j \in Nat /\ f <= j /\ j <= Len(text) /\ f \in Nat /\ f >= 1 /\ j \in Int
      BY <1>1, <2>6, <2>7, <3>0
    <3>2. part \in Texts /\ Len(part) = j - f + 1 /\ \A i \in 1..(j - f + 1) : part[i] = text[f + i - 1]
      BY <1>1, <2>6, <2>13, <3>0, <3>1 DEF Texts
    <3>3. \A i \in 1..(j - f + 1) : f + i - 1 \in f..j
      BY <3>1
    <3>4. \A i \in 1..(j - f + 1) : part[i] \in Digits
      BY <2>9, <3>0, <3>2, <3>3
    <3>5. j - f + 1 # 0
      BY <3>1
    <3>6. part # <<>>
      BY <3>2, <3>5
    <3> QED
      BY <3>2, <3>4, <3>6, DigitsNumeric
  <2>15. FirstInt(text) = number <=> Number(part) = number
    <3>1. FirstInt(text) = IF Numeric(part) THEN Number(part) ELSE -1
      BY <2>5, <2>13 DEF FirstInt
    <3> QED
      BY <2>14, <3>1
  <2>10. ASSUME FirstInt(text) = number PROVE FirstNumberIs(text, number)
    <3>1. f \in DOMAIN text /\ e - 1 \in f..Len(text)
      BY <1>1, <2>6, <2>7
    <3>2. ASSUME NEW d \in 1..(f - 1) PROVE text[d] \notin Digits
      <4>1. d \in 1..Len(text) /\ d < f
        BY <1>1, <2>6
      <4>2. ~(f <= d)
        BY <2>6, <4>1
      <4> QED
        BY <1>2, <2>2, <4>1, <4>2
    <3>3. e - 1 = Len(text) \/ text[(e - 1) + 1] \notin Digits
      BY <1>1, <2>7, <2>8
    <3>4. PICK j : j = e - 1
      OBVIOUS
    <3>5. j \in f..Len(text) /\ (j = Len(text) \/ text[j + 1] \notin Digits)
      BY <3>1, <3>3, <3>4
    <3>6. Number(SubSeq(text, f, j)) = number
      BY <2>10, <2>13, <2>15, <3>4
    <3>7. \A d \in f..j : text[d] \in Digits
      BY <2>9, <3>4
    <3> QED
      BY <3>1, <3>2, <3>5, <3>6, <3>7 DEF FirstNumberIs
  <2>11. ASSUME NEW i \in DOMAIN text, NEW j \in i..Len(text),
                \A d \in i..j : text[d] \in Digits,
                \A d \in 1..(i - 1) : text[d] \notin Digits,
                j = Len(text) \/ text[j + 1] \notin Digits
         PROVE  i = f /\ j = e - 1
    <3>1. i \in 1..Len(text) /\ j \in 1..Len(text) /\ i <= j /\ i \in i..j
      BY <1>1
    <3>2. i \in digits
      BY <1>2, <2>11, <3>1
    <3>3. f <= i
      BY <2>2, <3>2
    <3>4. ~(f < i)
      <4>1. f < i => f \in 1..(i - 1)
        BY <2>6, <3>1
      <4> QED
        BY <2>6, <2>11, <4>1
    <3>5. i = f
      BY <2>6, <3>1, <3>3, <3>4
    <3>6. ~(j < e - 1)
      <4>1. ASSUME j < e - 1 PROVE FALSE
        <5>0. f \in Nat /\ j \in Nat /\ f <= j
          BY <1>1, <3>1, <3>5
        <5>1. j + 1 \in f..(e - 1) /\ j # Len(text)
          <6>1. PICK N : N = Len(text)
            OBVIOUS
          <6>2. N \in Nat /\ e \in Nat /\ e <= N + 1 /\ j < e - 1
            BY <1>1, <2>7, <4>1, <6>1
          <6>3. j + 1 \in Nat /\ f <= j + 1 /\ j + 1 <= e - 1
            BY <5>0, <6>2
          <6>4. j + 1 \in f..(e - 1)
            BY <5>0, <6>2, <6>3
          <6>5. j # N
            BY <5>0, <6>2
          <6> QED
            BY <6>1, <6>4, <6>5
        <5>2. text[j + 1] \in Digits
          BY <2>9, <5>1
        <5> QED
          BY <2>11, <5>1, <5>2
      <4> QED
        BY <4>1
    <3>7. ~(j > e - 1)
      <4>1. ASSUME j > e - 1 PROVE FALSE
        <5>1. e \in i..j /\ e # Len(text) + 1
          BY <1>1, <2>6, <2>7, <3>1, <3>5, <4>1
        <5> QED
          BY <2>8, <2>11, <5>1
      <4> QED
        BY <4>1
    <3> QED
      BY <2>7, <3>1, <3>5, <3>6, <3>7
  <2>12. ASSUME FirstNumberIs(text, number) PROVE FirstInt(text) = number
    <3>1. PICK i \in DOMAIN text : \E j \in i..Len(text) :
            /\ \A d \in i..j : text[d] \in Digits
            /\ \A d \in 1..(i - 1) : text[d] \notin Digits
            /\ j = Len(text) \/ text[j + 1] \notin Digits
            /\ Number(SubSeq(text, i, j)) = number
      BY <2>12 DEF FirstNumberIs
    <3>2. PICK j \in i..Len(text) :
            /\ \A d \in i..j : text[d] \in Digits
            /\ \A d \in 1..(i - 1) : text[d] \notin Digits
            /\ j = Len(text) \/ text[j + 1] \notin Digits
            /\ Number(SubSeq(text, i, j)) = number
      BY <3>1
    <3>3. i = f /\ j = e - 1
      BY <2>11, <3>2
    <3> QED
      BY <2>13, <2>15, <3>2, <3>3
  <2> QED
    BY <2>10, <2>12
<1> QED
  BY <1>4, <1>5

\* The line ends of a text are counted by a number.
LEMMA FeedCount ==
  ASSUME NEW source \in Texts
  PROVE  /\ Cardinality(Marks(source, <<LF>>)) \in Nat
         /\ Cardinality(Marks(source, <<LF>>)) <= Len(source)
         /\ Cardinality({n \in DOMAIN source : source[n] = LF}) = Cardinality(Marks(source, <<LF>>))
<1>1. \A n : <<source[n]>> = <<LF>> <=> source[n] = LF
  OBVIOUS
<1>2. {n \in DOMAIN source : source[n] = LF} = Marks(source, <<LF>>)
  BY <1>1 DEF Marks
<1>3. Marks(source, <<LF>>) \in SUBSET (1..Len(source)) /\ Len(source) \in Nat
  BY TextIs DEF Marks
<1>4. IsFiniteSet(1..Len(source)) /\ Cardinality(1..Len(source)) = Len(source)
  <2>0. Len(source) \in Nat
    BY TextIs
  <2>1. PICK N : N = Len(source)
    OBVIOUS
  <2>3. N \in Nat
    BY <2>0, <2>1
  <2>2. IsFiniteSet(1..N) /\ Cardinality(1..N) = N
    <3>1. IsFiniteSet(1..N) /\ Cardinality(1..N) = IF 1 > N THEN 0 ELSE N - 1 + 1
      BY <2>3, FS_Interval
    <3> QED
      BY <2>3, <3>1
  <2> QED
    BY <2>1, <2>2, <2>3
<1> QED
  BY <1>2, <1>3, <1>4, FS_Subset, FS_CardinalityType

----------------------------------------------------------------------------
(* Archives *)

\* The entries that are files, in order: that the search of the code ends at
\* the first that cannot be read changes nothing.
LEMMA ArchiveRight ==
  ASSUME NEW got, got.entries \in Seq(Range(got.entries)), NEW text, NEW format
  PROVE  ArchiveContains(got, text, format) <=> IsInArchive(got, text, format)
<1>1. PICK all : all = got.entries
  OBVIOUS
<1>2. PICK X : all \in Seq(X)
  BY <1>1
<1>3. PICK P : P = {n \in DOMAIN all : ~all[n].dir}
  OBVIOUS
<1>4. DOMAIN all = 1..Len(all) /\ Len(all) \in Nat
  BY <1>2
<1>5. P \in SUBSET (1..Len(all))
  BY <1>3, <1>4
<1>6. PICK files : files = Only(all, P)
  OBVIOUS
<1>7. /\ files \in Seq(X)
      /\ \A m \in P : Rank(P, m) \in 1..Len(files) /\ files[Rank(P, m)] = all[m]
      /\ \A j \in 1..Len(files) : \E m \in P : j = Rank(P, m) /\ files[j] = all[m]
  BY <1>2, <1>5, <1>6, OnlyItems
<1>8. DOMAIN files = 1..Len(files)
  BY <1>7
<1>9. ArchiveContains(got, text, format) <=>
        /\ format \in got.formats
        /\ \E n \in DOMAIN files :
             files[n].text = text /\ \A m \in {k \in DOMAIN files : ~files[k].readable} : n < m
  BY <1>1, <1>3, <1>6 DEF ArchiveContains
<1>10. IsInArchive(got, text, format) <=>
         /\ format \in got.formats
         /\ \E n \in DOMAIN all : /\ ~all[n].dir /\ all[n].text = text
                                  /\ \A m \in 1..n : all[m].dir \/ all[m].readable
  BY <1>1 DEF IsInArchive
<1>11. ASSUME NEW n \in DOMAIN files, files[n].text = text,
              \A m \in {k \in DOMAIN files : ~files[k].readable} : n < m
       PROVE  \E p \in DOMAIN all : /\ ~all[p].dir /\ all[p].text = text
                                    /\ \A m \in 1..p : all[m].dir \/ all[m].readable
  <2>1. PICK p \in P : n = Rank(P, p) /\ files[n] = all[p]
    BY <1>7, <1>8
  <2>2. p \in DOMAIN all /\ p \in 1..Len(all) /\ ~all[p].dir /\ all[p].text = text
    BY <1>3, <1>4, <1>11, <2>1
  <2>3. ASSUME NEW m \in 1..p, ~all[m].dir, ~all[m].readable PROVE FALSE
    <3>1. m \in P /\ m \in 0..Len(all) /\ p \in 0..Len(all) /\ m <= p
      BY <1>3, <1>4, <2>2, <2>3
    <3>2. Rank(P, m) \in DOMAIN files /\ files[Rank(P, m)] = all[m]
      BY <1>7, <1>8, <3>1
    <3>3. n < Rank(P, m)
      BY <1>11, <2>3, <3>2
    <3>4. Rank(P, m) <= Rank(P, p) /\ Rank(P, m) \in Nat /\ Rank(P, p) \in Nat
      BY <1>4, <1>5, <3>1, RanksGrow
    <3> QED
      BY <2>1, <3>3, <3>4
  <2> QED
    BY <2>2, <2>3
<1>12. ASSUME NEW p \in DOMAIN all, ~all[p].dir, all[p].text = text,
              \A m \in 1..p : all[m].dir \/ all[m].readable
       PROVE  \E n \in DOMAIN files :
                files[n].text = text /\ \A m \in {k \in DOMAIN files : ~files[k].readable} : n < m
  <2>1. p \in P
    BY <1>3, <1>12
  <2>2. Rank(P, p) \in DOMAIN files /\ files[Rank(P, p)] = all[p]
    BY <1>7, <1>8, <2>1
  <2>3. ASSUME NEW k \in DOMAIN files, ~files[k].readable PROVE Rank(P, p) < k
    <3>1. PICK m \in P : k = Rank(P, m) /\ files[k] = all[m]
      BY <1>7, <1>8
    <3>2. m \notin 1..p
      BY <1>3, <1>12, <2>3, <3>1
    <3>3. p < m /\ p \in 0..Len(all)
      BY <1>4, <1>5, <2>1, <3>2
    <3> QED
      BY <1>4, <1>5, <3>1, <3>3, RanksGrow
  <2> QED
    BY <1>12, <2>2, <2>3
<1> QED
  BY <1>9, <1>10, <1>11, <1>12

----------------------------------------------------------------------------
(* Values and their places *)

\* The steps of a path, and the places in the values.
KeySet == UNION {DOMAIN value.fields : value \in {v \in Values : v.kind = "object"}}
StepSet == [kind : {"key"}, name : KeySet] \cup [kind : {"item"}, at : Nat]
PlaceSet == [path : Seq(StepSet), value : Values]
KeyStep(key) == [kind |-> "key", name |-> key]
ItemStep(n) == [kind |-> "item", at |-> n]

\* A member is at a place one step down.
LEMMA MemberIs ==
  ASSUME NEW place \in PlaceSet, NEW step \in StepSet, NEW v \in Values,
         NEW m, m = Member(place, step, v)
  PROVE  /\ m \in PlaceSet /\ m.value = v
         /\ Len(m.path) = Len(place.path) + 1 /\ m.path[Len(place.path) + 1] = step
         /\ \A k \in 1..Len(place.path) : m.path[k] = place.path[k]
<1>1. PICK path : path = place.path /\ path \in Seq(StepSet)
  BY DEF PlaceSet
<1>2. PICK longer : longer = Append(path, step)
  OBVIOUS
<1> HIDE DEF StepSet
<1>3. /\ longer \in Seq(StepSet) /\ Len(longer) = Len(path) + 1
      /\ longer[Len(path) + 1] = step
      /\ \A k \in 1..Len(path) : longer[k] = path[k]
  BY <1>1, <1>2, AppendProperties
<1>4. m = [path |-> longer, value |-> v]
  BY <1>1, <1>2 DEF Member
<1>5. m.path = longer /\ m.value = v /\ m \in PlaceSet
  BY <1>3, <1>4 DEF PlaceSet
<1> QED
  BY <1>1, <1>3, <1>5

\* The members: those of an object by their keys, those of an array by number.
LEMMA MembersAre ==
  ASSUME NEW place \in PlaceSet, NEW m
  PROVE  m \in Members(place) <=>
           \/ /\ place.value.kind = "object"
              /\ \E key \in DOMAIN place.value.fields :
                   m = Member(place, KeyStep(key), place.value.fields[key])
           \/ /\ place.value.kind = "array"
              /\ \E n \in DOMAIN place.value.items :
                   m = Member(place, ItemStep(n), place.value.items[n])
<1>1. CASE place.value.kind = "object"
  BY <1>1 DEF Members, KeyStep
<1>2. CASE place.value.kind = "array"
  BY <1>2 DEF Members, ItemStep
<1>3. CASE place.value.kind \notin {"object", "array"}
  BY <1>3 DEF Members
<1> QED
  BY <1>1, <1>2, <1>3

\* The fields and items of a value are values.
LEMMA PartsAre ==
  ASSUME NEW v \in Values
  PROVE  /\ v.kind = "object" => \A key \in DOMAIN v.fields :
              v.fields[key] \in Values /\ KeyStep(key) \in StepSet
         /\ v.kind = "array" => /\ v.items \in Seq(Values)
                                /\ \A n \in DOMAIN v.items :
                                     v.items[n] \in Values /\ ItemStep(n) \in StepSet
<1>1. IsValue(v)
  BY ChecksAssumption
<1>2. ASSUME v.kind = "object", NEW key \in DOMAIN v.fields
      PROVE  v.fields[key] \in Values /\ KeyStep(key) \in StepSet
  <2>1. v.fields[key] \in Values
    BY <1>1, <1>2 DEF IsValue, Range
  <2>2. key \in KeySet
    BY <1>2 DEF KeySet
  <2> QED
    BY <2>1, <2>2 DEF KeyStep, StepSet
<1>3. ASSUME v.kind = "array"
      PROVE  /\ v.items \in Seq(Values)
             /\ \A n \in DOMAIN v.items : v.items[n] \in Values /\ ItemStep(n) \in StepSet
  <2>1. v.items \in Seq(Values)
    BY <1>1, <1>3 DEF IsValue
  <2>2. \A n \in DOMAIN v.items : v.items[n] \in Values /\ n \in Nat
    BY <2>1
  <2> QED
    BY <2>1, <2>2 DEF ItemStep, StepSet
<1> QED
  BY <1>2, <1>3

\* Members are places.
LEMMA MembersType ==
  ASSUME NEW place \in PlaceSet, NEW m \in Members(place)
  PROVE  /\ m \in PlaceSet /\ Len(m.path) = Len(place.path) + 1
         /\ \A k \in 1..Len(place.path) : m.path[k] = place.path[k]
<1>1. PICK v : v = place.value /\ v \in Values
  BY DEF PlaceSet
<1>2. CASE v.kind = "object"
  <2>1. PICK key \in DOMAIN v.fields : m = Member(place, KeyStep(key), v.fields[key])
    BY <1>1, <1>2, MembersAre
  <2>2. v.fields[key] \in Values /\ KeyStep(key) \in StepSet
    BY <1>1, <1>2, PartsAre
  <2> QED
    BY <2>1, <2>2, MemberIs
<1>3. CASE v.kind = "array"
  <2>1. PICK n \in DOMAIN v.items : m = Member(place, ItemStep(n), v.items[n])
    BY <1>1, <1>3, MembersAre
  <2>2. v.items[n] \in Values /\ ItemStep(n) \in StepSet
    BY <1>1, <1>3, PartsAre
  <2> QED
    BY <2>1, <2>2, MemberIs
<1>4. v.kind \in {"object", "array"}
  BY <1>1, MembersAre
<1> QED
  BY <1>2, <1>3, <1>4

\* Of a set of places: it has the one with that value, or none if there is none.
Lone(places, value) ==
  IF value = NoValue THEN places = {} ELSE \E p \in PlaceSet : places = {p} /\ p.value = value

\* The members that a part of a query names.
Chosen(place, part) == {m \in Members(place) : Names(part, m.path[Len(place.path) + 1])}

\* The code goes down to the one member that a part names, if there is one.
LEMMA DescendRight ==
  ASSUME NEW place \in PlaceSet, NEW part \in Texts
  PROVE  /\ Descend(place.value, part) \in Values \cup {NoValue}
         /\ Lone(Chosen(place, part), Descend(place.value, part))
<1>1. PICK v : v = place.value /\ v \in Values /\ v # NoValue
  BY ChecksAssumption DEF PlaceSet
<1>2. PICK w : w = Descend(v, part)
  OBVIOUS
<1>3. PICK all : all = Chosen(place, part)
  OBVIOUS
<1>4. NoValue \notin Values
  BY ChecksAssumption
<1>5. SUFFICES w \in Values \cup {NoValue} /\ Lone(all, w)
  BY <1>1, <1>2, <1>3
<1>6. CASE part = <<>>
  <2>1. w = NoValue
    BY <1>2, <1>6 DEF Descend
  <2>2. all = {}
    BY <1>3, <1>6 DEF Chosen, Names
  <2> QED
    BY <2>1, <2>2 DEF Lone
<1>7. CASE part # <<>> /\ v.kind = "object"
  <2>1. w = IF part \in DOMAIN v.fields THEN v.fields[part] ELSE NoValue
    BY <1>1, <1>2, <1>7 DEF Descend
  <2>2. ASSUME NEW m \in all
        PROVE  part \in DOMAIN v.fields /\ m = Member(place, KeyStep(part), v.fields[part])
    <3>1. m \in Members(place) /\ Names(part, m.path[Len(place.path) + 1])
      BY <1>3 DEF Chosen
    <3>2. PICK key \in DOMAIN v.fields : m = Member(place, KeyStep(key), v.fields[key])
      BY <1>1, <1>7, <3>1, MembersAre
    <3>3. v.fields[key] \in Values /\ KeyStep(key) \in StepSet
      BY <1>1, <1>7, PartsAre
    <3>4. m.path[Len(place.path) + 1] = KeyStep(key)
      BY <3>2, <3>3, MemberIs
    <3>5. key = part
      BY <3>1, <3>4 DEF Names, KeyStep
    <3> QED
      BY <3>2, <3>5
  <2>3. CASE part \notin DOMAIN v.fields
    <3>1. w = NoValue /\ all = {}
      BY <2>1, <2>2, <2>3
    <3> QED
      BY <3>1 DEF Lone
  <2>4. CASE part \in DOMAIN v.fields
    <3>1. PICK m : m = Member(place, KeyStep(part), v.fields[part])
      OBVIOUS
    <3>2. w = v.fields[part] /\ w \in Values /\ KeyStep(part) \in StepSet
      BY <1>1, <1>7, <2>1, <2>4, PartsAre
    <3>3. m \in PlaceSet /\ m.value = w /\ m.path[Len(place.path) + 1] = KeyStep(part)
      BY <3>1, <3>2, MemberIs
    <3>4. m \in Members(place)
      BY <1>1, <1>7, <2>4, <3>1, MembersAre
    <3>5. Names(part, KeyStep(part))
      BY <1>7 DEF Names, KeyStep
    <3>6. m \in all
      BY <1>3, <3>3, <3>4, <3>5 DEF Chosen
    <3>7. all = {m}
      BY <2>2, <3>1, <3>6
    <3> QED
      BY <1>4, <3>2, <3>3, <3>7 DEF Lone
  <2> QED
    BY <2>3, <2>4
<1>8. CASE part # <<>> /\ v.kind = "array"
  <2> DEFINE there == Numeric(part) /\ Number(part) \in 0..(Len(v.items) - 1)
  <2>1. w = IF there THEN v.items[Number(part) + 1] ELSE NoValue
    BY <1>1, <1>2, <1>8 DEF Descend
  <2>2. v.items \in Seq(Values)
    BY <1>1, <1>8, PartsAre
  <2>3. Numeric(part) => Number(part) \in Int
    BY NumberType
  <2>4. DOMAIN v.items = 1..Len(v.items) /\ Len(v.items) \in Nat
    BY <2>2
  <2>5. ASSUME NEW m \in all
        PROVE  there /\ m = Member(place, ItemStep(Number(part) + 1), v.items[Number(part) + 1])
    <3>1. m \in Members(place) /\ Names(part, m.path[Len(place.path) + 1])
      BY <1>3 DEF Chosen
    <3>2. PICK n \in DOMAIN v.items : m = Member(place, ItemStep(n), v.items[n])
      BY <1>1, <1>8, <3>1, MembersAre
    <3>3. v.items[n] \in Values /\ ItemStep(n) \in StepSet
      BY <1>1, <1>8, PartsAre
    <3>4. m.path[Len(place.path) + 1] = ItemStep(n)
      BY <3>2, <3>3, MemberIs
    <3>5. Numeric(part) /\ Number(part) = n - 1
      BY <3>1, <3>4 DEF Names, ItemStep
    <3>6. n = Number(part) + 1 /\ Number(part) \in 0..(Len(v.items) - 1)
      BY <2>3, <2>4, <3>5
    <3> QED
      BY <3>2, <3>5, <3>6
  <2>6. CASE ~there
    <3>1. w = NoValue /\ all = {}
      BY <2>1, <2>5, <2>6
    <3> QED
      BY <3>1 DEF Lone
  <2>7. CASE there
    <3>0. PICK n : n = Number(part) + 1
      OBVIOUS
    <3>1. PICK m : m = Member(place, ItemStep(n), v.items[n])
      OBVIOUS
    <3>2. n \in DOMAIN v.items /\ Number(part) = n - 1
      BY <2>3, <2>4, <2>7, <3>0
    <3>3. w = v.items[n] /\ w \in Values /\ ItemStep(n) \in StepSet
      BY <1>1, <1>8, <2>1, <2>7, <3>0, <3>2, PartsAre
    <3>4. m \in PlaceSet /\ m.value = w /\ m.path[Len(place.path) + 1] = ItemStep(n)
      BY <3>1, <3>3, MemberIs
    <3>5. m \in Members(place)
      BY <1>1, <1>8, <3>1, <3>2, MembersAre
    <3>6. Names(part, ItemStep(n))
      BY <1>8, <2>7, <3>2 DEF Names, ItemStep
    <3>7. m \in all
      BY <1>3, <3>4, <3>5, <3>6 DEF Chosen
    <3>8. all = {m}
      BY <2>5, <3>0, <3>1, <3>7
    <3> QED
      BY <1>4, <3>3, <3>4, <3>8 DEF Lone
  <2> QED
    BY <2>6, <2>7
<1>9. CASE part # <<>> /\ v.kind \notin {"object", "array"}
  <2>1. w = NoValue
    BY <1>1, <1>2, <1>9 DEF Descend
  <2>2. all = {}
    BY <1>1, <1>3, <1>9, MembersAre DEF Chosen
  <2> QED
    BY <2>1, <2>2 DEF Lone
<1> QED
  BY <1>6, <1>7, <1>8, <1>9

----------------------------------------------------------------------------
(* Queries *)

\* A trimmed text is one.
LEMMA TrimType ==
  ASSUME NEW text \in Texts
  PROVE  Trim(text) \in Texts
<1> DEFINE kept == Outside(text, Space)
<1>1. kept \in SUBSET (1..Len(text))
  BY TextIs DEF Outside
<1>2. Trim(text) = Piece(text, kept) \/ Trim(text) = SubSeq(text, Min(kept), Max(kept))
  BY DEF Trim, Piece
<1>3. CASE kept = {}
  BY <1>3 DEF Trim, Texts
<1>4. CASE kept # {}
  <2>1. Trim(text) = Piece(text, kept)
    BY <1>4 DEF Trim, Piece
  <2> HIDE DEF kept
  <2> QED
    BY <1>1, <2>1, PieceType
<1> QED
  BY <1>3, <1>4

\* So is what is left of it without a prefix.
LEMMA TrimPrefixType ==
  ASSUME NEW text \in Texts, NEW prefix, Len(prefix) \in Nat
  PROVE  TrimPrefix(text, prefix) \in Texts
<1>1. CASE ~IsPrefix(prefix, text)
  BY <1>1 DEF TrimPrefix
<1>2. CASE IsPrefix(prefix, text)
  <2>1. PICK a, b : a = Len(prefix) + 1 /\ b = Len(text)
    OBVIOUS
  <2>2. TrimPrefix(text, prefix) = SubSeq(text, a, b)
    BY <1>2, <2>1 DEF TrimPrefix
  <2>3. a \in Int /\ b \in Int /\ \A i \in a..b : i \in 1..Len(text)
    BY <2>1, TextIs
  <2>4. \A i \in a..b : text[i] \in Characters
    BY <2>3, TextIs
  <2>5. SubSeq(text, a, b) \in Seq(Characters)
    BY <2>3, <2>4, SubSeqProperties
  <2> QED
    BY <2>2, <2>5 DEF Texts
<1> QED
  BY <1>1, <1>2

\* The path of a query, and its parts.
LEMMA QueryParts ==
  ASSUME NEW query \in Texts, NEW path, path = QueryPath(query),
         NEW D, D = Cardinality(Marks(path, <<".">>)) + 1,
         NEW parts, parts = Split(path, <<".">>)
  PROVE  /\ path \in Texts /\ D \in Nat
         /\ parts \in Seq(Texts) /\ Len(parts) = D
         /\ \A n \in 1..D : parts[n] = CellAt(path, <<".">>, n)
<1>1. Len(<<"$">>) \in Nat /\ Len(<<".">>) \in Nat /\ Len(<<".">>) = 1
  OBVIOUS
<1>2. PICK inner : inner = TrimPrefix(Trim(query), <<"$">>) /\ inner \in Texts
  BY <1>1, TrimType, TrimPrefixType
<1>3. path \in Texts
  BY <1>1, <1>2, TrimPrefixType DEF QueryPath
<1>4. PICK M : M = Marks(path, <<".">>)
  OBVIOUS
<1>5. Cardinality(M) \in Nat
  <2>1. PICK N : N = Len(path)
    OBVIOUS
  <2>2. N \in Nat /\ M \in SUBSET (1..N)
    BY <1>3, <1>4, <2>1, TextIs DEF Marks
  <2>3. IsFiniteSet(1..N)
    BY <2>2, FS_Interval
  <2> QED
    BY <2>2, <2>3, FS_Subset, FS_CardinalityType
<1>6. D \in Nat
  BY <1>4, <1>5
<1>7. PICK dot : dot = <<".">>
  OBVIOUS
<1>8. parts = [n \in 1..D |-> CellAt(path, dot, n)]
  BY <1>1, <1>3, <1>7, SplitIs
<1>9. \A n \in 1..D : CellAt(path, dot, n) \in Texts
  <2> SUFFICES ASSUME NEW n \in 1..D PROVE CellAt(path, dot, n) \in Texts
    OBVIOUS
  <2>1. PICK B : B = Between(Marks(path, dot), n, Len(path))
    OBVIOUS
  <2>2. B \in SUBSET (1..Len(path))
    BY <2>1 DEF Between
  <2> QED
    BY <1>3, <2>1, <2>2, PieceType DEF CellAt
<1>10. parts \in [1..D -> Texts]
  BY <1>8, <1>9
<1>11. parts \in Seq(Texts) /\ Len(parts) = D
  BY <1>6, <1>10, Listed
<1>12. \A n \in 1..D : parts[n] = CellAt(path, <<".">>, n)
  BY <1>7, <1>8
<1> QED
  BY <1>3, <1>6, <1>11, <1>12

Reached == Values \cup {NoValue}
WalkTurn(parts, v, n) == Descend(v, parts[n])
WalkSteps(parts) == [n \in 1..Len(parts) |-> [v \in Reached |-> WalkTurn(parts, v, n)]]

\* A step of the code leads to a value or to none.
LEMMA DescendType ==
  ASSUME NEW v \in Reached, NEW part \in Texts
  PROVE  Descend(v, part) \in Reached
<1>1. CASE v = NoValue
  BY <1>1 DEF Descend, Reached
<1>2. CASE v # NoValue
  <2>1. PICK place : place = [path |-> <<>>, value |-> v]
    OBVIOUS
  <2>2. <<>> \in Seq(StepSet) /\ v \in Values
    BY <1>2 DEF Reached
  <2>3. place \in PlaceSet /\ place.value = v
    BY <2>1, <2>2 DEF PlaceSet
  <2> QED
    BY <2>3, DescendRight DEF Reached
<1> QED
  BY <1>1, <1>2

\* walkJSON, as a recursion.
LEMMA WalkLoop ==
  ASSUME NEW v \in Reached, NEW query, QueryPath(query) # <<>>,
         NEW parts \in Seq(Texts), parts = Split(QueryPath(query), <<".">>)
  PROVE  \E f : /\ Computes(f, Len(parts), Reached, v, WalkSteps(parts))
                /\ Walk(v, query) = f[Len(parts)]
<1> DEFINE N == Len(parts)
           Step == WalkSteps(parts)
           Body(g) == [n \in 0..N |-> IF n = 0 THEN v ELSE WalkTurn(parts, g[n - 1], n)]
           had == CHOOSE g : g = Body(g)
<1>1. N \in Nat
  OBVIOUS
<1>2. Step \in Steps(N, Reached)
  <2>1. \A n \in 1..N : parts[n] \in Texts
    OBVIOUS
  <2>2. \A n \in 1..N : \A w \in Reached : WalkTurn(parts, w, n) \in Reached
    BY <2>1, DescendType DEF WalkTurn
  <2> QED
    BY <2>2 DEF Steps, WalkSteps
<1>3. PICK f : Computes(f, N, Reached, v, Step)
  <2> HIDE DEF N, Step
  <2> QED
    BY <1>1, <1>2, Recursion
<1>4. f = Body(f)
  <2>1. /\ f \in [0..N -> Reached] /\ f[0] = v
        /\ \A n \in 1..N : f[n] = Step[n][f[n - 1]] /\ f[n - 1] \in Reached
    <3>1. \A n \in 1..N : n - 1 \in 0..N
      BY <1>1
    <3> QED
      BY <1>3, <3>1 DEF Computes
  <2>2. \A n \in 1..N : f[n] = WalkTurn(parts, f[n - 1], n)
    BY <2>1 DEF WalkSteps
  <2> QED
    BY <2>1, <2>2
<1>5. Walk(v, query) = had[N]
  BY Zenon DEF Walk, Loop, WalkTurn
<1>6. had = Body(had)
  <2> HIDE DEF Body
  <2> QED
    BY <1>4
<1>7. \A n \in 0..N : had[n] = Body(had)[n]
  <2> HIDE DEF Body, had
  <2> QED
    BY <1>6
<1>8. had[0] = v /\ \A n \in 1..N : had[n] = WalkTurn(parts, had[n - 1], n)
  <2> HIDE DEF had
  <2>1. \A n \in 1..N : n \in 0..N /\ n # 0
    BY <1>1
  <2> QED
    BY <1>1, <1>7, <2>1
<1>9. Computes(had, N, Reached, v, Step)
  <2>1. had = [n \in 0..N |-> had[n]]
    <3> HIDE DEF had
    <3> QED BY <1>6
  <2>2. \A n \in 1..N : had[n - 1] \in Reached => had[n] = Step[n][had[n - 1]]
    <3> HIDE DEF had
    <3> QED BY <1>8 DEF WalkSteps
  <2> HIDE DEF N, Step, had
  <2> QED
    BY <1>1, <1>2, <1>8, <2>1, <2>2, Equations
<1> HIDE DEF had
<1> QED
  BY <1>5, <1>9

Down(places) == UNION {Members(place) : place \in places}
DownSteps(depth) == [n \in 1..depth |-> [places \in SUBSET PlaceSet |-> Down(places)]]
Start(v) == [path |-> <<>>, value |-> v]

\* The places at a depth, as a recursion.
LEMMA PlacesLoop ==
  ASSUME NEW v \in Values, NEW depth \in Nat
  PROVE  \E f : /\ Computes(f, depth, SUBSET PlaceSet, {Start(v)}, DownSteps(depth))
                /\ Places(v, depth) = f[depth]
<1> DEFINE N == depth
           X == SUBSET PlaceSet
           Step == DownSteps(depth)
           Body(g) == [n \in 0..N |-> IF n = 0 THEN {Start(v)} ELSE Down(g[n - 1])]
           had == CHOOSE g : g = Body(g)
<1>1. N \in Nat /\ {Start(v)} \in X
  <2>1. <<>> \in Seq(StepSet)
    OBVIOUS
  <2> QED
    BY <2>1 DEF Start, PlaceSet
<1>2. Step \in Steps(N, X)
  <2>1. \A places \in X : Down(places) \in X
    BY MembersType DEF Down
  <2> QED
    BY <2>1 DEF Steps, DownSteps
<1>3. PICK f : Computes(f, N, X, {Start(v)}, Step)
  <2> HIDE DEF N, Step, X
  <2> QED
    BY <1>1, <1>2, Recursion
<1>4. f = Body(f)
  <2>1. /\ f \in [0..N -> X] /\ f[0] = {Start(v)}
        /\ \A n \in 1..N : f[n] = Step[n][f[n - 1]] /\ f[n - 1] \in X
    <3>1. \A n \in 1..N : n - 1 \in 0..N
      BY <1>1
    <3> QED
      BY <1>3, <3>1 DEF Computes
  <2>2. \A n \in 1..N : f[n] = Down(f[n - 1])
    BY <2>1 DEF DownSteps
  <2> QED
    BY <2>1, <2>2
<1>5. Places(v, depth) = had[N]
  BY Zenon DEF Places, Down, Start
<1>6. had = Body(had)
  <2> HIDE DEF Body
  <2> QED
    BY <1>4
<1>7. \A n \in 0..N : had[n] = Body(had)[n]
  <2> HIDE DEF Body, had
  <2> QED
    BY <1>6
<1>8. had[0] = {Start(v)} /\ \A n \in 1..N : had[n] = Down(had[n - 1])
  <2> HIDE DEF had
  <2>1. \A n \in 1..N : n \in 0..N /\ n # 0
    BY <1>1
  <2> QED
    BY <1>1, <1>7, <2>1
<1>9. Computes(had, N, X, {Start(v)}, Step)
  <2>1. had = [n \in 0..N |-> had[n]]
    <3> HIDE DEF had
    <3> QED BY <1>6
  <2>2. \A n \in 1..N : had[n - 1] \in X => had[n] = Step[n][had[n - 1]]
    <3> HIDE DEF had
    <3> QED BY <1>8 DEF DownSteps
  <2> HIDE DEF N, Step, had, X
  <2> QED
    BY <1>1, <1>2, <1>8, <2>1, <2>2, Equations
<1> HIDE DEF had
<1> QED
  BY <1>5, <1>9

----------------------------------------------------------------------------
(* What a query leads to *)

\* The places whose steps the first parts name.
Fits(parts, n, p) == \A k \in 1..n : Names(parts[k], p.path[k])
Fitting(parts, n, places) == {p \in places : Fits(parts, n, p)}

\* A step of the code goes with a step down.
LEMMA WalkDown ==
  ASSUME NEW parts \in Seq(Texts), NEW n \in 1..Len(parts),
         NEW places \in SUBSET PlaceSet, \A p \in places : Len(p.path) = n - 1,
         NEW v \in Reached, Lone(Fitting(parts, n - 1, places), v)
  PROVE  /\ Down(places) \in SUBSET PlaceSet
         /\ \A m \in Down(places) : Len(m.path) = n
         /\ Lone(Fitting(parts, n, Down(places)), Descend(v, parts[n]))
<1>0. n \in Nat /\ n - 1 \in Nat /\ (n - 1) + 1 = n /\ parts[n] \in Texts
  OBVIOUS
<1>1. ASSUME NEW p \in places, NEW m \in Members(p)
      PROVE  /\ m \in PlaceSet /\ Len(m.path) = n
             /\ Fits(parts, n, m) <=>
                  Fits(parts, n - 1, p) /\ Names(parts[n], m.path[Len(p.path) + 1])
  <2>1. /\ p \in PlaceSet /\ Len(p.path) = n - 1
        /\ m \in PlaceSet /\ Len(m.path) = Len(p.path) + 1
        /\ \A k \in 1..Len(p.path) : m.path[k] = p.path[k]
    BY MembersType
  <2>2. Len(m.path) = n /\ Len(p.path) + 1 = n /\ \A k \in 1..(n - 1) : m.path[k] = p.path[k]
    BY <1>0, <2>1
  <2>3. \A k : k \in 1..n <=> k \in 1..(n - 1) \/ k = n
    BY <1>0
  <2>4. Fits(parts, n, m) <=> Fits(parts, n - 1, m) /\ Names(parts[n], m.path[n])
    BY <2>3 DEF Fits
  <2>5. Fits(parts, n - 1, m) <=> Fits(parts, n - 1, p)
    BY <2>2 DEF Fits
  <2> QED
    BY <2>1, <2>2, <2>4, <2>5
<1>2. \A m \in Down(places) : m \in PlaceSet /\ Len(m.path) = n
  BY <1>1 DEF Down
<1>3. PICK fit : fit = Fitting(parts, n - 1, places)
  OBVIOUS
<1>4. PICK next : next = Fitting(parts, n, Down(places))
  OBVIOUS
<1>5. ASSUME NEW m PROVE m \in next <=> \E p \in fit : m \in Chosen(p, parts[n])
  <2>1. m \in next <=> \E p \in places : m \in Members(p) /\ Fits(parts, n, m)
    BY <1>4 DEF Fitting, Down
  <2>2. (\E p \in fit : m \in Chosen(p, parts[n])) <=>
          \E p \in places : /\ Fits(parts, n - 1, p) /\ m \in Members(p)
                            /\ Names(parts[n], m.path[Len(p.path) + 1])
    BY <1>3 DEF Fitting, Chosen
  <2> QED
    BY <1>1, <2>1, <2>2
<1>6. CASE v = NoValue
  <2>1. fit = {} /\ Descend(v, parts[n]) = NoValue
    BY <1>3, <1>6 DEF Lone, Descend
  <2>2. next = {}
    BY <1>5, <2>1
  <2> QED
    BY <1>2, <1>4, <2>1, <2>2 DEF Lone
<1>7. CASE v # NoValue
  <2>1. PICK p \in PlaceSet : fit = {p} /\ p.value = v
    BY <1>3, <1>7 DEF Lone
  <2>2. next = Chosen(p, parts[n])
    <3>1. \A m : m \in next <=> m \in Chosen(p, parts[n])
      BY <1>5, <2>1
    <3> QED
      BY <3>1
  <2>3. Lone(next, Descend(v, parts[n]))
    BY <1>0, <2>1, <2>2, DescendRight
  <2> QED
    BY <1>2, <1>4, <2>3
<1> QED
  BY <1>6, <1>7

\* walkJSON ends at the one place that the whole query names, if there is one.
LEMMA WalkRight ==
  ASSUME NEW v \in Values, NEW query \in Texts, NEW path, path = QueryPath(query),
         NEW depth, depth = (IF path = <<>> THEN 0 ELSE Cardinality(Marks(path, <<".">>)) + 1),
         NEW parts, parts = Split(path, <<".">>)
  PROVE  Walk(v, query) \in Reached /\ Lone(Fitting(parts, depth, Places(v, depth)), Walk(v, query))
<1>0. NoValue \notin Values /\ v # NoValue /\ v \in Reached
  BY ChecksAssumption DEF Reached
<1>1. Start(v) \in PlaceSet /\ Start(v).value = v /\ Len(Start(v).path) = 0
  <2>1. <<>> \in Seq(StepSet)
    OBVIOUS
  <2> QED
    BY <2>1 DEF Start, PlaceSet
<1>2. Lone(Fitting(parts, 0, {Start(v)}), v)
  <2>1. Fits(parts, 0, Start(v))
    BY DEF Fits
  <2>2. Fitting(parts, 0, {Start(v)}) = {Start(v)}
    BY <2>1 DEF Fitting
  <2> QED
    BY <1>0, <1>1, <2>2 DEF Lone
<1>3. CASE path = <<>>
  <2>1. depth = 0 /\ Walk(v, query) = v
    BY <1>3 DEF Walk
  <2>2. PICK g : Computes(g, 0, SUBSET PlaceSet, {Start(v)}, DownSteps(0)) /\ Places(v, 0) = g[0]
    BY PlacesLoop
  <2>3. Places(v, 0) = {Start(v)}
    BY <2>2 DEF Computes
  <2> QED
    BY <1>0, <1>2, <2>1, <2>3
<1>4. CASE path # <<>>
  <2>1. depth \in Nat /\ parts \in Seq(Texts) /\ Len(parts) = depth
    <3>1. PICK D : D = Cardinality(Marks(path, <<".">>)) + 1
      OBVIOUS
    <3>2. D \in Nat /\ parts \in Seq(Texts) /\ Len(parts) = D
      BY <3>1, QueryParts
    <3> QED
      BY <1>4, <3>1, <3>2
  <2>2. PICK f : Computes(f, depth, Reached, v, WalkSteps(parts)) /\ Walk(v, query) = f[depth]
    BY <1>0, <1>4, <2>1, WalkLoop
  <2>3. PICK g : /\ Computes(g, depth, SUBSET PlaceSet, {Start(v)}, DownSteps(depth))
                 /\ Places(v, depth) = g[depth]
    BY <2>1, PlacesLoop
  <2>4. \A n \in 1..depth : f[n - 1] \in Reached /\ f[n] = Descend(f[n - 1], parts[n])
    <3>1. \A n \in 1..depth : f[n - 1] \in Reached /\ f[n] = WalkSteps(parts)[n][f[n - 1]]
      BY <2>1, <2>2, Turning
    <3> QED
      BY <2>1, <3>1 DEF WalkSteps, WalkTurn
  <2>5. \A n \in 1..depth : g[n - 1] \in SUBSET PlaceSet /\ g[n] = Down(g[n - 1])
    <3>1. \A n \in 1..depth : g[n - 1] \in SUBSET PlaceSet /\ g[n] = DownSteps(depth)[n][g[n - 1]]
      BY <2>1, <2>3, Turning
    <3> QED
      BY <3>1 DEF DownSteps
  <2> DEFINE S == {n \in 0..depth : /\ \A p \in g[n] : Len(p.path) = n
                                    /\ Lone(Fitting(parts, n, g[n]), f[n])}
  <2>6. 0 \in S
    <3>1. f[0] = v /\ g[0] = {Start(v)}
      BY <2>2, <2>3 DEF Computes
    <3>2. 0 \in 0..depth
      BY <2>1
    <3> QED
      BY <1>1, <1>2, <3>1, <3>2
  <2>7. ASSUME NEW n \in 1..depth, n - 1 \in S PROVE n \in S
    <3>1. (\A p \in g[n - 1] : Len(p.path) = n - 1) /\ Lone(Fitting(parts, n - 1, g[n - 1]), f[n - 1])
      BY <2>7
    <3>2. PICK places, w : places = g[n - 1] /\ w = f[n - 1]
      OBVIOUS
    <3>3. places \in SUBSET PlaceSet /\ w \in Reached /\ n \in 1..Len(parts)
      BY <2>1, <2>4, <2>5, <3>2
    <3>4. /\ \A m \in Down(places) : Len(m.path) = n
          /\ Lone(Fitting(parts, n, Down(places)), Descend(w, parts[n]))
      <4> HIDE DEF S
      <4> QED
        BY <2>1, <3>1, <3>2, <3>3, WalkDown
    <3>5. n \in 0..depth
      BY <2>1
    <3> QED
      BY <2>4, <2>5, <3>2, <3>4, <3>5
  <2>8. depth \in S
    <3> HIDE DEF S
    <3>1. \A n \in 0..depth : n \in S
      BY <2>1, <2>6, <2>7, CountingUpTo
    <3> QED
      BY <2>1, <3>1
  <2>9. f[depth] \in Reached
    BY <2>1, <2>2 DEF Computes
  <2> QED
    BY <2>2, <2>3, <2>8, <2>9
<1> QED
  BY <1>3, <1>4

\* Where there is nothing, nothing is found.
LEMMA WalkNothing ==
  ASSUME NEW query \in Texts
  PROVE  Walk(NoValue, query) = NoValue
<1>1. PICK path : path = QueryPath(query)
  OBVIOUS
<1>2. CASE path = <<>>
  BY <1>1, <1>2 DEF Walk
<1>3. CASE path # <<>>
  <2>1. PICK parts, D : parts = Split(path, <<".">>) /\ D = Cardinality(Marks(path, <<".">>)) + 1
    OBVIOUS
  <2>2. D \in Nat /\ parts \in Seq(Texts) /\ Len(parts) = D
    BY <1>1, <2>1, QueryParts
  <2>3. PICK f : Computes(f, D, Reached, NoValue, WalkSteps(parts)) /\ Walk(NoValue, query) = f[D]
    <3>1. NoValue \in Reached
      BY DEF Reached
    <3> QED
      BY <1>1, <1>3, <2>1, <2>2, <3>1, WalkLoop
  <2>4. \A n \in 1..D : f[n - 1] \in Reached /\ f[n] = Descend(f[n - 1], parts[n])
    <3>1. \A n \in 1..D : f[n - 1] \in Reached /\ f[n] = WalkSteps(parts)[n][f[n - 1]]
      BY <2>2, <2>3, Turning
    <3> QED
      BY <2>2, <3>1 DEF WalkSteps, WalkTurn
  <2> DEFINE S == {n \in 0..D : f[n] = NoValue}
  <2>5. 0 \in S
    BY <2>2, <2>3 DEF Computes
  <2>6. ASSUME NEW n \in 1..D, n - 1 \in S PROVE n \in S
    BY <2>2, <2>4, <2>6 DEF Descend
  <2>7. D \in S
    <3> HIDE DEF S
    <3>1. \A n \in 0..D : n \in S
      BY <2>2, <2>5, <2>6, CountingUpTo
    <3> QED
      BY <2>2, <3>1
  <2> QED
    BY <2>3, <2>7
<1> QED
  BY <1>2, <1>3

\* The code's walk finds what the places say.
LEMMA QueryRight ==
  ASSUME NEW content, content.json \in Reached, NEW query \in Texts, NEW want
  PROVE  Leads(content, query, want) <=> FindsText(content, query, want)
<1>1. PICK w : w = Walk(content.json, query)
  OBVIOUS
<1>2. Leads(content, query, want) <=> w # NoValue /\ Trim(w.text) = want
  BY <1>1 DEF Leads
<1>3. CASE content.json = NoValue
  <2>1. w = NoValue
    BY <1>1, <1>3, WalkNothing
  <2>2. Found(content, query) = {}
    BY <1>3 DEF Found
  <2> QED
    BY <1>2, <2>1, <2>2 DEF FindsText
<1>4. CASE content.json # NoValue
  <2>0. PICK v : v = content.json /\ v \in Values
    BY <1>4 DEF Reached
  <2>1. PICK path : path = QueryPath(query)
    OBVIOUS
  <2>2. PICK depth : depth = IF path = <<>> THEN 0 ELSE Cardinality(Marks(path, <<".">>)) + 1
    OBVIOUS
  <2>3. PICK parts : parts = Split(path, <<".">>)
    OBVIOUS
  <2>4. w \in Reached /\ Lone(Fitting(parts, depth, Places(v, depth)), w)
    BY <1>1, <2>0, <2>1, <2>2, <2>3, WalkRight
  <2>5. ASSUME NEW p PROVE (\A n \in 1..depth : Names(CellAt(path, <<".">>, n), p.path[n]))
                             <=> Fits(parts, depth, p)
    <3>1. PICK D : D = Cardinality(Marks(path, <<".">>)) + 1
      OBVIOUS
    <3>2. \A n \in 1..D : parts[n] = CellAt(path, <<".">>, n)
      BY <2>1, <2>3, <3>1, QueryParts
    <3>3. \A n \in 1..depth : parts[n] = CellAt(path, <<".">>, n)
      BY <2>2, <3>1, <3>2
    <3> QED
      BY <3>3 DEF Fits
  <2>6. Found(content, query) =
          {place.value : place \in {p \in Places(v, depth) :
             \A n \in 1..depth : Names(CellAt(path, <<".">>, n), p.path[n])}}
    BY <1>4, <2>0, <2>1, <2>2 DEF Found
  <2>7. Found(content, query) = {p.value : p \in Fitting(parts, depth, Places(v, depth))}
    BY <2>5, <2>6 DEF Fitting
  <2>8. PICK fit : fit = Fitting(parts, depth, Places(v, depth))
    OBVIOUS
  <2>9. CASE w = NoValue
    <3>1. Found(content, query) = {}
      BY <2>4, <2>7, <2>8, <2>9 DEF Lone
    <3> QED
      BY <1>2, <2>9, <3>1 DEF FindsText
  <2>10. CASE w # NoValue
    <3>1. PICK p \in PlaceSet : fit = {p} /\ p.value = w
      BY <2>4, <2>8, <2>10 DEF Lone
    <3>2. Found(content, query) = {w}
      BY <2>7, <2>8, <3>1
    <3> QED
      BY <1>2, <2>10, <3>2 DEF FindsText
  <2> QED
    BY <2>9, <2>10
<1> QED
  BY <1>3, <1>4

----------------------------------------------------------------------------
(* Nothing in, nothing out *)

\* A text has nothing of an empty one.
LEMMA Nothing ==
  /\ <<>> \in Texts /\ Trim(<<>>) = <<>> /\ RefLines(<<>>) = <<>> /\ Lines(<<>>) = <<>>
  /\ FirstInt(<<>>) = -1
<1>1. <<>> \in Texts /\ \A chars : Outside(<<>>, chars) = {}
  BY DEF Texts, Outside
<1>2. Trim(<<>>) = <<>>
  BY <1>1 DEF Trim
<1>3. End(<<>>) = 0
  <2>1. PICK text : text = <<>>
    OBVIOUS
  <2>2. text \in Texts /\ Outside(text, {CR, LF}) = {}
    BY <1>1, <2>1
  <2>3. End(text) = 0
    BY <2>2, KeptEnd DEF End
  <2> QED
    BY <2>1, <2>3
<1>4. RefLines(<<>>) = <<>>
  BY <1>3, RefLinesIs
<1>5. Lines(<<>>) = <<>>
  BY <1>1, <1>4, LinesType
<1>6. FirstInt(<<>>) = -1
  <2>1. DOMAIN <<>> \ Outside(<<>>, Digits) = {}
    OBVIOUS
  <2>2. FirstDigits(<<>>) = <<>>
    BY <2>1 DEF FirstDigits
  <2>3. ~Numeric(<<>>)
    BY DEF Numeric, Unsigned
  <2> QED
    BY <2>2, <2>3 DEF FirstInt
<1> QED
  BY <1>1, <1>2, <1>4, <1>5, <1>6

\* Nothing but nothing is in it.
LEMMA OccursInNothing ==
  ASSUME NEW part \in Texts, Occurs(part, <<>>)
  PROVE  part = <<>>
<1>1. Len(part) \in Nat
  BY TextIs
<1>2. \E i \in 0..(0 - Len(part)) : TRUE
  BY DEF Occurs
<1>3. Len(part) = 0
  BY <1>1, <1>2
<1> QED
  BY <1>3 DEF Texts

\* Nothing is in every text.
LEMMA NothingOccurs ==
  ASSUME NEW text \in Texts
  PROVE  Occurs(<<>>, text)
<1>1. Len(text) \in Nat
  BY TextIs
<1>2. PICK s : s = SubSeq(text, 1, 0)
  OBVIOUS
<1>3. s = <<>>
  <2>1. \A i \in 1..0 : text[i] \in Characters
    OBVIOUS
  <2>2. s \in Seq(Characters) /\ Len(s) = 0
    BY <1>2, <2>1, SubSeqProperties
  <2> QED
    BY <2>2
<1>4. 0 \in 0..(Len(text) - Len(<<>>)) /\ 0 + 1 = 1 /\ 0 + Len(<<>>) = 0
  BY <1>1
<1> QED
  BY <1>2, <1>3, <1>4 DEF Occurs

\* What is in a text begins with a character of it.
LEMMA OccursBegins ==
  ASSUME NEW part \in Texts, part # <<>>, NEW text \in Texts, Occurs(part, text)
  PROVE  \E i \in 1..Len(text) : text[i] = part[1]
<1>1. PICK N, K : N = Len(text) /\ K = Len(part)
  OBVIOUS
<1>2. N \in Nat /\ K \in Nat /\ K # 0
  BY <1>1, TextIs DEF Texts
<1>3. PICK i \in 0..(N - K) : SubSeq(text, i + 1, i + K) = part
  BY <1>1 DEF Occurs
<1>4. PICK a, b : a = i + 1 /\ b = i + K
  OBVIOUS
<1>5. a \in 1..N /\ a <= b /\ b <= N /\ a \in Int /\ b \in Int /\ 1 \in 1..(b - a + 1) /\ a + 1 - 1 = a
  BY <1>2, <1>4
<1>6. \A j \in a..b : text[j] \in Characters
  <2>1. \A j \in a..b : j \in 1..N
    BY <1>2, <1>5
  <2> QED
    BY <1>1, <2>1, TextIs
<1>7. PICK s : s = SubSeq(text, a, b)
  OBVIOUS
<1>8. \A j \in 1..(b - a + 1) : s[j] = text[a + j - 1]
  BY <1>5, <1>6, <1>7, SubSeqProperties
<1>9. s[1] = text[a]
  BY <1>5, <1>8
<1> QED
  BY <1>1, <1>3, <1>4, <1>5, <1>7, <1>9

\* A trimmed text that is not empty begins with no blank.
LEMMA TrimBegins ==
  ASSUME NEW text \in Texts, Trim(text) # <<>>
  PROVE  Trim(text)[1] \notin Space
<1> DEFINE kept == Outside(text, Space)
<1>1. kept \in SUBSET (1..Len(text)) /\ Len(text) \in Nat /\ \A i \in kept : text[i] \notin Space
  BY TextIs DEF Outside
<1>2. kept # {}
  BY DEF Trim
<1>3. Trim(text) = SubSeq(text, Min(kept), Max(kept))
  BY <1>2 DEF Trim
<1> HIDE DEF kept
<1>4. kept \in SUBSET Nat /\ kept \in SUBSET (0..Len(text))
  BY <1>1
<1>5. PICK a \in kept : a = Min(kept) /\ \A y \in kept : a <= y
  BY <1>2, <1>4, MinIs
<1>6. PICK b \in kept : b = Max(kept)
  BY <1>1, <1>2, <1>4, MaxIs
<1>7. a \in 1..Len(text) /\ b \in 1..Len(text) /\ a <= b /\ 1 \in 1..(b - a + 1) /\ a + 1 - 1 = a
  BY <1>1, <1>5, <1>6
<1>8. PICK s : s = SubSeq(text, a, b)
  OBVIOUS
<1>9. \A j \in a..b : text[j] \in Characters
  <2>1. \A j \in a..b : j \in 1..Len(text)
    BY <1>1, <1>7
  <2> QED
    BY <2>1, TextIs
<1>10. \A j \in 1..(b - a + 1) : s[j] = text[a + j - 1]
  <2>1. a \in Int /\ b \in Int
    BY <1>7
  <2> QED
    BY <1>8, <1>9, <2>1, SubSeqProperties
<1>11. s[1] = text[a]
  BY <1>7, <1>10
<1> QED
  BY <1>1, <1>3, <1>5, <1>6, <1>8, <1>11

\* The characters of the rows are in what is joined.
LEMMA JoinHasAll ==
  ASSUME NEW rows \in Seq(Texts), NEW n \in 1..Len(rows), NEW i \in 1..Len(rows[n])
  PROVE  \E j \in 1..Len(Join(rows)) : Join(rows)[j] = rows[n][i]
<1> DEFINE N == Len(rows)
           Has(text, k) == \A m \in 1..k : \A l \in 1..Len(rows[m]) :
                             \E j \in 1..Len(text) : text[j] = rows[m][l]
<1>1. N \in Nat /\ \A k \in 1..N : rows[k] \in Texts
  OBVIOUS
<1>2. PICK f : JoinsTo(f, rows)
  BY Joins
<1>3. /\ Join(rows) = f[N] /\ f[0] = <<>> /\ \A k \in 0..N : f[k] \in Texts
      /\ 1 <= N => f[1] = rows[1]
      /\ \A k \in 2..N : f[k] = f[k - 1] \o <<LF>> \o rows[k]
  BY <1>2 DEF JoinsTo
<1> DEFINE S == {k \in 0..N : Has(f[k], k)}
<1> HIDE DEF N
<1>4. 0 \in S
  BY <1>1
<1>5. ASSUME NEW k \in 1..N, k - 1 \in S PROVE k \in S
  <2>0. k \in 0..N
    BY <1>1
  <2>1. CASE k = 1
    <3>1. f[1] = rows[1]
      BY <1>1, <1>3, <2>1
    <3>2. \A m \in 1..1 : m = 1
      OBVIOUS
    <3>3. Has(f[1], 1)
      BY <3>1, <3>2
    <3> QED
      BY <2>0, <2>1, <3>3
  <2>2. CASE k # 1
    <3>1. k \in 2..N /\ k - 1 \in 0..N /\ k \in 1..N
      BY <1>1, <2>2
    <3>2. PICK before, row, all, fed :
            before = f[k - 1] /\ row = rows[k] /\ all = f[k] /\ fed = before \o <<LF>>
      OBVIOUS
    <3>3. all = fed \o row
      BY <1>3, <3>1, <3>2
    <3>4. before \in Texts /\ row \in Texts
      BY <1>1, <1>3, <3>1, <3>2
    <3>5. /\ fed \in Texts /\ Len(fed) = Len(before) + 1
          /\ \A j \in 1..Len(before) : fed[j] = before[j]
      BY <3>2, <3>4, FeedIsText, ConcatProperties DEF Texts
    <3>6. Len(before) \in Nat /\ Len(row) \in Nat /\ Len(fed) \in Nat
      BY <3>4, <3>5, TextIs
    <3>7. /\ Len(all) = Len(fed) + Len(row)
          /\ \A j \in 1..Len(fed) : all[j] = fed[j]
      <4>0. fed \in Seq(Characters) /\ row \in Seq(Characters)
        BY <3>4, <3>5 DEF Texts
      <4>1. /\ Len(fed \o row) = Len(fed) + Len(row)
            /\ \A j \in 1..Len(fed) + Len(row) :
                 (fed \o row)[j] = IF j <= Len(fed) THEN fed[j] ELSE row[j - Len(fed)]
        BY <4>0, ConcatProperties
      <4>2. \A j \in 1..Len(fed) : j \in 1..(Len(fed) + Len(row)) /\ j <= Len(fed)
        BY <3>6
      <4> QED
        BY <3>3, <4>1, <4>2
    <3>8. \A j \in 1..Len(row) : Len(fed) + j \in 1..Len(all) /\ all[Len(fed) + j] = row[j]
      <4> SUFFICES ASSUME NEW j \in 1..Len(row)
                   PROVE  Len(fed) + j \in 1..Len(all) /\ all[Len(fed) + j] = row[j]
        OBVIOUS
      <4>1. PICK J : J = Len(fed) + j
        OBVIOUS
      <4>2. J \in 1..(Len(fed) + Len(row)) /\ ~(J <= Len(fed)) /\ J - Len(fed) = j
        BY <3>6, <4>1
      <4>3. all[J] = row[J - Len(fed)]
        BY <3>3, <3>4, <3>5, <4>2, ConcatProperties DEF Texts
      <4> QED
        BY <3>7, <4>1, <4>2, <4>3
    <3>9. \A j \in 1..Len(before) : j \in 1..Len(all) /\ all[j] = before[j]
      <4>1. \A j \in 1..Len(before) : j \in 1..Len(fed) /\ j \in 1..Len(all)
        BY <3>5, <3>6, <3>7
      <4> QED
        BY <3>5, <3>7, <4>1
    <3>10. ASSUME NEW m \in 1..k, NEW l \in 1..Len(rows[m])
           PROVE  \E j \in 1..Len(all) : all[j] = rows[m][l]
      <4>1. CASE m = k
        <5>1. l \in 1..Len(row)
          BY <3>2, <4>1
        <5>2. Len(fed) + l \in 1..Len(all) /\ all[Len(fed) + l] = row[l]
          BY <3>8, <5>1
        <5> QED
          BY <3>2, <4>1, <5>2
      <4>2. CASE m # k
        <5>1. m \in 1..(k - 1)
          BY <4>2
        <5>2. Has(before, k - 1)
          BY <1>5, <3>2
        <5>3. PICK j \in 1..Len(before) : before[j] = rows[m][l]
          BY <5>1, <5>2
        <5> QED
          BY <3>9, <5>3
      <4> QED
        BY <4>1, <4>2
    <3>11. Has(all, k)
      BY <3>10
    <3> HIDE DEF Has
    <3> QED
      BY <2>0, <3>2, <3>11
  <2> QED
    BY <2>1, <2>2
<1>6. N \in S
  <2> HIDE DEF S
  <2>1. \A k \in 0..N : k \in S
    BY <1>1, <1>4, <1>5, CountingUpTo
  <2> QED
    BY <1>1, <2>1
<1>7. Has(f[N], N)
  BY <1>6
<1>8. n \in 1..N
  BY DEF N
<1>9. PICK all : all = Join(rows) /\ all = f[N]
  BY <1>3
<1>10. \E j \in 1..Len(all) : all[j] = rows[n][i]
  BY <1>7, <1>8, <1>9
<1> QED
  BY <1>9, <1>10

\* A text with a character that ends no line has lines.
LEMMA ShownHasLines ==
  ASSUME NEW text \in Texts, NEW i \in 1..Len(text), text[i] \notin {CR, LF}
  PROVE  RefLines(text) # <<>>
<1>1. End(text) # 0 /\ Cardinality(Feeds(text)) \in Nat
  BY EndIs
<1>2. RefLines(text) = [n \in 1..(Cardinality(Feeds(text)) + 1) |-> Piece(text, OwnOf(text, n))]
  BY <1>1, RefLinesIs
<1>3. 1 \in DOMAIN RefLines(text)
  BY <1>1, <1>2
<1> QED
  BY <1>3

\* The last line of a text that has lines has such a character.
LEMMA LastLineShows ==
  ASSUME NEW text \in Texts, RefLines(text) # <<>>
  PROVE  \E n \in 1..Len(RefLines(text)) : \E i \in 1..Len(RefLines(text)[n]) :
           RefLines(text)[n][i] \notin {CR, LF}
<1> DEFINE N == End(text)
           M == Feeds(text)
           C == Cardinality(M)
<1>1. N # 0
  BY RefLinesIs
<1>2. /\ N \in 1..Len(text) /\ text[N] \notin {CR, LF} /\ M \in SUBSET (1..N) /\ C \in Nat
      /\ Len(text) \in Nat
  BY <1>1, EndIs, TextIs
<1>3. N \notin M /\ \A m \in M : m < N
  <2>1. N \notin M
    BY <1>2 DEF M, Feeds
  <2> HIDE DEF N, M, C
  <2> QED
    BY <1>2, <2>1
<1>4. N \in Between(M, C + 1, N)
  <2>1. {m \in M : m < N} = M
    BY <1>3
  <2>2. (C + 1) - 1 = C /\ N \in (1..N) \ M
    BY <1>2, <1>3
  <2> HIDE DEF N, M
  <2> QED
    BY <2>1, <2>2 DEF Between
<1>5. N \in OwnOf(text, C + 1)
  BY <1>2, <1>4 DEF OwnOf
<1>6. PICK c \in 1..N : \E e \in c..N : OwnOf(text, C + 1) = c..e
  <2>1. C + 1 \in Nat /\ OwnOf(text, C + 1) # {}
    BY <1>2, <1>5
  <2> QED
    BY <2>1, OwnStretch
<1>7. PICK e \in c..N : OwnOf(text, C + 1) = c..e
  BY <1>6
<1>8. PICK line : line = Piece(text, c..e)
  OBVIOUS
<1>9. RefLines(text) = [n \in 1..(C + 1) |-> Piece(text, OwnOf(text, n))]
  BY <1>1, RefLinesIs
<1>10. C + 1 \in 1..Len(RefLines(text)) /\ RefLines(text)[C + 1] = line
  <2>1. RefLines(text) \in Seq(Texts) /\ DOMAIN RefLines(text) = 1..(C + 1)
    BY <1>9, LinesType
  <2>2. C + 1 \in 1..(C + 1) /\ RefLines(text)[C + 1] = line
    <3> HIDE DEF C
    <3> QED
      BY <1>2, <1>7, <1>8, <1>9
  <2>3. DOMAIN RefLines(text) = 1..Len(RefLines(text))
    BY <2>1
  <2> HIDE DEF C
  <2> QED
    BY <2>1, <2>2, <2>3
<1> HIDE DEF N, M, C
<1>11. N \in c..e /\ c \in 1..Len(text) /\ e \in c..Len(text) /\ N = e
  BY <1>2, <1>5, <1>7
<1>12. PICK i : i = e - c + 1
  OBVIOUS
<1>13. Len(line) = e - c + 1
  <2>1. Piece(text, c..e) = SubSeq(text, c, e)
    BY <1>11, PieceIs
  <2>2. \A j \in c..e : text[j] \in Characters
    <3>1. \A j \in c..e : j \in 1..Len(text)
      BY <1>2, <1>11
    <3> QED
      BY <3>1, TextIs
  <2>3. c \in Int /\ e \in Int /\ c <= e
    BY <1>2, <1>11
  <2>4. PICK s : s = SubSeq(text, c, e)
    OBVIOUS
  <2>5. Len(s) = IF c <= e THEN e - c + 1 ELSE 0
    BY <2>2, <2>3, <2>4, SubSeqProperties
  <2> QED
    BY <1>8, <2>1, <2>3, <2>4, <2>5
<1>14. i \in 1..Len(line) /\ c + i - 1 = e
  BY <1>2, <1>11, <1>12, <1>13
<1>15. line[i] = text[e]
  BY <1>8, <1>11, <1>14, PieceChars
<1> QED
  BY <1>2, <1>10, <1>11, <1>14, <1>15

\* An empty output is what filterLines gives only if no line has the pattern.
LEMMA FilterSilence ==
  ASSUME NEW source \in Texts, NEW pattern \in Texts,
         pattern = <<>> \/ pattern[1] \notin Space,
         SameLines(<<>>, FilterLines(source, pattern))
  PROVE  \A n \in DOMAIN RefLines(source) : ~Occurs(pattern, RefLines(source)[n])
<1>0. PICK lines, P : lines = RefLines(source) /\ P = {n \in DOMAIN lines : Occurs(pattern, lines[n])}
  OBVIOUS
<1>1. lines \in Seq(Texts) /\ Lines(source) = lines /\ DOMAIN lines = 1..Len(lines)
      /\ \A n \in 1..Len(lines) : lines[n] \in Texts
  BY <1>0, LinesType
<1>2. P \in SUBSET (1..Len(lines))
  BY <1>0, <1>1
<1>3. PICK rows, all : rows = Only(lines, P) /\ all = Join(rows)
  OBVIOUS
<1>4. rows \in Seq(Texts) /\ \A m \in P : Rank(P, m) \in 1..Len(rows) /\ rows[Rank(P, m)] = lines[m]
  BY <1>1, <1>2, <1>3, OnlyItems
<1>5. all \in Texts /\ Lines(all) = <<>> /\ RefLines(all) = <<>>
  <2>1. all = FilterLines(source, pattern)
    BY <1>0, <1>1, <1>3 DEF FilterLines
  <2>2. Lines(all) = <<>>
    BY <2>1, Nothing DEF SameLines
  <2>3. PICK f : JoinsTo(f, rows)
    BY <1>4, Joins
  <2>4. all \in Texts
    <3>1. Len(rows) \in 0..Len(rows)
      BY <1>4
    <3> QED
      BY <1>3, <2>3, <3>1 DEF JoinsTo
  <2> QED
    BY <2>2, <2>4, LinesType
<1>6. ASSUME NEW n \in P, NEW i \in 1..Len(lines[n]), lines[n][i] \notin {CR, LF} PROVE FALSE
  <2>1. PICK m : m = Rank(P, n) /\ m \in 1..Len(rows) /\ rows[m] = lines[n]
    BY <1>4
  <2>2. i \in 1..Len(rows[m])
    BY <2>1
  <2>3. PICK j \in 1..Len(all) : all[j] = rows[m][i]
    BY <1>3, <1>4, <2>1, <2>2, JoinHasAll
  <2>4. all[j] \notin {CR, LF}
    BY <1>6, <2>1, <2>3
  <2> QED
    BY <1>5, <2>4, ShownHasLines
<1>7. ASSUME NEW n \in P PROVE FALSE
  <2>1. n \in 1..Len(lines) /\ lines[n] \in Texts /\ Occurs(pattern, lines[n])
    BY <1>0, <1>1
  <2>2. CASE pattern = <<>>
    <3>1. lines # <<>>
      BY <1>1, <2>1
    <3>2. PICK k \in 1..Len(lines) : \E i \in 1..Len(lines[k]) : lines[k][i] \notin {CR, LF}
      BY <1>0, <3>1, LastLineShows
    <3>3. k \in P
      BY <1>0, <1>1, <2>2, NothingOccurs
    <3> QED
      BY <1>6, <3>2, <3>3
  <2>3. CASE pattern # <<>>
    <3>1. PICK i \in 1..Len(lines[n]) : lines[n][i] = pattern[1]
      BY <2>1, <2>3, OccursBegins
    <3>2. pattern[1] \notin {CR, LF}
      BY <2>3 DEF Space
    <3> QED
      BY <1>6, <3>1, <3>2
  <2> QED
    BY <2>2, <2>3
<1> QED
  BY <1>0, <1>7

----------------------------------------------------------------------------
(* Checks and requests *)

\* What a check asks for, as Validate leaves it: texts, and no blanks around.
LEMMA ParamIs ==
  ASSUME NEW c, IsCheck(c), NEW r, IsRequest(r), NEW name \in Required[c.predicate],
         name # "values"
  PROVE  /\ name \in DOMAIN c.params /\ c.params[name] \in Texts
         /\ StringParam(c, name) \in Texts /\ ValueParam(c, name, r) \in Texts
         /\ ValueParam(c, name, r) = <<>> \/ ValueParam(c, name, r)[1] \notin Space
<1>1. name \in DOMAIN c.params /\ c.params[name] \in Texts
  <2>1. name \in DOMAIN c.params \ {"values"}
    BY DEF IsCheck
  <2> QED
    BY <2>1 DEF IsCheck
<1>2. PICK value : value = Trim(c.params[name]) /\ value \in Texts
  BY <1>1, TrimType
<1>3. StringParam(c, name) = value
  BY <1>2 DEF StringParam
<1>4. value = <<>> \/ value[1] \notin Space
  BY <1>1, <1>2, TrimBegins
<1>5. CASE value \in DOMAIN r.inputs /\ Trim(r.inputs[value]) # <<>>
  <2>1. r.inputs[value] \in Texts
    BY <1>5 DEF IsRequest
  <2>2. ValueParam(c, name, r) = Trim(r.inputs[value])
    BY <1>3, <1>5 DEF ValueParam
  <2> QED
    BY <1>1, <1>2, <1>3, <1>5, <2>1, <2>2, TrimType, TrimBegins
<1>6. CASE ~(value \in DOMAIN r.inputs /\ Trim(r.inputs[value]) # <<>>)
  <2>1. ValueParam(c, name, r) = value
    BY <1>3, <1>6 DEF ValueParam
  <2> QED
    BY <1>1, <1>2, <1>3, <1>4, <2>1
<1> QED
  BY <1>5, <1>6

\* What a check is about is a content of the request.
LEMMA GotIs ==
  ASSUME NEW c, IsCheck(c), NEW r, IsRequest(r), Reads(c, r)
  PROVE  IsContent(Got(c, r))
<1>1. CASE IsFile(c)
  <2>1. Path(c, r) \in DOMAIN r.files /\ Got(c, r) = r.files[Path(c, r)]
    BY <1>1 DEF Reads, Got
  <2>2. Got(c, r) \in Range(r.files)
    BY <2>1 DEF Range
  <2> QED
    BY <2>2 DEF IsRequest
<1>2. CASE ~IsFile(c)
  <2>1. c.subject.type \in {"stdout", "stderr", "exit_code"}
    BY <1>2 DEF IsCheck, IsFile
  <2>2. Got(c, r) = r[c.subject.type]
    BY <1>2 DEF Got
  <2>3. Got(c, r) \in {r.stdout, r.stderr, r.exit_code}
    BY <2>1, <2>2
  <2> QED
    BY <2>3 DEF IsRequest
<1> QED
  BY <1>1, <1>2

\* So is the source.
LEMMA SourceIs ==
  ASSUME NEW c, IsCheck(c), NEW r, IsRequest(r), Reads(c, r), "source" \in Required[c.predicate]
  PROVE  /\ IsContent(Source(c, r))
         /\ Source(c, r).text \in DOMAIN Encoded
         /\ Source(c, r).text \in DOMAIN Digest["sha1"]
         /\ Source(c, r).text \in DOMAIN Digest["sha256"]
<1>1. "source" \in DOMAIN c.params
  BY DEF IsCheck
<1>2. Source(c, r) \in Range(r.files)
  BY <1>1 DEF Reads, Source, Range
<1> QED
  BY <1>2 DEF IsRequest

\* The parameters that the predicates below require.
LEMMA RequiredIs ==
  /\ Required["line_count_matches"] = {"source"}
  /\ Required["text_filter_matches"] = {"source", "pattern"}
  /\ Required["delimited_column_matches"] = {"source", "delimiter", "column"}
  /\ Required["json_query_matches"] = {"source", "query"}
  /\ Required["json_field_equals"] = {"query", "value"}
  /\ Required["json_field_matches_source"] = {"query", "source", "property"}
  /\ Required["contains"] = {"value"}
  /\ Required["text_transform_matches"] = {"source", "transform"}
  /\ Required["bytes_equal_transform"] = {"source", "transform"}
  /\ Required["hash_line_matches"] = {"source", "algorithm"}
  /\ Required["contains_any"] = {"values"}
BY DEF Required

----------------------------------------------------------------------------
(* Each check is right *)

\* A text that ends with a line feed has as many lines as line feeds.
LEMMA EndsCounted ==
  ASSUME NEW source \in Texts, Terminated(source)
  PROVE  LineCount(source) = Cardinality(Marks(source, <<LF>>))
<1>1. \A n : <<source[n]>> = <<LF>> <=> source[n] = LF
  OBVIOUS
<1>2. \A n \in DOMAIN source : n = Len(source) => source[n] = LF
  <2>1. source = <<>> => DOMAIN source = {}
    OBVIOUS
  <2> QED
    BY <2>1 DEF Terminated
<1>3. LineEnds(source) = {n \in DOMAIN source : source[n] = LF}
  BY <1>2 DEF LineEnds
<1>4. {n \in DOMAIN source : source[n] = LF} = Marks(source, <<LF>>)
  BY <1>1 DEF Marks
<1> QED
  BY <1>3, <1>4 DEF LineCount

LEMMA CountExact ==
  ASSUME NEW c, IsCheck(c), NEW r, IsRequest(r), c.predicate = "line_count_matches",
         Terminated(Source(c, r).text)
  PROVE  Holds(c, r) <=> Right(c, r)
<1>1. PICK got, source : got = Got(c, r).text /\ source = Source(c, r).text
  OBVIOUS
<1>2. Holds(c, r) <=> Reads(c, r) /\ LineCountMatches(got, source)
  BY <1>1 DEF Holds
<1>3. Right(c, r) <=> Reads(c, r) /\ FirstNumberIs(got, LineCount(source))
  BY <1>1 DEF Right
<1>4. ASSUME Reads(c, r)
      PROVE  LineCountMatches(got, source) <=> FirstNumberIs(got, LineCount(source))
  <2>1. "source" \in Required[c.predicate]
    BY RequiredIs
  <2>2. got \in Texts /\ source \in Texts /\ Len(source) <= MaxInt
    BY <1>1, <1>4, <2>1, GotIs, SourceIs DEF IsContent
  <2>3. PICK C : C = Cardinality(Marks(source, <<LF>>))
    OBVIOUS
  <2>4. C \in Nat /\ C <= Len(source) /\ (LineCountMatches(got, source) <=> FirstInt(got) = C)
    BY <2>2, <2>3, FeedCount DEF LineCountMatches
  <2>5. Len(source) \in Nat /\ MaxInt \in Nat
    BY <2>2, TextIs, ChecksAssumption
  <2>6. C <= MaxInt
    BY <2>2, <2>4, <2>5
  <2>7. LineCount(source) = C
    BY <1>1, <2>2, <2>3, EndsCounted
  <2> QED
    BY <2>2, <2>4, <2>6, <2>7, CountRight
<1> QED
  BY <1>2, <1>3, <1>4

LEMMA FilterExact ==
  ASSUME NEW c, IsCheck(c), NEW r, IsRequest(r), c.predicate = "text_filter_matches",
         Clean(Source(c, r).text)
  PROVE  Holds(c, r) <=> Right(c, r)
<1>1. PICK got, source, pattern :
        got = Got(c, r).text /\ source = Source(c, r).text /\ pattern = ValueParam(c, "pattern", r)
  OBVIOUS
<1>2. Holds(c, r) <=> Reads(c, r) /\ SameLines(got, FilterLines(source, pattern))
  BY <1>1 DEF Holds
<1>3. Right(c, r) <=> Reads(c, r) /\ RightFilter(got, source, pattern)
  BY <1>1 DEF Right
<1>4. ASSUME Reads(c, r)
      PROVE  SameLines(got, FilterLines(source, pattern)) <=> RightFilter(got, source, pattern)
  <2>1. "source" \in Required[c.predicate]
    BY RequiredIs
  <2>2. got \in Texts /\ source \in Texts
    BY <1>1, <1>4, <2>1, GotIs, SourceIs DEF IsContent
  <2> QED
    BY <1>1, <2>2, FilterRight
<1> QED
  BY <1>2, <1>3, <1>4

LEMMA ColumnExact ==
  ASSUME NEW c, IsCheck(c), NEW r, IsRequest(r), c.predicate = "delimited_column_matches",
         Clean(Source(c, r).text), Len(ValueParam(c, "delimiter", r)) = 1
  PROVE  Holds(c, r) <=> Right(c, r)
<1>1. PICK got, source, delimiter, column :
        /\ got = Got(c, r).text /\ source = Source(c, r).text
        /\ delimiter = ValueParam(c, "delimiter", r) /\ column = ValueParam(c, "column", r)
  OBVIOUS
<1>2. Holds(c, r) <=> Reads(c, r) /\ ColumnMatches(got, source, delimiter, column)
  BY <1>1 DEF Holds
<1>3. Right(c, r) <=> Reads(c, r) /\ RightColumn(got, source, delimiter, column)
  BY <1>1 DEF Right
<1>4. ASSUME Reads(c, r)
      PROVE  ColumnMatches(got, source, delimiter, column) <=>
               RightColumn(got, source, delimiter, column)
  <2>1. "source" \in Required[c.predicate] /\ "column" \in Required[c.predicate]
    BY RequiredIs
  <2>2. got \in Texts /\ source \in Texts
    BY <1>1, <1>4, <2>1, GotIs, SourceIs DEF IsContent
  <2>3. column \in Texts
    BY <1>1, <2>1, ParamIs
  <2> QED
    BY <1>1, <2>2, <2>3, ColumnRight
<1> QED
  BY <1>2, <1>3, <1>4

LEMMA QueryExact ==
  ASSUME NEW c, IsCheck(c), NEW r, IsRequest(r),
         c.predicate \in {"json_query_matches", "json_field_equals", "json_field_matches_source"}
  PROVE  Holds(c, r) <=> Right(c, r)
<1>1. PICK got, source, query :
        got = Got(c, r) /\ source = Source(c, r) /\ query = ValueParam(c, "query", r)
  OBVIOUS
<1>2. query \in Texts
  <2>1. "query" \in Required[c.predicate]
    BY RequiredIs
  <2> QED
    BY <1>1, <2>1, ParamIs
<1>3. Reads(c, r) => got.json \in Reached
  BY <1>1, GotIs DEF IsContent, Reached
<1>4. CASE c.predicate = "json_query_matches"
  <2>1. PICK want : want = Trim(got.text)
    OBVIOUS
  <2>2. Holds(c, r) <=> Reads(c, r) /\ Leads(source, query, want)
    BY <1>1, <1>4, <2>1 DEF Holds, JSONQueryMatches
  <2>3. Right(c, r) <=> Reads(c, r) /\ FindsText(source, query, want)
    BY <1>1, <1>4, <2>1 DEF Right
  <2>4. ASSUME Reads(c, r) PROVE source.json \in Reached
    <3>1. "source" \in Required[c.predicate]
      BY <1>4, RequiredIs
    <3> QED
      BY <1>1, <2>4, <3>1, SourceIs DEF IsContent, Reached
  <2> QED
    BY <1>2, <2>2, <2>3, <2>4, QueryRight
<1>5. CASE c.predicate = "json_field_equals"
  <2>1. PICK want : want = Trim(ValueParam(c, "value", r))
    OBVIOUS
  <2>2. Holds(c, r) <=> Reads(c, r) /\ Leads(got, query, want)
    BY <1>1, <1>5, <2>1 DEF Holds, JSONFieldEquals
  <2>3. Right(c, r) <=> Reads(c, r) /\ FindsText(got, query, want)
    BY <1>1, <1>5, <2>1 DEF Right
  <2> QED
    BY <1>2, <1>3, <2>2, <2>3, QueryRight
<1>6. CASE c.predicate = "json_field_matches_source"
  <2>1. PICK want : want = Property(c, r)
    OBVIOUS
  <2>2. Holds(c, r) <=> Reads(c, r) /\ Leads(got, query, want)
    BY <1>1, <1>6, <2>1 DEF Holds
  <2>3. Right(c, r) <=> Reads(c, r) /\ FindsText(got, query, want)
    BY <1>1, <1>6, <2>1 DEF Right
  <2> QED
    BY <1>2, <1>3, <2>2, <2>3, QueryRight
<1> QED
  BY <1>4, <1>5, <1>6

LEMMA ArchiveExact ==
  ASSUME NEW c, IsCheck(c), NEW r, IsRequest(r), c.predicate = "archive_contains_input"
  PROVE  Holds(c, r) <=> Right(c, r)
<1>1. PICK got, text, format : /\ got = Got(c, r) /\ text = Source(c, r).text
                               /\ format = StringParam(c, "format")[1]
  OBVIOUS
<1>2. Holds(c, r) <=> Reads(c, r) /\ ArchiveContains(got, text, format)
  BY <1>1 DEF Holds
<1>3. Right(c, r) <=> Reads(c, r) /\ IsInArchive(got, text, format)
  BY <1>1 DEF Right
<1>4. Reads(c, r) => got.entries \in Seq(Range(got.entries))
  BY <1>1, GotIs DEF IsContent
<1> QED
  BY <1>2, <1>3, <1>4, ArchiveRight

\* Every check: what the code decides is what it should mean.
LEMMA Exact ==
  ASSUME NEW c, IsCheck(c), NEW r, IsRequest(r)
  PROVE  Holds(c, r) <=> Right(c, r)
<1>1. CASE c.predicate = "line_count_matches" /\ Terminated(Source(c, r).text)
  BY <1>1, CountExact
<1>2. CASE c.predicate = "text_filter_matches" /\ Clean(Source(c, r).text)
  BY <1>2, FilterExact
<1>3. CASE /\ c.predicate = "delimited_column_matches"
           /\ Clean(Source(c, r).text) /\ Len(ValueParam(c, "delimiter", r)) = 1
  BY <1>3, ColumnExact
<1>4. CASE c.predicate \in {"json_query_matches", "json_field_equals", "json_field_matches_source"}
  BY <1>4, QueryExact
<1>5. CASE c.predicate = "archive_contains_input"
  BY <1>5, ArchiveExact
<1>6. CASE /\ ~(c.predicate = "line_count_matches" /\ Terminated(Source(c, r).text))
           /\ ~(c.predicate = "text_filter_matches" /\ Clean(Source(c, r).text))
           /\ ~(/\ c.predicate = "delimited_column_matches"
                /\ Clean(Source(c, r).text) /\ Len(ValueParam(c, "delimiter", r)) = 1)
           /\ c.predicate \notin {"json_query_matches", "json_field_equals", "json_field_matches_source"}
           /\ c.predicate # "archive_contains_input"
  <2>1. Right(c, r) <=> Reads(c, r) /\ Holds(c, r)
    BY <1>6 DEF Right
  <2>2. Holds(c, r) => Reads(c, r)
    BY DEF Holds
  <2> QED
    BY <2>1, <2>2
<1> QED
  BY <1>1, <1>2, <1>3, <1>4, <1>5, <1>6

----------------------------------------------------------------------------
(* Silence *)

\* Nothing shows no row but empty ones.
LEMMA NothingShown ==
  ASSUME NEW N \in Nat, NEW P \in SUBSET (1..N), NEW row, Shows(<<>>, P, row)
  PROVE  \A n \in P : row[n] = <<>>
<1> DEFINE T == {0} \cup {n \in P : row[n] # <<>>}
           last == Max(T)
           kept == {n \in P : n <= last}
<1>1. Cardinality(kept) = 0
  <2>1. Len(RefLines(<<>>)) = Cardinality(kept)
    BY DEF Shows
  <2>2. PICK none : none = RefLines(<<>>) /\ none = <<>>
    BY Nothing
  <2>3. Len(none) = 0
    BY <2>2
  <2> HIDE DEF kept
  <2> QED
    BY <2>1, <2>2, <2>3
<1>2. kept = {}
  <2>1. kept \in SUBSET (1..N)
    OBVIOUS
  <2>2. IsFiniteSet(1..N)
    BY FS_Interval
  <2> HIDE DEF kept
  <2>3. IsFiniteSet(kept)
    BY <2>1, <2>2, FS_Subset
  <2> QED
    BY <1>1, <2>3, FS_EmptySet
<1>3. T \in SUBSET (0..N) /\ T # {}
  <2>1. 0 \in 0..N /\ \A n \in P : n \in 0..N
    OBVIOUS
  <2> QED
    BY <2>1
<1>4. \A y \in T : y <= last
  <2> HIDE DEF T
  <2> QED
    BY <1>3, MaxIs
<1>5. ASSUME NEW n \in P, row[n] # <<>> PROVE FALSE
  <2>1. n \in T
    BY <1>5
  <2>2. n \in kept
    <3> HIDE DEF T
    <3>1. n <= last
      BY <1>4, <2>1
    <3> HIDE DEF last
    <3> QED
      BY <3>1
  <2> QED
    BY <1>2, <2>2
<1> QED
  BY <1>5

\* A changed text is as long as before.
LEMMA TransformedNothing ==
  ASSUME NEW text \in Texts, NEW transform
  PROVE  Transformed(text, transform) = <<>> <=> text = <<>>
<1>1. PICK t : t = Transformed(text, transform)
  OBVIOUS
<1>2. DOMAIN t = DOMAIN text /\ t = [i \in DOMAIN text |-> t[i]]
  BY <1>1 DEF Transformed
<1>3. DOMAIN text = 1..Len(text) /\ Len(text) \in Nat
  BY TextIs
<1>4. t = <<>> => text = <<>>
  <2>1. t = <<>> => 1..Len(text) = {}
    BY <1>2, <1>3
  <2>2. 1..Len(text) = {} => Len(text) = 0
    BY <1>3
  <2>3. Len(text) = 0 => text = <<>>
    BY DEF Texts
  <2> QED
    BY <2>1, <2>2, <2>3
<1>5. text = <<>> => t = <<>>
  <2>1. ASSUME text = <<>> PROVE t = <<>>
    <3>1. DOMAIN t = {}
      BY <1>2, <2>1
    <3> QED
      BY <1>2, <3>1
  <2> QED
    BY <2>1
<1> QED
  BY <1>1, <1>4, <1>5

\* The values of a list are not empty.
LEMMA ListedValues ==
  ASSUME NEW c, IsCheck(c), c.predicate = "contains_any", NEW v \in Range(ListParam(c))
  PROVE  v \in Texts /\ v # <<>>
<1>1. c.params.values \in Seq(Texts)
  BY RequiredIs DEF IsCheck
<1>2. PICK values : values = [n \in DOMAIN c.params.values |-> Trim(c.params.values[n])]
  OBVIOUS
<1>3. values \in Seq(Texts)
  <2>1. PICK N : N = Len(c.params.values) /\ N \in Nat /\ DOMAIN c.params.values = 1..N
    BY <1>1
  <2>2. \A n \in 1..N : c.params.values[n] \in Texts
    BY <1>1, <2>1
  <2>3. \A n \in 1..N : Trim(c.params.values[n]) \in Texts
    BY <2>2, TrimType
  <2>4. values \in [1..N -> Texts]
    BY <1>2, <2>1, <2>3
  <2> QED
    BY <2>1, <2>4, Listed
<1>4. PICK P, q : P = {n \in DOMAIN values : values[n] # <<>>} /\ q = Only(values, P)
  OBVIOUS
<1>5. P \in SUBSET (1..Len(values))
  BY <1>3, <1>4
<1>6. q \in Seq(Texts) /\ \A j \in 1..Len(q) : \E m \in P : q[j] = values[m]
  <2>1. /\ q \in Seq(Texts)
        /\ \A j \in 1..Len(q) : \E m \in P : j = Rank(P, m) /\ q[j] = values[m]
    <3>1. q = Only(values, P)
      BY <1>4
    <3>2. PICK X : X = Texts
      OBVIOUS
    <3>3. values \in Seq(X)
      BY <1>3, <3>2
    <3>4. /\ q \in Seq(X) /\ Len(q) = Cardinality(P)
          /\ \A m \in P : Rank(P, m) \in 1..Len(q) /\ q[Rank(P, m)] = values[m]
          /\ \A j \in 1..Len(q) : \E m \in P : j = Rank(P, m) /\ q[j] = values[m]
      BY <1>5, <3>1, <3>3, OnlyItems
    <3> QED
      BY <3>2, <3>4
  <2>2. \A j \in 1..Len(q) : \E m \in P : q[j] = values[m]
    BY <2>1
  <2> QED
    BY <2>1, <2>2
<1>7. v \in Range(q)
  BY <1>2, <1>4 DEF ListParam
<1>8. PICK j \in 1..Len(q) : v = q[j]
  BY <1>6, <1>7 DEF Range
<1>9. PICK m \in P : v = values[m]
  BY <1>6, <1>8
<1> QED
  BY <1>3, <1>4, <1>5, <1>9

LEMMA FilterQuiet ==
  ASSUME NEW c, IsCheck(c), NEW r, IsRequest(r), Holds(c, r), Got(c, r).text = <<>>,
         c.predicate = "text_filter_matches"
  PROVE  AsksNothing(c, r)
<1>1. PICK source, pattern : source = Source(c, r).text /\ pattern = ValueParam(c, "pattern", r)
  OBVIOUS
<1>2. Reads(c, r) /\ SameLines(<<>>, FilterLines(source, pattern))
  BY <1>1 DEF Holds
<1>3. "source" \in Required[c.predicate] /\ "pattern" \in Required[c.predicate]
  BY RequiredIs
<1>4. source \in Texts
  BY <1>1, <1>2, <1>3, SourceIs DEF IsContent
<1>5. pattern \in Texts /\ (pattern = <<>> \/ pattern[1] \notin Space)
  BY <1>1, <1>3, ParamIs
<1>6. \A n \in DOMAIN RefLines(source) : ~Occurs(pattern, RefLines(source)[n])
  BY <1>2, <1>4, <1>5, FilterSilence
<1> QED
  BY <1>1, <1>6 DEF AsksNothing

LEMMA ColumnQuiet ==
  ASSUME NEW c, IsCheck(c), NEW r, IsRequest(r), Holds(c, r), Got(c, r).text = <<>>,
         c.predicate = "delimited_column_matches"
  PROVE  AsksNothing(c, r)
<1>1. PICK source, delimiter, column :
        /\ source = Source(c, r).text
        /\ delimiter = ValueParam(c, "delimiter", r) /\ column = ValueParam(c, "column", r)
  OBVIOUS
<1>2. PICK lines, k, P : /\ lines = RefLines(source) /\ k = WantedColumn(lines, delimiter, column)
                         /\ P = WantedRows(lines, delimiter, column)
  OBVIOUS
<1>3. AsksNothing(c, r) <=>
        (Clean(source) /\ Len(delimiter) = 1 => \A n \in P : CellAt(lines[n], delimiter, k) = <<>>)
  BY <1>1, <1>2 DEF AsksNothing
<1>4. ASSUME Clean(source), Len(delimiter) = 1
      PROVE  \A n \in P : CellAt(lines[n], delimiter, k) = <<>>
  <2>1. Reads(c, r) /\ ColumnMatches(<<>>, source, delimiter, column)
    BY <1>1 DEF Holds
  <2>2. "source" \in Required[c.predicate] /\ "column" \in Required[c.predicate]
    BY RequiredIs
  <2>3. source \in Texts /\ column \in Texts /\ <<>> \in Texts
    BY <1>1, <2>1, <2>2, SourceIs, ParamIs, Nothing DEF IsContent
  <2>4. RightColumn(<<>>, source, delimiter, column)
    BY <1>4, <2>1, <2>3, ColumnRight
  <2>5. PICK row : row = [n \in P |-> CellAt(lines[n], delimiter, k)]
    OBVIOUS
  <2>6. Shows(<<>>, P, row)
    BY <1>2, <2>4, <2>5 DEF RightColumn
  <2>7. PICK N : N = Len(lines) /\ N \in Nat
    BY <1>2, <2>3, LinesType
  <2>8. P \in SUBSET (1..N)
    BY <1>2, <2>7 DEF WantedRows
  <2>9. \A n \in P : row[n] = <<>>
    BY <2>6, <2>7, <2>8, NothingShown
  <2> QED
    BY <2>5, <2>9
<1> QED
  BY <1>3, <1>4

LEMMA QueryQuiet ==
  ASSUME NEW c, IsCheck(c), NEW r, IsRequest(r), Holds(c, r), Got(c, r).text = <<>>,
         c.predicate \in {"json_query_matches", "json_equivalent", "json_field_equals",
                          "json_field_matches_source"}
  PROVE  AsksNothing(c, r)
<1>1. Reads(c, r)
  BY DEF Holds
<1>2. Got(c, r).json = NoValue
  BY <1>1, GotIs DEF IsContent
<1>3. CASE c.predicate = "json_query_matches"
  <2>1. Right(c, r)
    BY <1>3, QueryExact
  <2>2. FindsText(Source(c, r), ValueParam(c, "query", r), Trim(<<>>))
    BY <1>3, <2>1 DEF Right
  <2> QED
    BY <1>3, <2>2, Nothing DEF AsksNothing
<1>4. CASE c.predicate = "json_equivalent"
  BY <1>2, <1>4 DEF Holds, JSONEquivalent
<1>5. CASE c.predicate \in {"json_field_equals", "json_field_matches_source"}
  <2>1. PICK query : query = ValueParam(c, "query", r)
    OBVIOUS
  <2>2. "query" \in Required[c.predicate]
    BY <1>5, RequiredIs
  <2>3. Walk(NoValue, query) = NoValue
    BY <2>1, <2>2, ParamIs, WalkNothing
  <2>4. \E want : Leads(Got(c, r), query, want)
    BY <1>5, <2>1 DEF Holds, JSONFieldEquals
  <2> QED
    BY <1>2, <2>3, <2>4 DEF Leads
<1> QED
  BY <1>3, <1>4, <1>5

LEMMA TextQuiet ==
  ASSUME NEW c, IsCheck(c), NEW r, IsRequest(r), Holds(c, r), Got(c, r).text = <<>>,
         c.predicate \in {"equals", "not_equals", "exists", "non_empty", "format", "contains",
                          "contains_any", "regex", "text_transform_matches",
                          "line_count_matches"}
  PROVE  AsksNothing(c, r)
<1>1. Reads(c, r)
  BY DEF Holds
<1>2. PICK got : got = Got(c, r)
  OBVIOUS
<1>3. IsContent(got) /\ got.text = <<>>
  BY <1>1, <1>2, GotIs
<1>4. CASE c.predicate \in {"equals", "not_equals", "exists", "regex"}
  BY <1>4 DEF Holds, AsksNothing
<1>5. CASE c.predicate = "non_empty"
  <2>1. NonEmpty(c, got)
    BY <1>2, <1>5 DEF Holds
  <2> QED
    BY <1>3, <2>1, Nothing DEF NonEmpty
<1>6. CASE c.predicate = "format"
  <2>1. StringParam(c, "format")[1] \in got.formats
    BY <1>2, <1>6 DEF Holds
  <2> QED
    BY <1>3, <1>6, <2>1 DEF IsContent, AsksNothing
<1>7. CASE c.predicate = "contains"
  <2>1. Occurs(StringParam(c, "value"), <<>>)
    BY <1>7 DEF Holds
  <2>2. StringParam(c, "value") \in Texts
    BY <1>7, RequiredIs, ParamIs
  <2>3. StringParam(c, "value") = <<>>
    BY <2>1, <2>2, OccursInNothing
  <2> QED
    BY <1>7, <2>3 DEF AsksNothing
<1>8. CASE c.predicate = "contains_any"
  <2>1. PICK v \in Range(ListParam(c)) : Occurs(v, <<>>)
    BY <1>8 DEF Holds
  <2> QED
    BY <1>8, <2>1, ListedValues, OccursInNothing
<1>9. CASE c.predicate = "text_transform_matches"
  <2>1. PICK source, transform : source = Source(c, r).text /\ transform = StringParam(c, "transform")
    OBVIOUS
  <2>2. <<>> = Transformed(source, transform)
    BY <1>9, <2>1 DEF Holds
  <2>3. "source" \in Required[c.predicate]
    BY <1>9, RequiredIs
  <2>4. source \in Texts
    BY <1>1, <2>1, <2>3, SourceIs DEF IsContent
  <2>5. source = <<>>
    BY <2>2, <2>4, TransformedNothing
  <2> QED
    BY <1>9, <2>1, <2>5 DEF AsksNothing
<1>10. CASE c.predicate = "line_count_matches"
  <2>1. PICK source : source = Source(c, r).text
    OBVIOUS
  <2>2. LineCountMatches(<<>>, source)
    BY <1>10, <2>1 DEF Holds
  <2>3. "source" \in Required[c.predicate]
    BY <1>10, RequiredIs
  <2>4. source \in Texts
    BY <1>1, <2>1, <2>3, SourceIs DEF IsContent
  <2>5. PICK C : C = Cardinality({n \in DOMAIN source : source[n] = LF}) /\ C \in Nat
    BY <2>4, FeedCount
  <2>6. C = -1
    BY <2>2, <2>5, Nothing DEF LineCountMatches
  <2> QED
    BY <2>5, <2>6
<1> QED
  BY <1>4, <1>5, <1>6, <1>7, <1>8, <1>9, <1>10

LEMMA FileQuiet ==
  ASSUME NEW c, IsCheck(c), NEW r, IsRequest(r), Holds(c, r), Got(c, r).text = <<>>,
         c.predicate \in {"archive_contains_input", "bytes_equal_transform", "hash_line_matches"}
  PROVE  AsksNothing(c, r)
<1>1. Reads(c, r)
  BY DEF Holds
<1>2. PICK got : got = Got(c, r)
  OBVIOUS
<1>3. IsContent(got) /\ got.text = <<>>
  BY <1>1, <1>2, GotIs
<1>4. CASE c.predicate = "archive_contains_input"
  <2>1. StringParam(c, "format")[1] \in got.formats
    BY <1>2, <1>4 DEF Holds, ArchiveContains
  <2>2. StringParam(c, "format") \in {<<"zip">>, <<"tar">>}
    BY <1>4 DEF IsCheck
  <2>3. StringParam(c, "format")[1] \in {"zip", "tar"}
    BY <2>2
  <2> QED
    BY <1>3, <2>1, <2>3 DEF IsContent
<1>5. CASE c.predicate = "bytes_equal_transform"
  <2>1. PICK source, transform : source = Source(c, r).text /\ transform = StringParam(c, "transform")
    OBVIOUS
  <2>2. BytesMatch(<<>>, source, transform)
    BY <1>5, <2>1 DEF Holds
  <2>3. "source" \in Required[c.predicate]
    BY <1>5, RequiredIs
  <2>4. source \in DOMAIN Encoded
    BY <1>1, <2>1, <2>3, SourceIs
  <2>5. CASE transform = <<"base64_encode">>
    <3>1. Trim(Encoded[source]) = <<>>
      BY <2>2, <2>5, Nothing DEF BytesMatch
    <3>2. source = <<>>
      BY <2>4, <3>1, ChecksAssumption
    <3> QED
      BY <1>5, <2>1, <3>2 DEF AsksNothing
  <2>6. CASE transform # <<"base64_encode">>
    <3>1. PICK bytes \in DOMAIN Encoded : Encoded[bytes] = Unwrapped(source) /\ Trim(bytes) = <<>>
      BY <2>2, <2>6, Nothing DEF BytesMatch
    <3> QED
      BY <1>5, <2>1, <3>1 DEF AsksNothing
  <2> QED
    BY <2>5, <2>6
<1>6. CASE c.predicate = "hash_line_matches"
  <2>1. PICK source, algorithm :
          source = Source(c, r).text /\ algorithm = StringParam(c, "algorithm")[1]
    OBVIOUS
  <2>2. PICK digest : digest = Digest[algorithm][source]
    OBVIOUS
  <2>3. Occurs(digest, <<>>)
    <3>1. HashLineMatches(<<>>, source, algorithm)
      BY <1>6, <2>1 DEF Holds
    <3>2. Transformed(<<>>, <<"lowercase">>) = <<>>
      BY Nothing, TransformedNothing
    <3> QED
      BY <2>2, <3>1, <3>2 DEF HashLineMatches
  <2>4. algorithm \in {"sha1", "sha256"}
    <3>1. StringParam(c, "algorithm") \in {<<"sha1">>, <<"sha256">>}
      BY <1>6 DEF IsCheck
    <3> QED
      BY <2>1, <3>1
  <2>5. source \in DOMAIN Digest[algorithm]
    <3>1. "source" \in Required[c.predicate]
      BY <1>6, RequiredIs
    <3> QED
      BY <1>1, <2>1, <2>4, <3>1, SourceIs
  <2>6. digest \in Range(Digest["sha1"]) \cup Range(Digest["sha256"])
    BY <2>2, <2>4, <2>5 DEF Range
  <2>7. digest \in Texts \ {<<>>}
    BY <2>6, ChecksAssumption
  <2> QED
    BY <2>3, <2>7, OccursInNothing
<1> QED
  BY <1>4, <1>5, <1>6

\* A check that holds of nothing asks nothing.
LEMMA Quiet ==
  ASSUME NEW c, IsCheck(c), NEW r, IsRequest(r), Holds(c, r), Got(c, r).text = <<>>
  PROVE  AsksNothing(c, r)
<1>1. c.predicate \in {"equals", "not_equals", "exists", "non_empty", "format", "contains",
                       "contains_any", "regex", "text_transform_matches", "line_count_matches",
                       "text_filter_matches", "delimited_column_matches", "json_query_matches",
                       "json_equivalent", "json_field_equals", "json_field_matches_source",
                       "archive_contains_input", "bytes_equal_transform", "hash_line_matches"}
  BY DEF Holds
<1> QED
  BY <1>1, TextQuiet, FilterQuiet, ColumnQuiet, QueryQuiet, FileQuiet

----------------------------------------------------------------------------
(* The checker *)

\* The checks before the next have held, each with its piece of evidence; a plan
\* that has failed did so at one that does not, unless it was canceled.
Held == \A n \in 1..(at - 1) : Holds(checks[n], request)
Evidenced ==
  /\ evidence \in Seq((1..Len(checks)) \X {checks[n].predicate : n \in 1..Len(checks)})
  /\ Len(evidence) = at - 1
  /\ \A n \in 1..(at - 1) : evidence[n][1] = n
Ended ==
  /\ pc = "passed" => at = Len(checks) + 1
  /\ pc = "failed" => at <= Len(checks) /\ (canceled \/ ~Holds(checks[at], request))
IInv ==
  /\ pc \in {"checking", "passed", "failed"} /\ canceled \in BOOLEAN
  /\ checks \in Specs /\ request \in Requests /\ at \in 1..(Len(checks) + 1)
  /\ Held /\ Evidenced /\ Ended

\* The checks of a plan.
LEMMA ChecksAre ==
  ASSUME NEW s \in Specs
  PROVE  Len(s) \in Nat /\ DOMAIN s = 1..Len(s) /\ \A n \in 1..Len(s) : IsCheck(s[n])
<1>1. s \in Seq(Range(s)) /\ \A c \in Range(s) : IsCheck(c)
  BY ChecksAssumption
<1>2. Len(s) \in Nat /\ DOMAIN s = 1..Len(s)
  BY <1>1
<1>3. \A n \in 1..Len(s) : s[n] \in Range(s)
  BY <1>2 DEF Range
<1> QED
  BY <1>1, <1>2, <1>3

LEMMA InitIInv == Init => IInv
<1> SUFFICES ASSUME Init PROVE IInv
  OBVIOUS
<1>1. Len(checks) \in Nat
  BY ChecksAre DEF Init
<1>2. /\ pc = "checking" /\ checks \in Specs /\ request \in Requests
      /\ at = 1 /\ canceled = FALSE /\ evidence = <<>>
  BY DEF Init
<1>3. at \in 1..(Len(checks) + 1) /\ at - 1 = 0 /\ 1..(at - 1) = {}
  BY <1>1, <1>2
<1>4. Held
  BY <1>3 DEF Held
<1>5. Evidenced
  <2> DEFINE X == (1..Len(checks)) \X {checks[n].predicate : n \in 1..Len(checks)}
  <2>1. <<>> \in Seq(X) /\ Len(<<>>) = 0
    OBVIOUS
  <2> HIDE DEF X
  <2>2. evidence \in Seq(X) /\ Len(evidence) = at - 1 /\ \A n \in 1..(at - 1) : evidence[n][1] = n
    BY <1>2, <1>3, <2>1
  <2> QED
    BY <2>2 DEF Evidenced, X
<1>6. Ended
  BY <1>2 DEF Ended
<1> QED
  BY <1>2, <1>3, <1>4, <1>5, <1>6 DEF IInv

LEMMA NextIInv == IInv /\ [Next]_vars => IInv'
<1> SUFFICES ASSUME IInv, [Next]_vars PROVE IInv'
  OBVIOUS
<1>1. Len(checks) \in Nat /\ at \in Nat
  BY ChecksAre DEF IInv
<1>2. CASE CheckHolds
  <2>1. /\ pc = "checking" /\ at \in 1..Len(checks) /\ Holds(checks[at], request)
        /\ at' = at + 1 /\ evidence' = Append(evidence, <<at, checks[at].predicate>>)
        /\ pc' = pc /\ checks' = checks /\ request' = request /\ canceled' = canceled
    BY <1>1, <1>2 DEF CheckHolds, IInv
  <2>2. at' \in 1..(Len(checks) + 1) /\ at' - 1 = at
    BY <1>1, <2>1
  <2>3. Held'
    <3>1. \A n \in 1..at : n \in 1..(at - 1) \/ n = at
      BY <1>1
    <3> QED
      BY <2>1, <2>2, <3>1 DEF IInv, Held
  <2>4. Evidenced'
    <3> DEFINE X == (1..Len(checks)) \X {checks[n].predicate : n \in 1..Len(checks)}
    <3>0. PICK predicate : /\ predicate = checks[at].predicate
                           /\ predicate \in {checks[n].predicate : n \in 1..Len(checks)}
      BY <2>1
    <3>1. PICK e : e = <<at, checks[at].predicate>> /\ e \in X /\ e[1] = at
      <4>1. <<at, predicate>> \in X /\ <<at, predicate>>[1] = at
        BY <2>1, <3>0
      <4> QED
        BY <3>0, <4>1
    <3>2. evidence \in Seq(X) /\ Len(evidence) = at - 1 /\ \A n \in 1..(at - 1) : evidence[n][1] = n
      BY DEF IInv, Evidenced
    <3>3. evidence' = Append(evidence, e)
      BY <2>1, <3>1
    <3> HIDE DEF X
    <3>4. /\ evidence' \in Seq(X) /\ Len(evidence') = at /\ evidence'[at] = e
          /\ \A n \in 1..(at - 1) : evidence'[n] = evidence[n]
      BY <1>1, <3>1, <3>2, <3>3, AppendProperties
    <3>5. \A n \in 1..at : n \in 1..(at - 1) \/ n = at
      BY <1>1
    <3>6. \A n \in 1..at : evidence'[n][1] = n
      BY <3>1, <3>2, <3>4, <3>5
    <3> QED
      BY <2>1, <2>2, <3>4, <3>6 DEF Evidenced, X
  <2>5. Ended'
    BY <2>1 DEF Ended
  <2> QED
    BY <2>1, <2>2, <2>3, <2>4, <2>5 DEF IInv
<1>3. CASE CheckFails
  <2>1. /\ pc' = "failed" /\ at <= Len(checks) /\ (canceled \/ ~Holds(checks[at], request))
        /\ UNCHANGED <<checks, request, at, canceled, evidence>>
    BY <1>3 DEF CheckFails
  <2> QED
    BY <2>1 DEF IInv, Held, Evidenced, Ended
<1>4. CASE Pass
  <2>1. /\ pc' = "passed" /\ at > Len(checks)
        /\ UNCHANGED <<checks, request, at, canceled, evidence>>
    BY <1>4 DEF Pass
  <2>2. at = Len(checks) + 1
    BY <1>1, <2>1 DEF IInv
  <2> QED
    BY <2>1, <2>2 DEF IInv, Held, Evidenced, Ended
<1>5. CASE Cancel
  <2>1. /\ pc = "checking" /\ canceled' = TRUE
        /\ UNCHANGED <<pc, checks, request, at, evidence>>
    BY <1>5 DEF Cancel
  <2> QED
    BY <2>1 DEF IInv, Held, Evidenced, Ended
<1>6. CASE UNCHANGED vars
  BY <1>6 DEF vars, IInv, Held, Evidenced, Ended
<1> QED
  BY <1>2, <1>3, <1>4, <1>5, <1>6 DEF Next

\* Checker.Run keeps what it knows of the checks before the next.
THEOREM ChecksKept == Spec => []IInv
BY InitIInv, NextIInv, PTL DEF Spec

\* A plan passes exactly if each of its checks is right, whatever the texts, the
\* columns, the archives and the depth of the values, and fails at one that is
\* not unless it was canceled.
THEOREM Verdicts == Spec => []VerdictExact
<1>1. IInv => VerdictExact
  <2> SUFFICES ASSUME IInv PROVE VerdictExact
    OBVIOUS
  <2>1. /\ Len(checks) \in Nat /\ DOMAIN checks = 1..Len(checks) /\ IsRequest(request)
        /\ \A n \in 1..Len(checks) : IsCheck(checks[n])
    BY ChecksAre, ChecksAssumption DEF IInv
  <2>2. \A n \in 1..Len(checks) : Holds(checks[n], request) <=> Right(checks[n], request)
    BY <2>1, Exact
  <2>3. ASSUME pc = "passed"
        PROVE  /\ \A n \in DOMAIN checks : Right(checks[n], request)
               /\ [n \in DOMAIN evidence |-> evidence[n][1]] = [n \in DOMAIN checks |-> n]
    <3>1. at - 1 = Len(checks)
      BY <2>1, <2>3 DEF IInv, Ended
    <3>2. \A n \in 1..Len(checks) : Holds(checks[n], request)
      BY <3>1 DEF IInv, Held
    <3>3. DOMAIN evidence = 1..Len(checks) /\ \A n \in 1..Len(checks) : evidence[n][1] = n
      BY <3>1 DEF IInv, Evidenced
    <3> QED
      BY <2>1, <2>2, <3>2, <3>3
  <2>4. ASSUME pc = "failed", ~canceled PROVE ~Right(checks[at], request)
    <3>1. at \in 1..Len(checks) /\ ~Holds(checks[at], request)
      BY <2>1, <2>4 DEF IInv, Ended
    <3> QED
      BY <2>2, <3>1
  <2> QED
    BY <2>3, <2>4 DEF VerdictExact
<1> QED
  BY <1>1, ChecksKept, PTL

\* Nothing but a check that asks nothing passes on an empty output.
THEOREM Silence == Spec => []SilenceExplained
<1>1. IInv => SilenceExplained
  <2> SUFFICES ASSUME IInv, pc = "passed", NEW n \in DOMAIN checks,
                      Got(checks[n], request).text = <<>>
               PROVE  AsksNothing(checks[n], request)
    BY DEF SilenceExplained
  <2>1. n \in 1..Len(checks) /\ IsCheck(checks[n]) /\ IsRequest(request)
    BY ChecksAre, ChecksAssumption DEF IInv
  <2>2. Holds(checks[n], request)
    <3>1. Len(checks) \in Nat
      BY ChecksAre DEF IInv
    <3>2. at - 1 = Len(checks)
      BY <3>1 DEF IInv, Ended
    <3> QED
      BY <2>1, <3>2 DEF IInv, Held
  <2> QED
    BY <2>1, <2>2, Quiet
<1> QED
  BY <1>1, ChecksKept, PTL
=============================================================================
