-------------------------- MODULE ScreeningProofs --------------------------
(***************************************************************************)
(* Whatever a model answers, a file replays or a help text shows: what the  *)
(* policy lets through of the surfaces, what a capability plan rests on,    *)
(* what the selection hands to probe, and what a promotion has earned.      *)
(*                                                                         *)
(* Every stage is a Loop over what it was given.  Recursion shows that a    *)
(* loop is what its equations say, CountingUpTo is the induction by which   *)
(* something is said of it.                                                 *)
(***************************************************************************)
EXTENDS Screening, FiniteSetTheorems, WellFoundedInduction, SequenceTheorems, TLAPS

----------------------------------------------------------------------------
(* Induction on the natural numbers *)

\* The library's order of the natural numbers, as a set of pairs.
LEMMA LessThan == OpToRel(<, Nat) = {ss \in Nat \X Nat : ss[1] < ss[2]}
BY Zenon DEF OpToRel

\* A set of natural numbers that is not empty has a least member.
LEMMA Least ==
  ASSUME NEW T \in SUBSET Nat, T # {}
  PROVE  \E x \in T : \A y \in T : x <= y
<1> DEFINE R == {ss \in Nat \X Nat : ss[1] < ss[2]}
<1>1. IsWellFoundedOn(R, Nat)
  BY NatLessThanWellFounded, LessThan
<1>2. \E x \in T : \A y \in T : ~(<<y, x>> \in R)
  <2> HIDE DEF R
  <2> QED BY <1>1, WFMin
<1>3. \A x, y \in Nat : y < x => <<y, x>> \in R
  OBVIOUS
<1>4. PICK x \in T : \A y \in T : ~(<<y, x>> \in R)
  BY <1>2
<1> HIDE DEF R
<1>5. \A y \in T : ~(y < x)
  BY <1>3, <1>4
<1> QED BY <1>5

\* What holds of 0, and of n + 1 when it holds of n, holds of them all.
LEMMA Counting ==
  ASSUME NEW S, 0 \in S, \A n \in Nat : n \in S => n + 1 \in S
  PROVE  Nat \subseteq S
<1>1. SUFFICES ASSUME Nat \ S # {} PROVE FALSE
  OBVIOUS
<1>2. PICK x \in Nat \ S : \A y \in Nat \ S : x <= y
  BY <1>1, Least
<1>3. x # 0 /\ x - 1 \in Nat
  BY <1>2
<1>4. x - 1 \in S
  BY <1>2, <1>3
<1> QED BY <1>2, <1>3, <1>4

\* The same, up to a bound.
LEMMA CountingUpTo ==
  ASSUME NEW N \in Nat, NEW S, 0 \in S, \A n \in 1..N : n - 1 \in S => n \in S
  PROVE  \A n \in 0..N : n \in S
<1> DEFINE T == {n \in Nat : n <= N => n \in S}
<1>1. 0 \in T
  OBVIOUS
<1>2. ASSUME NEW n \in Nat, n \in T PROVE n + 1 \in T
  <2>1. n + 1 <= N => n \in S /\ n + 1 \in 1..N /\ (n + 1) - 1 = n
    BY <1>2
  <2> QED
    BY <2>1
<1>3. Nat \subseteq T
  <2> HIDE DEF T
  <2> QED
    BY <1>1, <1>2, Counting
<1> QED
  BY <1>3

\* A recursion of N steps over the values of X, and what it computes.
Steps(N, X) == [1..N -> [X -> X]]
Computes(f, N, X, base, Step) ==
  /\ f \in [0..N -> X] /\ f[0] = base
  /\ \A n \in 1..N : f[n] = Step[n][f[n - 1]]

\* There is a function that a recursion of N steps computes.
LEMMA Recursion ==
  ASSUME NEW N \in Nat, NEW X, NEW base \in X, NEW Step \in Steps(N, X)
  PROVE  \E f : Computes(f, N, X, base, Step)
<1> DEFINE S == {m \in Nat : \E f \in [0..m -> X] :
                   f[0] = base /\ \A n \in 1..m : f[n] = Step[n][f[n - 1]]}
<1>1. 0 \in S
  <2> DEFINE f == [i \in 0..0 |-> base]
  <2>1. f \in [0..0 -> X] /\ f[0] = base /\ \A n \in 1..0 : f[n] = Step[n][f[n - 1]]
    OBVIOUS
  <2> HIDE DEF f
  <2> QED
    BY <2>1
<1>2. ASSUME NEW m \in 1..N, m - 1 \in S PROVE m \in S
  <2>1. PICK f \in [0..(m - 1) -> X] :
          f[0] = base /\ \A n \in 1..(m - 1) : f[n] = Step[n][f[n - 1]]
    BY <1>2
  <2> DEFINE g == [i \in 0..m |-> IF i = m THEN Step[m][f[m - 1]] ELSE f[i]]
  <2>2. Step[m][f[m - 1]] \in X
    BY DEF Steps
  <2>3. g \in [0..m -> X]
    BY <2>2
  <2>4. g[0] = base
    BY <2>1
  <2>5. ASSUME NEW n \in 1..m PROVE g[n] = Step[n][g[n - 1]]
    <3>1. CASE n = m
      BY <3>1
    <3>2. CASE n # m
      <4>1. n \in 1..(m - 1) /\ n - 1 \in 0..(m - 1)
        BY <3>2
      <4> QED
        BY <3>2, <4>1, <2>1
    <3> QED
      BY <3>1, <3>2
  <2> HIDE DEF g
  <2>6. m \in Nat
    OBVIOUS
  <2> QED
    BY <2>3, <2>4, <2>5, <2>6
<1>3. N \in S
  <2> HIDE DEF S
  <2>1. \A n \in 0..N : n \in S
    BY <1>1, <1>2, CountingUpTo
  <2> QED
    BY <2>1
<1> QED
  BY <1>3 DEF Computes

\* Whatever satisfies the equations is a function that the recursion computes.
LEMMA Equations ==
  ASSUME NEW N \in Nat, NEW X, NEW base \in X, NEW Step \in Steps(N, X), NEW h,
         h = [n \in 0..N |-> h[n]], h[0] = base,
         \A n \in 1..N : h[n - 1] \in X => h[n] = Step[n][h[n - 1]]
  PROVE  Computes(h, N, X, base, Step)
<1> DEFINE S == {n \in 0..N : h[n] \in X}
<1>1. 0 \in S
  OBVIOUS
<1>2. ASSUME NEW n \in 1..N, n - 1 \in S PROVE n \in S
  <2>1. h[n - 1] \in X /\ Step[n] \in [X -> X]
    BY <1>2 DEF Steps
  <2>2. h[n] = Step[n][h[n - 1]]
    BY <2>1
  <2>3. n \in 0..N
    OBVIOUS
  <2> QED
    BY <2>1, <2>2, <2>3
<1>3. \A n \in 0..N : h[n] \in X
  <2> HIDE DEF S
  <2>1. \A n \in 0..N : n \in S
    BY <1>1, <1>2, CountingUpTo
  <2> QED
    BY <2>1 DEF S
<1>4. h \in [0..N -> X]
  BY <1>3
<1>5. \A n \in 1..N : n - 1 \in 0..N
  OBVIOUS
<1> QED
  BY <1>3, <1>4, <1>5 DEF Computes

\* Each turn is from a value of X.
LEMMA Turning ==
  ASSUME NEW N \in Nat, NEW X, NEW base, NEW Step, NEW f, Computes(f, N, X, base, Step)
  PROVE  \A n \in 1..N : f[n - 1] \in X /\ f[n] = Step[n][f[n - 1]]
<1>1. \A n \in 1..N : n - 1 \in 0..N
  OBVIOUS
<1> QED
  BY <1>1 DEF Computes

----------------------------------------------------------------------------
(* The loops *)

\* One turn of Only.
OnlyTurn(items, places, kept, n) ==
  IF n \in places THEN Append(kept, items[n]) ELSE kept
OnlySteps(X, items, places) ==
  [n \in 1..Len(items) |-> [kept \in Seq(X) |-> OnlyTurn(items, places, kept, n)]]

\* Only, as a recursion.
LEMMA OnlyLoop ==
  ASSUME NEW X, NEW items \in Seq(X), NEW places
  PROVE  \E f : /\ Computes(f, Len(items), Seq(X), <<>>, OnlySteps(X, items, places))
                /\ Only(items, places) = f[Len(items)]
<1> DEFINE N == Len(items)
           Step == OnlySteps(X, items, places)
           Body(g) == [n \in 0..N |-> IF n = 0 THEN <<>> ELSE OnlyTurn(items, places, g[n - 1], n)]
           had == CHOOSE g : g = Body(g)
<1>1. N \in Nat /\ <<>> \in Seq(X)
  OBVIOUS
<1>2. Step \in Steps(N, Seq(X))
  BY DEF Steps, OnlySteps, OnlyTurn
<1>3. PICK f : Computes(f, N, Seq(X), <<>>, Step)
  <2> HIDE DEF N, Step
  <2> QED
    BY <1>1, <1>2, Recursion
<1>4. f = Body(f)
  <2>1. /\ f \in [0..N -> Seq(X)] /\ f[0] = <<>>
        /\ \A n \in 1..N : f[n] = Step[n][f[n - 1]] /\ f[n - 1] \in Seq(X)
    <3>1. \A n \in 1..N : n - 1 \in 0..N
      BY <1>1
    <3> QED
      BY <1>3, <3>1 DEF Computes
  <2>2. \A n \in 1..N : f[n] = OnlyTurn(items, places, f[n - 1], n)
    BY <2>1 DEF OnlySteps
  <2> QED
    BY <2>1, <2>2
<1>5. Only(items, places) = had[N]
  BY Zenon DEF Only, Loop, OnlyTurn
<1>6. had = Body(had)
  <2> HIDE DEF Body
  <2> QED
    BY <1>4
<1>7. \A n \in 0..N : had[n] = Body(had)[n]
  <2> HIDE DEF Body, had
  <2> QED
    BY <1>6
<1>8. had[0] = <<>> /\ \A n \in 1..N : had[n] = OnlyTurn(items, places, had[n - 1], n)
  <2> HIDE DEF had
  <2>1. \A n \in 1..N : n \in 0..N /\ n # 0
    BY <1>1
  <2> QED
    BY <1>1, <1>7, <2>1
<1>9. Computes(had, N, Seq(X), <<>>, Step)
  <2>1. had = [n \in 0..N |-> had[n]]
    <3> HIDE DEF had
    <3> QED BY <1>6
  <2>2. \A n \in 1..N : had[n - 1] \in Seq(X) => had[n] = Step[n][had[n - 1]]
    <3> HIDE DEF had
    <3> QED BY <1>8 DEF OnlySteps
  <2> HIDE DEF N, Step, had
  <2> QED
    BY <1>1, <1>2, <1>8, <2>1, <2>2, Equations
<1> HIDE DEF had
<1> QED
  BY <1>5, <1>9

\* Only keeps items from those places, and one of each unless there are none.
LEMMA OnlyKeeps ==
  ASSUME NEW X, NEW items \in Seq(X), NEW places
  PROVE  /\ Only(items, places) \in Seq({items[n] : n \in places \cap (1..Len(items))})
         /\ \A n \in 1..Len(items) : n \in places => Only(items, places) # <<>>
<1> DEFINE N == Len(items)
<1>0. PICK f : /\ Computes(f, N, Seq(X), <<>>, OnlySteps(X, items, places))
               /\ Only(items, places) = f[N]
  BY OnlyLoop
<1>1. f[0] = <<>> /\ \A n \in 1..N : f[n] = OnlyTurn(items, places, f[n - 1], n)
  <2>1. f[0] = <<>>
    BY <1>0 DEF Computes
  <2>2. ASSUME NEW n \in 1..N PROVE f[n] = OnlyTurn(items, places, f[n - 1], n)
    <3>1. f[n - 1] \in Seq(X) /\ f[n] = OnlySteps(X, items, places)[n][f[n - 1]]
      <4>1. N \in Nat
        OBVIOUS
      <4> HIDE DEF N
      <4> QED
        BY <1>0, <4>1, Turning
    <3> QED
      BY <3>1 DEF OnlySteps
  <2> QED
    BY <2>1, <2>2
<1> DEFINE R == {items[n] : n \in places \cap (1..N)}
<1>2. N \in Nat
  OBVIOUS
<1> DEFINE S == {n \in 0..N : f[n] \in Seq(R)
                  /\ \A m \in 1..n : m \in places => f[n] # <<>>}
<1>3. 0 \in S
  <2>1. f[0] \in Seq(R)
    <3> HIDE DEF R
    <3> QED
      BY <1>1
  <2> QED
    BY <1>2, <2>1
<1>4. ASSUME NEW n \in 1..N, n - 1 \in S PROVE n \in S
  <2>1. f[n] = IF n \in places THEN Append(f[n - 1], items[n]) ELSE f[n - 1]
    BY <1>1 DEF OnlyTurn
  <2>2. f[n - 1] \in Seq(R) /\ \A m \in 1..(n - 1) : m \in places => f[n - 1] # <<>>
    BY <1>4
  <2>3. CASE n \in places
    <3>1. items[n] \in R
      BY <2>3
    <3> HIDE DEF R
    <3>2. Append(f[n - 1], items[n]) \in Seq(R) /\ Append(f[n - 1], items[n]) # <<>>
      BY <2>2, <3>1, AppendProperties
    <3>3. n \in 0..N
      OBVIOUS
    <3> HIDE DEF N
    <3> QED
      BY <2>1, <2>3, <3>2, <3>3
  <2>4. CASE n \notin places
    <3>1. \A m \in 1..n : m \in places => m \in 1..(n - 1)
      BY <1>2, <2>4
    <3> HIDE DEF R
    <3> QED
      BY <1>2, <2>1, <2>2, <2>4, <3>1
  <2> QED
    BY <2>3, <2>4
<1>5. \A n \in 0..N : n \in S
  <2> HIDE DEF S, N
  <2> QED
    BY <1>2, <1>3, <1>4, CountingUpTo
<1>6. N \in S
  <2> HIDE DEF S
  <2> QED
    BY <1>2, <1>5
<1> QED
  BY <1>0, <1>6

----------------------------------------------------------------------------
(* What answers become *)

\* Every check that an answer, a file or the rules can hold.
AnsweredChecks == UNION {Range(v.checks) : v \in EvidenceAnswers}
PlansChecks(file) == UNION {Range(p.verify.checks) : p \in Range(file.plans)}
ReplayedChecks == UNION {PlansChecks(file) : file \in ReplayFiles}
AllChecks == AnsweredChecks \cup ReplayedChecks \cup Range(RulesVerify.checks)

\* Texts, the ones this code writes itself among them.
Texts == STRING \cup {"", "command", "keep", "cli", "rules", "execute"}

Verifies == [level : Int, method : Texts, checks : Seq(AllChecks)]
ProbePlans == [index : Int, verify : Verifies]
Surfaces == [id : STRING, kind : Texts, name : STRING, decision : Texts]
Plans == [id : ValidIds, description : STRING, sources : SUBSET STRING]
Filleds == [provider : STRING, capability : STRING, description : Texts,
            kind : Texts, args : STRING, stdout : Texts]

\* A function of the places up to n is a list.
LEMMA Listed ==
  ASSUME NEW B, NEW n \in Nat, NEW s \in [1..n -> B]
  PROVE  s \in Seq(B) /\ Len(s) = n
<1>1. s \in Seq(B)
  BY SeqDef
<1> QED
  BY <1>1

\* A list of checks all of which are in a set is a list of that set.
LEMMA ListOf ==
  ASSUME NEW s, NEW X, s \in Seq(Range(s)), Range(s) \subseteq X
  PROVE  s \in Seq(X)
<1>1. \A R : s \in Seq(R) /\ R \subseteq X => s \in Seq(X)
  OBVIOUS
<1> QED
  BY <1>1

\* What the answers, the files and the rules say of a verification is one.
LEMMA VerifyTypes ==
  /\ EvidenceAnswers \subseteq Verifies
  /\ \A file \in ReplayFiles : file.plans \in Seq(ProbePlans)
  /\ RulesVerify \in Verifies
<1>1. ASSUME NEW v, IsVerify(v), Range(v.checks) \subseteq AllChecks PROVE v \in Verifies
  <2>1. v \in [level : Int, method : STRING, checks : Seq(Range(v.checks))]
    BY <1>1 DEF IsVerify
  <2>2. v.checks \in Seq(AllChecks)
    BY <1>1, <2>1, ListOf
  <2> QED
    BY <2>1, <2>2 DEF Verifies, Texts
<1>2. EvidenceAnswers \subseteq Verifies
  <2>1. \A v \in EvidenceAnswers : Range(v.checks) \subseteq AnsweredChecks
    BY DEF AnsweredChecks
  <2> QED
    BY <1>1, <2>1, ScreeningAssumption DEF AllChecks
<1>3. ASSUME NEW file \in ReplayFiles PROVE file.plans \in Seq(ProbePlans)
  <2>1. file.plans \in Seq(Range(file.plans)) /\ \A p \in Range(file.plans) : IsPlan(p)
    BY ScreeningAssumption
  <2>2. ASSUME NEW p \in Range(file.plans) PROVE p \in ProbePlans
    <3>1. p \in [index : Int, verify : {p.verify}] /\ IsVerify(p.verify)
      BY <2>1 DEF IsPlan
    <3>2. Range(p.verify.checks) \subseteq AllChecks
      <4>1. Range(p.verify.checks) \subseteq PlansChecks(file)
        BY DEF PlansChecks
      <4>2. PlansChecks(file) \subseteq ReplayedChecks
        BY DEF ReplayedChecks
      <4> QED
        BY <4>1, <4>2 DEF AllChecks
    <3>3. p.verify \in Verifies
      BY <1>1, <3>1, <3>2
    <3> QED
      BY <3>1, <3>3 DEF ProbePlans
  <2> QED
    BY <2>1, <2>2, ListOf
<1>4. RulesVerify \in Verifies
  <2>1. RulesVerify.checks \in Seq(Range(RulesVerify.checks))
    BY DEF RulesVerify, Range
  <2>2. Range(RulesVerify.checks) \subseteq AllChecks
    BY DEF AllChecks
  <2>3. RulesVerify.checks \in Seq(AllChecks)
    BY <2>1, <2>2, ListOf
  <2> QED
    <3>1. RulesVerify = [level |-> 2, method |-> "execute", checks |-> RulesVerify.checks]
      BY DEF RulesVerify
    <3>2. \A c \in Seq(AllChecks), s \in Texts :
            [level |-> 2, method |-> s, checks |-> c] \in Verifies
      BY DEF Verifies
    <3>4. "execute" \in Texts
      BY DEF Texts
    <3> QED
      BY <2>3, <3>1, <3>2, <3>4, Zenon
<1> QED
  BY <1>2, <1>3, <1>4

----------------------------------------------------------------------------
(* The stages' loops *)

\* One turn of a stage's loop.
SurfaceTurn(items, kept, n) ==
  IF KeepsSurface(items[n], kept) THEN Append(kept, items[n]) ELSE kept
SurfaceSteps(X, items) ==
  [n \in 1..Len(items) |-> [kept \in Seq(X) |-> SurfaceTurn(items, kept, n)]]

\* Sift(items, KeepsSurface), as a recursion.
LEMMA SurfaceLoop ==
  ASSUME NEW X, NEW items \in Seq(X)
  PROVE  \E f : /\ Computes(f, Len(items), Seq(X), <<>>, SurfaceSteps(X, items))
                /\ Sift(items, KeepsSurface) = f[Len(items)]
<1> DEFINE N == Len(items)
           Step == SurfaceSteps(X, items)
           Body(g) == [n \in 0..N |-> IF n = 0 THEN <<>> ELSE SurfaceTurn(items, g[n - 1], n)]
           had == CHOOSE g : g = Body(g)
<1>1. N \in Nat /\ <<>> \in Seq(X)
  OBVIOUS
<1>2. Step \in Steps(N, Seq(X))
  BY DEF Steps, SurfaceSteps, SurfaceTurn
<1>3. PICK f : Computes(f, N, Seq(X), <<>>, Step)
  <2> HIDE DEF N, Step
  <2> QED
    BY <1>1, <1>2, Recursion
<1>4. f = Body(f)
  <2>1. f \in [0..N -> Seq(X)] /\ f[0] = <<>>
    BY <1>3 DEF Computes
  <2>2. ASSUME NEW n \in 1..N PROVE f[n] = SurfaceTurn(items, f[n - 1], n)
    <3>1. f[n - 1] \in Seq(X) /\ f[n] = Step[n][f[n - 1]]
      <4> HIDE DEF N, Step
      <4> QED
        BY <1>1, <1>3, Turning
    <3> QED
      BY <3>1 DEF SurfaceSteps
  <2> QED
    BY <2>1, <2>2
<1>5. Sift(items, KeepsSurface) = had[N]
  BY Zenon DEF Sift, Loop, SurfaceTurn
<1>6. had = Body(had)
  <2> HIDE DEF Body
  <2> QED
    BY <1>4
<1>7. \A n \in 0..N : had[n] = Body(had)[n]
  <2> HIDE DEF Body, had
  <2> QED
    BY <1>6
<1>8. had[0] = <<>> /\ \A n \in 1..N : had[n] = SurfaceTurn(items, had[n - 1], n)
  <2> HIDE DEF had
  <2>1. \A n \in 1..N : n \in 0..N /\ n # 0
    BY <1>1
  <2> QED
    BY <1>1, <1>7, <2>1
<1>9. Computes(had, N, Seq(X), <<>>, Step)
  <2>1. had = [n \in 0..N |-> had[n]]
    <3> HIDE DEF had
    <3> QED BY <1>6
  <2>2. \A n \in 1..N : had[n - 1] \in Seq(X) => had[n] = Step[n][had[n - 1]]
    <3> HIDE DEF had
    <3> QED BY <1>8 DEF SurfaceSteps
  <2> HIDE DEF N, Step, had
  <2> QED
    BY <1>1, <1>2, <1>8, <2>1, <2>2, Equations
<1> HIDE DEF had
<1> QED
  BY <1>5, <1>9

\* One turn of a stage's loop.
DraftTurn(items, kept, n) ==
  IF KeepsDraft(items[n], kept) THEN Append(kept, items[n]) ELSE kept
DraftSteps(X, items) ==
  [n \in 1..Len(items) |-> [kept \in Seq(X) |-> DraftTurn(items, kept, n)]]

\* Sift(items, KeepsDraft), as a recursion.
LEMMA DraftLoop ==
  ASSUME NEW X, NEW items \in Seq(X)
  PROVE  \E f : /\ Computes(f, Len(items), Seq(X), <<>>, DraftSteps(X, items))
                /\ Sift(items, KeepsDraft) = f[Len(items)]
<1> DEFINE N == Len(items)
           Step == DraftSteps(X, items)
           Body(g) == [n \in 0..N |-> IF n = 0 THEN <<>> ELSE DraftTurn(items, g[n - 1], n)]
           had == CHOOSE g : g = Body(g)
<1>1. N \in Nat /\ <<>> \in Seq(X)
  OBVIOUS
<1>2. Step \in Steps(N, Seq(X))
  BY DEF Steps, DraftSteps, DraftTurn
<1>3. PICK f : Computes(f, N, Seq(X), <<>>, Step)
  <2> HIDE DEF N, Step
  <2> QED
    BY <1>1, <1>2, Recursion
<1>4. f = Body(f)
  <2>1. f \in [0..N -> Seq(X)] /\ f[0] = <<>>
    BY <1>3 DEF Computes
  <2>2. ASSUME NEW n \in 1..N PROVE f[n] = DraftTurn(items, f[n - 1], n)
    <3>1. f[n - 1] \in Seq(X) /\ f[n] = Step[n][f[n - 1]]
      <4> HIDE DEF N, Step
      <4> QED
        BY <1>1, <1>3, Turning
    <3> QED
      BY <3>1 DEF DraftSteps
  <2> QED
    BY <2>1, <2>2
<1>5. Sift(items, KeepsDraft) = had[N]
  BY Zenon DEF Sift, Loop, DraftTurn
<1>6. had = Body(had)
  <2> HIDE DEF Body
  <2> QED
    BY <1>4
<1>7. \A n \in 0..N : had[n] = Body(had)[n]
  <2> HIDE DEF Body, had
  <2> QED
    BY <1>6
<1>8. had[0] = <<>> /\ \A n \in 1..N : had[n] = DraftTurn(items, had[n - 1], n)
  <2> HIDE DEF had
  <2>1. \A n \in 1..N : n \in 0..N /\ n # 0
    BY <1>1
  <2> QED
    BY <1>1, <1>7, <2>1
<1>9. Computes(had, N, Seq(X), <<>>, Step)
  <2>1. had = [n \in 0..N |-> had[n]]
    <3> HIDE DEF had
    <3> QED BY <1>6
  <2>2. \A n \in 1..N : had[n - 1] \in Seq(X) => had[n] = Step[n][had[n - 1]]
    <3> HIDE DEF had
    <3> QED BY <1>8 DEF DraftSteps
  <2> HIDE DEF N, Step, had
  <2> QED
    BY <1>1, <1>2, <1>8, <2>1, <2>2, Equations
<1> HIDE DEF had
<1> QED
  BY <1>5, <1>9

\* A plan more leaves a list of plans.
LEMMA PlanNextType ==
  ASSUME NEW kept \in Seq(Plans), NEW plan \in RawPlans
  PROVE  PlanNext(kept, plan) \in Seq(Plans)
<1> DEFINE id == Lower[plan.id]
           more == Joining(kept, id, plan.sources)
<1>1. Usable(plan) => [plan EXCEPT !.id = id] \in Plans
  BY DEF Usable, RawPlans, Plans
<1>2. more \in Seq(Plans)
  <2>1. ASSUME NEW n \in 1..Len(kept)
        PROVE  kept[n] \in Plans /\ [kept[n] EXCEPT !.sources = @ \cup plan.sources] \in Plans
    <3>1. \A q \in Plans, s \in SUBSET STRING : [q EXCEPT !.sources = @ \cup s] \in Plans
      BY DEF Plans
    <3>2. plan.sources \in SUBSET STRING /\ kept[n] \in Plans
      BY DEF RawPlans
    <3> QED
      BY <3>1, <3>2
  <2>2. DOMAIN kept = 1..Len(kept) /\ Len(kept) \in Nat
    OBVIOUS
  <2>3. more \in [1..Len(kept) -> Plans]
    BY <2>1, <2>2 DEF Joining
  <2> HIDE DEF more
  <2> QED
    BY <2>2, <2>3, Listed
<1>3. \/ PlanNext(kept, plan) = kept
      \/ PlanNext(kept, plan) = more
      \/ /\ Usable(plan)
         /\ PlanNext(kept, plan) = Append(kept, [plan EXCEPT !.id = id])
  BY DEF PlanNext
<1>4. \A q \in Plans : Append(kept, q) \in Seq(Plans)
  OBVIOUS
<1> HIDE DEF more, id
<1> QED
  BY <1>1, <1>2, <1>3, <1>4

\* One turn of the capability stage's.
PlanTurn(answer, kept, n) == PlanNext(kept, answer[n])
PlanSteps(answer) ==
  [n \in 1..Len(answer) |-> [kept \in Seq(Plans) |-> PlanTurn(answer, kept, n)]]

\* Planned, as a recursion.
LEMMA PlanLoop ==
  ASSUME NEW answer \in Seq(RawPlans)
  PROVE  \E f : /\ Computes(f, Len(answer), Seq(Plans), <<>>, PlanSteps(answer))
                /\ Planned(answer) = f[Len(answer)]
<1> DEFINE N == Len(answer)
           Step == PlanSteps(answer)
           Body(g) == [n \in 0..N |-> IF n = 0 THEN <<>> ELSE PlanTurn(answer, g[n - 1], n)]
           had == CHOOSE g : g = Body(g)
<1>1. N \in Nat /\ <<>> \in Seq(Plans)
  OBVIOUS
<1>2. Step \in Steps(N, Seq(Plans))
  <2>1. \A n \in 1..N, kept \in Seq(Plans) : PlanTurn(answer, kept, n) \in Seq(Plans)
    <3>1. \A n \in 1..N : answer[n] \in RawPlans
      OBVIOUS
    <3> QED
      BY <3>1, PlanNextType DEF PlanTurn
  <2> QED
    BY <2>1 DEF Steps, PlanSteps
<1>3. PICK f : Computes(f, N, Seq(Plans), <<>>, Step)
  <2> HIDE DEF N, Step
  <2> QED
    BY <1>1, <1>2, Recursion
<1>4. f = Body(f)
  <2>1. f \in [0..N -> Seq(Plans)] /\ f[0] = <<>>
    BY <1>3 DEF Computes
  <2>2. ASSUME NEW n \in 1..N PROVE f[n] = PlanTurn(answer, f[n - 1], n)
    <3>1. f[n - 1] \in Seq(Plans) /\ f[n] = Step[n][f[n - 1]]
      <4> HIDE DEF N, Step
      <4> QED
        BY <1>1, <1>3, Turning
    <3> QED
      BY <3>1 DEF PlanSteps
  <2> QED
    BY <2>1, <2>2
<1>5. Planned(answer) = had[N]
  BY Zenon DEF Planned, Loop, PlanTurn
<1>6. had = Body(had)
  <2> HIDE DEF Body
  <2> QED
    BY <1>4
<1>7. \A n \in 0..N : had[n] = Body(had)[n]
  <2> HIDE DEF Body, had
  <2> QED
    BY <1>6
<1>8. had[0] = <<>> /\ \A n \in 1..N : had[n] = PlanTurn(answer, had[n - 1], n)
  <2> HIDE DEF had
  <2>1. \A n \in 1..N : n \in 0..N /\ n # 0
    BY <1>1
  <2> QED
    BY <1>1, <1>7, <2>1
<1>9. Computes(had, N, Seq(Plans), <<>>, Step)
  <2>1. had = [n \in 0..N |-> had[n]]
    <3> HIDE DEF had
    <3> QED BY <1>6
  <2>2. \A n \in 1..N : had[n - 1] \in Seq(Plans) => had[n] = Step[n][had[n - 1]]
    <3> HIDE DEF had
    <3> QED BY <1>8 DEF PlanSteps
  <2> HIDE DEF N, Step, had
  <2> QED
    BY <1>1, <1>2, <1>8, <2>1, <2>2, Equations
<1> HIDE DEF had
<1> QED
  BY <1>5, <1>9

\* What the selection's loop carries, and where it starts.
Selections == [candidates : Seq(Filleds), plans : Seq(ProbePlans),
               ended : BOOLEAN, error : BOOLEAN]
Nothing == [candidates |-> <<>>, plans |-> <<>>, ended |-> FALSE, error |-> FALSE]
Results == [candidates : Seq(Filleds), plans : Seq(ProbePlans)]

\* A candidate more leaves a selection.
LEMMA SelectNextType ==
  ASSUME result \in Results, NEW acc \in Selections, NEW n \in 1..Len(result.candidates)
  PROVE  SelectNext(acc, n) \in Selections
<1> DEFINE c == result.candidates[n]
           m == CHOOSE m \in PlanFor(n) : TRUE
           p == [result.plans[m] EXCEPT !.index = Len(acc.candidates) + 1]
<1>1. c \in Filleds
  BY DEF Results
<1>2. ASSUME PlanFor(n) # {} PROVE p \in ProbePlans
  <2>1. m \in PlanFor(n)
    BY <1>2
  <2>2. m \in 1..Len(result.plans)
    BY <2>1 DEF PlanFor, Results
  <2>3. result.plans[m] \in ProbePlans
    BY <2>2 DEF Results
  <2>4. Len(acc.candidates) + 1 \in Int
    BY DEF Selections
  <2> QED
    BY <2>3, <2>4 DEF ProbePlans
<1>3. \/ SelectNext(acc, n) = acc
      \/ SelectNext(acc, n) = [acc EXCEPT !.ended = TRUE, !.error = TRUE]
      \/ SelectNext(acc, n) = [acc EXCEPT !.ended = TRUE]
      \/ /\ PlanFor(n) # {}
         /\ SelectNext(acc, n) = [candidates |-> Append(acc.candidates, c),
                                  plans |-> Append(acc.plans, p),
                                  ended |-> FALSE, error |-> FALSE]
  BY DEF SelectNext
<1> HIDE DEF c, p
<1>4. PlanFor(n) # {} => [candidates |-> Append(acc.candidates, c),
                          plans |-> Append(acc.plans, p),
                          ended |-> FALSE, error |-> FALSE] \in Selections
  <2>1. acc.candidates \in Seq(Filleds) /\ acc.plans \in Seq(ProbePlans)
    BY DEF Selections
  <2> QED
    BY <1>1, <1>2, <2>1 DEF Selections
<1> QED
  BY <1>3, <1>4 DEF Selections

\* One turn of the selection's.
SelectSteps ==
  [n \in 1..Len(result.candidates) |-> [acc \in Selections |-> SelectNext(acc, n)]]

\* Selected, as a recursion.
LEMMA SelectLoop ==
  ASSUME result \in Results
  PROVE  \E f : /\ Computes(f, Len(result.candidates), Selections, Nothing, SelectSteps)
                /\ Selected = f[Len(result.candidates)]
<1> DEFINE N == Len(result.candidates)
           Step == SelectSteps
           Body(g) == [n \in 0..N |-> IF n = 0 THEN Nothing ELSE SelectNext(g[n - 1], n)]
           had == CHOOSE g : g = Body(g)
<1>1. N \in Nat /\ Nothing \in Selections
  BY DEF Nothing, Selections, Results
<1>2. Step \in Steps(N, Selections)
  BY SelectNextType DEF Steps, SelectSteps
<1>3. PICK f : Computes(f, N, Selections, Nothing, Step)
  <2> HIDE DEF N, Step
  <2> QED
    BY <1>1, <1>2, Recursion
<1>4. f = Body(f)
  <2>1. f \in [0..N -> Selections] /\ f[0] = Nothing
    BY <1>3 DEF Computes
  <2>2. ASSUME NEW n \in 1..N PROVE f[n] = SelectNext(f[n - 1], n)
    <3>1. f[n - 1] \in Selections /\ f[n] = Step[n][f[n - 1]]
      <4> HIDE DEF N, Step
      <4> QED
        BY <1>1, <1>3, Turning
    <3> QED
      BY <3>1 DEF SelectSteps
  <2> QED
    BY <2>1, <2>2
<1>5. Selected = had[N]
  BY Zenon DEF Selected, Loop, Nothing
<1>6. had = Body(had)
  <2> HIDE DEF Body
  <2> QED
    BY <1>4
<1>7. \A n \in 0..N : had[n] = Body(had)[n]
  <2> HIDE DEF Body, had
  <2> QED
    BY <1>6
<1>8. had[0] = Nothing /\ \A n \in 1..N : had[n] = SelectNext(had[n - 1], n)
  <2> HIDE DEF had
  <2>1. \A n \in 1..N : n \in 0..N /\ n # 0
    BY <1>1
  <2>2. 0 \in 0..N
    BY <1>1
  <2> HIDE DEF N
  <2> QED
    BY <1>7, <2>1, <2>2
<1>9. Computes(had, N, Selections, Nothing, Step)
  <2>1. had = [n \in 0..N |-> had[n]]
    <3> HIDE DEF had
    <3> QED BY <1>6
  <2>2. \A n \in 1..N : had[n - 1] \in Selections => had[n] = Step[n][had[n - 1]]
    <3> HIDE DEF had
    <3> QED BY <1>8 DEF SelectSteps
  <2> HIDE DEF N, Step, had
  <2> QED
    BY <1>1, <1>2, <1>8, <2>1, <2>2, Equations
<1> HIDE DEF had
<1> QED
  BY <1>5, <1>9

----------------------------------------------------------------------------
(* Surfaces *)

UpTo(S, n) == {m \in S : m <= n}

\* Those up to n are those before n, and n if it is one.
LEMMA UpToMore ==
  ASSUME NEW N \in Nat, NEW S \in SUBSET (1..N), NEW n \in 1..N
  PROVE  /\ n \in S => UpTo(S, n) = UpTo(S, n - 1) \cup {n}
         /\ n \notin S => UpTo(S, n) = UpTo(S, n - 1)
<1>1. \A m \in S : m <= n <=> m <= n - 1 \/ m = n
  OBVIOUS
<1>2. n \in S => UpTo(S, n) = UpTo(S, n - 1) \cup {n}
  BY <1>1 DEF UpTo
<1>3. n \notin S => UpTo(S, n) = UpTo(S, n - 1)
  BY <1>1 DEF UpTo
<1> QED
  BY <1>2, <1>3

\* How many of S there are up to n, as n grows.
LEMMA Tally ==
  ASSUME NEW N \in Nat, NEW S \in SUBSET (1..N)
  PROVE  /\ UpTo(S, 0) = {} /\ Cardinality(UpTo(S, 0)) = 0 /\ UpTo(S, N) = S
         /\ \A n \in 0..N : Cardinality(UpTo(S, n)) \in Nat
         /\ \A n \in S : Cardinality(UpTo(S, n)) = Cardinality(UpTo(S, n - 1)) + 1
         /\ \A m, n \in 0..N : m <= n =>
              Cardinality(UpTo(S, m)) <= Cardinality(UpTo(S, n))
<1>1. \A n \in 0..N : IsFiniteSet(UpTo(S, n)) /\ Cardinality(UpTo(S, n)) \in Nat
  <2>1. IsFiniteSet(1..N)
    BY FS_Interval
  <2>2. \A n \in 0..N : UpTo(S, n) \subseteq 1..N
    BY DEF UpTo
  <2> QED
    BY <2>1, <2>2, FS_Subset, FS_CardinalityType
<1>2. UpTo(S, 0) = {} /\ UpTo(S, N) = S
  <2>1. \A m \in S : ~(m <= 0)
    OBVIOUS
  <2>2. \A m \in S : m <= N
    OBVIOUS
  <2>3. UpTo(S, 0) = {}
    BY <2>1 DEF UpTo
  <2> QED
    BY <2>2, <2>3 DEF UpTo
<1>3. Cardinality(UpTo(S, 0)) = 0
  BY <1>2, FS_EmptySet
<1>4. ASSUME NEW n \in S PROVE Cardinality(UpTo(S, n)) = Cardinality(UpTo(S, n - 1)) + 1
  <2>1. n \in 1..N /\ n - 1 \in 0..N
    OBVIOUS
  <2>2. UpTo(S, n) = UpTo(S, n - 1) \cup {n}
    BY <2>1, UpToMore
  <2>3. n \notin UpTo(S, n - 1)
    BY <2>1 DEF UpTo
  <2> QED
    BY <1>1, <2>1, <2>2, <2>3, FS_AddElement
<1>5. ASSUME NEW m \in 0..N, NEW n \in 0..N, m <= n
      PROVE  Cardinality(UpTo(S, m)) <= Cardinality(UpTo(S, n))
  <2>1. UpTo(S, m) \subseteq UpTo(S, n)
    <3>1. \A k \in S : k <= m => k <= n
      BY <1>5
    <3> QED
      BY <3>1 DEF UpTo
  <2> QED
    BY <1>1, <2>1, FS_Subset
<1> QED
  BY <1>1, <1>2, <1>3, <1>4, <1>5

\* What is said of the first n items and of the surfaces kept of them.
SiftedRight(items, n, kept) ==
  LET rank == Rank(items, n)
      through == UpTo(Through(items), n)
  IN /\ Len(kept) = Cardinality(through)
     /\ SurfaceLimit = 0 \/ rank <= SurfaceLimit => Len(kept) = rank
     /\ SurfaceLimit # 0 /\ rank > SurfaceLimit => Len(kept) = SurfaceLimit
     /\ \A m \in through : Rank(items, m) \in 1..Len(kept) /\ kept[Rank(items, m)] = items[m]
     /\ \A j \in 1..Len(kept) : \E m \in through : kept[j] = items[m]

\* What the property counts is counted by Tally.
LEMMA RankIs ==
  ASSUME NEW items \in Seq(Surfaces)
  PROVE  /\ Firsts(items) \subseteq 1..Len(items) /\ Through(items) \subseteq Firsts(items)
         /\ \A n : Rank(items, n) = Cardinality(UpTo(Firsts(items), n))
<1>1. DOMAIN items = 1..Len(items)
  OBVIOUS
<1> QED
  BY <1>1 DEF Firsts, Through, Rank, UpTo

\* The ranks grow by one at each first.
LEMMA RankGrows ==
  ASSUME NEW items \in Seq(Surfaces)
  PROVE  /\ Rank(items, 0) = 0
         /\ \A n \in 0..Len(items) : Rank(items, n) \in Nat
         /\ \A n \in 1..Len(items) :
              Rank(items, n) = Rank(items, n - 1) + (IF n \in Firsts(items) THEN 1 ELSE 0)
         /\ \A m, n \in 0..Len(items) : m <= n => Rank(items, m) <= Rank(items, n)
<1> DEFINE N == Len(items)
           F == Firsts(items)
<1>1. N \in Nat /\ F \in SUBSET (1..N) /\ \A n : Rank(items, n) = Cardinality(UpTo(F, n))
  BY RankIs
<1> HIDE DEF N, F
<1> DEFINE C(n) == Cardinality(UpTo(F, n))
<1>2. /\ C(0) = 0 /\ \A n \in 0..N : C(n) \in Nat
      /\ \A n \in 1..N : C(n) = C(n - 1) + (IF n \in F THEN 1 ELSE 0)
      /\ \A m, n \in 0..N : m <= n => C(m) <= C(n)
  <2>1. C(0) = 0 /\ \A n \in 0..N : C(n) \in Nat
    BY <1>1, Tally
  <2>2. ASSUME NEW n \in 1..N PROVE C(n) = C(n - 1) + (IF n \in F THEN 1 ELSE 0)
    <3>1. n \in F => C(n) = C(n - 1) + 1
      BY <1>1, Tally
    <3>2. n \notin F => UpTo(F, n) = UpTo(F, n - 1)
      BY <1>1, UpToMore
    <3>3. C(n - 1) \in Nat
      BY <1>1, <2>1
    <3> QED
      BY <3>1, <3>2, <3>3
  <2>3. ASSUME NEW m \in 0..N, NEW n \in 0..N, m <= n PROVE C(m) <= C(n)
    BY <1>1, <2>3, Tally
  <2> QED
    BY <2>1, <2>2, <2>3
<1>3. /\ Rank(items, 0) = 0
      /\ \A n \in 0..N : Rank(items, n) \in Nat
      /\ \A n \in 1..N : Rank(items, n) = Rank(items, n - 1) + (IF n \in F THEN 1 ELSE 0)
      /\ \A m, n \in 0..N : m <= n => Rank(items, m) <= Rank(items, n)
  BY <1>1, <1>2
<1> QED
  BY <1>3 DEF N, F

\* An item that passes is a first, or has a twin among the firsts before it.
LEMMA FirstTwin ==
  ASSUME NEW items \in Seq(Surfaces), NEW n \in 1..Len(items),
         Passes(items[n]), n \notin Firsts(items)
  PROVE  \E m \in Firsts(items) : m < n /\ Twin(items[m], items[n])
<1> DEFINE twins == {m \in 1..Len(items) : m < n /\ Passes(items[m]) /\ Twin(items[m], items[n])}
<1>1. DOMAIN items = 1..Len(items) /\ Len(items) \in Nat
  OBVIOUS
<1>2. twins \in SUBSET Nat /\ twins # {}
  BY <1>1 DEF Firsts
<1>3. PICK m \in twins : \A k \in twins : m <= k
  <2> HIDE DEF twins
  <2> QED
    BY <1>2, Least
<1>4. ASSUME NEW k \in 1..(m - 1), Passes(items[k]), Twin(items[k], items[m]) PROVE FALSE
  <2>1. k \in twins
    BY <1>1, <1>4 DEF Twin
  <2> QED
    BY <1>1, <1>3, <2>1
<1>5. m \in Firsts(items)
  BY <1>1, <1>4 DEF Firsts
<1> QED
  BY <1>5

\* The judgement on item n, when what is kept of those before it is right: it is
\* kept if it gets through.
LEMMA JudgedRight ==
  ASSUME NEW items \in Seq(Surfaces), NEW n \in 1..Len(items), NEW kept \in Seq(Surfaces),
         SiftedRight(items, n - 1, kept)
  PROVE  KeepsSurface(items[n], kept) <=> n \in Through(items)
<1> DEFINE rank == Rank(items, n - 1)
<1>1. DOMAIN items = 1..Len(items) /\ Len(items) \in Nat /\ n \in Nat /\ n - 1 \in 0..Len(items)
  OBVIOUS
<1>2. Firsts(items) \in SUBSET (1..Len(items)) /\ Through(items) \subseteq Firsts(items)
  BY RankIs
<1>3. Rank(items, n) = rank + (IF n \in Firsts(items) THEN 1 ELSE 0) /\ rank \in Nat
  BY <1>1, RankIs, RankGrows
<1>4. SurfaceLimit \in Nat
  BY ScreeningAssumption
<1>5. Within(SurfaceLimit, kept) <=> SurfaceLimit = 0 \/ rank < SurfaceLimit
  BY <1>3, <1>4 DEF SiftedRight, Within
<1>6. \A k \in Range(kept) : \E m \in Through(items) : m < n /\ k = items[m]
  <2>1. DOMAIN kept = 1..Len(kept)
    OBVIOUS
  <2>2. \A m \in UpTo(Through(items), n - 1) : m \in Through(items) /\ m < n
    BY <1>1, <1>2 DEF UpTo
  <2> QED
    BY <2>1, <2>2 DEF SiftedRight, Range
<1>7. \A m \in Through(items) : m < n => items[m] \in Range(kept)
  <2> TAKE m \in Through(items)
  <2> HAVE m < n
  <2>1. m \in UpTo(Through(items), n - 1)
    BY <1>1, <1>2 DEF UpTo
  <2>2. Rank(items, m) \in 1..Len(kept) /\ kept[Rank(items, m)] = items[m]
    BY <2>1 DEF SiftedRight
  <2>3. DOMAIN kept = 1..Len(kept)
    OBVIOUS
  <2> QED
    BY <2>2, <2>3 DEF Range
<1>8. CASE ~Passes(items[n])
  <2>1. n \notin Firsts(items)
    BY <1>8 DEF Firsts
  <2>2. ~KeepsSurface(items[n], kept)
    BY <1>8 DEF Passes, KeepsSurface
  <2> QED
    BY <1>2, <2>1, <2>2
<1>9. CASE Passes(items[n]) /\ n \notin Firsts(items)
  <2>1. PICK m \in Firsts(items) : m < n /\ Twin(items[m], items[n])
    BY <1>9, FirstTwin
  <2>2. CASE m \in Through(items)
    <3>1. items[m] \in Range(kept)
      BY <1>7, <2>1, <2>2
    <3>2. ~KeepsSurface(items[n], kept)
      BY <2>1, <3>1 DEF KeepsSurface, Twin
    <3> QED
      BY <1>2, <1>9, <3>2
  <2>3. CASE m \notin Through(items)
    <3>1. SurfaceLimit # 0 /\ ~(Rank(items, m) <= SurfaceLimit)
      BY <2>3 DEF Through
    <3>2. Rank(items, m) <= rank /\ Rank(items, m) \in Nat
      <4>1. m \in 0..Len(items) /\ m <= n - 1
        BY <1>1, <1>2, <2>1
      <4> QED
        BY <1>1, <4>1, RankIs, RankGrows
    <3>3. ~Within(SurfaceLimit, kept)
      BY <1>3, <1>4, <1>5, <3>1, <3>2
    <3> QED
      BY <1>2, <1>9, <3>3 DEF KeepsSurface
  <2> QED
    BY <2>2, <2>3
<1>10. CASE n \in Firsts(items)
  <2>1. Passes(items[n])
    BY <1>10 DEF Firsts
  <2>2. ASSUME NEW k \in Range(kept), k.kind = items[n].kind, Lower[k.name] = Lower[items[n].name]
        PROVE  FALSE
    <3>1. PICK m \in Through(items) : m < n /\ k = items[m]
      BY <1>6
    <3>2. m \in 1..(n - 1) /\ Passes(items[m]) /\ Twin(items[m], items[n])
      BY <1>1, <1>2, <2>2, <3>1 DEF Firsts, Twin
    <3> QED
      BY <1>10, <3>2 DEF Firsts
  <2>3. KeepsSurface(items[n], kept) <=> Within(SurfaceLimit, kept)
    BY <2>1, <2>2 DEF Passes, KeepsSurface
  <2>4. n \in Through(items) <=> SurfaceLimit = 0 \/ Rank(items, n) <= SurfaceLimit
    BY <1>10 DEF Through
  <2> QED
    BY <1>3, <1>4, <1>5, <1>10, <2>3, <2>4
<1> QED
  BY <1>2, <1>8, <1>9, <1>10

\* One item more: what is kept stays right.
LEMMA TurnRight ==
  ASSUME NEW items \in Seq(Surfaces), NEW n \in 1..Len(items), NEW kept \in Seq(Surfaces),
         SiftedRight(items, n - 1, kept)
  PROVE  SiftedRight(items, n, SurfaceTurn(items, kept, n))
<1> DEFINE N == Len(items)
           T == Through(items)
           before == UpTo(T, n - 1)
           rank == Rank(items, n - 1)
<1>1. N \in Nat /\ n \in Nat /\ n - 1 \in 0..N /\ T \in SUBSET (1..N) /\ SurfaceLimit \in Nat
  <2>1. T \in SUBSET (1..N)
    BY RankIs
  <2>2. N \in Nat /\ n \in Nat /\ n - 1 \in 0..N
    OBVIOUS
  <2>3. SurfaceLimit \in Nat
    BY ScreeningAssumption
  <2> QED
    BY <2>1, <2>2, <2>3
<1>2. /\ n \in T => UpTo(T, n) = before \cup {n}
      /\ n \in T => Cardinality(UpTo(T, n)) = Cardinality(before) + 1
      /\ n \notin T => UpTo(T, n) = before
  <2>1. n \in 1..N
    OBVIOUS
  <2> HIDE DEF T, N
  <2>2. n \in T => Cardinality(UpTo(T, n)) = Cardinality(UpTo(T, n - 1)) + 1
    BY <1>1, Tally
  <2>3. /\ n \in T => UpTo(T, n) = UpTo(T, n - 1) \cup {n}
        /\ n \notin T => UpTo(T, n) = UpTo(T, n - 1)
    BY <1>1, <2>1, UpToMore
  <2> QED
    BY <2>2, <2>3
<1>3. Rank(items, n) = rank + (IF n \in Firsts(items) THEN 1 ELSE 0) /\ rank \in Nat
  BY <1>1, RankGrows
<1>4. /\ Len(kept) = Cardinality(before)
      /\ SurfaceLimit = 0 \/ rank <= SurfaceLimit => Len(kept) = rank
      /\ SurfaceLimit # 0 /\ rank > SurfaceLimit => Len(kept) = SurfaceLimit
      /\ \A m \in before : Rank(items, m) \in 1..Len(kept) /\ kept[Rank(items, m)] = items[m]
      /\ \A j \in 1..Len(kept) : \E m \in before : kept[j] = items[m]
  BY DEF SiftedRight
<1>5. Len(kept) \in Nat
  OBVIOUS
<1> HIDE DEF before, rank, N
<1>6. CASE n \in T
  <2>1. SurfaceTurn(items, kept, n) = Append(kept, items[n])
    BY <1>6, JudgedRight DEF SurfaceTurn
  <2> DEFINE more == Append(kept, items[n])
  <2>2. /\ Len(more) = Len(kept) + 1 /\ more[Len(kept) + 1] = items[n]
        /\ \A j \in 1..Len(kept) : more[j] = kept[j]
    OBVIOUS
  <2>3. n \in Firsts(items) /\ (SurfaceLimit = 0 \/ Rank(items, n) <= SurfaceLimit)
    BY <1>6 DEF Through
  <2>4. Rank(items, n) = Len(kept) + 1
    BY <1>1, <1>3, <1>4, <2>3
  <2> HIDE DEF more
  <2>5. ASSUME NEW m \in UpTo(T, n)
        PROVE  Rank(items, m) \in 1..Len(more) /\ more[Rank(items, m)] = items[m]
    <3>1. m \in before \/ m = n
      BY <1>2, <1>6
    <3> QED
      BY <1>4, <1>5, <2>2, <2>4, <3>1
  <2>6. ASSUME NEW j \in 1..Len(more) PROVE \E m \in UpTo(T, n) : more[j] = items[m]
    <3>1. j \in 1..Len(kept) \/ j = Len(kept) + 1
      BY <1>5, <2>2
    <3>2. UpTo(T, n) = before \cup {n}
      BY <1>2, <1>6
    <3>3. CASE j \in 1..Len(kept)
      <4>1. PICK m \in before : kept[j] = items[m]
        BY <1>4, <3>3
      <4> QED
        BY <2>2, <3>2, <3>3, <4>1
    <3>4. CASE j = Len(kept) + 1
      BY <2>2, <3>2, <3>4
    <3> QED
      BY <3>1, <3>3, <3>4
  <2>7. SiftedRight(items, n, more)
    BY <1>1, <1>2, <1>3, <1>4, <1>5, <1>6, <2>2, <2>3, <2>4, <2>5, <2>6 DEF SiftedRight
  <2> QED
    BY <2>1, <2>7 DEF more
<1>7. CASE n \notin T
  <2>1. SurfaceTurn(items, kept, n) = kept
    BY <1>7, JudgedRight DEF SurfaceTurn
  <2>2. n \in Firsts(items) => SurfaceLimit # 0 /\ ~(Rank(items, n) <= SurfaceLimit)
    BY <1>7 DEF Through
  <2>3. /\ SurfaceLimit = 0 \/ Rank(items, n) <= SurfaceLimit => Len(kept) = Rank(items, n)
        /\ SurfaceLimit # 0 /\ Rank(items, n) > SurfaceLimit => Len(kept) = SurfaceLimit
    BY <1>1, <1>3, <1>4, <2>2
  <2>4. SiftedRight(items, n, kept)
    BY <1>2, <1>4, <1>7, <2>3 DEF SiftedRight
  <2> QED
    BY <2>1, <2>4
<1> QED
  BY <1>6, <1>7

\* A turn keeps a list of surfaces.
LEMMA TurnType ==
  ASSUME NEW items \in Seq(Surfaces), NEW n \in 1..Len(items), NEW kept \in Seq(Surfaces)
  PROVE  SurfaceTurn(items, kept, n) \in Seq(Surfaces)
<1>1. items[n] \in Surfaces
  OBVIOUS
<1> QED
  BY <1>1 DEF SurfaceTurn

\* What Sift keeps of an answer of the surface stage.
LEMMA SurfacesKept ==
  ASSUME NEW items \in Seq(Surfaces)
  PROVE  /\ Sift(items, KeepsSurface) \in Seq(Surfaces)
         /\ SiftedRight(items, Len(items), Sift(items, KeepsSurface))
<1> DEFINE N == Len(items)
<1>1. PICK f : /\ Computes(f, N, Seq(Surfaces), <<>>, SurfaceSteps(Surfaces, items))
               /\ Sift(items, KeepsSurface) = f[N]
  BY SurfaceLoop
<1>2. N \in Nat
  OBVIOUS
<1>3. f[0] = <<>> /\ \A n \in 0..N : f[n] \in Seq(Surfaces)
  BY <1>1 DEF Computes
<1>4. ASSUME NEW n \in 1..N
      PROVE  f[n - 1] \in Seq(Surfaces) /\ f[n] = SurfaceTurn(items, f[n - 1], n)
  <2>1. f[n - 1] \in Seq(Surfaces) /\ f[n] = SurfaceSteps(Surfaces, items)[n][f[n - 1]]
    <3> HIDE DEF N
    <3> QED
      BY <1>1, <1>2, Turning
  <2> QED
    BY <2>1 DEF SurfaceSteps
<1> DEFINE S == {n \in 0..N : SiftedRight(items, n, f[n])}
<1>5. 0 \in S
  <2>1. UpTo(Through(items), 0) = {} /\ Cardinality(UpTo(Through(items), 0)) = 0
    <3>1. Through(items) \in SUBSET (1..N)
      BY RankIs
    <3> HIDE DEF N
    <3> QED
      BY <1>2, <3>1, Tally
  <2>2. Rank(items, 0) = 0 /\ SurfaceLimit \in Nat
    BY RankGrows, ScreeningAssumption
  <2>3. SiftedRight(items, 0, <<>>)
    BY <2>1, <2>2 DEF SiftedRight
  <2> QED
    BY <1>2, <1>3, <2>3
<1>6. ASSUME NEW n \in 1..N, n - 1 \in S PROVE n \in S
  <2>1. SiftedRight(items, n, SurfaceTurn(items, f[n - 1], n))
    BY <1>4, <1>6, TurnRight
  <2>2. n \in 0..N
    BY <1>2
  <2> QED
    BY <1>4, <2>1, <2>2
<1>7. \A n \in 0..N : n \in S
  <2> HIDE DEF S, N
  <2> QED
    BY <1>2, <1>5, <1>6, CountingUpTo
<1>8. N \in 0..N
  BY <1>2
<1>9. SiftedRight(items, N, f[N])
  BY <1>7, <1>8
<1> QED
  BY <1>1, <1>3, <1>8, <1>9

----------------------------------------------------------------------------
(* Capability plans *)

\* What the first n plans of an answer cite for a capability id.
Citing(answer, n, id) ==
  {m \in 1..n : Lower[answer[m].id] = id /\ answer[m].sources \subseteq SurfaceIds}
Cited(answer, n, id) == UNION {answer[m].sources : m \in Citing(answer, n, id)}

\* What is said of the first n plans and of those kept of them.
PlannedRight(answer, n, kept) ==
  /\ \A i, j \in 1..Len(kept) : kept[i].id = kept[j].id => i = j
  /\ \A i \in 1..Len(kept) :
       kept[i].sources # {} /\ kept[i].sources = Cited(answer, n, kept[i].id)
  /\ \A m \in 1..n : Usable(answer[m]) =>
       \/ ~Within(CandidateLimit, kept)
       \/ \E i \in 1..Len(kept) : kept[i].id = Lower[answer[m].id]

\* One plan more cites its own surfaces more, if it cites kept ones only.
LEMMA CitedMore ==
  ASSUME NEW answer \in Seq(RawPlans), NEW n \in 1..Len(answer), NEW id
  PROVE  /\ n \in Citing(answer, n, id) =>
              Cited(answer, n, id) = Cited(answer, n - 1, id) \cup answer[n].sources
         /\ n \notin Citing(answer, n, id) => Cited(answer, n, id) = Cited(answer, n - 1, id)
<1>1. \A m : m \in 1..n <=> m \in 1..(n - 1) \/ m = n
  OBVIOUS
<1>2. n \in Citing(answer, n, id) =>
        \A m : m \in Citing(answer, n, id) <=> m \in Citing(answer, n - 1, id) \/ m = n
  BY <1>1 DEF Citing
<1>3. n \notin Citing(answer, n, id) =>
        \A m : m \in Citing(answer, n, id) <=> m \in Citing(answer, n - 1, id)
  BY <1>1 DEF Citing
<1>4. \A k, x : x \in Cited(answer, k, id)
                  <=> \E m \in Citing(answer, k, id) : x \in answer[m].sources
  BY DEF Cited
<1>5. n \in Citing(answer, n, id) =>
        \A x : x \in Cited(answer, n, id) <=> x \in Cited(answer, n - 1, id) \cup answer[n].sources
  BY <1>2, <1>4
<1>6. n \notin Citing(answer, n, id) =>
        \A x : x \in Cited(answer, n, id) <=> x \in Cited(answer, n - 1, id)
  BY <1>3, <1>4
<1> QED
  BY <1>5, <1>6

\* One plan more: what is kept stays right.
LEMMA PlanTurnRight ==
  ASSUME NEW answer \in Seq(RawPlans), NEW n \in 1..Len(answer), NEW kept \in Seq(Plans),
         PlannedRight(answer, n - 1, kept)
  PROVE  PlannedRight(answer, n, PlanNext(kept, answer[n]))
<1> DEFINE plan == answer[n]
           id == Lower[plan.id]
           same == {i \in DOMAIN kept : kept[i].id = id}
<1>1. /\ \A i, j \in 1..Len(kept) : kept[i].id = kept[j].id => i = j
      /\ \A i \in 1..Len(kept) :
           kept[i].sources # {} /\ kept[i].sources = Cited(answer, n - 1, kept[i].id)
      /\ \A m \in 1..(n - 1) : Usable(answer[m]) =>
           \/ ~Within(CandidateLimit, kept)
           \/ \E i \in 1..Len(kept) : kept[i].id = Lower[answer[m].id]
  BY DEF PlannedRight
<1>2. /\ DOMAIN kept = 1..Len(kept) /\ Len(kept) \in Nat /\ n \in Nat
      /\ \A i \in 1..Len(kept) : kept[i] \in Plans
      /\ \A m \in 1..n : m \in 1..(n - 1) \/ m = n
  OBVIOUS
<1>3. CandidateLimit \in Nat
  BY ScreeningAssumption
<1>4. \A x : n \in Citing(answer, n, x) <=> id = x /\ plan.sources \subseteq SurfaceIds
  BY <1>2 DEF Citing
<1>5. PlanNext(kept, plan) =
        IF ~Usable(plan) \/ (same = {} /\ ~Within(CandidateLimit, kept)) THEN kept
        ELSE IF same = {} THEN Append(kept, [plan EXCEPT !.id = id])
        ELSE Joining(kept, id, plan.sources)
  BY DEF PlanNext
<1>6. same = {} <=> \A i \in 1..Len(kept) : kept[i].id # id
  BY <1>2
<1>7. Usable(plan) <=> id \in ValidIds /\ plan.sources # {} /\ plan.sources \subseteq SurfaceIds
  BY DEF Usable
<1>8. plan \in RawPlans
  OBVIOUS
<1> HIDE DEF plan, id, same
<1>9. CASE ~Usable(plan) \/ (same = {} /\ ~Within(CandidateLimit, kept))
  <2>1. ASSUME NEW i \in 1..Len(kept) PROVE Cited(answer, n, kept[i].id) = kept[i].sources
    <3>1. kept[i].id \in ValidIds
      BY <1>2 DEF Plans
    <3>2. CASE n \notin Citing(answer, n, kept[i].id)
      BY <1>1, <3>2, CitedMore
    <3>3. CASE n \in Citing(answer, n, kept[i].id)
      <4>1. id = kept[i].id /\ plan.sources \subseteq SurfaceIds
        BY <1>4, <3>3
      <4>2. ~Usable(plan)
        BY <1>6, <1>9, <4>1
      <4>3. plan.sources = {}
        BY <1>7, <3>1, <4>1, <4>2
      <4>4. Cited(answer, n, kept[i].id) = Cited(answer, n - 1, kept[i].id) \cup plan.sources
        BY <3>3, CitedMore DEF plan
      <4> QED
        BY <1>1, <4>3, <4>4
    <3> QED
      BY <3>2, <3>3
  <2>2. ASSUME NEW m \in 1..n, Usable(answer[m])
        PROVE  \/ ~Within(CandidateLimit, kept)
               \/ \E i \in 1..Len(kept) : kept[i].id = Lower[answer[m].id]
    BY <1>1, <1>2, <1>9, <2>2 DEF plan
  <2>3. PlannedRight(answer, n, kept)
    BY <1>1, <2>1, <2>2 DEF PlannedRight
  <2> QED
    BY <1>5, <1>9, <2>3 DEF plan
<1>10. CASE Usable(plan) /\ same = {} /\ Within(CandidateLimit, kept)
  <2> DEFINE new == [plan EXCEPT !.id = id]
             more == Append(kept, new)
  <2>1. new.id = id /\ new.sources = plan.sources
    BY <1>8 DEF RawPlans
  <2>2. /\ Len(more) = Len(kept) + 1 /\ more[Len(kept) + 1] = new
        /\ \A i \in 1..Len(kept) : more[i] = kept[i]
    BY <1>2
  <2> HIDE DEF new, more
  <2>3. \A i \in 1..Len(more) : i \in 1..Len(kept) \/ i = Len(kept) + 1
    BY <1>2, <2>2
  <2>4. \A i, j \in 1..Len(more) : more[i].id = more[j].id => i = j
    BY <1>1, <1>6, <1>10, <2>1, <2>2, <2>3
  <2>5. Cited(answer, n - 1, id) = {}
    <3>1. ASSUME NEW m \in Citing(answer, n - 1, id), answer[m].sources # {} PROVE FALSE
      <4>1. m \in 1..(n - 1) /\ Usable(answer[m]) /\ Lower[answer[m].id] = id
        BY <1>7, <1>10, <3>1 DEF Citing, Usable
      <4> QED
        BY <1>1, <1>6, <1>10, <4>1
    <3> QED
      BY <3>1 DEF Cited
  <2>6. Cited(answer, n, id) = plan.sources
    <3>1. n \in Citing(answer, n, id)
      BY <1>4, <1>7, <1>10
    <3>2. Cited(answer, n, id) = Cited(answer, n - 1, id) \cup answer[n].sources
      BY <3>1, CitedMore
    <3> QED
      BY <2>5, <3>2 DEF plan
  <2>7. ASSUME NEW i \in 1..Len(more)
        PROVE  more[i].sources # {} /\ more[i].sources = Cited(answer, n, more[i].id)
    <3>1. CASE i = Len(kept) + 1
      BY <1>7, <1>10, <2>1, <2>2, <2>6, <3>1
    <3>2. CASE i \in 1..Len(kept)
      <4>1. n \notin Citing(answer, n, kept[i].id)
        BY <1>4, <1>6, <1>10, <3>2
      <4>2. Cited(answer, n, kept[i].id) = Cited(answer, n - 1, kept[i].id)
        BY <4>1, CitedMore
      <4> QED
        BY <1>1, <2>2, <3>2, <4>2
    <3> QED
      BY <2>3, <3>1, <3>2
  <2>8. ASSUME NEW m \in 1..n, Usable(answer[m])
        PROVE  \E i \in 1..Len(more) : more[i].id = Lower[answer[m].id]
    <3>1. CASE m = n
      <4>1. Len(kept) + 1 \in 1..Len(more)
        BY <1>2, <2>2
      <4> QED
        BY <2>1, <2>2, <3>1, <4>1 DEF plan, id
    <3>2. CASE m \in 1..(n - 1)
      <4>1. PICK i \in 1..Len(kept) : kept[i].id = Lower[answer[m].id]
        BY <1>1, <1>10, <2>8, <3>2
      <4>2. i \in 1..Len(more)
        BY <1>2, <2>2
      <4> QED
        BY <2>2, <4>1, <4>2
    <3> QED
      BY <1>2, <3>1, <3>2
  <2>9. PlannedRight(answer, n, more)
    BY <2>4, <2>7, <2>8 DEF PlannedRight
  <2> QED
    BY <1>5, <1>10, <2>9 DEF plan, more, new
<1>11. CASE Usable(plan) /\ same # {}
  <2> DEFINE more == Joining(kept, id, plan.sources)
  <2>1. /\ Len(more) = Len(kept)
        /\ \A i \in 1..Len(kept) : /\ more[i].id = kept[i].id
                                   /\ more[i].sources = IF kept[i].id = id
                                                        THEN kept[i].sources \cup plan.sources
                                                        ELSE kept[i].sources
    <3>1. DOMAIN more = 1..Len(kept) /\ more = [i \in 1..Len(kept) |-> more[i]]
      BY <1>2 DEF Joining
    <3>2. Len(more) = Len(kept)
      BY <1>2, <3>1
    <3>3. ASSUME NEW i \in 1..Len(kept)
          PROVE  /\ more[i].id = kept[i].id
                 /\ more[i].sources = IF kept[i].id = id THEN kept[i].sources \cup plan.sources
                                      ELSE kept[i].sources
      <4>1. more[i] = IF kept[i].id = id THEN [kept[i] EXCEPT !.sources = @ \cup plan.sources]
                      ELSE kept[i]
        BY <1>2 DEF Joining
      <4>2. kept[i] \in Plans
        BY <1>2
      <4> QED
        BY <4>1, <4>2 DEF Plans
    <3> QED
      BY <3>2, <3>3
  <2> HIDE DEF more
  <2>2. \A i, j \in 1..Len(more) : more[i].id = more[j].id => i = j
    BY <1>1, <2>1
  <2>3. ASSUME NEW i \in 1..Len(more)
        PROVE  more[i].sources # {} /\ more[i].sources = Cited(answer, n, more[i].id)
    <3>1. CASE kept[i].id = id
      <4>1. n \in Citing(answer, n, kept[i].id)
        BY <1>4, <1>7, <1>11, <3>1
      <4>2. Cited(answer, n, kept[i].id) = Cited(answer, n - 1, kept[i].id) \cup answer[n].sources
        BY <4>1, CitedMore
      <4> QED
        BY <1>1, <2>1, <3>1, <4>2 DEF plan
    <3>2. CASE kept[i].id # id
      <4>1. n \notin Citing(answer, n, kept[i].id)
        BY <1>4, <3>2
      <4>2. Cited(answer, n, kept[i].id) = Cited(answer, n - 1, kept[i].id)
        BY <4>1, CitedMore
      <4> QED
        BY <1>1, <2>1, <3>2, <4>2
    <3> QED
      BY <3>1, <3>2
  <2>4. ASSUME NEW m \in 1..n, Usable(answer[m])
        PROVE  \/ ~Within(CandidateLimit, more)
               \/ \E i \in 1..Len(more) : more[i].id = Lower[answer[m].id]
    <3>1. CASE m = n
      <4>1. PICK i \in 1..Len(kept) : kept[i].id = id
        BY <1>6, <1>11
      <4> QED
        BY <2>1, <3>1, <4>1 DEF plan, id
    <3>2. CASE m \in 1..(n - 1)
      <4>1. Within(CandidateLimit, more) <=> Within(CandidateLimit, kept)
        BY <2>1 DEF Within
      <4>2. \/ ~Within(CandidateLimit, kept)
            \/ \E i \in 1..Len(kept) : kept[i].id = Lower[answer[m].id]
        BY <1>1, <2>4, <3>2
      <4>3. \A i \in 1..Len(kept) : i \in 1..Len(more) /\ more[i].id = kept[i].id
        BY <2>1
      <4> QED
        BY <4>1, <4>2, <4>3
    <3> QED
      BY <1>2, <3>1, <3>2
  <2>5. PlannedRight(answer, n, more)
    BY <2>2, <2>3, <2>4 DEF PlannedRight
  <2> QED
    BY <1>5, <1>11, <2>5 DEF plan, more
<1> QED
  BY <1>9, <1>10, <1>11

\* What is kept of an answer of the capability stage.
LEMMA PlansKept ==
  ASSUME NEW answer \in Seq(RawPlans)
  PROVE  Planned(answer) \in Seq(Plans) /\ PlannedRight(answer, Len(answer), Planned(answer))
<1> DEFINE N == Len(answer)
<1>1. PICK f : /\ Computes(f, N, Seq(Plans), <<>>, PlanSteps(answer))
               /\ Planned(answer) = f[N]
  BY PlanLoop
<1>2. N \in Nat
  OBVIOUS
<1>3. f[0] = <<>> /\ \A n \in 0..N : f[n] \in Seq(Plans)
  BY <1>1 DEF Computes
<1>4. ASSUME NEW n \in 1..N
      PROVE  f[n - 1] \in Seq(Plans) /\ f[n] = PlanNext(f[n - 1], answer[n])
  <2>1. f[n - 1] \in Seq(Plans) /\ f[n] = PlanSteps(answer)[n][f[n - 1]]
    <3> HIDE DEF N
    <3> QED
      BY <1>1, <1>2, Turning
  <2> QED
    BY <2>1 DEF PlanSteps, PlanTurn
<1> DEFINE S == {n \in 0..N : PlannedRight(answer, n, f[n])}
<1>5. 0 \in S
  <2>1. PlannedRight(answer, 0, <<>>)
    BY DEF PlannedRight
  <2> QED
    BY <1>2, <1>3, <2>1
<1>6. ASSUME NEW n \in 1..N, n - 1 \in S PROVE n \in S
  <2>1. PlannedRight(answer, n, PlanNext(f[n - 1], answer[n]))
    BY <1>4, <1>6, PlanTurnRight
  <2>2. n \in 0..N
    BY <1>2
  <2> QED
    BY <1>4, <2>1, <2>2
<1>7. \A n \in 0..N : n \in S
  <2> HIDE DEF S, N
  <2> QED
    BY <1>2, <1>5, <1>6, CountingUpTo
<1>8. N \in 0..N
  BY <1>2
<1>9. PlannedRight(answer, N, f[N])
  BY <1>7, <1>8
<1> QED
  BY <1>1, <1>3, <1>8, <1>9

----------------------------------------------------------------------------
(* The selection *)

\* The candidate at m is the first of the request's provider for its capability.
Own(m) == result.candidates[m].provider = Provider
CapAt(m) == result.candidates[m].capability
IsFirst(m) == Own(m) /\ \A k \in 1..(m - 1) : Own(k) => CapAt(k) # CapAt(m)

\* Selected from place m, with a plan made for it.
From(acc, i, m) ==
  /\ IsFirst(m) /\ acc.candidates[i] = result.candidates[m]
  /\ \E k \in PlanFor(m) : acc.plans[i].verify = result.plans[k].verify

\* What is said of the first n candidates and of what is selected of them.
SelectedRight(n, acc) ==
  /\ Len(acc.plans) = Len(acc.candidates)
  /\ \A i, j \in 1..Len(acc.candidates) :
       acc.candidates[i].capability = acc.candidates[j].capability => i = j
  /\ \A i \in 1..Len(acc.candidates) :
       acc.plans[i].index = i /\ \E m \in 1..n : From(acc, i, m)
  /\ ~acc.ended => \A m \in 1..n : Own(m) =>
       \E i \in 1..Len(acc.candidates) : acc.candidates[i].capability = CapAt(m)
  /\ acc.ended /\ acc.candidates = <<>> => acc.error

\* The turns that select nothing.
LEMMA PassedOver ==
  ASSUME result \in Results, NEW n \in 1..Len(result.candidates), NEW acc \in Selections,
         SelectedRight(n - 1, acc),
         NEW more \in Selections,
         more.candidates = acc.candidates, more.plans = acc.plans,
         ~more.ended => ~acc.ended,
         ~more.ended /\ Own(n) =>
           \E i \in 1..Len(acc.candidates) : acc.candidates[i].capability = CapAt(n),
         more.ended /\ ~acc.ended => more.error \/ acc.candidates # <<>>,
         more.ended /\ acc.ended => more.error = acc.error
  PROVE  SelectedRight(n, more)
<1>1. \A m : m \in 1..n <=> m \in 1..(n - 1) \/ m = n
  OBVIOUS
<1>2. \A i, m : From(acc, i, m) => From(more, i, m)
  BY DEF From
<1>3. \A i \in 1..Len(more.candidates) :
        more.plans[i].index = i /\ \E m \in 1..n : From(more, i, m)
  BY <1>1, <1>2 DEF SelectedRight
<1>4. ~more.ended => \A m \in 1..n : Own(m) =>
        \E i \in 1..Len(more.candidates) : more.candidates[i].capability = CapAt(m)
  BY <1>1 DEF SelectedRight
<1>5. more.ended /\ more.candidates = <<>> => more.error
  BY DEF SelectedRight
<1> QED
  BY <1>3, <1>4, <1>5 DEF SelectedRight

\* One candidate more: what is selected stays right.
LEMMA SelectTurnRight ==
  ASSUME result \in Results, NEW n \in 1..Len(result.candidates), NEW acc \in Selections,
         SelectedRight(n - 1, acc)
  PROVE  SelectedRight(n, SelectNext(acc, n))
<1> DEFINE c == result.candidates[n]
           m == CHOOSE m \in PlanFor(n) : TRUE
           plan == [result.plans[m] EXCEPT !.index = Len(acc.candidates) + 1]
           more == [candidates |-> Append(acc.candidates, c), plans |-> Append(acc.plans, plan),
                    ended |-> FALSE, error |-> FALSE]
           twin == \E k \in Range(acc.candidates) : k.capability = c.capability
           stops == source = "live" /\ ~Within(CandidateLimit, acc.candidates)
<1>1. SelectNext(acc, n) \in Selections
  BY SelectNextType
<1>2. SelectNext(acc, n) =
        IF acc.ended \/ c.provider # Provider THEN acc
        ELSE IF PlanFor(n) = {} THEN [acc EXCEPT !.ended = TRUE, !.error = TRUE]
        ELSE IF twin THEN acc
        ELSE IF stops THEN [acc EXCEPT !.ended = TRUE]
        ELSE more
  BY DEF SelectNext
<1>3. /\ acc.candidates \in Seq(Filleds) /\ acc.plans \in Seq(ProbePlans)
      /\ DOMAIN acc.candidates = 1..Len(acc.candidates) /\ Len(acc.candidates) \in Nat
  BY DEF Selections
<1>4. twin <=> \E i \in 1..Len(acc.candidates) : acc.candidates[i].capability = CapAt(n)
  BY <1>3 DEF Range, CapAt
<1>5. stops => acc.candidates # <<>>
  <2>1. CandidateLimit \in Nat
    BY ScreeningAssumption
  <2> QED
    BY <1>3, <2>1 DEF Within
<1>6. Own(n) <=> c.provider = Provider
  BY DEF Own
<1> HIDE DEF c, plan, twin, stops
<1>7. CASE acc.ended \/ ~Own(n) \/ (PlanFor(n) # {} /\ twin)
  <2>1. SelectNext(acc, n) = acc
    BY <1>2, <1>6, <1>7
  <2>2. ~acc.ended /\ Own(n) =>
          \E i \in 1..Len(acc.candidates) : acc.candidates[i].capability = CapAt(n)
    BY <1>4, <1>7
  <2>3. SelectedRight(n, acc)
    BY <2>2, PassedOver
  <2> QED
    BY <2>1, <2>3
<1>8. CASE ~acc.ended /\ Own(n) /\ PlanFor(n) = {}
  <2> DEFINE end == [acc EXCEPT !.ended = TRUE, !.error = TRUE]
  <2>1. SelectNext(acc, n) = end
    BY <1>2, <1>6, <1>8
  <2>2. end.candidates = acc.candidates /\ end.plans = acc.plans /\ end.ended /\ end.error
    BY DEF Selections
  <2> HIDE DEF end
  <2>3. SelectedRight(n, end)
    BY <1>1, <1>8, <2>1, <2>2, PassedOver
  <2> QED
    BY <2>1, <2>3
<1>9. CASE ~acc.ended /\ Own(n) /\ PlanFor(n) # {} /\ ~twin /\ stops
  <2> DEFINE end == [acc EXCEPT !.ended = TRUE]
  <2>1. SelectNext(acc, n) = end
    BY <1>2, <1>6, <1>9
  <2>2. end.candidates = acc.candidates /\ end.plans = acc.plans /\ end.ended
    BY DEF Selections
  <2> HIDE DEF end
  <2>3. SelectedRight(n, end)
    BY <1>1, <1>5, <1>9, <2>1, <2>2, PassedOver
  <2> QED
    BY <2>1, <2>3
<1>10. CASE ~acc.ended /\ Own(n) /\ PlanFor(n) # {} /\ ~twin /\ ~stops
  <2> DEFINE N == Len(acc.candidates)
  <2>1. SelectNext(acc, n) = more
    BY <1>2, <1>6, <1>10
  <2>2. m \in PlanFor(n) /\ PlanFor(n) \subseteq 1..Len(result.plans)
    BY <1>10 DEF PlanFor, Results
  <2>3. plan.index = N + 1 /\ plan.verify = result.plans[m].verify
    <3>1. result.plans[m] \in ProbePlans
      BY <2>2 DEF Results
    <3> QED
      BY <3>1 DEF plan, ProbePlans
  <2>4. Len(acc.plans) = N
    BY DEF SelectedRight
  <2>5. /\ Len(more.candidates) = N + 1 /\ more.candidates[N + 1] = c
        /\ \A i \in 1..N : more.candidates[i] = acc.candidates[i]
        /\ Len(more.plans) = N + 1 /\ more.plans[N + 1] = plan
        /\ \A i \in 1..N : more.plans[i] = acc.plans[i]
        /\ ~more.ended
    <3>1. more.candidates = Append(acc.candidates, c) /\ more.plans = Append(acc.plans, plan)
          /\ more.ended = FALSE
      OBVIOUS
    <3> HIDE DEF more
    <3> QED
      BY <1>3, <2>4, <3>1
  <2> HIDE DEF more, m, N
  <2>6. N \in Nat
    BY <1>3 DEF N
  <2>7. \A i : i \in 1..(N + 1) <=> i \in 1..N \/ i = N + 1
    BY <2>6
  <2>8. \A k : k \in 1..n <=> k \in 1..(n - 1) \/ k = n
    OBVIOUS
  <2>9. c = result.candidates[n] /\ c.capability = CapAt(n)
    BY DEF c, CapAt
  <2>10. /\ \A i, j \in 1..N : acc.candidates[i].capability = acc.candidates[j].capability => i = j
         /\ \A i \in 1..N : acc.plans[i].index = i /\ \E k \in 1..(n - 1) : From(acc, i, k)
         /\ \A k \in 1..(n - 1) : Own(k) => \E i \in 1..N : acc.candidates[i].capability = CapAt(k)
    BY <1>10 DEF SelectedRight, N
  <2>11. \A i \in 1..N : acc.candidates[i].capability # CapAt(n)
    BY <1>4, <1>10 DEF N
  <2>12. From(more, N + 1, n)
    <3>1. IsFirst(n)
      BY <1>10, <2>10, <2>11 DEF IsFirst
    <3> QED
      BY <2>2, <2>3, <2>5, <2>9, <3>1 DEF From
  <2>13. ASSUME NEW i \in 1..N PROVE \E k \in 1..n : From(more, i, k)
    <3>1. PICK k \in 1..(n - 1) : From(acc, i, k)
      BY <2>10
    <3>2. From(more, i, k)
      BY <2>5, <3>1 DEF From
    <3> QED
      BY <2>8, <3>2
  <2>14. \A i \in 1..(N + 1) : more.plans[i].index = i /\ \E k \in 1..n : From(more, i, k)
    BY <2>3, <2>5, <2>7, <2>8, <2>10, <2>12, <2>13
  <2>15. \A i, j \in 1..(N + 1) :
           more.candidates[i].capability = more.candidates[j].capability => i = j
    <3> TAKE i, j \in 1..(N + 1)
    <3> HAVE more.candidates[i].capability = more.candidates[j].capability
    <3>1. CASE i \in 1..N /\ j \in 1..N
      BY <2>5, <2>10, <3>1
    <3>2. CASE i \in 1..N /\ j = N + 1
      BY <2>5, <2>9, <2>11, <3>2
    <3>3. CASE i = N + 1 /\ j \in 1..N
      BY <2>5, <2>9, <2>11, <3>3
    <3> QED
      BY <2>7, <3>1, <3>2, <3>3
  <2>16. ASSUME NEW k \in 1..n, Own(k)
         PROVE  \E i \in 1..(N + 1) : more.candidates[i].capability = CapAt(k)
    <3>1. CASE k = n
      BY <2>5, <2>7, <2>9, <3>1
    <3>2. CASE k \in 1..(n - 1)
      BY <2>5, <2>7, <2>10, <2>16, <3>2
    <3> QED
      BY <2>8, <3>1, <3>2
  <2>17. SelectedRight(n, more)
    BY <2>5, <2>14, <2>15, <2>16 DEF SelectedRight
  <2> QED
    BY <2>1, <2>17
<1> QED
  BY <1>7, <1>8, <1>9, <1>10

\* What is selected.
LEMMA SelectionKept ==
  ASSUME result \in Results
  PROVE  Selected \in Selections /\ SelectedRight(Len(result.candidates), Selected)
<1> DEFINE N == Len(result.candidates)
<1>1. PICK f : Computes(f, N, Selections, Nothing, SelectSteps) /\ Selected = f[N]
  BY SelectLoop
<1>2. N \in Nat
  BY DEF Results
<1>3. f[0] = Nothing /\ \A n \in 0..N : f[n] \in Selections
  BY <1>1 DEF Computes
<1>4. ASSUME NEW n \in 1..N
      PROVE  f[n - 1] \in Selections /\ f[n] = SelectNext(f[n - 1], n)
  <2>1. f[n - 1] \in Selections /\ f[n] = SelectSteps[n][f[n - 1]]
    <3> HIDE DEF N
    <3> QED
      BY <1>1, <1>2, Turning
  <2> QED
    BY <2>1 DEF SelectSteps
<1> DEFINE S == {n \in 0..N : SelectedRight(n, f[n])}
<1>5. 0 \in S
  <2>1. SelectedRight(0, Nothing)
    BY DEF SelectedRight, Nothing
  <2> QED
    BY <1>2, <1>3, <2>1
<1>6. ASSUME NEW n \in 1..N, n - 1 \in S PROVE n \in S
  <2>1. SelectedRight(n, SelectNext(f[n - 1], n))
    BY <1>4, <1>6, SelectTurnRight
  <2>2. n \in 0..N
    BY <1>2
  <2> QED
    BY <1>4, <2>1, <2>2
<1>7. \A n \in 0..N : n \in S
  <2> HIDE DEF S, N
  <2> QED
    BY <1>2, <1>5, <1>6, CountingUpTo
<1>8. N \in 0..N
  BY <1>2
<1>9. SelectedRight(N, f[N])
  BY <1>7, <1>8
<1> QED
  BY <1>1, <1>3, <1>8, <1>9

----------------------------------------------------------------------------
(* The invariant *)

\* A description that is left out was left out of a capability plan as well.
Described(c) == c.description # "" \/ \E n \in DOMAIN plans : plans[n].description = ""

\* The level of an execution is what its checks, and it has some, are worth.
Earned(v) == v.method = "execute" => v.checks # <<>> /\ v.level = Max({0} \cup Strengths(v))

\* What candidates and plans are like, by where they come from.
Good == {c \in Filleds : IF source = "live" THEN Described(c) ELSE ~Rejected(c)}
GoodPlans == {p \in ProbePlans : source # "replay" => Earned(p.verify)}
GoodDrafts == [candidate : Good, material : Seq(Materials)]
GoodFound == [candidate : Good, plan : GoodPlans]
GoodResults == [candidates : Seq(Good), plans : Seq(GoodPlans)]
NoResult == [candidates |-> <<>>, plans |-> <<>>]

DataOK ==
  /\ pc \in {"surface", "capability", "binding", "evidence", "replay", "rules", "select",
             "probe", "promote", "failed", "misfit", "rejected", "done"}
  /\ source \in {"live", "replay", "rules"}
  /\ surfaces \in Seq(Surfaces) /\ plans \in Seq(Plans)
  /\ at \in 1..(Len(plans) + 1)
  /\ drafts \in Seq(GoodDrafts) /\ pipeline \in Seq(GoodFound) /\ result \in GoodResults

\* What a stage finds when it is its turn.
StageInv ==
  /\ pc \in {"surface", "capability"} =>
       plans = <<>> /\ drafts = <<>> /\ pipeline = <<>> /\ result = NoResult
  /\ pc \in {"surface", "capability", "binding", "evidence"} => source = "live"
  /\ pc = "replay" => source = "replay"
  /\ pc = "rules" => source = "rules"
  /\ pc \in {"binding", "evidence"} => at <= Len(plans)
  /\ pc = "evidence" => Len(pipeline) < Len(drafts)
  /\ pc = "binding" => pipeline = <<>>

\* Plans are of different capabilities and rest on kept surfaces.
GroundInv ==
  /\ \A i, j \in 1..Len(plans) : plans[i].id = plans[j].id => i = j
  /\ \A i \in 1..Len(plans) : plans[i].sources # {} /\ plans[i].sources \subseteq SurfaceIds

\* What has passed probe is of the request's provider and could be probed.
ProbedInv ==
  /\ pc \notin {"promote", "rejected", "done"} => probed = {}
  /\ pc \in {"probe", "promote", "rejected", "done"} =>
       \A n \in 1..Len(result.candidates) : result.candidates[n].provider = Provider
  /\ \A n \in probed : n \in 1..Len(result.candidates) /\ Fits /\ MayPass(n)
  /\ pc = "rejected" => probed # {} /\ Rejected(result.candidates[FirstProbed])

\* What is promoted has a valid capability and a level it has earned.
PromotedInv == LevelEarned /\ \A p \in promoted : p.capability \in ValidIds

IInv == DataOK /\ StageInv /\ GroundInv /\ ProbedInv /\ PromotedInv

\* A list of a set has members of the set only.
LEMMA Members ==
  ASSUME NEW A, NEW s \in Seq(A)
  PROVE  \A n \in 1..Len(s) : n \in DOMAIN s /\ s[n] \in A /\ s[n] \in Range(s)
<1>1. ASSUME NEW n \in 1..Len(s) PROVE n \in DOMAIN s /\ s[n] \in A
  OBVIOUS
<1> QED
  BY <1>1 DEF Range

\* A list each of whose elements is in a set is a list of that set.
LEMMA AllIn ==
  ASSUME NEW A, NEW B, NEW s \in Seq(A), \A i \in 1..Len(s) : s[i] \in B
  PROVE  s \in Seq(B)
<1>1. s = [i \in 1..Len(s) |-> s[i]] /\ Len(s) \in Nat
  OBVIOUS
<1>2. s \in [1..Len(s) -> B]
  BY <1>1
<1> QED
  BY <1>1, <1>2, SeqDef

\* Good lists are lists.
LEMMA GoodLists ==
  ASSUME DataOK
  PROVE  /\ result \in Results
         /\ result.candidates \in Seq(Good) /\ result.plans \in Seq(GoodPlans)
         /\ Len(result.candidates) \in Nat /\ Len(result.plans) \in Nat
         /\ DOMAIN result.candidates = 1..Len(result.candidates)
         /\ DOMAIN result.plans = 1..Len(result.plans)
<1>1. result.candidates \in Seq(Good) /\ result.plans \in Seq(GoodPlans)
        /\ result = [candidates |-> result.candidates, plans |-> result.plans]
  BY DEF DataOK, GoodResults
<1>2. Good \subseteq Filleds /\ GoodPlans \subseteq ProbePlans
  BY DEF Good, GoodPlans
<1>3. result.candidates \in Seq(Filleds) /\ result.plans \in Seq(ProbePlans)
  BY <1>1, <1>2, SeqMonotonic
<1>4. result \in Results
  BY <1>1, <1>3 DEF Results
<1> QED
  BY <1>1, <1>3, <1>4

\* The levels checks are worth have a greatest one.
LEMMA Greatest ==
  ASSUME NEW v
  PROVE  /\ Strengths(v) \subseteq {1, 2, 3}
         /\ Max({0} \cup Strengths(v)) \in {0} \cup Strengths(v)
         /\ \A s \in Strengths(v) : s <= Max({0} \cup Strengths(v))
         /\ Strengths(v) # {} => Max({0} \cup Strengths(v)) \in Strengths(v)
<1> DEFINE S == Strengths(v)
<1>1. S \subseteq {1, 2, 3}
  BY DEF Strengths, Strength
<1> HIDE DEF S
<1>2. \E x \in {0} \cup S : \A y \in {0} \cup S : x >= y
  <2>1. CASE 3 \in S
    BY <1>1, <2>1
  <2>2. CASE 3 \notin S /\ 2 \in S
    BY <1>1, <2>2
  <2>3. CASE 3 \notin S /\ 2 \notin S /\ 1 \in S
    BY <1>1, <2>3
  <2>4. CASE S = {}
    BY <2>4
  <2> QED
    BY <1>1, <2>1, <2>2, <2>3, <2>4
<1>3. /\ Max({0} \cup S) \in {0} \cup S
      /\ \A y \in {0} \cup S : Max({0} \cup S) >= y
  BY <1>2 DEF Max
<1>4. \A s \in S : s <= Max({0} \cup S)
  BY <1>1, <1>3
<1>5. ASSUME S # {} PROVE Max({0} \cup S) \in S
  <2>1. PICK s \in S : s \in {1, 2, 3}
    BY <1>1, <1>5, Zenon
  <2>2. Max({0} \cup S) >= s
    BY <1>3, <2>1
  <2>3. Max({0} \cup S) # 0
    BY <1>1, <2>1, <2>2
  <2> QED
    BY <1>3, <2>3
<1> QED
  BY <1>1, <1>3, <1>4, <1>5 DEF S

\* Initially.
LEMMA InitInv == Init => IInv
<1> SUFFICES ASSUME Init PROVE IInv
  OBVIOUS
<1>1. DataOK
  BY DEF Init, DataOK, GoodResults
<1>2. StageInv
  BY DEF Init, StageInv, NoResult
<1>3. GroundInv
  BY DEF Init, GroundInv
<1>4. ProbedInv
  BY DEF Init, ProbedInv
<1>5. PromotedInv
  BY DEF Init, PromotedInv, LevelEarned
<1> QED
  BY <1>1, <1>2, <1>3, <1>4, <1>5 DEF IInv

\* What is good stays good while source and plans do not change.
LEMMA SameGood ==
  ASSUME UNCHANGED <<source, plans>>
  PROVE  Good' = Good /\ GoodPlans' = GoodPlans /\ GoodDrafts' = GoodDrafts
           /\ GoodFound' = GoodFound /\ GoodResults' = GoodResults
<1>1. Good' = Good
  BY DEF Good, Described
<1>2. GoodPlans' = GoodPlans
  BY DEF GoodPlans
<1> QED
  BY <1>1, <1>2 DEF GoodDrafts, GoodFound, GoodResults

\* A stage that fails ends the proposal.
LEMMA FailsInv ==
  ASSUME IInv, NEW answer, Fails(answer), probed = {}
  PROVE  IInv'
<1>1. UNCHANGED <<source, surfaces, plans, at, drafts, pipeline, result, probed, promoted>>
        /\ pc' = "failed"
  BY DEF Fails
<1>2. DataOK'
  BY <1>1, SameGood DEF IInv, DataOK
<1>3. StageInv'
  BY <1>1 DEF StageInv
<1>4. GroundInv'
  BY <1>1 DEF IInv, GroundInv, SurfaceIds
<1>5. ProbedInv'
  BY <1>1 DEF ProbedInv
<1>6. PromotedInv'
  BY <1>1 DEF IInv, PromotedInv, LevelEarned
<1> QED
  BY <1>2, <1>3, <1>4, <1>5, <1>6 DEF IInv
\* What a stage of the proposal leaves alone stays right.
LEMMA Frame ==
  ASSUME IInv, UNCHANGED <<source, surfaces, plans, probed, promoted>>, probed = {},
         pc' \notin {"probe", "promote", "rejected", "done"}
  PROVE  GroundInv' /\ ProbedInv' /\ PromotedInv'
<1>1. GroundInv'
  BY DEF IInv, GroundInv, SurfaceIds
<1>2. ProbedInv'
  BY DEF ProbedInv
<1>3. PromotedInv'
  BY DEF IInv, PromotedInv, LevelEarned
<1> QED
  BY <1>1, <1>2, <1>3

\* Before probe nothing has passed it.
LEMMA NotProbed ==
  ASSUME IInv, pc \notin {"promote", "rejected", "done"}
  PROVE  probed = {}
BY DEF IInv, ProbedInv

\* The surface stage fails, or keeps what it sifts of surfaces.
LEMMA SurfaceStep ==
  ASSUME NEW answer \in SurfaceAnswers \cup {NoAnswer}, Surface(answer)
  PROVE  /\ pc = "surface"
         /\ \/ \E items : Fails(items)
            \/ /\ raw' \in Seq(Surfaces) /\ surfaces' = Sift(raw', KeepsSurface)
               /\ pc' = "capability"
               /\ UNCHANGED <<source, plans, at, drafts, pipeline, result, probed, promoted>>
<1> DEFINE items == [n \in DOMAIN answer |-> Normalized(answer[n])]
<1>1. ASSUME answer # NoAnswer PROVE items \in Seq(Surfaces)
  <2>1. answer \in Seq(RawSurfaces)
    BY <1>1, ScreeningAssumption
  <2>2. DOMAIN answer = 1..Len(answer) /\ Len(answer) \in Nat
    BY <2>1
  <2>3. ASSUME NEW n \in 1..Len(answer) PROVE Normalized(answer[n]) \in Surfaces
    <3>1. answer[n] \in RawSurfaces
      BY <2>1
    <3>2. \A item \in RawSurfaces : Normalized(item) \in Surfaces
      BY DEF RawSurfaces, Surfaces, Texts, Normalized
    <3> QED
      BY <3>1, <3>2
  <2>4. items \in [1..Len(answer) -> Surfaces]
    BY <2>2, <2>3
  <2> HIDE DEF items
  <2> QED
    BY <2>2, <2>4, Listed
<1> QED
  BY <1>1 DEF Surface

\* Surface.
LEMMA SurfaceInv ==
  ASSUME IInv, NEW answer \in SurfaceAnswers \cup {NoAnswer}, Surface(answer)
  PROVE  IInv'
<1>1. pc = "surface" /\ probed = {}
  BY SurfaceStep, NotProbed
<1>2. CASE \E items : Fails(items)
  BY <1>1, <1>2, FailsInv
<1>3. CASE /\ raw' \in Seq(Surfaces) /\ surfaces' = Sift(raw', KeepsSurface)
           /\ pc' = "capability"
           /\ UNCHANGED <<source, plans, at, drafts, pipeline, result, probed, promoted>>
  <2>1. surfaces' \in Seq(Surfaces)
    BY <1>3, SurfacesKept
  <2>2. DataOK'
    BY <1>3, <2>1, SameGood DEF IInv, DataOK
  <2>3. StageInv'
    BY <1>1, <1>3 DEF IInv, StageInv, NoResult
  <2>4. GroundInv'
    <3>1. plans' = <<>>
      BY <1>1, <1>3 DEF IInv, StageInv
    <3> QED
      BY <3>1 DEF GroundInv
  <2>5. ProbedInv'
    BY <1>1, <1>3 DEF ProbedInv
  <2>6. PromotedInv'
    BY <1>3 DEF IInv, PromotedInv, LevelEarned
  <2> QED
    BY <2>2, <2>3, <2>4, <2>5, <2>6 DEF IInv
<1> QED
  BY <1>2, <1>3, SurfaceStep

\* The capability stage fails, or keeps what it plans.
LEMMA CapabilityStep ==
  ASSUME NEW answer \in CapabilityAnswers \cup {NoAnswer}, Capability(answer)
  PROVE  /\ pc = "capability"
         /\ \/ \E given : Fails(given)
            \/ /\ raw' \in Seq(RawPlans) /\ plans' = Planned(raw') /\ plans' # <<>>
               /\ pc' = "binding"
               /\ UNCHANGED <<source, surfaces, at, drafts, pipeline, result, probed, promoted>>
<1>1. answer # NoAnswer => answer \in Seq(RawPlans)
  BY ScreeningAssumption
<1> QED
  BY <1>1 DEF Capability

\* What is cited are surfaces that were kept.
LEMMA CitedKept ==
  ASSUME NEW answer, NEW n, NEW id
  PROVE  Cited(answer, n, id) \subseteq SurfaceIds
BY DEF Cited, Citing

\* Capability.
LEMMA CapabilityInv ==
  ASSUME IInv, NEW answer \in CapabilityAnswers \cup {NoAnswer}, Capability(answer)
  PROVE  IInv'
<1>1. pc = "capability" /\ probed = {}
  BY CapabilityStep, NotProbed
<1>2. CASE \E given : Fails(given)
  BY <1>1, <1>2, FailsInv
<1>3. CASE /\ raw' \in Seq(RawPlans) /\ plans' = Planned(raw') /\ plans' # <<>>
           /\ pc' = "binding"
           /\ UNCHANGED <<source, surfaces, at, drafts, pipeline, result, probed, promoted>>
  <2>1. plans' \in Seq(Plans) /\ PlannedRight(raw', Len(raw'), plans')
    BY <1>3, PlansKept
  <2>2. drafts' = <<>> /\ pipeline' = <<>> /\ result' = NoResult /\ at' = at /\ plans = <<>>
    BY <1>1, <1>3 DEF IInv, StageInv
  <2>3. at = 1 /\ Len(plans') \in Nat /\ Len(plans') > 0
    <3>1. at = 1
      BY <2>2 DEF IInv, DataOK
    <3> QED
      BY <1>3, <2>1, <3>1
  <2>4. DataOK'
    <3>1. drafts' \in Seq(GoodDrafts') /\ pipeline' \in Seq(GoodFound')
      BY <2>2
    <3>2. result' \in GoodResults'
      BY <2>2 DEF GoodResults, NoResult
    <3>3. at' \in 1..(Len(plans') + 1) /\ surfaces' \in Seq(Surfaces) /\ source' \in {"live", "replay", "rules"}
      BY <1>3, <2>2, <2>3 DEF IInv, DataOK
    <3> QED
      BY <1>3, <2>1, <3>1, <3>2, <3>3 DEF DataOK
  <2>5. StageInv'
    <3>1. source' = "live"
      BY <1>1, <1>3 DEF IInv, StageInv
    <3> QED
      BY <1>3, <2>2, <2>3, <3>1 DEF StageInv
  <2>6. GroundInv'
    <3>1. SurfaceIds' = SurfaceIds
      BY <1>3 DEF SurfaceIds
    <3> QED
      BY <2>1, <3>1, CitedKept DEF GroundInv, PlannedRight
  <2>7. ProbedInv'
    BY <1>1, <1>3 DEF ProbedInv
  <2>8. PromotedInv'
    BY <1>3 DEF IInv, PromotedInv, LevelEarned
  <2> QED
    BY <2>4, <2>5, <2>6, <2>7, <2>8 DEF IInv
<1> QED
  BY <1>2, <1>3, CapabilityStep

----------------------------------------------------------------------------
(* The pipelines *)

\* A pipeline ends with what it has found, or with nothing.
LEMMA EndInv ==
  ASSUME IInv, pc \in {"binding", "evidence"}, NEW found \in Seq(GoodFound), EndPipeline(found),
         UNCHANGED <<source, surfaces, plans, probed, promoted>>
  PROVE  IInv'
<1>1. probed = {} /\ source = "live" /\ at <= Len(plans)
  BY NotProbed DEF IInv, StageInv
<1>2. /\ plans \in Seq(Plans) /\ surfaces \in Seq(Surfaces) /\ at \in 1..(Len(plans) + 1)
      /\ Len(plans) \in Nat
  BY DEF IInv, DataOK
<1>3. at' = at + 1 /\ drafts' = <<>> /\ pipeline' = <<>>
        /\ pc' = IF at < Len(plans) THEN "binding" ELSE "select"
  BY DEF EndPipeline
<1>4. result' \in GoodResults
  <2> DEFINE k == Len(found)
             offset == Len(result.candidates)
             cs == [n \in DOMAIN found |-> found[n].candidate]
             ps == [n \in DOMAIN found |-> [found[n].plan EXCEPT !.index = offset + n]]
  <2>1. result' = [candidates |-> result.candidates \o cs, plans |-> result.plans \o ps]
    BY DEF EndPipeline
  <2>2. k \in Nat /\ DOMAIN found = 1..k
    OBVIOUS
  <2>3. result.candidates \in Seq(Good) /\ result.plans \in Seq(GoodPlans) /\ offset \in Nat
    BY GoodLists DEF IInv
  <2>4. ASSUME NEW n \in 1..k
        PROVE  /\ found[n].candidate \in Good
               /\ [found[n].plan EXCEPT !.index = offset + n] \in GoodPlans
    <3>1. found[n] \in GoodFound
      OBVIOUS
    <3>2. found[n].candidate \in Good /\ found[n].plan \in GoodPlans
      BY <3>1 DEF GoodFound
    <3>3. \A p \in GoodPlans, i \in Int : [p EXCEPT !.index = i] \in GoodPlans
      BY DEF GoodPlans, ProbePlans
    <3>4. offset + n \in Int
      BY <2>3
    <3> QED
      BY <3>2, <3>3, <3>4
  <2>5. cs \in [1..k -> Good] /\ ps \in [1..k -> GoodPlans]
    BY <2>2, <2>4
  <2> HIDE DEF cs, ps, k
  <2>6. cs \in Seq(Good) /\ ps \in Seq(GoodPlans)
    BY <2>2, <2>5, Listed
  <2> QED
    BY <2>1, <2>3, <2>6 DEF GoodResults
<1>5. DataOK'
  <2>1. drafts' \in Seq(GoodDrafts') /\ pipeline' \in Seq(GoodFound')
    BY <1>3
  <2>2. result' \in GoodResults'
    BY <1>4, SameGood
  <2>3. at' \in 1..(Len(plans') + 1)
    BY <1>1, <1>2, <1>3
  <2> QED
    BY <1>1, <1>2, <1>3, <2>1, <2>2, <2>3 DEF DataOK
<1>6. StageInv'
  BY <1>1, <1>2, <1>3 DEF StageInv
<1>7. GroundInv' /\ ProbedInv' /\ PromotedInv'
  BY <1>1, <1>3, Frame
<1> QED
  BY <1>5, <1>6, <1>7 DEF IInv

\* What a candidate becomes with another provider, capability and description.
LEMMA Refilled ==
  ASSUME NEW c \in Candidates, NEW p, NEW q, NEW d, NEW f,
         f = [c EXCEPT !.provider = p, !.capability = q, !.description = d]
  PROVE  f = [provider |-> p, capability |-> q, description |-> d,
              kind |-> c.kind, args |-> c.args, stdout |-> c.stdout]
BY Zenon DEF Candidates

\* What is filled in is a candidate whose description is given somewhere.
LEMMA FilledGood ==
  ASSUME IInv, pc = "binding", NEW c \in Candidates
  PROVE  Filled(c) \in Good
<1>1. source = "live" /\ plans \in Seq(Plans) /\ at \in 1..Len(plans)
  BY DEF IInv, DataOK, StageInv
<1>2. plans[at] \in Plans
  BY <1>1
<1>3. plans[at].id \in STRING /\ plans[at].description \in STRING /\ Provider \in STRING
  BY <1>2, ScreeningAssumption DEF Plans
<1> DEFINE p == IF c.provider = "" THEN Provider ELSE c.provider
           q == IF c.capability = "" THEN plans[at].id ELSE c.capability
           d == IF c.description = "" THEN plans[at].description ELSE c.description
<1>4. Filled(c) = [c EXCEPT !.provider = p, !.capability = q, !.description = d]
  BY Zenon DEF Filled
<1>5. /\ c.provider \in STRING /\ c.capability \in STRING /\ c.description \in STRING
      /\ c.kind \in STRING /\ c.args \in STRING /\ c.stdout \in STRING
  BY DEF Candidates
<1>6. p \in STRING /\ q \in STRING /\ d \in STRING
  BY <1>3, <1>5
<1>7. d # "" \/ plans[at].description = ""
  OBVIOUS
<1> HIDE DEF p, q, d
<1>8. Filled(c) = [provider |-> p, capability |-> q, description |-> d,
                   kind |-> c.kind, args |-> c.args, stdout |-> c.stdout]
  BY <1>4, Refilled
<1>9. Filled(c) \in Filleds
  <2>1. d \in Texts /\ c.kind \in Texts /\ c.stdout \in Texts
    BY <1>5, <1>6 DEF Texts
  <2>2. \A e, g, h \in STRING, k, o, t \in Texts :
          [provider |-> e, capability |-> g, description |-> t,
           kind |-> k, args |-> h, stdout |-> o] \in Filleds
    BY DEF Filleds
  <2>3. [provider |-> p, capability |-> q, description |-> d,
         kind |-> c.kind, args |-> c.args, stdout |-> c.stdout] \in Filleds
    BY <1>5, <1>6, <2>1, <2>2
  <2> QED
    BY <1>8, <2>3
<1>10. Described(Filled(c))
  <2>1. DOMAIN plans = 1..Len(plans)
    BY <1>1
  <2>2. Filled(c).description = d
    BY <1>8
  <2> QED
    BY <1>1, <1>7, <2>1, <2>2 DEF Described
<1> QED
  BY <1>1, <1>9, <1>10 DEF Good

\* Binding keeps good candidates with their material.
LEMMA DraftsKept ==
  ASSUME IInv, pc = "binding", NEW answer \in BindingAnswers
  PROVE  Sift([n \in DOMAIN answer.candidates |->
                 [candidate |-> Filled(answer.candidates[n]),
                  material |-> MaterialOf(answer.materials, n)]], KeepsDraft) \in Seq(GoodDrafts)
<1> DEFINE raws == [n \in DOMAIN answer.candidates |->
                      [candidate |-> Filled(answer.candidates[n]),
                       material |-> MaterialOf(answer.materials, n)]]
           N == Len(answer.candidates)
<1>1. answer.candidates \in Seq(Candidates) /\ answer.materials \in Seq(Materials)
  BY ScreeningAssumption
<1>2. N \in Nat /\ DOMAIN answer.candidates = 1..N
  BY <1>1
<1>3. ASSUME NEW n \in 1..N
      PROVE  [candidate |-> Filled(answer.candidates[n]),
              material |-> MaterialOf(answer.materials, n)] \in GoodDrafts
  <2>1. Filled(answer.candidates[n]) \in Good
    BY <1>1, FilledGood
  <2>2. MaterialOf(answer.materials, n) \in Seq(Materials)
    <3> DEFINE places == {m \in DOMAIN answer.materials : answer.materials[m].index = n}
               R == {answer.materials[m] : m \in places \cap (1..Len(answer.materials))}
    <3>1. Only(answer.materials, places) \in Seq(R)
      BY <1>1, OnlyKeeps
    <3>2. R \subseteq Materials
      BY <1>1
    <3>3. MaterialOf(answer.materials, n) = Only(answer.materials, places)
      BY DEF MaterialOf
    <3> HIDE DEF R
    <3> QED
      BY <3>1, <3>2, <3>3, SeqMonotonic
  <2> QED
    BY <2>1, <2>2 DEF GoodDrafts
<1>4. raws \in Seq(GoodDrafts) /\ Len(raws) = N
  <2>1. raws \in [1..N -> GoodDrafts]
    BY <1>2, <1>3
  <2> HIDE DEF raws
  <2> QED
    BY <1>2, <2>1, Listed
<1> HIDE DEF raws
<1>5. PICK f : /\ Computes(f, Len(raws), Seq(GoodDrafts), <<>>, DraftSteps(GoodDrafts, raws))
               /\ Sift(raws, KeepsDraft) = f[Len(raws)]
  BY <1>4, DraftLoop
<1>6. f \in [0..Len(raws) -> Seq(GoodDrafts)]
  BY <1>5 DEF Computes
<1>7. Sift(raws, KeepsDraft) \in Seq(GoodDrafts)
  BY <1>2, <1>4, <1>5, <1>6
<1> QED
  BY <1>7 DEF raws

\* Binding.
LEMMA BindingInv ==
  ASSUME IInv, NEW answer \in BindingAnswers \cup {NoAnswer}, Binding(answer)
  PROVE  IInv'
<1> DEFINE raws == [n \in DOMAIN answer.candidates |->
                      [candidate |-> Filled(answer.candidates[n]),
                       material |-> MaterialOf(answer.materials, n)]]
           kept == IF answer = NoAnswer THEN <<>> ELSE Sift(raws, KeepsDraft)
<1>1. pc = "binding" /\ UNCHANGED <<source, surfaces, plans, probed, promoted>> /\ probed = {}
  BY NotProbed DEF Binding
<1>2. \/ EndPipeline(<<>>)
      \/ kept # <<>> /\ drafts' = kept /\ pc' = "evidence" /\ UNCHANGED <<at, pipeline, result>>
  BY DEF Binding
<1>3. kept \in Seq(GoodDrafts)
  BY <1>1, DraftsKept
<1> HIDE DEF kept
<1>4. CASE EndPipeline(<<>>)
  <2>1. <<>> \in Seq(GoodFound)
    OBVIOUS
  <2> QED
    BY <1>1, <1>4, <2>1, EndInv
<1>5. CASE kept # <<>> /\ drafts' = kept /\ pc' = "evidence" /\ UNCHANGED <<at, pipeline, result>>
  <2>1. DataOK'
    BY <1>1, <1>3, <1>5, SameGood DEF IInv, DataOK
  <2>2. StageInv'
    <3>1. pipeline = <<>>
      BY <1>1 DEF IInv, StageInv
    <3>2. Len(pipeline') < Len(drafts')
      BY <1>3, <1>5, <3>1
    <3> QED
      BY <1>1, <1>5, <3>2 DEF IInv, StageInv
  <2>3. GroundInv' /\ ProbedInv' /\ PromotedInv'
    BY <1>1, <1>5, Frame
  <2> QED
    BY <2>1, <2>2, <2>3 DEF IInv
<1> QED
  BY <1>2, <1>4, <1>5

\* What a verification becomes with another method and other checks.
LEMMA Changed ==
  ASSUME NEW v \in Verifies, NEW m, NEW c, NEW w, w = [v EXCEPT !.method = m, !.checks = c]
  PROVE  w = [level |-> v.level, method |-> m, checks |-> c]
BY Zenon DEF Verifies

\* What evidence makes of an answer is a verification, and earned.
LEMMA VerifyGood ==
  ASSUME NEW answer \in EvidenceAnswers, NEW known,
         NEW v, v = Verify(answer, known), ~(v.method = "execute" /\ v.checks = <<>>)
  PROVE  v \in Verifies /\ Earned(v)
<1> DEFINE mth == IF answer.method = "" THEN "execute" ELSE answer.method
           cks == ChecksKept(answer.checks, known)
           kept == [answer EXCEPT !.method = mth, !.checks = cks]
<1>1. answer \in Verifies
  BY VerifyTypes
<1>2. answer.checks \in Seq(AllChecks) /\ answer.level \in Int /\ mth \in Texts
  BY <1>1 DEF Verifies, Texts
<1>3. cks \in Seq(AllChecks)
  <2> DEFINE places == {n \in DOMAIN answer.checks : EvidenceKeeps(answer.checks[n], known)}
             R == {answer.checks[n] : n \in places \cap (1..Len(answer.checks))}
  <2>1. Only(answer.checks, places) \in Seq(R)
    BY <1>2, OnlyKeeps
  <2>2. R \subseteq AllChecks
    <3>1. \A n \in 1..Len(answer.checks) : answer.checks[n] \in AllChecks
      BY <1>2, Members
    <3> HIDE DEF places
    <3> QED
      BY <3>1
  <2>3. cks = Only(answer.checks, places)
    BY DEF ChecksKept
  <2> HIDE DEF R
  <2> QED
    BY <2>1, <2>2, <2>3, SeqMonotonic
<1>4. v = [kept EXCEPT !.level = DeriveLevel(kept)]
  BY Zenon DEF Verify
<1> HIDE DEF mth, cks
<1>5. kept = [level |-> answer.level, method |-> mth, checks |-> cks]
  BY <1>1, Changed
<1> HIDE DEF kept
<1>6. v = [level |-> DeriveLevel(kept), method |-> mth, checks |-> cks]
  BY <1>4, <1>5
<1>7. Strengths(v) = Strengths(kept)
  BY <1>5, <1>6 DEF Strengths
<1>8. DeriveLevel(kept) \in Int
  <2>1. Max({0} \cup Strengths(kept)) \in {0, 1, 2, 3}
    <3>1. /\ Strengths(kept) \subseteq {1, 2, 3}
          /\ Max({0} \cup Strengths(kept)) \in {0} \cup Strengths(kept)
      BY Greatest
    <3> QED
      BY <3>1, Zenon
  <2>2. kept.level \in Int
    BY <1>2, <1>5
  <2> QED
    BY <2>1, <2>2 DEF DeriveLevel
<1>9. v \in Verifies
  BY <1>2, <1>3, <1>6, <1>8 DEF Verifies
<1>10. v.method = "execute" => v.level = Max({0} \cup Strengths(v))
  <2>1. v.method = kept.method /\ v.level = DeriveLevel(kept)
    BY <1>5, <1>6
  <2> QED
    BY <1>7, <2>1 DEF DeriveLevel
<1> QED
  BY <1>9, <1>10 DEF Earned

\* Evidence.
LEMMA EvidenceInv ==
  ASSUME IInv, NEW answer \in EvidenceAnswers \cup {NoAnswer}, Evidence(answer)
  PROVE  IInv'
<1> DEFINE draft == drafts[Len(pipeline) + 1]
           material == draft.material[1]
           verify == Verify(answer, material.inputs \cup material.fixtures)
           found == Append(pipeline,
                      [candidate |-> draft.candidate,
                       plan |-> [index |-> Len(pipeline) + 1, verify |-> verify]])
<1>1. pc = "evidence" /\ UNCHANGED <<source, surfaces, plans, probed, promoted>> /\ probed = {}
  BY NotProbed DEF Evidence
<1>2. \/ EndPipeline(<<>>)
      \/ /\ answer # NoAnswer /\ ~(verify.method = "execute" /\ verify.checks = <<>>)
         /\ \/ EndPipeline(found)
            \/ /\ Len(found) # Len(drafts)
               /\ pipeline' = found /\ UNCHANGED <<pc, at, drafts, result>>
  BY DEF Evidence
<1>3. CASE EndPipeline(<<>>)
  <2>1. <<>> \in Seq(GoodFound)
    OBVIOUS
  <2> QED
    BY <1>1, <1>3, <2>1, EndInv
<1>4. ASSUME answer # NoAnswer, ~(verify.method = "execute" /\ verify.checks = <<>>)
      PROVE  found \in Seq(GoodFound) /\ Len(found) = Len(pipeline) + 1
  <2>1. /\ pipeline \in Seq(GoodFound) /\ drafts \in Seq(GoodDrafts)
        /\ Len(pipeline) \in Nat /\ Len(drafts) \in Nat
    BY DEF IInv, DataOK
  <2>2. Len(pipeline) + 1 \in 1..Len(drafts)
    BY <1>1, <2>1 DEF IInv, StageInv
  <2>3. draft \in GoodDrafts
    BY <2>1, <2>2
  <2>4. draft.candidate \in Good
    BY <2>3 DEF GoodDrafts
  <2>5. verify \in Verifies /\ Earned(verify)
    BY <1>4, VerifyGood
  <2> HIDE DEF draft, verify
  <2>6. [index |-> Len(pipeline) + 1, verify |-> verify] \in GoodPlans
    BY <2>1, <2>5 DEF GoodPlans, ProbePlans
  <2>7. [candidate |-> draft.candidate,
         plan |-> [index |-> Len(pipeline) + 1, verify |-> verify]] \in GoodFound
    BY <2>4, <2>6 DEF GoodFound
  <2> QED
    BY <2>1, <2>7, AppendProperties
<1> HIDE DEF found, verify
<1>5. CASE answer # NoAnswer /\ ~(verify.method = "execute" /\ verify.checks = <<>>)
             /\ EndPipeline(found)
  BY <1>1, <1>4, <1>5, EndInv
<1>6. CASE /\ answer # NoAnswer /\ ~(verify.method = "execute" /\ verify.checks = <<>>)
           /\ Len(found) # Len(drafts)
           /\ pipeline' = found /\ UNCHANGED <<pc, at, drafts, result>>
  <2>1. DataOK'
    BY <1>1, <1>4, <1>6, SameGood DEF IInv, DataOK
  <2>2. StageInv'
    <3>1. /\ Len(pipeline) \in Nat /\ Len(drafts) \in Nat /\ Len(pipeline) < Len(drafts)
          /\ source = "live" /\ at <= Len(plans)
      BY <1>1 DEF IInv, DataOK, StageInv
    <3>2. Len(pipeline') < Len(drafts')
      BY <1>4, <1>6, <3>1
    <3> QED
      BY <1>1, <1>6, <3>1, <3>2 DEF StageInv
  <2>3. GroundInv' /\ ProbedInv' /\ PromotedInv'
    BY <1>1, <1>6, Frame
  <2> QED
    BY <2>1, <2>2, <2>3 DEF IInv
<1> QED
  BY <1>2, <1>3, <1>5, <1>6

----------------------------------------------------------------------------
(* Replay files and rules *)

\* A result from elsewhere is good if its candidates and plans are.
LEMMA GivenInv ==
  ASSUME IInv, pc \in {"replay", "rules"}, pc' = "select",
         UNCHANGED <<source, surfaces, plans, at, drafts, pipeline, probed, promoted>>,
         NEW cs \in Seq(Good), NEW ps \in Seq(GoodPlans),
         result' = [candidates |-> cs, plans |-> ps]
  PROVE  IInv'
<1>1. result' \in GoodResults
  BY DEF GoodResults
<1>2. DataOK'
  BY <1>1, SameGood DEF IInv, DataOK
<1>3. StageInv'
  BY DEF StageInv
<1>4. GroundInv' /\ ProbedInv' /\ PromotedInv'
  BY NotProbed, Frame
<1> QED
  BY <1>2, <1>3, <1>4 DEF IInv

\* Replay.
LEMMA ReplayInv ==
  ASSUME IInv, NEW file \in ReplayFiles, Replay(file)
  PROVE  IInv'
<1> DEFINE N == Len(file.candidates)
           cs == [n \in DOMAIN file.candidates |->
                    [file.candidates[n] EXCEPT !.provider = Provider]]
<1>1. pc = "replay" /\ probed = {} /\ source = "replay"
  BY NotProbed DEF Replay, IInv, StageInv
<1>2. \/ Fails(file)
      \/ /\ Readable(file)
         /\ result' = [candidates |-> cs, plans |-> file.plans]
         /\ pc' = "select" /\ raw' = file
         /\ UNCHANGED <<source, surfaces, plans, at, drafts, pipeline, probed, promoted>>
  BY DEF Replay
<1>3. file.candidates \in Seq(Candidates) /\ N \in Nat /\ DOMAIN file.candidates = 1..N
  <2>1. file.candidates \in Seq(Candidates)
    BY ScreeningAssumption
  <2> QED
    BY <2>1
<1>4. file.plans \in Seq(GoodPlans)
  <2>1. GoodPlans = ProbePlans
    BY <1>1 DEF GoodPlans
  <2> QED
    BY <2>1, VerifyTypes
<1>5. ASSUME Readable(file) PROVE cs \in Seq(Good)
  <2>1. ASSUME NEW n \in 1..N PROVE [file.candidates[n] EXCEPT !.provider = Provider] \in Good
    <3> DEFINE c == file.candidates[n]
    <3>1. c \in Candidates /\ c \in Range(file.candidates)
      BY <1>3 DEF Range
    <3>2. c.capability \in ValidIds /\ c.description # "" /\ c.kind \in Kinds
      BY <1>5, <3>1 DEF Readable
    <3> HIDE DEF c
    <3>3. [c EXCEPT !.provider = Provider]
            = [provider |-> Provider, capability |-> c.capability, description |-> c.description,
               kind |-> c.kind, args |-> c.args, stdout |-> c.stdout]
      BY <3>1 DEF Candidates
    <3>4. Provider \in STRING /\ Provider # ""
      BY ScreeningAssumption
    <3>5. [c EXCEPT !.provider = Provider] \in Filleds
      BY <3>1, <3>3, <3>4 DEF Candidates, Filleds, Texts
    <3>6. ~Rejected([c EXCEPT !.provider = Provider])
      BY <3>2, <3>3, <3>4 DEF Rejected
    <3>7. [c EXCEPT !.provider = Provider] \in Good
      BY <1>1, <3>5, <3>6 DEF Good
    <3> QED
      BY <3>7 DEF c
  <2>2. cs \in [1..N -> Good]
    BY <1>3, <2>1
  <2> HIDE DEF cs
  <2> QED
    BY <1>3, <2>2, Listed
<1> HIDE DEF cs
<1> QED
  BY <1>1, <1>2, <1>4, <1>5, FailsInv, GivenInv

\* Rules.
LEMMA RulesInv ==
  ASSUME IInv, NEW texts \in Observations, Rules(texts)
  PROVE  IInv'
<1> DEFINE places == {n \in DOMAIN texts : Shown(texts[n]) # ""}
           shown == Only(texts, places)
           R == {texts[n] : n \in places \cap (1..Len(texts))}
           N == Len(shown)
           cs == [n \in DOMAIN shown |-> RulesCandidate(shown[n])]
           ps == [n \in DOMAIN shown |-> [index |-> n, verify |-> RulesVerify]]
<1>1. pc = "rules" /\ probed = {} /\ source = "rules"
  BY NotProbed DEF Rules, IInv, StageInv
<1>2. \/ Fails(texts)
      \/ /\ \A text \in Range(texts) : ~Misleads(text)
         /\ result' = [candidates |-> cs, plans |-> ps]
         /\ pc' = "select"
         /\ UNCHANGED <<source, surfaces, plans, at, drafts, pipeline, probed, promoted>>
  BY DEF Rules
<1>3. texts \in Seq(HelpTexts) /\ DOMAIN texts = 1..Len(texts)
  <2>1. texts \in Seq(HelpTexts)
    BY ScreeningAssumption
  <2> QED
    BY <2>1
<1>4. shown \in Seq(R) /\ N \in Nat /\ DOMAIN shown = 1..N
  <2>1. shown \in Seq(R)
    BY <1>3, OnlyKeeps
  <2> HIDE DEF shown, R
  <2> QED
    BY <2>1
<1>5. ASSUME NEW text \in R, \A t \in Range(texts) : ~Misleads(t)
      PROVE  RulesCandidate(text) \in Good
  <2>1. text \in HelpTexts /\ text \in Range(texts) /\ Shown(text) # ""
    <3>1. PICK n \in places \cap (1..Len(texts)) : text = texts[n]
      OBVIOUS
    <3>2. n \in DOMAIN texts /\ Shown(texts[n]) # ""
      BY <1>3
    <3>3. texts[n] \in HelpTexts /\ texts[n] \in Range(texts)
      BY <1>3, Members
    <3> QED
      BY <3>1, <3>2, <3>3
  <2>2. Shown(text) \in ValidIds
    <3>1. ~Misleads(text)
      BY <1>5, <2>1
    <3> QED
      BY <2>1, <3>1 DEF Shown, Misleads, HelpTexts
  <2>3. /\ Provider \in STRING /\ Provider # "" /\ Shown(text) \in STRING
        /\ text.args \in STRING
    BY <2>1, <2>2, ScreeningAssumption DEF HelpTexts
  <2>4. RulesCandidate(text) \in Filleds
    <3>1. \A a, b, c \in STRING, r, k, o \in Texts :
            [provider |-> a, capability |-> b, description |-> r, kind |-> k,
             args |-> c, stdout |-> o] \in Filleds
      BY DEF Filleds
    <3>2. "rules" \in Texts /\ "cli" \in Texts /\ "" \in Texts
      BY DEF Texts
    <3> QED
      BY <2>3, <3>1, <3>2, Zenon DEF RulesCandidate
  <2>5. ~Rejected(RulesCandidate(text))
    BY <2>2, <2>3 DEF Rejected, RulesCandidate, Kinds
  <2> QED
    BY <1>1, <2>4, <2>5 DEF Good
<1>6. ASSUME \A t \in Range(texts) : ~Misleads(t) PROVE cs \in Seq(Good)
  <2> HIDE DEF shown, R
  <2>1. \A n \in 1..N : RulesCandidate(shown[n]) \in Good
    BY <1>4, <1>5, <1>6
  <2>2. cs \in [1..N -> Good]
    BY <1>4, <2>1
  <2> HIDE DEF cs
  <2> QED
    BY <1>4, <2>2, Listed
<1>7. Earned(RulesVerify)
  <2>1. RulesVerify.checks # <<>> /\ RulesVerify.level = 2
    BY DEF RulesVerify
  <2>2. Strengths(RulesVerify) = {2}
    BY DEF Strengths, Strength, RulesVerify
  <2>3. Max({0} \cup Strengths(RulesVerify)) = 2
    <3>1. Max({0} \cup Strengths(RulesVerify)) \in {0} \cup {2}
            /\ 2 <= Max({0} \cup Strengths(RulesVerify))
      BY <2>2, Greatest
    <3> QED
      BY <3>1
  <2> QED
    BY <2>1, <2>3 DEF Earned
<1>8. ps \in Seq(GoodPlans)
  <2> HIDE DEF shown
  <2>1. \A n \in 1..N : [index |-> n, verify |-> RulesVerify] \in GoodPlans
    <3>1. RulesVerify \in Verifies
      BY VerifyTypes
    <3> QED
      BY <1>7, <3>1 DEF GoodPlans, ProbePlans
  <2>2. ps \in [1..N -> GoodPlans]
    BY <1>4, <2>1
  <2> HIDE DEF ps, N
  <2> QED
    BY <1>4, <2>2, Listed
<1> HIDE DEF cs, ps
<1> QED
  BY <1>1, <1>2, <1>6, <1>8, FailsInv, GivenInv

----------------------------------------------------------------------------
(* Select, probe and promote *)

\* Selection fails, or gives probe what it has selected.
LEMMA SelectStep ==
  ASSUME IInv, Select
  PROVE  /\ pc = "select" /\ probed = {} /\ result \in Results
         /\ \/ Fails(raw)
            \/ /\ ~Selected.error /\ ~Misfit /\ pc' = "probe" /\ raw' = result
               /\ result' = [candidates |-> Selected.candidates, plans |-> Selected.plans]
               /\ source # "live" => Selected.candidates # <<>>
               /\ UNCHANGED <<source, surfaces, plans, at, drafts, pipeline, probed, promoted>>
<1>1. pc = "select"
  BY DEF Select
<1> QED
  BY <1>1, NotProbed, GoodLists DEF Select, IInv

\* What is selected comes from somewhere.
LEMMA SelectedFrom ==
  ASSUME result \in Results
  PROVE  /\ Len(Selected.candidates) \in Nat /\ Len(Selected.plans) = Len(Selected.candidates)
         /\ \A i \in 1..Len(Selected.candidates) :
              /\ Selected.plans[i].index = i
              /\ \E m \in 1..Len(result.candidates), k \in 1..Len(result.plans) :
                   /\ IsFirst(m) /\ Selected.candidates[i] = result.candidates[m]
                   /\ result.plans[k].index = m
                   /\ Selected.plans[i].verify = result.plans[k].verify
<1>1. Selected \in Selections /\ SelectedRight(Len(result.candidates), Selected)
  BY SelectionKept
<1>2. Len(Selected.candidates) \in Nat /\ Len(Selected.plans) = Len(Selected.candidates)
  BY <1>1 DEF Selections, SelectedRight
<1>3. DOMAIN result.plans = 1..Len(result.plans)
  BY DEF Results
<1>4. ASSUME NEW i \in 1..Len(Selected.candidates)
      PROVE  /\ Selected.plans[i].index = i
             /\ \E m \in 1..Len(result.candidates), k \in 1..Len(result.plans) :
                  /\ IsFirst(m) /\ Selected.candidates[i] = result.candidates[m]
                  /\ result.plans[k].index = m
                  /\ Selected.plans[i].verify = result.plans[k].verify
  <2>1. PICK m \in 1..Len(result.candidates) : From(Selected, i, m)
    BY <1>1 DEF SelectedRight
  <2>2. IsFirst(m) /\ Selected.candidates[i] = result.candidates[m]
    BY <2>1 DEF From
  <2>3. PICK k \in PlanFor(m) : Selected.plans[i].verify = result.plans[k].verify
    BY <2>1 DEF From
  <2>4. k \in 1..Len(result.plans) /\ result.plans[k].index = m
    BY <1>3, <2>3 DEF PlanFor
  <2>5. Selected.plans[i].index = i
    BY <1>1 DEF SelectedRight
  <2> QED
    BY <2>2, <2>3, <2>4, <2>5
<1> QED
  BY <1>2, <1>4

\* Select.
LEMMA SelectInv ==
  ASSUME IInv, Select
  PROVE  IInv'
<1>1. pc = "select" /\ probed = {} /\ result \in Results
  BY SelectStep
<1>2. CASE Fails(raw)
  BY <1>1, <1>2, FailsInv
<1>3. CASE /\ pc' = "probe"
           /\ result' = [candidates |-> Selected.candidates, plans |-> Selected.plans]
           /\ UNCHANGED <<source, surfaces, plans, at, drafts, pipeline, probed, promoted>>
  <2> DEFINE N == Len(Selected.candidates)
  <2>1. /\ Selected \in Selections /\ N \in Nat
        /\ Selected.candidates \in Seq(Filleds) /\ Selected.plans \in Seq(ProbePlans)
        /\ Len(Selected.plans) = N
    BY <1>1, SelectionKept, SelectedFrom DEF Selections
  <2>2. /\ result.candidates \in Seq(Good) /\ result.plans \in Seq(GoodPlans)
    BY GoodLists DEF IInv
  <2>3. ASSUME NEW i \in 1..N
        PROVE  /\ Selected.candidates[i] \in Good /\ Selected.candidates[i].provider = Provider
               /\ Selected.plans[i] \in GoodPlans
    <3>1. PICK m \in 1..Len(result.candidates), k \in 1..Len(result.plans) :
                   /\ IsFirst(m) /\ Selected.candidates[i] = result.candidates[m]
                   /\ result.plans[k].index = m
                   /\ Selected.plans[i].verify = result.plans[k].verify
      BY <1>1, SelectedFrom
    <3>2. Selected.candidates[i] \in Good
      BY <2>2, <3>1
    <3>3. Selected.candidates[i].provider = Provider
      BY <3>1 DEF IsFirst, Own
    <3>4. result.plans[k] \in GoodPlans
      BY <2>2
    <3>5. Selected.plans[i] \in ProbePlans
      BY <2>1
    <3>6. Selected.plans[i] \in GoodPlans
      BY <3>1, <3>4, <3>5 DEF GoodPlans
    <3> QED
      BY <3>2, <3>3, <3>6
  <2>4. Selected.candidates \in Seq(Good) /\ Selected.plans \in Seq(GoodPlans)
    BY <2>1, <2>3, AllIn
  <2>5. result' \in GoodResults
    BY <1>3, <2>4 DEF GoodResults
  <2>6. DataOK'
    BY <1>3, <2>5, SameGood DEF IInv, DataOK
  <2>7. StageInv'
    BY <1>3 DEF StageInv
  <2>8. GroundInv'
    BY <1>3 DEF IInv, GroundInv, SurfaceIds
  <2>9. ProbedInv'
    BY <1>1, <1>3, <2>3 DEF ProbedInv
  <2>10. PromotedInv'
    BY <1>3 DEF IInv, PromotedInv, LevelEarned
  <2> QED
    BY <2>6, <2>7, <2>8, <2>9, <2>10 DEF IInv
<1> QED
  BY <1>2, <1>3, SelectStep

\* Probe.
LEMMA ProbeInv ==
  ASSUME IInv, Probe
  PROVE  IInv'
<1>1. pc = "probe" /\ UNCHANGED <<source, raw, surfaces, plans, at, drafts, pipeline, result, promoted>>
        /\ pc' = (IF Fits THEN "promote" ELSE "misfit")
        /\ probed' \subseteq {n \in DOMAIN result.candidates : Fits /\ MayPass(n)}
  BY DEF Probe
<1>2. DataOK'
  BY <1>1, SameGood DEF IInv, DataOK
<1>3. StageInv'
  BY <1>1 DEF StageInv
<1>4. GroundInv'
  BY <1>1 DEF IInv, GroundInv, SurfaceIds
<1>5. ProbedInv'
  <2>1. Fits' = Fits /\ \A n : MayPass(n)' = MayPass(n)
    BY <1>1 DEF Fits, MayPass, VerifyOf, PlanFor
  <2>2. \A n \in 1..Len(result.candidates) : result.candidates[n].provider = Provider
    BY <1>1 DEF IInv, ProbedInv
  <2>3. DOMAIN result.candidates = 1..Len(result.candidates)
    BY GoodLists DEF IInv
  <2>4. \A n \in probed' : n \in 1..Len(result.candidates) /\ Fits /\ MayPass(n)
    BY <1>1, <2>3
  <2>5. ~Fits => probed' = {}
    BY <1>1
  <2> QED
    BY <1>1, <2>1, <2>2, <2>4, <2>5 DEF ProbedInv
<1>6. PromotedInv'
  BY <1>1 DEF IInv, PromotedInv, LevelEarned
<1> QED
  BY <1>2, <1>3, <1>4, <1>5, <1>6 DEF IInv

\* The first of those that have passed is one of them.
LEMMA FirstIsProbed ==
  ASSUME IInv, probed # {}
  PROVE  FirstProbed \in probed
<1>1. probed \in SUBSET Nat
  BY DEF IInv, ProbedInv
<1>2. \E n \in probed : \A m \in probed : n <= m
  BY <1>1, Least
<1> QED
  BY <1>2 DEF FirstProbed

\* The verification of what has passed probe is one, earned and valid.
LEMMA PassedVerify ==
  ASSUME IInv, NEW n \in probed
  PROVE  /\ VerifyOf(n) \in Verifies /\ MayPass(n)
         /\ source # "replay" => Earned(VerifyOf(n))
<1>1. n \in 1..Len(result.candidates) /\ Fits /\ MayPass(n)
  BY DEF IInv, ProbedInv
<1>2. /\ DOMAIN result.candidates = 1..Len(result.candidates)
      /\ DOMAIN result.plans = 1..Len(result.plans) /\ result.plans \in Seq(GoodPlans)
  BY GoodLists DEF IInv
<1>3. PlanFor(n) # {}
  BY <1>1, <1>2 DEF Fits
<1> DEFINE m == CHOOSE m \in PlanFor(n) : TRUE
<1>4. m \in PlanFor(n)
  BY <1>3
<1>5. m \in 1..Len(result.plans)
  BY <1>2, <1>4 DEF PlanFor
<1>6. result.plans[m] \in GoodPlans
  BY <1>2, <1>5
<1>7. VerifyOf(n) = result.plans[m].verify
  BY DEF VerifyOf
<1> HIDE DEF m
<1> QED
  BY <1>1, <1>6, <1>7 DEF GoodPlans, ProbePlans

\* The level of what may pass is earned.
LEMMA PassedEarned ==
  ASSUME IInv, NEW n \in probed, NEW v, v = VerifyOf(n)
  PROVE  /\ v.method = "contract" => v.level = 1
         /\ v.method = "execute" =>
              v.checks # <<>> /\ \A k \in DOMAIN v.checks : ValidCheck(v.checks[k])
         /\ v.method = "execute" /\ source # "replay" =>
              v.level \in Strengths(v) /\ \A s \in Strengths(v) : s <= v.level
<1>1. v \in Verifies /\ ValidVerify(v) /\ v.level > 0 /\ (source # "replay" => Earned(v))
  BY PassedVerify DEF MayPass
<1>2. v.level \in Int
  BY <1>1 DEF Verifies
<1>3. v.method = "contract" => v.level = 1
  BY <1>1, <1>2 DEF ValidVerify
<1>4. v.method = "execute" =>
        v.checks # <<>> /\ \A k \in DOMAIN v.checks : ValidCheck(v.checks[k])
  BY <1>1 DEF ValidVerify
<1>5. ASSUME v.method = "execute", source # "replay"
      PROVE  v.level \in Strengths(v) /\ \A s \in Strengths(v) : s <= v.level
  <2>1. v.level = Max({0} \cup Strengths(v))
    BY <1>1, <1>5 DEF Earned
  <2>2. v.level \in {0} \cup Strengths(v) /\ \A s \in Strengths(v) : s <= v.level
    BY <2>1, Greatest
  <2>3. v.level # 0
    BY <1>1, <1>2
  <2> QED
    BY <2>2, <2>3
<1> QED
  BY <1>3, <1>4, <1>5

\* Promote.
LEMMA PromoteInv ==
  ASSUME IInv, Promote
  PROVE  IInv'
<1> DEFINE c == result.candidates[FirstProbed]
           verify == VerifyOf(FirstProbed)
<1>1. pc = "promote" /\ UNCHANGED <<source, raw, surfaces, plans, at, drafts, pipeline, result>>
  BY DEF Promote
<1>2. \/ probed = {} /\ pc' = "done" /\ UNCHANGED <<probed, promoted>>
      \/ probed # {} /\ Rejected(c) /\ pc' = "rejected" /\ UNCHANGED <<probed, promoted>>
      \/ /\ probed # {} /\ ~Rejected(c)
         /\ promoted' = promoted \cup {[capability |-> c.capability, verify |-> verify]}
         /\ probed' = probed \ {FirstProbed} /\ pc' = pc
  BY DEF Promote
<1>3. DataOK'
  <2>1. pc' \in {"done", "rejected", "promote"}
    BY <1>1, <1>2
  <2> QED
    BY <1>1, <2>1, SameGood DEF IInv, DataOK
<1>4. StageInv'
  BY <1>1, <1>2 DEF StageInv
<1>5. GroundInv'
  BY <1>1 DEF IInv, GroundInv, SurfaceIds
<1>6. ProbedInv'
  <2>1. Fits' = Fits /\ \A n : MayPass(n)' = MayPass(n)
    BY <1>1 DEF Fits, MayPass, VerifyOf, PlanFor
  <2>2. /\ \A n \in 1..Len(result.candidates) : result.candidates[n].provider = Provider
        /\ \A n \in probed : n \in 1..Len(result.candidates) /\ Fits /\ MayPass(n)
    BY <1>1 DEF IInv, ProbedInv
  <2>3. probed' \subseteq probed
    BY <1>2
  <2>4. \A n \in probed' : n \in 1..Len(result.candidates) /\ Fits /\ MayPass(n)
    BY <2>2, <2>3
  <2>5. pc' \in {"promote", "rejected", "done"}
    BY <1>1, <1>2
  <2>6. pc' = "rejected" => probed' = probed /\ probed # {} /\ Rejected(c)
    BY <1>1, <1>2
  <2>7. pc' = "rejected" => Rejected(result'.candidates[FirstProbed'])
    <3>1. probed' = probed => FirstProbed' = FirstProbed
      BY DEF FirstProbed
    <3> QED
      BY <1>1, <2>6, <3>1
  <2>8. pc' = "rejected" => Rejected(result.candidates[FirstProbed])'
    BY <2>7 DEF Rejected
  <2> QED
    BY <1>1, <2>1, <2>2, <2>4, <2>5, <2>6, <2>8 DEF ProbedInv
<1>7. PromotedInv'
  <2>1. CASE UNCHANGED promoted
    BY <1>1, <2>1 DEF IInv, PromotedInv, LevelEarned
  <2>2. CASE /\ probed # {} /\ ~Rejected(c)
             /\ promoted' = promoted \cup {[capability |-> c.capability, verify |-> verify]}
    <3>1. FirstProbed \in probed
      BY <2>2, FirstIsProbed
    <3>2. c.capability \in ValidIds
      BY <2>2 DEF Rejected
    <3> HIDE DEF c, verify
    <3>3. /\ verify.method = "contract" => verify.level = 1
          /\ verify.method = "execute" =>
               verify.checks # <<>> /\ \A k \in DOMAIN verify.checks : ValidCheck(verify.checks[k])
          /\ verify.method = "execute" /\ source # "replay" =>
               verify.level \in Strengths(verify) /\ \A s \in Strengths(verify) : s <= verify.level
      BY <3>1, PassedEarned DEF verify
    <3>4. \A p \in promoted' : p \in promoted \/ (p.capability = c.capability /\ p.verify = verify)
      BY <2>2
    <3>5. \A p \in promoted' : p.capability \in ValidIds
      BY <3>2, <3>4 DEF IInv, PromotedInv
    <3>6. LevelEarned'
      BY <1>1, <3>3, <3>4 DEF IInv, PromotedInv, LevelEarned
    <3> QED
      BY <3>5, <3>6 DEF PromotedInv
  <2> QED
    BY <1>2, <2>1, <2>2
<1> QED
  BY <1>3, <1>4, <1>5, <1>6, <1>7 DEF IInv

\* Every step keeps the invariant.
LEMMA NextInv ==
  ASSUME IInv, [Next]_vars
  PROVE  IInv'
<1>1. CASE UNCHANGED vars
  <2>1. UNCHANGED <<pc, source, raw, surfaces, plans, at, drafts, pipeline,
                    result, probed, promoted>>
    BY <1>1 DEF vars
  <2>2. DataOK'
    BY <2>1, SameGood DEF IInv, DataOK
  <2>3. StageInv' /\ GroundInv'
    BY <2>1 DEF IInv, StageInv, GroundInv, SurfaceIds
  <2>4. ProbedInv'
    <3>1. ProbedInv' = ProbedInv
      BY <2>1 DEF ProbedInv, Fits, MayPass, VerifyOf, PlanFor, FirstProbed, Rejected
    <3> QED
      BY <3>1 DEF IInv
  <2>5. PromotedInv'
    BY <2>1 DEF IInv, PromotedInv, LevelEarned
  <2> QED
    BY <2>2, <2>3, <2>4, <2>5 DEF IInv
<1>2. CASE Next
  BY <1>2, SurfaceInv, CapabilityInv, BindingInv, EvidenceInv, ReplayInv, RulesInv,
     SelectInv, ProbeInv, PromoteInv DEF Next
<1> QED
  BY <1>1, <1>2

\* Every reachable state is so.
THEOREM Invariant == Spec => []IInv
<1>1. Init => IInv
  BY InitInv
<1>2. IInv /\ [Next]_vars => IInv'
  BY NextInv
<1> QED
  BY <1>1, <1>2, PTL DEF Spec

----------------------------------------------------------------------------
(* The theorems *)

\* The variables have their types in every reachable state, whatever the
\* answers, the files and the help texts.
THEOREM TypeCorrect == Spec => []TypeOK
<1>1. IInv => TypeOK
  <2> SUFFICES ASSUME IInv PROVE TypeOK
    OBVIOUS
  <2>1. DOMAIN result.candidates = 1..Len(result.candidates)
    BY GoodLists DEF IInv
  <2> QED
    BY <2>1 DEF IInv, DataOK, StageInv, ProbedInv, PromotedInv, TypeOK
<1> QED
  BY <1>1, Invariant, PTL

\* A promoted level is earned by the checks that were kept, whatever the model
\* claims, and the checker can run every one of them.
THEOREM LevelEarnedHolds == Spec => []LevelEarned
<1>1. IInv => LevelEarned
  BY DEF IInv, PromotedInv
<1> QED
  BY <1>1, Invariant, PTL

\* Promote turns down what probe has passed only for what binding takes over
\* unchecked from the model's answer.
THEOREM RejectedOnlyUncheckedHolds == Spec => []RejectedOnlyUnchecked
<1>1. IInv => RejectedOnlyUnchecked
  <2> SUFFICES ASSUME IInv, pc = "rejected" PROVE RejectedOnlyUnchecked
    BY DEF RejectedOnlyUnchecked
  <2> DEFINE c == result.candidates[FirstProbed]
  <2>1. FirstProbed \in probed /\ Rejected(c)
    BY FirstIsProbed DEF IInv, ProbedInv
  <2>2. FirstProbed \in 1..Len(result.candidates) /\ c.provider = Provider /\ Provider # ""
    BY <2>1, ScreeningAssumption DEF IInv, ProbedInv
  <2>3. c \in Good
    <3>1. result.candidates \in Seq(Good)
      BY GoodLists DEF IInv
    <3> QED
      BY <2>2, <3>1, Members
  <2>4. source = "live" /\ Described(c)
    BY <2>1, <2>3 DEF Good
  <2>5. CASE c.capability \notin ValidIds
    <3>1. \A n \in DOMAIN plans : plans[n] \in Plans
      BY DEF IInv, DataOK
    <3>2. \A n \in DOMAIN plans : c.capability # plans[n].id
      BY <2>5, <3>1 DEF Plans
    <3> QED
      BY <2>4, <3>2 DEF RejectedOnlyUnchecked
  <2>6. CASE c.description = ""
    BY <2>4, <2>6 DEF RejectedOnlyUnchecked, Described
  <2>7. CASE c.kind \notin Kinds
    <3>1. MayPass(FirstProbed)
      BY <2>1, PassedVerify
    <3>2. VerifyOf(FirstProbed).method = "contract"
      BY <2>7, <3>1 DEF MayPass, ValidVerify, Kinds
    <3> QED
      BY <2>4, <2>7, <3>2 DEF RejectedOnlyUnchecked
  <2> QED
    BY <2>1, <2>2, <2>5, <2>6, <2>7 DEF Rejected
<1> QED
  BY <1>1, Invariant, PTL

\* Only the surface stage makes it the capability stage's turn.
LEMMA OnlySurface ==
  ASSUME IInv, Next, pc' = "capability"
  PROVE  \E answer \in SurfaceAnswers \cup {NoAnswer} : Surface(answer)
BY DEF Next, Capability, Binding, Evidence, Replay, Rules, Select, Probe, Promote,
   EndPipeline, Fails

\* The kept surfaces are, in their order, the first of each kind and name that
\* the policy lets through, up to the limit.
THEOREM SurfacesPolicedHolds == Spec => []SurfacesPoliced
<1>1. Init => SurfacesPoliced
  BY DEF Init, SurfacesPoliced
<1>2. ASSUME IInv, SurfacesPoliced, [Next]_vars PROVE SurfacesPoliced'
  <2>1. CASE UNCHANGED vars
    <3>1. pc' = pc /\ raw' = raw /\ surfaces' = surfaces
      BY <2>1 DEF vars
    <3>2. SurfacesPoliced' = SurfacesPoliced
      BY <3>1 DEF SurfacesPoliced
    <3> QED
      BY <1>2, <3>2
  <2>2. CASE Next
    <3> SUFFICES ASSUME pc' = "capability" PROVE SurfacesPoliced'
      BY DEF SurfacesPoliced
    <3>1. PICK answer \in SurfaceAnswers \cup {NoAnswer} : Surface(answer)
      BY <1>2, <2>2, OnlySurface
    <3>2. raw' \in Seq(Surfaces) /\ surfaces' = Sift(raw', KeepsSurface)
      BY <3>1, SurfaceStep DEF Fails
    <3>3. SiftedRight(raw', Len(raw'), surfaces')
      BY <3>2, SurfacesKept
    <3> DEFINE items == raw'
               N == Len(items)
    <3>4. N \in Nat /\ Through(items) \in SUBSET (1..N)
      BY <3>2, RankIs
    <3>5. UpTo(Through(items), N) = Through(items)
      <4> HIDE DEF items, N
      <4> QED
        BY <3>4, Tally
    <3>6. /\ Len(surfaces') = Cardinality(Through(items))
          /\ \A n \in Through(items) : surfaces'[Rank(items, n)] = items[n]
      BY <3>3, <3>5 DEF SiftedRight
    <3> QED
      BY <3>6 DEF SurfacesPoliced
  <2> QED
    BY <1>2, <2>1, <2>2
<1>3. SurfacesPoliced /\ IInv /\ [Next]_vars => SurfacesPoliced'
  BY <1>2
<1> QED
  BY <1>1, <1>3, Invariant, PTL DEF Spec

\* What the property says of the first pipeline's turn.
CitesAll ==
  pc = "binding" /\ at = 1 =>
    \A n \in DOMAIN plans :
      plans[n].sources = UNION {p.sources : p \in
        {q \in Range(raw) : Lower[q.id] = plans[n].id /\ q.sources \subseteq SurfaceIds}}

\* A plan before its own pipeline's turn is the capability stage's.
LEMMA OnlyCapability ==
  ASSUME IInv, Next, pc' = "binding", at' = 1
  PROVE  \E answer \in CapabilityAnswers \cup {NoAnswer} : Capability(answer)
<1>1. at \in Nat /\ at >= 1
  BY DEF IInv, DataOK
<1>2. ASSUME NEW found, EndPipeline(found) PROVE FALSE
  BY <1>1, <1>2 DEF EndPipeline
<1>3. ASSUME NEW answer, Binding(answer) PROVE FALSE
  BY <1>2, <1>3 DEF Binding
<1>4. ASSUME NEW answer, Evidence(answer) PROVE FALSE
  BY <1>2, <1>4 DEF Evidence
<1> QED
  BY <1>3, <1>4 DEF Next, Surface, Replay, Rules, Select, Probe, Promote, Fails

\* A capability plan rests on all the surfaces that the answer cites for it.
LEMMA CitesAllHolds == Spec => []CitesAll
<1>1. Init => CitesAll
  BY DEF Init, CitesAll
<1>2. ASSUME IInv, CitesAll, [Next]_vars PROVE CitesAll'
  <2>1. CASE UNCHANGED vars
    BY <1>2, <2>1 DEF vars, CitesAll, SurfaceIds
  <2>2. CASE Next
    <3> SUFFICES ASSUME pc' = "binding", at' = 1 PROVE CitesAll'
      BY DEF CitesAll
    <3>1. PICK answer \in CapabilityAnswers \cup {NoAnswer} : Capability(answer)
      BY <1>2, <2>2, OnlyCapability
    <3>2. /\ raw' \in Seq(RawPlans) /\ plans' = Planned(raw') /\ surfaces' = surfaces
      BY <3>1, CapabilityStep DEF Fails
    <3>3. plans' \in Seq(Plans) /\ PlannedRight(raw', Len(raw'), plans')
      BY <3>2, PlansKept
    <3> DEFINE given == raw'
               Cites(id) == {q \in Range(given) :
                               Lower[q.id] = id /\ q.sources \subseteq SurfaceIds}
    <3>4. ASSUME NEW id PROVE Cited(given, Len(given), id) = UNION {p.sources : p \in Cites(id)}
      <4>1. given \in Seq(RawPlans) /\ DOMAIN given = 1..Len(given)
        BY <3>2
      <4> HIDE DEF given
      <4>2. \A q : q \in Range(given) <=> \E m \in 1..Len(given) : q = given[m]
        BY <4>1 DEF Range
      <4>3. \A q : q \in Cites(id) <=> \E m \in Citing(given, Len(given), id) : q = given[m]
        BY <4>2 DEF Citing
      <4>4. \A x : x \in Cited(given, Len(given), id)
                     <=> \E m \in Citing(given, Len(given), id) : x \in given[m].sources
        BY DEF Cited
      <4>5. \A x : x \in UNION {p.sources : p \in Cites(id)}
                     <=> \E p \in Cites(id) : x \in p.sources
        OBVIOUS
      <4> HIDE DEF Cites
      <4>6. \A x : x \in Cited(given, Len(given), id)
                     <=> x \in UNION {p.sources : p \in Cites(id)}
        BY <4>3, <4>4, <4>5
      <4> QED
        BY <4>6
    <3>5. ASSUME NEW n \in DOMAIN plans'
          PROVE  plans'[n].sources = UNION {p.sources : p \in Cites(plans'[n].id)}
      <4>1. n \in 1..Len(plans')
        BY <3>3
      <4>2. plans'[n].sources = Cited(given, Len(given), plans'[n].id)
        BY <3>3, <4>1 DEF PlannedRight
      <4> QED
        BY <3>4, <4>2
    <3>6. SurfaceIds' = SurfaceIds
      BY <3>2 DEF SurfaceIds
    <3> QED
      BY <3>5, <3>6 DEF CitesAll
  <2> QED
    BY <1>2, <2>1, <2>2
<1>3. CitesAll /\ IInv /\ [Next]_vars => CitesAll'
  BY <1>2
<1> QED
  BY <1>1, <1>3, Invariant, PTL DEF Spec

\* Every plan has its surfaces to bind from.
LEMMA Bindable ==
  ASSUME IInv, NEW n \in DOMAIN plans
  PROVE  BindingSurfaces(plans[n]) # <<>>
<1>1. n \in 1..Len(plans) /\ surfaces \in Seq(Surfaces)
  BY DEF IInv, DataOK
<1>2. plans[n].sources # {} /\ plans[n].sources \subseteq SurfaceIds
  BY <1>1 DEF IInv, GroundInv
<1>3. PICK id \in plans[n].sources : id \in SurfaceIds
  BY <1>2
<1>4. PICK s \in Range(surfaces) : s.id = id
  BY <1>3 DEF SurfaceIds
<1>5. PICK m \in 1..Len(surfaces) : surfaces[m] = s
  BY <1>1, <1>4 DEF Range
<1>6. m \in {k \in DOMAIN surfaces : surfaces[k].id \in plans[n].sources}
  BY <1>1, <1>3, <1>4, <1>5
<1> QED
  BY <1>1, <1>5, <1>6, OnlyKeeps DEF BindingSurfaces

\* A capability plan rests on kept surfaces only, on all that the answer cites
\* for its capability, and its binding prompt is never without one.
THEOREM PlansGroundedHolds == Spec => []PlansGrounded
<1>1. IInv /\ CitesAll => PlansGrounded
  <2> SUFFICES ASSUME IInv, CitesAll PROVE PlansGrounded
    OBVIOUS
  <2>1. DOMAIN plans = 1..Len(plans)
    BY DEF IInv, DataOK
  <2> QED
    BY <2>1, Bindable DEF IInv, GroundInv, CitesAll, PlansGrounded
<1> QED
  BY <1>1, Invariant, CitesAllHolds, PTL

\* Only the selection makes it probe's turn.
LEMMA OnlySelect ==
  ASSUME IInv, Next, pc' = "probe"
  PROVE  Select
BY DEF Next, Surface, Capability, Binding, Evidence, Replay, Rules, Probe, Promote,
   EndPipeline, Fails

\* The first of a capability is the least place of those on offer.
LEMMA FirstIsMin ==
  ASSUME result \in Results, NEW m \in 1..Len(result.candidates), IsFirst(m)
  PROVE  Min(Offering(result, CapAt(m))) = m
<1> DEFINE T == Offering(result, CapAt(m))
<1>1. DOMAIN result.candidates = 1..Len(result.candidates)
  BY DEF Results
<1>2. \A k : k \in T <=> k \in 1..Len(result.candidates) /\ Own(k) /\ CapAt(k) = CapAt(m)
  BY <1>1 DEF Offering, Own, CapAt
<1>3. Len(result.candidates) \in Nat
  BY DEF Results
<1> HIDE DEF T
<1>4. m \in T
  BY <1>2 DEF IsFirst
<1>5. \A k \in T : m <= k
  BY <1>2, <1>3 DEF IsFirst
<1>6. \A x \in T : (\A y \in T : x <= y) => x = m
  BY <1>2, <1>3, <1>4, <1>5
<1>7. Min(T) = m
  BY <1>4, <1>5, <1>6 DEF Min
<1> QED
  BY <1>7 DEF T

\* Whatever the source, probe is given each capability once, of the request's
\* provider, each candidate with the plan made for it, and no structural error.
THEOREM SelectionFitsHolds == Spec => []SelectionFits
<1>1. Init => SelectionFits
  BY DEF Init, SelectionFits
<1>2. ASSUME IInv, SelectionFits, [Next]_vars PROVE SelectionFits'
  <2>1. CASE UNCHANGED vars
    <3>1. SelectionFits' = SelectionFits
      BY <2>1 DEF vars, SelectionFits, Fits, PlanFor, VerifyOf, Offering
    <3> QED
      BY <1>2, <3>1
  <2>2. CASE Next
    <3> SUFFICES ASSUME pc' = "probe" PROVE SelectionFits'
      BY DEF SelectionFits
    <3>1. Select
      BY <1>2, <2>2, OnlySelect
    <3>2. /\ result \in Results /\ raw' = result /\ ~Selected.error
          /\ result' = [candidates |-> Selected.candidates, plans |-> Selected.plans]
      BY <1>2, <3>1, SelectStep DEF Fails
    <3> DEFINE cs == Selected.candidates
               ps == Selected.plans
               N == Len(cs)
    <3>3. /\ Selected \in Selections /\ SelectedRight(Len(result.candidates), Selected)
          /\ N \in Nat /\ Len(ps) = N /\ DOMAIN cs = 1..N /\ DOMAIN ps = 1..N
      BY <3>2, SelectionKept DEF Selections, SelectedRight
    <3>4. result'.candidates = cs /\ result'.plans = ps
      BY <3>2
    <3>5. \A i \in 1..N : ps[i].index = i
      BY <3>3 DEF SelectedRight
    <3> HIDE DEF cs, ps, N
    <3>6. \A n \in 1..N : PlanFor(n)' = {n}
      BY <3>3, <3>4, <3>5 DEF PlanFor
    <3>7. Fits'
      <4>1. \A n \in 1..N : \E m \in PlanFor(n)' : PlanFor(n)' = {m}
        BY <3>6
      <4>2. \A n \in 1..N : ps[n].index \in 1..N
        BY <3>5
      <4> QED
        BY <3>3, <3>4, <4>1, <4>2 DEF Fits
    <3>8. \A n \in 1..N : VerifyOf(n)' = ps[n].verify
      BY <3>4, <3>6 DEF VerifyOf
    <3>9. \A m, n \in 1..N : cs[m].capability = cs[n].capability => m = n
      BY <3>3 DEF SelectedRight, cs, N
    <3>10. ASSUME NEW n \in 1..N
           PROVE  /\ cs[n] = result.candidates[Min(Offering(result, cs[n].capability))]
                  /\ \E p \in Range(result.plans) :
                       /\ p.index = Min(Offering(result, cs[n].capability))
                       /\ p.verify = ps[n].verify
      <4>1. PICK m \in 1..Len(result.candidates), k \in 1..Len(result.plans) :
                   /\ IsFirst(m) /\ cs[n] = result.candidates[m]
                   /\ result.plans[k].index = m /\ ps[n].verify = result.plans[k].verify
        BY <3>2, SelectedFrom DEF cs, ps, N
      <4>2. Min(Offering(result, cs[n].capability)) = m
        BY <3>2, <4>1, FirstIsMin DEF CapAt
      <4>3. result.plans[k] \in Range(result.plans)
        BY <3>2, Members DEF Results
      <4> QED
        BY <4>1, <4>2, <4>3
    <3>11. ASSUME cs = <<>>, NEW c \in Range(result.candidates) PROVE c.provider # Provider
      <4>1. PICK m \in 1..Len(result.candidates) : c = result.candidates[m]
        BY <3>2 DEF Range, Results
      <4>2. ~Selected.ended
        BY <3>2, <3>3, <3>11 DEF SelectedRight, cs
      <4>3. N = 0
        BY <3>11 DEF N
      <4>4. ~Own(m)
        BY <3>3, <4>2, <4>3 DEF SelectedRight, cs, N
      <4> QED
        BY <4>1, <4>4 DEF Own
    <3> QED
      BY <3>2, <3>3, <3>4, <3>7, <3>8, <3>9, <3>10, <3>11 DEF SelectionFits
  <2> QED
    BY <1>2, <2>1, <2>2
<1>3. SelectionFits /\ IInv /\ [Next]_vars => SelectionFits'
  BY <1>2
<1> QED
  BY <1>1, <1>3, Invariant, PTL DEF Spec
=============================================================================
