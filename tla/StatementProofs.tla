-------------------------- MODULE StatementProofs --------------------------
(***************************************************************************)
(* What the account-information apps show adds up, whatever the bank has   *)
(* booked and whatever part of it an app holds: the balances on an         *)
(* account's page are the bank's, and the categories, rankings, charts and *)
(* days of every screen have the totals of the rows they are made of.      *)
(*                                                                         *)
(* The invariant is about the rows: they have the bank's types, they are   *)
(* booked, and those of an account follow one another.  The rest is about  *)
(* sums.  What a screen adds up over its groups is a measure of the sets   *)
(* of positions, and a measure of a family of disjoint sets is that of     *)
(* their union; a sort is a permutation.  The inductions over the rows are *)
(* searches for a least counterexample.                                    *)
(***************************************************************************)
EXTENDS Statements, FiniteSetTheorems, FunctionTheorems, SequenceTheorems, WellFoundedInduction,
        TLAPS

-----------------------------------------------------------------------------
(* A set of naturals has a least member: what stands in for an induction.  *)
LEMMA LeastNatural ==
    ASSUME NEW T, T \subseteq Nat, T # {}
    PROVE  \E n \in T : \A m \in T : n <= m
<1> DEFINE R == OpToRel(<, Nat)
<1>1. IsWellFoundedOn(R, Nat)
  BY NatLessThanWellFounded
<1> HIDE DEF R
<1>2. PICK n \in T : \A m \in T : ~(<<m, n>> \in R)
  BY <1>1, WFMin
<1>3. \A m \in T : m < n => <<m, n>> \in R
  BY DEF R, OpToRel
<1>4. \A m \in T : ~(m < n)
  BY <1>2, <1>3, Zenon
<1>5. \A m \in T : n <= m
  <2> TAKE m \in T
  <2> QED
    BY <1>4, SMT
<1> QED
  BY <1>5

-----------------------------------------------------------------------------
(* Sums.  g adds up the first n members of f.                              *)
AddsUp(f, n, g) == DOMAIN g = 0..n /\ g[0] = 0 /\ \A k \in 1..n : g[k] = g[k - 1] + f[k]

LEMMA AddsUpExists == ASSUME NEW f, NEW n \in Nat PROVE \E g : AddsUp(f, n, g)
<1> DEFINE Bad == {m \in Nat : ~\E g : AddsUp(f, m, g)}
<1>1. SUFFICES ASSUME Bad # {} PROVE FALSE
  OBVIOUS
<1>2. Bad \subseteq Nat
  OBVIOUS
<1> HIDE DEF Bad
<1>3. PICK m \in Bad : \A k \in Bad : m <= k
  BY <1>1, <1>2, LeastNatural
<1>4. m \in Nat /\ ~\E g : AddsUp(f, m, g)
  BY DEF Bad
<1>5. m # 0
  <2> DEFINE z == [k \in 0..0 |-> 0]
  <2>1. DOMAIN z = 0..0 /\ z[0] = 0
    OBVIOUS
  <2> HIDE DEF z
  <2>2. AddsUp(f, 0, z)
    BY <2>1 DEF AddsUp
  <2> QED
    BY <2>2, <1>4
<1>6. m - 1 \in Nat /\ m - 1 \notin Bad
  BY <1>3, <1>4, <1>5
<1>7. PICK g : AddsUp(f, m - 1, g)
  BY <1>6 DEF Bad
<1> DEFINE h == [k \in 0..m |-> IF k = m THEN g[m - 1] + f[m] ELSE g[k]]
<1>8. /\ DOMAIN h = 0..m /\ h[m] = g[m - 1] + f[m]
      /\ \A k \in 0..(m - 1) : h[k] = g[k]
  BY <1>4, <1>5
<1> HIDE DEF h
<1>9. \A k \in 1..m : h[k] = h[k - 1] + f[k]
  <2> TAKE k \in 1..m
  <2>1. k - 1 \in 0..(m - 1) /\ (k # m => k \in 1..(m - 1))
    BY <1>4
  <2>2. CASE k = m
    BY <2>1, <2>2, <1>8
  <2>3. CASE k # m
    BY <2>1, <2>3, <1>7, <1>8, <1>6 DEF AddsUp
  <2> QED
    BY <2>2, <2>3
<1>10. h[0] = 0
  BY <1>6, <1>7, <1>8 DEF AddsUp
<1> QED
  BY <1>4, <1>8, <1>9, <1>10 DEF AddsUp

(* The recursive function of the model is such a g.                        *)
LEMMA SumsAddUp ==
    ASSUME NEW f, NEW n \in Nat, Len(f) = n
    PROVE  AddsUp(f, n, Sums(f)) /\ SumOver(f) = Sums(f)[n]
<1> DEFINE Step(g) == [k \in 0..n |-> IF k = 0 THEN 0 ELSE g[k - 1] + f[k]]
           F == CHOOSE g : g = Step(g)
<1>1. Sums(f) = F
  BY DEF Sums
<1>2. PICK g : AddsUp(f, n, g)
  BY AddsUpExists
<1>3. \E e : e = Step(e)
  <2> DEFINE e == [k \in 0..n |-> g[k]]
  <2>1. \A k \in 0..n : e[k] = Step(e)[k]
    <3> TAKE k \in 0..n
    <3>1. CASE k = 0
      BY <3>1, <1>2 DEF AddsUp
    <3>2. CASE k # 0
      <4>1. k \in 1..n /\ k - 1 \in 0..n
        BY <3>2
      <4> QED
        BY <4>1, <3>2, <1>2 DEF AddsUp
    <3> QED
      BY <3>1, <3>2
  <2>2. e = [k \in 0..n |-> e[k]] /\ Step(e) = [k \in 0..n |-> Step(e)[k]]
    OBVIOUS
  <2> HIDE DEF e, Step
  <2>3. e = Step(e)
    BY <2>1, <2>2
  <2> QED
    BY <2>3
<1> HIDE DEF Step
<1>4. F = Step(F)
  BY <1>3
<1> HIDE DEF F
<1>5. DOMAIN F = 0..n /\ \A k \in 0..n : F[k] = IF k = 0 THEN 0 ELSE F[k - 1] + f[k]
  <2>1. DOMAIN Step(F) = 0..n
    BY DEF Step
  <2> QED
    BY <1>4, <2>1 DEF Step
<1>6. AddsUp(f, n, F)
  <2>1. F[0] = 0
    BY <1>5
  <2>2. \A k \in 1..n : F[k] = F[k - 1] + f[k]
    BY <1>5
  <2> QED
    BY <1>5, <2>1, <2>2 DEF AddsUp
<1> QED
  BY <1>1, <1>6 DEF SumOver

(* A sum of integers is an integer.                                        *)
LEMMA SumsAreInt ==
    ASSUME NEW f, NEW n \in Nat, NEW g, AddsUp(f, n, g), \A k \in 1..n : f[k] \in Int
    PROVE  \A k \in 0..n : g[k] \in Int
<1> DEFINE Bad == {k \in 0..n : g[k] \notin Int}
<1>1. SUFFICES ASSUME Bad # {} PROVE FALSE
  OBVIOUS
<1>2. Bad \subseteq Nat
  OBVIOUS
<1> HIDE DEF Bad
<1>3. PICK m \in Bad : \A k \in Bad : m <= k
  BY <1>1, <1>2, LeastNatural
<1>4. m \in 0..n /\ g[m] \notin Int
  BY DEF Bad
<1>5. m \in 1..n /\ m - 1 \in 0..n
  BY <1>4 DEF AddsUp
<1>6. g[m - 1] \in Int
  BY <1>3, <1>5 DEF Bad
<1> QED
  BY <1>4, <1>5, <1>6 DEF AddsUp

(* One by one no greater, no greater in sum.                               *)
LEMMA SumsGrow ==
    ASSUME NEW f \in Seq(Int), NEW h \in Seq(Int), Len(f) = Len(h),
           \A k \in 1..Len(f) : f[k] <= h[k]
    PROVE  SumOver(f) <= SumOver(h) /\ SumOver(f) \in Int /\ SumOver(h) \in Int
<1> DEFINE n == Len(f)
           F == Sums(f)
           H == Sums(h)
           Bad == {k \in 0..n : ~(F[k] <= H[k])}
<1>1. n \in Nat /\ \A k \in 1..n : f[k] \in Int /\ h[k] \in Int /\ f[k] <= h[k]
  OBVIOUS
<1>2. AddsUp(f, n, F) /\ AddsUp(h, n, H) /\ SumOver(f) = F[n] /\ SumOver(h) = H[n]
  BY SumsAddUp
<1> HIDE DEF n, F, H
<1>3. \A k \in 0..n : F[k] \in Int /\ H[k] \in Int
  BY <1>1, <1>2, SumsAreInt
<1>e. n \in 0..n
  BY <1>1
<1>4. SUFFICES ASSUME Bad # {} PROVE FALSE
  BY <1>e, <1>2, <1>3
<1>5. Bad \subseteq Nat
  BY <1>1
<1> HIDE DEF Bad
<1>6. PICK m \in Bad : \A k \in Bad : m <= k
  BY <1>4, <1>5, LeastNatural
<1>7. m \in 0..n /\ ~(F[m] <= H[m])
  BY DEF Bad
<1>8. m \in 1..n /\ m - 1 \in 0..n
  BY <1>1, <1>2, <1>7 DEF AddsUp
<1>9. F[m - 1] <= H[m - 1]
  BY <1>1, <1>6, <1>8 DEF Bad
<1> QED
  <2>1. F[m] = F[m - 1] + f[m] /\ H[m] = H[m - 1] + h[m]
    BY <1>2, <1>8 DEF AddsUp
  <2>2. F[m - 1] \in Int /\ H[m - 1] \in Int /\ f[m] \in Int /\ h[m] \in Int /\ f[m] <= h[m]
    BY <1>1, <1>3, <1>8
  <2> QED
    BY <1>7, <1>9, <2>1, <2>2

(* A sum of sums.                                                          *)
LEMMA SumsAdd ==
    ASSUME NEW f \in Seq(Int), NEW g \in Seq(Int), NEW h \in Seq(Int),
           Len(f) = Len(h), Len(g) = Len(h), \A k \in 1..Len(h) : h[k] = f[k] + g[k]
    PROVE  SumOver(h) = SumOver(f) + SumOver(g)
<1> DEFINE n == Len(h)
           F == Sums(f)
           G == Sums(g)
           H == Sums(h)
           Bad == {k \in 0..n : H[k] # F[k] + G[k]}
<1>1. n \in Nat /\ \A k \in 1..n : f[k] \in Int /\ g[k] \in Int /\ h[k] = f[k] + g[k]
  OBVIOUS
<1>2. /\ AddsUp(f, n, F) /\ AddsUp(g, n, G) /\ AddsUp(h, n, H)
      /\ SumOver(f) = F[n] /\ SumOver(g) = G[n] /\ SumOver(h) = H[n]
  <2>1. n \in Nat /\ Len(f) = n /\ Len(g) = n /\ Len(h) = n
    OBVIOUS
  <2> HIDE DEF n
  <2> QED
    BY <2>1, SumsAddUp
<1> HIDE DEF n, F, G, H
<1>3. \A k \in 0..n : F[k] \in Int /\ G[k] \in Int
  BY <1>1, <1>2, SumsAreInt
<1>e. n \in 0..n
  BY <1>1
<1>4. SUFFICES ASSUME Bad # {} PROVE FALSE
  BY <1>e, <1>2
<1>5. Bad \subseteq Nat
  BY <1>1
<1> HIDE DEF Bad
<1>6. PICK m \in Bad : \A k \in Bad : m <= k
  BY <1>4, <1>5, LeastNatural
<1>7. m \in 0..n /\ H[m] # F[m] + G[m]
  BY DEF Bad
<1>8. m \in 1..n /\ m - 1 \in 0..n
  BY <1>1, <1>2, <1>7 DEF AddsUp
<1>9. H[m - 1] = F[m - 1] + G[m - 1]
  BY <1>1, <1>6, <1>8 DEF Bad
<1> QED
  <2>1. F[m] = F[m - 1] + f[m] /\ G[m] = G[m - 1] + g[m] /\ H[m] = H[m - 1] + h[m]
    BY <1>2, <1>8 DEF AddsUp
  <2>2. /\ F[m - 1] \in Int /\ G[m - 1] \in Int /\ f[m] \in Int /\ g[m] \in Int
        /\ h[m] = f[m] + g[m]
    BY <1>1, <1>3, <1>8
  <2> QED
    BY <1>7, <1>9, <2>1, <2>2

(* What is nothing adds up to nothing, and what is nowhere negative to     *)
(* nothing less.                                                           *)
LEMMA SumOfNothing ==
    ASSUME NEW f \in Seq(Int), \A k \in 1..Len(f) : f[k] = 0
    PROVE  SumOver(f) = 0
<1>1. SumOver(f) = SumOver(f) + SumOver(f)
  BY SumsAdd
<1>2. SumOver(f) \in Int
  BY SumsGrow
<1> QED
  BY <1>1, <1>2

LEMMA SumIsNat ==
    ASSUME NEW f \in Seq(Nat)
    PROVE  SumOver(f) \in Nat
<1> DEFINE z == [k \in 1..Len(f) |-> 0]
<1>1. z \in Seq(Int) /\ Len(z) = Len(f) /\ \A k \in 1..Len(z) : z[k] = 0
  OBVIOUS
<1>2. f \in Seq(Int) /\ \A k \in 1..Len(f) : 0 <= f[k]
  BY IsASeq
<1> HIDE DEF z
<1>3. SumOver(z) = 0
  BY <1>1, SumOfNothing
<1>4. SumOver(z) <= SumOver(f) /\ SumOver(f) \in Int
  BY <1>1, <1>2, SumsGrow
<1> QED
  BY <1>3, <1>4

LEMMA SumsAreUnique ==
    ASSUME NEW f, NEW n \in Nat, NEW g, NEW h, AddsUp(f, n, g), AddsUp(f, n, h)
    PROVE  g[n] = h[n]
<1> DEFINE Bad == {k \in 0..n : g[k] # h[k]}
<1>1. SUFFICES ASSUME Bad # {} PROVE FALSE
  OBVIOUS
<1>2. Bad \subseteq Nat
  OBVIOUS
<1> HIDE DEF Bad
<1>3. PICK m \in Bad : \A k \in Bad : m <= k
  BY <1>1, <1>2, LeastNatural
<1>4. m \in 0..n /\ g[m] # h[m]
  BY DEF Bad
<1>5. m \in 1..n /\ m - 1 \in 0..n
  BY <1>4 DEF AddsUp
<1>6. g[m - 1] = h[m - 1]
  BY <1>3, <1>5 DEF Bad
<1> QED
  BY <1>4, <1>5, <1>6 DEF AddsUp

(* A sum with one member that may be something.                            *)
LEMMA SumOfOne ==
    ASSUME NEW f \in Seq(Int), NEW i \in 1..Len(f), \A k \in 1..Len(f) : k # i => f[k] = 0
    PROVE  SumOver(f) = f[i]
<1> DEFINE n == Len(f)
           g == [k \in 0..n |-> IF k < i THEN 0 ELSE f[i]]
<1>1. n \in Nat /\ i \in 1..n /\ \A k \in 1..n : f[k] \in Int /\ (k # i => f[k] = 0)
  OBVIOUS
<1>2. AddsUp(f, n, Sums(f)) /\ SumOver(f) = Sums(f)[n]
  BY <1>1, SumsAddUp
<1> HIDE DEF n
<1>3. AddsUp(f, n, g)
  <2>1. DOMAIN g = 0..n /\ g[0] = 0
    BY <1>1
  <2>2. ASSUME NEW k \in 1..n PROVE g[k] = g[k - 1] + f[k]
    <3>1. k - 1 \in 0..n /\ k \in 0..n
      BY <1>1
    <3>2. CASE k < i
      BY <3>1, <3>2, <1>1
    <3>3. CASE k = i
      BY <3>1, <3>3, <1>1
    <3>4. CASE k > i
      BY <3>1, <3>4, <1>1
    <3> QED
      BY <3>2, <3>3, <3>4, <1>1
  <2> HIDE DEF g
  <2> QED
    BY <2>1, <2>2 DEF AddsUp
<1>4. g[n] = f[i]
  BY <1>1
<1> HIDE DEF g
<1> QED
  BY <1>1, <1>2, <1>3, <1>4, SumsAreUnique

-----------------------------------------------------------------------------
(* A figure of a set of positions, as a total or a number of rows, that    *)
(* adds up over sets without a common member.                              *)
Measure(D, mu) ==
    /\ mu \in [SUBSET D -> Int]
    /\ \A A, B \in SUBSET D : A \cap B = {} => mu[A \cup B] = mu[A] + mu[B]

LEMMA EmptyMeasure == ASSUME NEW D, NEW mu, Measure(D, mu) PROVE mu[{}] = 0
<1>1. mu[{}] = mu[{}] + mu[{}] /\ mu[{}] \in Int
  <2>1. {} \in SUBSET D /\ {} \cap {} = {} /\ {} \cup {} = {}
    OBVIOUS
  <2> QED
    BY <2>1 DEF Measure
<1> DEFINE x == mu[{}]
<1>2. x = x + x /\ x \in Int
  BY <1>1
<1> HIDE DEF x
<1>3. x = 0
  BY <1>2
<1> QED
  BY <1>3 DEF x

(* U is made of n disjoint sets of positions.                              *)
Family(D, n, G, U) ==
    /\ n \in Nat /\ G \in [1..n -> SUBSET D] /\ U \in SUBSET D
    /\ \A j, k \in 1..n : j # k => G[j] \cap G[k] = {}
    /\ \A i \in D : i \in U <=> \E k \in 1..n : i \in G[k]

LEMMA FunIsSeq ==
    ASSUME NEW T, NEW n \in Nat, NEW f \in [1..n -> T]
    PROVE  f \in Seq(T) /\ Len(f) = n
OBVIOUS

(* The figures of disjoint sets add up to the figure of their union.       *)
LEMMA FamilySum ==
    ASSUME NEW D, NEW mu, Measure(D, mu), NEW n, NEW G, NEW W, Family(D, n, G, W)
    PROVE  SumOver([k \in 1..n |-> mu[G[k]]]) = mu[W]
<1> DEFINE f == [k \in 1..n |-> mu[G[k]]]
<1>n. n \in Nat /\ G \in [1..n -> SUBSET D]
      /\ \A j, k \in 1..n : j # k => G[j] \cap G[k] = {}
  BY DEF Family
<1>f. f \in [1..n -> Int] /\ \A k \in 1..n : f[k] = mu[G[k]]
  BY <1>n DEF Measure
<1> HIDE DEF f
<1>s. f \in Seq(Int) /\ Len(f) = n
  BY <1>n, <1>f, FunIsSeq
<1> DEFINE U(m) == UNION {G[k] : k \in 1..m}
           F == Sums(f)
           Bad == {m \in 0..n : F[m] # mu[U(m)]}
<1>1. AddsUp(f, n, F) /\ SumOver(f) = F[n]
  BY <1>n, <1>s, SumsAddUp
<1>2. U(0) = {}
  <2>1. 1..0 = {}
    OBVIOUS
  <2> QED
    BY <2>1
<1>3. ASSUME NEW m \in 1..n
      PROVE  /\ U(m) = U(m - 1) \cup G[m] /\ U(m - 1) \cap G[m] = {}
             /\ U(m - 1) \in SUBSET D /\ G[m] \in SUBSET D
  <2>1. 1..m = (1..(m - 1)) \cup {m} /\ \A k \in 1..(m - 1) : k \in 1..n /\ k # m
    BY <1>n
  <2> QED
    BY <2>1, <1>n
<1>w. U(n) = W
  BY <1>n DEF Family
<1> HIDE DEF F, U
<1>4. SUFFICES ASSUME Bad # {} PROVE FALSE
  <2>1. n \in 0..n
    BY <1>n
  <2> QED
    BY <2>1, <1>1, <1>w DEF f
<1>5. Bad \subseteq Nat
  BY <1>n
<1> HIDE DEF Bad
<1>6. PICK m \in Bad : \A k \in Bad : m <= k
  BY <1>4, <1>5, LeastNatural
<1>7. m \in 0..n /\ F[m] # mu[U(m)]
  BY DEF Bad
<1>8. m # 0
  BY <1>1, <1>2, <1>7, EmptyMeasure DEF AddsUp
<1>9. m \in 1..n /\ m - 1 \in 0..n /\ ~(m <= m - 1)
  BY <1>n, <1>7, <1>8
<1>10. F[m - 1] = mu[U(m - 1)]
  BY <1>6, <1>9 DEF Bad
<1>11. mu[U(m)] = mu[U(m - 1)] + mu[G[m]]
  <2> DEFINE A == U(m - 1)
             B == G[m]
  <2>1. U(m) = A \cup B /\ A \cap B = {} /\ A \in SUBSET D /\ B \in SUBSET D
    BY <1>3, <1>9
  <2> HIDE DEF A, B
  <2>2. mu[A \cup B] = mu[A] + mu[B]
    BY <2>1 DEF Measure
  <2>3. mu[U(m)] = mu[A] + mu[B]
    BY <2>1, <2>2
  <2> QED
    BY <2>3 DEF A, B
<1>12. F[m] = F[m - 1] + mu[G[m]]
  BY <1>1, <1>9, <1>f DEF AddsUp
<1> QED
  BY <1>7, <1>10, <1>11, <1>12

LEMMA Counting ==
    ASSUME NEW D, IsFiniteSet(D)
    PROVE  Measure(D, [A \in SUBSET D |-> Cardinality(A)])
<1>1. \A A \in SUBSET D : IsFiniteSet(A) /\ Cardinality(A) \in Nat
  BY FS_Subset, FS_CardinalityType
<1>2. ASSUME NEW A \in SUBSET D, NEW B \in SUBSET D, A \cap B = {}
      PROVE  Cardinality(A \cup B) = Cardinality(A) + Cardinality(B)
  <2>1. Cardinality(A \cup B) = Cardinality(A) + Cardinality(B) - Cardinality(A \cap B)
    BY <1>1, FS_Union
  <2> QED
    BY <1>1, <1>2, <2>1, FS_EmptySet
<1>3. \A A, B \in SUBSET D : A \cup B \in SUBSET D
  OBVIOUS
<1> DEFINE mu == [A \in SUBSET D |-> Cardinality(A)]
<1>4. mu \in [SUBSET D -> Int] /\ \A A \in SUBSET D : mu[A] = Cardinality(A)
  BY <1>1
<1> HIDE DEF mu
<1>5. Measure(D, mu)
  BY <1>2, <1>3, <1>4 DEF Measure
<1> QED
  BY <1>5 DEF mu

-----------------------------------------------------------------------------
(* The rows of an account, or of several.                                  *)

StatementRow == [account : Accounts, at : 0..Now, dir : {"Credit", "Debit"}, amount : Nat \ {0},
                 text : Texts, merchant : {b.merchant : b \in Bookings}, after : Nat]

LEMMA NowIsNat == Now \in Nat /\ Today \in Nat /\ Now = Today * 4 + 1
BY StatementsAssumption DEF Now, Slots

LEMMA RowFields ==
    ASSUME NEW S \in Seq(StatementRow), NEW k \in DOMAIN S
    PROVE  /\ S[k].at \in Nat /\ S[k].at <= Now /\ S[k].after \in Nat /\ Signed(S[k]) \in Int
           /\ S[k].amount \in Nat /\ S[k].amount > 0 /\ S[k].dir \in {"Credit", "Debit"}
           /\ S[k].text \in DOMAIN Matching
<1>1. S[k] \in StatementRow
  OBVIOUS
<1> QED
  BY <1>1, NowIsNat DEF StatementRow, Signed, Texts

(* The summands of a total.                                                *)
LEMMA Summands ==
    ASSUME NEW S \in Seq(StatementRow), NEW I
    PROVE  LET f == [k \in DOMAIN S |-> IF k \in I THEN S[k].amount ELSE 0]
           IN f \in Seq(Nat) /\ f \in Seq(Int) /\ Len(f) = Len(S) /\ DOMAIN S = 1..Len(S)
<1> DEFINE f == [k \in DOMAIN S |-> IF k \in I THEN S[k].amount ELSE 0]
<1>1. DOMAIN S = 1..Len(S) /\ Len(S) \in Nat /\ \A k \in DOMAIN S : f[k] \in Nat
  BY RowFields, LenProperties
<1>2. DOMAIN f = 1..Len(S) /\ f = [k \in 1..Len(S) |-> f[k]]
  BY <1>1
<1> HIDE DEF f
<1>3. f \in Seq(Nat) /\ f \in Seq(Int) /\ Len(f) = Len(S)
  BY <1>1, <1>2, IsASeq
<1> QED
  BY <1>1, <1>3 DEF f

LEMMA TotalIsNat ==
    ASSUME NEW S \in Seq(StatementRow), NEW I
    PROVE  Total(S, I) \in Nat
BY Summands, SumIsNat DEF Total

LEMMA TotalAdds ==
    ASSUME NEW S \in Seq(StatementRow), NEW A, NEW B, A \cap B = {}
    PROVE  Total(S, A \cup B) = Total(S, A) + Total(S, B)
<1> DEFINE f == [k \in DOMAIN S |-> IF k \in A THEN S[k].amount ELSE 0]
           g == [k \in DOMAIN S |-> IF k \in B THEN S[k].amount ELSE 0]
           h == [k \in DOMAIN S |-> IF k \in A \cup B THEN S[k].amount ELSE 0]
<1>1. /\ f \in Seq(Int) /\ g \in Seq(Int) /\ h \in Seq(Int) /\ DOMAIN S = 1..Len(S)
      /\ Len(f) = Len(S) /\ Len(g) = Len(S) /\ Len(h) = Len(S)
  BY Summands
<1>2. \A k \in DOMAIN S : h[k] = f[k] + g[k]
  BY RowFields
<1>3. Total(S, A) = SumOver(f) /\ Total(S, B) = SumOver(g) /\ Total(S, A \cup B) = SumOver(h)
  BY DEF Total
<1> HIDE DEF f, g, h
<1>4. \A k \in 1..Len(h) : h[k] = f[k] + g[k]
  BY <1>1, <1>2, Zenon
<1>5. SumOver(h) = SumOver(f) + SumOver(g)
  BY <1>1, <1>4, SumsAdd
<1> QED
  BY <1>3, <1>5, Zenon

LEMMA TotalOfNone == ASSUME NEW S \in Seq(StatementRow) PROVE Total(S, {}) = 0
<1>1. Total(S, {}) = Total(S, {}) + Total(S, {})
  <2>1. {} \cap {} = {} /\ {} \cup {} = {}
    OBVIOUS
  <2>2. Total(S, {} \cup {}) = Total(S, {}) + Total(S, {})
    BY <2>1, TotalAdds
  <2> QED
    BY <2>1, <2>2
<1> QED
  BY <1>1, TotalIsNat

LEMMA TotalGrows ==
    ASSUME NEW S \in Seq(StatementRow), NEW A, NEW B, A \subseteq B
    PROVE  Total(S, A) <= Total(S, B)
<1> DEFINE C == B \ A
<1>1. B = A \cup C /\ A \cap C = {}
  OBVIOUS
<1> HIDE DEF C
<1>2. Total(S, A \cup C) = Total(S, A) + Total(S, C)
  BY <1>1, TotalAdds
<1>3. Total(S, A) \in Nat /\ Total(S, C) \in Nat
  BY TotalIsNat
<1>4. Total(S, B) = Total(S, A \cup C)
  BY <1>1, Zenon
<1> QED
  BY <1>2, <1>3, <1>4

LEMMA TotalOfOne ==
    ASSUME NEW S \in Seq(StatementRow), NEW i \in DOMAIN S
    PROVE  Total(S, {i}) = S[i].amount
<1> DEFINE f == [k \in DOMAIN S |-> IF k \in {i} THEN S[k].amount ELSE 0]
<1>1. f \in Seq(Int) /\ Len(f) = Len(S) /\ DOMAIN S = 1..Len(S)
  BY Summands
<1>2. f[i] = S[i].amount /\ \A k \in DOMAIN S : k # i => f[k] = 0
  OBVIOUS
<1>3. Total(S, {i}) = SumOver(f)
  BY DEF Total
<1> HIDE DEF f
<1> QED
  BY <1>1, <1>2, <1>3, SumOfOne

LEMMA TotalOfSome ==
    ASSUME NEW S \in Seq(StatementRow), NEW I, NEW i \in I, i \in DOMAIN S
    PROVE  Total(S, I) > 0
<1>1. Total(S, {i}) <= Total(S, I)
  BY TotalGrows
<1> QED
  BY <1>1, TotalOfOne, TotalIsNat, RowFields

LEMMA Totalling ==
    ASSUME NEW S \in Seq(StatementRow)
    PROVE  Measure(DOMAIN S, [A \in SUBSET DOMAIN S |-> Total(S, A)])
<1> DEFINE mu == [A \in SUBSET DOMAIN S |-> Total(S, A)]
<1>1. \A A \in SUBSET DOMAIN S : Total(S, A) \in Nat
  BY TotalIsNat
<1>2. mu \in [SUBSET DOMAIN S -> Int] /\ \A A \in SUBSET DOMAIN S : mu[A] = Total(S, A)
  BY <1>1
<1>3. \A A, B \in SUBSET DOMAIN S : A \cap B = {} =>
          A \cup B \in SUBSET DOMAIN S /\ Total(S, A \cup B) = Total(S, A) + Total(S, B)
  BY TotalAdds
<1> HIDE DEF mu
<1>4. Measure(DOMAIN S, mu)
  BY <1>2, <1>3 DEF Measure
<1> QED
  BY <1>4 DEF mu

(* The credits, the debits and what remains of the credits.                *)
LEMMA CreditsSplit ==
    ASSUME NEW S, NEW A, NEW B, A \cap B = {}
    PROVE  /\ Credits(S, A \cup B) = Credits(S, A) \cup Credits(S, B)
           /\ Credits(S, A) \cap Credits(S, B) = {}
           /\ Debits(S, A \cup B) = Debits(S, A) \cup Debits(S, B)
           /\ Debits(S, A) \cap Debits(S, B) = {}
BY DEF Credits, Debits

LEMMA CreditsAdd ==
    ASSUME NEW S \in Seq(StatementRow), NEW A, NEW B, A \cap B = {}
    PROVE  /\ SumCredits(S, A \cup B) = SumCredits(S, A) + SumCredits(S, B)
           /\ SumDebits(S, A \cup B) = SumDebits(S, A) + SumDebits(S, B)
           /\ SumCredits(S, A) \in Nat /\ SumCredits(S, B) \in Nat
           /\ SumDebits(S, A) \in Nat /\ SumDebits(S, B) \in Nat
<1>1. /\ Total(S, Credits(S, A) \cup Credits(S, B)) = Total(S, Credits(S, A)) + Total(S, Credits(S, B))
      /\ Total(S, Debits(S, A) \cup Debits(S, B)) = Total(S, Debits(S, A)) + Total(S, Debits(S, B))
  <2>1. Credits(S, A) \cap Credits(S, B) = {} /\ Debits(S, A) \cap Debits(S, B) = {}
    BY CreditsSplit
  <2>2. Total(S, Credits(S, A) \cup Credits(S, B)) = Total(S, Credits(S, A)) + Total(S, Credits(S, B))
    BY <2>1, TotalAdds
  <2>3. Total(S, Debits(S, A) \cup Debits(S, B)) = Total(S, Debits(S, A)) + Total(S, Debits(S, B))
    BY <2>1, TotalAdds
  <2> QED
    BY <2>2, <2>3
<1>2. /\ Total(S, Credits(S, A \cup B)) = Total(S, Credits(S, A) \cup Credits(S, B))
      /\ Total(S, Debits(S, A \cup B)) = Total(S, Debits(S, A) \cup Debits(S, B))
  <2>1. /\ Credits(S, A \cup B) = Credits(S, A) \cup Credits(S, B)
        /\ Debits(S, A \cup B) = Debits(S, A) \cup Debits(S, B)
    BY DEF Credits, Debits
  <2> QED
    BY <2>1, Zenon
<1> QED
  BY <1>1, <1>2, TotalIsNat DEF SumCredits, SumDebits

LEMMA CreditsGrow ==
    ASSUME NEW S \in Seq(StatementRow), NEW A, NEW B, A \subseteq B
    PROVE  SumCredits(S, A) <= SumCredits(S, B) /\ SumDebits(S, A) <= SumDebits(S, B)
<1>1. Credits(S, A) \subseteq Credits(S, B) /\ Debits(S, A) \subseteq Debits(S, B)
  BY DEF Credits, Debits
<1> QED
  BY <1>1, TotalGrows DEF SumCredits, SumDebits

LEMMA Crediting ==
    ASSUME NEW S \in Seq(StatementRow)
    PROVE  /\ Measure(DOMAIN S, [A \in SUBSET DOMAIN S |-> SumCredits(S, A)])
           /\ Measure(DOMAIN S, [A \in SUBSET DOMAIN S |-> SumCredits(S, A) - SumDebits(S, A)])
<1> DEFINE D == DOMAIN S
           mu == [A \in SUBSET D |-> SumCredits(S, A)]
           nu == [A \in SUBSET D |-> SumCredits(S, A) - SumDebits(S, A)]
<1>1. \A A, B \in SUBSET D : A \cap B = {} =>
           /\ A \cup B \in SUBSET D
           /\ SumCredits(S, A \cup B) = SumCredits(S, A) + SumCredits(S, B)
           /\ SumDebits(S, A \cup B) = SumDebits(S, A) + SumDebits(S, B)
  BY CreditsAdd
<1>2. \A A \in SUBSET D : SumCredits(S, A) \in Nat /\ SumDebits(S, A) \in Nat
  BY TotalIsNat DEF SumCredits, SumDebits
<1>3. /\ mu \in [SUBSET D -> Int] /\ \A A \in SUBSET D : mu[A] = SumCredits(S, A)
      /\ nu \in [SUBSET D -> Int] /\ \A A \in SUBSET D : nu[A] = SumCredits(S, A) - SumDebits(S, A)
  BY <1>2
<1> HIDE DEF mu, nu
<1>4. Measure(D, mu)
  BY <1>1, <1>3 DEF Measure
<1>5. Measure(D, nu)
  <2>1. ASSUME NEW A \in SUBSET D, NEW B \in SUBSET D, A \cap B = {}
        PROVE  nu[A \cup B] = nu[A] + nu[B]
    <3>1. /\ nu[A \cup B] = SumCredits(S, A \cup B) - SumDebits(S, A \cup B)
          /\ nu[A] = SumCredits(S, A) - SumDebits(S, A) /\ nu[B] = SumCredits(S, B) - SumDebits(S, B)
      BY <1>3
    <3>2. /\ SumCredits(S, A \cup B) = SumCredits(S, A) + SumCredits(S, B)
          /\ SumDebits(S, A \cup B) = SumDebits(S, A) + SumDebits(S, B)
      BY <2>1, <1>1
    <3>3. /\ SumCredits(S, A) \in Nat /\ SumCredits(S, B) \in Nat
          /\ SumDebits(S, A) \in Nat /\ SumDebits(S, B) \in Nat
      BY <1>2
    <3> QED
      BY <3>1, <3>2, <3>3
  <2> QED
    BY <2>1, <1>3 DEF Measure
<1> QED
  BY <1>4, <1>5 DEF mu, nu

-----------------------------------------------------------------------------
(* Sorting.                                                                *)

(* The positions D of the keys, each once, from the greatest key on; equal *)
(* keys in the order of their positions.                                   *)
OrderOf(key, D, n, order) ==
    /\ n \in Nat /\ n = Cardinality(D) /\ order \in [1..n -> D]
    /\ \A j, k \in 1..n : j # k => order[j] # order[k]
    /\ \A i \in D : \E k \in 1..n : order[k] = i
    /\ \A j, k \in 1..n : j < k =>
          /\ key[order[j]] >= key[order[k]]
          /\ key[order[j]] = key[order[k]] => order[j] < order[k]

(* The rank of a position is the number of positions before it.            *)
LEMMA SortedOrders ==
    ASSUME NEW key, DOMAIN key \subseteq Nat, IsFiniteSet(DOMAIN key),
           \A i \in DOMAIN key : key[i] \in Int
    PROVE  /\ OrderOf(key, DOMAIN key, Cardinality(DOMAIN key), Sorted(key))
           /\ DOMAIN Sorted(key) = 1..Cardinality(DOMAIN key)
<1> DEFINE D == DOMAIN key
           n == Cardinality(D)
           before(i, j) == key[i] > key[j] \/ (key[i] = key[j] /\ i < j)
           above(i) == {j \in D : before(j, i)}
           rank == [i \in D |-> Cardinality(above(i))]
           order == [k \in 1..n |-> CHOOSE i \in D : Cardinality(above(i)) = k - 1]
<1>2. Sorted(key) = order
  BY DEF Sorted
<1>d. D \subseteq Nat /\ IsFiniteSet(D) /\ \A i \in D : key[i] \in Int
  OBVIOUS
<1> HIDE DEF D
<1>1. n \in Nat
  BY <1>d, FS_CardinalityType
<1>3. /\ \A i \in D : ~before(i, i)
      /\ \A i, j \in D : i # j => before(i, j) \/ before(j, i)
      /\ \A i, j, k \in D : before(i, j) /\ before(j, k) => before(i, k)
      /\ \A i, j \in D : before(i, j) => key[i] >= key[j] /\ (key[i] = key[j] => i < j)
  <2>1. \A i \in D : key[i] \in Int /\ i \in Nat
    BY <1>d
  <2> QED
    BY <2>1
<1> HIDE DEF before
<1>4. \A i \in D : IsFiniteSet(above(i)) /\ Cardinality(above(i)) \in Nat /\ Cardinality(above(i)) < n
  <2> TAKE i \in D
  <2>1. above(i) \in SUBSET D /\ i \notin above(i)
    BY <1>3
  <2> HIDE DEF above
  <2>2. IsFiniteSet(above(i)) /\ Cardinality(above(i)) <= n /\ Cardinality(above(i)) # n
    BY <2>1, <1>d, FS_Subset
  <2>3. Cardinality(above(i)) \in Nat
    BY <2>2, FS_CardinalityType
  <2> QED
    BY <2>2, <2>3, <1>1
<1>5. ASSUME NEW i \in D, NEW j \in D, before(i, j)
      PROVE  Cardinality(above(i)) < Cardinality(above(j))
  <2>1. above(i) \in SUBSET above(j) /\ i \in above(j) /\ i \notin above(i)
    BY <1>3, <1>5
  <2>2. IsFiniteSet(above(j)) /\ Cardinality(above(i)) \in Nat /\ Cardinality(above(j)) \in Nat
    BY <1>4
  <2> HIDE DEF above
  <2>3. Cardinality(above(i)) <= Cardinality(above(j)) /\ Cardinality(above(i)) # Cardinality(above(j))
    BY <2>1, <2>2, FS_Subset
  <2> QED
    BY <2>2, <2>3
<1> HIDE DEF above
<1>6. /\ rank \in [D -> 0..(n - 1)]
      /\ \A i, j \in D : before(i, j) => rank[i] < rank[j]
      /\ \A i \in D : rank[i] = Cardinality(above(i)) /\ rank[i] \in Int
  BY <1>1, <1>4, <1>5
<1> HIDE DEF rank
<1>7. \A i, j \in D : rank[i] = rank[j] => i = j
  <2> SUFFICES ASSUME NEW i \in D, NEW j \in D, rank[i] = rank[j], i # j PROVE FALSE
    OBVIOUS
  <2>1. rank[i] < rank[j] \/ rank[j] < rank[i]
    BY <1>3, <1>6
  <2> QED
    BY <2>1, <1>6
<1>8. rank \in Surjection(D, 0..(n - 1))
  <2>1. rank \in Injection(D, 0..(n - 1))
    BY <1>6, <1>7, Fun_IsInj
  <2>2. IsFiniteSet(0..(n - 1)) /\ Cardinality(0..(n - 1)) = n
    <3> HIDE DEF n
    <3>1. n - 1 \in Int /\ 0 \in Int
      BY <1>1
    <3>2. IsFiniteSet(0..(n - 1)) /\ Cardinality(0..(n - 1)) = IF 0 > n - 1 THEN 0 ELSE (n - 1) - 0 + 1
      BY <3>1, FS_Interval
    <3> QED
      BY <3>2, <1>1
  <2> QED
    BY <2>1, <2>2, <1>d, FS_Injection
<1>9. \A k \in 1..n : \E i \in D : rank[i] = k - 1
  <2>1. \A m \in 0..(n - 1) : \E i \in D : rank[i] = m
    BY <1>8, Zenon DEF Surjection
  <2>2. \A k \in 1..n : k - 1 \in 0..(n - 1)
    BY <1>1
  <2> QED
    BY <2>1, <2>2
<1>10. DOMAIN order = 1..n /\ \A k \in 1..n : order[k] \in D /\ rank[order[k]] = k - 1
  <2> SUFFICES ASSUME NEW k \in 1..n PROVE order[k] \in D /\ rank[order[k]] = k - 1
    OBVIOUS
  <2>1. \E i \in D : Cardinality(above(i)) = k - 1
    BY <1>6, <1>9
  <2>2. order[k] \in D /\ Cardinality(above(order[k])) = k - 1
    BY <2>1
  <2> QED
    BY <2>2, <1>6
<1>11. order \in [1..n -> D]
  BY <1>10
<1> HIDE DEF order
<1>12. \A j, k \in 1..n : j # k => order[j] # order[k]
  BY <1>1, <1>10
<1>13. \A i \in D : \E k \in 1..n : order[k] = i
  <2> TAKE i \in D
  <2>1. rank[i] \in 0..(n - 1)
    BY <1>6
  <2>2. rank[i] + 1 \in 1..n /\ (rank[i] + 1) - 1 = rank[i]
    BY <2>1, <1>1
  <2>3. rank[order[rank[i] + 1]] = rank[i] /\ order[rank[i] + 1] \in D
    BY <2>2, <1>10
  <2>4. order[rank[i] + 1] = i
    BY <2>3, <1>7
  <2> QED
    BY <2>2, <2>4
<1>14. ASSUME NEW j \in 1..n, NEW k \in 1..n, j < k
       PROVE  /\ key[order[j]] >= key[order[k]]
              /\ key[order[j]] = key[order[k]] => order[j] < order[k]
  <2>1. rank[order[j]] < rank[order[k]] /\ order[j] \in D /\ order[k] \in D
    BY <1>10, <1>14, <1>1
  <2>2. order[j] # order[k] /\ ~before(order[k], order[j])
    <3>1. rank[order[j]] \in Int /\ rank[order[k]] \in Int
      BY <2>1, <1>6
    <3>2. before(order[k], order[j]) => rank[order[k]] < rank[order[j]]
      BY <2>1, <1>6
    <3> QED
      BY <2>1, <3>1, <3>2
  <2>3. before(order[j], order[k])
    BY <2>1, <2>2, <1>3
  <2> QED
    BY <2>1, <2>3, <1>3
<1>15. OrderOf(key, D, n, order)
  BY <1>1, <1>11, <1>12, <1>13, <1>14 DEF OrderOf
<1> QED
  BY <1>2, <1>10, <1>15 DEF D

(* What is arranged is the members in that order.                          *)
LEMMA Arranging ==
    ASSUME NEW D, D \subseteq Nat, IsFiniteSet(D), NEW key \in [D -> Int], NEW f
    PROVE  /\ OrderOf(key, D, Cardinality(D), Sorted(key))
           /\ Arranged(f, key) = [k \in 1..Cardinality(D) |-> f[Sorted(key)[k]]]
<1>1. DOMAIN key = D /\ \A i \in D : key[i] \in Int
  OBVIOUS
<1> QED
  BY <1>1, SortedOrders DEF Arranged

(* Positions of a list.                                                    *)
LEMMA PositionsOf ==
    ASSUME NEW S \in Seq(StatementRow), NEW I \in SUBSET DOMAIN S
    PROVE  I \subseteq Nat /\ IsFiniteSet(I) /\ Cardinality(I) \in Nat /\ Cardinality(I) <= Len(S)
<1> DEFINE n == Len(S)
<1>1. n \in Nat /\ I \in SUBSET (1..n)
  BY LenProperties
<1> HIDE DEF n
<1>2. IsFiniteSet(1..n) /\ Cardinality(1..n) = n
  BY <1>1, FS_Interval
<1>3. IsFiniteSet(I) /\ Cardinality(I) <= n
  BY <1>1, <1>2, FS_Subset
<1> QED
  BY <1>1, <1>3, FS_CardinalityType DEF n

-----------------------------------------------------------------------------
(* Groups of rows: disjoint, and no two of one name.                       *)
Grouped(S, groups, D) ==
    /\ D \subseteq Nat /\ IsFiniteSet(D) /\ DOMAIN groups = D
    /\ \A g \in D : groups[g].rows \in SUBSET DOMAIN S
    /\ \A g, h \in D : g # h => /\ groups[g].name # groups[h].name
                                /\ groups[g].rows \cap groups[h].rows = {}
RowsOf(groups) == UNION {groups[g].rows : g \in DOMAIN groups}

(* The rows that share a label.                                            *)
LEMMA GroupingByLabel ==
    ASSUME NEW S \in Seq(StatementRow), NEW I \in SUBSET DOMAIN S, NEW label, DOMAIN label = I
    PROVE  /\ Grouped(S, GroupBy(label), DOMAIN GroupBy(label))
           /\ RowsOf(GroupBy(label)) = I
           /\ DOMAIN GroupBy(label) \in SUBSET I
<1> DEFINE D == {i \in I : \A j \in I : j < i => label[j] # label[i]}
           G == GroupBy(label)
<1>1. I \subseteq Nat /\ IsFiniteSet(I)
  BY PositionsOf
<1>2. /\ DOMAIN G = D
      /\ \A g \in D : G[g].rows = {i \in I : label[i] = label[g]} /\ G[g].name = label[g]
  BY DEF GroupBy, Labelled
<1>3. D \in SUBSET I /\ \A g \in D : \A j \in I : j < g => label[j] # label[g]
  OBVIOUS
<1>4. IsFiniteSet(D) /\ D \subseteq Nat
  BY <1>1, <1>3, FS_Subset
<1>5. \A g, h \in D : g # h => label[g] # label[h]
  <2> SUFFICES ASSUME NEW g \in D, NEW h \in D, g # h, label[g] = label[h] PROVE FALSE
    OBVIOUS
  <2>1. g \in Nat /\ h \in Nat /\ g \in I /\ h \in I
    BY <1>1, <1>3
  <2>2. g < h \/ h < g
    BY <2>1
  <2> QED
    BY <2>1, <2>2, <1>3
<1>6. \A i \in I : \E g \in D : label[g] = label[i]
  <2> TAKE i \in I
  <2> DEFINE T == {j \in I : label[j] = label[i]}
  <2>1. T \subseteq Nat /\ T # {}
    BY <1>1
  <2>2. PICK g \in T : \A m \in T : g <= m
    BY <2>1, LeastNatural
  <2>3. \A j \in I : j < g => label[j] # label[g]
    <3> SUFFICES ASSUME NEW j \in I, j < g, label[j] = label[g] PROVE FALSE
      OBVIOUS
    <3>1. j \in T
      OBVIOUS
    <3> QED
      BY <3>1, <2>1, <2>2
  <2> QED
    BY <2>3
<1> HIDE DEF D, G
<1>7. Grouped(S, G, D)
  <2>1. \A g \in D : G[g].rows \in SUBSET DOMAIN S
    BY <1>2
  <2>2. ASSUME NEW g \in D, NEW h \in D, g # h
        PROVE  G[g].name # G[h].name /\ G[g].rows \cap G[h].rows = {}
    BY <2>2, <1>2, <1>5
  <2> QED
    BY <2>1, <2>2, <1>2, <1>4 DEF Grouped
<1>8. RowsOf(G) = I
  BY <1>2, <1>3, <1>6 DEF RowsOf
<1> QED
  BY <1>2, <1>3, <1>7, <1>8 DEF G

(* A ranking of groups.                                                    *)
RankOf(S, groups, g) == [name |-> groups[g].name, total |-> Total(S, groups[g].rows),
                         count |-> Cardinality(groups[g].rows)]
Ranks(S, groups, r, n, order) ==
    /\ n \in Nat /\ n = Cardinality(DOMAIN groups)
    /\ order \in [1..n -> DOMAIN groups]
    /\ \A j, k \in 1..n : j # k => order[j] # order[k]
    /\ \A g \in DOMAIN groups : \E k \in 1..n : order[k] = g
    /\ r = [k \in 1..n |-> RankOf(S, groups, order[k])]
    /\ IsRanking(r)

LEMMA RankingRanks ==
    ASSUME NEW S \in Seq(StatementRow), NEW groups, Grouped(S, groups, DOMAIN groups)
    PROVE  \E order : Ranks(S, groups, Ranking(S, groups), Cardinality(DOMAIN groups), order)
<1> DEFINE D == DOMAIN groups
           n == Cardinality(D)
           key == [g \in D |-> Total(S, groups[g].rows)]
           f == [g \in D |-> RankOf(S, groups, g)]
           order == Sorted(key)
           R == Ranking(S, groups)
<1>1. D \subseteq Nat /\ IsFiniteSet(D)
  BY DEF Grouped
<1>2. key \in [D -> Int] /\ \A g \in D : key[g] = Total(S, groups[g].rows)
  BY TotalIsNat
<1>3. R = Arranged(f, key)
  BY DEF Ranking, RankOf
<1>4. \A g \in D : f[g] = RankOf(S, groups, g)
  OBVIOUS
<1>n. DOMAIN groups = D
  OBVIOUS
<1>m. \A g, h \in D : g # h => groups[g].name # groups[h].name
  BY DEF Grouped
<1> HIDE DEF D, key, f, R
<1>5. OrderOf(key, D, n, order) /\ R = [k \in 1..n |-> f[order[k]]]
  BY <1>1, <1>2, <1>3, Arranging
<1> HIDE DEF n, order
<1>6. R = [k \in 1..n |-> RankOf(S, groups, order[k])]
  BY <1>4, <1>5 DEF OrderOf
<1>7. IsRanking(R)
  <2>1. DOMAIN R = 1..n /\ \A k \in 1..n : R[k] = RankOf(S, groups, order[k]) /\ order[k] \in D
    BY <1>5, <1>6 DEF OrderOf
  <2> SUFFICES ASSUME NEW j \in 1..n, NEW k \in 1..n, j < k
               PROVE  R[j].total >= R[k].total /\ R[j].name # R[k].name
    BY <2>1 DEF IsRanking
  <2>2. key[order[j]] >= key[order[k]] /\ order[j] # order[k]
    BY <1>5 DEF OrderOf
  <2>3. R[j].total = key[order[j]] /\ R[k].total = key[order[k]]
    BY <2>1, <1>2 DEF RankOf
  <2>4. R[j].name = groups[order[j]].name /\ R[k].name = groups[order[k]].name
    BY <2>1 DEF RankOf
  <2> QED
    BY <2>1, <2>2, <2>3, <2>4, <1>m
<1>8. Ranks(S, groups, R, n, order)
  BY <1>5, <1>6, <1>7, <1>n DEF Ranks, OrderOf, n
<1> QED
  BY <1>8, <1>n DEF R, n

-----------------------------------------------------------------------------
(* Totals of rankings.                                                     *)

LEMMA FirstFewOf ==
    ASSUME NEW T, NEW r \in Seq(T), NEW limit \in Nat
    PROVE  \E m \in 0..Len(r) :
              /\ FirstFew(r, limit) \in Seq(T) /\ Len(FirstFew(r, limit)) = m
              /\ DOMAIN FirstFew(r, limit) = 1..m
              /\ \A k \in 1..m : FirstFew(r, limit)[k] = r[k]
              /\ Len(r) <= limit => FirstFew(r, limit) = r
              /\ m <= limit
<1> DEFINE m == IF Len(r) < limit THEN Len(r) ELSE limit
           P == SubSeq(r, 1, m)
<1>1. Len(r) \in Nat /\ m \in Nat /\ m <= Len(r) /\ m <= limit /\ DOMAIN r = 1..Len(r)
  BY LenProperties
<1>2. FirstFew(r, limit) = P
  BY DEF FirstFew
<1>3. Len(r) <= limit => m = Len(r)
  BY LenProperties
<1> HIDE DEF m
<1>4. \A k \in 1..m : r[k] \in T
  BY <1>1
<1>5. P \in Seq(T) /\ Len(P) = m /\ \A k \in 1..m : P[k] = r[k]
  BY <1>1, <1>4, SubSeqProperties
<1>6. DOMAIN P = 1..m
  BY <1>5, LenProperties
<1>7. m = Len(r) => P = r
  <2> HIDE DEF P
  <2> SUFFICES ASSUME m = Len(r) PROVE P = r
    OBVIOUS
  <2>1. P \in [1..m -> T] /\ r \in [1..m -> T]
    BY <1>5, LenProperties
  <2> QED
    BY <2>1, <1>5
<1>8. m \in 0..Len(r)
  BY <1>1
<1> HIDE DEF P
<1>9. P = FirstFew(r, limit)
  BY <1>2
<1> QED
  BY <1>1, <1>3, <1>5, <1>6, <1>7, <1>8, <1>9, Zenon

(* The first m of a ranking add up to the rows of their groups.            *)
Placed(groups, n, order) ==
    /\ n \in Nat /\ order \in [1..n -> DOMAIN groups]
    /\ \A j, k \in 1..n : j # k => order[j] # order[k]
Lists(S, groups, order, m, p) ==
    DOMAIN p = 1..m /\ \A k \in 1..m : p[k] = RankOf(S, groups, order[k])
Covers(S, groups, order, m, U) ==
    /\ U \in SUBSET DOMAIN S
    /\ \A i \in DOMAIN S : i \in U <=> \E k \in 1..m : i \in groups[order[k]].rows

LEMMA RanksAddUp ==
    ASSUME NEW S \in Seq(StatementRow), NEW groups, Grouped(S, groups, DOMAIN groups),
           NEW n, NEW order, Placed(groups, n, order), NEW m \in 0..n,
           NEW p, Lists(S, groups, order, m, p), NEW U, Covers(S, groups, order, m, U)
    PROVE  Totals(p) = Total(S, U) /\ Counts(p) = Cardinality(U)
<1> DEFINE D == DOMAIN S
           G == [k \in 1..m |-> groups[order[k]].rows]
           mu == [A \in SUBSET D |-> Total(S, A)]
           nu == [A \in SUBSET D |-> Cardinality(A)]
<1>1. ASSUME NEW k \in 1..m
      PROVE  /\ k \in 1..n /\ order[k] \in DOMAIN groups /\ groups[order[k]].rows \in SUBSET D
             /\ p[k].total = Total(S, groups[order[k]].rows)
             /\ p[k].count = Cardinality(groups[order[k]].rows)
  BY DEF Grouped, RankOf, Placed, Lists
<1>2. G \in [1..m -> SUBSET D] /\ \A k \in 1..m : G[k] = groups[order[k]].rows
  BY <1>1
<1>3. \A i \in D : i \in U <=> \E k \in 1..m : i \in G[k]
  BY <1>2 DEF Covers
<1>4. \A j, k \in 1..m : j # k => G[j] \cap G[k] = {}
  BY <1>1, <1>2 DEF Grouped, Placed
<1>5. Measure(D, mu) /\ Measure(D, nu)
  <2>1. D \in SUBSET D
    OBVIOUS
  <2>2. IsFiniteSet(D)
    BY <2>1, PositionsOf
  <2> QED
    BY <2>2, Totalling, Counting
<1>6. \A A \in SUBSET D : mu[A] = Total(S, A) /\ nu[A] = Cardinality(A)
  OBVIOUS
<1>m. m \in Nat /\ U \in SUBSET D
  BY DEF Covers, Placed
<1>d. DOMAIN p = 1..m
  BY DEF Lists
<1> HIDE DEF G, mu, nu, D
<1>7. Family(D, m, G, U)
  BY <1>2, <1>3, <1>4, <1>m DEF Family
<1>8. /\ [k \in DOMAIN p |-> p[k].total] = [k \in 1..m |-> mu[G[k]]]
      /\ [k \in DOMAIN p |-> p[k].count] = [k \in 1..m |-> nu[G[k]]]
  BY <1>1, <1>2, <1>6, <1>d
<1>9. Totals(p) = mu[U] /\ Counts(p) = nu[U]
  <2>1. SumOver([k \in 1..m |-> mu[G[k]]]) = mu[U]
    BY <1>5, <1>7, FamilySum
  <2>2. SumOver([k \in 1..m |-> nu[G[k]]]) = nu[U]
    BY <1>5, <1>7, FamilySum
  <2> QED
    BY <2>1, <2>2, <1>8 DEF Totals, Counts
<1> QED
  BY <1>6, <1>9, <1>m

LEMMA RanksCover ==
    ASSUME NEW S \in Seq(StatementRow), NEW groups, Grouped(S, groups, DOMAIN groups),
           NEW R, NEW n, NEW order, Ranks(S, groups, R, n, order)
    PROVE  /\ Placed(groups, n, order) /\ Lists(S, groups, order, n, R)
           /\ Covers(S, groups, order, n, RowsOf(groups))
           /\ n \in Nat /\ IsRanking(R) /\ DOMAIN R = 1..n
<1>1. /\ n \in Nat /\ order \in [1..n -> DOMAIN groups]
      /\ \A j, k \in 1..n : j # k => order[j] # order[k]
      /\ \A g \in DOMAIN groups : \E k \in 1..n : order[k] = g
      /\ R = [k \in 1..n |-> RankOf(S, groups, order[k])] /\ IsRanking(R)
  BY DEF Ranks
<1>2. Placed(groups, n, order)
  BY <1>1 DEF Placed
<1>3. Lists(S, groups, order, n, R) /\ DOMAIN R = 1..n
  BY <1>1 DEF Lists
<1>4. RowsOf(groups) \in SUBSET DOMAIN S
  BY DEF RowsOf, Grouped
<1>5. \A i \in DOMAIN S : i \in RowsOf(groups) <=> \E k \in 1..n : i \in groups[order[k]].rows
  BY <1>1 DEF RowsOf
<1> QED
  BY <1>1, <1>2, <1>3, <1>4, <1>5 DEF Covers

LEMMA FirstRanksAddUp ==
    ASSUME NEW S \in Seq(StatementRow), NEW groups, Grouped(S, groups, DOMAIN groups),
           NEW R, NEW n, NEW order, Ranks(S, groups, R, n, order),
           NEW m \in 0..n, NEW p, DOMAIN p = 1..m, \A k \in 1..m : p[k] = R[k]
    PROVE  IsRanking(p) /\ Totals(p) <= Total(S, RowsOf(groups))
<1> DEFINE V == {i \in DOMAIN S : \E k \in 1..m : i \in groups[order[k]].rows}
<1>1. /\ Placed(groups, n, order) /\ Lists(S, groups, order, n, R)
      /\ Covers(S, groups, order, n, RowsOf(groups))
      /\ n \in Nat /\ IsRanking(R) /\ DOMAIN R = 1..n
  BY RanksCover
<1>2. \A k \in 1..m : k \in 1..n
  BY <1>1
<1>3. Lists(S, groups, order, m, p)
  BY <1>1, <1>2 DEF Lists
<1>4. Covers(S, groups, order, m, V)
  BY DEF Covers
<1>5. V \subseteq RowsOf(groups)
  BY <1>1, <1>2 DEF Covers
<1> HIDE DEF V
<1>6. Totals(p) = Total(S, V)
  BY <1>1, <1>3, <1>4, RanksAddUp
<1>7. Totals(p) <= Total(S, RowsOf(groups))
  BY <1>5, <1>6, TotalGrows
<1>8. IsRanking(p)
  BY <1>1, <1>2 DEF IsRanking
<1> QED
  BY <1>7, <1>8

(* A ranking adds up to the rows it ranks, and the first few of it to no   *)
(* more.                                                                   *)
LEMMA RankingAddsUp ==
    ASSUME NEW S \in Seq(StatementRow), NEW groups, Grouped(S, groups, DOMAIN groups),
           NEW T, \A g \in DOMAIN groups : RankOf(S, groups, g) \in T
    PROVE  /\ IsRanking(Ranking(S, groups))
           /\ Totals(Ranking(S, groups)) = Total(S, RowsOf(groups))
           /\ Counts(Ranking(S, groups)) = Cardinality(RowsOf(groups))
           /\ Ranking(S, groups) \in Seq(T)
           /\ Len(Ranking(S, groups)) = Cardinality(DOMAIN groups)
<1> DEFINE R == Ranking(S, groups)
           n == Cardinality(DOMAIN groups)
<1>1. PICK order : Ranks(S, groups, R, n, order)
  BY RankingRanks
<1> HIDE DEF R, n
<1>2. /\ Placed(groups, n, order) /\ Lists(S, groups, order, n, R)
      /\ Covers(S, groups, order, n, RowsOf(groups))
      /\ n \in Nat /\ IsRanking(R)
  BY <1>1, RanksCover
<1>3. Totals(R) = Total(S, RowsOf(groups)) /\ Counts(R) = Cardinality(RowsOf(groups))
  <2>1. n \in 0..n
    BY <1>2
  <2> QED
    BY <1>2, <2>1, RanksAddUp
<1>4. R \in [1..n -> T]
  <2>1. R = [k \in 1..n |-> RankOf(S, groups, order[k])] /\ \A k \in 1..n : order[k] \in DOMAIN groups
    BY <1>1 DEF Ranks
  <2> QED
    BY <2>1
<1>5. R \in Seq(T) /\ Len(R) = n
  BY <1>2, <1>4, FunIsSeq
<1> QED
  BY <1>2, <1>3, <1>5 DEF R, n

LEMMA FewRanksAddUp ==
    ASSUME NEW S \in Seq(StatementRow), NEW groups, Grouped(S, groups, DOMAIN groups),
           NEW limit \in Nat
    PROVE  /\ IsRanking(FirstFew(Ranking(S, groups), limit))
           /\ Totals(FirstFew(Ranking(S, groups), limit)) <= Total(S, RowsOf(groups))
           /\ Cardinality(DOMAIN groups) <= limit =>
                 FirstFew(Ranking(S, groups), limit) = Ranking(S, groups)
<1> DEFINE R == Ranking(S, groups)
           n == Cardinality(DOMAIN groups)
           T == {RankOf(S, groups, g) : g \in DOMAIN groups}
           p == FirstFew(R, limit)
<1>1. PICK order : Ranks(S, groups, R, n, order)
  BY RankingRanks
<1>2. R \in Seq(T) /\ Len(R) = n
  <2>1. \A g \in DOMAIN groups : RankOf(S, groups, g) \in T
    OBVIOUS
  <2> HIDE DEF T
  <2> QED
    BY <2>1, RankingAddsUp
<1> HIDE DEF R, n, T
<1>3. PICK m \in 0..n : /\ DOMAIN p = 1..m /\ (\A k \in 1..m : p[k] = R[k])
                        /\ n <= limit => p = R
  BY <1>2, FirstFewOf
<1> HIDE DEF p
<1>4. IsRanking(p) /\ Totals(p) <= Total(S, RowsOf(groups))
  BY <1>1, <1>3, FirstRanksAddUp
<1> QED
  BY <1>3, <1>4 DEF p, R, n

-----------------------------------------------------------------------------
(* Shares of a whole.                                                      *)
LEMMA Quotient ==
    ASSUME NEW a \in Nat, NEW b \in Nat, b > 0
    PROVE  a \div b \in Nat /\ b * (a \div b) <= a
OBVIOUS

LEMMA Distributes ==
    ASSUME NEW a \in Int, NEW b \in Int, NEW c \in Int
    PROVE  a * (b + c) = a * b + a * c /\ a * b \in Int /\ a * c \in Int
OBVIOUS

LEMMA SharesAreShares ==
    ASSUME NEW n \in Nat, NEW r, DOMAIN r = 1..n, \A k \in 1..n : r[k].total \in Nat
    PROVE  SumOver(Shares(r)) <= 100
<1> DEFINE w == Totals(r)
           f == [k \in 1..n |-> r[k].total]
           s == Shares(r)
           F == Sums(f)
           P == Sums(s)
           Bad == {k \in 0..n : ~(w * P[k] <= 100 * F[k])}
<1>1. f \in Seq(Nat) /\ Len(f) = n /\ \A k \in 1..n : f[k] = r[k].total /\ f[k] \in Nat
  OBVIOUS
<1>2. w = SumOver(f)
  BY DEF Totals
<1>s. s = [k \in 1..n |-> Percent(r[k].total, w)]
  BY DEF Shares
<1> HIDE DEF f, s, w
<1>3. w \in Nat
  BY <1>1, <1>2, SumIsNat
<1>4. \A k \in 1..n : s[k] = Percent(f[k], w) /\ s[k] \in Nat /\ w * s[k] <= 100 * f[k]
  <2> TAKE k \in 1..n
  <2>1. s[k] = Percent(f[k], w)
    BY <1>1, <1>s
  <2>2. CASE w > 0
    <3> DEFINE c == f[k] * 100
               q == c \div w
    <3>1. s[k] = q /\ c \in Nat
      BY <2>1, <2>2, <1>1 DEF Percent
    <3> HIDE DEF c
    <3>2. q \in Nat /\ w * q <= c
      BY <3>1, <2>2, <1>3, Quotient
    <3> HIDE DEF q
    <3> QED
      BY <2>1, <3>1, <3>2, <1>1 DEF c
  <2>3. CASE ~(w > 0)
    <3>1. s[k] = 0 /\ w = 0
      BY <2>1, <2>3, <1>3 DEF Percent
    <3> QED
      BY <2>1, <3>1, <1>1
  <2> QED
    BY <2>2, <2>3
<1>5. s \in Seq(Nat) /\ Len(s) = n
  <2>1. s = [k \in 1..n |-> s[k]]
    BY <1>s
  <2> QED
    BY <2>1, <1>4, IsASeq
<1>6. AddsUp(f, n, F) /\ AddsUp(s, n, P) /\ SumOver(f) = F[n] /\ SumOver(s) = P[n]
  BY <1>1, <1>5, SumsAddUp
<1> HIDE DEF F, P
<1>7. \A k \in 0..n : F[k] \in Int /\ P[k] \in Int
  <2>1. \A k \in 1..n : f[k] \in Int
    BY <1>1
  <2>2. \A k \in 1..n : s[k] \in Int
    BY <1>4
  <2>3. \A k \in 0..n : F[k] \in Int
    BY <2>1, <1>6, SumsAreInt
  <2>4. \A k \in 0..n : P[k] \in Int
    BY <2>2, <1>6, SumsAreInt
  <2> QED
    BY <2>3, <2>4
<1>8. Bad = {}
  <2> SUFFICES ASSUME Bad # {} PROVE FALSE
    OBVIOUS
  <2>1. Bad \subseteq Nat
    OBVIOUS
  <2> HIDE DEF Bad
  <2>2. PICK m \in Bad : \A k \in Bad : m <= k
    BY <2>1, LeastNatural
  <2>3. m \in 0..n /\ ~(w * P[m] <= 100 * F[m])
    BY DEF Bad
  <2>4. m \in 1..n /\ m - 1 \in 0..n
    <3>1. w * 0 = 0
      BY <1>3
    <3> QED
      BY <2>3, <3>1, <1>6 DEF AddsUp
  <2>5. w * P[m - 1] <= 100 * F[m - 1]
    BY <2>2, <2>4 DEF Bad
  <2>6. P[m] = P[m - 1] + s[m] /\ F[m] = F[m - 1] + f[m]
    BY <2>4, <1>6 DEF AddsUp
  <2> DEFINE a == P[m - 1]
             b == s[m]
             c == F[m - 1]
             d == f[m]
  <2>7. w \in Int /\ a \in Int /\ b \in Int /\ c \in Int /\ d \in Int /\ w * b <= 100 * d
    BY <2>4, <1>1, <1>3, <1>4, <1>7
  <2>8. w * a <= 100 * c /\ ~(w * (a + b) <= 100 * (c + d))
    BY <2>3, <2>5, <2>6
  <2> HIDE DEF a, b, c, d
  <2>9. w * (a + b) = w * a + w * b /\ w * a \in Int /\ w * b \in Int
    BY <2>7, Distributes
  <2> QED
    BY <2>7, <2>8, <2>9
<1>9. w * P[n] <= 100 * w /\ P[n] \in Int
  BY <1>2, <1>6, <1>7, <1>8
<1>10. P[n] <= 100
  <2>1. CASE w = 0
    <3>1. \A k \in 1..Len(s) : s[k] = 0
      BY <2>1, <1>4, <1>5 DEF Percent
    <3>2. s \in Seq(Int)
      BY <1>5
    <3> QED
      BY <3>1, <3>2, <1>6, SumOfNothing
  <2>2. CASE w > 0
    BY <2>2, <1>3, <1>9
  <2> QED
    BY <2>1, <2>2, <1>3
<1> QED
  BY <1>6, <1>10 DEF s

-----------------------------------------------------------------------------
(* Categories.                                                             *)

LEMMA LeastOfFour == ASSUME NEW I, I # {}, I \subseteq 1..4 PROVE Min(I) \in 1..4
<1>1. I \subseteq Nat
  OBVIOUS
<1>2. PICK x \in I : \A y \in I : x <= y
  BY <1>1, LeastNatural
<1>3. Min(I) \in I
  BY <1>2 DEF Min
<1> QED
  BY <1>3

LEMMA CategoriesAre ==
    /\ DOMAIN Categories = 1..4 /\ Len(Categories) = 4
    /\ Categories[1] = "salary" /\ Categories[2] = "groceries"
    /\ Categories[3] = "shopping" /\ Categories[4] = "other"
BY DEF Categories

LEMMA CategoryOf ==
    ASSUME NEW text
    PROVE  /\ \E c \in 1..4 : CategorizeTransaction(text) = Categories[c]
           /\ PhoneCategorize(text) = CategorizeTransaction(text)
<1> DEFINE I == {i \in 1..Len(Categories) : Categories[i] \in Matching[text]}
           k == IF I # {} THEN Min(I) ELSE 0
<1>1. CategorizeTransaction(text) = IF k = 0 THEN "other" ELSE Categories[k]
  BY DEF CategorizeTransaction, SelectInSeq
<1>2. PhoneCategorize(text) = IF k = 0 THEN "other" ELSE Categories[k]
  BY DEF PhoneCategorize, SelectInSeq, PhoneCategories
<1>3. I \subseteq 1..4
  BY CategoriesAre
<1> HIDE DEF I
<1>4. k \in 0..4
  <2>1. CASE I = {}
    BY <2>1
  <2>2. CASE I # {}
    <3>1. Min(I) \in 1..4
      BY <2>2, <1>3, LeastOfFour
    <3> QED
      BY <2>2, <3>1
  <2> QED
    BY <2>1, <2>2
<1> HIDE DEF k
<1>5. \E c \in 1..4 : CategorizeTransaction(text) = Categories[c]
  BY <1>1, <1>4, CategoriesAre
<1> QED
  BY <1>1, <1>2, <1>5

-----------------------------------------------------------------------------
(* The newest rows first are the same rows.                                *)
PageOrder(S, I, R, n, order) ==
    /\ order \in [1..n -> I]
    /\ \A j, k \in 1..n : j # k => order[j] # order[k]
    /\ \A i \in I : \E k \in 1..n : order[k] = i
    /\ DOMAIN R = 1..n /\ R \in Seq(StatementRow)
    /\ \A k \in 1..n : R[k] = S[order[k]]
    /\ \A j, k \in 1..n : j < k => R[k].at <= R[j].at

LEMMA NewestFirstOf ==
    ASSUME NEW S \in Seq(StatementRow), NEW I \in SUBSET DOMAIN S
    PROVE  \E order : PageOrder(S, I, NewestFirst(S, I), Cardinality(I), order)
<1> DEFINE key == [i \in I |-> S[i].at]
           n == Cardinality(I)
           order == Sorted(key)
           R == NewestFirst(S, I)
<1>1. I \subseteq Nat /\ IsFiniteSet(I) /\ n \in Nat
  BY PositionsOf
<1>2. key \in [I -> Int] /\ \A i \in I : key[i] = S[i].at /\ S[i] \in StatementRow
  BY RowFields
<1>3. R = Arranged(S, key)
  BY DEF NewestFirst
<1> HIDE DEF key, R
<1>4. OrderOf(key, I, n, order) /\ R = [k \in 1..n |-> S[order[k]]]
  BY <1>1, <1>2, <1>3, Arranging
<1> HIDE DEF n, order
<1>5. \A k \in 1..n : order[k] \in I /\ R[k] = S[order[k]] /\ R[k] \in StatementRow
  BY <1>2, <1>4 DEF OrderOf
<1>6. R \in [1..n -> StatementRow]
  BY <1>4, <1>5
<1>7. R \in Seq(StatementRow)
  BY <1>1, <1>6, FunIsSeq
<1>8. \A j, k \in 1..n : j < k => R[k].at <= R[j].at
  <2> SUFFICES ASSUME NEW j \in 1..n, NEW k \in 1..n, j < k PROVE R[k].at <= R[j].at
    OBVIOUS
  <2>1. key[order[j]] >= key[order[k]]
    BY <1>4 DEF OrderOf
  <2>2. key[order[j]] = R[j].at /\ key[order[k]] = R[k].at
    BY <1>2, <1>5
  <2>3. R[j].at \in Int /\ R[k].at \in Int
    BY <1>2, <1>5, <2>2
  <2> QED
    BY <2>1, <2>2, <2>3
<1>9. DOMAIN R = 1..n
  BY <1>4
<1>10. /\ order \in [1..n -> I]
       /\ \A j, k \in 1..n : j # k => order[j] # order[k]
       /\ \A i \in I : \E k \in 1..n : order[k] = i
  BY <1>4 DEF OrderOf
<1>11. PageOrder(S, I, R, n, order)
  BY <1>5, <1>7, <1>8, <1>9, <1>10, Zenon DEF PageOrder
<1> QED
  BY <1>11 DEF n, R

(* A page of rows carries the amounts of the rows it shows.                *)
LEMMA PageTotal ==
    ASSUME NEW S \in Seq(StatementRow), NEW I \in SUBSET DOMAIN S
    PROVE  /\ NewestFirst(S, I) \in Seq(StatementRow)
           /\ SumDebits(NewestFirst(S, I), DOMAIN NewestFirst(S, I)) = SumDebits(S, I)
<1> DEFINE n == Cardinality(I)
           R == NewestFirst(S, I)
           D == DOMAIN S
           K == Debits(R, DOMAIN R)
           mu == [A \in SUBSET D |-> Total(S, A)]
           U == Debits(S, I)
<1>0. PICK order : PageOrder(S, I, R, n, order)
  BY NewestFirstOf
<1>1. /\ order \in [1..n -> I]
      /\ \A j, k \in 1..n : j # k => order[j] # order[k]
      /\ \A i \in I : \E k \in 1..n : order[k] = i
      /\ DOMAIN R = 1..n /\ R \in Seq(StatementRow)
      /\ \A k \in 1..n : R[k] = S[order[k]]
  BY <1>0 DEF PageOrder
<1>2. n \in Nat
  BY PositionsOf
<1> HIDE DEF n, R
<1> DEFINE G == [k \in 1..n |-> IF k \in K THEN {order[k]} ELSE {}]
<1>3. \A k \in 1..n : order[k] \in D /\ order[k] \in I
  BY <1>1
<1>4. \A k \in 1..n : k \in K <=> order[k] \in U
  BY <1>1, <1>3 DEF Debits
<1>5. G \in [1..n -> SUBSET D] /\ \A k \in 1..n : G[k] = IF k \in K THEN {order[k]} ELSE {}
  BY <1>3
<1>6. U \in SUBSET D /\ U \subseteq I
  BY DEF Debits
<1>7. Measure(D, mu)
  BY Totalling
<1>8. \A k \in 1..n : mu[G[k]] = IF k \in K THEN R[k].amount ELSE 0
  <2> TAKE k \in 1..n
  <2>1. G[k] \in SUBSET D /\ mu[G[k]] = Total(S, G[k])
    BY <1>5
  <2>2. CASE k \in K
    <3>1. G[k] = {order[k]}
      BY <1>5, <2>2
    <3>2. Total(S, {order[k]}) = R[k].amount
      BY <1>1, <1>3, TotalOfOne
    <3> QED
      BY <2>1, <2>2, <3>1, <3>2
  <2>3. CASE k \notin K
    <3>1. G[k] = {}
      BY <1>5, <2>3
    <3> QED
      BY <2>1, <2>3, <3>1, TotalOfNone
  <2> QED
    BY <2>2, <2>3
<1>9. mu[U] = Total(S, U)
  BY <1>6
<1> HIDE DEF G, mu, U, K, D
<1>10. Family(D, n, G, U)
  <2>1. \A j, k \in 1..n : j # k => G[j] \cap G[k] = {}
    BY <1>1, <1>5
  <2>2. \A i \in D : i \in U <=> \E k \in 1..n : i \in G[k]
    <3> TAKE i \in D
    <3>1. ASSUME i \in U PROVE \E k \in 1..n : i \in G[k]
      <4>1. PICK k \in 1..n : order[k] = i
        BY <3>1, <1>1, <1>6
      <4> QED
        BY <3>1, <4>1, <1>4, <1>5
    <3>2. ASSUME NEW k \in 1..n, i \in G[k] PROVE i \in U
      BY <3>2, <1>4, <1>5
    <3> QED
      BY <3>1, <3>2
  <2> QED
    BY <1>2, <1>5, <1>6, <2>1, <2>2 DEF Family
<1>11. SumOver([k \in 1..n |-> mu[G[k]]]) = mu[U]
  BY <1>7, <1>10, FamilySum
<1>12. [k \in DOMAIN R |-> IF k \in K THEN R[k].amount ELSE 0] = [k \in 1..n |-> mu[G[k]]]
  BY <1>1, <1>8
<1>13. Total(R, K) = Total(S, U)
  BY <1>9, <1>11, <1>12 DEF Total
<1> QED
  BY <1>1, <1>13 DEF SumDebits, K, U, R

LEMMA FewShares ==
    ASSUME NEW T, \A t \in T : t.total \in Nat, NEW r \in Seq(T), NEW limit \in Nat
    PROVE  SumOver(Shares(FirstFew(r, limit))) <= 100
<1> DEFINE p == FirstFew(r, limit)
<1>0. \E m \in 0..Len(r) :
        /\ p \in Seq(T) /\ Len(p) = m
        /\ DOMAIN p = 1..m
        /\ \A k \in 1..m : p[k] = r[k]
        /\ Len(r) <= limit => p = r
        /\ m <= limit
  BY FirstFewOf, Zenon
<1>1. PICK m \in 0..Len(r) : p \in Seq(T) /\ DOMAIN p = 1..m
  BY <1>0, Zenon
<1> HIDE DEF p
<1>2. m \in Nat /\ \A k \in 1..m : p[k].total \in Nat
  <2>1. m \in Nat
    BY LenProperties
  <2>2. \A k \in 1..m : p[k] \in T
    BY <1>1
  <2> QED
    BY <2>1, <2>2
<1>3. SumOver(Shares(p)) <= 100
  BY <1>1, <1>2, SharesAreShares
<1> QED
  BY <1>3 DEF p

(* What is ranked by a label adds up to the labelled rows, and its shares  *)
(* to no more than the whole.                                              *)
LEMMA RankingByLabel ==
    ASSUME NEW S \in Seq(StatementRow), NEW I \in SUBSET DOMAIN S, NEW label, DOMAIN label = I
    PROVE  /\ IsRanking(Ranking(S, GroupBy(label)))
           /\ Totals(Ranking(S, GroupBy(label))) = Total(S, I)
           /\ \A limit \in Nat :
                 /\ IsRanking(FirstFew(Ranking(S, GroupBy(label)), limit))
                 /\ Totals(FirstFew(Ranking(S, GroupBy(label)), limit)) <= Total(S, I)
                 /\ Len(S) <= limit => FirstFew(Ranking(S, GroupBy(label)), limit)
                                          = Ranking(S, GroupBy(label))
                 /\ SumOver(Shares(FirstFew(Ranking(S, GroupBy(label)), limit))) <= 100
<1> DEFINE groups == GroupBy(label)
           R == Ranking(S, groups)
           T == [name : {groups[g].name : g \in DOMAIN groups}, total : Nat, count : Nat]
<1>1. /\ Grouped(S, groups, DOMAIN groups) /\ RowsOf(groups) = I
      /\ DOMAIN groups \in SUBSET DOMAIN S
  BY GroupingByLabel
<1>2. Cardinality(DOMAIN groups) <= Len(S) /\ Cardinality(DOMAIN groups) \in Nat /\ Len(S) \in Nat
  BY <1>1, PositionsOf, LenProperties
<1> HIDE DEF groups
<1>3. \A g \in DOMAIN groups : RankOf(S, groups, g) \in T
  <2> TAKE g \in DOMAIN groups
  <2>1. groups[g].rows \in SUBSET DOMAIN S
    BY <1>1 DEF Grouped
  <2>2. Cardinality(groups[g].rows) \in Nat /\ Total(S, groups[g].rows) \in Nat
    BY <2>1, PositionsOf, TotalIsNat
  <2> QED
    BY <2>2 DEF RankOf
<1> HIDE DEF T
<1>4. IsRanking(R) /\ Totals(R) = Total(S, I) /\ R \in Seq(T)
  BY <1>1, <1>3, RankingAddsUp
<1>5. ASSUME NEW limit \in Nat
      PROVE  /\ IsRanking(FirstFew(R, limit)) /\ Totals(FirstFew(R, limit)) <= Total(S, I)
             /\ Cardinality(DOMAIN groups) <= limit => FirstFew(R, limit) = R
  BY <1>1, FewRanksAddUp
<1> HIDE DEF R
<1>6. ASSUME NEW limit \in Nat PROVE SumOver(Shares(FirstFew(R, limit))) <= 100
  <2>1. \A t \in T : t.total \in Nat
    BY DEF T
  <2> QED
    BY <1>4, <2>1, FewShares
<1>7. ASSUME NEW limit \in Nat, Len(S) <= limit PROVE FirstFew(R, limit) = R
  BY <1>2, <1>5, <1>7
<1> QED
  BY <1>4, <1>5, <1>6, <1>7 DEF R, groups

-----------------------------------------------------------------------------
(* The categories of a month.                                              *)
SummaryGroups(S, label) ==
    LET used == {c \in DOMAIN Categories : Total(S, Labelled(label, Categories[c])) > 0}
    IN [c \in used |-> [name |-> Categories[c], rows |-> Labelled(label, Categories[c])]]

ByCategory(label, I) ==
    DOMAIN label = I /\ \A i \in I : \E c \in 1..4 : label[i] = Categories[c]

LEMMA GroupingByCategory ==
    ASSUME NEW S \in Seq(StatementRow), NEW I \in SUBSET DOMAIN S, NEW label, ByCategory(label, I)
    PROVE  /\ Grouped(S, SummaryGroups(S, label), DOMAIN SummaryGroups(S, label))
           /\ RowsOf(SummaryGroups(S, label)) = I
           /\ Summary(S, label) = Ranking(S, SummaryGroups(S, label))
           /\ \A g \in DOMAIN SummaryGroups(S, label) :
                 /\ SummaryGroups(S, label)[g].rows = Labelled(label, SummaryGroups(S, label)[g].name)
                 /\ SummaryGroups(S, label)[g].name # "any"
<1> DEFINE used == {c \in 1..4 : Total(S, Labelled(label, Categories[c])) > 0}
           G == SummaryGroups(S, label)
<1>1. /\ DOMAIN G = used
      /\ \A c \in used : G[c].name = Categories[c] /\ G[c].rows = Labelled(label, Categories[c])
  BY CategoriesAre DEF SummaryGroups
<1>2. Summary(S, label) = Ranking(S, G)
  BY DEF Summary, SummaryGroups
<1>3. used \subseteq Nat /\ IsFiniteSet(used) /\ used \subseteq 1..4
  <2>1. used \subseteq 1..4
    OBVIOUS
  <2> HIDE DEF used
  <2>2. used \in SUBSET Nat /\ 4 \in Nat /\ \A c \in used : c <= 4
    BY <2>1
  <2> QED
    BY <2>1, <2>2, FS_BoundedSetOfNaturals
<1>4. \A name : Labelled(label, name) = {i \in I : label[i] = name}
  BY DEF Labelled, ByCategory
<1>5. \A c, d \in 1..4 : c # d => Categories[c] # Categories[d]
  BY CategoriesAre
<1>6. ASSUME NEW i \in I PROVE \E c \in used : i \in Labelled(label, Categories[c])
  <2>1. PICK c \in 1..4 : label[i] = Categories[c]
    BY DEF ByCategory
  <2>2. i \in Labelled(label, Categories[c]) /\ i \in DOMAIN S
    BY <2>1, <1>4
  <2>3. Total(S, Labelled(label, Categories[c])) > 0
    BY <2>2, TotalOfSome
  <2> QED
    BY <2>2, <2>3
<1> HIDE DEF used, G
<1>7. Grouped(S, G, DOMAIN G)
  <2>1. \A g \in used : G[g].rows \in SUBSET DOMAIN S
    BY <1>1, <1>4
  <2>2. ASSUME NEW g \in used, NEW h \in used, g # h
        PROVE  G[g].name # G[h].name /\ G[g].rows \cap G[h].rows = {}
    <3>1. Categories[g] # Categories[h]
      BY <2>2, <1>3, <1>5
    <3> QED
      BY <3>1, <1>1, <1>4
  <2> QED
    BY <2>1, <2>2, <1>1, <1>3 DEF Grouped
<1>8. RowsOf(G) = I
  <2>1. \A c \in used : G[c].rows \subseteq I
    BY <1>1, <1>4
  <2> QED
    BY <2>1, <1>1, <1>6 DEF RowsOf
<1>9. \A g \in used : G[g].name # "any"
  BY <1>1, <1>3, CategoriesAre
<1> QED
  BY <1>1, <1>2, <1>7, <1>8, <1>9 DEF G

EntriesOf(S, label, r) ==
    \A k \in DOMAIN r : r[k].total = Total(S, Labelled(label, r[k].name)) /\ r[k].name # "any"

(* Each category has the total of the rows of its label.                   *)
LEMMA SummaryAddsUp ==
    ASSUME NEW S \in Seq(StatementRow), NEW I \in SUBSET DOMAIN S, NEW label, ByCategory(label, I)
    PROVE  /\ IsRanking(Summary(S, label))
           /\ Totals(Summary(S, label)) = Total(S, I)
           /\ Counts(Summary(S, label)) = Cardinality(I)
           /\ SumOver(Shares(Summary(S, label))) <= 100
           /\ EntriesOf(S, label, Summary(S, label))
           /\ \A limit \in Nat : \A k \in DOMAIN FirstFew(Summary(S, label), limit) :
                 FirstFew(Summary(S, label), limit)[k].total <= Total(S, I)
<1> DEFINE groups == SummaryGroups(S, label)
           R == Summary(S, label)
           T == {t \in [name : {groups[g].name : g \in DOMAIN groups}, total : Nat, count : Nat] :
                     t.total = Total(S, Labelled(label, t.name)) /\ t.name # "any"}
<1>1. /\ Grouped(S, groups, DOMAIN groups) /\ RowsOf(groups) = I /\ R = Ranking(S, groups)
      /\ \A g \in DOMAIN groups : groups[g].rows = Labelled(label, groups[g].name) /\ groups[g].name # "any"
  BY GroupingByCategory
<1> HIDE DEF groups
<1>2. \A g \in DOMAIN groups : RankOf(S, groups, g) \in T
  <2> TAKE g \in DOMAIN groups
  <2>1. groups[g].rows \in SUBSET DOMAIN S
    BY <1>1 DEF Grouped
  <2>2. Cardinality(groups[g].rows) \in Nat /\ Total(S, groups[g].rows) \in Nat
    BY <2>1, PositionsOf, TotalIsNat
  <2> QED
    BY <1>1, <2>2 DEF RankOf
<1>3. \A t \in T : t.total \in Nat /\ t.total = Total(S, Labelled(label, t.name)) /\ t.name # "any"
  OBVIOUS
<1>4. \A name : Total(S, Labelled(label, name)) <= Total(S, I)
  <2> TAKE name
  <2>1. Labelled(label, name) \subseteq I
    BY DEF Labelled, ByCategory
  <2> QED
    BY <2>1, TotalGrows
<1> HIDE DEF T, R
<1>5. /\ IsRanking(R) /\ Totals(R) = Total(S, I) /\ Counts(R) = Cardinality(I)
      /\ R \in Seq(T)
  BY <1>1, <1>2, RankingAddsUp
<1>6. DOMAIN R = 1..Len(R) /\ Len(R) \in Nat /\ \A k \in DOMAIN R : R[k] \in T
  BY <1>5, LenProperties
<1>7. SumOver(Shares(R)) <= 100
  <2>1. \A k \in 1..Len(R) : R[k].total \in Nat
    BY <1>3, <1>6
  <2> QED
    BY <2>1, <1>6, SharesAreShares
<1>8. ASSUME NEW limit \in Nat, NEW k \in DOMAIN FirstFew(R, limit)
      PROVE  FirstFew(R, limit)[k].total <= Total(S, I)
  <2> DEFINE p == FirstFew(R, limit)
  <2>1. p \in Seq(T) /\ k \in DOMAIN p
    BY <1>5, FirstFewOf
  <2> HIDE DEF p
  <2>2. p[k] \in T
    BY <2>1
  <2>3. p[k].total <= Total(S, I)
    BY <2>2, <1>3, <1>4
  <2> QED
    BY <2>3 DEF p
<1>9. \A k \in DOMAIN R : R[k].total = Total(S, Labelled(label, R[k].name)) /\ R[k].name # "any"
  BY <1>3, <1>6
<1>10. EntriesOf(S, label, R)
  BY <1>9 DEF EntriesOf
<1> QED
  BY <1>5, <1>7, <1>8, <1>10 DEF R

-----------------------------------------------------------------------------
(* The screens of Masroofi.                                                *)

LEMMA MonthsAreRows ==
    ASSUME NEW S, NEW back
    PROVE  GetMonthTransactions(S, back) \in SUBSET DOMAIN S
BY DEF GetMonthTransactions, TransactionsInRange

LEMMA DebitsAreRows ==
    ASSUME NEW S, NEW I \in SUBSET DOMAIN S
    PROVE  /\ Debits(S, I) \in SUBSET DOMAIN S /\ Credits(S, I) \in SUBSET DOMAIN S
           /\ Debits(S, I) \subseteq I /\ Credits(S, I) \subseteq I
BY DEF Debits, Credits

(* The categories of a set of rows add up to its debits.                   *)
InCategory(S, I, name) == {i \in Debits(S, I) : PhoneCategorize(S[i].text) = name}

LEMMA MonthSummary ==
    ASSUME NEW S \in Seq(StatementRow), NEW I \in SUBSET DOMAIN S
    PROVE  /\ IsRanking(BuildSpendingSummary(S, I))
           /\ Totals(BuildSpendingSummary(S, I)) = SumDebits(S, I)
           /\ Counts(BuildSpendingSummary(S, I)) = Cardinality(Debits(S, I))
           /\ SumOver(Shares(BuildSpendingSummary(S, I))) <= 100
           /\ PhoneSpendingSummary(S, I) = BuildSpendingSummary(S, I)
           /\ \A k \in DOMAIN BuildSpendingSummary(S, I) :
                 /\ BuildSpendingSummary(S, I)[k].total
                       = Total(S, InCategory(S, I, BuildSpendingSummary(S, I)[k].name))
                 /\ BuildSpendingSummary(S, I)[k].name # "any"
           /\ \A limit \in Nat : \A k \in DOMAIN FirstFew(BuildSpendingSummary(S, I), limit) :
                 FirstFew(BuildSpendingSummary(S, I), limit)[k].total <= SumDebits(S, I)
<1> DEFINE D == Debits(S, I)
           label == [i \in D |-> CategorizeTransaction(S[i].text)]
           R == BuildSpendingSummary(S, I)
<1>1. D \in SUBSET DOMAIN S
  BY DebitsAreRows
<1>2. \A i \in D : /\ \E c \in 1..4 : CategorizeTransaction(S[i].text) = Categories[c]
                   /\ PhoneCategorize(S[i].text) = CategorizeTransaction(S[i].text)
  BY CategoryOf
<1>3. PhoneSpendingSummary(S, I) = Summary(S, [i \in D |-> PhoneCategorize(S[i].text)])
  BY DEF PhoneSpendingSummary
<1>4. R = Summary(S, label)
  BY DEF BuildSpendingSummary
<1>5. \A name : Labelled(label, name) = InCategory(S, I, name)
  BY <1>2 DEF Labelled, InCategory
<1>6. ByCategory(label, D)
  BY <1>2 DEF ByCategory
<1>7. [i \in D |-> PhoneCategorize(S[i].text)] = label
  BY <1>2
<1>8. SumDebits(S, I) = Total(S, D)
  BY DEF SumDebits
<1> HIDE DEF D, label, R
<1>9. PhoneSpendingSummary(S, I) = R
  BY <1>3, <1>4, <1>7
<1>10. /\ IsRanking(R) /\ Totals(R) = Total(S, D) /\ Counts(R) = Cardinality(D)
       /\ SumOver(Shares(R)) <= 100
  BY <1>1, <1>4, <1>6, SummaryAddsUp
<1>11. \A k \in DOMAIN R : R[k].total = Total(S, Labelled(label, R[k].name)) /\ R[k].name # "any"
  <2>1. EntriesOf(S, label, R)
    BY <1>1, <1>4, <1>6, SummaryAddsUp
  <2> QED
    BY <2>1 DEF EntriesOf
<1>12. \A limit \in Nat : \A k \in DOMAIN FirstFew(R, limit) : FirstFew(R, limit)[k].total <= Total(S, D)
  BY <1>1, <1>4, <1>6, SummaryAddsUp
<1>13. \A k \in DOMAIN R : R[k].total = Total(S, InCategory(S, I, R[k].name)) /\ R[k].name # "any"
  BY <1>5, <1>11
<1> QED
  BY <1>8, <1>9, <1>10, <1>12, <1>13 DEF D, R

LEMMA MerchantsAddUp ==
    ASSUME NEW S \in Seq(StatementRow), NEW I \in SUBSET DOMAIN S, NEW limit \in Nat
    PROVE  /\ IsRanking(BuildMerchantSummary(S, I, limit))
           /\ Totals(BuildMerchantSummary(S, I, limit)) <= SumDebits(S, I)
           /\ PhoneMerchantSummary(S, I, limit) = BuildMerchantSummary(S, I, limit)
<1> DEFINE D == Debits(S, I)
           label == [i \in D |-> Payee(S[i])]
<1>1. D \in SUBSET DOMAIN S /\ DOMAIN label = D
  BY DebitsAreRows
<1>2. BuildMerchantSummary(S, I, limit) = FirstFew(Ranking(S, GroupBy(label)), limit)
  BY DEF BuildMerchantSummary
<1>3. PhoneMerchantSummary(S, I, limit) = FirstFew(Ranking(S, GroupBy(label)), limit)
  BY DEF PhoneMerchantSummary
<1>4. SumDebits(S, I) = Total(S, D)
  BY DEF SumDebits
<1> HIDE DEF D, label
<1> QED
  BY <1>1, <1>2, <1>3, <1>4, RankingByLabel

(* Masroofi's web pages.                                                   *)
LEMMA SpendingIsRight == ASSUME list \in Seq(StatementRow) PROVE SpendingAddsUp
<1> DEFINE tx == GetMonthTransactions(list, 0)
           R == BuildSpendingSummary(list, tx)
           month == SpendingMonth(list, 0)
<1>1. tx \in SUBSET DOMAIN list
  BY MonthsAreRows
<1>2. /\ month.tx = tx /\ month.summary = R /\ month.spending = Totals(R)
      /\ month.income = SumCredits(list, tx)
  BY DEF SpendingMonth
<1>3. StatsRow(list).spent = month.spending
      /\ StatsRow(list).count = Cardinality(Debits(list, month.tx))
      /\ StatsRow(list).before = SpendingMonth(list, 1).spending
  BY DEF StatsRow
<1>4. MonthlyBars(list)[1] = SpendingMonth(list, 1).spending
  BY DEF MonthlyBars
<1>5. /\ MasroofiDashboard(list).spending = Totals(R)
      /\ MasroofiDashboard(list).income = SumCredits(list, tx)
      /\ MasroofiDashboard(list).net = SumCredits(list, tx) - Totals(R)
  BY DEF MasroofiDashboard, DashboardMonth
<1>6. IncomeVsSpending(list).net = MasroofiDashboard(list).net
  BY DEF IncomeVsSpending
<1>7. SpendingMini(list).total = Totals(R)
  BY DEF SpendingMini, SpendingChart, DashboardMonth
<1>8. Breakdown(list).count = Counts(month.summary)
  BY DEF Breakdown
<1>9. TopMerchants(list) = BuildMerchantSummary(list, month.tx, Top)
  BY DEF TopMerchants
<1> HIDE DEF tx, R, month
<1>10. /\ IsRanking(R) /\ Totals(R) = SumDebits(list, tx) /\ Counts(R) = Cardinality(Debits(list, tx))
       /\ SumOver(Shares(R)) <= 100
  BY <1>1, MonthSummary DEF R
<1>11. Top \in Nat
  BY StatementsAssumption
<1>12. IsRanking(BuildMerchantSummary(list, tx, Top))
       /\ Totals(BuildMerchantSummary(list, tx, Top)) <= SumDebits(list, tx)
  BY <1>1, <1>11, MerchantsAddUp
<1>13. SumCredits(list, tx) \in Nat /\ SumDebits(list, tx) \in Nat
  BY TotalIsNat DEF SumCredits, SumDebits
<1>14. IncomeVsSpending(list).net + StatsRow(list).spent = month.income
  BY <1>2, <1>3, <1>5, <1>6, <1>10, <1>13
<1> QED
  BY <1>2, <1>3, <1>4, <1>5, <1>7, <1>8, <1>9, <1>10, <1>12, <1>14 DEF SpendingAddsUp, month

-----------------------------------------------------------------------------
(* The bars of a chart: disjoint sets of rows.                             *)
LEMMA BarsAddUp ==
    ASSUME NEW S \in Seq(StatementRow), NEW n, NEW G, NEW U, Family(DOMAIN S, n, G, U)
    PROVE  /\ SumOver([k \in 1..n |-> Total(S, G[k])]) = Total(S, U)
           /\ SumOver([k \in 1..n |-> SumCredits(S, G[k])]) = SumCredits(S, U)
           /\ SumOver([k \in 1..n |-> SumCredits(S, G[k]) - SumDebits(S, G[k])])
                 = SumCredits(S, U) - SumDebits(S, U)
           /\ SumOver([k \in 1..n |-> Cardinality(G[k])]) = Cardinality(U)
<1> DEFINE D == DOMAIN S
           mu == [A \in SUBSET D |-> Total(S, A)]
           cr == [A \in SUBSET D |-> SumCredits(S, A)]
           ne == [A \in SUBSET D |-> SumCredits(S, A) - SumDebits(S, A)]
           nu == [A \in SUBSET D |-> Cardinality(A)]
<1>1. /\ \A k \in 1..n : G[k] \in SUBSET D
      /\ U \in SUBSET D
  BY DEF Family
<1>2. Measure(D, mu) /\ Measure(D, cr) /\ Measure(D, ne) /\ Measure(D, nu)
  <2>1. D \in SUBSET D
    OBVIOUS
  <2>2. IsFiniteSet(D)
    BY <2>1, PositionsOf
  <2> QED
    BY <2>2, Totalling, Counting, Crediting
<1>3. \A A \in SUBSET D : /\ mu[A] = Total(S, A) /\ cr[A] = SumCredits(S, A)
                          /\ ne[A] = SumCredits(S, A) - SumDebits(S, A) /\ nu[A] = Cardinality(A)
  OBVIOUS
<1>4. Family(D, n, G, U)
  OBVIOUS
<1> HIDE DEF mu, cr, ne, nu, D
<1>5. SumOver([k \in 1..n |-> mu[G[k]]]) = mu[U]
  BY <1>2, <1>4, FamilySum
<1>6. SumOver([k \in 1..n |-> cr[G[k]]]) = cr[U]
  BY <1>2, <1>4, FamilySum
<1>7. SumOver([k \in 1..n |-> ne[G[k]]]) = ne[U]
  BY <1>2, <1>4, FamilySum
<1>8. SumOver([k \in 1..n |-> nu[G[k]]]) = nu[U]
  BY <1>2, <1>4, FamilySum
<1>9. /\ [k \in 1..n |-> mu[G[k]]] = [k \in 1..n |-> Total(S, G[k])]
      /\ [k \in 1..n |-> cr[G[k]]] = [k \in 1..n |-> SumCredits(S, G[k])]
      /\ [k \in 1..n |-> ne[G[k]]] = [k \in 1..n |-> SumCredits(S, G[k]) - SumDebits(S, G[k])]
      /\ [k \in 1..n |-> nu[G[k]]] = [k \in 1..n |-> Cardinality(G[k])]
  BY <1>1, <1>3
<1> QED
  BY <1>1, <1>3, <1>5, <1>6, <1>7, <1>8, <1>9

(* The bars of a category's sparkline are rows of the category.            *)
LEMMA SparklineIsPart ==
    ASSUME NEW S \in Seq(StatementRow), NEW I \in SUBSET DOMAIN S, NEW name
    PROVE  SumOver(BuildCategorySparkline(S, I, name)) <= Total(S, InCategory(S, I, name))
<1> DEFINE G == [k \in 1..Days |->
                    {i \in Debits(S, I) : /\ PhoneCategorize(S[i].text) = name
                                          /\ (Now - S[i].at) \div Slots = Days - k}]
           U == UNION {G[k] : k \in 1..Days}
<1>1. Days \in Nat /\ Debits(S, I) \in SUBSET DOMAIN S
  BY DebitsAreRows, StatementsAssumption
<1>2. G \in [1..Days -> SUBSET DOMAIN S]
  BY <1>1
<1>3. \A j, k \in 1..Days : j # k => G[j] \cap G[k] = {}
  <2>1. \A j, k \in 1..Days : j # k => Days - j # Days - k
    BY <1>1
  <2> QED
    BY <2>1
<1>4. U \subseteq InCategory(S, I, name) /\ U \in SUBSET DOMAIN S
  BY <1>1 DEF InCategory
<1>5. Family(DOMAIN S, Days, G, U)
  BY <1>1, <1>2, <1>3, <1>4 DEF Family
<1>6. BuildCategorySparkline(S, I, name) = [k \in 1..Days |-> Total(S, G[k])]
  BY DEF BuildCategorySparkline
<1> HIDE DEF G, U
<1>7. SumOver([k \in 1..Days |-> Total(S, G[k])]) = Total(S, U)
  BY <1>5, BarsAddUp
<1> QED
  BY <1>4, <1>6, <1>7, TotalGrows

(* The rows behind a category of the phone app.                            *)
LEMMA CategoryPage ==
    ASSUME NEW S \in Seq(StatementRow), NEW I \in SUBSET DOMAIN S, NEW name, name # "any"
    PROVE  SumDebits(PhoneFilteredRows(S, I, name, ""), DOMAIN PhoneFilteredRows(S, I, name, ""))
              = Total(S, InCategory(S, I, name))
<1> DEFINE J == {i \in I : PhoneCategorize(S[i].text) = name}
<1>1. PhoneFilteredRows(S, I, name, "") = NewestFirst(S, J)
  <2>1. {i \in I : /\ name = "any" \/ PhoneCategorize(S[i].text) = name
                   /\ "" = "" \/ "" \in {S[i].text, S[i].merchant}} = J
    OBVIOUS
  <2> QED
    BY <2>1 DEF PhoneFilteredRows
<1>2. J \in SUBSET DOMAIN S
  OBVIOUS
<1>3. Debits(S, J) = InCategory(S, I, name)
  BY DEF Debits, InCategory
<1> HIDE DEF J
<1> QED
  BY <1>1, <1>2, <1>3, PageTotal DEF SumDebits

(* Masroofi's phone app.                                                   *)
LEMMA PhoneSpendingIsRight == ASSUME list \in Seq(StatementRow) PROVE PhoneSpendingAddsUp
<1> DEFINE I == PhoneMonth(list)
           R == BuildSpendingSummary(list, I)
           dash == PhoneDashboard(list)
           pg == PhoneSpending(list)
<1>1. I \in SUBSET DOMAIN list
  BY DEF PhoneMonth, TransactionsInRange
<1>2. /\ IsRanking(R) /\ Totals(R) = SumDebits(list, I) /\ PhoneSpendingSummary(list, I) = R
      /\ \A k \in DOMAIN R : R[k].total = Total(list, InCategory(list, I, R[k].name)) /\ R[k].name # "any"
      /\ \A limit \in Nat : \A k \in DOMAIN FirstFew(R, limit) :
            FirstFew(R, limit)[k].total <= SumDebits(list, I)
  BY <1>1, MonthSummary
<1>3. /\ dash.spending = SumDebits(list, I)
      /\ dash.top = FirstFew(PhoneSpendingSummary(list, I), 4)
  BY DEF PhoneDashboard
<1>4. /\ pg.summary = PhoneSpendingSummary(list, I)
      /\ pg.merchants = PhoneMerchantSummary(list, I, Top)
      /\ pg.trend = BuildMonthlyTrend(list)
  BY DEF PhoneSpending
<1>5. pg.trend[Months] = SumDebits(list, I)
  <2>1. Months \in 1..Months /\ Months - Months = 0
    BY StatementsAssumption
  <2>2. BuildMonthlyTrend(list)[Months] = SumDebits(list, GetMonthTransactions(list, 0))
    BY <2>1 DEF BuildMonthlyTrend
  <2>3. ~(0 > Today \div DaysPerMonth)
    BY NowIsNat, StatementsAssumption, Quotient
  <2>4. GetMonthTransactions(list, 0) = I
    BY <2>3 DEF GetMonthTransactions, PhoneMonth
  <2> QED
    BY <1>4, <2>2, <2>4
<1>6. IsRanking(PhoneMerchantSummary(list, I, Top))
  <2>1. Top \in Nat
    BY StatementsAssumption
  <2> QED
    BY <1>1, <2>1, MerchantsAddUp
<1>7. \A name : CategorySparkRow(list, name) = BuildCategorySparkline(list, I, name)
  BY DEF CategorySparkRow
<1>8. DOMAIN TopCategories(list) = DOMAIN dash.top
      /\ \A k \in DOMAIN dash.top : TopCategories(list)[k].total = dash.top[k].total
  BY DEF TopCategories
<1> HIDE DEF I, R, dash, pg
<1>9. \A k \in DOMAIN R :
         /\ SumOver(CategorySparkRow(list, R[k].name)) <= R[k].total
         /\ LET shown == PhoneFilteredRows(list, I, R[k].name, "")
            IN R[k].total = SumDebits(shown, DOMAIN shown)
  <2> SUFFICES ASSUME NEW k \in DOMAIN R
               PROVE  /\ SumOver(CategorySparkRow(list, R[k].name)) <= R[k].total
                      /\ LET shown == PhoneFilteredRows(list, I, R[k].name, "")
                         IN R[k].total = SumDebits(shown, DOMAIN shown)
    OBVIOUS
  <2> DEFINE name == R[k].name
  <2>1. R[k].total = Total(list, InCategory(list, I, name)) /\ name # "any"
    BY <1>2
  <2> HIDE DEF name
  <2>2. SumOver(BuildCategorySparkline(list, I, name)) <= Total(list, InCategory(list, I, name))
    BY <1>1, SparklineIsPart
  <2>3. SumDebits(PhoneFilteredRows(list, I, name, ""), DOMAIN PhoneFilteredRows(list, I, name, ""))
           = Total(list, InCategory(list, I, name))
    BY <1>1, <2>1, CategoryPage
  <2>4. CategorySparkRow(list, name) = BuildCategorySparkline(list, I, name)
    BY <1>7
  <2> QED
    BY <2>1, <2>2, <2>3, <2>4 DEF name
<1>10. \A k \in DOMAIN TopCategories(list) : TopCategories(list)[k].total <= dash.spending
  <2>1. 4 \in Nat
    OBVIOUS
  <2> QED
    BY <2>1, <1>2, <1>3, <1>8
<1>11. dash.spending = Totals(pg.summary) /\ pg.trend[Months] = dash.spending
  BY <1>2, <1>3, <1>4, <1>5
<1>12. IsRanking(pg.merchants) /\ IsRanking(pg.summary)
  BY <1>2, <1>4, <1>6
<1>13. pg.summary = R
  BY <1>2, <1>4
<1>14. /\ \A k \in DOMAIN pg.summary :
             SumOver(CategorySparkRow(list, pg.summary[k].name)) <= pg.summary[k].total
       /\ \A k \in DOMAIN pg.summary :
             LET shown == PhoneFilteredRows(list, PhoneMonth(list), pg.summary[k].name, "")
             IN pg.summary[k].total = SumDebits(shown, DOMAIN shown)
  BY <1>9, <1>13 DEF I
<1> QED
  BY <1>10, <1>11, <1>12, <1>14 DEF PhoneSpendingAddsUp, dash, pg

-----------------------------------------------------------------------------
(* The screens of Hisab.                                                   *)

LEMMA DayBounds ==
    ASSUME NEW S \in Seq(StatementRow), NEW i \in DOMAIN S
    PROVE  /\ DayOf(S[i]) \in Nat /\ DayOf(S[i]) <= Today
           /\ \A day \in Int : DayOf(S[i]) = day <=> day * 4 <= S[i].at /\ S[i].at <= day * 4 + 3
<1>1. S[i].at \in Nat /\ S[i].at <= Today * 4 + 1 /\ Today \in Nat
  BY RowFields, NowIsNat
<1>2. DayOf(S[i]) = S[i].at \div 4
  BY DEF DayOf, Slots
<1> QED
  BY <1>1, <1>2

(* Every row falls on a day up to today and on an instant of its day.      *)
LEMMA WeekdaysAddUp ==
    ASSUME NEW S \in Seq(StatementRow)
    PROVE  SumOver(RevenueByDayOfWeek(S)) = SumCredits(S, DOMAIN S)
<1> DEFINE n == Today + 1
           G == [k \in 1..n |-> {i \in DOMAIN S : DayOf(S[i]) = k - 1}]
<1>1. n \in Nat
  BY NowIsNat
<1>2. RevenueByDayOfWeek(S) = [k \in 1..n |-> SumCredits(S, G[k])]
  BY DEF RevenueByDayOfWeek
<1>3. G \in [1..n -> SUBSET DOMAIN S]
  OBVIOUS
<1>4. \A i \in DOMAIN S : \E k \in 1..n : i \in G[k]
  <2> TAKE i \in DOMAIN S
  <2>1. DayOf(S[i]) + 1 \in 1..n /\ (DayOf(S[i]) + 1) - 1 = DayOf(S[i])
    BY DayBounds, NowIsNat
  <2> QED
    BY <2>1
<1>5. \A j, k \in 1..n : j # k => G[j] \cap G[k] = {}
  <2>1. \A j, k \in 1..n : j # k => j - 1 # k - 1
    BY <1>1
  <2> QED
    BY <2>1
<1> HIDE DEF G, n
<1>6. Family(DOMAIN S, n, G, DOMAIN S)
  BY <1>1, <1>3, <1>4, <1>5 DEF Family
<1>7. SumOver([k \in 1..n |-> SumCredits(S, G[k])]) = SumCredits(S, DOMAIN S)
  BY <1>6, BarsAddUp
<1> QED
  BY <1>2, <1>7, Zenon

LEMMA HoursAddUp ==
    ASSUME NEW S \in Seq(StatementRow)
    PROVE  SumOver(HourlyVolume(S)) = Len(S)
<1> DEFINE G == [k \in 1..4 |-> {i \in DOMAIN S : S[i].at % 4 = k - 1}]
<1>2. HourlyVolume(S) = [k \in 1..4 |-> Cardinality(G[k])]
  BY DEF HourlyVolume, Slots
<1>3. G \in [1..4 -> SUBSET DOMAIN S]
  OBVIOUS
<1>4. \A i \in DOMAIN S : \E k \in 1..4 : i \in G[k]
  <2> TAKE i \in DOMAIN S
  <2>1. (S[i].at % 4) + 1 \in 1..4 /\ ((S[i].at % 4) + 1) - 1 = S[i].at % 4
    BY RowFields
  <2> QED
    BY <2>1
<1>5. \A j, k \in 1..4 : j # k => G[j] \cap G[k] = {}
  <2>1. \A j, k \in 1..4 : j # k => j - 1 # k - 1
    OBVIOUS
  <2> QED
    BY <2>1
<1> HIDE DEF G
<1>6. Family(DOMAIN S, 4, G, DOMAIN S)
  BY <1>3, <1>4, <1>5 DEF Family
<1>7. SumOver([k \in 1..4 |-> Cardinality(G[k])]) = Cardinality(DOMAIN S)
  BY <1>6, BarsAddUp
<1>8. Cardinality(DOMAIN S) = Len(S)
  <2> DEFINE n == Len(S)
  <2>1. n \in Nat /\ DOMAIN S = 1..n
    BY LenProperties
  <2> HIDE DEF n
  <2>2. Cardinality(1..n) = n
    BY <2>1, FS_Interval
  <2> QED
    BY <2>1, <2>2 DEF n
<1> QED
  BY <1>2, <1>7, <1>8

(* Months are apart, whatever their length.                                *)
LEMMA MonthsAreApart ==
    ASSUME NEW S \in Seq(StatementRow), NEW b \in Nat, NEW c \in Nat, b < c
    PROVE  GetMonthTransactions(S, b) \cap GetMonthTransactions(S, c) = {}
<1> SUFFICES ASSUME NEW i \in GetMonthTransactions(S, b), i \in GetMonthTransactions(S, c)
             PROVE  FALSE
  OBVIOUS
<1> DEFINE m == Today \div DaysPerMonth
           x == (m - b) * DaysPerMonth
           y == (m - c) * DaysPerMonth
<1>1. m \in Nat /\ DaysPerMonth \in Nat /\ DaysPerMonth > 0
  BY NowIsNat, StatementsAssumption, Quotient
<1>2. i \in DOMAIN S /\ S[i].at \in Nat
  BY MonthsAreRows, RowFields
<1>3. Midnight(FirstOf(b)) <= S[i].at /\ S[i].at <= WebDayEnd(LastOf(c))
  BY DEF GetMonthTransactions, TransactionsInRange
<1>4. Midnight(FirstOf(b)) = x * 4 /\ WebDayEnd(LastOf(c)) = (y + DaysPerMonth - 1) * 4 + 2
  BY DEF Midnight, WebDayEnd, FirstOf, LastOf, Slots
<1> HIDE DEF m
<1>5. x \in Int /\ y \in Int /\ y + DaysPerMonth <= x
  <2> DEFINE u == m - b
             v == m - c
  <2>1. u \in Int /\ v \in Int /\ v + 1 <= u
    BY <1>1
  <2> HIDE DEF u, v
  <2>2. (v + 1) * DaysPerMonth = v * DaysPerMonth + DaysPerMonth
    BY <1>1, <2>1
  <2>3. (v + 1) * DaysPerMonth <= u * DaysPerMonth
    BY <1>1, <2>1
  <2>4. u * DaysPerMonth \in Int /\ v * DaysPerMonth \in Int
    BY <1>1, <2>1
  <2> QED
    BY <1>1, <2>2, <2>3, <2>4 DEF u, v
<1> HIDE DEF x, y
<1> QED
  BY <1>1, <1>2, <1>3, <1>4, <1>5

(* So the months of a trend have no row in common.                         *)
LEMMA TrendIsPart ==
    ASSUME NEW S \in Seq(StatementRow)
    PROVE  SumOver([k \in DOMAIN MonthlyRevenue(S) |-> MonthlyRevenue(S)[k].revenue])
              <= SumCredits(S, DOMAIN S)
<1> DEFINE G == [k \in 1..Months |-> GetMonthTransactions(S, Months - k)]
           U == UNION {G[k] : k \in 1..Months}
           f == [k \in DOMAIN MonthlyRevenue(S) |-> MonthlyRevenue(S)[k].revenue]
<1>1. f = [k \in 1..Months |-> SumCredits(S, G[k])]
  BY DEF MonthlyRevenue
<1>2. G \in [1..Months -> SUBSET DOMAIN S]
  BY MonthsAreRows
<1>3. Months \in Nat
  BY StatementsAssumption
<1>4. \A j, k \in 1..Months : j # k => G[j] \cap G[k] = {}
  <2>1. ASSUME NEW j \in 1..Months, NEW k \in 1..Months, k < j PROVE G[j] \cap G[k] = {}
    <3>1. Months - j \in Nat /\ Months - k \in Nat /\ Months - j < Months - k
      BY <1>3, <2>1
    <3>2. GetMonthTransactions(S, Months - j) \cap GetMonthTransactions(S, Months - k) = {}
      BY <3>1, MonthsAreApart
    <3> QED
      BY <3>2
  <2>2. \A j, k \in 1..Months : j # k => j < k \/ k < j
    BY <1>3
  <2> HIDE DEF G
  <2> QED
    BY <2>1, <2>2
<1> HIDE DEF G, f
<1>5. Family(DOMAIN S, Months, G, U)
  BY <1>2, <1>3, <1>4 DEF Family
<1>6. U \subseteq DOMAIN S
  BY <1>2
<1> HIDE DEF U
<1>7. SumOver([k \in 1..Months |-> SumCredits(S, G[k])]) = SumCredits(S, U)
  BY <1>5, BarsAddUp
<1>8. SumCredits(S, U) <= SumCredits(S, DOMAIN S)
  BY <1>6, CreditsGrow
<1> QED
  BY <1>1, <1>7, <1>8 DEF f

(* Rankings of what customers paid.                                        *)
LEMMA CustomersAddUp ==
    ASSUME NEW S \in Seq(StatementRow)
    PROVE  /\ Totals(TopCustomers(S, Len(S))) = SumCredits(S, DOMAIN S)
           /\ IsRanking(TopCustomers(S, Top))
           /\ Totals(PhoneTopCustomers(S, Len(S))) = SumCredits(S, DOMAIN S)
           /\ SumOver(Shares(PhoneTopCustomers(S, Len(S)))) <= 100
<1> DEFINE D == Credits(S, DOMAIN S)
           one == [i \in D |-> S[i].text]
           two == [i \in D |-> Payee(S[i])]
<1>1. D \in SUBSET DOMAIN S /\ DOMAIN one = D /\ DOMAIN two = D
  BY DebitsAreRows
<1>2. \A limit : TopCustomers(S, limit) = FirstFew(Ranking(S, GroupBy(one)), limit)
  BY DEF TopCustomers
<1>3. \A limit : PhoneTopCustomers(S, limit) = FirstFew(Ranking(S, GroupBy(two)), limit)
  BY DEF PhoneTopCustomers
<1>4. SumCredits(S, DOMAIN S) = Total(S, D)
  BY DEF SumCredits
<1>5. Len(S) \in Nat /\ Len(S) <= Len(S) /\ Top \in Nat
  BY LenProperties, StatementsAssumption
<1> HIDE DEF D, one, two
<1>6. /\ Totals(Ranking(S, GroupBy(one))) = Total(S, D)
      /\ FirstFew(Ranking(S, GroupBy(one)), Len(S)) = Ranking(S, GroupBy(one))
      /\ IsRanking(FirstFew(Ranking(S, GroupBy(one)), Top))
  BY <1>1, <1>5, RankingByLabel
<1>7. /\ Totals(Ranking(S, GroupBy(two))) = Total(S, D)
      /\ FirstFew(Ranking(S, GroupBy(two)), Len(S)) = Ranking(S, GroupBy(two))
      /\ SumOver(Shares(FirstFew(Ranking(S, GroupBy(two)), Len(S)))) <= 100
  BY <1>1, <1>5, RankingByLabel
<1> QED
  BY <1>2, <1>3, <1>4, <1>6, <1>7

LEMMA CashFlowIsAShare ==
    ASSUME NEW S \in Seq(StatementRow)
    PROVE  CashFlow(S) \in 0..100
<1> DEFINE a == SumCredits(S, ThisMonth(S))
           b == SumDebits(S, ThisMonth(S))
<1>1. a \in Nat /\ b \in Nat
  BY TotalIsNat DEF SumCredits, SumDebits
<1>2. CashFlow(S) = IF a + b > 0 THEN Percent(a, a + b) ELSE 50
  BY DEF CashFlow
<1> HIDE DEF a, b
<1>3. CASE a + b > 0
  <2> DEFINE w == a + b
             q == (a * 100) \div w
  <2>1. w \in Nat /\ w > 0 /\ a <= w /\ a * 100 \in Nat /\ CashFlow(S) = q
    BY <1>1, <1>2, <1>3 DEF Percent
  <2> HIDE DEF w
  <2>2. q \in Nat /\ w * q <= a * 100
    BY <2>1, Quotient
  <2> HIDE DEF q
  <2>3. w * q <= w * 100
    BY <1>1, <2>1, <2>2
  <2>4. q <= 100
    BY <2>1, <2>2, <2>3
  <2> QED
    BY <2>1, <2>2, <2>4
<1>4. CASE ~(a + b > 0)
  BY <1>2, <1>4
<1> QED
  BY <1>3, <1>4

(* Hisab's web pages.                                                      *)
LEMMA RevenueIsRight == ASSUME list \in Seq(StatementRow) PROVE RevenueAddsUp
<1>1. SumOver(WeekdayChart(list)) = SumCredits(list, DOMAIN list)
  BY WeekdaysAddUp DEF WeekdayChart
<1>2. SumOver(PeakHours(list)) = Len(list)
  BY HoursAddUp DEF PeakHours
<1>3. /\ Totals(TopCustomers(list, Len(list))) = SumCredits(list, DOMAIN list)
      /\ IsRanking(DashboardCustomers(list))
  BY CustomersAddUp DEF DashboardCustomers
<1>4. RevenueChart(list)[Days] <= HisabDashboard(list).today
  <2> DEFINE A == WebDay(list, DaysAgo(0))
             B == TodayTransactions(list)
  <2>1. RevenueChart(list)[Days] = SumCredits(list, A)
    <3>1. Days \in 1..Days /\ Days - Days = 0
      BY StatementsAssumption
    <3> QED
      BY <3>1 DEF RevenueChart, DailyRevenue
  <2>2. HisabDashboard(list).today = SumCredits(list, B)
    BY DEF HisabDashboard
  <2>3. A \subseteq B
    <3> SUFFICES ASSUME NEW i \in A PROVE i \in B
      OBVIOUS
    <3>1. i \in DOMAIN list /\ Midnight(DaysAgo(0)) <= list[i].at /\ list[i].at <= WebDayEnd(DaysAgo(0))
      BY DEF WebDay, TransactionsInRange
    <3>2. Midnight(DaysAgo(0)) = Today * 4 /\ WebDayEnd(DaysAgo(0)) = Today * 4 + 2 /\ Today \in Int
      BY NowIsNat DEF Midnight, WebDayEnd, DaysAgo, Slots
    <3>3. list[i].at <= Today * 4 + 3
      BY <3>1, <3>2, RowFields
    <3>4. DayOf(list[i]) = Today
      BY <3>1, <3>2, <3>3, DayBounds
    <3> QED
      BY <3>1, <3>4 DEF TodayTransactions
  <2> HIDE DEF A, B
  <2> QED
    BY <2>1, <2>2, <2>3, CreditsGrow
<1> QED
  BY <1>1, <1>2, <1>3, <1>4, TrendIsPart, CashFlowIsAShare DEF RevenueAddsUp

(* The phone's days are whole days.                                        *)
LEMMA PhoneDaysAre ==
    ASSUME NEW S \in Seq(StatementRow), NEW a \in Int, NEW b \in Int
    PROVE  PhoneDays(S, a, b) = {i \in DOMAIN S : a <= DayOf(S[i]) /\ DayOf(S[i]) <= b}
<1>1. PhoneDays(S, a, b) = {i \in DOMAIN S : a * 4 <= S[i].at /\ S[i].at <= b * 4 + 3}
  BY DEF PhoneDays, TransactionsInRange, Midnight, EndOfDay, Slots
<1>2. ASSUME NEW i \in DOMAIN S
      PROVE  /\ a * 4 <= S[i].at <=> a <= DayOf(S[i])
             /\ S[i].at <= b * 4 + 3 <=> DayOf(S[i]) <= b
  <2> DEFINE t == S[i].at
             d == DayOf(S[i])
  <2>1. t \in Nat /\ d \in Nat /\ d = t \div 4
    BY RowFields, DayBounds DEF DayOf, Slots
  <2>2. d * 4 <= t /\ t <= d * 4 + 3
    BY DayBounds, <2>1
  <2> HIDE DEF t, d
  <2> QED
    BY <2>1, <2>2 DEF t, d
<1> QED
  BY <1>1, <1>2

(* Hisab's phone app.                                                      *)
LEMMA PhoneRevenueIsRight == ASSUME list \in Seq(StatementRow) PROVE PhoneRevenueAddsUp
<1> DEFINE pg == PhoneAnalytics(list)
           W == PhoneWindow(list)
           G == [k \in 1..Days |-> PhoneDays(list, DaysAgo(Days - k), DaysAgo(Days - k))]
<1>1. /\ pg.series = PhoneDailyRevenue(list) /\ pg.revenue = SumCredits(list, W)
      /\ pg.spend = SumDebits(list, W) /\ pg.slices = CategoryBreakdown(list, Debits(list, W))
  BY DEF PhoneAnalytics
<1>2. PhoneDailyRevenue(list) = [k \in 1..Days |-> SumCredits(list, G[k])]
  BY DEF PhoneDailyRevenue
<1>3. Days \in Nat /\ Days > 0 /\ Today \in Nat
  BY StatementsAssumption
<1>4. /\ \A k \in 1..Days : G[k] = {i \in DOMAIN list : DayOf(list[i]) = Today - (Days - k)}
      /\ W = {i \in DOMAIN list : Today - (Days - 1) <= DayOf(list[i])}
  <2>1. \A k \in 1..Days : G[k] = {i \in DOMAIN list : /\ Today - (Days - k) <= DayOf(list[i])
                                                     /\ DayOf(list[i]) <= Today - (Days - k)}
    <3> TAKE k \in 1..Days
    <3>1. Today - (Days - k) \in Int
      BY <1>3
    <3> QED
      BY <3>1, PhoneDaysAre DEF DaysAgo
  <2>2. W = {i \in DOMAIN list : Today - (Days - 1) <= DayOf(list[i]) /\ DayOf(list[i]) <= Today}
    <3>1. Today - (Days - 1) \in Int /\ Today \in Int
      BY <1>3
    <3> QED
      BY <3>1, PhoneDaysAre DEF PhoneWindow, DaysAgo
  <2>3. \A i \in DOMAIN list : DayOf(list[i]) \in Nat /\ DayOf(list[i]) <= Today
    BY DayBounds
  <2> HIDE DEF G, W
  <2>4. \A k \in 1..Days : Today - (Days - k) \in Int
    BY <1>3
  <2>5. \A k \in 1..Days : \A i \in DOMAIN list :
           (Today - (Days - k) <= DayOf(list[i]) /\ DayOf(list[i]) <= Today - (Days - k))
              <=> DayOf(list[i]) = Today - (Days - k)
    BY <2>3, <2>4
  <2> QED
    BY <2>1, <2>2, <2>3, <2>5
<1>5. ComputeInsights(list).today = SumCredits(list, TodayTransactions(list))
  BY DEF ComputeInsights
<1>6. DOMAIN G = 1..Days
  OBVIOUS
<1> HIDE DEF pg, W, G
<1>7. \A i \in DOMAIN list : i \in W <=> \E k \in 1..Days : i \in G[k]
  <2> TAKE i \in DOMAIN list
  <2> DEFINE d == DayOf(list[i])
  <2>1. d \in Nat /\ d <= Today
    BY DayBounds
  <2>2. i \in W <=> Today - (Days - 1) <= d
    BY <1>4
  <2>3. \A k \in 1..Days : i \in G[k] <=> d = Today - (Days - k)
    BY <1>4
  <2> HIDE DEF d
  <2>4. ASSUME i \in W PROVE \E k \in 1..Days : i \in G[k]
    <3>1. (d - Today) + Days \in 1..Days /\ d = Today - (Days - ((d - Today) + Days))
      BY <2>1, <2>2, <2>4, <1>3
    <3> QED
      BY <2>3, <3>1
  <2>5. ASSUME NEW k \in 1..Days, i \in G[k] PROVE i \in W
    <3>1. Today - (Days - 1) <= Today - (Days - k)
      BY <1>3
    <3> QED
      BY <2>2, <2>3, <2>5, <3>1
  <2> QED
    BY <2>4, <2>5
<1>8. \A j, k \in 1..Days : j # k => G[j] \cap G[k] = {}
  <2>1. \A j, k \in 1..Days : j # k => Today - (Days - j) # Today - (Days - k)
    BY <1>3
  <2> QED
    BY <1>4, <2>1
<1>9. Family(DOMAIN list, Days, G, W)
  <2>1. G \in [1..Days -> SUBSET DOMAIN list] /\ W \in SUBSET DOMAIN list
    <3>1. G = [k \in 1..Days |-> G[k]]
      BY DEF G
    <3>2. \A k \in 1..Days : G[k] \in SUBSET DOMAIN list
      BY <1>4
    <3> QED
      BY <1>4, <3>1, <3>2
  <2> QED
    BY <1>3, <1>7, <1>8, <2>1 DEF Family
<1>10. SumOver(pg.series) = pg.revenue
  <2>1. SumOver([k \in 1..Days |-> SumCredits(list, G[k])]) = SumCredits(list, W)
    BY <1>9, BarsAddUp
  <2> QED
    BY <1>1, <1>2, <2>1, Zenon
<1>11. pg.series[Days] = ComputeInsights(list).today
  <2>1. Days \in 1..Days /\ Today - (Days - Days) = Today
    BY <1>3
  <2>2. G[Days] = TodayTransactions(list)
    BY <2>1, <1>4 DEF TodayTransactions
  <2>3. pg.series[Days] = SumCredits(list, G[Days])
    BY <1>1, <1>2, <2>1
  <2> QED
    BY <1>5, <2>2, <2>3
<1>12. Totals(pg.slices) = pg.spend
  <2> DEFINE I == Debits(list, W)
             label == [i \in I |-> list[i].merchant]
  <2>1. I \in SUBSET DOMAIN list /\ DOMAIN label = I
    BY <1>9, DebitsAreRows DEF Family
  <2>2. CategoryBreakdown(list, I) = Ranking(list, GroupBy(label))
    BY DEF CategoryBreakdown
  <2>3. SumDebits(list, W) = Total(list, I)
    BY DEF SumDebits
  <2>4. pg.slices = CategoryBreakdown(list, I)
    BY <1>1
  <2> HIDE DEF I, label
  <2>5. Totals(Ranking(list, GroupBy(label))) = Total(list, I)
    BY <2>1, RankingByLabel
  <2> QED
    BY <1>1, <2>2, <2>3, <2>4, <2>5
<1>13. /\ Totals(PhoneTopCustomers(list, Len(list))) = SumCredits(list, DOMAIN list)
       /\ SumOver(CustomersScreen(list)) <= 100
  BY CustomersAddUp DEF CustomersScreen
<1> QED
  BY <1>10, <1>11, <1>12, <1>13 DEF PhoneRevenueAddsUp, pg

-----------------------------------------------------------------------------
(* The transaction pages.                                                  *)

(* The rows of a page, newest first.                                       *)
Descending(R) == \A j, k \in DOMAIN R : j < k => R[k].at <= R[j].at

(* The days of a page: its rows once each, the newest day first.           *)
DaysOfPage(R, days, n) ==
    /\ n \in Nat /\ DOMAIN days = 1..n
    /\ \A k \in 1..n : days[k].rows \in SUBSET DOMAIN R
    /\ \A i \in DOMAIN R : \E k \in 1..n : i \in days[k].rows
    /\ \A k \in 1..n : \A x \in days[k].rows : DayOf(R[x]) = days[k].name
    /\ \A j, k \in 1..n : j < k =>
          /\ days[j].name > days[k].name
          /\ \A x \in days[j].rows, y \in days[k].rows : x < y

(* On a later row the day is no later.                                     *)
LEMMA DaysDescend ==
    ASSUME NEW R \in Seq(StatementRow), Descending(R), NEW x \in DOMAIN R, NEW y \in DOMAIN R
    PROVE  /\ x \in Nat /\ y \in Nat /\ DayOf(R[x]) \in Nat /\ DayOf(R[y]) \in Nat
           /\ x <= y => DayOf(R[y]) <= DayOf(R[x])
<1> DEFINE a == R[x].at
           b == R[y].at
<1>1. /\ a \in Nat /\ b \in Nat /\ x \in Nat /\ y \in Nat
      /\ DayOf(R[x]) = a \div 4 /\ DayOf(R[y]) = b \div 4
      /\ DayOf(R[x]) \in Nat /\ DayOf(R[y]) \in Nat
  <2>1. a \in Nat /\ b \in Nat
    BY RowFields
  <2>2. x \in Nat /\ y \in Nat
    BY LenProperties
  <2>3. DayOf(R[x]) = a \div 4 /\ DayOf(R[y]) = b \div 4
    BY DEF DayOf, Slots
  <2>4. DayOf(R[x]) \in Nat /\ DayOf(R[y]) \in Nat
    BY DayBounds
  <2> QED
    BY <2>1, <2>2, <2>3, <2>4
<1>2. x <= y => b <= a
  <2>1. CASE x = y
    BY <2>1, <1>1
  <2>2. CASE x < y
    BY <2>2 DEF Descending
  <2> QED
    BY <1>1, <2>1, <2>2
<1> HIDE DEF a, b
<1>3. b <= a => b \div 4 <= a \div 4
  BY <1>1
<1> QED
  BY <1>1, <1>2, <1>3

(* The groups of rows that carry the day as their label.                   *)
LEMMA GroupsByDay ==
    ASSUME NEW R \in Seq(StatementRow), Descending(R), NEW I \in SUBSET DOMAIN R, DOMAIN R \subseteq I,
           NEW label, DOMAIN label = I, \A i \in I : label[i] = DayOf(R[i])
    PROVE  \E n : DaysOfPage(R, InOrder(GroupBy(label)), n)
<1> DEFINE groups == GroupBy(label)
           D == DOMAIN groups
           key == [i \in D |-> 0]
           n == Cardinality(D)
           order == Sorted(key)
           days == InOrder(groups)
<1>1. /\ Grouped(R, groups, D)
      /\ D \in SUBSET I
      /\ RowsOf(groups) = I
  BY GroupingByLabel
<1>2. \A g \in D : /\ groups[g].rows = {i \in I : label[i] = label[g]}
                   /\ groups[g].name = label[g]
                   /\ \A j \in I : j < g => label[j] # label[g]
  BY DEF GroupBy, Labelled
<1>3. RowsOf(groups) = UNION {groups[g].rows : g \in D}
  BY DEF RowsOf
<1>4. days = Arranged(groups, key)
  BY DEF InOrder
<1>5. key \in [D -> Int] /\ \A i \in D : key[i] = 0
  OBVIOUS
<1> HIDE DEF groups, D, key, days
<1>6. D \subseteq Nat /\ IsFiniteSet(D)
  BY <1>1 DEF Grouped
<1>7. OrderOf(key, D, n, order) /\ days = [k \in 1..n |-> groups[order[k]]]
  <2>1. DOMAIN key = D /\ D \subseteq Nat /\ IsFiniteSet(D) /\ \A i \in D : key[i] \in Int
    BY <1>5, <1>6
  <2> HIDE DEF n, order
  <2>2. OrderOf(key, D, Cardinality(D), Sorted(key)) /\ DOMAIN Sorted(key) = 1..Cardinality(D)
    BY <2>1, SortedOrders
  <2>3. Arranged(groups, key) = [k \in 1..Cardinality(D) |-> groups[Sorted(key)[k]]]
    BY <2>2 DEF Arranged
  <2> QED
    BY <1>4, <2>2, <2>3 DEF n, order
<1> HIDE DEF n, order
<1>8. /\ n \in Nat /\ DOMAIN days = 1..n
      /\ \A k \in 1..n : order[k] \in D /\ days[k] = groups[order[k]]
      /\ \A i \in D : \E k \in 1..n : order[k] = i
  BY <1>7 DEF OrderOf
<1>9. \A j, k \in 1..n : j < k => order[j] < order[k]
  <2>1. \A j, k \in 1..n : j < k /\ key[order[j]] = key[order[k]] => order[j] < order[k]
    BY <1>7 DEF OrderOf
  <2>2. \A k \in 1..n : key[order[k]] = 0
    BY <1>5, <1>8
  <2> QED
    BY <2>1, <2>2
<1>10. \A k \in 1..n : /\ order[k] \in I
                       /\ days[k].rows = {i \in I : label[i] = label[order[k]]}
                       /\ days[k].name = label[order[k]]
  BY <1>1, <1>2, <1>8
<1>11. \A i \in I : \E k \in 1..n : i \in days[k].rows
  <2> TAKE i \in I
  <2>1. PICK g \in D : i \in groups[g].rows
    BY <1>1, <1>3
  <2> QED
    BY <2>1, <1>8
<1>12. ASSUME NEW j \in 1..n, NEW k \in 1..n, j < k
       PROVE  /\ days[j].name > days[k].name
              /\ \A x \in days[j].rows, y \in days[k].rows : x < y
  <2> DEFINE g == order[j]
             h == order[k]
  <2>1. g \in I /\ h \in I /\ g < h /\ h \in D
    BY <1>8, <1>9, <1>10, <1>12
  <2>2. label[g] # label[h] /\ label[g] = DayOf(R[g]) /\ label[h] = DayOf(R[h])
    BY <2>1, <1>2
  <2>3. /\ g \in Nat /\ h \in Nat /\ DayOf(R[g]) \in Nat /\ DayOf(R[h]) \in Nat
        /\ g <= h => DayOf(R[h]) <= DayOf(R[g])
    <3>1. g \in DOMAIN R /\ h \in DOMAIN R
      BY <2>1
    <3> HIDE DEF g, h
    <3> QED
      BY <3>1, DaysDescend
  <2>5. /\ days[j].name = label[g] /\ days[k].name = label[h]
        /\ days[j].rows = {i \in I : label[i] = label[g]}
        /\ days[k].rows = {i \in I : label[i] = label[h]}
    BY <1>10
  <2> HIDE DEF g, h
  <2>4. label[g] > label[h]
    BY <2>1, <2>2, <2>3
  <2>6. ASSUME NEW x \in days[j].rows, NEW y \in days[k].rows PROVE x < y
    <3>1. /\ x \in I /\ y \in I /\ label[x] = label[g] /\ label[y] = label[h]
          /\ x \in DOMAIN R /\ y \in DOMAIN R
      BY <2>5
    <3>2. label[x] = DayOf(R[x]) /\ label[y] = DayOf(R[y])
      BY <3>1
    <3>3. /\ x \in Nat /\ y \in Nat /\ DayOf(R[x]) \in Nat /\ DayOf(R[y]) \in Nat
          /\ y <= x => DayOf(R[x]) <= DayOf(R[y])
      BY <3>1, DaysDescend
    <3> QED
      BY <2>4, <3>1, <3>2, <3>3
  <2> QED
    BY <2>4, <2>5, <2>6
<1>13. DaysOfPage(R, days, n)
  <2>1. \A k \in 1..n : \A x \in days[k].rows : DayOf(R[x]) = days[k].name
    BY <1>10
  <2>2. \A k \in 1..n : days[k].rows \in SUBSET DOMAIN R
    BY <1>10
  <2>3. \A i \in DOMAIN R : \E k \in 1..n : i \in days[k].rows
    BY <1>11
  <2> QED
    BY <1>8, <1>12, <2>1, <2>2, <2>3 DEF DaysOfPage
<1> QED
  BY <1>13 DEF days, groups

LEMMA DaysAreGroups ==
    ASSUME NEW R \in Seq(StatementRow), Descending(R)
    PROVE  \E n : DaysOfPage(R, DaysOf(R), n)
<1> DEFINE I == DOMAIN R
           label == [k \in I |-> DayOf(R[k])]
<1>1. DaysOf(R) = InOrder(GroupBy(label))
  BY DEF DaysOf
<1>2. /\ I \in SUBSET DOMAIN R /\ DOMAIN R \subseteq I
      /\ DOMAIN label = I /\ \A i \in I : label[i] = DayOf(R[i])
  OBVIOUS
<1> HIDE DEF I, label
<1>3. \E n : DaysOfPage(R, InOrder(GroupBy(label)), n)
  BY <1>2, GroupsByDay
<1> QED
  BY <1>1, <1>3

(* Whatever the screen shows of a day, its groups are the page's rows.     *)
LEMMA GroupsOfDays ==
    ASSUME NEW R, NEW days, NEW n, DaysOfPage(R, days, n),
           NEW groups, DOMAIN groups = 1..n,
           \A k \in 1..n : groups[k].day = days[k].name /\ groups[k].rows = days[k].rows
    PROVE  GroupsAreTheRows(groups, R)
<1>1. UNION {groups[k].rows : k \in DOMAIN groups} = DOMAIN R
  <2>1. {groups[k].rows : k \in DOMAIN groups} = {days[k].rows : k \in 1..n}
    OBVIOUS
  <2>2. /\ \A k \in 1..n : days[k].rows \in SUBSET DOMAIN R
        /\ \A i \in DOMAIN R : \E k \in 1..n : i \in days[k].rows
    BY DEF DaysOfPage
  <2>3. UNION {days[k].rows : k \in 1..n} = DOMAIN R
    BY <2>2
  <2> QED
    BY <2>1, <2>3
<1>2. ASSUME NEW j \in 1..n, NEW k \in 1..n, j < k
      PROVE  /\ groups[j].day > groups[k].day
             /\ \A x \in groups[j].rows, y \in groups[k].rows : x < y
  <2>1. /\ days[j].name > days[k].name
        /\ \A x \in days[j].rows, y \in days[k].rows : x < y
    BY <1>2 DEF DaysOfPage
  <2> QED
    BY <2>1
<1>3. \A k \in 1..n : \A x \in groups[k].rows : DayOf(R[x]) = groups[k].day
  BY DEF DaysOfPage
<1> QED
  BY <1>1, <1>2, <1>3 DEF GroupsAreTheRows

(* The totals of the days are the totals of the page.                      *)
LEMMA DaysAddUp ==
    ASSUME NEW R \in Seq(StatementRow), NEW days, NEW n, DaysOfPage(R, days, n)
    PROVE  SumOver([k \in 1..n |-> SumCredits(R, days[k].rows) - SumDebits(R, days[k].rows)])
              = SumCredits(R, DOMAIN R) - SumDebits(R, DOMAIN R)
<1> DEFINE D == DOMAIN R
           G == [k \in 1..n |-> days[k].rows]
<1>1. G \in [1..n -> SUBSET D] /\ n \in Nat
  BY DEF DaysOfPage
<1>2. \A j, k \in 1..n : j # k => G[j] \cap G[k] = {}
  <2> SUFFICES ASSUME NEW j \in 1..n, NEW k \in 1..n, j # k, NEW x \in days[j].rows, x \in days[k].rows
               PROVE  FALSE
    OBVIOUS
  <2>1. x \in Nat /\ j \in Nat /\ k \in Nat
    BY LenProperties DEF DaysOfPage
  <2>2. ASSUME NEW a \in 1..n, NEW b \in 1..n, a < b, x \in days[a].rows, x \in days[b].rows PROVE x < x
    BY <2>2 DEF DaysOfPage
  <2>3. j < k \/ k < j
    BY <2>1
  <2>4. x < x
    BY <2>2, <2>3
  <2> QED
    BY <2>1, <2>4
<1>3. \A i \in D : \E k \in 1..n : i \in G[k]
  BY DEF DaysOfPage
<1>4. \A k \in 1..n : G[k] = days[k].rows
  OBVIOUS
<1> HIDE DEF G, D
<1>5. Family(D, n, G, D)
  BY <1>1, <1>2, <1>3 DEF Family
<1>6. SumOver([k \in 1..n |-> SumCredits(R, G[k]) - SumDebits(R, G[k])])
         = SumCredits(R, D) - SumDebits(R, D)
  BY <1>5, BarsAddUp DEF D
<1>7. [k \in 1..n |-> SumCredits(R, G[k]) - SumDebits(R, G[k])]
         = [k \in 1..n |-> SumCredits(R, days[k].rows) - SumDebits(R, days[k].rows)]
  BY <1>4
<1> QED
  BY <1>6, <1>7, Zenon DEF D

LEMMA NewestFirstDescends ==
    ASSUME NEW S \in Seq(StatementRow), NEW I \in SUBSET DOMAIN S
    PROVE  NewestFirst(S, I) \in Seq(StatementRow) /\ Descending(NewestFirst(S, I))
<1> DEFINE R == NewestFirst(S, I)
           n == Cardinality(I)
<1>0. PICK order : PageOrder(S, I, R, n, order)
  BY NewestFirstOf
<1>1. /\ DOMAIN R = 1..n /\ R \in Seq(StatementRow)
      /\ \A j, k \in 1..n : j < k => R[k].at <= R[j].at
  BY <1>0 DEF PageOrder
<1> HIDE DEF R, n
<1>2. Descending(R)
  BY <1>1 DEF Descending
<1> QED
  BY <1>1, <1>2 DEF R

(* The web pages: groups with their credits and debits.                    *)
LEMMA DateGroupsAddUp ==
    ASSUME NEW R \in Seq(StatementRow), Descending(R)
    PROVE  /\ GroupsAreTheRows(DateGroups(R), R)
           /\ SumOver([k \in DOMAIN DateGroups(R) |-> DateGroups(R)[k].credit - DateGroups(R)[k].debit])
                 = SummaryRow(R).net
<1> DEFINE days == DaysOf(R)
           groups == DateGroups(R)
           f == [k \in DOMAIN groups |-> groups[k].credit - groups[k].debit]
<1>1. PICK n : DaysOfPage(R, days, n)
  BY DaysAreGroups
<1>2. groups = [k \in DOMAIN days |-> [day |-> days[k].name, rows |-> days[k].rows,
                                       credit |-> SumCredits(R, days[k].rows),
                                       debit |-> SumDebits(R, days[k].rows)]]
  BY DEF DateGroups
<1>3. DOMAIN days = 1..n
  BY <1>1 DEF DaysOfPage
<1>4. SummaryRow(R).net = SumCredits(R, DOMAIN R) - SumDebits(R, DOMAIN R)
  BY DEF SummaryRow
<1>5. f = [k \in DOMAIN groups |-> groups[k].credit - groups[k].debit]
  OBVIOUS
<1> HIDE DEF days, groups, f
<1>6. DOMAIN groups = 1..n
  BY <1>2, <1>3
<1>7. \A k \in 1..n : /\ groups[k].day = days[k].name /\ groups[k].rows = days[k].rows
                      /\ groups[k].credit = SumCredits(R, days[k].rows)
                      /\ groups[k].debit = SumDebits(R, days[k].rows)
  BY <1>2, <1>3
<1>8. GroupsAreTheRows(groups, R)
  BY <1>1, <1>6, <1>7, GroupsOfDays
<1>9. f = [k \in 1..n |-> SumCredits(R, days[k].rows) - SumDebits(R, days[k].rows)]
  BY <1>5, <1>6, <1>7
<1>10. SumOver([k \in 1..n |-> SumCredits(R, days[k].rows) - SumDebits(R, days[k].rows)])
          = SumCredits(R, DOMAIN R) - SumDebits(R, DOMAIN R)
  BY <1>1, DaysAddUp
<1>11. SumOver(f) = SummaryRow(R).net
  BY <1>4, <1>9, <1>10, Zenon
<1> QED
  BY <1>8, <1>11 DEF groups, f

LEMMA RowsAreRight == ASSUME list \in Seq(StatementRow) PROVE RowsAddUp
<1> SUFFICES ASSUME NEW filter \in Filters, NEW query \in Texts \cup {""}, NEW range \in Ranges
             PROVE  LET rows == FilteredRows(list, filter, query, range)
                        groups == DateGroups(rows)
                    IN /\ GroupsAreTheRows(groups, rows)
                       /\ SumOver([k \in DOMAIN groups |-> groups[k].credit - groups[k].debit])
                             = SummaryRow(rows).net
  BY DEF RowsAddUp
<1> DEFINE I == {i \in DOMAIN list : /\ Passes(list[i], filter)
                                     /\ query = "" \/ list[i].text = query
                                     /\ list[i].at >= Since(range)}
           R == FilteredRows(list, filter, query, range)
<1>1. I \in SUBSET DOMAIN list
  OBVIOUS
<1>2. R = NewestFirst(list, I)
  BY DEF FilteredRows
<1> HIDE DEF I, R
<1>3. R \in Seq(StatementRow) /\ Descending(R)
  BY <1>1, <1>2, NewestFirstDescends
<1>4. /\ GroupsAreTheRows(DateGroups(R), R)
      /\ SumOver([k \in DOMAIN DateGroups(R) |-> DateGroups(R)[k].credit - DateGroups(R)[k].debit])
            = SummaryRow(R).net
  BY <1>3, DateGroupsAddUp
<1> QED
  BY <1>4 DEF R

LEMMA PhoneRowsAreRight == ASSUME list \in Seq(StatementRow) PROVE PhoneRowsAddUp
<1> SUFFICES ASSUME NEW filter \in Filters \cup {"pending"}, NEW query \in Texts \cup {""}
             PROVE  GroupsAreTheRows(HisabPhoneItems(list, filter, query),
                                     NewestFirst(list, HisabPhoneRows(list, filter, query)))
  BY DEF PhoneRowsAddUp
<1> DEFINE I == HisabPhoneRows(list, filter, query)
           R == NewestFirst(list, I)
           days == DaysOf(R)
           groups == HisabPhoneItems(list, filter, query)
<1>1. I \in SUBSET DOMAIN list
  BY DEF HisabPhoneRows
<1>2. groups = [k \in DOMAIN days |->
                  [day |-> days[k].name, rows |-> days[k].rows,
                   total |-> SumCredits(R, days[k].rows) - SumDebits(R, days[k].rows)]]
  BY DEF HisabPhoneItems, GroupByDay
<1> HIDE DEF I
<1>3. R \in Seq(StatementRow) /\ Descending(R)
  BY <1>1, NewestFirstDescends
<1> HIDE DEF R, groups
<1>4. PICK n : DaysOfPage(R, days, n)
  BY <1>3, DaysAreGroups
<1> HIDE DEF days
<1>5. DOMAIN days = 1..n
  BY <1>4 DEF DaysOfPage
<1>6. /\ DOMAIN groups = 1..n
      /\ \A k \in 1..n : groups[k].day = days[k].name /\ groups[k].rows = days[k].rows
  BY <1>2, <1>5
<1>7. GroupsAreTheRows(groups, R)
  BY <1>4, <1>6, GroupsOfDays
<1> QED
  BY <1>7 DEF groups, R, I

LEMMA ReportsAreRight == ASSUME list \in Seq(StatementRow) PROVE ReportsAddUp
BY SpendingIsRight, PhoneSpendingIsRight, RevenueIsRight, PhoneRevenueIsRight,
   RowsAreRight, PhoneRowsAreRight DEF ReportsAddUp

-----------------------------------------------------------------------------
(* The apps' statements.  A row follows another in an account when the     *)
(* balance after it is the balance after the other moved by its amount.    *)

Follows(t, u) == t.after = u.after + Signed(t)

(* What the bank holds of an account, oldest first.                        *)
IsLedger(S) ==
    /\ \A i, j \in DOMAIN S : i < j => S[i].at <= S[j].at
    /\ \A i, j \in DOMAIN S : j = i + 1 => Follows(S[j], S[i])

(* What an account's page shows, newest first.                             *)
IsStatement(S) ==
    /\ \A i, j \in DOMAIN S : i < j => S[j].at <= S[i].at
    /\ \A i, j \in DOMAIN S : j = i + 1 => Follows(S[i], S[j])

StatementTypes ==
    /\ app \in StatementApps /\ connected \in BOOLEAN
    /\ scope \in Accounts \cup {"all"}
    /\ phase \in {"loading", "ready", "failed", "unconnected"}
    /\ books \in [Accounts -> Seq(StatementRow)]
    /\ list \in Seq(StatementRow)

(* Rows stay where the bank has put them.                                  *)
RowsAreBooked ==
    /\ \A a \in Accounts : \A t \in ToSet(books[a]) : t.account = a
    /\ \A t \in ToSet(list) : t \in ToSet(books[t.account])

PagesFollow ==
    /\ \A a \in Accounts : IsLedger(books[a])
    /\ scope # "all" => app = "masroofi" /\ IsStatement(list)

StatementInv == StatementTypes /\ RowsAreBooked /\ PagesFollow

LEMMA StatementsInitially == StatementsInit => StatementInv
<1> SUFFICES ASSUME StatementsInit PROVE StatementInv
  OBVIOUS
<1>1. StatementTypes
  BY DEF StatementsInit, StatementTypes
<1>2. RowsAreBooked /\ PagesFollow
  BY DEF StatementsInit, RowsAreBooked, PagesFollow, ToSet, IsLedger
<1> QED
  BY <1>1, <1>2 DEF StatementInv

(* Members of a sequence.                                                  *)
LEMMA InSeq ==
    ASSUME NEW T, NEW S \in Seq(T)
    PROVE  /\ DOMAIN S = 1..Len(S) /\ Len(S) \in Nat
           /\ \A i \in DOMAIN S : S[i] \in T
           /\ ToSet(S) = {S[i] : i \in DOMAIN S}
           /\ ToSet(S) \subseteq T
BY DEF ToSet

LEMMA BookingKeeps ==
    ASSUME StatementInv, NEW b \in Bookings, Book(b)
    PROVE  StatementInv'
<1> DEFINE a == b.account
           row == [account |-> b.account, at |-> b.at, dir |-> b.dir, amount |-> b.amount,
                   text |-> b.text, merchant |-> b.merchant,
                   after |-> IF b.dir = "Credit" THEN BalanceOf(b.account) + b.amount
                             ELSE BalanceOf(b.account) - b.amount]
           B == books[a]
           n == Len(B)
<1>t. /\ StatementTypes /\ RowsAreBooked /\ PagesFollow
      /\ app' = app /\ connected' = connected /\ scope' = scope /\ phase' = phase /\ list' = list
  BY DEF StatementInv, Book
<1>a. a \in Accounts /\ B \in Seq(StatementRow) /\ n \in Nat
  BY <1>t DEF Accounts, StatementTypes
<1>b. BalanceOf(a) \in Nat /\ (B # <<>> => n \in DOMAIN B /\ BalanceOf(a) = B[n].after)
  <2>1. B # <<>> => n \in DOMAIN B /\ B[n] \in StatementRow
    BY <1>a
  <2>2. BalanceOf(a) = IF B = <<>> THEN 0 ELSE B[n].after
    BY DEF BalanceOf, Last
  <2>3. \A t \in StatementRow : t.after \in Nat
    BY DEF StatementRow
  <2> QED
    BY <2>1, <2>2, <2>3
<1>r. row \in StatementRow /\ row.account = a /\ row.after = BalanceOf(a) + Signed(row) /\ row.at = b.at
  <2>1. b.dir = "Debit" => b.amount <= BalanceOf(b.account)
    BY DEF Book
  <2>2. row.after \in Nat /\ row.after = BalanceOf(a) + Signed(row)
    BY <1>b, <2>1, StatementsAssumption DEF Signed
  <2>3. /\ b.at \in 0..Now /\ b.amount \in Nat \ {0} /\ b.dir \in {"Credit", "Debit"} /\ b.text \in Texts
        /\ b.merchant \in {c.merchant : c \in Bookings}
    BY StatementsAssumption, NowIsNat DEF Texts
  <2> QED
    BY <1>a, <2>2, <2>3 DEF StatementRow
<1>k. books' = [books EXCEPT ![a] = Append(B, row)]
  BY DEF Book
<1>l. \A c \in Accounts : \A t \in ToSet(books[c]) : t.at <= b.at
  BY DEF Book, InTime
<1> HIDE DEF row
<1>n. /\ books'[a] = Append(B, row) /\ \A c \in Accounts : c # a => books'[c] = books[c]
      /\ Append(B, row) \in Seq(StatementRow)
      /\ DOMAIN Append(B, row) = 1..(n + 1)
      /\ \A i \in 1..n : Append(B, row)[i] = B[i]
      /\ Append(B, row)[n + 1] = row
  BY <1>a, <1>k, <1>t, <1>r, AppendProperties, LenProperties DEF StatementTypes
<1>1. StatementTypes'
  BY <1>t, <1>k, <1>n, <1>a DEF StatementTypes
<1>2. RowsAreBooked'
  <2>1. \A t : t \in ToSet(Append(B, row)) <=> t \in ToSet(B) \/ t = row
    BY <1>n, <1>a, LenProperties DEF ToSet
  <2>2. ASSUME NEW c \in Accounts, NEW t \in ToSet(books'[c]) PROVE t.account = c
    <3>1. t \in ToSet(books[c]) \/ (c = a /\ t = row)
      BY <1>n, <2>1, <1>a
    <3> QED
      BY <3>1, <1>r, <1>t DEF RowsAreBooked
  <2>3. ASSUME NEW t \in ToSet(list) PROVE t \in ToSet(books'[t.account])
    <3>1. t \in ToSet(books[t.account]) /\ t \in StatementRow
      BY <1>t, InSeq DEF RowsAreBooked, StatementTypes
    <3>2. t.account \in Accounts
      BY <3>1 DEF StatementRow
    <3> QED
      BY <3>1, <3>2, <1>n, <2>1
  <2> QED
    BY <1>t, <2>2, <2>3 DEF RowsAreBooked
<1>3. PagesFollow'
  <2>1. IsLedger(Append(B, row))
    <3>b. IsLedger(B) /\ DOMAIN B = 1..n /\ \A i \in 1..n : B[i] \in ToSet(B) /\ B[i].at <= b.at
      BY <1>a, <1>t, <1>l, LenProperties DEF PagesFollow, ToSet
    <3>1. \A i, j \in 1..(n + 1) : i < j => Append(B, row)[i].at <= Append(B, row)[j].at
      <4> SUFFICES ASSUME NEW i \in 1..(n + 1), NEW j \in 1..(n + 1), i < j
                   PROVE  Append(B, row)[i].at <= Append(B, row)[j].at
        OBVIOUS
      <4>1. i \in 1..n /\ Append(B, row)[i] = B[i]
        BY <1>n, <1>a
      <4>2. CASE j = n + 1
        BY <4>1, <4>2, <3>b, <1>n, <1>r
      <4>3. CASE j # n + 1
        <5>1. j \in 1..n /\ Append(B, row)[j] = B[j]
          BY <4>3, <1>n, <1>a
        <5>2. i \in DOMAIN B /\ j \in DOMAIN B /\ B[i].at <= B[j].at
          BY <4>1, <5>1, <3>b DEF IsLedger
        <5> QED
          BY <4>1, <5>1, <5>2
      <4> QED
        BY <4>2, <4>3
    <3>2. \A i, j \in 1..(n + 1) : j = i + 1 => Follows(Append(B, row)[j], Append(B, row)[i])
      <4> SUFFICES ASSUME NEW i \in 1..(n + 1), i + 1 \in 1..(n + 1)
                   PROVE  Follows(Append(B, row)[i + 1], Append(B, row)[i])
        BY <1>a
      <4>1. CASE i = n
        BY <4>1, <1>n, <1>r, <1>b, <1>a, <3>b DEF Follows
      <4>2. CASE i # n
        <5>1. i \in 1..n /\ i + 1 \in 1..n
          BY <4>2, <1>a
        <5>2. Follows(B[i + 1], B[i])
          BY <5>1, <3>b, <1>a DEF IsLedger
        <5> QED
          BY <5>1, <5>2, <1>n
      <4> QED
        BY <4>1, <4>2
    <3> QED
      BY <3>1, <3>2, <1>n DEF IsLedger
  <2> QED
    BY <2>1, <1>t, <1>n DEF PagesFollow
<1> QED
  BY <1>1, <1>2, <1>3 DEF StatementInv

(* The newest rows of an account, cut or not, are rows of its ledger in    *)
(* reverse.                                                                *)
LEMMA RowsAreAStatement ==
    ASSUME StatementInv, NEW a \in Accounts
    PROVE  /\ Rows(a) \in Seq(StatementRow)
           /\ ToSet(Rows(a)) \subseteq ToSet(books[a])
           /\ IsStatement(Rows(a))
<1> DEFINE B == books[a]
           n == Len(B)
           m == IF n < RowLimit THEN n ELSE RowLimit
<1>t. B \in Seq(StatementRow) /\ n \in Nat /\ DOMAIN B = 1..n /\ IsLedger(B)
  BY DEF StatementInv, StatementTypes, PagesFollow
<1>m. m \in Nat /\ m <= n
  BY <1>t, StatementsAssumption
<1> HIDE DEF n
<1>r. /\ Reverse(B) \in Seq(StatementRow) /\ Len(Reverse(B)) = n
      /\ \A i \in 1..n : Reverse(B)[i] = B[n - i + 1]
  BY <1>t, IsASeq DEF Reverse, n
<1>s. Rows(a) = SubSeq(Reverse(B), 1, m)
  BY <1>r DEF Rows, FirstFew
<1> HIDE DEF m
<1>1. /\ Rows(a) \in Seq(StatementRow) /\ Len(Rows(a)) = m
      /\ \A i \in 1..m : Rows(a)[i] = B[n - i + 1]
  <2>1. \A i \in 1..m : Reverse(B)[i] \in StatementRow
    BY <1>r, <1>m, <1>t
  <2>2. /\ SubSeq(Reverse(B), 1, m) \in Seq(StatementRow)
        /\ Len(SubSeq(Reverse(B), 1, m)) = m
        /\ \A i \in 1..m : SubSeq(Reverse(B), 1, m)[i] = Reverse(B)[i]
    BY <2>1, <1>m, SubSeqProperties
  <2> QED
    BY <2>2, <1>s, <1>r, <1>m, <1>t
<1>2. DOMAIN Rows(a) = 1..m
  BY <1>1, LenProperties
<1>3. ToSet(Rows(a)) \subseteq ToSet(B)
  BY <1>1, <1>2, <1>m, <1>t DEF ToSet
<1>4. IsStatement(Rows(a))
  <2>1. \A i \in 1..m : n - i + 1 \in 1..n
    BY <1>m, <1>t
  <2>2. ASSUME NEW i \in 1..m, NEW j \in 1..m, i < j PROVE Rows(a)[j].at <= Rows(a)[i].at
    <3>1. n - j + 1 < n - i + 1
      BY <2>2, <1>m, <1>t
    <3> QED
      BY <3>1, <2>1, <1>1, <1>t DEF IsLedger
  <2>3. ASSUME NEW i \in 1..m, i + 1 \in 1..m PROVE Follows(Rows(a)[i], Rows(a)[i + 1])
    <3>1. n - i + 1 = (n - (i + 1) + 1) + 1
      BY <1>t, <1>m
    <3>2. Follows(B[n - i + 1], B[n - (i + 1) + 1])
      BY <3>1, <2>1, <2>3, <1>t DEF IsLedger
    <3> QED
      BY <3>2, <2>3, <1>1
  <2> QED
    BY <2>2, <2>3, <1>2, <1>m DEF IsStatement
<1> QED
  BY <1>1, <1>3, <1>4

(* What the requests for several accounts return, one after the other.     *)
Joined(S, n, f) ==
    /\ DOMAIN f = 1..n
    /\ f = [i \in 1..n |-> IF i = 1 THEN S[i] ELSE f[i - 1] \o S[i]]

LEMMA JoinedExists == ASSUME NEW S, NEW n \in Nat PROVE \E f : Joined(S, n, f)
<1> DEFINE Bad == {m \in Nat : ~\E f : Joined(S, m, f)}
<1>1. SUFFICES ASSUME Bad # {} PROVE FALSE
  OBVIOUS
<1>2. PICK m \in Bad : \A k \in Bad : m <= k
  BY <1>1, LeastNatural
<1>3. m \in Nat /\ ~\E f : Joined(S, m, f)
  OBVIOUS
<1>4. m # 0
  <2>1. Joined(S, 0, [i \in 1..0 |-> 0])
    BY DEF Joined
  <2> QED
    BY <2>1, <1>3
<1>5. m - 1 \in Nat /\ m - 1 \notin Bad
  BY <1>2, <1>3, <1>4
<1>6. PICK f : Joined(S, m - 1, f)
  BY <1>5
<1> HIDE DEF Bad
<1> DEFINE g == [i \in 1..m |-> IF i = 1 THEN S[i] ELSE f[i - 1] \o S[i]]
<1>7. ASSUME NEW i \in 1..m, i # 1 PROVE g[i - 1] = f[i - 1]
  <2>1. i - 1 \in 1..(m - 1) /\ i - 1 \in 1..m
    BY <1>7, <1>3
  <2>2. f[i - 1] = IF i - 1 = 1 THEN S[i - 1] ELSE f[(i - 1) - 1] \o S[i - 1]
    BY <2>1, <1>6 DEF Joined
  <2>3. g[i - 1] = IF i - 1 = 1 THEN S[i - 1] ELSE f[(i - 1) - 1] \o S[i - 1]
    BY <2>1
  <2> QED
    BY <2>2, <2>3
<1>8. g = [i \in 1..m |-> IF i = 1 THEN S[i] ELSE g[i - 1] \o S[i]]
  <2>1. \A i \in 1..m : g[i] = IF i = 1 THEN S[i] ELSE g[i - 1] \o S[i]
    BY <1>7
  <2> HIDE DEF g
  <2>2. DOMAIN g = 1..m /\ g = [i \in 1..m |-> g[i]]
    BY DEF g
  <2> QED
    BY <2>1, <2>2
<1>9. DOMAIN g = 1..m
  OBVIOUS
<1> HIDE DEF g
<1>10. Joined(S, m, g)
  BY <1>8, <1>9 DEF Joined
<1> QED
  BY <1>3, <1>10

LEMMA JoinedIsSeq ==
    ASSUME NEW T, NEW S, NEW n \in Nat, NEW f, Joined(S, n, f), \A i \in 1..n : S[i] \in Seq(T)
    PROVE  \A i \in 1..n : f[i] \in Seq(T)
<1> DEFINE Bad == {i \in 1..n : f[i] \notin Seq(T)}
<1>1. SUFFICES ASSUME Bad # {} PROVE FALSE
  OBVIOUS
<1>2. Bad \subseteq Nat
  OBVIOUS
<1> HIDE DEF Bad
<1>3. PICK m \in Bad : \A k \in Bad : m <= k
  BY <1>1, <1>2, LeastNatural
<1>4. m \in 1..n /\ f[m] \notin Seq(T)
  BY DEF Bad
<1>5. f[m] = IF m = 1 THEN S[m] ELSE f[m - 1] \o S[m]
  BY <1>4 DEF Joined
<1>6. m # 1
  BY <1>4, <1>5
<1>7. m - 1 \in 1..n /\ m - 1 \notin Bad
  BY <1>3, <1>4, <1>6
<1>8. f[m - 1] \in Seq(T) /\ S[m] \in Seq(T)
  BY <1>4, <1>7 DEF Bad
<1> QED
  BY <1>4, <1>5, <1>6, <1>8, ConcatProperties

LEMMA AnswerIsBooked ==
    ASSUME StatementInv, NEW reached \in SUBSET Accounts
    PROVE  /\ Answer(reached) \in Seq(StatementRow)
           /\ \A t \in ToSet(Answer(reached)) : t \in ToSet(books[t.account])
<1> DEFINE order == SetToSeq(reached)
           n == Cardinality(reached)
           S == [k \in DOMAIN order |-> Rows(order[k])]
           U == {t \in StatementRow : t \in ToSet(books[t.account])}
<1>1. n \in Nat /\ order \in [1..n -> reached]
  <2>1. IsFiniteSet(reached)
    BY StatementsAssumption, FS_Subset DEF Accounts
  <2>2. n \in Nat /\ ExistsBijection(1..n, reached)
    BY <2>1, FS_CardinalityType
  <2>3. \E f \in [1..n -> reached] : IsInjective(f)
    BY <2>2 DEF ExistsBijection, Bijection, Injection, Surjection, IsInjective
  <2> QED
    BY <2>2, <2>3 DEF SetToSeq
<1> HIDE DEF order, n
<1>2. /\ \A k \in 1..n : S[k] = Rows(order[k]) /\ order[k] \in Accounts
      /\ S = [k \in 1..n |-> S[k]]
  BY <1>1
<1>3. Answer(reached) = FlattenSeq(S)
  BY DEF Answer, order
<1> HIDE DEF S
<1>4. \A k \in 1..n : S[k] \in Seq(U)
  <2> SUFFICES ASSUME NEW k \in 1..n PROVE S[k] \in Seq(U)
    OBVIOUS
  <2>1. S[k] \in Seq(StatementRow) /\ ToSet(S[k]) \subseteq ToSet(books[order[k]])
    BY <1>2, RowsAreAStatement
  <2>2. \A t \in ToSet(S[k]) : t \in StatementRow /\ t.account = order[k]
    BY <1>2, <2>1, InSeq DEF StatementInv, RowsAreBooked
  <2>3. ToSet(S[k]) \subseteq U
    BY <2>1, <2>2
  <2> HIDE DEF U
  <2> QED
    BY <2>1, <2>3, InSeq, IsASeq
<1> HIDE DEF U
<1>5. S \in Seq(Seq(U)) /\ Len(S) = n
  BY <1>1, <1>2, <1>4, IsASeq
<1>6. Answer(reached) \in Seq(U)
  <2>1. CASE n = 0
    BY <1>3, <1>5, <2>1 DEF FlattenSeq
  <2>2. CASE n # 0
    <3> DEFINE Step(f) == [i \in 1..n |-> IF i = 1 THEN S[i] ELSE f[i - 1] \o S[i]]
               F == CHOOSE f : f = Step(f)
    <3>1. Answer(reached) = F[n]
      BY <1>1, <1>3, <1>5, <2>2 DEF FlattenSeq
    <3>2. PICK f : Joined(S, n, f)
      BY <1>1, JoinedExists
    <3>3. f = Step(f)
      BY <3>2 DEF Joined
    <3> HIDE DEF Step
    <3>4. F = Step(F)
      BY <3>3
    <3> HIDE DEF F
    <3>5. Joined(S, n, F)
      <4>1. DOMAIN Step(F) = 1..n
        BY DEF Step
      <4> QED
        BY <3>4, <4>1 DEF Joined, Step
    <3>6. \A k \in 1..n : F[k] \in Seq(U)
      BY <1>1, <1>4, <3>5, JoinedIsSeq
    <3> QED
      BY <1>1, <2>2, <3>1, <3>6
  <2> QED
    BY <2>1, <2>2
<1>7. ToSet(Answer(reached)) \subseteq U /\ U \subseteq StatementRow
  BY <1>6, InSeq DEF U
<1>8. Answer(reached) \in Seq(StatementRow)
  BY <1>6, <1>7, InSeq, IsASeq
<1> QED
  BY <1>7, <1>8 DEF U

LEMMA StatementStep == StatementInv /\ [StatementsNext]_statementVars => StatementInv'
<1> SUFFICES ASSUME StatementInv, [StatementsNext]_statementVars PROVE StatementInv'
  OBVIOUS
<1>i. StatementTypes /\ RowsAreBooked /\ PagesFollow
  BY DEF StatementInv
<1>e. \A t \in ToSet(<<>>) : FALSE
  BY DEF ToSet
<1>f. IsStatement(<<>>)
  BY DEF IsStatement
<1>1. ASSUME NEW b \in Bookings, Book(b) PROVE StatementInv'
  BY <1>1, BookingKeeps
<1>2. CASE WebFetch
  <2>u. UNCHANGED <<app, connected, books, scope>>
    BY <1>2 DEF WebFetch
  <2>1. ASSUME scope = "all", NEW reached \in SUBSET Accounts, list' = Answer(reached),
               phase' = "ready"
        PROVE  StatementInv'
    BY <2>1, <2>u, <1>i, AnswerIsBooked DEF StatementInv, StatementTypes, RowsAreBooked, PagesFollow
  <2>2. CASE scope # "all" /\ list' = Rows(scope) /\ phase' = "ready"
    <3>1. scope \in Accounts
      BY <2>2, <1>i DEF StatementTypes
    <3>2. \A t \in ToSet(Rows(scope)) : t \in ToSet(books[t.account])
      BY <3>1, <1>i, RowsAreAStatement DEF RowsAreBooked
    <3> QED
      BY <2>2, <2>u, <3>1, <3>2, <1>i, RowsAreAStatement
         DEF StatementInv, StatementTypes, RowsAreBooked, PagesFollow
  <2>3. CASE phase' = "failed" /\ UNCHANGED list
    BY <2>3, <2>u, <1>i DEF StatementInv, StatementTypes, RowsAreBooked, PagesFollow
  <2> QED
    BY <1>2, <2>1, <2>2, <2>3 DEF WebFetch
<1>3. CASE MasroofiPhoneFetch \/ HisabPhoneFetch
  <2>u. UNCHANGED <<app, connected, books, scope>> /\ app # "masroofi"
    BY <1>3 DEF MasroofiPhoneFetch, HisabPhoneFetch
  <2>a. scope = "all"
    BY <2>u, <1>i DEF PagesFollow
  <2>1. phase' \in {"loading", "ready", "failed", "unconnected"}
    BY <1>3 DEF MasroofiPhoneFetch, HisabPhoneFetch
  <2>2. \/ \E reached \in SUBSET Accounts : list' = Answer(reached)
        \/ list' = <<>> \/ list' = list
    BY <1>3 DEF MasroofiPhoneFetch, HisabPhoneFetch
  <2>3. list' \in Seq(StatementRow) /\ \A t \in ToSet(list') : t \in ToSet(books[t.account])
    <3>1. ASSUME NEW reached \in SUBSET Accounts, list' = Answer(reached)
          PROVE  /\ list' \in Seq(StatementRow)
                 /\ \A t \in ToSet(list') : t \in ToSet(books[t.account])
      BY <3>1, AnswerIsBooked
    <3>2. CASE list' = <<>>
      BY <3>2, <1>e
    <3>3. CASE list' = list
      BY <3>3, <1>i DEF StatementTypes, RowsAreBooked
    <3> QED
      BY <2>2, <3>1, <3>2, <3>3
  <2> QED
    BY <2>u, <2>a, <2>1, <2>3, <1>i DEF StatementInv, StatementTypes, RowsAreBooked, PagesFollow
<1>4. ASSUME NEW a \in Accounts, OpenAccount(a) PROVE StatementInv'
  BY <1>4, <1>i, <1>e, <1>f DEF OpenAccount, StatementInv, StatementTypes, RowsAreBooked, PagesFollow
<1>5. CASE BackToAccounts
  BY <1>5, <1>i, <1>e DEF BackToAccounts, StatementInv, StatementTypes, RowsAreBooked, PagesFollow
<1>6. CASE LoseConnection
  BY <1>6, <1>i DEF LoseConnection, StatementInv, StatementTypes, RowsAreBooked, PagesFollow
<1>7. CASE UNCHANGED statementVars
  BY <1>7, <1>i DEF statementVars, StatementInv, StatementTypes, RowsAreBooked, PagesFollow
<1> QED
  BY <1>1, <1>2, <1>3, <1>4, <1>5, <1>6, <1>7 DEF StatementsNext

LEMMA StatementsWellTyped == StatementInv => StatementsTypeOK
<1> SUFFICES ASSUME StatementInv PROVE StatementsTypeOK
  OBVIOUS
<1>1. StatementTypes /\ RowsAreBooked
  BY DEF StatementInv
<1>2. ASSUME NEW a \in Accounts, NEW t \in ToSet(books[a]) PROVE t.account = a /\ t.after \in Nat
  <2>1. t \in StatementRow
    BY <1>1, InSeq DEF StatementTypes
  <2> QED
    BY <1>1, <2>1 DEF RowsAreBooked, StatementRow
<1>3. ASSUME NEW t \in ToSet(list) PROVE t.account \in Accounts /\ t \in ToSet(books[t.account])
  <2>1. t \in StatementRow
    BY <1>1, InSeq DEF StatementTypes
  <2> QED
    BY <1>1, <2>1 DEF RowsAreBooked, StatementRow
<1> QED
  BY <1>1, <1>2, <1>3 DEF StatementsTypeOK, StatementTypes

(* Sorting what is sorted already changes nothing: the row at position i   *)
(* has i - 1 rows before it.                                               *)
LEMMA AlreadySorted ==
    ASSUME NEW S \in Seq(StatementRow), \A i, j \in DOMAIN S : i < j => S[j].at <= S[i].at
    PROVE  NewestFirst(S, DOMAIN S) = S
<1> DEFINE n == Len(S)
           key == [i \in DOMAIN S |-> S[i].at]
           before(i, j) == key[i] > key[j] \/ (key[i] = key[j] /\ i < j)
           rank(i) == Cardinality({j \in DOMAIN key : before(j, i)})
<1>1. n \in Nat /\ DOMAIN S = 1..n /\ \A i \in 1..n : S[i].at \in Nat
  BY LenProperties, RowFields
<1>k. DOMAIN key = DOMAIN S /\ \A i \in 1..n : key[i] = S[i].at
  BY <1>1
<1>2. \A i, j \in 1..n : before(j, i) <=> j < i
  BY <1>1, <1>k
<1>6. NewestFirst(S, DOMAIN S) =
         [k \in 1..Cardinality(DOMAIN key) |-> S[CHOOSE i \in DOMAIN key : rank(i) = k - 1]]
  BY DEF NewestFirst, Arranged, Sorted
<1> HIDE DEF before, key
<1>3. ASSUME NEW i \in 1..n PROVE rank(i) = i - 1
  <2>1. {j \in DOMAIN key : before(j, i)} = 1..(i - 1)
    BY <1>1, <1>2, <1>k
  <2>2. Cardinality(1..(i - 1)) = i - 1
    BY <1>1, FS_Interval
  <2> QED
    BY <2>1, <2>2
<1>4. Cardinality(DOMAIN S) = n
  <2>1. Cardinality(1..n) = n
    <3> HIDE DEF n
    <3> QED
      BY <1>1, FS_Interval
  <2> QED
    BY <1>1, <2>1
<1> HIDE DEF rank
<1>5. \A k \in 1..n : (CHOOSE i \in DOMAIN key : rank(i) = k - 1) = k
  BY <1>1, <1>3, <1>k
<1>7. S = [k \in 1..n |-> S[k]]
  BY <1>1
<1> DEFINE at(k) == CHOOSE i \in DOMAIN key : rank(i) = k - 1
<1>8. \A k \in 1..n : S[at(k)] = S[k]
  BY <1>5
<1>9. NewestFirst(S, DOMAIN S) = [k \in 1..Cardinality(DOMAIN key) |-> S[at(k)]]
  BY <1>6
<1>10. Cardinality(DOMAIN key) = n
  BY <1>4, <1>k
<1> HIDE DEF n, at
<1> QED
  BY <1>7, <1>8, <1>9, <1>10

(* With no filter a page shows the rows it holds.                          *)
LEMMA AllRowsPass ==
    ASSUME NEW S \in Seq(StatementRow), IsStatement(S)
    PROVE  FilteredRows(S, "all", "", "any") = S
<1>1. Since("any") = 0
  BY DEF Since
<1>2. \A k \in DOMAIN S : S[k].at >= 0
  BY RowFields
<1>3. {k \in DOMAIN S : /\ Passes(S[k], "all")
                        /\ "" = "" \/ S[k].text = ""
                        /\ S[k].at >= Since("any")} = DOMAIN S
  BY <1>1, <1>2 DEF Passes
<1>4. FilteredRows(S, "all", "", "any") = NewestFirst(S, DOMAIN S)
  BY <1>3 DEF FilteredRows
<1> QED
  BY <1>4, AlreadySorted DEF IsStatement

(* The balances that a statement adds up are the ones it carries.          *)
LEMMA BalancesFollow ==
    ASSUME NEW S \in Seq(StatementRow), IsStatement(S)
    PROVE  \A k \in DOMAIN S : RunningBalances(S)[k] = S[k].after
<1> DEFINE Step(f) == [k \in DOMAIN S |-> IF k = 1 THEN S[1].after ELSE f[k - 1] - Signed(S[k - 1])]
           carried == [k \in DOMAIN S |-> S[k].after]
           R == RunningBalances(S)
           Bad == {k \in DOMAIN S : R[k] # S[k].after}
<1>1. /\ DOMAIN S = 1..Len(S) /\ Len(S) \in Nat
      /\ \A k \in DOMAIN S : S[k].after \in Int /\ Signed(S[k]) \in Int
  BY LenProperties, RowFields
<1>2. ASSUME NEW k \in DOMAIN S, k # 1
      PROVE  k - 1 \in DOMAIN S /\ S[k].after = S[k - 1].after - Signed(S[k - 1])
  <2>1. k - 1 \in DOMAIN S /\ k = (k - 1) + 1
    BY <1>1, <1>2
  <2>2. S[k - 1].after = S[k].after + Signed(S[k - 1])
    BY <2>1 DEF IsStatement, Follows
  <2> QED
    BY <1>1, <2>1, <2>2
<1>3. carried = Step(carried)
  BY <1>2
<1>4. R = CHOOSE f : f = Step(f)
  BY DEF RunningBalances
<1> HIDE DEF Step, R, carried
<1>5. R = Step(R)
  BY <1>3, <1>4
<1>6. \A k \in DOMAIN S : R[k] = IF k = 1 THEN S[1].after ELSE R[k - 1] - Signed(S[k - 1])
  BY <1>5 DEF Step
<1>7. SUFFICES ASSUME Bad # {} PROVE FALSE
  BY DEF R
<1>8. Bad \subseteq Nat
  BY <1>1
<1> HIDE DEF Bad
<1>9. PICK k \in Bad : \A m \in Bad : k <= m
  BY <1>7, <1>8, LeastNatural
<1>10. k \in DOMAIN S /\ R[k] # S[k].after
  BY DEF Bad
<1>11. k # 1
  BY <1>6, <1>10
<1>12. k - 1 \in DOMAIN S /\ k - 1 \notin Bad
  BY <1>1, <1>2, <1>9, <1>10, <1>11
<1>13. R[k - 1] = S[k - 1].after
  BY <1>12 DEF Bad
<1> QED
  BY <1>2, <1>6, <1>10, <1>11, <1>12, <1>13

LEMMA PagesShowTheBalances == StatementInv => AccountBalancesAreTheBanks
<1> SUFFICES ASSUME StatementInv, scope # "all"
             PROVE  LET shown == FilteredRows(list, "all", "", "any")
                    IN \A k \in DOMAIN shown : RunningBalances(shown)[k] = shown[k].after
  BY DEF AccountBalancesAreTheBanks
<1>1. list \in Seq(StatementRow) /\ IsStatement(list)
  BY DEF StatementInv, StatementTypes, PagesFollow
<1> QED
  BY <1>1, AllRowsPass, BalancesFollow

(* Whatever subset of the accounts answered and wherever an answer was     *)
(* cut, the page of an account shows the balances the bank had.            *)
THEOREM BalancesAreTheBanks == StatementsSpec => []AccountBalancesAreTheBanks
<1> QED
  BY StatementsInitially, StatementStep, PagesShowTheBalances, PTL DEF StatementsSpec

(* What an app holds is rows of the bank, and whatever rows it holds, what *)
(* its screens show adds up: spending, revenue, rankings, charts and days. *)
THEOREM ReportsAlwaysAddUp == StatementsSpec => []ReportsAddUp
<1>1. StatementInv => ReportsAddUp
  BY ReportsAreRight DEF StatementInv, StatementTypes
<1> QED
  BY <1>1, StatementsInitially, StatementStep, PTL DEF StatementsSpec
=============================================================================
