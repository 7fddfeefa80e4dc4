------------------------- MODULE UsageBooking_proofs -------------------------
(***************************************************************************)
(* Proofs about UsageBooking: what is booked for an agent is what its      *)
(* baseline says and never more than it cost, and a task asks until the    *)
(* row was given an amount.                                                *)
(***************************************************************************)
EXTENDS UsageBooking, FiniteSetTheorems, SequenceTheorems, WellFoundedInduction,
        NaturalsInduction, TLAPS

Stage == {"none", "delayed", "queued", "active", "over"}

Cost == {Absent, Unknown} \cup Nat

TypeInv == /\ row \in [Log -> Cost]
           /\ baseline \in [Agent -> Nat]
           /\ total \in [Agent -> Nat]
           /\ agentOf \in [Log -> Agent \cup {NoAgent}]
           /\ task \in [Log -> Stage]
           /\ attempt \in [Log -> 0..MaxAttempts]
           /\ queue \in Seq(Log)
           /\ durable \in BOOLEAN
           /\ cleared \in [Agent -> Nat]
           /\ strays \subseteq Session

Active(T) == {l \in Log : T[l] = "active"}

(* The queue holds each queued task once; the limit is kept.               *)
QueueOK(T, q) == /\ \A i \in 1..Len(q) : T[q[i]] = "queued"
                 /\ \A i, j \in 1..Len(q) : q[i] = q[j] => i = j
                 /\ Cardinality(Active(T)) <= Concurrency

QueueInv == QueueOK(task, queue)

(* A request has its own agent or its session's, and was given nothing     *)
(* before its task is over.                                                *)
TaskOK(l) == /\ task[l] = "none" => row[l] = Absent /\ agentOf[l] = NoAgent
             /\ task[l] # "none" => agentOf[l] \in Session \cup {l}
             /\ task[l] # "over" => row[l] \in {Absent, Unknown} /\ cleared[l] = 0

TaskInv == \A l \in Log : TaskOK(l)

IInv == TypeInv /\ QueueInv /\ TaskInv /\ BookedOnce

----------------------------------------------------------------------------
(* Sums over a finite set, added up in the order in which CHOOSE takes its *)
(* elements.                                                               *)
OneOf(s) == CHOOSE x \in s : TRUE

Without(s, x) == s \ {x}

LEMMA OneOfIsIn == ASSUME NEW s, s # {} PROVE OneOf(s) \in s
BY DEF OneOf

LEMMA Interchange == \A s, x, y : Without(Without(s, x), y) = Without(Without(s, y), x)
BY DEF Without

(* g adds up w over the sets of D. *)
Adds(w, D, g) ==
  g = [s \in D |-> IF s = {} THEN 0 ELSE w[OneOf(s)] + g[Without(s, OneOf(s))]]

Solves(w, L, g) == Adds(w, SUBSET L, g)

LEMMA SumIsChosen ==
  ASSUME NEW w, NEW L
  PROVE  SumFunctionOnSet(w, L) = (CHOOSE g : Solves(w, L, g))[L]
BY DEF SumFunctionOnSet, FoldFunctionOnSet, MapThenFoldSet, Adds, Solves, OneOf, Without

LEMMA LeastOf == ASSUME NEW T \in SUBSET Nat, T # {}
                 PROVE  \E m \in T : \A n \in T : m <= n
<1> DEFINE R == {ss \in Nat \X Nat : ss[1] < ss[2]}
<1>1. IsWellFoundedOn(R, Nat)
  BY NatLessThanWellFounded DEF OpToRel
<1> HIDE DEF R
<1>2. PICK x \in T : \A y \in T : <<y, x>> \notin R
  BY <1>1, WFMin
<1>3. ASSUME NEW y \in T PROVE x <= y
  <2>1. <<y, x>> \in Nat \X Nat /\ <<y, x>> \notin R
    BY <1>2
  <2>2. ~(y < x)
    BY <2>1 DEF R
  <2> QED BY <2>2
<1> QED BY <1>3

(* Of the sets in B, all finite, one is smallest. *)
LEMMA SmallestOf ==
  ASSUME NEW B, B # {}, \A T \in B : IsFiniteSet(T)
  PROVE  \E T \in B : \A U \in B : Cardinality(T) <= Cardinality(U)
<1> DEFINE Sizes == {Cardinality(T) : T \in B}
<1>1. Sizes \in SUBSET Nat /\ Sizes # {}
  BY FS_CardinalityType
<1>2. PICK m \in Sizes : \A n \in Sizes : m <= n
  BY <1>1, LeastOf
<1> QED BY <1>2

(* A set without one of its elements is smaller. *)
LEMMA Smaller ==
  ASSUME NEW L, IsFiniteSet(L), NEW T \in SUBSET L, NEW x \in T
  PROVE  /\ IsFiniteSet(T) /\ Without(T, x) \in SUBSET L
         /\ Cardinality(T) \in Nat \ {0}
         /\ Cardinality(Without(T, x)) = Cardinality(T) - 1
BY FS_Subset, FS_RemoveElement, FS_CardinalityType, FS_EmptySet DEF Without

(* The subsets up to a size. *)
Small(L, n) == {s \in SUBSET L : Cardinality(s) <= n}

(* Up to every size the recursion has a solution. *)
LEMMA SolvedUpTo ==
  ASSUME NEW w, NEW L, IsFiniteSet(L), NEW n \in Nat
  PROVE  \E g : Adds(w, Small(L, n), g)
<1> DEFINE Bad == {k \in Nat : ~\E g : Adds(w, Small(L, k), g)}
<1>1. SUFFICES ASSUME Bad # {} PROVE FALSE
  OBVIOUS
<1>2. Bad \in SUBSET Nat
  OBVIOUS
<1>3. PICK k \in Bad : \A i \in Bad : k <= i
  <2> HIDE DEF Bad
  <2> QED BY <1>1, <1>2, LeastOf
<1>4. k \in Nat /\ ~\E g : Adds(w, Small(L, k), g)
  OBVIOUS
<1>5. CASE k = 0
  <2>1. \A s \in Small(L, k) : s = {}
    BY <1>5, FS_Subset, FS_EmptySet, FS_CardinalityType DEF Small
  <2> DEFINE g == [s \in Small(L, k) |-> 0]
  <2>2. Adds(w, Small(L, k), g)
    BY <2>1 DEF Adds
  <2> QED BY <1>4, <2>2
<1>6. CASE k # 0
  <2>1. k - 1 \in Nat /\ k - 1 \notin Bad
    <3> HIDE DEF Bad
    <3> QED BY <1>2, <1>3, <1>4, <1>6
  <2>2. PICK h : Adds(w, Small(L, k - 1), h)
    BY <2>1
  <2> DEFINE g == [s \in Small(L, k) |->
                     IF s = {} THEN 0 ELSE w[OneOf(s)] + h[Without(s, OneOf(s))]]
  <2>3. \A s \in Small(L, k - 1) : s \in Small(L, k) /\ g[s] = h[s]
    <3>1. ASSUME NEW s \in Small(L, k - 1) PROVE s \in Small(L, k)
      <4>1. Cardinality(s) \in Nat
        BY FS_Subset, FS_CardinalityType DEF Small
      <4> QED BY <1>4, <4>1 DEF Small
    <3>2. \A s \in Small(L, k - 1) :
            h[s] = IF s = {} THEN 0 ELSE w[OneOf(s)] + h[Without(s, OneOf(s))]
      BY <2>2 DEF Adds
    <3> QED BY <3>1, <3>2
  <2>4. ASSUME NEW s \in Small(L, k), s # {}
        PROVE  g[Without(s, OneOf(s))] = h[Without(s, OneOf(s))]
    <3>1. PICK u : u = Without(s, OneOf(s))
      OBVIOUS
    <3>2. s \in SUBSET L /\ Cardinality(s) <= k
      BY DEF Small
    <3>3. /\ u \in SUBSET L /\ Cardinality(s) \in Nat
          /\ Cardinality(u) = Cardinality(s) - 1
      BY <2>4, <3>1, <3>2, OneOfIsIn, Smaller
    <3>4. u \in Small(L, k - 1)
      BY <1>4, <3>2, <3>3 DEF Small
    <3> HIDE DEF g
    <3> QED BY <2>3, <3>1, <3>4
  <2>5. g = [s \in Small(L, k) |->
               IF s = {} THEN 0 ELSE w[OneOf(s)] + g[Without(s, OneOf(s))]]
    BY <2>4
  <2>6. Adds(w, Small(L, k), g)
    BY <2>5 DEF Adds
  <2> QED BY <1>4, <2>6
<1> QED BY <1>5, <1>6

LEMMA Solved ==
  ASSUME NEW w, NEW L, IsFiniteSet(L)
  PROVE  Solves(w, L, CHOOSE g : Solves(w, L, g))
<1>1. Cardinality(L) \in Nat
  BY FS_CardinalityType
<1>2. SUBSET L = Small(L, Cardinality(L))
  BY FS_Subset DEF Small
<1>3. \E g : Adds(w, Small(L, Cardinality(L)), g)
  BY <1>1, SolvedUpTo
<1>4. \E g : Solves(w, L, g)
  BY <1>2, <1>3 DEF Solves
<1> QED BY <1>4

LEMMA SolvesAt ==
  ASSUME NEW w, NEW L, NEW g, Solves(w, L, g), NEW s \in SUBSET L
  PROVE  g[s] = IF s = {} THEN 0 ELSE w[OneOf(s)] + g[Without(s, OneOf(s))]
BY DEF Solves, Adds

(* The solution for a set without x is the one for the set, there. *)
LEMMA SolvedOnce ==
  ASSUME NEW w, NEW L, IsFiniteSet(L), NEW x,
         NEW g, NEW h, Solves(w, L, g), Solves(w, Without(L, x), h)
  PROVE  h[Without(L, x)] = g[Without(L, x)]
<1>1. PICK K : K = Without(L, x)
  OBVIOUS
<1>2. K \subseteq L /\ IsFiniteSet(K)
  BY <1>1, FS_Subset DEF Without
<1>3. SUFFICES h[K] = g[K]
  BY <1>1
<1> DEFINE Bad == {s \in SUBSET K : g[s] # h[s]}
<1>4. SUFFICES ASSUME Bad # {} PROVE FALSE
  OBVIOUS
<1>5. PICK s \in Bad : \A u \in Bad : Cardinality(s) <= Cardinality(u)
  <2>1. \A u \in Bad : IsFiniteSet(u)
    BY <1>2, FS_Subset
  <2> HIDE DEF Bad
  <2> QED BY ONLY <1>4, <2>1, SmallestOf
<1>6. s \in SUBSET K /\ s \in SUBSET L /\ g[s] # h[s] /\ Solves(w, K, h)
  BY <1>1, <1>2
<1>7. /\ g[s] = IF s = {} THEN 0 ELSE w[OneOf(s)] + g[Without(s, OneOf(s))]
      /\ h[s] = IF s = {} THEN 0 ELSE w[OneOf(s)] + h[Without(s, OneOf(s))]
  BY <1>6, SolvesAt
<1>8. PICK u : u = Without(s, OneOf(s))
  OBVIOUS
<1>9. s # {} /\ OneOf(s) \in s
  BY <1>6, <1>7, OneOfIsIn
<1>10. u \in SUBSET K /\ Cardinality(s) \in Nat /\ Cardinality(u) = Cardinality(s) - 1
  BY <1>2, <1>6, <1>8, <1>9, Smaller
<1>11. u \notin Bad
  <2> HIDE DEF Bad
  <2> QED BY <1>5, <1>10
<1> QED BY <1>6, <1>7, <1>8, <1>10, <1>11

(* The sum over a set: the element that CHOOSE takes, and the others. *)
LEMMA SumTakes ==
  ASSUME NEW w, NEW L, IsFiniteSet(L)
  PROVE  SumFunctionOnSet(w, L) =
           IF L = {} THEN 0 ELSE w[OneOf(L)] + SumFunctionOnSet(w, Without(L, OneOf(L)))
<1>1. PICK x : x = OneOf(L)
  OBVIOUS
<1>2. PICK g : g = (CHOOSE f : Solves(w, L, f))
  OBVIOUS
<1>3. PICK h : h = (CHOOSE f : Solves(w, Without(L, x), f))
  OBVIOUS
<1>4. IsFiniteSet(Without(L, x))
  BY FS_Subset DEF Without
<1>5. Solves(w, L, g) /\ Solves(w, Without(L, x), h)
  BY <1>2, <1>3, <1>4, Solved
<1>6. /\ SumFunctionOnSet(w, L) = g[L]
      /\ SumFunctionOnSet(w, Without(L, x)) = h[Without(L, x)]
  BY <1>2, <1>3, SumIsChosen
<1>7. h[Without(L, x)] = g[Without(L, x)]
  BY <1>5, SolvedOnce
<1>8. L \in SUBSET L
  OBVIOUS
<1>9. g[L] = IF L = {} THEN 0 ELSE w[x] + g[Without(L, x)]
  BY <1>1, <1>5, <1>8, SolvesAt
<1> QED BY <1>1, <1>6, <1>7, <1>9

(* Sums of natural numbers are natural numbers. *)
LEMMA SumType ==
  ASSUME NEW D, IsFiniteSet(D), NEW w \in [D -> Nat], NEW L \in SUBSET D
  PROVE  SumFunctionOnSet(w, L) \in Nat
<1> DEFINE Bad == {s \in SUBSET D : SumFunctionOnSet(w, s) \notin Nat}
<1>1. SUFFICES ASSUME Bad # {} PROVE FALSE
  OBVIOUS
<1>2. PICK s \in Bad : \A u \in Bad : Cardinality(s) <= Cardinality(u)
  <2>1. \A u \in Bad : IsFiniteSet(u)
    BY FS_Subset
  <2> HIDE DEF Bad
  <2> QED BY ONLY <1>1, <2>1, SmallestOf
<1>3. s \in SUBSET D /\ IsFiniteSet(s) /\ SumFunctionOnSet(w, s) \notin Nat
  BY FS_Subset
<1>4. PICK x : x = OneOf(s)
  OBVIOUS
<1>5. SumFunctionOnSet(w, s) =
        IF s = {} THEN 0 ELSE w[x] + SumFunctionOnSet(w, Without(s, x))
  BY <1>3, <1>4, SumTakes
<1>6. s # {} /\ x \in s
  BY <1>3, <1>4, <1>5, OneOfIsIn
<1>7. /\ Without(s, x) \in SUBSET D /\ Cardinality(s) \in Nat
      /\ Cardinality(Without(s, x)) = Cardinality(s) - 1
  BY <1>3, <1>6, Smaller
<1>8. Without(s, x) \notin Bad
  <2> HIDE DEF Bad
  <2> QED BY <1>2, <1>7
<1>9. SumFunctionOnSet(w, Without(s, x)) \in Nat /\ w[x] \in Nat
  BY <1>3, <1>6, <1>7, <1>8
<1> QED BY <1>3, <1>5, <1>6, <1>9

(* Whichever element is taken, the order does not matter. *)
LEMMA SumTakesAny ==
  ASSUME NEW D, IsFiniteSet(D), NEW w \in [D -> Nat], NEW L \in SUBSET D, NEW x \in L
  PROVE  SumFunctionOnSet(w, L) = w[x] + SumFunctionOnSet(w, Without(L, x))
<1> DEFINE Even(s) ==
      \A e \in s : SumFunctionOnSet(w, s) = w[e] + SumFunctionOnSet(w, Without(s, e))
           Bad == {s \in SUBSET D : ~Even(s)}
<1>1. SUFFICES ASSUME Bad # {} PROVE FALSE
  OBVIOUS
<1>2. PICK s \in Bad : \A u \in Bad : Cardinality(s) <= Cardinality(u)
  <2>1. \A u \in Bad : IsFiniteSet(u)
    BY FS_Subset
  <2> HIDE DEF Bad
  <2> QED BY ONLY <1>1, <2>1, SmallestOf
<1>3. s \in SUBSET D /\ IsFiniteSet(s)
  BY FS_Subset
<1>4. PICK e \in s : SumFunctionOnSet(w, s) # w[e] + SumFunctionOnSet(w, Without(s, e))
  OBVIOUS
<1>5. PICK y : y = OneOf(s)
  OBVIOUS
<1>6. y \in s /\ SumFunctionOnSet(w, s) = w[y] + SumFunctionOnSet(w, Without(s, y))
  BY <1>3, <1>4, <1>5, OneOfIsIn, SumTakes
<1>7. e # y
  BY <1>4, <1>6
<1>8. /\ Cardinality(s) \in Nat
      /\ Without(s, y) \in SUBSET D /\ Cardinality(Without(s, y)) = Cardinality(s) - 1
      /\ Without(s, e) \in SUBSET D /\ Cardinality(Without(s, e)) = Cardinality(s) - 1
  BY <1>3, <1>6, Smaller
<1>9. Without(s, y) \notin Bad /\ Without(s, e) \notin Bad
  <2> HIDE DEF Bad
  <2> QED BY <1>2, <1>8
<1>10. Even(Without(s, y)) /\ Even(Without(s, e))
  <2> HIDE DEF Even
  <2> QED BY <1>8, <1>9
<1>11. e \in Without(s, y) /\ y \in Without(s, e)
  BY <1>6, <1>7 DEF Without
<1>12. PICK t : t = Without(Without(s, y), e)
  OBVIOUS
<1>13. t = Without(Without(s, e), y) /\ t \in SUBSET D
  <2>1. t \in SUBSET D
    BY <1>8, <1>12 DEF Without
  <2> QED BY <1>12, <2>1, Interchange
<1>14. /\ SumFunctionOnSet(w, Without(s, y)) = w[e] + SumFunctionOnSet(w, t)
       /\ SumFunctionOnSet(w, Without(s, e)) = w[y] + SumFunctionOnSet(w, t)
  BY <1>10, <1>11, <1>12, <1>13
<1>15. w[e] \in Nat /\ w[y] \in Nat /\ SumFunctionOnSet(w, t) \in Nat
  BY <1>3, <1>6, <1>13, SumType
<1> QED BY <1>4, <1>6, <1>14, <1>15

Both(s, t) == s \cap t

(* What is left of a sum when the entries of G are struck out. *)
LEMMA SumCleared ==
  ASSUME NEW D, IsFiniteSet(D), NEW w \in [D -> Nat], NEW v \in [D -> Nat], NEW G,
         NEW L \in SUBSET D, \A x \in L : v[x] = IF x \in G THEN 0 ELSE w[x]
  PROVE  SumFunctionOnSet(w, L) = SumFunctionOnSet(w, Both(L, G)) + SumFunctionOnSet(v, L)
<1> DEFINE Even(s) ==
      SumFunctionOnSet(w, s) = SumFunctionOnSet(w, Both(s, G)) + SumFunctionOnSet(v, s)
           Bad == {s \in SUBSET L : ~Even(s)}
<1>1. SUFFICES ASSUME Bad # {} PROVE FALSE
  OBVIOUS
<1>2. PICK s \in Bad : \A u \in Bad : Cardinality(s) <= Cardinality(u)
  <2>1. \A u \in Bad : IsFiniteSet(u)
    BY FS_Subset
  <2> HIDE DEF Bad
  <2> QED BY ONLY <1>1, <2>1, SmallestOf
<1>3. s \in SUBSET L /\ s \in SUBSET D /\ IsFiniteSet(s) /\ IsFiniteSet(L) /\ ~Even(s)
  BY FS_Subset
<1>4. CASE s = {}
  <2>1. SumFunctionOnSet(w, s) = 0 /\ SumFunctionOnSet(v, s) = 0
    BY <1>3, <1>4, SumTakes
  <2>2. PICK z : z = Both(s, G)
    OBVIOUS
  <2>3. z = {} /\ IsFiniteSet(z)
    BY <1>3, <1>4, <2>2 DEF Both
  <2>4. SumFunctionOnSet(w, z) = 0
    BY <2>3, SumTakes
  <2> QED BY <1>3, <2>1, <2>2, <2>4
<1>5. CASE s # {}
  <2>1. PICK x \in s : TRUE
    BY <1>5
  <2>2. PICK u : u = Without(s, x)
    OBVIOUS
  <2>3. u \in SUBSET L /\ Cardinality(u) = Cardinality(s) - 1 /\ Cardinality(s) \in Nat
    BY <1>3, <2>2, Smaller
  <2>4. u \notin Bad
    <3> HIDE DEF Bad
    <3> QED BY <1>2, <2>3
  <2>5. Even(u)
    <3> HIDE DEF Even
    <3> QED BY <2>3, <2>4
  <2>6. /\ SumFunctionOnSet(w, s) = w[x] + SumFunctionOnSet(w, u)
        /\ SumFunctionOnSet(v, s) = v[x] + SumFunctionOnSet(v, u)
    BY <1>3, <2>2, SumTakesAny
  <2>7. PICK t : t = Both(s, G)
    OBVIOUS
  <2>8. PICK y : y = Both(u, G)
    OBVIOUS
  <2>9. t \in SUBSET D /\ y \in SUBSET D /\ u \in SUBSET D
    BY <1>3, <2>3, <2>7, <2>8 DEF Both
  <2>10. /\ w[x] \in Nat /\ v[x] = IF x \in G THEN 0 ELSE w[x]
         /\ SumFunctionOnSet(w, u) \in Nat /\ SumFunctionOnSet(v, u) \in Nat
         /\ SumFunctionOnSet(w, y) \in Nat
    BY <1>3, <2>9, SumType
  <2>11. CASE x \in G
    <3>1. x \in t /\ Without(t, x) = y
      BY <2>2, <2>7, <2>8, <2>11 DEF Without, Both
    <3>2. SumFunctionOnSet(w, t) = w[x] + SumFunctionOnSet(w, y)
      BY <2>9, <3>1, SumTakesAny
    <3> QED BY <1>3, <2>5, <2>6, <2>7, <2>8, <2>10, <2>11, <3>2
  <2>12. CASE x \notin G
    <3>1. t = y
      BY <2>2, <2>7, <2>8, <2>12 DEF Without, Both
    <3> QED BY <1>3, <2>5, <2>6, <2>7, <2>8, <2>10, <2>12, <3>1
  <2> QED BY <2>11, <2>12
<1> QED BY <1>4, <1>5

LEMMA SumEmpty == \A w : SumFunctionOnSet(w, {}) = 0
BY FS_EmptySet, SumTakes

LEMMA SumAgrees ==
  ASSUME NEW D, IsFiniteSet(D), NEW w \in [D -> Nat], NEW v \in [D -> Nat],
         NEW L \in SUBSET D, \A x \in L : v[x] = w[x]
  PROVE  SumFunctionOnSet(w, L) = SumFunctionOnSet(v, L)
<1>1. PICK G : G = {}
  OBVIOUS
<1>2. \A x \in L : v[x] = IF x \in G THEN 0 ELSE w[x]
  BY <1>1
<1>3. SumFunctionOnSet(w, L) = SumFunctionOnSet(w, Both(L, G)) + SumFunctionOnSet(v, L)
  BY <1>2, SumCleared
<1>4. Both(L, G) = {}
  BY <1>1 DEF Both
<1>5. SumFunctionOnSet(w, Both(L, G)) = 0
  BY <1>4, SumEmpty
<1>6. SumFunctionOnSet(v, L) \in Nat
  BY SumType
<1> QED BY <1>3, <1>5, <1>6

(* One entry changes. *)
LEMMA SumChanges ==
  ASSUME NEW D, IsFiniteSet(D), NEW w \in [D -> Nat], NEW v \in [D -> Nat],
         NEW L \in SUBSET D, NEW x, w[x] = 0, \A y \in L : y # x => v[y] = w[y]
  PROVE  SumFunctionOnSet(v, L) = SumFunctionOnSet(w, L) + IF x \in L THEN v[x] ELSE 0
<1>1. CASE x \notin L
  <2>1. SumFunctionOnSet(w, L) = SumFunctionOnSet(v, L)
    BY <1>1, SumAgrees
  <2>2. SumFunctionOnSet(w, L) \in Nat
    BY SumType
  <2> QED BY <1>1, <2>1, <2>2
<1>2. CASE x \in L
  <2>1. PICK u : u = Without(L, x)
    OBVIOUS
  <2>2. u \in SUBSET D /\ \A y \in u : v[y] = w[y]
    BY <2>1 DEF Without
  <2>3. SumFunctionOnSet(w, u) = SumFunctionOnSet(v, u)
    BY <2>2, SumAgrees
  <2>4. /\ SumFunctionOnSet(w, L) = w[x] + SumFunctionOnSet(w, u)
        /\ SumFunctionOnSet(v, L) = v[x] + SumFunctionOnSet(v, u)
    BY <1>2, <2>1, SumTakesAny
  <2>5. SumFunctionOnSet(w, u) \in Nat /\ v[x] \in Nat
    BY <1>2, <2>2, SumType
  <2> QED BY <1>2, <2>3, <2>4, <2>5
<1> QED BY <1>1, <1>2

(* A set gains an element whose entry is zero. *)
LEMMA SumGains ==
  ASSUME NEW D, IsFiniteSet(D), NEW w \in [D -> Nat],
         NEW L \in SUBSET D, NEW x \in D, w[x] = 0
  PROVE  SumFunctionOnSet(w, L \cup {x}) = SumFunctionOnSet(w, L)
<1>1. PICK M : M = L \cup {x}
  OBVIOUS
<1>2. SumFunctionOnSet(w, M) = SumFunctionOnSet(w, L)
  <2>1. CASE x \in L
    <3>1. M = L
      BY <1>1, <2>1
    <3> QED BY <3>1
  <2>2. CASE x \notin L
    <3>1. M \in SUBSET D /\ x \in M /\ Without(M, x) = L
      BY <1>1, <2>2 DEF Without
    <3>2. SumFunctionOnSet(w, M) = w[x] + SumFunctionOnSet(w, L)
      BY <3>1, SumTakesAny
    <3>3. SumFunctionOnSet(w, L) \in Nat
      BY SumType
    <3> QED BY <3>2, <3>3
  <2> QED BY <2>1, <2>2
<1> QED BY <1>1, <1>2

----------------------------------------------------------------------------
(* The queue.                                                              *)

LEMMA ActiveType ==
  ASSUME NEW T
  PROVE  IsFiniteSet(Active(T)) /\ Active(T) \subseteq Log /\ Cardinality(Active(T)) \in Nat
BY AgentAssumption, FS_Subset, FS_CardinalityType DEF Active

LEMMA LeastOfTwo ==
  ASSUME NEW a \in Int, NEW b \in Int
  PROVE  /\ Min({a, b}) \in Int /\ Min({a, b}) <= a /\ Min({a, b}) <= b
         /\ Min({a, b}) \in {a, b}
BY DEF Min

(* As many tasks of the queue are begun as may be.                         *)
LEMMA PumpKeeps ==
  ASSUME NEW T \in [Log -> Stage], NEW q \in Seq(Log), QueueOK(T, q), Pump(T, q)
  PROVE  /\ task' \in [Log -> Stage]
         /\ queue' \in Seq(Log)
         /\ QueueOK(task', queue')
         /\ \A l \in Log : task'[l] = T[l] \/ (T[l] = "queued" /\ task'[l] = "active")
<1>1. PICK free : free = Concurrency - Cardinality({l \in Log : T[l] = "active"})
  OBVIOUS
<1>2. PICK n : n = Min({free, Len(q)})
  OBVIOUS
<1>3. PICK begun : begun = ToSet(SubSeq(q, 1, n))
  OBVIOUS
<1>4. /\ task' = [l \in Log |-> IF l \in begun THEN "active" ELSE T[l]]
      /\ queue' = SubSeq(q, n + 1, Len(q))
  BY <1>1, <1>2, <1>3 DEF Pump
<1>5. free \in Nat /\ free = Concurrency - Cardinality(Active(T))
  <2>1. free = Concurrency - Cardinality(Active(T))
    BY <1>1 DEF Active
  <2>2. Cardinality(Active(T)) \in Nat /\ Cardinality(Active(T)) <= Concurrency
    BY ActiveType DEF QueueOK
  <2> QED BY <2>1, <2>2, LimitAssumption
<1>6. Len(q) \in Nat /\ n \in Nat /\ n <= free /\ n <= Len(q)
  <2>1. Len(q) \in Nat
    OBVIOUS
  <2>2. free \in Int /\ Len(q) \in Int
    BY <1>5, <2>1
  <2>3. n \in Int /\ n <= free /\ n <= Len(q) /\ n \in {free, Len(q)}
    BY <1>2, <2>2, LeastOfTwo
  <2> QED BY <1>5, <2>1, <2>3
<1>7. begun = {q[i] : i \in 1..n}
  <2>1. /\ SubSeq(q, 1, n) \in Seq(Log) /\ Len(SubSeq(q, 1, n)) = n
        /\ \A i \in 1..n : SubSeq(q, 1, n)[i] = q[i]
    BY <1>6
  <2>2. DOMAIN SubSeq(q, 1, n) = 1..n
    BY <2>1
  <2> QED BY <1>3, <2>1, <2>2 DEF ToSet
<1>8. \A l \in begun : l \in Log /\ T[l] = "queued"
  BY <1>6, <1>7 DEF QueueOK
<1>9. \A l \in Log : task'[l] = T[l] \/ (T[l] = "queued" /\ task'[l] = "active")
  BY <1>4, <1>8
<1>10. task' \in [Log -> Stage]
  BY <1>4 DEF Stage
<1>11. /\ queue' \in Seq(Log) /\ Len(queue') = Len(q) - n
       /\ \A i \in 1..Len(queue') : i + n \in 1..Len(q) /\ queue'[i] = q[i + n]
  BY <1>4, <1>6
<1>12. \A i \in 1..Len(queue') : task'[queue'[i]] = "queued"
  <2> SUFFICES ASSUME NEW i \in 1..Len(queue') PROVE task'[queue'[i]] = "queued"
    OBVIOUS
  <2>1. queue'[i] = q[i + n] /\ i + n \in 1..Len(q) /\ i \in Nat /\ i >= 1
    BY <1>11
  <2>2. q[i + n] \in Log /\ T[q[i + n]] = "queued"
    BY <2>1 DEF QueueOK
  <2>3. q[i + n] \notin begun
    <3>1. \A j \in 1..n : q[j] # q[i + n]
      BY <1>6, <2>1 DEF QueueOK
    <3> QED BY <1>7, <3>1
  <2> QED BY <1>4, <2>1, <2>2, <2>3
<1>13. \A i, j \in 1..Len(queue') : queue'[i] = queue'[j] => i = j
  BY <1>6, <1>11 DEF QueueOK
<1>14. Cardinality(Active(task')) <= Concurrency
  <2>1. PICK A : A = Active(T)
    OBVIOUS
  <2>2. IsFiniteSet(A) /\ Cardinality(A) \in Nat /\ free = Concurrency - Cardinality(A)
    BY <1>5, <2>1, ActiveType
  <2>3. IsFiniteSet(begun) /\ Cardinality(begun) <= n /\ Cardinality(begun) \in Nat
    <3>1. [i \in 1..n |-> q[i]] \in Surjection(1..n, begun)
      BY <1>7 DEF Surjection
    <3>2. ExistsSurjection(1..n, begun)
      BY <3>1 DEF ExistsSurjection
    <3> QED BY <1>6, <3>2, FS_SurjCardinalityBound, FS_NatSurjection, FS_CardinalityType
  <2>4. PICK U : U = A \cup begun
    OBVIOUS
  <2>5. /\ IsFiniteSet(U) /\ IsFiniteSet(A \cap begun) /\ Cardinality(A \cap begun) \in Nat
        /\ Cardinality(U) = Cardinality(A) + Cardinality(begun) - Cardinality(A \cap begun)
    BY <2>2, <2>3, <2>4, FS_Union, FS_Subset, FS_CardinalityType
  <2>6. Active(task') \in SUBSET U
    BY <1>4, <2>1, <2>4 DEF Active
  <2>7. Cardinality(Active(task')) <= Cardinality(U) /\ Cardinality(Active(task')) \in Nat
    BY <2>5, <2>6, FS_Subset, ActiveType
  <2> QED BY <1>6, <2>2, <2>3, <2>5, <2>7, LimitAssumption
<1> QED BY <1>9, <1>10, <1>11, <1>12, <1>13, <1>14 DEF QueueOK

(* Where no task becomes active and no queued one changes, the queue stays *)
(* in order.                                                               *)
LEMMA QueueStays ==
  ASSUME NEW T \in [Log -> Stage], NEW U \in [Log -> Stage], NEW q \in Seq(Log), QueueOK(T, q),
         \A l \in Log : T[l] = "queued" => U[l] = "queued",
         \A l \in Log : U[l] = "active" => T[l] = "active"
  PROVE  QueueOK(U, q)
<1>1. \A i \in 1..Len(q) : q[i] \in Log
  OBVIOUS
<1>2. Active(U) \in SUBSET Active(T)
  BY DEF Active
<1>3. Cardinality(Active(U)) <= Cardinality(Active(T))
  BY <1>2, ActiveType, FS_Subset
<1>4. Cardinality(Active(U)) <= Concurrency
  BY <1>3, ActiveType, LimitAssumption DEF QueueOK
<1> QED BY <1>1, <1>4 DEF QueueOK

----------------------------------------------------------------------------
(* The books.                                                              *)

LEMMA Names == /\ Agent = Log \cup Session /\ NoAgent \notin Agent
               /\ \A l \in Log : l \in Agent /\ l \notin Session
               /\ \A s \in Session : s \in Agent
               /\ IsFiniteSet(Log)
BY AgentAssumption DEF Agent

LEMMA Costs == /\ Absent \in Int /\ Unknown \in Int /\ Absent < 0 /\ Unknown < 0
               /\ Absent # Unknown
               /\ Absent \in Cost /\ Unknown \in Cost /\ \A n \in Nat : n \in Cost
BY DEF Absent, Unknown, Cost

(* The amounts in rows r, and the requests that g gives to agent a.        *)
Weigh(r) == [l \in Log |-> IF r[l] > 0 THEN r[l] ELSE 0]

Of(g, a) == {l \in Log : g[l] = a}

Total(r, g, a) == SumFunctionOnSet(Weigh(r), Of(g, a))

LEMMA WeighType ==
  ASSUME NEW r \in [Log -> Cost]
  PROVE  /\ Weigh(r) \in [Log -> Nat]
         /\ \A l \in Log : /\ r[l] \in {Absent, Unknown} => Weigh(r)[l] = 0
                           /\ r[l] \in Nat => Weigh(r)[l] = r[l]
<1>1. \A l \in Log : r[l] \in Cost
  OBVIOUS
<1>2. \A l \in Log : r[l] \in Nat \/ r[l] = -1 \/ r[l] = -2
  BY <1>1 DEF Cost, Absent, Unknown
<1>3. \A l \in Log : (IF r[l] > 0 THEN r[l] ELSE 0) \in Nat
  BY <1>2
<1> QED BY <1>2, <1>3 DEF Weigh, Absent, Unknown

LEMMA OfType == \A g, a : Of(g, a) \in SUBSET Log
BY DEF Of

LEMMA TotalType ==
  ASSUME NEW r \in [Log -> Cost], NEW g, NEW a
  PROVE  Total(r, g, a) \in Nat
BY WeighType, OfType, Names, SumType DEF Total

LEMMA BookedIs ==
  ASSUME NEW a
  PROVE  /\ Booked(a) = cleared[a] + Total(row, agentOf, a)
         /\ Booked(a)' = cleared'[a] + Total(row', agentOf', a)
BY DEF Booked, Sum, Amounts, Amount, LogsOf, Total, Weigh, Of

LEMMA TotalChanges ==
  ASSUME NEW r \in [Log -> Cost], NEW t \in [Log -> Cost], NEW l \in Log,
         r[l] \in {Absent, Unknown}, \A m \in Log : m # l => t[m] = r[m],
         NEW g, NEW a
  PROVE  Total(t, g, a) = Total(r, g, a) + IF g[l] = a THEN Weigh(t)[l] ELSE 0
<1>1. PICK w \in [Log -> Nat] : w = Weigh(r)
  BY WeighType
<1>2. PICK v \in [Log -> Nat] : v = Weigh(t)
  BY WeighType
<1>3. PICK L \in SUBSET Log : L = Of(g, a)
  BY OfType
<1>4. w[l] = 0
  BY <1>1, WeighType
<1>5. \A m \in L : m # l => v[m] = w[m]
  BY <1>1, <1>2 DEF Weigh
<1>6. SumFunctionOnSet(v, L) = SumFunctionOnSet(w, L) + IF l \in L THEN v[l] ELSE 0
  BY <1>4, <1>5, Names, SumChanges
<1>7. l \in L <=> g[l] = a
  BY <1>3 DEF Of
<1> QED BY <1>1, <1>2, <1>3, <1>6, <1>7 DEF Total

LEMMA TotalJoins ==
  ASSUME NEW r \in [Log -> Cost], NEW t \in [Log -> Cost], NEW l \in Log,
         r[l] \in {Absent, Unknown}, t[l] \in {Absent, Unknown},
         \A m \in Log : m # l => t[m] = r[m],
         NEW g, NEW h, \A m \in Log : m # l => h[m] = g[m], NEW a, g[l] # a
  PROVE  Total(t, h, a) = Total(r, g, a)
<1>1. Total(t, g, a) = Total(r, g, a)
  BY TotalChanges, TotalType
<1>2. PICK v \in [Log -> Nat] : v = Weigh(t) /\ v[l] = 0
  BY WeighType
<1>3. PICK L \in SUBSET Log : L = Of(g, a)
  BY OfType
<1>4. Of(h, a) = L \/ Of(h, a) = L \cup {l}
  BY <1>3 DEF Of
<1>5. SumFunctionOnSet(v, L \cup {l}) = SumFunctionOnSet(v, L)
  BY <1>2, Names, SumGains
<1>6. SumFunctionOnSet(v, Of(h, a)) = SumFunctionOnSet(v, L)
  <2>1. CASE Of(h, a) = L
    BY <2>1
  <2>2. CASE Of(h, a) = L \cup {l}
    BY <1>5, <2>2
  <2> QED BY <1>4, <2>1, <2>2
<1> QED BY <1>1, <1>2, <1>3, <1>6 DEF Total

LEMMA TotalCleared ==
  ASSUME NEW r \in [Log -> Cost], NEW G,
         NEW t, t = [l \in Log |-> IF l \in G THEN Absent ELSE r[l]], NEW g, NEW a
  PROVE  /\ t \in [Log -> Cost]
         /\ SumFunctionOnSet(Weigh(r), Both(Of(g, a), G)) \in Nat
         /\ Total(r, g, a) = SumFunctionOnSet(Weigh(r), Both(Of(g, a), G)) + Total(t, g, a)
<1>1. t \in [Log -> Cost]
  BY Costs
<1>2. PICK w \in [Log -> Nat] : w = Weigh(r)
  BY WeighType
<1>3. PICK v \in [Log -> Nat] : v = Weigh(t)
  BY <1>1, WeighType
<1>4. PICK L \in SUBSET Log : L = Of(g, a)
  BY OfType
<1>5. \A x \in L : v[x] = IF x \in G THEN 0 ELSE w[x]
  <2> SUFFICES ASSUME NEW x \in L PROVE v[x] = IF x \in G THEN 0 ELSE w[x]
    OBVIOUS
  <2>1. CASE x \in G
    BY <1>1, <1>3, <2>1, WeighType
  <2>2. CASE x \notin G
    BY <1>2, <1>3, <2>2 DEF Weigh
  <2> QED BY <2>1, <2>2
<1>6. SumFunctionOnSet(w, L) = SumFunctionOnSet(w, Both(L, G)) + SumFunctionOnSet(v, L)
  BY <1>5, Names, SumCleared
<1>7. Both(L, G) \in SUBSET Log
  BY DEF Both
<1>8. SumFunctionOnSet(w, Both(L, G)) \in Nat
  BY <1>7, Names, SumType
<1> QED BY <1>1, <1>2, <1>3, <1>4, <1>6, <1>8 DEF Total

(* A request's own agent has no other request.                             *)
LEMMA OwnTotal ==
  ASSUME NEW r \in [Log -> Cost], NEW g, NEW l \in Log, g[l] = l,
         \A m \in Log : g[m] \in Session \cup {m, NoAgent}
  PROVE  Total(r, g, l) = Weigh(r)[l]
<1>1. PICK w \in [Log -> Nat] : w = Weigh(r)
  BY WeighType
<1>2. PICK L \in SUBSET Log : L = Of(g, l)
  BY OfType
<1>3. l \in L
  BY <1>2 DEF Of
<1>4. \A m \in L : m = l
  BY <1>2, Names DEF Of
<1>5. Without(L, l) = {}
  BY <1>4 DEF Without
<1>6. SumFunctionOnSet(w, L) = w[l] + SumFunctionOnSet(w, Without(L, l))
  BY <1>3, Names, SumTakesAny
<1>7. SumFunctionOnSet(w, Without(L, l)) = 0
  BY <1>5, SumEmpty
<1>8. w[l] \in Nat
  OBVIOUS
<1> QED BY <1>1, <1>2, <1>6, <1>7, <1>8 DEF Total

LEMMA BookedType ==
  ASSUME TypeInv, NEW a \in Agent
  PROVE  Booked(a) \in Nat /\ baseline[a] \in Nat /\ total[a] \in Nat
<1>1. /\ row \in [Log -> Cost] /\ cleared[a] \in Nat /\ baseline[a] \in Nat /\ total[a] \in Nat
  BY DEF TypeInv
<1>2. Booked(a) = cleared[a] + Total(row, agentOf, a)
  BY BookedIs
<1>3. Total(row, agentOf, a) \in Nat
  BY <1>1, TotalType
<1> QED BY <1>1, <1>2, <1>3

(* Nothing was booked, and Cursor has charged no less.                     *)
LEMMA BooksStand ==
  ASSUME TypeInv, TypeInv', BookedOnce, strays' = strays, baseline' = baseline,
         \A a \in Agent : Booked(a)' = Booked(a),
         \A a \in Agent : total[a] <= total'[a]
  PROVE  BookedOnce'
<1>1. ASSUME NEW a \in Agent \ strays PROVE Booked(a)' <= total'[a]
  <2>1. Booked(a) <= total[a] /\ total[a] <= total'[a] /\ Booked(a)' = Booked(a)
    BY <1>1 DEF BookedOnce
  <2>2. Booked(a) \in Nat /\ total[a] \in Nat /\ total'[a] \in Nat
    BY BookedType DEF TypeInv
  <2> QED BY <2>1, <2>2
<1>2. ASSUME NEW s \in Session \ strays PROVE Booked(s)' = baseline'[s]
  BY <1>2, Names DEF BookedOnce
<1> QED BY <1>1, <1>2 DEF BookedOnce

LEMMA BooksSame ==
  ASSUME TypeInv, row' = row, agentOf' = agentOf, cleared' = cleared
  PROVE  \A a \in Agent : Booked(a)' = Booked(a)
<1>1. ASSUME NEW a \in Agent PROVE Booked(a)' = Booked(a)
  <2>1. Booked(a) = cleared[a] + Total(row, agentOf, a)
    BY BookedIs
  <2>2. Booked(a)' = cleared'[a] + Total(row', agentOf', a)
    BY BookedIs
  <2>3. Total(row', agentOf', a) = Total(row, agentOf, a)
    BY DEF Total, Weigh, Of
  <2> QED BY <2>1, <2>2, <2>3
<1> QED BY <1>1

(* The task of l has run.                                                  *)
LEMMA SettleKeeps ==
  ASSUME TypeInv, QueueInv, NEW l \in Log, task[l] = "active",
         NEW again \in BOOLEAN, Settle(l, again)
  PROVE  /\ task' \in [Log -> Stage] /\ queue' \in Seq(Log) /\ QueueInv'
         /\ attempt' \in [Log -> 0..MaxAttempts]
         /\ task'[l] \in {"delayed", "over"}
         /\ ~again => task'[l] = "over"
         /\ again /\ ~expired /\ task'[l] = "over" => attempt[l] = MaxAttempts
         /\ \A m \in Log : m # l =>
              task'[m] = task[m] \/ (task[m] = "queued" /\ task'[m] = "active")
         /\ UNCHANGED <<total, agentOf, durable, switches, expired, cleared>>
<1>1. PICK again2 \in BOOLEAN : again2 = (again /\ attempt[l] < MaxAttempts)
  OBVIOUS
<1>2. PICK v : v = IF again2 THEN Later ELSE "over"
  OBVIOUS
<1>3. v \in {"delayed", "over"} /\ (again2 /\ ~expired => v = "delayed") /\ (~again2 => v = "over")
  BY <1>2 DEF Later
<1>4. PICK T : T = [task EXCEPT ![l] = v]
  OBVIOUS
<1>5. T \in [Log -> Stage] /\ T[l] = v /\ \A m \in Log : m # l => T[m] = task[m]
  BY <1>3, <1>4 DEF TypeInv, Stage
<1>6. Pump(T, queue)
  BY <1>1, <1>2, <1>4 DEF Settle
<1>7. QueueOK(T, queue)
  <2>1. \A m \in Log : task[m] = "queued" => T[m] = "queued"
    BY <1>5
  <2>2. \A m \in Log : T[m] = "active" => task[m] = "active"
    BY <1>3, <1>5
  <2>3. task \in [Log -> Stage] /\ queue \in Seq(Log) /\ QueueOK(task, queue)
    BY DEF TypeInv, QueueInv
  <2> QED BY <1>5, <2>1, <2>2, <2>3, QueueStays
<1>8. /\ task' \in [Log -> Stage] /\ queue' \in Seq(Log) /\ QueueOK(task', queue')
      /\ \A m \in Log : task'[m] = T[m] \/ (T[m] = "queued" /\ task'[m] = "active")
  <2>1. queue \in Seq(Log)
    BY DEF TypeInv
  <2> QED BY <1>5, <1>6, <1>7, <2>1, PumpKeeps
<1>9. attempt[l] \in Nat /\ attempt[l] <= MaxAttempts /\ MaxAttempts \in Nat
  BY LimitAssumption DEF TypeInv
<1>10. attempt' = [attempt EXCEPT ![l] = IF again2 THEN @ + 1 ELSE @]
  BY <1>1 DEF Settle
<1>11. attempt' \in [Log -> 0..MaxAttempts]
  <2>1. CASE again2
    <3>1. attempt[l] < MaxAttempts
      BY <1>1, <2>1
    <3>2. attempt[l] + 1 \in 0..MaxAttempts
      BY <1>9, <3>1
    <3>3. attempt' = [attempt EXCEPT ![l] = @ + 1]
      BY <1>10, <2>1
    <3> QED BY <3>2, <3>3 DEF TypeInv
  <2>2. CASE ~again2
    BY <1>10, <2>2 DEF TypeInv
  <2> QED BY <2>1, <2>2
<1>12. ASSUME again, ~expired, v = "over" PROVE attempt[l] = MaxAttempts
  <2>1. ~again2
    BY <1>3, <1>12
  <2>2. ~(attempt[l] < MaxAttempts)
    BY <1>1, <1>12, <2>1
  <2> QED BY <1>9, <2>2
<1>13. task'[l] = v
  BY <1>3, <1>5, <1>8
<1>14. ~again => v = "over"
  BY <1>1, <1>3
<1>15. \A m \in Log : m # l =>
         task'[m] = task[m] \/ (task[m] = "queued" /\ task'[m] = "active")
  BY <1>5, <1>8
<1>16. UNCHANGED <<total, agentOf, durable, switches, expired, cleared>>
  BY DEF Settle
<1> QED BY <1>3, <1>8, <1>11, <1>12, <1>13, <1>14, <1>15, <1>16 DEF QueueInv

(* Where a task did not end, and its row is as it was.                     *)
LEMMA TaskStays ==
  ASSUME TaskInv, NEW m \in Log, row'[m] = row[m], cleared'[m] = cleared[m],
         agentOf'[m] = agentOf[m],
         \/ task'[m] = task[m]
         \/ task[m] \notin {"none", "over"} /\ task'[m] # "none"
  PROVE  TaskOK(m)'
BY DEF TaskInv, TaskOK

(* An answer writes the row of l, whose task is over unless it still knows *)
(* no cost.                                                                *)
LEMMA AnswerTasks ==
  ASSUME TypeInv, TypeInv', TaskInv, NEW l \in Log, task[l] = "active",
         task'[l] \in {"delayed", "over"},
         task'[l] # "over" => row'[l] \in {Absent, Unknown},
         \A m \in Log : m # l => /\ row'[m] = row[m]
                                 /\ \/ task'[m] = task[m]
                                    \/ task[m] = "queued" /\ task'[m] = "active",
         agentOf' = agentOf, cleared' = cleared
  PROVE  TaskInv'
<1>1. TaskOK(l)'
  BY DEF TaskInv, TaskOK
<1>2. ASSUME NEW m \in Log, m # l PROVE TaskOK(m)'
  BY <1>2, TaskStays
<1> QED BY <1>1, <1>2 DEF TaskInv

(* Only the row of l is written.                                           *)
LEMMA OneRow ==
  ASSUME TypeInv, TypeInv', TaskInv, NEW l \in Log, task[l] = "active",
         \A m \in Log : m # l => row'[m] = row[m],
         agentOf' = agentOf, cleared' = cleared
  PROVE  /\ agentOf[l] \in Agent /\ agentOf[l] \in Session \cup {l}
         /\ row[l] \in {Absent, Unknown}
         /\ Weigh(row')[l] \in Nat
         /\ row'[l] \in Nat => Weigh(row')[l] = row'[l]
         /\ row'[l] \in {Absent, Unknown} => Weigh(row')[l] = 0
         /\ \A a \in Agent :
              Booked(a)' = Booked(a) + IF agentOf[l] = a THEN Weigh(row')[l] ELSE 0
         /\ agentOf[l] = l => Booked(l) = 0
<1>1. /\ agentOf[l] \in Session \cup {l} /\ row[l] \in {Absent, Unknown} /\ cleared[l] = 0
      /\ \A m \in Log : agentOf[m] \in Session \cup {m, NoAgent}
  BY DEF TaskInv, TaskOK, TypeInv, Stage
<1>2. row \in [Log -> Cost] /\ row' \in [Log -> Cost] /\ cleared \in [Agent -> Nat]
  BY DEF TypeInv
<1>3. agentOf[l] \in Agent
  BY <1>1, Names
<1>4. ASSUME NEW a \in Agent
      PROVE  Booked(a)' = Booked(a) + IF agentOf[l] = a THEN Weigh(row')[l] ELSE 0
  <2>1. /\ Booked(a) = cleared[a] + Total(row, agentOf, a)
        /\ Booked(a)' = cleared'[a] + Total(row', agentOf', a)
    BY BookedIs
  <2>2. Total(row', agentOf, a) =
          Total(row, agentOf, a) + IF agentOf[l] = a THEN Weigh(row')[l] ELSE 0
    BY <1>1, <1>2, TotalChanges
  <2>3. Total(row, agentOf, a) \in Nat /\ cleared[a] \in Nat /\ Weigh(row')[l] \in Nat
    BY <1>2, TotalType, WeighType
  <2> QED BY <2>1, <2>2, <2>3
<1>5. ASSUME agentOf[l] = l PROVE Booked(l) = 0
  <2>1. Total(row, agentOf, l) = Weigh(row)[l]
    BY <1>1, <1>2, <1>5, OwnTotal
  <2>2. Weigh(row)[l] = 0
    BY <1>1, <1>2, WeighType
  <2>3. Booked(l) = cleared[l] + Total(row, agentOf, l)
    BY BookedIs
  <2> QED BY <1>1, <2>1, <2>2, <2>3
<1> QED BY <1>1, <1>2, <1>3, <1>4, <1>5, WeighType

----------------------------------------------------------------------------
(* The steps.                                                              *)

(* After the last attempt a task is over. *)
LEMMA LastAttempt ==
  ASSUME TypeInv, QueueInv, NEW l \in Log, task[l] = "active", attempt[l] = MaxAttempts,
         NEW again \in BOOLEAN, Settle(l, again)
  PROVE  task'[l] = "over"
<1>1. ~(attempt[l] < MaxAttempts)
  BY LimitAssumption
<1>2. Settle(l, FALSE)
  BY <1>1 DEF Settle
<1> QED BY <1>2, SettleKeeps

LEMMA WriteCostRow ==
  ASSUME TypeInv, NEW l \in Log, NEW c \in Nat, WriteCost(l, c)
  PROVE  /\ row' \in [Log -> Cost]
         /\ row'[l] = IF row[l] = Absent THEN Absent ELSE c
         /\ \A m \in Log : m # l => row'[m] = row[m]
BY Costs DEF TypeInv, WriteCost

(* An amount is the growth: nothing was booked for this request before.    *)
LEMMA BookGrowthRow ==
  ASSUME TypeInv, NEW l \in Log, row[l] \in {Absent, Unknown}, agentOf[l] \in Agent,
         NEW sum \in Nat, BookGrowth(l, sum)
  PROVE  /\ Grows(l, sum) =>
              /\ sum - baseline[agentOf[l]] \in Nat \ {0}
              /\ row' = [row EXCEPT ![l] = sum - baseline[agentOf[l]]]
              /\ baseline' = [baseline EXCEPT ![agentOf[l]] = sum]
         /\ ~Grows(l, sum) => row' = row /\ baseline' = baseline
<1>1. baseline[agentOf[l]] \in Nat
  BY DEF TypeInv
<1>2. Amount(l) = 0
  BY DEF Amount, Absent, Unknown
<1>3. PICK growth \in Int : growth = sum - baseline[agentOf[l]]
  BY <1>1
<1>4. Grows(l, sum) <=> row[l] # Absent /\ growth > 0
  BY <1>1, <1>3 DEF Grows
<1>5. IF row[l] = Absent \/ growth <= 0
      THEN row' = row /\ baseline' = baseline
      ELSE /\ baseline' = [baseline EXCEPT ![agentOf[l]] = sum]
           /\ row' = [row EXCEPT ![l] = Amount(l) + growth]
  BY <1>3 DEF BookGrowth
<1>6. Amount(l) + growth = growth
  BY <1>2
<1>7. CASE Grows(l, sum)
  <2>1. ~(row[l] = Absent \/ growth <= 0) /\ growth \in Nat \ {0}
    BY <1>4, <1>7
  <2> QED BY <1>3, <1>5, <1>6, <1>7, <2>1
<1>8. CASE ~Grows(l, sum)
  <2>1. row[l] = Absent \/ growth <= 0
    BY <1>4, <1>8
  <2> QED BY <1>5, <1>8, <2>1
<1> QED BY <1>7, <1>8

LEMMA ActiveTask ==
  ASSUME TypeInv, TaskInv, NEW l \in Log, task[l] = "active"
  PROVE  /\ agentOf[l] \in Agent /\ agentOf[l] \in Session \cup {l}
         /\ row[l] \in {Absent, Unknown}
<1>1. agentOf[l] \in Session \cup {l} /\ row[l] \in {Absent, Unknown}
  BY DEF TaskInv, TaskOK
<1> QED BY <1>1, Names

(* A total that has grown is booked, and is the baseline.                  *)
LEMMA GrowthBooked ==
  ASSUME IInv, TypeInv', NEW l \in Log, task[l] = "active", NEW sum \in Nat,
         sum <= total[agentOf[l]], Grows(l, sum), BookGrowth(l, sum),
         agentOf' = agentOf, cleared' = cleared, total' = total, strays' = strays
  PROVE  BookedOnce'
<1>1. TypeInv /\ TaskInv /\ BookedOnce
  BY DEF IInv
<1>2. PICK a \in Agent : a = agentOf[l] /\ a \in Session \cup {l}
  BY <1>1, ActiveTask
<1>3. PICK c : c = sum - baseline[a]
  OBVIOUS
<1>4. /\ c \in Nat \ {0} /\ row' = [row EXCEPT ![l] = c]
      /\ baseline' = [baseline EXCEPT ![a] = sum]
  BY <1>1, <1>2, <1>3, ActiveTask, BookGrowthRow
<1>5. /\ row \in [Log -> Cost] /\ baseline \in [Agent -> Nat]
      /\ \A b \in Agent : Booked(b) \in Nat /\ total[b] \in Nat /\ baseline[b] \in Nat
  BY <1>1, BookedType DEF TypeInv
<1>6. row'[l] = c /\ \A m \in Log : m # l => row'[m] = row[m]
  BY <1>4, <1>5
<1>7. /\ \A b \in Agent : Booked(b)' = Booked(b) + IF a = b THEN c ELSE 0
      /\ a = l => Booked(l) = 0
  <2>1. Weigh(row')[l] = c
    BY <1>1, <1>4, <1>6, OneRow
  <2> QED BY <1>1, <1>2, <1>6, <2>1, OneRow
<1>8. ASSUME NEW b \in Agent \ strays, b # a
      PROVE  Booked(b)' <= total'[b] /\ (b \in Session => Booked(b)' = baseline'[b])
  <2>1. Booked(b)' = Booked(b) /\ baseline'[b] = baseline[b]
    BY <1>4, <1>5, <1>7, <1>8
  <2> QED BY <1>1, <1>8, <2>1 DEF BookedOnce
<1>9. ASSUME a \notin strays
      PROVE  Booked(a)' <= total'[a] /\ (a \in Session => Booked(a)' = baseline'[a])
  <2>1. Booked(a)' = Booked(a) + c /\ baseline'[a] = sum /\ sum <= total[a]
    BY <1>2, <1>4, <1>5, <1>7
  <2>2. CASE a \in Session
    <3>1. Booked(a) = baseline[a]
      BY <1>1, <1>9, <2>2 DEF BookedOnce
    <3>2. Booked(a)' = sum
      BY <1>3, <1>5, <2>1, <3>1
    <3> QED BY <2>1, <3>2
  <2>3. CASE a = l
    <3>1. Booked(a)' = c
      BY <1>4, <1>7, <2>1, <2>3
    <3>2. c <= sum
      BY <1>3, <1>5
    <3>3. a \notin Session
      BY <2>3, Names
    <3> QED BY <1>4, <1>5, <2>1, <3>1, <3>2, <3>3
  <2> QED BY <1>2, <2>2, <2>3
<1>10. \A b \in Agent \ strays : /\ Booked(b)' <= total'[b]
                                 /\ b \in Session => Booked(b)' = baseline'[b]
  BY <1>8, <1>9
<1> QED BY <1>10, Names DEF BookedOnce

LEMMA TrackedKeeps ==
  ASSUME IInv, NEW l \in Log, NEW sum \in 0..MaxTotal, task[l] = "active",
         sum <= total[agentOf[l]], Tracked(l, sum)
  PROVE  IInv'
<1>1. TypeInv /\ QueueInv /\ TaskInv /\ BookedOnce /\ sum \in Nat
  BY LimitAssumption DEF IInv
<1>2. PICK again \in BOOLEAN : again = ~Grows(l, sum)
  OBVIOUS
<1>3. Settle(l, again) /\ strays' = strays
  BY <1>2 DEF Tracked
<1>4. /\ task' \in [Log -> Stage] /\ queue' \in Seq(Log) /\ QueueInv'
      /\ attempt' \in [Log -> 0..MaxAttempts]
      /\ task'[l] \in {"delayed", "over"}
      /\ ~again => task'[l] = "over"
      /\ \A m \in Log : m # l =>
           task'[m] = task[m] \/ (task[m] = "queued" /\ task'[m] = "active")
      /\ UNCHANGED <<total, agentOf, durable, switches, expired, cleared>>
  BY <1>1, <1>3, SettleKeeps
<1>5. agentOf[l] \in Agent /\ row[l] \in {Absent, Unknown} /\ row \in [Log -> Cost]
  BY <1>1, ActiveTask DEF TypeInv
<1>6. CASE Grows(l, sum)
  <2>1. BookGrowth(l, sum)
    BY <1>6 DEF Tracked
  <2>2. PICK c \in Nat \ {0} : row' = [row EXCEPT ![l] = c]
    BY <1>1, <1>5, <1>6, <2>1, BookGrowthRow
  <2>3. baseline' = [baseline EXCEPT ![agentOf[l]] = sum]
    BY <1>1, <1>5, <1>6, <2>1, BookGrowthRow
  <2>4. /\ row' \in [Log -> Cost] /\ baseline' \in [Agent -> Nat]
        /\ \A m \in Log : m # l => row'[m] = row[m]
    BY <1>1, <1>5, <2>2, <2>3, Costs DEF TypeInv
  <2>5. TypeInv'
    BY <1>1, <1>3, <1>4, <2>4 DEF TypeInv
  <2>6. task'[l] = "over"
    BY <1>2, <1>4, <1>6
  <2>7. TaskInv'
    BY <1>1, <1>4, <2>4, <2>5, <2>6, AnswerTasks
  <2>8. BookedOnce'
    BY <1>1, <1>3, <1>4, <1>6, <2>1, <2>5, GrowthBooked
  <2> QED BY <1>4, <2>5, <2>7, <2>8 DEF IInv
<1>7. CASE ~Grows(l, sum)
  <2>1. /\ baseline' = baseline /\ row' \in [Log -> Cost]
        /\ \A m \in Log : m # l => row'[m] = row[m]
        /\ \/ row'[l] = row[l]
           \/ row'[l] \in {Absent, 0} /\ attempt[l] = MaxAttempts
    <3>1. CASE attempt[l] < MaxAttempts
      <4>1. BookGrowth(l, sum)
        BY <3>1 DEF Tracked
      <4>2. row' = row /\ baseline' = baseline
        BY <1>1, <1>5, <1>7, <4>1, BookGrowthRow
      <4> QED BY <1>5, <4>2
    <3>2. CASE ~(attempt[l] < MaxAttempts)
      <4>1. WriteCost(l, 0) /\ baseline' = baseline
        BY <1>7, <3>2 DEF Tracked
      <4>2. /\ row' \in [Log -> Cost] /\ row'[l] \in {Absent, 0}
            /\ \A m \in Log : m # l => row'[m] = row[m]
        BY <1>1, <4>1, WriteCostRow
      <4>3. attempt[l] = MaxAttempts
        BY <1>1, <3>2, LimitAssumption DEF TypeInv
      <4> QED BY <4>1, <4>2, <4>3
    <3> QED BY <3>1, <3>2
  <2>2. TypeInv'
    BY <1>1, <1>3, <1>4, <2>1 DEF TypeInv
  <2>3. task'[l] # "over" => row'[l] \in {Absent, Unknown}
    <3>1. CASE row'[l] = row[l]
      BY <1>5, <3>1
    <3>2. CASE attempt[l] = MaxAttempts
      <4>1. task'[l] = "over"
        BY <1>1, <1>3, <3>2, LastAttempt
      <4> QED BY <4>1
    <3> QED BY <2>1, <3>1, <3>2
  <2>4. TaskInv'
    BY <1>1, <1>4, <2>1, <2>2, <2>3, AnswerTasks
  <2>5. \A a \in Agent : Booked(a)' = Booked(a)
    <3>1. row'[l] \in {Absent, Unknown} \/ row'[l] = 0
      BY <1>5, <2>1
    <3>2. Weigh(row')[l] = 0
      BY <1>1, <1>4, <2>1, <2>2, <3>1, OneRow, SMTT(40)
    <3>3. \A a \in Agent : Booked(a)' = Booked(a) + IF agentOf[l] = a THEN 0 ELSE 0
      BY <1>1, <1>4, <2>1, <2>2, <3>2, OneRow
    <3>4. \A a \in Agent : Booked(a) \in Nat
      BY <1>1, BookedType
    <3> QED BY <3>3, <3>4
  <2>6. \A a \in Agent : total[a] <= total'[a]
    BY <1>1, <1>4, BookedType
  <2>7. BookedOnce'
    BY <1>1, <1>3, <2>1, <2>2, <2>5, <2>6, BooksStand
  <2> QED BY <1>4, <2>2, <2>4, <2>7 DEF IInv
<1> QED BY <1>6, <1>7

(* A stateless request is given the whole total; an agent that was durable *)
(* is excepted from now on.                                                *)
LEMMA UntrackedKeeps ==
  ASSUME IInv, NEW l \in Log, NEW sum \in 0..MaxTotal, task[l] = "active",
         sum <= total[agentOf[l]], Untracked(l, sum)
  PROVE  IInv'
<1>1. TypeInv /\ QueueInv /\ TaskInv /\ BookedOnce /\ sum \in Nat
  BY LimitAssumption DEF IInv
<1>2. /\ WriteCost(l, sum) /\ baseline' = baseline /\ Settle(l, FALSE)
      /\ strays' = strays \cup ({agentOf[l]} \cap Session)
  BY DEF Untracked
<1>3. /\ task' \in [Log -> Stage] /\ queue' \in Seq(Log) /\ QueueInv'
      /\ attempt' \in [Log -> 0..MaxAttempts]
      /\ task'[l] = "over"
      /\ \A m \in Log : m # l =>
           task'[m] = task[m] \/ (task[m] = "queued" /\ task'[m] = "active")
      /\ UNCHANGED <<total, agentOf, durable, switches, expired, cleared>>
  BY <1>1, <1>2, SettleKeeps
<1>4. /\ row' \in [Log -> Cost] /\ row'[l] \in {Absent, sum}
      /\ \A m \in Log : m # l => row'[m] = row[m]
  BY <1>1, <1>2, WriteCostRow
<1>5. TypeInv'
  <2>1. strays' \subseteq Session
    BY <1>1, <1>2 DEF TypeInv
  <2> QED BY <1>1, <1>2, <1>3, <1>4, <2>1 DEF TypeInv
<1>6. TaskInv'
  BY <1>1, <1>3, <1>4, <1>5, AnswerTasks
<1>7. PICK c : c = Weigh(row')[l]
  OBVIOUS
<1>8. /\ \A b \in Agent : Booked(b)' = Booked(b) + IF agentOf[l] = b THEN c ELSE 0
      /\ agentOf[l] = l => Booked(l) = 0
      /\ agentOf[l] \in Session \cup {l}
      /\ row'[l] \in Nat => c = row'[l]
      /\ row'[l] = Absent => c = 0
  BY <1>1, <1>3, <1>4, <1>5, <1>7, OneRow
<1>9. c \in Nat /\ c <= sum
  <2>1. CASE row'[l] = Absent
    BY <1>1, <1>8, <2>1
  <2>2. CASE row'[l] = sum
    BY <1>1, <1>8, <2>2
  <2> QED BY <1>4, <2>1, <2>2
<1>10. \A b \in Agent : Booked(b) \in Nat /\ total[b] \in Nat
  BY <1>1, BookedType
<1>11. ASSUME NEW b \in Agent \ strays'
       PROVE  Booked(b)' <= total'[b] /\ (b \in Session => Booked(b)' = baseline'[b])
  <2>1. b \notin strays
    BY <1>2, <1>11
  <2>2. CASE agentOf[l] = b
    <3>1. b = l /\ b \notin Session
      BY <1>2, <1>8, <1>11, <2>2
    <3>2. Booked(b)' = c
      BY <1>8, <1>9, <2>2, <3>1
    <3> QED BY <1>1, <1>3, <1>9, <1>10, <2>2, <3>1, <3>2
  <2>3. CASE agentOf[l] # b
    <3>1. Booked(b)' = Booked(b)
      BY <1>8, <1>10, <1>11, <2>3
    <3>2. Booked(b) <= total[b] /\ (b \in Session => Booked(b) = baseline[b])
      BY <1>1, <1>11, <2>1 DEF BookedOnce
    <3> QED BY <1>2, <1>3, <3>1, <3>2
  <2> QED BY <2>2, <2>3
<1>12. BookedOnce'
  BY <1>11, Names DEF BookedOnce
<1> QED BY <1>3, <1>5, <1>6, <1>12 DEF IInv

LEMMA NoAnswerKeeps ==
  ASSUME IInv, NEW l \in Log, NoAnswer(l)
  PROVE  IInv'
<1>1. TypeInv /\ QueueInv /\ TaskInv /\ BookedOnce
  BY DEF IInv
<1>2. /\ task[l] = "active" /\ Settle(l, TRUE)
      /\ row' = row /\ baseline' = baseline /\ strays' = strays
  BY DEF NoAnswer
<1>3. /\ task' \in [Log -> Stage] /\ queue' \in Seq(Log) /\ QueueInv'
      /\ attempt' \in [Log -> 0..MaxAttempts]
      /\ task'[l] \in {"delayed", "over"}
      /\ \A m \in Log : m # l =>
           task'[m] = task[m] \/ (task[m] = "queued" /\ task'[m] = "active")
      /\ UNCHANGED <<total, agentOf, durable, switches, expired, cleared>>
  BY <1>1, <1>2, SettleKeeps
<1>4. TypeInv'
  BY <1>1, <1>2, <1>3 DEF TypeInv
<1>5. TaskInv'
  <2>1. row'[l] \in {Absent, Unknown} /\ \A m \in Log : row'[m] = row[m]
    BY <1>1, <1>2, ActiveTask
  <2> QED BY <1>1, <1>2, <1>3, <1>4, <2>1, AnswerTasks
<1>6. \A a \in Agent : Booked(a)' = Booked(a)
  BY <1>1, <1>2, <1>3, BooksSame
<1>7. \A a \in Agent : total[a] <= total'[a]
  BY <1>1, <1>3, BookedType
<1>8. BookedOnce'
  BY <1>1, <1>2, <1>4, <1>6, <1>7, BooksStand
<1> QED BY <1>3, <1>4, <1>5, <1>8 DEF IInv

LEMMA FinishLogKeeps ==
  ASSUME IInv, NEW l \in Log, NEW keyGone \in BOOLEAN, FinishLog(l, keyGone)
  PROVE  IInv'
<1>1. TypeInv /\ QueueInv /\ TaskInv /\ BookedOnce
  BY DEF IInv
<1>2. PICK a \in (IF durable THEN Session ELSE {l}) : agentOf' = [agentOf EXCEPT ![l] = a]
  BY DEF FinishLog
<1>3. PICK v : v = IF keyGone THEN "over" ELSE Later
  OBVIOUS
<1>4. /\ task[l] = "none" /\ row' = [row EXCEPT ![l] = Unknown]
      /\ task' = [task EXCEPT ![l] = v] /\ attempt' = [attempt EXCEPT ![l] = 1]
      /\ UNCHANGED <<baseline, total, queue, durable, switches, shutdown, expired, cleared,
                     strays>>
  BY <1>3 DEF FinishLog
<1>5. v \in {"delayed", "over"}
  BY <1>3 DEF Later
<1>6. a \in Agent /\ a \in Session \cup {l}
  BY <1>2, Names
<1>7. TypeInv'
  <2>1. /\ row' \in [Log -> Cost] /\ task' \in [Log -> Stage]
        /\ agentOf' \in [Log -> Agent \cup {NoAgent}]
    BY <1>1, <1>2, <1>4, <1>5, <1>6, Costs DEF TypeInv, Stage
  <2>2. attempt' \in [Log -> 0..MaxAttempts]
    <3>1. 1 \in 0..MaxAttempts
      BY LimitAssumption
    <3> QED BY <1>1, <1>4, <3>1 DEF TypeInv
  <2> QED BY <1>1, <1>4, <2>1, <2>2 DEF TypeInv
<1>8. /\ row[l] = Absent /\ agentOf[l] = NoAgent /\ cleared[l] = 0
      /\ row'[l] = Unknown /\ agentOf'[l] = a /\ task'[l] = v
      /\ \A m \in Log : m # l => /\ row'[m] = row[m] /\ agentOf'[m] = agentOf[m]
                                 /\ task'[m] = task[m]
  BY <1>1, <1>2, <1>4 DEF TypeInv, TaskInv, TaskOK
<1>9. QueueInv'
  <2>1. /\ \A m \in Log : task[m] = "queued" => task'[m] = "queued"
        /\ \A m \in Log : task'[m] = "active" => task[m] = "active"
    BY <1>4, <1>5, <1>8
  <2>2. /\ task \in [Log -> Stage] /\ task' \in [Log -> Stage]
        /\ queue \in Seq(Log) /\ QueueOK(task, queue)
    BY <1>1, <1>7 DEF TypeInv, QueueInv
  <2>3. QueueOK(task', queue)
    BY <2>1, <2>2, QueueStays
  <2> QED BY <1>4, <2>3 DEF QueueInv
<1>10. TaskInv'
  <2>1. TaskOK(l)'
    BY <1>4, <1>5, <1>6, <1>8 DEF TaskOK
  <2>2. ASSUME NEW m \in Log, m # l PROVE TaskOK(m)'
    BY <1>1, <1>4, <1>8, <2>2, TaskStays
  <2> QED BY <2>1, <2>2 DEF TaskInv
<1>11. ASSUME NEW b \in Agent PROVE Booked(b)' = Booked(b)
  <2>1. row \in [Log -> Cost] /\ row' \in [Log -> Cost]
    BY <1>1, <1>7 DEF TypeInv
  <2>2. row[l] \in {Absent, Unknown} /\ row'[l] \in {Absent, Unknown} /\ agentOf[l] # b
    BY <1>8, Names
  <2>3. Total(row', agentOf', b) = Total(row, agentOf, b)
    BY <1>8, <2>1, <2>2, TotalJoins
  <2> QED BY <1>4, <2>3, BookedIs
<1>12. \A b \in Agent : total[b] <= total'[b]
  BY <1>1, <1>4, BookedType
<1>13. BookedOnce'
  BY <1>1, <1>4, <1>7, <1>11, <1>12, BooksStand
<1> QED BY <1>7, <1>9, <1>10, <1>13 DEF IInv

(* A request's own agent was given nothing before the task is over.        *)
LEMMA NothingBooked ==
  ASSUME TypeInv, TaskInv, NEW l \in Log, task[l] # "over"
  PROVE  Total(row, agentOf, l) = 0
<1>1. /\ row \in [Log -> Cost] /\ row[l] \in {Absent, Unknown}
      /\ \A m \in Log : agentOf[m] \in Session \cup {m, NoAgent}
  BY DEF TypeInv, TaskInv, TaskOK
<1>2. CASE agentOf[l] = l
  <2>1. Total(row, agentOf, l) = Weigh(row)[l]
    BY <1>1, <1>2, OwnTotal
  <2> QED BY <1>1, <2>1, WeighType
<1>3. CASE agentOf[l] # l
  <2>1. \A m \in Log : agentOf[m] # l
    BY <1>1, <1>3, Names
  <2>2. Of(agentOf, l) = {}
    BY <2>1 DEF Of
  <2> QED BY <2>2, SumEmpty DEF Total
<1> QED BY <1>2, <1>3

LEMMA DeleteLogsKeeps ==
  ASSUME IInv, NEW gone \in SUBSET Log, DeleteLogs(gone)
  PROVE  IInv'
<1>1. TypeInv /\ QueueInv /\ TaskInv /\ BookedOnce
  BY DEF IInv
<1>2. /\ cleared' = [a \in Agent |-> cleared[a] + Sum(LogsOf(a) \cap gone)]
      /\ row' = [l \in Log |-> IF l \in gone THEN Absent ELSE row[l]]
      /\ UNCHANGED <<baseline, total, agentOf, task, attempt, queue, durable, switches, shutdown,
                     expired, strays>>
  BY DEF DeleteLogs
<1>3. row \in [Log -> Cost] /\ cleared \in [Agent -> Nat]
  BY <1>1 DEF TypeInv
<1>4. PICK w : w = [b \in Agent |-> SumFunctionOnSet(Weigh(row), Both(Of(agentOf, b), gone))]
  OBVIOUS
<1>5. \A b \in Agent : cleared'[b] = cleared[b] + w[b]
  <2> SUFFICES ASSUME NEW b \in Agent PROVE cleared'[b] = cleared[b] + w[b]
    OBVIOUS
  <2>1. cleared'[b] = cleared[b] + Sum(LogsOf(b) \cap gone)
    BY <1>2
  <2>2. Sum(LogsOf(b) \cap gone) = SumFunctionOnSet(Weigh(row), Both(Of(agentOf, b), gone))
    BY DEF Sum, LogsOf, Amounts, Amount, Weigh, Of, Both
  <2> QED BY <1>4, <2>1, <2>2
<1>6. /\ row' \in [Log -> Cost]
      /\ \A b \in Agent : /\ w[b] \in Nat
                          /\ Total(row, agentOf, b) = w[b] + Total(row', agentOf, b)
  <2>1. PICK r : r = row'
    OBVIOUS
  <2>2. r = [l \in Log |-> IF l \in gone THEN Absent ELSE row[l]]
    BY <1>2, <2>1
  <2>3. ASSUME NEW b \in Agent
        PROVE  /\ r \in [Log -> Cost]
               /\ SumFunctionOnSet(Weigh(row), Both(Of(agentOf, b), gone)) \in Nat
               /\ Total(row, agentOf, b) =
                    SumFunctionOnSet(Weigh(row), Both(Of(agentOf, b), gone)) + Total(r, agentOf, b)
    BY <1>3, <2>2, TotalCleared
  <2>4. r \in [Log -> Cost]
    BY <1>3, <2>2, Costs
  <2> QED BY <1>4, <2>1, <2>3, <2>4
<1>7. cleared' \in [Agent -> Nat]
  <2>1. cleared' = [b \in Agent |-> cleared'[b]]
    BY <1>2
  <2>2. \A b \in Agent : cleared'[b] \in Nat
    BY <1>3, <1>5, <1>6
  <2> QED BY <2>1, <2>2
<1>8. TypeInv'
  BY <1>1, <1>2, <1>6, <1>7 DEF TypeInv
<1>9. ASSUME NEW b \in Agent PROVE Booked(b)' = Booked(b)
  <2>1. /\ Booked(b) = cleared[b] + Total(row, agentOf, b)
        /\ Booked(b)' = cleared'[b] + Total(row', agentOf, b)
    BY <1>2, BookedIs
  <2>2. /\ cleared[b] \in Nat /\ w[b] \in Nat /\ cleared'[b] = cleared[b] + w[b]
        /\ Total(row', agentOf, b) \in Nat /\ Total(row, agentOf, b) = w[b] + Total(row', agentOf, b)
    BY <1>3, <1>5, <1>6, TotalType
  <2> QED BY <2>1, <2>2
<1>10. \A b \in Agent : total[b] <= total'[b]
  BY <1>1, <1>2, BookedType
<1>11. BookedOnce'
  BY <1>1, <1>2, <1>8, <1>9, <1>10, BooksStand
<1>12. TaskInv'
  <2> SUFFICES ASSUME NEW l \in Log PROVE TaskOK(l)'
    BY DEF TaskInv
  <2>1. TaskOK(l) /\ l \in Agent
    BY <1>1, Names DEF TaskInv
  <2>2. ASSUME task[l] # "over" PROVE cleared'[l] = 0
    <3>1. row[l] \in {Absent, Unknown} /\ cleared[l] = 0
      BY <2>1, <2>2 DEF TaskOK
    <3>2. Total(row, agentOf, l) = 0
      BY <1>1, <2>2, NothingBooked
    <3>3. w[l] = 0
      <4>1. w[l] \in Nat /\ Total(row', agentOf, l) \in Nat
        BY <1>6, <2>1, TotalType
      <4> QED BY <1>6, <2>1, <3>2, <4>1
    <3> QED BY <1>5, <2>1, <3>1, <3>3
  <2>3. task[l] = "none" => row'[l] = Absent
    BY <1>2, <2>1 DEF TaskOK
  <2>4. task[l] # "over" => row'[l] \in {Absent, Unknown}
    BY <1>2, <2>1 DEF TaskOK
  <2> QED BY <1>2, <2>1, <2>2, <2>3, <2>4 DEF TaskOK
<1>13. QueueInv'
  BY <1>1, <1>2 DEF QueueInv
<1> QED BY <1>8, <1>11, <1>12, <1>13 DEF IInv

LEMMA DueKeeps ==
  ASSUME IInv, NEW l \in Log, Due(l)
  PROVE  /\ IInv'
         /\ \A m \in Log : m # l =>
              task'[m] = task[m] \/ (task[m] = "queued" /\ task'[m] = "active")
         /\ task'[l] \in {"queued", "active"}
<1>1. TypeInv /\ QueueInv /\ TaskInv /\ BookedOnce
  BY DEF IInv
<1>2. PICK T : T = [task EXCEPT ![l] = "queued"]
  OBVIOUS
<1>3. PICK q : q = Append(queue, l)
  OBVIOUS
<1>4. /\ task[l] = "delayed" /\ Pump(T, q)
      /\ UNCHANGED <<row, baseline, total, agentOf, attempt, durable, switches, expired,
                     cleared, strays>>
  BY <1>2, <1>3 DEF Due
<1>5. task \in [Log -> Stage] /\ queue \in Seq(Log) /\ QueueOK(task, queue)
  BY <1>1 DEF TypeInv, QueueInv
<1>6. T \in [Log -> Stage] /\ T[l] = "queued" /\ \A m \in Log : m # l => T[m] = task[m]
  BY <1>2, <1>5 DEF Stage
<1>7. QueueOK(T, queue)
  <2>1. /\ \A m \in Log : task[m] = "queued" => T[m] = "queued"
        /\ \A m \in Log : T[m] = "active" => task[m] = "active"
    BY <1>6
  <2> QED BY <1>5, <1>6, <2>1, QueueStays
<1>8. /\ q \in Seq(Log) /\ Len(queue) \in Nat /\ Len(q) = Len(queue) + 1
      /\ q[Len(q)] = l /\ \A i \in 1..Len(queue) : q[i] = queue[i]
  BY <1>3, <1>5
<1>9. \A i \in 1..Len(queue) : queue[i] # l
  BY <1>4, <1>5 DEF QueueOK
<1>10. QueueOK(T, q)
  <2>1. \A i \in 1..Len(q) : i = Len(q) \/ i \in 1..Len(queue)
    BY <1>8
  <2>2. \A i \in 1..Len(q) : T[q[i]] = "queued"
    BY <1>6, <1>7, <1>8, <2>1 DEF QueueOK
  <2>3. \A i, j \in 1..Len(q) : q[i] = q[j] => i = j
    <3> SUFFICES ASSUME NEW i \in 1..Len(q), NEW j \in 1..Len(q), q[i] = q[j] PROVE i = j
      OBVIOUS
    <3>1. CASE i \in 1..Len(queue) /\ j \in 1..Len(queue)
      BY <1>7, <1>8, <3>1 DEF QueueOK
    <3>2. CASE i = Len(q) \/ j = Len(q)
      BY <1>8, <1>9, <2>1, <3>2
    <3> QED BY <2>1, <3>1, <3>2
  <2> QED BY <1>7, <2>2, <2>3 DEF QueueOK
<1>11. /\ task' \in [Log -> Stage] /\ queue' \in Seq(Log) /\ QueueOK(task', queue')
       /\ \A m \in Log : task'[m] = T[m] \/ (T[m] = "queued" /\ task'[m] = "active")
  BY <1>4, <1>6, <1>8, <1>10, PumpKeeps
<1>12. /\ \A m \in Log : m # l =>
            task'[m] = task[m] \/ (task[m] = "queued" /\ task'[m] = "active")
       /\ task'[l] \in {"queued", "active"}
  BY <1>6, <1>11
<1>13. TypeInv'
  BY <1>1, <1>4, <1>11 DEF TypeInv
<1>14. TaskInv'
  <2> SUFFICES ASSUME NEW m \in Log PROVE TaskOK(m)'
    BY DEF TaskInv
  <2>1. \/ task'[m] = task[m]
        \/ task[m] \notin {"none", "over"} /\ task'[m] # "none"
    BY <1>4, <1>12
  <2> QED BY <1>1, <1>4, <2>1, TaskStays
<1>15. BookedOnce'
  <2>1. \A a \in Agent : Booked(a)' = Booked(a)
    BY <1>1, <1>4, BooksSame
  <2>2. \A a \in Agent : total[a] <= total'[a]
    BY <1>1, <1>4, BookedType
  <2> QED BY <1>1, <1>4, <1>13, <2>1, <2>2, BooksStand
<1> QED BY <1>11, <1>12, <1>13, <1>14, <1>15 DEF IInv, QueueInv

LEMMA ChargeKeeps ==
  ASSUME IInv, NEW a \in Agent, Charge(a)
  PROVE  IInv'
<1>1. TypeInv /\ QueueInv /\ TaskInv /\ BookedOnce
  BY DEF IInv
<1>2. /\ total' = [total EXCEPT ![a] = @ + 1]
      /\ UNCHANGED <<row, baseline, agentOf, task, attempt, queue, durable, switches,
                     shutdown, expired, cleared, strays>>
  BY DEF Charge
<1>3. /\ total' \in [Agent -> Nat] /\ \A b \in Agent : total[b] <= total'[b]
  <2>1. total \in [Agent -> Nat]
    BY <1>1 DEF TypeInv
  <2> QED BY <1>2, <2>1
<1>4. TypeInv'
  BY <1>1, <1>2, <1>3 DEF TypeInv
<1>5. QueueInv' /\ TaskInv'
  BY <1>1, <1>2 DEF QueueInv, TaskInv, TaskOK
<1>6. BookedOnce'
  <2>1. \A b \in Agent : Booked(b)' = Booked(b)
    BY <1>1, <1>2, BooksSame
  <2> QED BY <1>1, <1>2, <1>3, <1>4, <2>1, BooksStand
<1> QED BY <1>4, <1>5, <1>6 DEF IInv

(* Tasks are given up: those that were pending are over.                   *)
LEMMA GivenUp ==
  ASSUME IInv, task' \in [Log -> Stage], queue' = <<>>,
         \A l \in Log : \/ task'[l] = task[l]
                        \/ task[l] # "none" /\ task'[l] = "over",
         UNCHANGED <<row, baseline, total, agentOf, attempt, durable, switches, cleared, strays>>
  PROVE  IInv'
<1>1. TypeInv /\ QueueInv /\ TaskInv /\ BookedOnce
  BY DEF IInv
<1>2. TypeInv'
  BY <1>1 DEF TypeInv
<1>3. QueueInv'
  <2>1. Active(task') \in SUBSET Active(task)
    BY DEF Active
  <2>2. Cardinality(Active(task')) <= Cardinality(Active(task))
    BY <2>1, ActiveType, FS_Subset
  <2>3. Cardinality(Active(task')) <= Concurrency
    BY <1>1, <2>2, ActiveType, LimitAssumption DEF QueueInv, QueueOK
  <2> QED BY <2>3 DEF QueueInv, QueueOK
<1>4. TaskInv'
  <2> SUFFICES ASSUME NEW l \in Log PROVE TaskOK(l)'
    BY DEF TaskInv
  <2> QED BY <1>1 DEF TaskInv, TaskOK
<1>5. BookedOnce'
  <2>1. \A b \in Agent : Booked(b)' = Booked(b)
    BY <1>1, BooksSame
  <2>2. \A b \in Agent : total[b] <= total'[b]
    BY <1>1, BookedType
  <2> QED BY <1>1, <1>2, <2>1, <2>2, BooksStand
<1> QED BY <1>2, <1>3, <1>4, <1>5 DEF IInv

LEMMA ExpireDrainKeeps ==
  ASSUME IInv, ExpireDrain
  PROVE  IInv'
<1>1. task \in [Log -> Stage]
  BY DEF IInv, TypeInv
<1>2. \A l \in Log : task'[l] = IF task[l] \in {"delayed", "queued"} THEN "over" ELSE task[l]
  BY DEF ExpireDrain
<1>3. task' \in [Log -> Stage]
  BY <1>1 DEF ExpireDrain, Stage
<1>4. /\ queue' = <<>>
      /\ UNCHANGED <<row, baseline, total, agentOf, attempt, durable, switches, cleared, strays>>
  BY DEF ExpireDrain
<1>5. \A l \in Log : task'[l] = task[l] \/ (task[l] # "none" /\ task'[l] = "over")
  BY <1>2
<1> QED BY <1>3, <1>4, <1>5, GivenUp

LEMMA RestartKeeps ==
  ASSUME IInv, Restart
  PROVE  IInv'
<1>1. \A l \in Log : task'[l] = IF task[l] = "none" THEN "none" ELSE "over"
  BY DEF Restart
<1>2. task' \in [Log -> Stage]
  BY DEF Restart, Stage
<1>3. /\ queue' = <<>>
      /\ UNCHANGED <<row, baseline, total, agentOf, attempt, durable, switches, cleared, strays>>
  BY DEF Restart
<1>4. \A l \in Log : task'[l] = task[l] \/ (task[l] # "none" /\ task'[l] = "over")
  BY <1>1
<1> QED BY <1>2, <1>3, <1>4, GivenUp

(* What else happens leaves tasks and books alone.                         *)
LEMMA RestKeeps ==
  ASSUME IInv, SwitchMode \/ CloseApp \/ Drain \/ UNCHANGED vars
  PROVE  IInv' /\ task' = task
<1>1. TypeInv /\ QueueInv /\ TaskInv /\ BookedOnce
  BY DEF IInv
<1>2. /\ UNCHANGED <<row, baseline, total, agentOf, task, attempt, queue, cleared, strays>>
      /\ durable' \in BOOLEAN
  <2>1. durable \in BOOLEAN
    BY <1>1 DEF TypeInv
  <2> QED BY <2>1 DEF SwitchMode, CloseApp, Drain, vars
<1>3. TypeInv'
  BY <1>1, <1>2 DEF TypeInv
<1>4. QueueInv' /\ TaskInv'
  BY <1>1, <1>2 DEF QueueInv, TaskInv, TaskOK
<1>5. BookedOnce'
  <2>1. \A b \in Agent : Booked(b)' = Booked(b)
    BY <1>1, <1>2, BooksSame
  <2>2. \A b \in Agent : total[b] <= total'[b]
    BY <1>1, <1>2, BookedType
  <2> QED BY <1>1, <1>2, <1>3, <2>1, <2>2, BooksStand
<1> QED BY <1>2, <1>3, <1>4, <1>5 DEF IInv

LEMMA InitHolds == ASSUME Init PROVE IInv
<1>1. TypeInv
  <2>1. 0 \in 0..MaxAttempts /\ <<>> \in Seq(Log)
    BY LimitAssumption
  <2> QED BY <2>1, Costs DEF Init, TypeInv, Stage
<1>2. QueueInv
  <2>1. Active(task) = {}
    BY DEF Init, Active
  <2>2. Cardinality(Active(task)) = 0
    BY <2>1, FS_EmptySet
  <2> QED BY <2>2, LimitAssumption DEF Init, QueueInv, QueueOK
<1>3. TaskInv
  BY Names DEF Init, TaskInv, TaskOK
<1>4. ASSUME NEW a \in Agent PROVE Booked(a) = 0 /\ baseline[a] = 0 /\ total[a] = 0
  <2>1. Of(agentOf, a) = {}
    BY Names DEF Init, Of
  <2>2. Total(row, agentOf, a) = 0
    BY <2>1, SumEmpty DEF Total
  <2> QED BY <2>2, BookedIs DEF Init
<1>5. BookedOnce
  BY <1>4, Names DEF BookedOnce
<1> QED BY <1>1, <1>2, <1>3, <1>5 DEF IInv

LEMMA StepKeeps == ASSUME IInv, [Next]_vars PROVE IInv'
<1>1. ASSUME NEW l \in Log, NEW keyGone \in BOOLEAN, FinishLog(l, keyGone) PROVE IInv'
  BY <1>1, FinishLogKeeps
<1>2. ASSUME NEW l \in Log, Due(l) PROVE IInv'
  BY <1>2, DueKeeps
<1>3. ASSUME NEW l \in Log, NEW sum \in 0..MaxTotal, Answer(l, sum) PROVE IInv'
  BY <1>3, TrackedKeeps, UntrackedKeeps DEF Answer
<1>4. ASSUME NEW l \in Log, NoAnswer(l) PROVE IInv'
  BY <1>4, NoAnswerKeeps
<1>5. ASSUME NEW a \in Agent, Charge(a) PROVE IInv'
  BY <1>5, ChargeKeeps
<1>6. ASSUME NEW gone \in SUBSET Log, DeleteLogs(gone) PROVE IInv'
  BY <1>6, DeleteLogsKeeps
<1>7. CASE SwitchMode \/ CloseApp \/ Drain \/ UNCHANGED vars
  BY <1>7, RestKeeps
<1>8. CASE ExpireDrain
  BY <1>8, ExpireDrainKeeps
<1>9. CASE Restart
  BY <1>9, RestartKeeps
<1> QED BY <1>1, <1>2, <1>3, <1>4, <1>5, <1>6, <1>7, <1>8, <1>9 DEF Next

LEMMA Always == Spec => []IInv
BY InitHolds, StepKeeps, PTL DEF Spec

----------------------------------------------------------------------------
(* The variables keep their types, a queued task is in the queue once, and *)
(* no more tasks are under way than CONCURRENCY allows: pump and           *)
(* enqueueAfter never start a task twice.                                  *)
THEOREM QueueInOrder == Spec => [](TypeInv /\ QueueInv)
<1>1. IInv => TypeInv /\ QueueInv
  BY DEF IInv
<1> QED BY <1>1, Always, PTL

(* What an agent's requests were given is never more than the agent cost,  *)
(* and for a durable agent it is exactly its baseline, for any number of   *)
(* requests and sessions: execute, bookAgentUsageDeltaForRequest and       *)
(* updateRequestLogUsage between them book no growth twice and lose none.  *)
THEOREM BooksBalance == Spec => []BookedOnce
<1>1. IInv => BookedOnce
  BY DEF IInv
<1> QED BY <1>1, Always, PTL

----------------------------------------------------------------------------
(* A step that ends the task of l alone, because the row was given an      *)
(* amount or the attempts are used up.                                     *)
GivesUp(l) == \/ attempt[l] = MaxAttempts
              \/ durable /\ row'[l] > Amount(l)
              \/ ~durable /\ row'[l] \in {Absent} \cup Nat

LEMMA Leaves ==
  ASSUME IInv, NEW l \in Log,
         \A m \in Log : m # l =>
           task'[m] = task[m] \/ (task[m] = "queued" /\ task'[m] = "active"),
         task'[l] \in {"delayed", "queued", "active"} \/ GivesUp(l)
  PROVE  \A m \in Pending(task) \ Pending(task') : GivesUp(m)
BY DEF Pending

LEMMA AnswerGivesUp ==
  ASSUME IInv, NEW l \in Log, NEW sum \in 0..MaxTotal, Answer(l, sum), ~expired
  PROVE  \A m \in Pending(task) \ Pending(task') : GivesUp(m)
<1>1. TypeInv /\ QueueInv /\ TaskInv /\ task[l] = "active" /\ sum \in Nat
  BY LimitAssumption DEF IInv, Answer
<1>2. CASE Tracked(l, sum)
  <2>1. PICK again \in BOOLEAN : again = ~Grows(l, sum)
    OBVIOUS
  <2>2. Settle(l, again) /\ durable
    BY <1>2, <2>1 DEF Tracked
  <2>3. /\ task'[l] \in {"delayed", "over"}
        /\ again /\ task'[l] = "over" => attempt[l] = MaxAttempts
        /\ \A m \in Log : m # l =>
             task'[m] = task[m] \/ (task[m] = "queued" /\ task'[m] = "active")
    BY <1>1, <2>2, SettleKeeps
  <2>4. CASE Grows(l, sum)
    <3>1. BookGrowth(l, sum)
      BY <1>2, <2>4 DEF Tracked
    <3>2. row[l] \in {Absent, Unknown} /\ agentOf[l] \in Agent
      BY <1>1, ActiveTask
    <3>3. PICK c : c = sum - baseline[agentOf[l]]
      OBVIOUS
    <3>4. c \in Nat \ {0} /\ row' = [row EXCEPT ![l] = c]
      BY <1>1, <2>4, <3>1, <3>2, <3>3, BookGrowthRow
    <3>5. row'[l] = c
      BY <1>1, <3>4 DEF TypeInv
    <3>6. Amount(l) = 0
      BY <3>2 DEF Amount, Absent, Unknown
    <3>7. GivesUp(l)
      BY <2>2, <3>4, <3>5, <3>6 DEF GivesUp
    <3> QED BY <2>3, <3>7, Leaves
  <2>5. CASE ~Grows(l, sum)
    <3>1. task'[l] = "delayed" \/ GivesUp(l)
      BY <2>1, <2>3, <2>5 DEF GivesUp
    <3> QED BY <2>3, <3>1, Leaves
  <2> QED BY <2>4, <2>5
<1>3. CASE Untracked(l, sum)
  <2>1. ~durable /\ WriteCost(l, sum) /\ Settle(l, FALSE)
    BY <1>3 DEF Untracked
  <2>2. row'[l] \in {Absent} \cup Nat
    BY <1>1, <2>1, WriteCostRow
  <2>3. GivesUp(l)
    BY <2>1, <2>2 DEF GivesUp
  <2>4. \A m \in Log : m # l =>
          task'[m] = task[m] \/ (task[m] = "queued" /\ task'[m] = "active")
    BY <1>1, <2>1, SettleKeeps
  <2> QED BY <2>3, <2>4, Leaves
<1> QED BY <1>2, <1>3 DEF Answer

LEMMA NoAnswerGivesUp ==
  ASSUME IInv, NEW l \in Log, NoAnswer(l), ~expired
  PROVE  \A m \in Pending(task) \ Pending(task') : GivesUp(m)
<1>1. TypeInv /\ QueueInv /\ task[l] = "active" /\ Settle(l, TRUE)
  BY DEF IInv, NoAnswer
<1>2. /\ task'[l] = "delayed" \/ attempt[l] = MaxAttempts
      /\ \A m \in Log : m # l =>
           task'[m] = task[m] \/ (task[m] = "queued" /\ task'[m] = "active")
  BY <1>1, SettleKeeps
<1> QED BY <1>2, Leaves DEF GivesUp

LEMMA StepAsks ==
  ASSUME IInv, [Next]_vars, ~Restart, ~expired'
  PROVE  \A m \in Pending(task) \ Pending(task') : GivesUp(m)
<1>1. ASSUME NEW l \in Log, NEW keyGone \in BOOLEAN, FinishLog(l, keyGone)
      PROVE  Pending(task) \subseteq Pending(task')
  <2>1. task[l] = "none" /\ \A m \in Log : m # l => task'[m] = task[m]
    BY <1>1 DEF FinishLog, IInv, TypeInv
  <2> QED BY <2>1 DEF Pending
<1>2. ASSUME NEW l \in Log, Due(l) PROVE Pending(task) \subseteq Pending(task')
  <2>1. /\ task'[l] \in {"queued", "active"}
        /\ \A m \in Log : m # l =>
             task'[m] = task[m] \/ (task[m] = "queued" /\ task'[m] = "active")
    BY <1>2, DueKeeps
  <2> QED BY <2>1 DEF Pending
<1>3. ASSUME NEW l \in Log, NEW sum \in 0..MaxTotal, Answer(l, sum)
      PROVE  \A m \in Pending(task) \ Pending(task') : GivesUp(m)
  <2>1. expired' = expired
    BY <1>3 DEF Answer, Tracked, Untracked, Settle
  <2> QED BY <1>3, <2>1, AnswerGivesUp
<1>4. ASSUME NEW l \in Log, NoAnswer(l)
      PROVE  \A m \in Pending(task) \ Pending(task') : GivesUp(m)
  <2>1. expired' = expired
    BY <1>4 DEF NoAnswer, Settle
  <2> QED BY <1>4, <2>1, NoAnswerGivesUp
<1>5. ASSUME NEW a \in Agent, Charge(a) PROVE task' = task
  BY <1>5 DEF Charge
<1>6. ASSUME NEW gone \in SUBSET Log, DeleteLogs(gone) PROVE task' = task
  BY <1>6 DEF DeleteLogs
<1>7. ASSUME SwitchMode \/ CloseApp \/ Drain \/ UNCHANGED vars PROVE task' = task
  BY <1>7, RestKeeps
<1>8. ~ExpireDrain
  BY DEF ExpireDrain
<1>9. ASSUME task' = task PROVE \A m \in Pending(task) \ Pending(task') : GivesUp(m)
  BY <1>9
<1>10. ASSUME Pending(task) \subseteq Pending(task')
       PROVE  \A m \in Pending(task) \ Pending(task') : GivesUp(m)
  BY <1>10
<1> QED BY <1>1, <1>2, <1>3, <1>4, <1>5, <1>6, <1>7, <1>8, <1>9, <1>10 DEF Next

(* A task of the reconciler that leaves its timer, its queue and its call  *)
(* has given the row an amount or has asked maxAttempts times, unless the  *)
(* process or an expired drain took it away: execute never takes a stale   *)
(* total for the end.                                                      *)
THEOREM AsksUntilBooked == Spec => AskedUntilBooked
<1>1. IInv /\ [Next]_vars =>
        [Restart \/ expired'
         \/ \A l \in Pending(task) \ Pending(task') :
              \/ attempt[l] = MaxAttempts
              \/ durable /\ row'[l] > Amount(l)
              \/ ~durable /\ row'[l] \in {Absent} \cup Nat]_vars
  BY StepAsks DEF GivesUp
<1> QED BY <1>1, Always, PTL DEF Spec, AskedUntilBooked
=============================================================================
