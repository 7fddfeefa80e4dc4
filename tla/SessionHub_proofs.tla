-------------------------- MODULE SessionHub_proofs --------------------------
(***************************************************************************)
(* Proofs about SessionHub: no execute is forgotten, the hold timers       *)
(* belong to slots that wait and cover every hold, the map's order is the  *)
(* order of use, and what expiry, eviction and the limit may never do.     *)
(***************************************************************************)
EXTENDS SessionHub, FiniteSetTheorems, FunctionTheorems, SequenceTheorems, TLAPS

----------------------------------------------------------------------------
(* Numbers.                                                                *)

LEMMA LeastOf == ASSUME NEW T \in SUBSET Nat, T # {}
                 PROVE  \E m \in T : \A n \in T : m <= n
<1> DEFINE R == {ss \in Nat \X Nat : ss[1] < ss[2]}
<1>1. IsWellFoundedOn(R, Nat)
  BY NatLessThanWellFounded DEF OpToRel
<1> HIDE DEF R
<1>2. PICK x \in T : \A y \in T : <<y, x>> \notin R
  BY <1>1, WFMin
<1>3. ASSUME NEW y \in T PROVE x <= y
  <2>1. <<y, x>> \in Nat \X Nat /\ <<y, x>> \notin R
    BY <1>2
  <2>2. ~(y < x)
    BY <2>1 DEF R
  <2> QED BY <2>2
<1> QED BY <1>3

HasMax(T) == \E m \in T : \A n \in T : n <= m

LEMMA FiniteHasMax ==
  ASSUME NEW S \in SUBSET Nat, IsFiniteSet(S), S # {}
  PROVE  HasMax(S)
<1> DEFINE Bad == {n \in Nat : \E T \in SUBSET S : T # {} /\ Cardinality(T) = n /\ ~HasMax(T)}
<1>1. CASE Bad = {}
  <2>1. Cardinality(S) \in Nat
    BY FS_CardinalityType
  <2> QED BY <1>1, <2>1
<1>2. CASE Bad # {}
  <2>1. PICK n \in Bad : \A k \in Bad : n <= k
    BY <1>2, LeastOf
  <2>2. PICK T \in SUBSET S : T # {} /\ Cardinality(T) = n /\ ~HasMax(T)
    BY <2>1
  <2>3. PICK x \in T : TRUE
    BY <2>2
  <2> DEFINE U == T \ {x}
  <2>4. IsFiniteSet(T) /\ n \in Nat /\ x \in Nat
    BY <2>1, FS_Subset
  <2>5. U \in SUBSET S /\ Cardinality(U) = n - 1 /\ Cardinality(U) \in Nat
    BY <2>2, <2>3, <2>4, FS_RemoveElement, FS_CardinalityType
  <2>6. Cardinality(U) \notin Bad
    BY <2>1, <2>4, <2>5
  <2>7. CASE U = {}
    <3>1. \A y \in T : y <= x
      BY <2>4, <2>7
    <3> QED BY <2>2, <3>1 DEF HasMax
  <2>8. CASE U # {}
    <3>1. HasMax(U)
      BY <2>5, <2>6, <2>8
    <3>2. PICK m \in U : \A y \in U : y <= m
      BY <3>1 DEF HasMax
    <3>3. m \in Nat /\ T = U \cup {x} /\ \A y \in T : y \in Nat
      BY <2>3
    <3>4. CASE x <= m
      BY <2>2, <3>2, <3>3, <3>4 DEF HasMax
    <3>5. CASE ~(x <= m)
      <4>1. \A y \in T : y <= x
        <5> SUFFICES ASSUME NEW y \in T, y # x PROVE y <= x
          BY <2>4
        <5>1. y <= m /\ y \in Nat
          BY <3>2, <3>3
        <5> QED BY <2>4, <3>3, <3>5, <5>1
      <4> QED BY <2>2, <4>1 DEF HasMax
    <3> QED BY <3>4, <3>5
  <2> QED BY <2>7, <2>8
<1> QED BY <1>1, <1>2

LEMMA MaxOf ==
  ASSUME NEW S \in SUBSET Nat, IsFiniteSet(S), S # {}
  PROVE  Max(S) \in S /\ \A n \in S : n <= Max(S)
<1>1. \E m \in S : \A n \in S : m >= n
  BY FiniteHasMax DEF HasMax
<1>2. Max(S) \in S /\ \A n \in S : Max(S) >= n
  BY <1>1 DEF Max
<1> QED BY <1>2

LEMMA FiniteImage ==
  ASSUME NEW S, IsFiniteSet(S), NEW f
  PROVE  IsFiniteSet({f[x] : x \in S})
<1> DEFINE T == {f[x] : x \in S}
           g == [x \in S |-> f[x]]
<1>1. g \in [S -> T] /\ \A y \in T : \E x \in S : g[x] = y
  OBVIOUS
<1>2. g \in Surjection(S, T)
  <2> HIDE DEF g, T
  <2> QED BY <1>1, Fun_IsSurj
<1> HIDE DEF g, T
<1>3. IsFiniteSet(T)
  BY <1>2, FS_Surjection
<1> QED BY <1>3 DEF T

LEMMA MinOfTwo ==
  ASSUME NEW a \in Int, NEW b \in Int
  PROVE  Min({a, b}) = IF a <= b THEN a ELSE b
<1>1. CASE a <= b
  BY <1>1 DEF Min
<1>2. CASE ~(a <= b)
  BY <1>2 DEF Min
<1> QED BY <1>1, <1>2

LEMMA MaxOfTwo ==
  ASSUME NEW a \in Int, NEW b \in Int
  PROVE  Max({a, b}) = IF a >= b THEN a ELSE b
<1>1. CASE a >= b
  BY <1>1 DEF Max
<1>2. CASE ~(a >= b)
  BY <1>2 DEF Max
<1> QED BY <1>1, <1>2

----------------------------------------------------------------------------
(* Only, step by step.                                                     *)

Kept(u, D, n, g) == [i \in 0..n |-> IF i = 0 THEN <<>>
                                    ELSE IF u[i] \in D THEN Append(g[i - 1], u[i]) ELSE g[i - 1]]

LEMMA KeptExists ==
  ASSUME NEW u, NEW D, NEW L \in Nat
  PROVE  \E g : g = Kept(u, D, L, g)
<1> DEFINE Bad == {n \in Nat : \A g : g # Kept(u, D, n, g)}
<1>1. CASE Bad = {}
  BY <1>1
<1>2. CASE Bad # {}
  <2>1. PICK n \in Bad : \A k \in Bad : n <= k
    BY <1>2, LeastOf
  <2>2. n \in Nat /\ \A g : g # Kept(u, D, n, g)
    BY <2>1
  <2>3. CASE n = 0
    <3> DEFINE g == [i \in 0..0 |-> <<>>]
    <3>1. g = Kept(u, D, 0, g)
      BY DEF Kept
    <3> QED BY <2>2, <2>3, <3>1
  <2>4. CASE n # 0
    <3>1. n - 1 \in Nat /\ n - 1 \notin Bad
      BY <2>1, <2>2, <2>4
    <3>2. PICK g : g = Kept(u, D, n - 1, g)
      BY <3>1
    <3> DEFINE h == [i \in 0..n |->
                       IF i # n THEN g[i]
                       ELSE IF u[n] \in D THEN Append(g[n - 1], u[n]) ELSE g[n - 1]]
    <3>3. \A i \in 0..n : h[i] = Kept(u, D, n, h)[i]
      <4> SUFFICES ASSUME NEW i \in 0..n PROVE h[i] = Kept(u, D, n, h)[i]
        OBVIOUS
      <4>0. i = 0 \/ (i - 1 \in 0..n /\ i - 1 # n)
        BY <2>2
      <4>1. CASE i = n
        BY <2>2, <2>4, <4>0, <4>1 DEF Kept
      <4>2. CASE i # n
        <5>1. i \in 0..(n - 1)
          BY <2>2, <4>2
        <5>2. g[i] = IF i = 0 THEN <<>>
                     ELSE IF u[i] \in D THEN Append(g[i - 1], u[i]) ELSE g[i - 1]
          BY <3>2, <5>1 DEF Kept
        <5> QED BY <2>2, <4>0, <4>2, <5>2 DEF Kept
      <4> QED BY <4>1, <4>2
    <3>4. h = Kept(u, D, n, h)
      BY <3>3 DEF Kept
    <3> QED BY <2>2, <3>4
  <2> QED BY <2>3, <2>4
<1> QED BY <1>1, <1>2

LEMMA OnlyIsKept ==
  ASSUME NEW u, NEW D, Len(u) \in Nat
  PROVE  \E g : g = Kept(u, D, Len(u), g) /\ Only(u, D) = g[Len(u)]
<1> DEFINE F == CHOOSE g : g = Kept(u, D, Len(u), g)
<1>1. F = Kept(u, D, Len(u), F)
  BY KeptExists
<1>2. Only(u, D) = F[Len(u)]
  BY DEF Only, Kept
<1> QED BY <1>1, <1>2

----------------------------------------------------------------------------
(* Sequences by their members and by the pairs an earlier and a later      *)
(* member make.                                                            *)

Members(u) == {u[i] : i \in 1..Len(u)}
Sorted(u, R) == \A i, j \in 1..Len(u) : i < j => <<u[i], u[j]>> \in R

LEMMA MembersAppend ==
  ASSUME NEW S, NEW w \in Seq(S), NEW x \in S, NEW R
  PROVE  /\ Append(w, x) \in Seq(S) /\ Members(Append(w, x)) = Members(w) \cup {x}
         /\ Sorted(w, R) /\ (\A y \in Members(w) : <<y, x>> \in R) => Sorted(Append(w, x), R)
<1> DEFINE v == Append(w, x)
<1>1. /\ v \in Seq(S) /\ Len(v) = Len(w) + 1 /\ Len(w) \in Nat
      /\ \A i \in 1..Len(w) : v[i] = w[i]
      /\ v[Len(w) + 1] = x
  BY AppendProperties, LenProperties
<1> HIDE DEF v
<1>2. 1..Len(v) = 1..Len(w) \cup {Len(w) + 1}
  BY <1>1
<1>3. Members(v) = Members(w) \cup {x}
  BY <1>1, <1>2 DEF Members
<1>4. ASSUME Sorted(w, R), \A y \in Members(w) : <<y, x>> \in R PROVE Sorted(v, R)
  <2> SUFFICES ASSUME NEW i \in 1..Len(v), NEW j \in 1..Len(v), i < j PROVE <<v[i], v[j]>> \in R
    BY DEF Sorted
  <2>1. i \in 1..Len(w) /\ v[i] = w[i] /\ w[i] \in Members(w)
    BY <1>1, <1>2 DEF Members
  <2>2. CASE j \in 1..Len(w)
    BY <1>1, <1>4, <2>1, <2>2 DEF Sorted
  <2>3. CASE j = Len(w) + 1
    BY <1>1, <1>4, <2>1, <2>3
  <2> QED BY <1>2, <2>2, <2>3
<1> QED BY <1>1, <1>3, <1>4 DEF v

LEMMA MembersConcat ==
  ASSUME NEW S, NEW u \in Seq(S), NEW w \in Seq(S)
  PROVE  /\ u \o w \in Seq(S) /\ Members(u \o w) = Members(u) \cup Members(w)
         /\ Len(u \o w) = Len(u) + Len(w) /\ Len(u) \in Nat /\ Len(w) \in Nat
         /\ \A i \in 1..Len(u) : (u \o w)[i] = u[i]
         /\ \A i \in 1..Len(w) : (u \o w)[Len(u) + i] = w[i]
<1> DEFINE v == u \o w
<1>1. /\ v \in Seq(S) /\ Len(v) = Len(u) + Len(w) /\ Len(u) \in Nat /\ Len(w) \in Nat
      /\ \A i \in 1..Len(u) : v[i] = u[i]
      /\ \A i \in 1..Len(w) : v[Len(u) + i] = w[i]
  BY ConcatProperties, LenProperties
<1> HIDE DEF v
<1>2. Members(v) \subseteq Members(u) \cup Members(w)
  <2> SUFFICES ASSUME NEW i \in 1..Len(v) PROVE v[i] \in Members(u) \cup Members(w)
    BY DEF Members
  <2>1. CASE i \in 1..Len(u)
    BY <1>1, <2>1 DEF Members
  <2>2. CASE i \notin 1..Len(u)
    <3> DEFINE j == i - Len(u)
    <3>1. j \in 1..Len(w) /\ i = Len(u) + j
      BY <1>1, <2>2
    <3>2. v[i] = w[j]
      <4> HIDE DEF j
      <4> QED BY <1>1, <3>1
    <3> QED BY <3>1, <3>2 DEF Members
  <2> QED BY <2>1, <2>2
<1>3. Members(u) \cup Members(w) \subseteq Members(v)
  <2>1. ASSUME NEW i \in 1..Len(u) PROVE u[i] \in Members(v)
    <3>1. i \in 1..Len(v) /\ v[i] = u[i]
      BY <1>1
    <3> QED BY <3>1 DEF Members
  <2>2. ASSUME NEW i \in 1..Len(w) PROVE w[i] \in Members(v)
    <3>1. Len(u) + i \in 1..Len(v) /\ v[Len(u) + i] = w[i]
      BY <1>1
    <3> QED BY <3>1 DEF Members
  <2> QED BY <2>1, <2>2 DEF Members
<1> QED BY <1>1, <1>2, <1>3 DEF v

(* Only keeps what it is told to keep, and the order. *)
LEMMA OnlyFilters ==
  ASSUME NEW S, NEW u \in Seq(S), NEW D, NEW R
  PROVE  /\ Only(u, D) \in Seq(S) /\ Members(Only(u, D)) = Members(u) \cap D
         /\ Sorted(u, R) => Sorted(Only(u, D), R)
<1>1. Len(u) \in Nat /\ \A i \in 1..Len(u) : u[i] \in S
  BY LenProperties
<1>2. PICK g : g = Kept(u, D, Len(u), g) /\ Only(u, D) = g[Len(u)]
  BY <1>1, OnlyIsKept
<1> DEFINE First(n) == {u[i] : i \in 1..n}
           Good(n) == /\ g[n] \in Seq(S) /\ Members(g[n]) = First(n) \cap D
                      /\ Sorted(u, R) => Sorted(g[n], R)
           Bad == {n \in Nat : n <= Len(u) /\ ~Good(n)}
<1>3. Good(0)
  <2>1. g[0] = <<>>
    BY <1>1, <1>2 DEF Kept
  <2>2. <<>> \in Seq(S) /\ Len(<<>>) = 0
    BY EmptySeq
  <2> QED BY <2>1, <2>2 DEF Members, Sorted
<1>4. ASSUME NEW n \in Nat, n + 1 <= Len(u), Good(n) PROVE Good(n + 1)
  <2> DEFINE x == u[n + 1]
  <2>1. g[n + 1] = IF x \in D THEN Append(g[n], x) ELSE g[n]
    <3>1. n + 1 \in 0..Len(u) /\ n + 1 # 0 /\ (n + 1) - 1 = n
      BY <1>1, <1>4
    <3> QED BY <1>2, <3>1 DEF Kept
  <2>2. x \in S /\ First(n + 1) = First(n) \cup {x}
    BY <1>1, <1>4
  <2>3. Sorted(u, R) => \A y \in First(n) : <<y, x>> \in R
    <3> SUFFICES ASSUME Sorted(u, R), NEW i \in 1..n PROVE <<u[i], x>> \in R
      OBVIOUS
    <3>1. i \in 1..Len(u) /\ n + 1 \in 1..Len(u) /\ i < n + 1
      BY <1>1, <1>4
    <3> QED BY <3>1 DEF Sorted
  <2> DEFINE w == g[n]
             F == First(n)
             G == First(n + 1)
  <2>4. w \in Seq(S) /\ Members(w) = F \cap D /\ (Sorted(u, R) => Sorted(w, R))
    BY <1>4
  <2> HIDE DEF x, w, F, G
  <2>5. CASE x \in D
    <3>1. g[n + 1] = Append(w, x)
      BY <2>1, <2>5 DEF w
    <3>2. G \cap D = (F \cap D) \cup {x}
      BY <2>2, <2>5 DEF F, G
    <3>3. /\ Append(w, x) \in Seq(S) /\ Members(Append(w, x)) = G \cap D
          /\ Sorted(u, R) => Sorted(Append(w, x), R)
      <4>1. Sorted(u, R) => \A y \in Members(w) : <<y, x>> \in R
        BY <2>3, <2>4 DEF F
      <4> QED BY <2>2, <2>4, <3>2, <4>1, MembersAppend
    <3> QED BY <3>1, <3>3 DEF G
  <2>6. CASE x \notin D
    <3>1. g[n + 1] = w /\ G \cap D = F \cap D
      BY <2>1, <2>2, <2>6 DEF w, F, G
    <3> QED BY <2>4, <3>1 DEF G
  <2> QED BY <2>5, <2>6
<1>5. Bad = {}
  <2> SUFFICES ASSUME Bad # {} PROVE FALSE
    OBVIOUS
  <2>1. Bad \in SUBSET Nat
    OBVIOUS
  <2>2. PICK n \in Bad : \A k \in Bad : n <= k
    <3> HIDE DEF Bad
    <3> QED BY <2>1, LeastOf
  <2>3. n \in Nat /\ n <= Len(u) /\ ~Good(n)
    BY <2>2
  <2> HIDE DEF Good
  <2>4. n # 0
    BY <1>3, <2>3
  <2>5. n - 1 \in Nat /\ n - 1 <= Len(u) /\ ~(n <= n - 1) /\ (n - 1) + 1 = n
    BY <1>1, <2>3, <2>4
  <2>6. n - 1 \notin Bad
    BY <2>2, <2>5
  <2>7. Good(n - 1)
    BY <2>5, <2>6
  <2>8. Good((n - 1) + 1)
    BY <1>4, <2>3, <2>5, <2>7
  <2> QED BY <2>3, <2>5, <2>8
<1>6. Good(Len(u))
  <2> HIDE DEF Good
  <2>1. Len(u) \notin Bad /\ Len(u) <= Len(u)
    BY <1>1, <1>5
  <2> QED BY <1>1, <2>1
<1> QED BY <1>2, <1>6 DEF Members

(* A sequence without repetition is as long as its set of members is big. *)
LEMMA LengthIsCount ==
  ASSUME NEW S, NEW u \in Seq(S), \A i, j \in 1..Len(u) : i < j => u[i] # u[j]
  PROVE  IsFiniteSet(Members(u)) /\ Cardinality(Members(u)) = Len(u) /\ Len(u) \in Nat
<1>1. Len(u) \in Nat
  BY LenProperties
<1> DEFINE f == [i \in 1..Len(u) |-> u[i]]
<1>2. f \in [1..Len(u) -> Members(u)] /\ \A y \in Members(u) : \E i \in 1..Len(u) : f[i] = y
  BY DEF Members
<1>3. \A i, j \in 1..Len(u) : f[i] = f[j] => i = j
  BY <1>1
<1>4. f \in Bijection(1..Len(u), Members(u))
  <2> HIDE DEF f
  <2> QED BY <1>2, <1>3, Fun_IsBij
<1>5. IsFiniteSet(1..Len(u)) /\ Cardinality(1..Len(u)) = Len(u)
  <2> DEFINE n == Len(u)
  <2>1. n \in Nat /\ n \in Int /\ 1 \in Int
    BY <1>1
  <2>2. /\ 1 > n => n = 0
        /\ ~(1 > n) => (n - 1) + 1 = n
    BY <2>1
  <2> HIDE DEF n
  <2>3. IsFiniteSet(1..n) /\ Cardinality(1..n) = IF 1 > n THEN 0 ELSE n - 1 + 1
    BY <2>1, FS_Interval
  <2>4. Cardinality(1..n) = n
    BY <2>2, <2>3
  <2> QED BY <2>3, <2>4 DEF n
<1>6. ExistsBijection(1..Len(u), Members(u))
  BY <1>4 DEF ExistsBijection
<1> QED BY <1>1, <1>5, <1>6, FS_Bijection

----------------------------------------------------------------------------
(* The inductive invariant.                                                *)

TypeInv == /\ limits \in Limits
           /\ order \in Seq(Session)
           /\ state \in [Session -> {"none", "running", "awaiting_tools", "idle"}]
           /\ hold \in [Session -> [Call -> Nat \cup {NoTime}]]
           /\ deadline \in [Session -> Nat \cup {NoTime}]
           /\ timer \in [Session -> Nat \cup {NoTime}]
           /\ age \in [Session -> Nat]
           /\ fate \in [Session -> [Call -> {"none", "waiting", "settled"}]]
           /\ inside \in [Session -> BOOLEAN]

(* Of one slot: its holds are finitely many, those that wait, and gone with *)
(* the slot; its timer is its deadline, which covers them while it waits.  *)
SlotOK(s) == /\ IsFiniteSet(Pending(s))
             /\ state[s] = "none" => Pending(s) = {}
             /\ \A c \in Call : fate[s][c] = "waiting" <=> hold[s][c] # NoTime
             /\ timer[s] = deadline[s]
             /\ timer[s] # NoTime <=> state[s] = "awaiting_tools"
             /\ state[s] = "awaiting_tools" =>
                  \A c \in Call : hold[s][c] # NoTime => hold[s][c] <= deadline[s]

SlotsInv == \A s \in Session : SlotOK(s)

OlderBy(a) == {p \in Session \X Session : p[1] # p[2] /\ a[p[1]] >= a[p[2]]}

OrderInv == Sorted(order, OlderBy(age)) /\ Members(order) = Live

IInv == TypeInv /\ SlotsInv /\ OrderInv

----------------------------------------------------------------------------
(* What the pieces do.                                                     *)

LEMMA LimitTypes ==
  ASSUME TypeInv
  PROVE  /\ limits.hold \in Nat /\ limits.delegate \in Nat /\ limits.idle \in Nat
         /\ limits.live \in Nat /\ limits.live > 0
         /\ \A c \in Call : HoldTtl(c) \in Nat
BY LimitsAssumption DEF TypeInv, HoldTtl

LEMMA AgeCap == Max(Age) \in Nat /\ Age = 0..Max(Age) /\ 0 \in Age
<1> DEFINE I == {l.idle : l \in Limits}
<1>1. I \in SUBSET Nat /\ I # {}
  BY LimitsAssumption
<1>2. IsFiniteSet(I)
  <2> DEFINE f == [l \in Limits |-> l.idle]
  <2>1. I = {f[l] : l \in Limits}
    OBVIOUS
  <2> HIDE DEF f, I
  <2> QED BY <2>1, LimitsAssumption, FiniteImage
<1>3. Max(I) \in Nat
  <2> HIDE DEF I
  <2> QED BY <1>1, <1>2, MaxOf
<1>4. Age = 0..Max(I)
  BY DEF Age
<1> HIDE DEF I
<1>5. Age \in SUBSET Nat /\ 0 \in Age /\ Max(I) \in Age /\ IsFiniteSet(Age)
  BY <1>3, <1>4, FS_Interval
<1>6. Max(Age) \in Age /\ \A n \in Age : n <= Max(Age)
  BY <1>5, MaxOf
<1> QED BY <1>3, <1>4, <1>5, <1>6

LEMMA LatestCovers ==
  ASSUME TypeInv, NEW h \in [Call -> Nat \cup {NoTime}], IsFiniteSet({c \in Call : h[c] # NoTime})
  PROVE  /\ Latest(h) \in Nat /\ Latest(h) # NoTime
         /\ \A c \in Call : h[c] # NoTime => h[c] <= Latest(h)
<1> DEFINE O == {c \in Call : h[c] # NoTime}
           T == {h[c] : c \in O}
<1>1. limits.hold \in Nat /\ NoTime \notin Nat
  BY LimitTypes, NoTimeAssumption
<1>2. CASE O = {}
  BY <1>1, <1>2 DEF Latest
<1>3. CASE O # {}
  <2>1. T \in SUBSET Nat /\ T # {}
    BY <1>3
  <2>2. IsFiniteSet(T)
    <3>1. IsFiniteSet(O)
      OBVIOUS
    <3> HIDE DEF O
    <3> QED BY <3>1, FiniteImage
  <2>3. Latest(h) = Max(T)
    BY <1>3 DEF Latest
  <2>4. \A c \in Call : h[c] # NoTime => h[c] \in T
    OBVIOUS
  <2> HIDE DEF T
  <2> QED BY <1>1, <2>1, <2>2, <2>3, <2>4, MaxOf
<1> QED BY <1>2, <1>3

LEMMA SlotSame ==
  ASSUME NEW s \in Session, SlotOK(s), state'[s] = state[s], hold'[s] = hold[s],
         deadline'[s] = deadline[s], timer'[s] = timer[s], fate'[s] = fate[s]
  PROVE  SlotOK(s)'
BY DEF SlotOK, Pending

LEMMA SlotEmptied ==
  ASSUME NEW s \in Session, state'[s] # "awaiting_tools", deadline'[s] = NoTime, timer'[s] = NoTime,
         \A c \in Call : hold'[s][c] = NoTime /\ fate'[s][c] # "waiting"
  PROVE  SlotOK(s)'
<1>1. Pending(s)' = {}
  BY DEF Pending
<1> QED BY <1>1, FS_EmptySet DEF SlotOK

(* A slot that waits from now on, with a new deadline. *)
LEMMA SlotWaits ==
  ASSUME TypeInv, NEW s \in Session, NEW h \in [Call -> Nat \cup {NoTime}],
         IsFiniteSet({c \in Call : h[c] # NoTime}), hold'[s] = h, state'[s] = "awaiting_tools",
         \A c \in Call : fate'[s][c] = "waiting" <=> h[c] # NoTime,
         RefreshHoldDeadline(s, h)
  PROVE  SlotOK(s)'
<1>1. deadline'[s] = Latest(h) /\ timer'[s] = Latest(h)
  BY DEF RefreshHoldDeadline, TypeInv
<1>2. Pending(s)' = {c \in Call : h[c] # NoTime}
  BY DEF Pending
<1> QED BY <1>1, <1>2, LatestCovers DEF SlotOK

LEMMA OrderKept ==
  ASSUME TypeInv, OrderInv, NEW D, NEW a, \A s \in Live \ D : a[s] = age[s]
  PROVE  LET q == Only(order, Session \ D)
         IN q \in Seq(Session) /\ Members(q) = Live \ D /\ Sorted(q, OlderBy(a))
<1> DEFINE q == Only(order, Session \ D)
<1>1. order \in Seq(Session) /\ Live \subseteq Session
  BY DEF TypeInv, Live
<1>2. q \in Seq(Session) /\ Members(q) = Members(order) \cap (Session \ D) /\ Sorted(q, OlderBy(age))
  BY <1>1, OnlyFilters DEF OrderInv
<1> HIDE DEF q
<1>3. Members(q) = Live \ D
  BY <1>1, <1>2 DEF OrderInv
<1>4. Sorted(q, OlderBy(a))
  <2> SUFFICES ASSUME NEW i \in 1..Len(q), NEW j \in 1..Len(q), i < j
               PROVE  <<q[i], q[j]>> \in OlderBy(a)
    BY DEF Sorted
  <2>1. q[i] \in Members(q) /\ q[j] \in Members(q) /\ <<q[i], q[j]>> \in OlderBy(age)
    BY <1>2 DEF Sorted, Members
  <2>2. a[q[i]] = age[q[i]] /\ a[q[j]] = age[q[j]]
    BY <1>3, <2>1
  <2> QED BY <2>1, <2>2 DEF OlderBy
<1> QED BY <1>2, <1>3, <1>4 DEF q

LEMMA OrderAppended ==
  ASSUME NEW q \in Seq(Session), NEW a \in [Session -> Nat], Sorted(q, OlderBy(a)),
         NEW s \in Session, s \notin Members(q), a[s] = 0
  PROVE  /\ Append(q, s) \in Seq(Session) /\ Members(Append(q, s)) = Members(q) \cup {s}
         /\ Sorted(Append(q, s), OlderBy(a))
<1>1. \A y \in Members(q) : y \in Session /\ y # s
  BY LenProperties DEF Members
<1>2. \A y \in Members(q) : <<y, s>> \in OlderBy(a)
  BY <1>1 DEF OlderBy
<1> QED BY <1>2, MembersAppend

(* touch *)
LEMMA OrderTouched ==
  ASSUME IInv, NEW s \in Live, Touch(s), Live' = Live
  PROVE  OrderInv' /\ order' \in Seq(Session) /\ age' \in [Session -> Nat]
<1> DEFINE q == Only(order, Session \ {s})
<1>1. s \in Session /\ age' \in [Session -> Nat] /\ age'[s] = 0 /\ \A t \in Live \ {s} : age'[t] = age[t]
  BY DEF Touch, IInv, TypeInv, Live
<1>2. q \in Seq(Session) /\ Members(q) = Live \ {s} /\ Sorted(q, OlderBy(age'))
  BY <1>1, OrderKept DEF IInv
<1>3. order' = Append(q, s)
  BY DEF Touch
<1> HIDE DEF q
<1>4. /\ order' \in Seq(Session) /\ Members(order') = (Live \ {s}) \cup {s}
      /\ Sorted(order', OlderBy(age'))
  BY <1>1, <1>2, <1>3, OrderAppended
<1>5. OrderInv' <=> Sorted(order', OlderBy(age')) /\ Members(order') = Live'
  BY DEF OrderInv, OlderBy, Sorted, Members
<1> QED BY <1>1, <1>4, <1>5
LEMMA OrderSame ==
  ASSUME OrderInv, order' = order, age' = age, Live' = Live
  PROVE  OrderInv'
BY DEF OrderInv, OlderBy, Sorted, Members

----------------------------------------------------------------------------
(* The steps.                                                              *)

LEMMA DropKeeps ==
  ASSUME IInv, NEW D \in SUBSET Session, Drop(D), limits' = limits, inside' \in [Session -> BOOLEAN]
  PROVE  IInv' /\ Live' = Live \ D
<1> DEFINE q == Only(order, Session \ D)
           none == [c \in Call |-> NoTime]
           settled == [c \in Call |-> "settled"]
<1>0. /\ none \in [Call -> Nat \cup {NoTime}] /\ \A c \in Call : none[c] = NoTime
      /\ settled \in [Call -> {"none", "waiting", "settled"}]
      /\ \A c \in Call : settled[c] # "waiting"
  OBVIOUS
<1>1. /\ order' = q /\ state' = Set(state, D, "none") /\ hold' = Set(hold, D, none)
      /\ deadline' = Set(deadline, D, NoTime) /\ timer' = Set(timer, D, NoTime)
      /\ age' = Set(age, D, 0) /\ fate' = Set(fate, D, settled)
  BY DEF Drop
<1> HIDE DEF q, none, settled
<1>2. /\ state' \in [Session -> {"none", "running", "awaiting_tools", "idle"}]
      /\ \A s \in Session : state'[s] = IF s \in D THEN "none" ELSE state[s]
  BY <1>1 DEF Set, IInv, TypeInv
<1>3. /\ hold' \in [Session -> [Call -> Nat \cup {NoTime}]]
      /\ \A s \in Session : hold'[s] = IF s \in D THEN none ELSE hold[s]
  BY <1>0, <1>1 DEF Set, IInv, TypeInv
<1>4. /\ deadline' \in [Session -> Nat \cup {NoTime}]
      /\ \A s \in Session : deadline'[s] = IF s \in D THEN NoTime ELSE deadline[s]
  BY <1>1 DEF Set, IInv, TypeInv
<1>5. /\ timer' \in [Session -> Nat \cup {NoTime}]
      /\ \A s \in Session : timer'[s] = IF s \in D THEN NoTime ELSE timer[s]
  BY <1>1 DEF Set, IInv, TypeInv
<1>6. /\ age' \in [Session -> Nat] /\ \A s \in Session : age'[s] = IF s \in D THEN 0 ELSE age[s]
  BY <1>1 DEF Set, IInv, TypeInv
<1>7. /\ fate' \in [Session -> [Call -> {"none", "waiting", "settled"}]]
      /\ \A s \in Session : fate'[s] = IF s \in D THEN settled ELSE fate[s]
  BY <1>0, <1>1 DEF Set, IInv, TypeInv
<1>8. Live' = Live \ D
  BY <1>2 DEF Live
<1>9. SlotsInv'
  <2> SUFFICES ASSUME NEW s \in Session PROVE SlotOK(s)'
    BY DEF SlotsInv
  <2>1. CASE s \in D
    BY <1>0, <1>2, <1>3, <1>4, <1>5, <1>7, <2>1, SlotEmptied
  <2>2. CASE s \notin D
    BY <1>2, <1>3, <1>4, <1>5, <1>7, <2>2, SlotSame DEF IInv, SlotsInv
  <2> QED BY <2>1, <2>2
<1>10. order' \in Seq(Session) /\ OrderInv'
  <2>1. \A s \in Live \ D : age'[s] = age[s]
    BY <1>6 DEF Live
  <2>2. order' \in Seq(Session) /\ Members(order') = Live \ D /\ Sorted(order', OlderBy(age'))
    BY <1>1, <2>1, OrderKept DEF IInv, q
  <2>3. OrderInv' <=> Sorted(order', OlderBy(age')) /\ Members(order') = Live'
    BY DEF OrderInv, OlderBy, Sorted, Members
  <2> QED BY <1>8, <2>2, <2>3
<1>11. TypeInv'
  BY <1>2, <1>3, <1>4, <1>5, <1>6, <1>7, <1>10 DEF IInv, TypeInv
<1> QED BY <1>8, <1>9, <1>10, <1>11 DEF IInv

(* A step at one live slot, which may be a use of it. *)
LEMMA SlotKeeps ==
  ASSUME IInv, NEW s \in Live, limits' = limits, inside' \in [Session -> BOOLEAN],
         state' \in [Session -> {"none", "running", "awaiting_tools", "idle"}],
         hold' \in [Session -> [Call -> Nat \cup {NoTime}]],
         deadline' \in [Session -> Nat \cup {NoTime}],
         timer' \in [Session -> Nat \cup {NoTime}],
         fate' \in [Session -> [Call -> {"none", "waiting", "settled"}]],
         \A t \in Session \ {s} : /\ state'[t] = state[t] /\ hold'[t] = hold[t]
                                  /\ deadline'[t] = deadline[t] /\ timer'[t] = timer[t]
                                  /\ fate'[t] = fate[t],
         state'[s] # "none", SlotOK(s)', Touch(s) \/ UNCHANGED <<order, age>>
  PROVE  IInv'
<1>1. Live' = Live /\ s \in Session
  BY DEF Live
<1>2. SlotsInv'
  <2> SUFFICES ASSUME NEW t \in Session PROVE SlotOK(t)'
    BY DEF SlotsInv
  <2>1. CASE t = s
    BY <2>1
  <2>2. CASE t # s
    BY <2>2, SlotSame DEF IInv, SlotsInv
  <2> QED BY <2>1, <2>2
<1>3. OrderInv' /\ order' \in Seq(Session) /\ age' \in [Session -> Nat]
  <2>1. CASE Touch(s)
    BY <1>1, <2>1, OrderTouched
  <2>2. CASE UNCHANGED <<order, age>>
    BY <1>1, <2>2, OrderSame DEF IInv, TypeInv
  <2> QED BY <2>1, <2>2
<1>4. TypeInv'
  BY <1>3 DEF IInv, TypeInv
<1> QED BY <1>2, <1>3, <1>4 DEF IInv

LEMMA EnterKeeps ==
  ASSUME IInv, NEW s \in Session, Enter(s)
  PROVE  IInv'
<1>1. /\ inside' \in [Session -> BOOLEAN] /\ UNCHANGED <<limits, state, hold, deadline, timer, fate>>
      /\ IF s \in Live THEN Touch(s) ELSE UNCHANGED <<order, age>>
  BY DEF Enter, IInv, TypeInv
<1>2. SlotsInv' /\ Live' = Live
  BY <1>1 DEF IInv, SlotsInv, SlotOK, Pending, Live
<1>3. OrderInv' /\ order' \in Seq(Session) /\ age' \in [Session -> Nat]
  BY <1>1, <1>2, OrderTouched, OrderSame DEF IInv, TypeInv
<1> QED BY <1>1, <1>2, <1>3 DEF IInv, TypeInv

LEMMA ClearTypes ==
  ASSUME TypeInv, NEW s \in Session, ClearHoldDeadline(s)
  PROVE  /\ deadline' \in [Session -> Nat \cup {NoTime}] /\ timer' \in [Session -> Nat \cup {NoTime}]
         /\ deadline'[s] = NoTime /\ timer'[s] = NoTime
         /\ \A t \in Session \ {s} : deadline'[t] = deadline[t] /\ timer'[t] = timer[t]
BY DEF ClearHoldDeadline, TypeInv

LEMMA RefreshTypes ==
  ASSUME TypeInv, NEW s \in Session, NEW h \in [Call -> Nat \cup {NoTime}],
         IsFiniteSet({c \in Call : h[c] # NoTime}), RefreshHoldDeadline(s, h)
  PROVE  /\ deadline' \in [Session -> Nat \cup {NoTime}] /\ timer' \in [Session -> Nat \cup {NoTime}]
         /\ \A t \in Session \ {s} : deadline'[t] = deadline[t] /\ timer'[t] = timer[t]
BY LatestCovers DEF RefreshHoldDeadline, TypeInv

LEMMA StateTypes ==
  ASSUME TypeInv, NEW s \in Session, NEW st \in {"none", "running", "awaiting_tools", "idle"},
         state' = [state EXCEPT ![s] = st]
  PROVE  /\ state' \in [Session -> {"none", "running", "awaiting_tools", "idle"}]
         /\ state'[s] = st /\ \A t \in Session \ {s} : state'[t] = state[t]
BY DEF TypeInv

(* The slot is set to wait for the holds it has. *)
LEMMA AwaitKeeps ==
  ASSUME IInv, NEW s \in Live, state' = [state EXCEPT ![s] = "awaiting_tools"],
         RefreshHoldDeadline(s, hold[s]), Touch(s), UNCHANGED <<limits, hold, fate>>,
         inside' \in [Session -> BOOLEAN]
  PROVE  IInv'
<1>1. /\ s \in Session /\ TypeInv /\ SlotOK(s) /\ hold[s] \in [Call -> Nat \cup {NoTime}]
      /\ hold'[s] = hold[s] /\ fate'[s] = fate[s]
  BY DEF IInv, TypeInv, SlotsInv, Live
<1>2. /\ IsFiniteSet({c \in Call : hold[s][c] # NoTime})
      /\ \A c \in Call : fate'[s][c] = "waiting" <=> hold[s][c] # NoTime
  BY <1>1 DEF SlotOK, Pending
<1>3. state'[s] = "awaiting_tools"
  BY <1>1, StateTypes
<1>4. SlotOK(s)'
  BY <1>1, <1>2, <1>3, SlotWaits
<1>5. /\ hold' \in [Session -> [Call -> Nat \cup {NoTime}]]
      /\ fate' \in [Session -> [Call -> {"none", "waiting", "settled"}]]
      /\ \A t \in Session \ {s} : hold'[t] = hold[t] /\ fate'[t] = fate[t]
  BY DEF IInv, TypeInv
<1>6. /\ state' \in [Session -> {"none", "running", "awaiting_tools", "idle"}] /\ state'[s] # "none"
      /\ \A t \in Session \ {s} : state'[t] = state[t]
  BY <1>1, <1>3, StateTypes
<1>7. /\ deadline' \in [Session -> Nat \cup {NoTime}] /\ timer' \in [Session -> Nat \cup {NoTime}]
      /\ \A t \in Session \ {s} : deadline'[t] = deadline[t] /\ timer'[t] = timer[t]
  BY <1>1, <1>2, RefreshTypes
<1> QED BY <1>4, <1>5, <1>6, <1>7, SlotKeeps

LEMMA LeaveKeeps ==
  ASSUME IInv, NEW s \in Session, Leave(s)
  PROVE  IInv'
<1>1. inside' \in [Session -> BOOLEAN] /\ limits' = limits
  BY DEF Leave, IInv, TypeInv
<1>2. CASE Drop({s})
  BY <1>1, <1>2, DropKeeps
<1>3. CASE /\ state[s] = "running" /\ state' = [state EXCEPT ![s] = "awaiting_tools"]
           /\ RefreshHoldDeadline(s, hold[s]) /\ Touch(s) /\ UNCHANGED <<hold, fate>>
  <2>1. s \in Live
    BY <1>3 DEF Live
  <2> QED BY <1>1, <1>3, <2>1, AwaitKeeps
<1>4. CASE UNCHANGED slotVars
  <2>1. SlotsInv' /\ Live' = Live
    BY <1>4 DEF IInv, SlotsInv, SlotOK, Pending, Live, slotVars
  <2>2. OrderInv'
    BY <1>4, <2>1, OrderSame DEF IInv, slotVars
  <2> QED BY <1>1, <1>4, <2>1, <2>2 DEF IInv, TypeInv, slotVars
<1> QED BY <1>2, <1>3, <1>4 DEF Leave

LEMMA MarkKeeps ==
  ASSUME IInv, NEW s \in Session, NEW st \in {"running", "idle"}, ToState(s, st), ClearHoldDeadline(s)
  PROVE  IInv'
<1>1. /\ s \in Live /\ state' = [state EXCEPT ![s] = st] /\ Touch(s)
      /\ UNCHANGED <<limits, hold, fate, inside>> /\ TypeInv /\ SlotOK(s)
  BY DEF ToState, IInv, SlotsInv
<1>2. state'[s] = st /\ st # "none" /\ st # "awaiting_tools"
  BY <1>1, StateTypes
<1>3. SlotOK(s)'
  BY <1>1, <1>2, ClearTypes DEF SlotOK, Pending
<1>4. /\ hold' \in [Session -> [Call -> Nat \cup {NoTime}]] /\ inside' \in [Session -> BOOLEAN]
      /\ fate' \in [Session -> [Call -> {"none", "waiting", "settled"}]]
      /\ \A t \in Session \ {s} : hold'[t] = hold[t] /\ fate'[t] = fate[t]
  BY <1>1 DEF TypeInv
<1>5. /\ state' \in [Session -> {"none", "running", "awaiting_tools", "idle"}] /\ state'[s] # "none"
      /\ \A t \in Session \ {s} : state'[t] = state[t]
  BY <1>1, <1>2, StateTypes
<1>6. /\ deadline' \in [Session -> Nat \cup {NoTime}] /\ timer' \in [Session -> Nat \cup {NoTime}]
      /\ \A t \in Session \ {s} : deadline'[t] = deadline[t] /\ timer'[t] = timer[t]
  BY <1>1, ClearTypes
<1> QED BY <1>1, <1>3, <1>4, <1>5, <1>6, SlotKeeps
LEMMA BeginKeeps ==
  ASSUME IInv, NEW s \in Session, BeginAwaitingTools(s)
  PROVE  IInv'
<1>1. /\ s \in Live /\ state' = [state EXCEPT ![s] = "awaiting_tools"] /\ Touch(s)
      /\ RefreshHoldDeadline(s, hold[s]) /\ UNCHANGED <<limits, hold, fate>>
      /\ inside' \in [Session -> BOOLEAN]
  BY DEF BeginAwaitingTools, ToState, IInv, TypeInv
<1> QED BY <1>1, AwaitKeeps

(* One hold more, or one less: what the holds of the slot are then. *)
Moved(s, c, v, f, h) == /\ h = [hold[s] EXCEPT ![c] = v] /\ hold' = [hold EXCEPT ![s] = h]
                        /\ fate' = [fate EXCEPT ![s][c] = f]
                        /\ v \in Nat \cup {NoTime} /\ f \in {"waiting", "settled"}
                        /\ f = "waiting" <=> v # NoTime

Holding(s, h) == /\ h \in [Call -> Nat \cup {NoTime}] /\ hold'[s] = h
                 /\ IsFiniteSet({d \in Call : h[d] # NoTime})
                 /\ \A d \in Call : fate'[s][d] = "waiting" <=> h[d] # NoTime
                 /\ hold' \in [Session -> [Call -> Nat \cup {NoTime}]]
                 /\ fate' \in [Session -> [Call -> {"none", "waiting", "settled"}]]
                 /\ \A t \in Session \ {s} : hold'[t] = hold[t] /\ fate'[t] = fate[t]

LEMMA OneHold ==
  ASSUME IInv, NEW s \in Session, NEW c \in Call, NEW v, NEW f, NEW h, Moved(s, c, v, f, h)
  PROVE  Holding(s, h)
<1>0. /\ h = [hold[s] EXCEPT ![c] = v] /\ hold' = [hold EXCEPT ![s] = h]
      /\ fate' = [fate EXCEPT ![s][c] = f]
      /\ v \in Nat \cup {NoTime} /\ f \in {"waiting", "settled"}
      /\ f = "waiting" <=> v # NoTime
  BY DEF Moved
<1>1. /\ hold \in [Session -> [Call -> Nat \cup {NoTime}]]
      /\ fate \in [Session -> [Call -> {"none", "waiting", "settled"}]]
      /\ IsFiniteSet(Pending(s))
      /\ \A d \in Call : fate[s][d] = "waiting" <=> hold[s][d] # NoTime
  BY DEF IInv, TypeInv, SlotsInv, SlotOK
<1>2. h \in [Call -> Nat \cup {NoTime}] /\ \A d \in Call : h[d] = IF d = c THEN v ELSE hold[s][d]
  BY <1>0, <1>1
<1>3. /\ hold'[s] = h /\ hold' \in [Session -> [Call -> Nat \cup {NoTime}]]
      /\ \A t \in Session \ {s} : hold'[t] = hold[t]
  BY <1>0, <1>1, <1>2
<1>4. /\ fate' \in [Session -> [Call -> {"none", "waiting", "settled"}]]
      /\ \A d \in Call : fate'[s][d] = IF d = c THEN f ELSE fate[s][d]
      /\ \A t \in Session \ {s} : fate'[t] = fate[t]
  BY <1>0, <1>1
<1>5. IsFiniteSet({d \in Call : h[d] # NoTime})
  <2>1. {d \in Call : h[d] # NoTime} \in SUBSET (Pending(s) \cup {c})
    BY <1>2 DEF Pending
  <2>2. IsFiniteSet(Pending(s) \cup {c})
    BY <1>1, FS_AddElement
  <2> QED BY <2>1, <2>2, FS_Subset
<1>6. \A d \in Call : fate'[s][d] = "waiting" <=> h[d] # NoTime
  BY <1>0, <1>1, <1>2, <1>4
<1> QED BY <1>2, <1>3, <1>4, <1>5, <1>6 DEF Holding

LEMMA SettleKeeps ==
  ASSUME IInv, NEW s \in Session, NEW c \in Call, SettlePending(s, c)
  PROVE  IInv'
<1> DEFINE h == [hold[s] EXCEPT ![c] = NoTime]
<1>1. /\ s \in Live /\ c \in Pending(s) /\ hold' = [hold EXCEPT ![s] = h]
      /\ fate' = [fate EXCEPT ![s][c] = "settled"] /\ Touch(s) /\ UNCHANGED <<limits, inside>>
      /\ \/ state[s] # "awaiting_tools" /\ UNCHANGED <<state, deadline, timer>>
         \/ /\ state[s] = "awaiting_tools" /\ Pending(s) = {c}
            /\ state' = [state EXCEPT ![s] = "running"]
            /\ ClearHoldDeadline(s)
         \/ /\ state[s] = "awaiting_tools" /\ Pending(s) # {c}
            /\ RefreshHoldDeadline(s, h)
            /\ UNCHANGED state
  BY DEF SettlePending
<1>2. \A d \in Call : h[d] # NoTime => hold[s][d] # NoTime
  BY DEF IInv, TypeInv
<1> HIDE DEF h
<1>3. /\ h \in [Call -> Nat \cup {NoTime}] /\ hold'[s] = h
      /\ IsFiniteSet({d \in Call : h[d] # NoTime})
      /\ \A d \in Call : fate'[s][d] = "waiting" <=> h[d] # NoTime
      /\ hold' \in [Session -> [Call -> Nat \cup {NoTime}]]
      /\ fate' \in [Session -> [Call -> {"none", "waiting", "settled"}]]
      /\ \A t \in Session \ {s} : hold'[t] = hold[t] /\ fate'[t] = fate[t]
  <2>1. Moved(s, c, NoTime, "settled", h)
    BY <1>1 DEF Moved, h
  <2>2. Holding(s, h)
    BY <2>1, OneHold
  <2> QED BY <2>2 DEF Holding
<1>4. /\ inside' \in [Session -> BOOLEAN] /\ TypeInv /\ SlotOK(s) /\ state[s] # "none"
      /\ Pending(s)' = {d \in Call : h[d] # NoTime}
  BY <1>1, <1>3 DEF IInv, TypeInv, SlotsInv, Live, Pending
<1>5. CASE state[s] # "awaiting_tools" /\ UNCHANGED <<state, deadline, timer>>
  <2>1. SlotOK(s)'
    BY <1>3, <1>4, <1>5 DEF SlotOK
  <2>2. /\ state' \in [Session -> {"none", "running", "awaiting_tools", "idle"}] /\ state'[s] # "none"
        /\ deadline' \in [Session -> Nat \cup {NoTime}] /\ timer' \in [Session -> Nat \cup {NoTime}]
        /\ \A t \in Session \ {s} : /\ state'[t] = state[t] /\ deadline'[t] = deadline[t]
                                    /\ timer'[t] = timer[t]
    BY <1>4, <1>5 DEF TypeInv
  <2> QED BY <1>1, <1>3, <1>4, <2>1, <2>2, SlotKeeps
<1>6. CASE state' = [state EXCEPT ![s] = "running"] /\ ClearHoldDeadline(s)
  <2>1. /\ state' \in [Session -> {"none", "running", "awaiting_tools", "idle"}]
        /\ state'[s] = "running" /\ \A t \in Session \ {s} : state'[t] = state[t]
    BY <1>4, <1>6, StateTypes
  <2>2. /\ deadline' \in [Session -> Nat \cup {NoTime}] /\ timer' \in [Session -> Nat \cup {NoTime}]
        /\ deadline'[s] = NoTime /\ timer'[s] = NoTime
        /\ \A t \in Session \ {s} : deadline'[t] = deadline[t] /\ timer'[t] = timer[t]
    BY <1>4, <1>6, ClearTypes
  <2>3. SlotOK(s)'
    BY <1>3, <1>4, <2>1, <2>2 DEF SlotOK
  <2> QED BY <1>1, <1>3, <1>4, <2>1, <2>2, <2>3, SlotKeeps
<1>7. CASE state[s] = "awaiting_tools" /\ RefreshHoldDeadline(s, h) /\ UNCHANGED state
  <2>1. SlotOK(s)'
    BY <1>3, <1>4, <1>7, SlotWaits
  <2>2. /\ deadline' \in [Session -> Nat \cup {NoTime}] /\ timer' \in [Session -> Nat \cup {NoTime}]
        /\ \A t \in Session \ {s} : deadline'[t] = deadline[t] /\ timer'[t] = timer[t]
    BY <1>3, <1>4, <1>7, RefreshTypes
  <2>3. /\ state' \in [Session -> {"none", "running", "awaiting_tools", "idle"}] /\ state'[s] # "none"
        /\ \A t \in Session \ {s} : state'[t] = state[t]
    BY <1>4, <1>7 DEF TypeInv
  <2> QED BY <1>1, <1>3, <1>4, <2>1, <2>2, <2>3, SlotKeeps
<1> QED BY <1>1, <1>5, <1>6, <1>7

LEMMA RegisterKeeps ==
  ASSUME IInv, NEW s \in Session, NEW c \in Call, RegisterHold(s, c)
  PROVE  IInv'
<1> DEFINE v == HoldTtl(c)
           h == [hold[s] EXCEPT ![c] = v]
<1>1. /\ s \in Live /\ hold' = [hold EXCEPT ![s] = h]
      /\ fate' = [fate EXCEPT ![s][c] = "waiting"] /\ UNCHANGED <<limits, order, state, age, inside>>
      /\ IF state[s] = "awaiting_tools" THEN RefreshHoldDeadline(s, h) ELSE UNCHANGED <<deadline, timer>>
  BY DEF RegisterHold
<1>2. v \in Nat /\ v # NoTime
  BY LimitTypes, NoTimeAssumption DEF IInv
<1>3. h = [hold[s] EXCEPT ![c] = v]
  OBVIOUS
<1> HIDE DEF h, v
<1>4. /\ h \in [Call -> Nat \cup {NoTime}] /\ hold'[s] = h
      /\ IsFiniteSet({d \in Call : h[d] # NoTime})
      /\ \A d \in Call : fate'[s][d] = "waiting" <=> h[d] # NoTime
      /\ hold' \in [Session -> [Call -> Nat \cup {NoTime}]]
      /\ fate' \in [Session -> [Call -> {"none", "waiting", "settled"}]]
      /\ \A t \in Session \ {s} : hold'[t] = hold[t] /\ fate'[t] = fate[t]
  <2>1. Moved(s, c, v, "waiting", h)
    BY <1>1, <1>2, <1>3 DEF Moved
  <2>2. Holding(s, h)
    BY <2>1, OneHold
  <2> QED BY <2>2 DEF Holding
<1>5. /\ inside' \in [Session -> BOOLEAN] /\ TypeInv /\ SlotOK(s) /\ state'[s] # "none"
      /\ state' \in [Session -> {"none", "running", "awaiting_tools", "idle"}]
      /\ \A t \in Session \ {s} : state'[t] = state[t]
      /\ Pending(s)' = {d \in Call : h[d] # NoTime}
  BY <1>1, <1>4 DEF IInv, TypeInv, SlotsInv, Live, Pending
<1>6. CASE state[s] = "awaiting_tools"
  <2>1. SlotOK(s)'
    BY <1>1, <1>4, <1>5, <1>6, SlotWaits
  <2>2. /\ deadline' \in [Session -> Nat \cup {NoTime}] /\ timer' \in [Session -> Nat \cup {NoTime}]
        /\ \A t \in Session \ {s} : deadline'[t] = deadline[t] /\ timer'[t] = timer[t]
    BY <1>1, <1>4, <1>5, <1>6, RefreshTypes
  <2> QED BY <1>1, <1>4, <1>5, <2>1, <2>2, SlotKeeps
<1>7. CASE state[s] # "awaiting_tools"
  <2>1. SlotOK(s)'
    BY <1>1, <1>4, <1>5, <1>7 DEF SlotOK
  <2>2. /\ deadline' \in [Session -> Nat \cup {NoTime}] /\ timer' \in [Session -> Nat \cup {NoTime}]
        /\ \A t \in Session \ {s} : deadline'[t] = deadline[t] /\ timer'[t] = timer[t]
    BY <1>1, <1>5, <1>7 DEF TypeInv
  <2> QED BY <1>1, <1>4, <1>5, <2>1, <2>2, SlotKeeps
<1> QED BY <1>6, <1>7

LEMMA LessOf ==
  ASSUME NEW a \in Nat \cup {NoTime}
  PROVE  /\ Less(a) \in Nat \cup {NoTime} /\ (Less(a) # NoTime <=> a # NoTime)
         /\ \A b \in Nat \cup {NoTime} : a # NoTime /\ b # NoTime /\ a <= b => Less(a) <= Less(b)
BY NoTimeAssumption DEF Less

LEMMA TickKeeps == ASSUME IInv, Tick PROVE IInv'
<1>1. /\ TypeInv /\ UNCHANGED <<limits, order, state, fate, inside>> /\ Live' = Live
      /\ \A s \in Session : /\ deadline'[s] = Less(deadline[s]) /\ timer'[s] = Less(timer[s])
                            /\ \A c \in Call : hold'[s][c] = Less(hold[s][c])
  BY DEF Tick, IInv, Live
<1>2. /\ deadline' \in [Session -> Nat \cup {NoTime}] /\ timer' \in [Session -> Nat \cup {NoTime}]
      /\ hold' \in [Session -> [Call -> Nat \cup {NoTime}]]
  BY <1>1, LessOf DEF Tick, TypeInv
<1>3. SlotsInv'
  <2> SUFFICES ASSUME NEW s \in Session PROVE SlotOK(s)'
    BY DEF SlotsInv
  <2>1. SlotOK(s) /\ deadline[s] \in Nat \cup {NoTime} /\ hold[s] \in [Call -> Nat \cup {NoTime}]
    BY <1>1 DEF IInv, SlotsInv, TypeInv
  <2>2. \A c \in Call : hold'[s][c] # NoTime <=> hold[s][c] # NoTime
    BY <1>1, <2>1, LessOf
  <2>3. Pending(s)' = Pending(s)
    BY <2>2 DEF Pending
  <2>4. timer'[s] = deadline'[s] /\ (timer'[s] # NoTime <=> timer[s] # NoTime)
    BY <1>1, <2>1, LessOf DEF SlotOK
  <2>5. ASSUME state'[s] = "awaiting_tools", NEW c \in Call, hold'[s][c] # NoTime
        PROVE  hold'[s][c] <= deadline'[s]
    <3>1. /\ hold[s][c] # NoTime /\ hold[s][c] <= deadline[s] /\ deadline[s] # NoTime
          /\ hold[s][c] \in Nat \cup {NoTime}
      BY <1>1, <2>1, <2>2, <2>5 DEF SlotOK
    <3> QED BY <1>1, <2>1, <3>1, LessOf
  <2> QED BY <1>1, <2>1, <2>2, <2>3, <2>4, <2>5 DEF SlotOK
<1> DEFINE M == Max(Age)
<1>4. M \in Nat
  BY AgeCap
<1>5. /\ \A s \in Live : age'[s] = IF age[s] + 1 <= M THEN age[s] + 1 ELSE M
      /\ age' \in [Session -> Nat]
  <2>0. age' = [s \in Session |-> IF s \in Live THEN Min({age[s] + 1, M}) ELSE 0]
    BY DEF Tick
  <2> HIDE DEF M
  <2>1. \A s \in Session : Min({age[s] + 1, M}) = IF age[s] + 1 <= M THEN age[s] + 1 ELSE M
    <3>1. ASSUME NEW s \in Session PROVE age[s] + 1 \in Int /\ M \in Int
      BY <1>1, <1>4 DEF TypeInv
    <3> QED BY <3>1, MinOfTwo
  <2>2. \A s \in Session : Min({age[s] + 1, M}) \in Nat
    <3> SUFFICES ASSUME NEW s \in Session PROVE Min({age[s] + 1, M}) \in Nat
      OBVIOUS
    <3>1. age[s] + 1 \in Nat
      BY <1>1 DEF TypeInv
    <3> QED BY <1>4, <2>1, <3>1
  <2> QED BY <2>0, <2>1, <2>2 DEF Live
<1>6. OrderInv'
  <2> SUFFICES ASSUME NEW i \in 1..Len(order), NEW j \in 1..Len(order), i < j
               PROVE  <<order[i], order[j]>> \in OlderBy(age')
    BY <1>1 DEF IInv, OrderInv, Sorted, Members, OlderBy
  <2>1. /\ <<order[i], order[j]>> \in OlderBy(age)
        /\ order[i] \in Live /\ order[j] \in Live /\ order[i] \in Session /\ order[j] \in Session
    BY DEF IInv, OrderInv, Sorted, Members, Live
  <2>2. /\ order[i] # order[j] /\ age[order[i]] >= age[order[j]]
        /\ age[order[i]] \in Nat /\ age[order[j]] \in Nat
    BY <1>1, <2>1 DEF OlderBy, TypeInv
  <2> HIDE DEF M
  <2>3. age'[order[i]] >= age'[order[j]]
    BY <1>4, <1>5, <2>1, <2>2
  <2> QED BY <2>1, <2>2, <2>3 DEF OlderBy
<1>7. TypeInv'
  BY <1>1, <1>2, <1>5 DEF TypeInv
<1> QED BY <1>3, <1>6, <1>7 DEF IInv

LEMMA SameKeeps ==
  ASSUME IInv, UNCHANGED slotVars, limits' \in Limits, inside' \in [Session -> BOOLEAN]
  PROVE  IInv'
<1>1. SlotsInv' /\ Live' = Live
  BY DEF IInv, SlotsInv, SlotOK, Pending, Live, slotVars
<1>2. OrderInv'
  BY <1>1, OrderSame DEF IInv, slotVars
<1> QED BY <1>1, <1>2 DEF IInv, TypeInv, slotVars
----------------------------------------------------------------------------
(* put                                                                     *)

(* Whom evictToFit drops. *)
LEMMA EvictedAre ==
  ASSUME IInv, NEW s \in Session
  PROVE  /\ \A d \in Evicted(s) :
              /\ d \in Live /\ d # s
              /\ \/ state[d] = "idle"
                 \/ state[d] = "awaiting_tools" /\ Pending(d) \cap Delegated = {}
         /\ (\E d \in Evicted(s) : state[d] = "awaiting_tools")
              => \A t \in Live \ {s} : state[t] = "idle" => t \in Evicted(s)
<1> DEFINE idle == {t \in Session \ {s} : state[t] = "idle"}
           waits == {t \in Session \ {s} : /\ state[t] = "awaiting_tools"
                                           /\ Pending(t) \cap Delegated = {}}
           a == Only(order, idle)
           b == Only(order, waits)
           v == a \o b
           room == Max({0, Len(order) - limits.live + 1})
           n == Min({Len(v), room})
<1>1. Evicted(s) = {v[i] : i \in 1..n}
  BY DEF Evicted, Victims
<1>2. order \in Seq(Session) /\ Members(order) = Live /\ Len(order) \in Nat /\ limits.live \in Nat
  BY LenProperties, LimitTypes DEF IInv, TypeInv, OrderInv
<1>3. /\ a \in Seq(Session) /\ Members(a) = Live \cap idle
      /\ b \in Seq(Session) /\ Members(b) = Live \cap waits
  <2> HIDE DEF idle, waits
  <2> QED BY <1>2, OnlyFilters
<1> HIDE DEF a, b
<1>4. /\ v \in Seq(Session) /\ Members(v) = Members(a) \cup Members(b)
      /\ Len(v) = Len(a) + Len(b) /\ Len(a) \in Nat /\ Len(b) \in Nat
      /\ \A i \in 1..Len(a) : v[i] = a[i]
      /\ \A i \in 1..Len(b) : v[Len(a) + i] = b[i]
  BY <1>3, MembersConcat
<1>5. n \in Int /\ n <= Len(v)
  <2>1. room \in Int
    <3>1. 0 \in Int /\ Len(order) - limits.live + 1 \in Int
      BY <1>2
    <3> QED BY <3>1, MaxOfTwo
  <2> HIDE DEF room, v
  <2>2. Len(v) \in Int
    BY <1>4
  <2> QED BY <2>1, <2>2, MinOfTwo
<1> HIDE DEF n, v
<1>6. ASSUME NEW i \in 1..n PROVE v[i] \in (Live \cap idle) \cup (Live \cap waits)
  <2>1. v[i] \in Members(v)
    BY <1>4, <1>5 DEF Members
  <2> QED BY <1>3, <1>4, <2>1
<1>7. \A d \in Evicted(s) :
        /\ d \in Live /\ d # s
        /\ \/ state[d] = "idle"
           \/ state[d] = "awaiting_tools" /\ Pending(d) \cap Delegated = {}
  BY <1>1, <1>6
<1>8. ASSUME NEW i \in 1..n, state[v[i]] = "awaiting_tools", NEW t \in Live \ {s}, state[t] = "idle"
      PROVE  t \in Evicted(s)
  <2>1. i \notin 1..Len(a)
    <3> SUFFICES ASSUME i \in 1..Len(a) PROVE FALSE
      OBVIOUS
    <3>1. v[i] \in Members(a)
      BY <1>4 DEF Members
    <3> QED BY <1>3, <1>8, <3>1
  <2>2. Len(a) <= n
    BY <1>4, <1>5, <2>1
  <2>3. t \in Members(a)
    BY <1>3, <1>8 DEF Live
  <2>4. PICK j \in 1..Len(a) : a[j] = t
    BY <2>3 DEF Members
  <2>5. j \in 1..n /\ v[j] = t
    BY <1>4, <1>5, <2>2, <2>4
  <2> QED BY <1>1, <2>5
<1> QED BY <1>1, <1>7, <1>8

LEMMA PutKeeps ==
  ASSUME IInv, NEW s \in Session, NEW st \in {"running", "idle"}, Put(s, st)
  PROVE  /\ IInv'
         /\ Live' = (Live \ Evicted(s)) \cup IF Fits(s) THEN {s} ELSE {}
<1> DEFINE D == Evicted(s)
           fits == Fits(s)
           q == Only(order, Session \ D)
           settled == [c \in Call |-> "settled"]
           none == [c \in Call |-> NoTime]
           first == [c \in Call |-> IF fits THEN "none" ELSE "settled"]
           to == IF fits THEN st ELSE "none"
<1>0. /\ none \in [Call -> Nat \cup {NoTime}] /\ \A c \in Call : none[c] = NoTime
      /\ settled \in [Call -> {"none", "waiting", "settled"}]
      /\ \A c \in Call : settled[c] # "waiting"
      /\ first \in [Call -> {"none", "waiting", "settled"}]
      /\ \A c \in Call : first[c] # "waiting"
      /\ to \in {"none", "running", "awaiting_tools", "idle"} /\ to # "awaiting_tools"
      /\ fits => to # "none"
      /\ ~fits => to = "none"
  OBVIOUS
<1>1. /\ s \notin Live /\ UNCHANGED <<limits, inside>>
      /\ order' = q \o (IF fits THEN <<s>> ELSE <<>>)
      /\ state' = [Set(state, D, "none") EXCEPT ![s] = to]
      /\ hold' = Set(hold, D, none) /\ deadline' = Set(deadline, D, NoTime)
      /\ timer' = Set(timer, D, NoTime) /\ age' = Set(age, D \cup {s}, 0)
      /\ fate' = [Set(fate, D, settled) EXCEPT ![s] = first]
  BY DEF Put
<1>2. D \subseteq Live /\ s \notin D
  BY <1>1, EvictedAre
<1> HIDE DEF D, fits, q, settled, none, first, to
<1>3. /\ state' \in [Session -> {"none", "running", "awaiting_tools", "idle"}]
      /\ \A t \in Session : state'[t] = IF t = s THEN to ELSE IF t \in D THEN "none" ELSE state[t]
  BY <1>0, <1>1 DEF Set, IInv, TypeInv
<1>4. /\ hold' \in [Session -> [Call -> Nat \cup {NoTime}]]
      /\ \A t \in Session : hold'[t] = IF t \in D THEN none ELSE hold[t]
  BY <1>0, <1>1 DEF Set, IInv, TypeInv
<1>5. /\ deadline' \in [Session -> Nat \cup {NoTime}] /\ timer' \in [Session -> Nat \cup {NoTime}]
      /\ \A t \in Session : /\ deadline'[t] = IF t \in D THEN NoTime ELSE deadline[t]
                            /\ timer'[t] = IF t \in D THEN NoTime ELSE timer[t]
  <2>1. /\ deadline' \in [Session -> Nat \cup {NoTime}]
        /\ \A t \in Session : deadline'[t] = IF t \in D THEN NoTime ELSE deadline[t]
    BY <1>1 DEF Set, IInv, TypeInv
  <2>2. /\ timer' \in [Session -> Nat \cup {NoTime}]
        /\ \A t \in Session : timer'[t] = IF t \in D THEN NoTime ELSE timer[t]
    BY <1>1 DEF Set, IInv, TypeInv
  <2> QED BY <2>1, <2>2
<1>6. /\ age' \in [Session -> Nat]
      /\ \A t \in Session : age'[t] = IF t \in D \cup {s} THEN 0 ELSE age[t]
  BY <1>1 DEF Set, IInv, TypeInv
<1>7. /\ fate' \in [Session -> [Call -> {"none", "waiting", "settled"}]]
      /\ \A t \in Session : fate'[t] = IF t = s THEN first ELSE IF t \in D THEN settled ELSE fate[t]
  BY <1>0, <1>1 DEF Set, IInv, TypeInv
<1>8. Live' = (Live \ D) \cup IF fits THEN {s} ELSE {}
  BY <1>0, <1>1, <1>2, <1>3 DEF Live
<1>9. SlotsInv'
  <2> SUFFICES ASSUME NEW t \in Session PROVE SlotOK(t)'
    BY DEF SlotsInv
  <2>0. SlotOK(t)
    BY DEF IInv, SlotsInv
  <2>1. CASE t = s
    <3>1. state[t] = "none"
      BY <1>1, <2>1 DEF Live
    <3>2. Pending(t) = {} /\ timer[t] = NoTime /\ deadline[t] = NoTime
      BY <2>0, <3>1 DEF SlotOK
    <3>3. \A c \in Call : hold[t][c] = NoTime
      BY <3>2 DEF Pending
    <3>4. /\ state'[t] # "awaiting_tools" /\ deadline'[t] = NoTime /\ timer'[t] = NoTime
          /\ hold'[t] = hold[t] /\ fate'[t] = first
      BY <1>0, <1>2, <1>3, <1>4, <1>5, <1>7, <2>1, <3>2
    <3> QED BY <1>0, <3>3, <3>4, SlotEmptied
  <2>2. CASE t \in D
    <3>1. /\ state'[t] # "awaiting_tools" /\ deadline'[t] = NoTime /\ timer'[t] = NoTime
          /\ hold'[t] = none /\ fate'[t] = settled
      BY <1>0, <1>2, <1>3, <1>4, <1>5, <1>7, <2>2
    <3> QED BY <1>0, <3>1, SlotEmptied
  <2>3. CASE t # s /\ t \notin D
    <3>1. /\ state'[t] = state[t] /\ deadline'[t] = deadline[t] /\ timer'[t] = timer[t]
          /\ hold'[t] = hold[t] /\ fate'[t] = fate[t]
      BY <1>3, <1>4, <1>5, <1>7, <2>3
    <3> QED BY <2>0, <3>1, SlotSame
  <2> QED BY <2>1, <2>2, <2>3
<1>10. order' \in Seq(Session) /\ OrderInv'
  <2>1. \A t \in Live \ D : age'[t] = age[t]
    BY <1>1, <1>6 DEF Live
  <2>2. q \in Seq(Session) /\ Members(q) = Live \ D /\ Sorted(q, OlderBy(age'))
    BY <2>1, OrderKept DEF IInv, q
  <2>3. OrderInv' <=> Sorted(order', OlderBy(age')) /\ Members(order') = Live'
    BY DEF OrderInv, OlderBy, Sorted, Members
  <2>4. CASE fits
    <3>1. age'[s] = 0 /\ s \notin Members(q)
      BY <1>1, <1>6, <2>2
    <3>2. order' = q \o <<s>>
      BY <1>1, <2>4
    <3>3. q \o <<s>> = Append(q, s)
      BY <2>2
    <3>4. /\ order' \in Seq(Session) /\ Members(order') = (Live \ D) \cup {s}
          /\ Sorted(order', OlderBy(age'))
      <4> DEFINE a == age'
      <4>1. a \in [Session -> Nat] /\ a[s] = 0 /\ Sorted(q, OlderBy(a))
        BY <1>6, <2>2, <3>1
      <4> HIDE DEF a
      <4>2. /\ Append(q, s) \in Seq(Session) /\ Members(Append(q, s)) = Members(q) \cup {s}
            /\ Sorted(Append(q, s), OlderBy(a))
        BY <2>2, <3>1, <4>1, OrderAppended
      <4> QED BY <2>2, <3>2, <3>3, <4>2 DEF a
    <3> QED BY <1>8, <2>3, <2>4, <3>4
  <2>5. CASE ~fits
    <3>1. order' = q
      BY <1>1, <2>2, <2>5, ConcatEmptySeq
    <3> QED BY <1>8, <2>2, <2>3, <2>5, <3>1
  <2> QED BY <2>4, <2>5
<1>11. TypeInv'
  BY <1>1, <1>3, <1>4, <1>5, <1>6, <1>7, <1>10 DEF IInv, TypeInv
<1> QED BY <1>8, <1>9, <1>10, <1>11 DEF IInv, D, fits

----------------------------------------------------------------------------
LEMMA InitIInv == Init => IInv
<1> SUFFICES ASSUME Init PROVE IInv
  OBVIOUS
<1>1. TypeInv
  BY EmptySeq DEF Init, TypeInv
<1>2. SlotsInv
  <2> SUFFICES ASSUME NEW s \in Session PROVE SlotOK(s)
    BY DEF SlotsInv
  <2>1. Pending(s) = {}
    BY DEF Init, Pending
  <2> QED BY <2>1, FS_EmptySet DEF Init, SlotOK
<1>3. OrderInv
  BY EmptySeq DEF Init, OrderInv, Sorted, Members, Live
<1> QED BY <1>1, <1>2, <1>3 DEF IInv

LEMMA NextIInv == IInv /\ [Next]_vars => IInv'
<1> SUFFICES ASSUME IInv, [Next]_vars PROVE IInv'
  OBVIOUS
<1>0. inside \in [Session -> BOOLEAN] /\ limits \in Limits /\ Expired \subseteq Session /\ Live \subseteq Session
  BY DEF IInv, TypeInv, Expired, Live
<1>1. ASSUME NEW s \in Session, Enter(s) \/ Leave(s) PROVE IInv'
  BY <1>1, EnterKeeps, LeaveKeeps
<1>2. ASSUME NEW s \in Session, GetExpired(s) \/ DropExplicit(s) \/ HoldTimer(s) PROVE IInv'
  <2>1. PICK D \in SUBSET Session : Drop(D) /\ UNCHANGED <<limits, inside>>
    BY <1>0, <1>2 DEF GetExpired, DropExplicit, HoldTimer
  <2> QED BY <1>0, <2>1, DropKeeps
<1>3. ASSUME NEW s \in Session, NEW st \in {"running", "idle"}, Put(s, st) PROVE IInv'
  BY <1>3, PutKeeps
<1>4. ASSUME NEW s \in Session, MarkRunning(s) \/ MarkIdle(s) PROVE IInv'
  BY <1>4, MarkKeeps DEF MarkRunning, MarkIdle
<1>5. ASSUME NEW s \in Session, BeginAwaitingTools(s) PROVE IInv'
  BY <1>5, BeginKeeps
<1>6. ASSUME NEW s \in Session, NEW c \in Call, SettlePending(s, c) \/ RegisterHold(s, c) PROVE IInv'
  BY <1>6, SettleKeeps, RegisterKeeps
<1>7. ASSUME Sweep \/ DropAll PROVE IInv'
  BY <1>0, <1>7, DropKeeps DEF Sweep, DropAll
<1>8. ASSUME Tick PROVE IInv'
  BY <1>8, TickKeeps
<1>9. ASSUME Configure \/ UNCHANGED vars PROVE IInv'
  BY <1>0, <1>9, SameKeeps DEF Configure, vars, slotVars
<1> QED BY <1>1, <1>2, <1>3, <1>4, <1>5, <1>6, <1>7, <1>8, <1>9 DEF Next

LEMMA Invariance == Spec => []IInv
<1> QED BY InitIInv, NextIInv, PTL DEF Spec

----------------------------------------------------------------------------
(* Whatever the interleaving of answers, executes, timers, evictions and   *)
(* drops, no execute's promise is forgotten.                               *)
THEOREM NobodyForgotten == Spec => []NoHoldForgotten
<1>1. IInv => NoHoldForgotten
  <2> SUFFICES ASSUME IInv, NEW s \in Session, NEW c \in Call
               PROVE  fate[s][c] = "waiting" <=> s \in Live /\ c \in Pending(s)
    BY DEF NoHoldForgotten
  <2>1. SlotOK(s)
    BY DEF IInv, SlotsInv
  <2> QED BY <2>1 DEF SlotOK, Pending, Live
<1> QED BY Invariance, <1>1, PTL

(* An armed hold timer is that of a slot that waits, and its deadline.     *)
THEOREM TimersBelongToWaits == Spec => []TimerMatchesSlot
<1>1. IInv => TimerMatchesSlot
  BY DEF IInv, SlotsInv, SlotOK, TimerMatchesSlot
<1> QED BY Invariance, <1>1, PTL

(* However many holds a slot has and whenever they came, its deadline is   *)
(* not before theirs.                                                      *)
THEOREM DeadlinesCover == Spec => []DeadlineCoversHolds
<1>1. IInv => DeadlineCoversHolds
  BY DEF IInv, SlotsInv, SlotOK, DeadlineCoversHolds, Pending, Live
<1> QED BY Invariance, <1>1, PTL

(* The order of the map is the order of use, with any number of slots.     *)
THEOREM MapOrderIsLru == Spec => []OrderIsLru
<1>1. IInv => OrderIsLru
  <2> SUFFICES ASSUME IInv PROVE OrderIsLru
    OBVIOUS
  <2>1. DOMAIN order = 1..Len(order)
    BY LenProperties DEF IInv, TypeInv
  <2> QED BY <2>1 DEF IInv, OrderInv, OrderIsLru, Sorted, Members, OlderBy
<1> QED BY Invariance, <1>1, PTL
----------------------------------------------------------------------------
(* What a step may never do.                                               *)

LEMMA LengthOfOrder ==
  ASSUME NEW u \in Seq(Session), NEW a, Sorted(u, OlderBy(a))
  PROVE  IsFiniteSet(Members(u)) /\ Cardinality(Members(u)) = Len(u) /\ Len(u) \in Nat
<1>1. \A i, j \in 1..Len(u) : i < j => u[i] # u[j]
  BY DEF Sorted, OlderBy
<1> QED BY <1>1, LengthIsCount

(* No step but put brings a slot. *)
LEMMA LiveOfStep ==
  ASSUME IInv, [Next]_vars, \A s \in Session : \A st \in {"running", "idle"} : ~Put(s, st)
  PROVE  Live' \subseteq Live
<1>1. inside \in [Session -> BOOLEAN] /\ Expired \subseteq Session /\ Live \subseteq Session
  BY DEF IInv, TypeInv, Expired, Live
<1>2. ASSUME NEW D \in SUBSET Session, Drop(D), UNCHANGED limits, inside' \in [Session -> BOOLEAN]
      PROVE  Live' \subseteq Live
  BY <1>2, DropKeeps
<1>3. ASSUME UNCHANGED state PROVE Live' \subseteq Live
  BY <1>3 DEF Live
<1>4. ASSUME NEW s \in Live, NEW st, state' = [state EXCEPT ![s] = st] PROVE Live' \subseteq Live
  BY <1>4 DEF Live, IInv, TypeInv
<1>5. ASSUME NEW s \in Session, Leave(s) PROVE Live' \subseteq Live
  <2>1. inside' \in [Session -> BOOLEAN] /\ UNCHANGED limits
    BY <1>1, <1>5 DEF Leave
  <2>2. CASE Drop({s})
    BY <1>2, <2>1, <2>2
  <2>3. CASE state[s] = "running" /\ state' = [state EXCEPT ![s] = "awaiting_tools"]
    <3>1. s \in Live
      BY <2>3 DEF Live
    <3> QED BY <1>4, <2>3, <3>1
  <2>4. CASE UNCHANGED slotVars
    BY <1>3, <2>4 DEF slotVars
  <2> QED BY <1>5, <2>2, <2>3, <2>4 DEF Leave
<1>6. ASSUME NEW s \in Session, Enter(s) PROVE Live' \subseteq Live
  BY <1>3, <1>6 DEF Enter
<1>7. ASSUME NEW s \in Session, GetExpired(s) \/ DropExplicit(s) \/ HoldTimer(s) PROVE Live' \subseteq Live
  <2>1. PICK D \in SUBSET Session : Drop(D) /\ UNCHANGED <<limits, inside>>
    BY <1>1, <1>7 DEF GetExpired, DropExplicit, HoldTimer
  <2> QED BY <1>1, <1>2, <2>1
<1>8. ASSUME NEW s \in Session, MarkRunning(s) \/ MarkIdle(s) \/ BeginAwaitingTools(s)
      PROVE  Live' \subseteq Live
  BY <1>4, <1>8 DEF MarkRunning, MarkIdle, BeginAwaitingTools, ToState
<1>9. ASSUME NEW s \in Session, NEW c \in Call, SettlePending(s, c) \/ RegisterHold(s, c)
      PROVE  Live' \subseteq Live
  <2>1. UNCHANGED state \/ (s \in Live /\ state' = [state EXCEPT ![s] = "running"])
    BY <1>9 DEF SettlePending, RegisterHold
  <2> QED BY <1>3, <1>4, <2>1
<1>10. ASSUME Sweep \/ DropAll PROVE Live' \subseteq Live
  BY <1>1, <1>2, <1>10 DEF Sweep, DropAll
<1>11. ASSUME Tick \/ Configure \/ UNCHANGED vars PROVE Live' \subseteq Live
  BY <1>3, <1>11 DEF Tick, Configure, vars
<1> QED BY <1>5, <1>6, <1>7, <1>8, <1>9, <1>10, <1>11 DEF Next

(* No interleaving of resumes, evictions and configure puts the hub over   *)
(* the limit in force.                                                     *)
THEOREM LimitKept == Spec => CapacityKept
<1>1. IInv /\ [Next]_vars => [Len(order') > Len(order) => Len(order') <= limits.live]_vars
  <2> SUFFICES ASSUME IInv, [Next]_vars, IInv', Len(order') > Len(order)
               PROVE  Len(order') <= limits.live
    BY NextIInv
  <2>1. IsFiniteSet(Live) /\ Cardinality(Live) = Len(order) /\ Len(order) \in Nat
    BY LengthOfOrder DEF IInv, TypeInv, OrderInv
  <2>2. IsFiniteSet(Live') /\ Cardinality(Live') = Len(order') /\ Len(order') \in Nat
    <3> DEFINE u == order'
               a == age'
               B == Live'
    <3>1. u \in Seq(Session) /\ Sorted(u, OlderBy(a)) /\ Members(u) = B
      BY DEF IInv, TypeInv, OrderInv, Sorted, OlderBy, Members
    <3> HIDE DEF u, a, B
    <3>2. IsFiniteSet(B) /\ Cardinality(B) = Len(u) /\ Len(u) \in Nat
      BY <3>1, LengthOfOrder
    <3> QED BY <3>2 DEF u, B
  <2>3. ~(Live' \subseteq Live)
    <3>1. CASE Live' \subseteq Live
      <4> DEFINE B == Live'
      <4>1. B \in SUBSET Live
        BY <3>1
      <4> HIDE DEF B
      <4>2. Cardinality(B) <= Cardinality(Live)
        BY <2>1, <4>1, FS_Subset
      <4> QED BY <2>1, <2>2, <4>2 DEF B
    <3> QED BY <3>1
  <2>4. PICK s \in Session : \E st \in {"running", "idle"} : Put(s, st)
    BY <2>3, LiveOfStep
  <2> DEFINE D == Evicted(s)
  <2>5. D \in SUBSET Live /\ Live' = (Live \ D) \cup IF Fits(s) THEN {s} ELSE {}
    BY <2>4, PutKeeps, EvictedAre
  <2>6. Fits(s)
    BY <2>3, <2>5
  <2>7. Len(order) - Cardinality(D) < limits.live /\ limits.live \in Nat
    BY <2>6, LimitTypes DEF Fits, IInv
  <2>8. s \notin Live
    BY <2>4 DEF Put
  <2> DEFINE B == Live'
             A == Live \ D
  <2>9. B = A \cup {s} /\ s \notin A
    BY <2>5, <2>6, <2>8
  <2> HIDE DEF B, D
  <2>10. /\ IsFiniteSet(D) /\ Cardinality(D) \in Nat /\ Live \cap D = D
         /\ IsFiniteSet(A) /\ Cardinality(A) = Cardinality(Live) - Cardinality(Live \cap D)
    <3>1. IsFiniteSet(D) /\ Live \cap D = D
      BY <2>1, <2>5, FS_Subset
    <3> QED BY <2>1, <3>1, FS_Difference, FS_CardinalityType
  <2> HIDE DEF A
  <2>11. Cardinality(B) = Cardinality(A) + 1
    BY <2>9, <2>10, FS_AddElement
  <2>12. Cardinality(A) = Len(order) - Cardinality(D)
    BY <2>1, <2>10
  <2>13. Len(order') = Len(order) - Cardinality(D) + 1
    BY <2>2, <2>11, <2>12 DEF B
  <2> QED BY <2>1, <2>7, <2>10, <2>13
<1> QED BY Invariance, <1>1, PTL DEF Spec, CapacityKept

(* What expiry drops, by a timer, a sweep or a look at it, has no hold     *)
(* with time left: timers, sweeps and holds that come late notwithstanding. *)
THEOREM NoHoldCutShort == Spec => HoldsGetTheirTtl
<1>1. IInv /\ [Next]_vars =>
        [(Sweep \/ \E s \in Session : HoldTimer(s) \/ GetExpired(s))
          => \A s \in Live : (s \notin Live' /\ state[s] # "idle")
                => \A c \in Pending(s) : hold[s][c] = 0]_vars
  <2> SUFFICES ASSUME IInv, Sweep \/ \E s \in Session : HoldTimer(s) \/ GetExpired(s),
                      NEW s \in Live, s \notin Live', state[s] # "idle",
                      NEW c \in Pending(s)
               PROVE  hold[s][c] = 0
    OBVIOUS
  <2>1. s \in Session /\ SlotOK(s)
    BY DEF IInv, SlotsInv, Live
  <2>2. s \in Expired \/ timer[s] = 0
    <3>1. inside \in [Session -> BOOLEAN] /\ Expired \subseteq Session /\ Live \subseteq Session
      BY DEF IInv, TypeInv, Expired, Live
    <3>2. CASE Sweep
      BY <3>1, <3>2, DropKeeps DEF Sweep
    <3>3. ASSUME NEW t \in Session, GetExpired(t) PROVE s \in Expired
      <4>1. Live' = Live \ {t} /\ t \in Expired
        BY <3>1, <3>3, DropKeeps DEF GetExpired
      <4> QED BY <4>1
    <3>4. ASSUME NEW t \in Session, HoldTimer(t) PROVE timer[s] = 0
      <4>1. Live' = Live \ ({t} \cap Live) /\ timer[t] = 0
        BY <3>1, <3>4, DropKeeps DEF HoldTimer
      <4> QED BY <4>1
    <3> QED BY <3>2, <3>3, <3>4
  <2>3. state[s] = "awaiting_tools" /\ deadline[s] = 0
    <3>1. CASE s \in Expired
      BY <3>1 DEF Expired
    <3>2. CASE timer[s] = 0
      BY <2>1, <3>2, NoTimeAssumption DEF SlotOK
    <3> QED BY <2>2, <3>1, <3>2
  <2>4. c \in Call /\ hold[s][c] # NoTime /\ hold[s][c] \in Nat
    BY <2>1 DEF Pending, IInv, TypeInv
  <2>5. hold[s][c] <= 0
    BY <2>1, <2>3, <2>4 DEF SlotOK
  <2> QED BY <2>4, <2>5
<1> QED BY Invariance, <1>1, PTL DEF Spec, HoldsGetTheirTtl

(* Whatever has happened to the slots before, put evicts in the order of   *)
(* pickLruVictim: never a running turn or a delegated wait, and no wait    *)
(* while an idle slot is left.                                             *)
THEOREM EvictionIsGentle == Spec => EvictionSpares
<1>1. IInv /\ [Next]_vars =>
        [(\E s \in Session, st \in {"running", "idle"} : Put(s, st))
          => \A s \in Live : s \notin Live' =>
               /\ state[s] # "running"
               /\ state[s] = "awaiting_tools" =>
                    /\ Pending(s) \cap Delegated = {}
                    /\ \A t \in Live' \cap Live : state[t] # "idle"]_vars
  <2> SUFFICES ASSUME IInv, NEW p \in Session, NEW st \in {"running", "idle"}, Put(p, st),
                      NEW s \in Live, s \notin Live'
               PROVE  /\ state[s] # "running"
                      /\ state[s] = "awaiting_tools" =>
                           /\ Pending(s) \cap Delegated = {}
                           /\ \A t \in Live' \cap Live : state[t] # "idle"
    OBVIOUS
  <2>1. p \notin Live /\ Live' = (Live \ Evicted(p)) \cup IF Fits(p) THEN {p} ELSE {}
    BY PutKeeps DEF Put
  <2>2. s \in Evicted(p)
    BY <2>1
  <2>3. ASSUME state[s] = "awaiting_tools", NEW t \in Live' \cap Live PROVE state[t] # "idle"
    <3>1. t \notin Evicted(p) /\ t \in Live \ {p}
      BY <2>1
    <3> QED BY <2>2, <2>3, <3>1, EvictedAre
  <2> QED BY <2>2, <2>3, EvictedAre
<1> QED BY Invariance, <1>1, PTL DEF Spec, EvictionSpares

----------------------------------------------------------------------------
(* The times that are left stay within the TTLs, and ages within the cap.  *)

Within(s) == /\ \A c \in Call : hold[s][c] \in Time \cup {NoTime}
             /\ deadline[s] \in Time \cup {NoTime}
             /\ age[s] \in Age

RangeInv == \A s \in Session : Within(s)

LEMMA TtlsInTime ==
  ASSUME TypeInv
  PROVE  /\ \E m \in Nat : Time = 0..m
         /\ limits.hold \in Time /\ \A c \in Call : HoldTtl(c) \in Time
<1> DEFINE f == [l \in Limits |-> {l.hold, l.delegate}]
           F == {f[l] : l \in Limits}
<1>1. F = {{l.hold, l.delegate} : l \in Limits} /\ \A T \in F : IsFiniteSet(T)
  <2>1. ASSUME NEW l \in Limits PROVE IsFiniteSet({l.hold, l.delegate})
    <3>1. \A a, b : IsFiniteSet({a, b})
      <4> TAKE a, b
      <4>1. IsFiniteSet({a})
        BY FS_Singleton
      <4>2. IsFiniteSet({a} \cup {b})
        BY <4>1, FS_AddElement
      <4> QED BY <4>2, Zenon
    <3> QED BY <3>1
  <2> QED BY <2>1
<1>2. IsFiniteSet(F)
  <2> HIDE DEF f
  <2> QED BY LimitsAssumption, FiniteImage
<1>3. Ttls = UNION F /\ IsFiniteSet(UNION F)
  <2>1. Ttls = UNION F
    BY <1>1 DEF Ttls
  <2> HIDE DEF F
  <2> QED BY <1>1, <1>2, <2>1, FS_UNION
<1>4. /\ Ttls \in SUBSET Nat /\ Ttls # {}
      /\ limits.hold \in Ttls /\ limits.delegate \in Ttls
  <2>1. limits \in Limits
    BY DEF TypeInv
  <2>2. /\ \A l \in Limits : l.hold \in Ttls /\ l.delegate \in Ttls
        /\ \A n \in Ttls : \E l \in Limits : n \in {l.hold, l.delegate}
    BY DEF Ttls
  <2>3. \A l \in Limits : l.hold \in Nat /\ l.delegate \in Nat
    BY LimitsAssumption
  <2> QED BY <2>1, <2>2, <2>3
<1> HIDE DEF F
<1>5. Max(Ttls) \in Nat /\ limits.hold <= Max(Ttls) /\ limits.delegate <= Max(Ttls)
  BY <1>3, <1>4, MaxOf
<1>6. limits.hold \in Time /\ limits.delegate \in Time
  <2>1. limits.hold \in Nat /\ limits.delegate \in Nat
    BY <1>4
  <2> QED BY <1>5, <2>1 DEF Time
<1>7. \A c \in Call : HoldTtl(c) \in Time
  BY <1>6 DEF HoldTtl
<1> QED BY <1>5, <1>6, <1>7 DEF Time

LEMMA LatestInTime ==
  ASSUME TypeInv, NEW h \in [Call -> Nat \cup {NoTime}], IsFiniteSet({c \in Call : h[c] # NoTime}),
         \A c \in Call : h[c] \in Time \cup {NoTime}
  PROVE  Latest(h) \in Time
<1> DEFINE O == {c \in Call : h[c] # NoTime}
           T == {h[c] : c \in O}
<1>1. CASE O = {}
  BY <1>1, TtlsInTime DEF Latest
<1>2. CASE O # {}
  <2>1. T \in SUBSET Nat /\ T # {} /\ T \subseteq Time
    BY <1>2
  <2>2. IsFiniteSet(T)
    <3>1. IsFiniteSet(O)
      OBVIOUS
    <3> HIDE DEF O
    <3> QED BY <3>1, FiniteImage
  <2>3. Latest(h) = Max(T)
    BY <1>2 DEF Latest
  <2> HIDE DEF T
  <2> QED BY <2>1, <2>2, <2>3, MaxOf
<1> QED BY <1>1, <1>2

(* The new holds of s are within the range, and its deadline is the old    *)
(* one, none, or that of the last of them.                                 *)
LEMMA WithinKept ==
  ASSUME IInv, IInv', NEW s \in Session, \A c \in Call : hold'[s][c] \in Time \cup {NoTime},
         \/ deadline'[s] = deadline[s] \/ deadline'[s] = NoTime
         \/ deadline'[s] = Latest(hold'[s]),
         age'[s] = age[s] \/ age'[s] = 0, Within(s)
  PROVE  Within(s)'
<1>1. 0 \in Age
  BY AgeCap
<1>2. hold'[s] \in [Call -> Nat \cup {NoTime}]
  BY DEF IInv, TypeInv
<1>3. SlotOK(s)' /\ TypeInv
  BY DEF IInv, SlotsInv
<1>4. IsFiniteSet({c \in Call : hold'[s][c] # NoTime})
  <2>1. Pending(s)' = {c \in Call : hold'[s][c] # NoTime}
    BY DEF Pending
  <2>2. IsFiniteSet(Pending(s)')
    BY <1>3 DEF SlotOK
  <2> QED BY <2>1, <2>2
<1>5. Latest(hold'[s]) \in Time
  BY <1>2, <1>3, <1>4, LatestInTime
<1> QED BY <1>1, <1>5 DEF Within

(* Drop and touch leave the times of the others alone. *)
LEMMA DropWithin ==
  ASSUME IInv, IInv', RangeInv, NEW D, Drop(D)
  PROVE  RangeInv'
<1> SUFFICES ASSUME NEW s \in Session PROVE Within(s)'
  BY DEF RangeInv
<1>1. /\ hold'[s] = IF s \in D THEN [c \in Call |-> NoTime] ELSE hold[s]
      /\ deadline'[s] = IF s \in D THEN NoTime ELSE deadline[s]
      /\ age'[s] = IF s \in D THEN 0 ELSE age[s]
  BY DEF Drop, Set, IInv, TypeInv
<1>2. Within(s)
  BY DEF RangeInv
<1>3. \A c \in Call : hold'[s][c] \in Time \cup {NoTime}
  BY <1>1, <1>2 DEF Within
<1> QED BY <1>1, <1>2, <1>3, WithinKept

LEMMA SlotWithin ==
  ASSUME IInv, IInv', RangeInv, NEW s \in Session,
         \A c \in Call : hold'[s][c] \in Time \cup {NoTime},
         \/ deadline' = deadline \/ ClearHoldDeadline(s)
         \/ RefreshHoldDeadline(s, hold'[s]),
         age' = age \/ Touch(s), \A t \in Session \ {s} : hold'[t] = hold[t]
  PROVE  RangeInv'
<1> SUFFICES ASSUME NEW t \in Session PROVE Within(t)'
  BY DEF RangeInv
<1>1. Within(t)
  BY DEF RangeInv
<1>2. age'[t] = age[t] \/ age'[t] = 0
  BY DEF Touch, IInv, TypeInv
<1>3. CASE t = s
  <2>1. \/ deadline'[t] = deadline[t] \/ deadline'[t] = NoTime
        \/ deadline'[t] = Latest(hold'[t])
    BY <1>3 DEF ClearHoldDeadline, RefreshHoldDeadline, IInv, TypeInv
  <2> QED BY <1>1, <1>2, <1>3, <2>1, WithinKept
<1>4. CASE t # s
  <2>1. deadline'[t] = deadline[t] /\ hold'[t] = hold[t]
    BY <1>4 DEF ClearHoldDeadline, RefreshHoldDeadline, IInv, TypeInv
  <2>2. \A c \in Call : hold'[t][c] \in Time \cup {NoTime}
    BY <1>1, <2>1 DEF Within
  <2> QED BY <1>1, <1>2, <2>1, <2>2, WithinKept
<1> QED BY <1>3, <1>4

LEMMA PutWithin ==
  ASSUME IInv, IInv', RangeInv, NEW p \in Session, NEW st, Put(p, st)
  PROVE  RangeInv'
<1> SUFFICES ASSUME NEW s \in Session PROVE Within(s)'
  BY DEF RangeInv
<1>1. PICK D : /\ hold' = Set(hold, D, [c \in Call |-> NoTime])
               /\ deadline' = Set(deadline, D, NoTime) /\ age' = Set(age, D \cup {p}, 0)
  BY DEF Put
<1>2. /\ hold'[s] = IF s \in D THEN [c \in Call |-> NoTime] ELSE hold[s]
      /\ deadline'[s] = IF s \in D THEN NoTime ELSE deadline[s]
      /\ age'[s] = IF s \in D \cup {p} THEN 0 ELSE age[s]
  BY <1>1 DEF Set, IInv, TypeInv
<1>3. Within(s)
  BY DEF RangeInv
<1>4. \A c \in Call : hold'[s][c] \in Time \cup {NoTime}
  BY <1>2, <1>3 DEF Within
<1> QED BY <1>2, <1>3, <1>4, WithinKept

LEMMA TickWithin ==
  ASSUME IInv, IInv', RangeInv, Tick
  PROVE  RangeInv'
<1>1. PICK m \in Nat : Time = 0..m
  BY TtlsInTime DEF IInv
<1>2. \A a \in Time \cup {NoTime} : Less(a) \in Time \cup {NoTime}
  BY <1>1 DEF Less
<1>3. Max(Age) \in Nat /\ \A n \in Nat : Min({n + 1, Max(Age)}) \in Age
  <2> DEFINE k == Max(Age)
  <2>1. k \in Nat /\ Age = 0..k
    BY AgeCap
  <2> HIDE DEF k
  <2>2. \A n \in Nat : Min({n + 1, k}) \in 0..k
    BY <2>1, MinOfTwo
  <2> QED BY <2>1, <2>2 DEF k
<1> SUFFICES ASSUME NEW s \in Session PROVE Within(s)'
  BY DEF RangeInv
<1>4. Within(s) /\ age[s] \in Nat
  BY DEF RangeInv, IInv, TypeInv
<1>5. /\ deadline'[s] = Less(deadline[s]) /\ \A c \in Call : hold'[s][c] = Less(hold[s][c])
      /\ age'[s] = 0 \/ age'[s] = Min({age[s] + 1, Max(Age)})
  BY DEF Tick
<1>6. 0 \in Age
  BY AgeCap
<1>7. deadline'[s] \in Time \cup {NoTime} /\ \A c \in Call : hold'[s][c] \in Time \cup {NoTime}
  BY <1>2, <1>4, <1>5 DEF Within
<1>8. age'[s] \in Age
  BY <1>3, <1>4, <1>5, <1>6
<1> QED BY <1>7, <1>8 DEF Within

LEMMA NextRangeInv == IInv /\ IInv' /\ RangeInv /\ [Next]_vars => RangeInv'
<1> SUFFICES ASSUME IInv, IInv', RangeInv, [Next]_vars PROVE RangeInv'
  OBVIOUS
<1>1. \A s \in Session, c \in Call : hold[s][c] \in Time \cup {NoTime}
  BY DEF RangeInv, Within
<1>2. ASSUME NEW D, Drop(D) PROVE RangeInv'
  BY <1>2, DropWithin
<1>3. ASSUME NEW s \in Session, UNCHANGED hold, age' = age \/ Touch(s),
             \/ deadline' = deadline \/ ClearHoldDeadline(s) \/ RefreshHoldDeadline(s, hold[s])
      PROVE  RangeInv'
  BY <1>1, <1>3, SlotWithin
<1>4. ASSUME NEW s \in Session, Enter(s) \/ MarkRunning(s) \/ MarkIdle(s) \/ BeginAwaitingTools(s)
      PROVE  RangeInv'
  BY <1>3, <1>4 DEF Enter, MarkRunning, MarkIdle, BeginAwaitingTools, ToState
<1>5. ASSUME NEW s \in Session, Leave(s) PROVE RangeInv'
  BY <1>2, <1>3, <1>5 DEF Leave, slotVars
<1>6. ASSUME NEW s \in Session, GetExpired(s) \/ DropExplicit(s) \/ HoldTimer(s) PROVE RangeInv'
  BY <1>2, <1>6 DEF GetExpired, DropExplicit, HoldTimer
<1>7. ASSUME NEW s \in Session, NEW st \in {"running", "idle"}, Put(s, st) PROVE RangeInv'
  BY <1>7, PutWithin
<1>8. ASSUME NEW s \in Session, NEW c \in Call, SettlePending(s, c) PROVE RangeInv'
  <2> DEFINE h == [hold[s] EXCEPT ![c] = NoTime]
  <2>1. hold' = [hold EXCEPT ![s] = h] /\ hold \in [Session -> [Call -> Nat \cup {NoTime}]]
    BY <1>8 DEF SettlePending, IInv, TypeInv
  <2>2. /\ hold'[s] = h /\ \A t \in Session \ {s} : hold'[t] = hold[t]
        /\ \A d \in Call : h[d] \in Time \cup {NoTime}
    BY <1>1, <2>1
  <2>3. /\ Touch(s)
        /\ deadline' = deadline \/ ClearHoldDeadline(s) \/ RefreshHoldDeadline(s, h)
    BY <1>8 DEF SettlePending
  <2> HIDE DEF h
  <2> QED BY <2>2, <2>3, SlotWithin
<1>9. ASSUME NEW s \in Session, NEW c \in Call, RegisterHold(s, c) PROVE RangeInv'
  <2> DEFINE h == [hold[s] EXCEPT ![c] = HoldTtl(c)]
  <2>0. HoldTtl(c) \in Time
    BY TtlsInTime DEF IInv
  <2>1. hold' = [hold EXCEPT ![s] = h] /\ hold \in [Session -> [Call -> Nat \cup {NoTime}]]
    BY <1>9 DEF RegisterHold, IInv, TypeInv
  <2>2. /\ hold'[s] = h /\ \A t \in Session \ {s} : hold'[t] = hold[t]
        /\ \A d \in Call : h[d] \in Time \cup {NoTime}
    BY <1>1, <2>0, <2>1
  <2>3. age' = age /\ (deadline' = deadline \/ RefreshHoldDeadline(s, h))
    BY <1>9 DEF RegisterHold
  <2> HIDE DEF h
  <2> QED BY <2>2, <2>3, SlotWithin
<1>10. ASSUME Sweep \/ DropAll PROVE RangeInv'
  BY <1>2, <1>10 DEF Sweep, DropAll
<1>11. ASSUME Tick PROVE RangeInv'
  BY <1>11, TickWithin
<1>12. ASSUME Configure \/ UNCHANGED vars PROVE RangeInv'
  BY <1>12 DEF Configure, vars, slotVars, RangeInv, Within
<1> QED BY <1>4, <1>5, <1>6, <1>7, <1>8, <1>9, <1>10, <1>11, <1>12 DEF Next

(* Type correctness: what is left of a hold, a deadline or a timer never   *)
(* exceeds the longest TTL that was configured, ages stay below their cap. *)
THEOREM TypeCorrect == Spec => []TypeOK
<1>1. Init => RangeInv
  BY AgeCap DEF Init, RangeInv, Within
<1>2. IInv /\ RangeInv => TypeOK
  <2> SUFFICES ASSUME IInv, RangeInv PROVE TypeOK
    OBVIOUS
  <2>1. /\ deadline \in [Session -> Time \cup {NoTime}] /\ age \in [Session -> Age]
        /\ \A s \in Session : hold[s] \in [Call -> Time \cup {NoTime}]
    BY DEF IInv, TypeInv, RangeInv, Within
  <2>2. timer \in [Session -> Time \cup {NoTime}]
    BY <2>1 DEF IInv, TypeInv, SlotsInv, SlotOK
  <2>3. hold \in [Session -> [Call -> Time \cup {NoTime}]]
    BY <2>1 DEF IInv, TypeInv
  <2> QED BY <2>1, <2>2, <2>3 DEF IInv, TypeInv, TypeOK
<1> QED BY Invariance, NextRangeInv, <1>1, <1>2, PTL DEF Spec
=============================================================================
