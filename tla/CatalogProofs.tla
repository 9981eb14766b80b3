--------------------------- MODULE CatalogProofs ----------------------------
(***************************************************************************)
(* Proofs about CatalogSystem, for every schedule, every catalogue, every  *)
(* query and any page size: what the grid, the search and the details tell *)
(* a customer.                                                             *)
(***************************************************************************)
EXTENDS CatalogSystem, FiniteSetTheorems, WellFoundedInduction, TLAPS

-----------------------------------------------------------------------------
(* Least elements *)

\* Every nonempty set of naturals has a least element: of the intervals from
\* zero to its members one contains no other.
LEMMA LeastOf ==
    ASSUME NEW S \in SUBSET Nat, S # {}
    PROVE  \E x \in S : \A y \in S : x <= y
  <1> DEFINE T == {0..x : x \in S}
  <1>1. T \subseteq FiniteSubsetsOf(Nat)
    <2>1. ASSUME NEW x \in S PROVE 0..x \in FiniteSubsetsOf(Nat)
      BY FS_Interval DEF FiniteSubsetsOf
    <2> QED
      BY <2>1
  <1>2. IsWellFoundedOn(StrictSubsetOrdering(Nat), FiniteSubsetsOf(Nat))
    BY FS_StrictSubsetOrderingWellFounded
  <1>3. T # {}
    OBVIOUS
  <1>4. PICK X \in T : \A Y \in T : <<Y, X>> \notin StrictSubsetOrdering(Nat)
    <2> HIDE DEF T
    <2> QED
      BY <1>1, <1>2, <1>3, WFMin
  <1>5. PICK x \in S : X = 0..x
    BY <1>4
  <1>6. ASSUME NEW y \in S, y < x PROVE FALSE
    <2>1. 0..y \subseteq X /\ 0..y # X
      BY <1>5, <1>6
    <2>2. 0..y \in T /\ 0..y \in SUBSET Nat /\ X \in SUBSET Nat
      BY <1>5
    <2> QED
      BY <1>4, <2>1, <2>2 DEF StrictSubsetOrdering
  <1> QED
    BY <1>6

LEMMA MinIsLeast ==
    ASSUME NEW S \in SUBSET Nat, S # {}
    PROVE  Min(S) \in S /\ \A y \in S : Min(S) <= y
  BY LeastOf DEF Min

LEMMA MinPriceType ==
    ASSUME NEW S \in SUBSET Nat
    PROVE  MinPrice(S) \in Nat
  BY MinIsLeast DEF MinPrice

\* A least element is known by what it is.
LEMMA MinPriceIs ==
    ASSUME NEW S \in SUBSET Nat, NEW x \in S, \A y \in S : x <= y
    PROVE  MinPrice(S) = x
  <1>1. Min(S) \in S /\ Min(S) <= x
    BY MinIsLeast
  <1>2. x <= Min(S) /\ Min(S) \in Nat /\ S # {}
    BY <1>1
  <1>3. Min(S) = x
    BY <1>1, <1>2
  <1> QED
    BY <1>2, <1>3 DEF MinPrice

-----------------------------------------------------------------------------
(* Sums *)

\* g sums f over the parts of S, taking away one member after the other.
IsSum(g, f, S) ==
    g = [s \in SUBSET S |->
            IF s = {} THEN 0
            ELSE LET x == CHOOSE y \in s : TRUE IN f[x] + g[s \ {x}]]

SumOf(f, S) == (CHOOSE g : IsSum(g, f, S))[S]

\* What fails for a finite set fails for one none of whose parts it fails for.
LEMMA LeastPart ==
    ASSUME NEW S, IsFiniteSet(S), NEW T \in SUBSET (SUBSET S), T # {}
    PROVE  \E s \in T : \A t \in T : t \subseteq s => t = s
  <1>1. IsWellFoundedOn(StrictSubsetOrdering(S), FiniteSubsetsOf(S))
    BY FS_StrictSubsetOrderingWellFounded
  <1>2. T \subseteq FiniteSubsetsOf(S)
    BY FS_FiniteSubsetsOfFinite
  <1>3. PICK s \in T : \A t \in T : <<t, s>> \notin StrictSubsetOrdering(S)
    BY <1>1, <1>2, WFMin
  <1> QED
    BY <1>3 DEF StrictSubsetOrdering

LEMMA SumsAgree ==
    ASSUME NEW f, NEW S, IsFiniteSet(S), NEW U \in SUBSET S, NEW g, NEW h,
           IsSum(g, f, S), IsSum(h, f, U)
    PROVE  \A s \in SUBSET U : g[s] = h[s]
  <1> DEFINE Bad == {s \in SUBSET U : g[s] # h[s]}
  <1> SUFFICES ASSUME Bad # {} PROVE FALSE
    OBVIOUS
  <1>1. IsFiniteSet(U)
    BY FS_Subset
  <1>2. PICK s \in Bad : \A t \in Bad : t \subseteq s => t = s
    <2> Bad \in SUBSET (SUBSET U)
      OBVIOUS
    <2> HIDE DEF Bad
    <2> QED
      BY <1>1, LeastPart
  <1>3. s # {}
    BY DEF IsSum
  <1> DEFINE x == CHOOSE y \in s : TRUE
  <1>4. x \in s
    BY <1>3
  <1>5. g[s] = f[x] + g[s \ {x}] /\ h[s] = f[x] + h[s \ {x}]
    BY <1>3 DEF IsSum
  <1>6. g[s \ {x}] = h[s \ {x}]
    <2> HIDE DEF x
    <2> QED
      BY <1>2, <1>4
  <1> HIDE DEF x
  <1> QED
    BY <1>5, <1>6

LEMMA SumExists ==
    ASSUME NEW f, NEW S, IsFiniteSet(S)
    PROVE  \E g : IsSum(g, f, S)
  <1> DEFINE Bad == {U \in SUBSET S : ~ \E g : IsSum(g, f, U)}
  <1> SUFFICES ASSUME Bad # {} PROVE FALSE
    OBVIOUS
  <1>1. PICK U \in Bad : \A t \in Bad : t \subseteq U => t = U
    <2> Bad \in SUBSET (SUBSET S)
      OBVIOUS
    <2> HIDE DEF Bad
    <2> QED
      BY LeastPart
  <1> DEFINE k(t) == CHOOSE g : IsSum(g, f, t)
             first(s) == CHOOSE y \in s : TRUE
             h == [s \in SUBSET U |->
                     IF s = {} THEN 0
                     ELSE f[first(s)] + k(s \ {first(s)})[s \ {first(s)}]]
  <1>2. \A s : s # {} => first(s) \in s
    OBVIOUS
  <1>3. ASSUME NEW t \in SUBSET U, t # U PROVE IsSum(k(t), f, t)
    <2>1. \E g : IsSum(g, f, t)
      BY <1>1, <1>3
    <2> HIDE DEF IsSum
    <2> QED
      BY <2>1
  <1>4. ASSUME NEW t \in SUBSET U, t # U PROVE k(t)[t] = h[t]
    <2>1. CASE t = {}
      <3>1. k(t)[t] = 0
        <4> HIDE DEF k
        <4> QED
          BY <1>3, <1>4, <2>1 DEF IsSum
      <3> QED
        BY <2>1, <3>1
    <2>2. CASE t # {}
      <3> DEFINE y == first(t)
      <3>1. y \in t
        BY <1>2, <2>2
      <3>2. IsSum(k(t), f, t) /\ IsSum(k(t \ {y}), f, t \ {y})
        <4> HIDE DEF k, y
        <4> QED
          BY <1>3, <1>4, <3>1
      <3>3. IsFiniteSet(t)
        BY FS_Subset
      <3>4. k(t)[t \ {y}] = k(t \ {y})[t \ {y}]
        <4> HIDE DEF k, y
        <4>1. \A g1, g2 : IsSum(g1, f, t) /\ IsSum(g2, f, t \ {y})
                             => g1[t \ {y}] = g2[t \ {y}]
          BY <3>3, SumsAgree
        <4> QED
          BY <3>2, <4>1
      <3>5. k(t)[t] = f[y] + k(t)[t \ {y}]
        <4> HIDE DEF k
        <4> QED
          BY <2>2, <3>2 DEF IsSum
      <3>6. h[t] = f[y] + k(t \ {y})[t \ {y}]
        <4> HIDE DEF k, first
        <4> QED
          BY <2>2
      <3> QED
        BY <3>4, <3>5, <3>6
    <2> QED
      BY <2>1, <2>2
  <1>5. \A s \in SUBSET U : s # {} => h[s] = f[first(s)] + h[s \ {first(s)}]
    <2> SUFFICES ASSUME NEW s \in SUBSET U, s # {}
                 PROVE  h[s] = f[first(s)] + h[s \ {first(s)}]
      OBVIOUS
    <2>1. s \ {first(s)} \in SUBSET U /\ s \ {first(s)} # U
      BY <1>2
    <2>2. k(s \ {first(s)})[s \ {first(s)}] = h[s \ {first(s)}]
      <3> HIDE DEF k, h, first
      <3> QED
        BY <1>4, <2>1
    <2>3. h[s] = f[first(s)] + k(s \ {first(s)})[s \ {first(s)}]
      <3> HIDE DEF k, first
      <3> QED
        OBVIOUS
    <2> QED
      BY <2>2, <2>3
  <1>6. h = [s \in SUBSET U |-> IF s = {} THEN 0 ELSE f[first(s)] + h[s \ {first(s)}]]
    <2>1. h[{}] = 0 /\ DOMAIN h = SUBSET U
      OBVIOUS
    <2>2. h = [s \in SUBSET U |-> h[s]]
      OBVIOUS
    <2> HIDE DEF k, first, h
    <2> QED
      BY <1>5, <2>1, <2>2
  <1>7. IsSum(h, f, U)
    <2> HIDE DEF h
    <2> QED
      BY <1>6 DEF IsSum
  <1> QED
    BY <1>1, <1>7

LEMMA SumOfIs ==
    ASSUME NEW f, NEW S, IsFiniteSet(S), NEW g, IsSum(g, f, S), NEW s \in SUBSET S
    PROVE  SumOf(f, s) = g[s]
  <1>1. IsFiniteSet(s)
    BY FS_Subset
  <1>2. \E h : IsSum(h, f, s)
    BY <1>1, SumExists
  <1>3. PICK h : IsSum(h, f, s) /\ SumOf(f, s) = h[s]
    BY <1>2 DEF SumOf
  <1>4. g[s] = h[s]
    BY <1>3, SumsAgree
  <1> QED
    BY <1>3, <1>4

LEMMA SumOfEmpty == ASSUME NEW f PROVE SumOf(f, {}) = 0
  <1>1. IsFiniteSet({})
    BY FS_EmptySet
  <1>2. PICK g : IsSum(g, f, {})
    BY <1>1, SumExists
  <1>3. g[{}] = 0
    BY <1>2 DEF IsSum
  <1> QED
    BY <1>1, <1>2, <1>3, SumOfIs

\* Only what is summed over counts.
LEMMA SumOfSame ==
    ASSUME NEW f, NEW h, NEW S, IsFiniteSet(S), \A x \in S : f[x] = h[x]
    PROVE  SumOf(f, S) = SumOf(h, S)
  <1>1. PICK g : IsSum(g, f, S)
    BY SumExists
  <1>2. IsSum(g, h, S)
    <2>1. \A s \in SUBSET S : s # {} =>
             LET x == CHOOSE y \in s : TRUE IN f[x] + g[s \ {x}] = h[x] + g[s \ {x}]
      <3> SUFFICES ASSUME NEW s \in SUBSET S, s # {}
                   PROVE  f[CHOOSE y \in s : TRUE] = h[CHOOSE y \in s : TRUE]
        OBVIOUS
      <3> QED
        OBVIOUS
    <2> QED
      BY <1>1, <2>1 DEF IsSum
  <1>3. SumOf(f, S) = g[S]
    BY <1>1, SumOfIs
  <1>4. SumOf(h, S) = g[S]
    BY <1>2, SumOfIs
  <1> QED
    BY <1>3, <1>4

LEMMA SumOfFirst ==
    ASSUME NEW f, NEW S, IsFiniteSet(S), S # {}
    PROVE  LET x == CHOOSE y \in S : TRUE
           IN  x \in S /\ SumOf(f, S) = f[x] + SumOf(f, S \ {x})
  <1> DEFINE x == CHOOSE y \in S : TRUE
  <1>1. x \in S
    OBVIOUS
  <1>2. PICK g : IsSum(g, f, S)
    BY SumExists
  <1>3. g[S] = f[x] + g[S \ {x}]
    BY <1>2 DEF IsSum
  <1> HIDE DEF x
  <1>4. SumOf(f, S) = g[S] /\ SumOf(f, S \ {x}) = g[S \ {x}]
    BY <1>2, SumOfIs
  <1> QED
    BY <1>1, <1>3, <1>4 DEF x

LEMMA SumOfType ==
    ASSUME NEW f, NEW S, IsFiniteSet(S), \A x \in S : f[x] \in Int
    PROVE  SumOf(f, S) \in Int
  <1> DEFINE Bad == {s \in SUBSET S : SumOf(f, s) \notin Int}
  <1> SUFFICES ASSUME Bad # {} PROVE FALSE
    OBVIOUS
  <1>1. PICK s \in Bad : \A t \in Bad : t \subseteq s => t = s
    <2> Bad \in SUBSET (SUBSET S)
      OBVIOUS
    <2> HIDE DEF Bad
    <2> QED
      BY LeastPart
  <1>2. IsFiniteSet(s) /\ s # {}
    <2>1. IsFiniteSet(s)
      BY FS_Subset
    <2>2. SumOf(f, {}) \in Int
      BY SumOfEmpty
    <2> QED
      BY <2>1, <2>2
  <1>3. PICK x \in s : SumOf(f, s) = f[x] + SumOf(f, s \ {x})
    BY <1>2, SumOfFirst
  <1>4. SumOf(f, s \ {x}) \in Int
    BY <1>1, <1>3
  <1> QED
    BY <1>3, <1>4

\* The order of the summands does not matter.
LEMMA SumOfRemove ==
    ASSUME NEW f, NEW S, IsFiniteSet(S), \A x \in S : f[x] \in Int, NEW a \in S
    PROVE  SumOf(f, S) = f[a] + SumOf(f, S \ {a})
  <1> DEFINE Bad == {s \in SUBSET S : \E x \in s : SumOf(f, s) # f[x] + SumOf(f, s \ {x})}
  <1> SUFFICES ASSUME Bad # {} PROVE FALSE
    OBVIOUS
  <1>1. PICK s \in Bad : \A t \in Bad : t \subseteq s => t = s
    <2> Bad \in SUBSET (SUBSET S)
      OBVIOUS
    <2> HIDE DEF Bad
    <2> QED
      BY LeastPart
  <1>2. PICK x \in s : SumOf(f, s) # f[x] + SumOf(f, s \ {x})
    BY <1>1
  <1>3. IsFiniteSet(s)
    BY FS_Subset
  <1>4. PICK y \in s : SumOf(f, s) = f[y] + SumOf(f, s \ {y})
    BY <1>2, <1>3, SumOfFirst
  <1>5. x # y
    BY <1>2, <1>4
  <1>6. SumOf(f, s \ {y}) = f[x] + SumOf(f, (s \ {y}) \ {x})
    <2>1. s \ {y} \in SUBSET S /\ s \ {y} \subseteq s /\ s \ {y} # s /\ x \in s \ {y}
      BY <1>5
    <2>2. s \ {y} \notin Bad
      <3> HIDE DEF Bad
      <3> QED
        BY <1>1, <2>1
    <2> QED
      BY <2>1, <2>2
  <1>7. SumOf(f, s \ {x}) = f[y] + SumOf(f, (s \ {x}) \ {y})
    <2>1. s \ {x} \in SUBSET S /\ s \ {x} \subseteq s /\ s \ {x} # s /\ y \in s \ {x}
      BY <1>5
    <2>2. s \ {x} \notin Bad
      <3> HIDE DEF Bad
      <3> QED
        BY <1>1, <2>1
    <2> QED
      BY <2>1, <2>2
  <1>8. (s \ {y}) \ {x} = (s \ {x}) \ {y}
    OBVIOUS
  <1>9. SumOf(f, (s \ {x}) \ {y}) \in Int /\ f[x] \in Int /\ f[y] \in Int
    <2>1. IsFiniteSet((s \ {x}) \ {y})
      BY <1>3, FS_Subset
    <2> QED
      BY <2>1, SumOfType
  <1>10. SumOf(f, s) = f[y] + (f[x] + SumOf(f, (s \ {x}) \ {y}))
    BY <1>4, <1>6, <1>8
  <1>11. SumOf(f, s) # f[x] + (f[y] + SumOf(f, (s \ {x}) \ {y}))
    BY <1>2, <1>7
  <1> QED
    BY <1>9, <1>10, <1>11

LEMMA SumOfAdd ==
    ASSUME NEW f, NEW S, IsFiniteSet(S), NEW a, a \notin S, \A x \in S \cup {a} : f[x] \in Int
    PROVE  SumOf(f, S \cup {a}) = f[a] + SumOf(f, S)
  <1>1. IsFiniteSet(S \cup {a}) /\ (S \cup {a}) \ {a} = S
    BY FS_AddElement
  <1> QED
    BY <1>1, SumOfRemove

LEMMA SumOfUnion ==
    ASSUME NEW f, NEW S, IsFiniteSet(S), \A x \in S : f[x] \in Int,
           NEW A \in SUBSET S, NEW B \in SUBSET S, A \cap B = {}
    PROVE  SumOf(f, A \cup B) = SumOf(f, A) + SumOf(f, B)
  <1> DEFINE Bad == {s \in SUBSET A : SumOf(f, s \cup B) # SumOf(f, s) + SumOf(f, B)}
  <1> SUFFICES ASSUME Bad # {} PROVE FALSE
    OBVIOUS
  <1>0. IsFiniteSet(A) /\ IsFiniteSet(B) /\ SumOf(f, B) \in Int
    BY FS_Subset, SumOfType
  <1>1. PICK s \in Bad : \A t \in Bad : t \subseteq s => t = s
    <2> Bad \in SUBSET (SUBSET A)
      OBVIOUS
    <2> HIDE DEF Bad
    <2> QED
      BY <1>0, LeastPart
  <1>2. s # {}
    <2>1. SumOf(f, {}) = 0
      BY SumOfEmpty
    <2>2. SumOf(f, {} \cup B) = SumOf(f, {}) + SumOf(f, B)
      <3>1. {} \cup B = B
        OBVIOUS
      <3> QED
        BY <1>0, <2>1, <3>1
    <2> QED
      BY <2>2
  <1>3. PICK x \in s : TRUE
    BY <1>2
  <1>4. IsFiniteSet(s) /\ IsFiniteSet(s \cup B)
    <2>1. s \in SUBSET S /\ (s \cup B) \in SUBSET S
      OBVIOUS
    <2> QED
      BY <2>1, FS_Subset
  <1>5. SumOf(f, s) = f[x] + SumOf(f, s \ {x})
    BY <1>4, SumOfRemove
  <1>6. SumOf(f, s \cup B) = f[x] + SumOf(f, (s \ {x}) \cup B)
    <2>1. (s \cup B) \ {x} = (s \ {x}) \cup B
      OBVIOUS
    <2>2. SumOf(f, s \cup B) = f[x] + SumOf(f, (s \cup B) \ {x})
      BY <1>4, SumOfRemove
    <2> QED
      BY <2>1, <2>2
  <1>7. SumOf(f, (s \ {x}) \cup B) = SumOf(f, s \ {x}) + SumOf(f, B)
    BY <1>1
  <1>8. SumOf(f, s \ {x}) \in Int /\ f[x] \in Int
    <2>1. IsFiniteSet(s \ {x})
      BY <1>4, FS_Subset
    <2> QED
      BY <2>1, SumOfType
  <1> QED
    BY <1>0, <1>1, <1>5, <1>6, <1>7, <1>8

LEMMA SumOfConstant ==
    ASSUME NEW f, NEW S, IsFiniteSet(S), NEW c \in Int, \A x \in S : f[x] = c
    PROVE  SumOf(f, S) = Cardinality(S) * c
  <1> DEFINE Bad == {s \in SUBSET S : SumOf(f, s) # Cardinality(s) * c}
  <1> SUFFICES ASSUME Bad # {} PROVE FALSE
    OBVIOUS
  <1>1. PICK s \in Bad : \A t \in Bad : t \subseteq s => t = s
    <2> Bad \in SUBSET (SUBSET S)
      OBVIOUS
    <2> HIDE DEF Bad
    <2> QED
      BY LeastPart
  <1>2. IsFiniteSet(s) /\ s # {}
    <2>1. SumOf(f, {}) = Cardinality({}) * c
      BY SumOfEmpty, FS_EmptySet
    <2> QED
      BY <2>1, FS_Subset
  <1>3. PICK x \in s : SumOf(f, s) = f[x] + SumOf(f, s \ {x})
    BY <1>2, SumOfFirst
  <1>4. SumOf(f, s \ {x}) = Cardinality(s \ {x}) * c
    BY <1>1
  <1>5. /\ Cardinality(s \ {x}) = Cardinality(s) - 1
        /\ Cardinality(s) \in Nat
    BY <1>2, FS_RemoveElement, FS_CardinalityType
  <1>6. SumOf(f, s) = c + (Cardinality(s) - 1) * c
    BY <1>3, <1>4, <1>5
  <1>7. c + (Cardinality(s) - 1) * c = Cardinality(s) * c
    <2> DEFINE n == Cardinality(s)
    <2> HIDE DEF n
    <2>1. n \in Nat => c + (n - 1) * c = n * c
      OBVIOUS
    <2> QED
      BY <1>5, <2>1 DEF n
  <1> QED
    BY <1>6, <1>7

\* The community module's sum of the prices of bookings, and that of slots.
LEMMA PricesAreSummed ==
    ASSUME NEW B, IsFiniteSet(B), NEW f, \A b \in B : f[b] = bookings[b].price
    PROVE  PricesOf(B) = SumOf(f, B)
  <1> DEFINE body(h) == [s \in SUBSET B |->
                           IF s = {} THEN 0
                           ELSE LET x == CHOOSE y \in s : TRUE
                                IN  bookings[x].price + h[s \ {x}]]
             iter == CHOOSE h : h = body(h)
  <1>1. PICK g : IsSum(g, f, B)
    BY SumExists
  <1>2. \A h : h = body(h) <=> IsSum(h, f, B)
    BY DEF IsSum
  <1>3. IsSum(iter, f, B)
    <2> HIDE DEF body, IsSum
    <2> QED
      BY <1>1, <1>2
  <1>4. PricesOf(B) = iter[B]
    BY DEF PricesOf, MapThenSumSet, MapThenFoldSet
  <1>5. SumOf(f, B) = iter[B]
    <2> HIDE DEF iter
    <2> QED
      BY <1>3, SumOfIs
  <1> QED
    BY <1>4, <1>5

LEMMA SlotsAreSummed ==
    ASSUME NEW s, IsFiniteSet(Within(s)), NEW f, \A g \in Within(s) : f[g] = g.price
    PROVE  ShownTogether(s) = SumOf(f, Within(s))
  <1> DEFINE B == Within(s)
             body(h) == [t \in SUBSET B |->
                           IF t = {} THEN 0
                           ELSE LET x == CHOOSE y \in t : TRUE IN x.price + h[t \ {x}]]
             iter == CHOOSE h : h = body(h)
  <1>1. PICK g : IsSum(g, f, B)
    BY SumExists
  <1>2. \A h : h = body(h) <=> IsSum(h, f, B)
    BY DEF IsSum
  <1>3. IsSum(iter, f, B)
    <2> HIDE DEF body, IsSum
    <2> QED
      BY <1>1, <1>2
  <1>4. ShownTogether(s) = iter[B]
    BY DEF ShownTogether, MapThenSumSet, MapThenFoldSet
  <1>5. SumOf(f, B) = iter[B]
    <2> HIDE DEF iter
    <2> QED
      BY <1>3, SumOfIs
  <1> QED
    BY <1>4, <1>5

-----------------------------------------------------------------------------
(* The schedule of a court *)

LEMMA ScheduleShape ==
    ASSUME Scheduled
    PROVE  /\ Cardinality(DOMAIN hours) \in Nat
           /\ DOMAIN hours = 0..(Cardinality(DOMAIN hours) - 1)
           /\ \A d \in DOMAIN hours : hours[d] \in OpeningHours \cup {NoRow}
           /\ Len(rules) \in Nat /\ rules \in Seq(Rule)
           /\ \A i \in 1..Len(rules) : rules[i] \in Rule
           /\ \A r \in Ranges : r \in Asked /\ dayOf(r.start) \in DOMAIN hours
  <1>1. PICK s \in Schedules : hours = s.hours /\ rules = s.rules
    BY DEF Scheduled
  <1> DEFINE days == DOMAIN hours
  <1>2. /\ IsFiniteSet(days) /\ days = 0..(Cardinality(days) - 1)
        /\ hours \in [days -> OpeningHours \cup {NoRow}]
        /\ rules \in Seq(Rule)
        /\ \A r \in Ranges : r.start \div Day \in days
    BY <1>1, SchedulesAssumption
  <1>3. Cardinality(days) \in Nat
    BY <1>2, FS_CardinalityType
  <1> QED
    BY <1>2, <1>3, RangesAssumption DEF dayOf

LEMMA TimeParts ==
    ASSUME NEW t \in Nat
    PROVE  /\ dayOf(t) \in Nat /\ timeOfDay(t) \in Nat /\ timeOfDay(t) < Day
           /\ t = dayOf(t) * Day + timeOfDay(t)
  <1>1. Day \in Nat /\ Day > 0
    BY PricingBounds
  <1> QED
    BY <1>1 DEF dayOf, timeOfDay

LEMMA MinuteInHour == Minute \in Nat /\ Hour \in Nat /\ Minute <= Hour
  <1>1. /\ Minute \in Nat /\ Minute > 0 /\ Hour \in Nat /\ Hour > 0 /\ Hour % Minute = 0
    BY PricingBounds
  <1>2. Hour < Minute => Hour % Minute = Hour
    BY <1>1
  <1> QED
    BY <1>1, <1>2

LEMMA TimeIs ==
    ASSUME NEW d \in Nat, NEW r \in Nat, r < Day
    PROVE  dayOf(d * Day + r) = d /\ timeOfDay(d * Day + r) = r
  <1>1. Day \in Nat /\ Day > 0
    BY PricingBounds
  <1> DEFINE t == d * Day + r
  <1>2. t \in Nat
    BY <1>1
  <1>3. dayOf(t) \in Nat /\ timeOfDay(t) \in Nat /\ timeOfDay(t) < Day
        /\ t = dayOf(t) * Day + timeOfDay(t)
    <2> HIDE DEF t
    <2> QED
      BY <1>2, TimeParts
  <1>4. ASSUME NEW a \in Nat, NEW b \in Nat, NEW p \in Nat, NEW q \in Nat, p < Day, q < Day,
               a * Day + p = b * Day + q, a < b
        PROVE  FALSE
    <2>1. (a + 1) * Day <= b * Day
      BY <1>1, <1>4
    <2>2. (a + 1) * Day = a * Day + Day
      BY <1>1
    <2> QED
      BY <1>1, <1>4, <2>1, <2>2
  <1> DEFINE e == dayOf(t)
             m == timeOfDay(t)
  <1>5. d * Day + r = e * Day + m /\ e \in Nat /\ m \in Nat /\ m < Day
    BY <1>3
  <1> HIDE DEF e, m
  <1>6. d = e
    <2>1. ~(d < e)
      BY <1>4, <1>5
    <2>2. ~(e < d)
      BY <1>4, <1>5
    <2> QED
      BY <1>5, <2>1, <2>2
  <1>7. r = m
    BY <1>1, <1>5, <1>6
  <1> QED
    BY <1>6, <1>7 DEF e, m

\* An instant of a day, and the days that follow each other.
LEMMA WithinDay ==
    ASSUME NEW d \in Nat, NEW t \in Nat, d * Day <= t, t < (d + 1) * Day
    PROVE  dayOf(t) = d /\ timeOfDay(t) = t - d * Day
  <1>1. Day \in Nat /\ Day > 0
    BY PricingBounds
  <1>2. d * Day \in Nat /\ (d + 1) * Day = d * Day + Day
    BY <1>1
  <1> DEFINE r == t - d * Day
  <1>3. r \in Nat /\ r < Day /\ t = d * Day + r
    BY <1>1, <1>2
  <1> HIDE DEF r
  <1>4. dayOf(d * Day + r) = d /\ timeOfDay(d * Day + r) = r
    BY <1>3, TimeIs
  <1> QED
    BY <1>3, <1>4 DEF r

\* The seconds that are cut off are less than a minute, and no minute lies
\* between the one that is left and the instant.
LEMMA ClockIs ==
    ASSUME NEW t \in Nat
    PROVE  /\ clockTime(t) \in Nat /\ Minute \in Nat
           /\ clockTime(t) <= timeOfDay(t) /\ timeOfDay(t) < clockTime(t) + Minute
           /\ \A m \in Clock : m <= timeOfDay(t) => m <= clockTime(t)
  <1>1. Minute \in Nat /\ Minute > 0 /\ timeOfDay(t) \in Nat /\ Day \in Nat
    <2>1. Minute \in Nat /\ Minute > 0 /\ Day \in Nat
      BY PricingBounds
    <2>2. timeOfDay(t) \in Nat
      BY TimeParts
    <2> QED
      BY <2>1, <2>2
  <1> DEFINE i == timeOfDay(t)
             q == i \div Minute
             r == i % Minute
  <1>2. clockTime(t) = i - r /\ i \in Nat
    BY <1>1 DEF clockTime
  <1> HIDE DEF i
  <1>3. q \in Nat /\ r \in Nat /\ r < Minute /\ i = (q * Minute) + r
    BY <1>1, <1>2
  <1> HIDE DEF q, r
  <1>4. q * Minute \in Nat /\ (q + 1) * Minute = (q * Minute) + Minute
    BY <1>1, <1>3
  <1>5. ASSUME NEW m \in Clock, m <= i PROVE m <= i - r
    <2> DEFINE k == m \div Minute
    <2>1. m \in Nat /\ m % Minute = 0
      BY <1>1 DEF Clock
    <2>2. k \in Nat /\ m = k * Minute
      BY <1>1, <2>1
    <2> HIDE DEF k
    <2>3. ~(q + 1 <= k)
      <3>1. q + 1 <= k => (q + 1) * Minute <= k * Minute
        BY <1>1, <1>3, <2>2
      <3> QED
        BY <1>1, <1>2, <1>3, <1>4, <1>5, <2>1, <2>2, <3>1
    <2>4. k * Minute <= q * Minute
      BY <1>1, <1>3, <2>2, <2>3
    <2> QED
      BY <1>2, <1>3, <1>4, <2>1, <2>2, <2>4
  <1>6. /\ i - r \in Nat /\ i - r <= i /\ i < (i - r) + Minute
    BY <1>1, <1>2, <1>3, <1>4
  <1>7. \A m \in Clock : m <= i => m <= i - r
    BY <1>5
  <1> QED
    BY <1>1, <1>2, <1>6, <1>7 DEF i

\* The rules the two prices look for.
Charging(r, s) ==
    /\ r.dayType = dayType(dayOf(s.start))
    /\ r.start <= clockTime(s.start)
    /\ r.end >= clockTime(s.end)

Showing(r, s) ==
    /\ r.dayType = dayType(dayOf(s.start))
    /\ r.start <= timeOfDay(s.start)
    /\ r.end > timeOfDay(s.start)

LEMMA ChargingRuleIs ==
    ASSUME Scheduled, NEW s
    PROVE  /\ ChargingRule(s) \in 0..Len(rules)
           /\ ChargingRule(s) > 0 => Charging(rules[ChargingRule(s)], s)
           /\ (\E i \in 1..Len(rules) : Charging(rules[i], s)) => ChargingRule(s) > 0
  <1> DEFINE I == {i \in 1..Len(rules) : Charging(rules[i], s)}
  <1>1. ChargingRule(s) = IF I # {} THEN Min(I) ELSE 0
    BY DEF ChargingRule, SelectInSeq, Charging
  <1>2. Len(rules) \in Nat /\ I \in SUBSET Nat
    BY ScheduleShape
  <1>3. I # {} => Min(I) \in I
    <2> HIDE DEF I
    <2> QED
      BY <1>2, MinIsLeast
  <1> QED
    BY <1>1, <1>2, <1>3

LEMMA ShowingRuleIs ==
    ASSUME Scheduled, NEW s
    PROVE  /\ ShowingRule(s) \in 0..Len(rules)
           /\ ShowingRule(s) > 0 => Showing(rules[ShowingRule(s)], s)
           /\ (\E i \in 1..Len(rules) : Showing(rules[i], s)) => ShowingRule(s) > 0
  <1> DEFINE I == {i \in 1..Len(rules) : Showing(rules[i], s)}
  <1>1. ShowingRule(s) = IF I # {} THEN Min(I) ELSE 0
    BY DEF ShowingRule, SelectInSeq, Showing
  <1>2. Len(rules) \in Nat /\ I \in SUBSET Nat
    BY ScheduleShape
  <1>3. I # {} => Min(I) \in I
    <2> HIDE DEF I
    <2> QED
      BY <1>2, MinIsLeast
  <1> QED
    BY <1>1, <1>2, <1>3

LEMMA RateType ==
    ASSUME Scheduled, NEW s
    PROVE  Rate(s) \in Nat /\ ShownPrice(s) \in Nat
  <1>1. DefaultRate \in Nat /\ Hour \in Nat
    BY PricingBounds
  <1>2. \A i \in 1..Len(rules) : rules[i].rate \in Nat
    BY ScheduleShape DEF Rule
  <1>3. rules # <<>> => 1 \in 1..Len(rules)
    BY ScheduleShape
  <1>4. Rate(s) \in Nat
    BY <1>1, <1>2, <1>3, ChargingRuleIs, ScheduleShape DEF Rate, Or
  <1> DEFINE rate == IF ShowingRule(s) = 0 THEN DefaultRate
                     ELSE Or(rules[ShowingRule(s)].rate, DefaultRate)
  <1>5. rate \in Nat
    BY <1>1, <1>2, ShowingRuleIs, ScheduleShape DEF Or
  <1>6. Hour * rate \in Nat
    <2> HIDE DEF rate
    <2> QED
      BY <1>1, <1>5
  <1> QED
    BY <1>4, <1>6 DEF ShownPrice

-----------------------------------------------------------------------------

\* The bookings that earn money.
Standing == {b \in Booked : bookings[b].status \in {"CONFIRMED", "COMPLETED"}}

Charged == [b \in RowIds |-> bookings[b].price]

\* What a customer sees is the grid of some day, as it is.
GridIsCurrent == grid # {} => \E d \in DOMAIN hours : grid = GetAvailability(d)

\* Every booking passed the check of the opening hours.
HeldWhenOpen ==
    \A b \in Booked : /\ validateOperatingHours(bookings[b])
                      /\ dayOf(bookings[b].start) \in DOMAIN hours

\* The figures add up.
EarnedIsCharged == earned = SumOf(Charged, Standing)

\* When ShownPricesAddUp has something to say.
Comparable ==
    /\ answer.verdict = "HOLD"
    /\ Proper(answer)
    /\ \/ rules = <<>>
       \/ /\ ClearRules(dayType(dayOf(answer.start)))
          /\ OneRuleHolds(answer)
          /\ timeOfDay(answer.end) # 0

\* Slots and range then have one rate.
AnswerIsPriced ==
    /\ IsFiniteSet(answer.shown)
    /\ Comparable =>
          /\ answer.price = calculatePrice(answer)
          /\ \A g \in Within(answer) : g.price = Hour * Rate(answer)

ScheduleInv ==
    /\ Scheduled
    /\ bookings \in [RowIds -> CourtBooking \cup {NoRow}]
    /\ answer \in Answer
    /\ GridIsCurrent
    /\ HeldWhenOpen
    /\ EarnedIsCharged
    /\ GridTellsTheTruth
    /\ AnswerIsPriced

LEMMA RowsShape ==
    ASSUME bookings \in [RowIds -> CourtBooking \cup {NoRow}]
    PROVE  /\ \A b \in Booked : b \in RowIds /\ bookings[b] \in CourtBooking
           /\ IsFiniteSet(RowIds) /\ IsFiniteSet(Booked)
           /\ Standing \in SUBSET Booked /\ Booked \in SUBSET RowIds
           /\ \A b \in Booked : Charged[b] = bookings[b].price /\ Charged[b] \in Int
  <1>1. \A b \in Booked : b \in RowIds /\ bookings[b] \in CourtBooking
    BY DEF Booked
  <1>2. IsFiniteSet(RowIds)
    BY FS_Interval, RowsBound DEF RowIds
  <1>3. Booked \in SUBSET RowIds
    BY DEF Booked
  <1>4. IsFiniteSet(Booked)
    BY <1>2, <1>3, FS_Subset
  <1>5. \A b \in Booked : Charged[b] = bookings[b].price /\ Charged[b] \in Int
    BY <1>1 DEF Charged, CourtBooking
  <1> QED
    BY <1>1, <1>2, <1>3, <1>4, <1>5 DEF Standing

\* The hours and the slots of a day.
LEMMA HourSlotsShape ==
    ASSUME Scheduled, NEW d \in DOMAIN hours, OpenOn(d), NEW s \in HourSlots(d)
    PROVE  \E h \in Nat :
              /\ s = [start |-> d * Day + h * Hour, end |-> d * Day + (h + 1) * Hour]
              /\ h >= hours[d].open \div Hour
              /\ (h + 1) * Hour <= hours[d].close
              /\ hours[d].open \in 0..Day /\ hours[d].close \in 0..Day
  <1>1. hours[d] \in OpeningHours
    BY ScheduleShape DEF OpenOn
  <1>2. hours[d].open \in 0..Day /\ hours[d].close \in 0..Day
        /\ Day \in Nat /\ Day > 0 /\ Hour \in Nat /\ Hour > 0
    BY <1>1, PricingBounds DEF OpeningHours, Clock
  <1> DEFINE first == hours[d].open \div Hour
             last == hours[d].close \div Hour
  <1>3. first \in Nat /\ last \in Nat /\ last * Hour <= hours[d].close
    BY <1>2
  <1>4. PICK h \in first..(last - 1) :
           s = [start |-> d * Day + h * Hour, end |-> d * Day + (h + 1) * Hour]
    BY DEF HourSlots
  <1>5. h \in Nat /\ h >= first /\ h + 1 <= last
    <2> HIDE DEF first, last
    <2> QED
      BY <1>3, <1>4
  <1>6. (h + 1) * Hour <= last * Hour
    <2> HIDE DEF first, last
    <2> QED
      BY <1>2, <1>3, <1>5
  <1>7. (h + 1) * Hour <= hours[d].close
    <2> HIDE DEF first, last
    <2> QED
      BY <1>2, <1>3, <1>5, <1>6
  <1> QED
    BY <1>2, <1>4, <1>5, <1>7

\* A slot of the grid of day d lies in it, an hour long.
LEMMA SlotInDay ==
    ASSUME Scheduled, NEW d \in DOMAIN hours, OpenOn(d), NEW s \in HourSlots(d)
    PROVE  /\ s.start \in Nat /\ s.end \in Nat /\ s.end = s.start + Hour
           /\ d \in Nat /\ d * Day <= s.start /\ s.end <= (d + 1) * Day
           /\ Hour \in Nat /\ Hour > 0
           /\ dayOf(s.start) = d
           /\ s.start \in Instants /\ s.end \in Instants
  <1>1. PICK h \in Nat :
              /\ s = [start |-> d * Day + h * Hour, end |-> d * Day + (h + 1) * Hour]
              /\ (h + 1) * Hour <= hours[d].close
              /\ hours[d].close \in 0..Day
    BY HourSlotsShape
  <1> DEFINE n == Cardinality(DOMAIN hours)
  <1>2. n \in Nat /\ d \in 0..(n - 1) /\ d \in Nat /\ d + 1 <= n
    BY ScheduleShape
  <1>3. Day \in Nat /\ Day > 0 /\ Hour \in Nat /\ Hour > 0
    BY PricingBounds
  <1>4. /\ d * Day \in Nat /\ (d + 1) * Day = d * Day + Day
        /\ h * Hour \in Nat /\ (h + 1) * Hour = h * Hour + Hour
    BY <1>2, <1>3
  <1>5. (d + 1) * Day <= n * Day /\ n * Day \in Nat
    <2> HIDE DEF n
    <2> QED
      BY <1>2, <1>3
  <1>6. /\ s.start \in Nat /\ s.end \in Nat /\ s.end = s.start + Hour
        /\ d * Day <= s.start /\ s.end <= (d + 1) * Day
    BY <1>1, <1>3, <1>4
  <1>7. s.start < (d + 1) * Day
    BY <1>3, <1>4, <1>6
  <1>8. dayOf(s.start) = d
    BY <1>2, <1>6, <1>7, WithinDay
  <1>9. s.start \in 0..(n * Day) /\ s.end \in 0..(n * Day)
    <2> HIDE DEF n
    <2> QED
      BY <1>3, <1>4, <1>5, <1>6, <1>7
  <1> QED
    BY <1>2, <1>3, <1>6, <1>8, <1>9 DEF Instants

LEMMA GridShape ==
    ASSUME Scheduled, NEW d \in DOMAIN hours, NEW g \in GetAvailability(d)
    PROVE  /\ OpenOn(d)
           /\ \E s \in HourSlots(d) :
                 /\ g.start = s.start /\ g.end = s.end
                 /\ g.status = SlotStatus(s)
                 /\ g.price = IF SlotStatus(s) = "AVAILABLE" THEN ShownPrice(s) ELSE 0
                 /\ g \in GridSlot
  <1>1. OpenOn(d)
    BY DEF GetAvailability
  <1>2. PICK s \in HourSlots(d) :
          g = [start |-> s.start, end |-> s.end, status |-> SlotStatus(s),
               price |-> IF SlotStatus(s) = "AVAILABLE" THEN ShownPrice(s) ELSE 0]
    BY <1>1 DEF GetAvailability
  <1>3. s.start \in Instants /\ s.end \in Instants
    BY <1>1, SlotInDay
  <1>4. SlotStatus(s) \in {"AVAILABLE", "HOLD", "BOOKED"}
    BY DEF SlotStatus
  <1>5. ShownPrice(s) \in Nat
    BY RateType
  <1>6. g \in GridSlot
    BY <1>2, <1>3, <1>4, <1>5 DEF GridSlot
  <1> QED
    BY <1>1, <1>2, <1>6

LEMMA GridTyped ==
    ASSUME Scheduled, GridIsCurrent
    PROVE  grid \in SUBSET GridSlot
  <1>1. CASE grid = {}
    BY <1>1
  <1>2. CASE grid # {}
    <2>1. PICK d \in DOMAIN hours : grid = GetAvailability(d)
      BY <1>2 DEF GridIsCurrent
    <2> QED
      BY <2>1, GridShape
  <1> QED
    BY <1>1, <1>2

LEMMA GridIsFinite ==
    ASSUME Scheduled, GridIsCurrent
    PROVE  IsFiniteSet(grid)
  <1>1. CASE grid = {}
    BY <1>1, FS_EmptySet
  <1>2. CASE grid # {}
    <2>1. PICK d \in DOMAIN hours : grid = GetAvailability(d)
      BY <1>2 DEF GridIsCurrent
    <2>2. OpenOn(d)
      BY <1>2, <2>1, GridShape
    <2> DEFINE first == hours[d].open \div Hour
               last == (hours[d].close \div Hour) - 1
               slot(h) == [start |-> d * Day + h * Hour, end |-> d * Day + (h + 1) * Hour]
               row(s) == [start |-> s.start, end |-> s.end, status |-> SlotStatus(s),
                          price |-> IF SlotStatus(s) = "AVAILABLE" THEN ShownPrice(s) ELSE 0]
               f == [h \in first..last |-> row(slot(h))]
    <2>3. first \in Int /\ last \in Int
      <3>1. hours[d] \in OpeningHours
        BY <2>2, ScheduleShape DEF OpenOn
      <3> QED
        BY <3>1, PricingBounds DEF OpeningHours, Clock
    <2>4. IsFiniteSet(first..last)
      <3> HIDE DEF first, last
      <3> QED
        BY <2>3, FS_Interval
    <2>5. HourSlots(d) = {slot(h) : h \in first..last}
      BY DEF HourSlots
    <2>6. GetAvailability(d) = {row(s) : s \in HourSlots(d)}
      BY <2>2 DEF GetAvailability
    <2>7. f \in Surjection(first..last, grid)
      <3> HIDE DEF first, last, slot, row
      <3>1. \A h \in first..last : f[h] \in grid
        BY <2>1, <2>5, <2>6
      <3>2. \A g \in grid : \E h \in first..last : f[h] = g
        BY <2>1, <2>5, <2>6
      <3> QED
        BY <3>1, <3>2 DEF Surjection
    <2> HIDE DEF f, first, last
    <2> QED
      BY <2>4, <2>7, FS_Surjection
  <1> QED
    BY <1>1, <1>2

\* What createHold asks of the hours is about start and end alone.
LEMMA SameTimesSameHours ==
    ASSUME NEW s, NEW t, s.start = t.start, s.end = t.end
    PROVE  validateOperatingHours(s) = validateOperatingHours(t)
  BY DEF validateOperatingHours

\* A slot of the grid is within the hours, if the day opens on the hour.
LEMMA SlotIsWithinHours ==
    ASSUME Scheduled, NEW d \in DOMAIN hours, OpenOn(d), OpensOnTheHour(d),
           NEW s \in HourSlots(d)
    PROVE  validateOperatingHours(s)
  <1>1. PICK h \in Nat :
              /\ s = [start |-> d * Day + h * Hour, end |-> d * Day + (h + 1) * Hour]
              /\ h >= hours[d].open \div Hour
              /\ (h + 1) * Hour <= hours[d].close
              /\ hours[d].open \in 0..Day /\ hours[d].close \in 0..Day
    BY HourSlotsShape
  <1>2. Day \in Nat /\ Day > 0 /\ Hour \in Nat /\ Hour > 0 /\ d \in Nat
    BY PricingBounds, SlotInDay
  <1> DEFINE first == hours[d].open \div Hour
  <1>3. first \in Nat /\ hours[d].open = first * Hour
    <2>1. hours[d].open \in Nat /\ hours[d].open % Hour = 0
      BY <1>1, <1>2 DEF OpensOnTheHour
    <2>2. \A o \in Nat : o % Hour = 0 => (o \div Hour) \in Nat /\ o = (o \div Hour) * Hour
      BY <1>2
    <2> QED
      BY <2>1, <2>2
  <1>4. first * Hour <= h * Hour /\ h * Hour \in Nat /\ (h + 1) * Hour = h * Hour + Hour
    <2> HIDE DEF first
    <2> QED
      BY <1>1, <1>2, <1>3 DEF first
  <1>5. dayOf(s.start) = d /\ timeOfDay(s.start) = h * Hour
    <2>1. h * Hour < Day
      BY <1>1, <1>2, <1>4
    <2> QED
      BY <1>1, <1>2, <1>4, <2>1, TimeIs
  <1>6. timeOfDay(s.end) <= hours[d].close
    <2>1. CASE (h + 1) * Hour < Day
      <3>1. timeOfDay(d * Day + (h + 1) * Hour) = (h + 1) * Hour
        BY <2>1, <1>2, <1>4, TimeIs
      <3> QED
        BY <3>1, <1>1
    <2>2. CASE (h + 1) * Hour = Day
      <3>1. s.end = (d + 1) * Day + 0
        BY <2>2, <1>1, <1>2
      <3>2. timeOfDay((d + 1) * Day + 0) = 0
        BY <1>2, TimeIs
      <3> QED
        BY <3>1, <3>2, <1>1
    <2>3. (h + 1) * Hour <= Day /\ (h + 1) * Hour \in Nat
      BY <1>1, <1>2, <1>4
    <2> QED
      BY <1>2, <2>1, <2>2, <2>3
  <1>7. timeOfDay(s.start) >= hours[d].open
    <2> HIDE DEF first
    <2> QED
      BY <1>1, <1>2, <1>3, <1>4, <1>5
  <1>8. hours[d].open \in Clock
    BY ScheduleShape DEF OpenOn, OpeningHours
  <1>9. s.start \in Nat /\ s.end \in Nat
    BY SlotInDay
  <1>10. clockTime(s.start) >= hours[d].open
    BY <1>1, <1>7, <1>8, <1>9, ClockIs, TimeParts
  <1>11. clockTime(s.end) <= hours[d].close
    BY <1>1, <1>6, <1>9, ClockIs, TimeParts
  <1> QED
    BY <1>5, <1>10, <1>11 DEF validateOperatingHours

\* Where bookings are proper, the grid takes a slot for taken exactly if
\* the conflict query finds one.
LEMMA TakenIsConflict ==
    ASSUME Scheduled, bookings \in [RowIds -> CourtBooking \cup {NoRow}], AllProper,
           NEW d \in DOMAIN hours, OpenOn(d), NEW s \in HourSlots(d),
           NEW r, r.start = s.start, r.end = s.end
    PROVE  SlotStatus(s) = "AVAILABLE" <=> findConflicting(r) = {}
  <1>1. /\ s.start \in Nat /\ s.end \in Nat /\ s.start < s.end
        /\ d * Day <= s.start /\ s.end <= (d + 1) * Day /\ dayOf(s.start) = d
    BY SlotInDay
  <1>2. SlotStatus(s) = "AVAILABLE" <=> Takers(s) = {}
    BY DEF SlotStatus
  <1>3. WholeDay(dayOf(s.start)).start = d * Day /\ WholeDay(dayOf(s.start)).end = (d + 1) * Day
        /\ d * Day \in Int /\ (d + 1) * Day \in Int
    BY <1>1, PricingBounds, SlotInDay DEF WholeDay
  <1>4. ASSUME NEW b \in Takers(s) PROVE b \in findConflicting(r)
    <2>1. b \in Booked /\ Blocking(b) /\ GridSlotTaken(s, bookings[b])
      BY DEF Takers, findConflicting
    <2>2. bookings[b].start \in Nat /\ bookings[b].end \in Nat
      BY <2>1, RowsShape DEF CourtBooking
    <2>3. MatchesConflictQuery(r, bookings[b])
      BY <2>1, <2>2, <1>1 DEF GridSlotTaken, MatchesConflictQuery
    <2> QED
      BY <2>1, <2>3 DEF findConflicting
  <1>5. ASSUME NEW b \in findConflicting(r) PROVE b \in Takers(s)
    <2>1. b \in Booked /\ Blocking(b) /\ MatchesConflictQuery(r, bookings[b])
      BY DEF findConflicting
    <2>2. /\ bookings[b].start \in Nat /\ bookings[b].end \in Nat
          /\ bookings[b].start < bookings[b].end
      BY <2>1, RowsShape DEF CourtBooking, AllProper, Proper
    <2>3. GridSlotTaken(s, bookings[b])
      BY <2>1, <2>2, <1>1 DEF GridSlotTaken, MatchesConflictQuery
    <2>4. MatchesConflictQuery(WholeDay(dayOf(s.start)), bookings[b])
      <3>1. \A w : w.start = d * Day /\ w.end = (d + 1) * Day
                     => MatchesConflictQuery(w, bookings[b])
        BY <2>2, <2>3, <1>1, <1>3 DEF GridSlotTaken, MatchesConflictQuery
      <3> QED
        BY <3>1, <1>3
    <2> QED
      BY <2>1, <2>3, <2>4 DEF Takers, findConflicting
  <1> QED
    BY <1>2, <1>4, <1>5

\* The heart of GridTellsTheTruth: what an up to date grid says of a slot is
\* what becomes of a request for it.
LEMMA GridIsRight ==
    ASSUME Scheduled, bookings \in [RowIds -> CourtBooking \cup {NoRow}], GridIsCurrent,
           AllProper, NEW r, NEW g \in grid, g.start = r.start, g.end = r.end,
           OpensOnTheHour(dayOf(g.start))
    PROVE  /\ validateOperatingHours(r)
           /\ g.status = "AVAILABLE" <=> findConflicting(r) = {}
  <1>1. PICK d \in DOMAIN hours : grid = GetAvailability(d)
    BY DEF GridIsCurrent
  <1>2. OpenOn(d)
    BY <1>1, GridShape
  <1>3. PICK s \in HourSlots(d) :
          g.start = s.start /\ g.end = s.end /\ g.status = SlotStatus(s)
    BY <1>1, GridShape
  <1>4. dayOf(g.start) = d
    BY <1>2, <1>3, SlotInDay
  <1>5. validateOperatingHours(s)
    BY <1>2, <1>4, SlotIsWithinHours
  <1>6. validateOperatingHours(r)
    BY <1>3, <1>5, SameTimesSameHours
  <1>7. SlotStatus(s) = "AVAILABLE" <=> findConflicting(r) = {}
    BY <1>2, <1>3, TakenIsConflict
  <1> QED
    BY <1>3, <1>6, <1>7

\* A slot of the grid that lies within a range nobody blocks is AVAILABLE.
LEMMA FreeSlots ==
    ASSUME Scheduled, bookings \in [RowIds -> CourtBooking \cup {NoRow}],
           NEW d \in DOMAIN hours, OpenOn(d), NEW s \in HourSlots(d),
           NEW r \in Asked, s.start >= r.start, s.end <= r.end, findConflicting(r) = {}
    PROVE  SlotStatus(s) = "AVAILABLE"
  <1>1. s.start \in Nat /\ s.end \in Nat
    BY SlotInDay
  <1>2. r.start \in Nat /\ r.end \in Nat
    BY DEF Asked
  <1>3. ASSUME NEW b \in Takers(s) PROVE b \in findConflicting(r)
    <2>1. b \in Booked /\ Blocking(b) /\ GridSlotTaken(s, bookings[b])
      BY DEF Takers, findConflicting
    <2>2. bookings[b].start \in Nat /\ bookings[b].end \in Nat
      BY <2>1, RowsShape DEF CourtBooking
    <2>3. MatchesConflictQuery(r, bookings[b])
      BY <2>1, <2>2, <1>1, <1>2 DEF GridSlotTaken, MatchesConflictQuery
    <2> QED
      BY <2>1, <2>3 DEF findConflicting
  <1> QED
    BY <1>3 DEF SlotStatus

LEMMA RuleTimes ==
    ASSUME Scheduled, NEW i \in 1..Len(rules)
    PROVE  rules[i].start \in Nat /\ rules[i].end \in Nat
  <1>1. rules[i] \in Rule
    BY ScheduleShape
  <1>2. Day \in Nat
    BY PricingBounds
  <1> QED
    BY <1>1, <1>2 DEF Rule, Clock

\* Of clear rules, no two hold at the same instant of the day.
LEMMA OneClearRule ==
    ASSUME Scheduled, NEW type, ClearRules(type),
           NEW i \in 1..Len(rules), NEW j \in 1..Len(rules),
           rules[i].dayType = type, rules[j].dayType = type,
           NEW a \in Int, NEW b \in Int, a < b,
           rules[i].start <= a, rules[i].end >= b, rules[j].start <= a, rules[j].end >= b
    PROVE  i = j
  <1>1. /\ rules[i].start \in Int /\ rules[i].end \in Int
        /\ rules[j].start \in Int /\ rules[j].end \in Int
    BY RuleTimes
  <1>2. Overlaps(rules[i], rules[j])
    BY <1>1 DEF Overlaps
  <1> QED
    BY <1>2 DEF ClearRules

\* The rate a range is charged with, and the price the grid shows for a slot
\* in it, under the conditions of ShownPricesAddUp.
LEMMA SameRate ==
    ASSUME Scheduled, NEW r \in Asked, Proper(r),
           \/ rules = <<>>
           \/ /\ ClearRules(dayType(dayOf(r.start)))
              /\ OneRuleHolds(r)
              /\ timeOfDay(r.end) # 0,
           NEW d \in DOMAIN hours, OpenOn(d), NEW s \in HourSlots(d),
           s.start >= r.start, s.end <= r.end
    PROVE  ShownPrice(s) = Hour * Rate(r)
  <1>1. CASE rules = <<>>
    <2>1. ShowingRule(s) = 0
      <3>1. Len(rules) = 0
        BY <1>1
      <3> QED
        BY <3>1, ShowingRuleIs
    <2> QED
      BY <1>1, <2>1 DEF ShownPrice, Rate
  <1>2. CASE /\ rules # <<>>
             /\ ClearRules(dayType(dayOf(r.start)))
             /\ OneRuleHolds(r)
             /\ timeOfDay(r.end) # 0
    <2> DEFINE e == dayOf(r.start)
    <2>1. PICK i \in 1..Len(rules) :
             /\ rules[i].dayType = dayType(e)
             /\ rules[i].start <= timeOfDay(r.start)
             /\ rules[i].end >= r.end - e * Day
      BY <1>2 DEF OneRuleHolds
    <2>2. /\ rules[i].start \in Nat /\ rules[i].end \in 0..Day /\ rules[i].rate \in Nat
          /\ rules[i].start \in Clock /\ rules[i].rate > 0
      BY <1>2, <2>1, ScheduleShape DEF Rule, Clock, ClearRules
    <2>3. /\ r.start \in Nat /\ r.end \in Nat /\ r.start < r.end
          /\ Day \in Nat /\ Day > 0
      BY PricingBounds DEF Asked, Proper
    <2>4. /\ e \in Nat /\ timeOfDay(r.start) \in Nat
          /\ r.start = e * Day + timeOfDay(r.start)
      BY <2>3, TimeParts
    <2> HIDE DEF e
    <2>5. e * Day \in Nat /\ (e + 1) * Day = e * Day + Day /\ (e + 1) * Day \in Nat
      BY <2>3, <2>4
    <2>6. r.end <= (e + 1) * Day
      BY <2>1, <2>2, <2>3, <2>5
    <2>7. r.end # (e + 1) * Day
      <3>1. timeOfDay((e + 1) * Day + 0) = 0
        <4>1. e + 1 \in Nat /\ 0 \in Nat /\ 0 < Day
          BY <2>3, <2>4
        <4> QED
          BY <4>1, TimeIs
      <3>2. (e + 1) * Day + 0 = (e + 1) * Day
        BY <2>5
      <3> QED
        BY <1>2, <3>1, <3>2
    <2>8. timeOfDay(r.end) = r.end - e * Day
      <3>1. e * Day <= r.end /\ r.end < (e + 1) * Day
        BY <2>3, <2>4, <2>5, <2>6, <2>7
      <3> QED
        BY <3>1, <2>3, <2>4, WithinDay
    <2>9. /\ s.start \in Nat /\ s.end \in Nat /\ s.start < s.end
      BY SlotInDay
    <2>10. dayOf(s.start) = e /\ timeOfDay(s.start) = s.start - e * Day
      <3>1. e * Day <= s.start /\ s.start < (e + 1) * Day
        BY <2>3, <2>4, <2>5, <2>6, <2>9
      <3> QED
        BY <3>1, <2>4, <2>9, WithinDay
    <2>11. Charging(rules[i], r)
      <3>1. rules[i].start <= clockTime(r.start)
        BY <2>1, <2>2, <2>3, ClockIs
      <3>2. rules[i].end >= clockTime(r.end)
        <4>1. clockTime(r.end) \in Nat /\ clockTime(r.end) <= timeOfDay(r.end)
              /\ timeOfDay(r.end) \in Nat
          BY <2>3, ClockIs, TimeParts
        <4>2. timeOfDay(r.end) <= rules[i].end
          BY <2>1, <2>8
        <4> QED
          BY <2>2, <4>1, <4>2
      <3> QED
        BY <2>1, <3>1, <3>2 DEF Charging, e
    <2>12. Showing(rules[i], s)
      <3> DEFINE m == e * Day
      <3>1. /\ m \in Nat /\ r.start = m + timeOfDay(r.start) /\ timeOfDay(s.start) = s.start - m
            /\ rules[i].end >= r.end - m
        BY <2>1, <2>4, <2>5, <2>10
      <3> HIDE DEF m
      <3>2. r.start <= s.start /\ s.start < r.end
        BY <2>3, <2>9
      <3>3. rules[i].start <= timeOfDay(r.start) /\ rules[i].end \in Nat
        BY <2>1, <2>2, RuleTimes
      <3>4. \A rs, re, ss, tod, lo, hi \in Nat :
               /\ rs <= ss /\ ss < re /\ rs = m + tod /\ lo <= tod /\ hi >= re - m
               => lo <= ss - m /\ hi > ss - m
        BY <3>1
      <3>5. rules[i].start <= s.start - m /\ rules[i].end > s.start - m
        BY <2>2, <2>3, <2>4, <2>9, <3>1, <3>2, <3>3, <3>4
      <3> QED
        BY <2>1, <2>10, <3>1, <3>5 DEF Showing
    <2>13. /\ clockTime(r.start) \in Nat /\ clockTime(r.end) \in Nat
           /\ clockTime(r.start) <= timeOfDay(s.start)
           /\ clockTime(r.end) > timeOfDay(s.start)
      <3> DEFINE m == e * Day
      <3>1. /\ m \in Nat /\ r.start = m + timeOfDay(r.start) /\ timeOfDay(s.start) = s.start - m
            /\ timeOfDay(r.end) = r.end - m
        BY <2>4, <2>5, <2>8, <2>10
      <3> HIDE DEF m
      <3>2. /\ clockTime(r.start) \in Nat /\ clockTime(r.end) \in Nat
            /\ clockTime(r.start) <= timeOfDay(r.start)
            /\ timeOfDay(r.end) < clockTime(r.end) + Minute
        BY <2>3, ClockIs
      <3>3. s.end = s.start + Hour /\ Minute \in Nat /\ Hour \in Nat /\ Minute <= Hour
        BY MinuteInHour, SlotInDay
      <3>4. timeOfDay(r.start) \in Nat /\ timeOfDay(r.end) \in Nat
        BY <2>3, TimeParts
      <3>5. timeOfDay(r.start) <= timeOfDay(s.start) /\ timeOfDay(s.start) \in Int
        BY <2>3, <2>9, <3>1, <3>4
      <3>6. timeOfDay(s.start) + Hour <= timeOfDay(r.end)
        BY <2>3, <2>9, <3>1, <3>3, <3>4
      <3>7. clockTime(r.start) <= timeOfDay(s.start)
        BY <3>2, <3>4, <3>5
      <3>8. clockTime(r.end) > timeOfDay(s.start)
        BY <3>2, <3>3, <3>4, <3>5, <3>6
      <3> QED
        BY <3>2, <3>7, <3>8
    <2>14. ChargingRule(r) = i
      <3> DEFINE j == ChargingRule(r)
      <3>1. j \in 1..Len(rules) /\ Charging(rules[j], r)
        BY <2>11, ChargingRuleIs, ScheduleShape
      <3> HIDE DEF j
      <3> DEFINE a == timeOfDay(s.start)
      <3>2. a \in Int /\ a + 1 \in Int /\ a < a + 1
        BY <2>5, <2>9, <2>10
      <3>3. /\ rules[i].start <= a /\ rules[i].end > a /\ rules[i].end \in Int
            /\ rules[j].start \in Int /\ rules[j].end \in Int
        BY <2>12, <3>1, RuleTimes DEF Showing
      <3>4. rules[j].start <= a /\ rules[j].end > a
        <4>1. /\ rules[j].start <= clockTime(r.start) /\ rules[j].end >= clockTime(r.end)
              /\ clockTime(r.start) <= a /\ clockTime(r.end) > a
          BY <2>13, <3>1 DEF Charging
        <4> QED
          BY <2>13, <3>2, <3>3, <4>1
      <3> HIDE DEF a
      <3>5. rules[j].end >= a + 1 /\ rules[i].end >= a + 1
        BY <3>2, <3>3, <3>4
      <3>6. rules[j].dayType = dayType(e)
        BY <3>1 DEF Charging, e
      <3>7. j = i
        BY <1>2, <2>1, <3>1, <3>2, <3>3, <3>4, <3>5, <3>6, OneClearRule DEF e
      <3> QED
        BY <3>7 DEF j
    <2>15. ShowingRule(s) = i
      <3> DEFINE j == ShowingRule(s)
      <3>1. j \in 1..Len(rules) /\ Showing(rules[j], s)
        BY <2>12, ShowingRuleIs, ScheduleShape
      <3> HIDE DEF j
      <3> DEFINE a == timeOfDay(s.start)
      <3>2. a \in Int /\ a + 1 \in Int /\ a < a + 1
        BY <2>5, <2>9, <2>10
      <3>3. /\ rules[j].start <= a /\ rules[j].end > a /\ rules[i].start <= a /\ rules[i].end > a
            /\ rules[j].dayType = dayType(e)
        BY <2>10, <2>12, <3>1 DEF Showing
      <3>4. rules[j].end \in Int /\ rules[i].end \in Int
        BY <3>1, RuleTimes
      <3> HIDE DEF a
      <3>5. rules[j].end >= a + 1 /\ rules[i].end >= a + 1
        BY <3>2, <3>3, <3>4
      <3>6. j = i
        BY <1>2, <2>1, <3>1, <3>2, <3>3, <3>5, OneClearRule DEF e
      <3> QED
        BY <3>6 DEF j
    <2>16. Rate(r) = rules[i].rate /\ i > 0
      BY <1>2, <2>14, ScheduleShape DEF Rate
    <2>17. ShownPrice(s) = Hour * rules[i].rate
      BY <2>2, <2>15, <2>16 DEF ShownPrice, Or
    <2> QED
      BY <2>16, <2>17
  <1> QED
    BY <1>1, <1>2

LEMMA ScheduleTyped == ScheduleInv => ScheduleTypeOK
  <1> SUFFICES ASSUME ScheduleInv PROVE ScheduleTypeOK
    OBVIOUS
  <1>1. grid \in SUBSET GridSlot
    BY GridTyped DEF ScheduleInv
  <1>2. earned \in Int
    <2>1. IsFiniteSet(Standing) /\ \A b \in Standing : Charged[b] \in Int
      BY RowsShape, FS_Subset DEF ScheduleInv
    <2> QED
      BY <2>1, SumOfType DEF ScheduleInv, EarnedIsCharged
  <1> QED
    BY <1>1, <1>2 DEF ScheduleInv, ScheduleTypeOK

LEMMA PricesAddUp == ScheduleInv => ShownPricesAddUp
  <1> SUFFICES ASSUME ScheduleInv, Comparable,
                      Cardinality(Within(answer)) * Hour = answer.end - answer.start
               PROVE  answer.price = ShownTogether(answer)
    BY DEF ShownPricesAddUp, Comparable
  <1> DEFINE W == Within(answer)
             f == [g \in W |-> g.price]
             c == Hour * Rate(answer)
  <1>1. /\ Hour \in Nat /\ Rate(answer) \in Nat /\ c \in Int
        /\ answer.start \in Nat /\ answer.end \in Nat
    BY PricingBounds, RateType DEF ScheduleInv, Answer
  <1>2. IsFiniteSet(W) /\ Cardinality(W) \in Nat
    <2>1. IsFiniteSet(answer.shown) /\ W \in SUBSET answer.shown
      BY DEF Within, ScheduleInv, AnswerIsPriced
    <2> HIDE DEF W
    <2> QED
      BY <2>1, FS_Subset, FS_CardinalityType
  <1>3. answer.price = Rate(answer) * (answer.end - answer.start)
    BY DEF ScheduleInv, AnswerIsPriced, calculatePrice
  <1>4. \A g \in W : f[g] = c /\ f[g] = g.price
    BY DEF ScheduleInv, AnswerIsPriced
  <1>5. ShownTogether(answer) = SumOf(f, W)
    <2> HIDE DEF f, c
    <2> QED
      BY <1>2, <1>4, SlotsAreSummed
  <1>6. SumOf(f, W) = Cardinality(W) * c
    <2> HIDE DEF f, c, W
    <2> QED
      BY <1>1, <1>2, <1>4, SumOfConstant
  <1>7. \A n, h, k \in Nat : n * (h * k) = k * (n * h)
    OBVIOUS
  <1>8. Cardinality(W) * c = Rate(answer) * (Cardinality(W) * Hour)
    BY <1>1, <1>2, <1>7
  <1> QED
    BY <1>3, <1>5, <1>6, <1>8

LEMMA ClosedIsEmpty == ScheduleInv => NobodyPlaysWhenClosed
  <1> SUFFICES ASSUME ScheduleInv, NEW b \in Booked, Proper(bookings[b]),
                      bookings[b].end < (dayOf(bookings[b].start) + 1) * Day,
                      \E d \in DOMAIN hours : hours[d] # NoRow,
                      NEW t \in bookings[b].start..bookings[b].end
               PROVE  /\ OpenOn(dayOf(bookings[b].start))
                      /\ hours[dayOf(bookings[b].start)].open <= timeOfDay(t)
                      /\ timeOfDay(t) < hours[dayOf(bookings[b].start)].close + Minute
    <2>1. ASSUME ScheduleInv, NEW b \in Booked, Proper(bookings[b])
          PROVE  bookings[b].start \in bookings[b].start..bookings[b].end
      BY <2>1, RowsShape DEF ScheduleInv, CourtBooking, Proper
    <2> QED
      BY <2>1 DEF NobodyPlaysWhenClosed
  <1> DEFINE s == bookings[b]
             d == dayOf(s.start)
  <1>1. s.start \in Nat /\ s.end \in Nat /\ s.start < s.end /\ t \in Nat
        /\ s.start <= t /\ t <= s.end
    BY RowsShape DEF ScheduleInv, CourtBooking, Proper
  <1>2. validateOperatingHours(s) /\ d \in DOMAIN hours
    BY DEF ScheduleInv, HeldWhenOpen
  <1>3. /\ OpenOn(d)
        /\ clockTime(s.start) >= hours[d].open /\ clockTime(s.end) <= hours[d].close
    BY <1>2 DEF validateOperatingHours
  <1>4. hours[d].open \in Nat /\ hours[d].close \in Nat
    <2>1. hours[d] \in OpeningHours /\ Day \in Nat
      BY <1>2, <1>3, ScheduleShape, PricingBounds DEF OpenOn, ScheduleInv
    <2> QED
      BY <2>1 DEF OpeningHours, Clock
  <1>5. d \in Nat /\ d * Day \in Nat /\ d * Day <= s.start /\ s.end < (d + 1) * Day
        /\ (d + 1) * Day \in Nat
    <2>1. Day \in Nat
      BY PricingBounds
    <2>2. d \in Nat /\ timeOfDay(s.start) \in Nat /\ s.start = d * Day + timeOfDay(s.start)
      BY <1>1, TimeParts
    <2> HIDE DEF d
    <2> QED
      BY <2>1, <2>2 DEF d
  <1> HIDE DEF d, s
  <1>6. /\ timeOfDay(s.start) = s.start - d * Day
        /\ timeOfDay(t) = t - d * Day
        /\ timeOfDay(s.end) = s.end - d * Day
    <2>1. /\ d * Day <= t /\ d * Day <= s.end /\ s.start < (d + 1) * Day /\ t < (d + 1) * Day
      BY <1>1, <1>5
    <2> QED
      BY <1>1, <1>5, <2>1, WithinDay
  <1>7. /\ clockTime(s.start) \in Nat /\ clockTime(s.start) <= timeOfDay(s.start)
        /\ clockTime(s.end) \in Nat /\ timeOfDay(s.end) < clockTime(s.end) + Minute
        /\ Minute \in Nat
    BY <1>1, ClockIs
  <1>8. hours[d].open <= timeOfDay(t) /\ timeOfDay(t) < hours[d].close + Minute
    BY <1>1, <1>3, <1>4, <1>5, <1>6, <1>7
  <1> QED
    BY <1>3, <1>8 DEF d, s

LEMMA Revenue == ScheduleInv => RevenueIsEarned
  <1> DEFINE N == Cardinality(DOMAIN hours) * Day
  <1> SUFFICES ASSUME ScheduleInv, NEW t \in Instants, \A b \in Booked : bookings[b].start # t
               PROVE  TotalRevenue(0, t) + TotalRevenue(t, N) = earned
    BY DEF RevenueIsEarned
  <1> DEFINE Before == {b \in Booked : /\ bookings[b].status \in {"CONFIRMED", "COMPLETED"}
                                       /\ 0 <= bookings[b].start /\ bookings[b].start <= t}
             After == {b \in Booked : /\ bookings[b].status \in {"CONFIRMED", "COMPLETED"}
                                      /\ t <= bookings[b].start /\ bookings[b].start <= N}
  <1>1. N \in Nat /\ t \in Nat
    <2>1. N \in Nat
      BY ScheduleShape, PricingBounds DEF ScheduleInv
    <2> QED
      BY <2>1 DEF Instants
  <1>2. \A b \in Booked : bookings[b].start \in Nat /\ bookings[b].start <= N
    <2> SUFFICES ASSUME NEW b \in Booked
                 PROVE  bookings[b].start \in Nat /\ bookings[b].start <= N
      OBVIOUS
    <2> DEFINE d == dayOf(bookings[b].start)
               n == Cardinality(DOMAIN hours)
    <2>1. bookings[b].start \in Nat
      BY RowsShape DEF ScheduleInv, CourtBooking
    <2>2. d \in Nat /\ timeOfDay(bookings[b].start) < Day /\ timeOfDay(bookings[b].start) \in Nat
          /\ bookings[b].start = d * Day + timeOfDay(bookings[b].start)
      BY <2>1, TimeParts
    <2>3. n \in Nat /\ d + 1 <= n
      BY ScheduleShape DEF ScheduleInv, HeldWhenOpen
    <2>4. Day \in Nat
      BY PricingBounds
    <2> HIDE DEF d, n
    <2>5. (d + 1) * Day <= n * Day
      BY <2>2, <2>3, <2>4
    <2>6. bookings[b].start <= n * Day
      BY <2>1, <2>2, <2>3, <2>4, <2>5
    <2> QED
      BY <2>1, <2>6 DEF n
  <1> HIDE DEF N
  <1>3. Before \cup After = Standing /\ Before \cap After = {}
    BY <1>1, <1>2 DEF Standing
  <1>4. IsFiniteSet(Booked) /\ Before \in SUBSET Booked /\ After \in SUBSET Booked
        /\ \A b \in Booked : Charged[b] = bookings[b].price /\ Charged[b] \in Int
    BY RowsShape DEF ScheduleInv
  <1>5. TotalRevenue(0, t) = PricesOf(Before) /\ TotalRevenue(t, N) = PricesOf(After)
    BY DEF TotalRevenue
  <1> HIDE DEF Before, After
  <1>6. IsFiniteSet(Before) /\ IsFiniteSet(After)
    BY <1>4, FS_Subset
  <1>7. PricesOf(Before) = SumOf(Charged, Before) /\ PricesOf(After) = SumOf(Charged, After)
    BY <1>4, <1>6, PricesAreSummed
  <1>8. SumOf(Charged, Before \cup After) = SumOf(Charged, Before) + SumOf(Charged, After)
    BY <1>3, <1>4, SumOfUnion
  <1> QED
    BY <1>3, <1>5, <1>7, <1>8 DEF ScheduleInv, EarnedIsCharged

LEMMA ScheduleInitially == ScheduleInit => ScheduleInv
  <1> SUFFICES ASSUME ScheduleInit PROVE ScheduleInv
    OBVIOUS
  <1>1. Scheduled /\ bookings \in [RowIds -> CourtBooking \cup {NoRow}]
    BY DEF ScheduleInit
  <1>2. Booked = {} /\ Standing = {}
    BY DEF ScheduleInit, Booked, Standing
  <1>3. answer = NoAnswer /\ NoAnswer \in Answer
    BY DEF ScheduleInit, NoAnswer, Answer, Verdicts
  <1>4. GridIsCurrent /\ HeldWhenOpen
    BY <1>2 DEF ScheduleInit, GridIsCurrent, HeldWhenOpen
  <1>5. EarnedIsCharged
    BY <1>2, SumOfEmpty DEF ScheduleInit, EarnedIsCharged
  <1>6. GridTellsTheTruth /\ AnswerIsPriced
    BY <1>3, FS_EmptySet DEF NoAnswer, GridTellsTheTruth, AnswerIsPriced, Comparable
  <1> QED
    BY <1>1, <1>3, <1>4, <1>5, <1>6 DEF ScheduleInv

\* As long as nobody books, the grid of a day is what it was.
LEMMA GridStays ==
    ASSUME UNCHANGED <<hours, rules, bookings>>
    PROVE  \A d : GetAvailability(d)' = GetAvailability(d)
  BY DEF GetAvailability, OpenOn, SlotStatus, Takers, findConflicting, Blocking, Booked, ShownPrice,
         ShowingRule, SelectInSeq, HourSlots, WholeDay, dayOf, timeOfDay, dayType, GridSlotTaken,
         MatchesConflictQuery, Or

\* An answer that was taken off the screen says nothing.
LEMMA NothingIsSaid ==
    ASSUME answer' = NoAnswer
    PROVE  answer' \in Answer' /\ GridTellsTheTruth' /\ AnswerIsPriced'
  <1>1. NoAnswer.shown = {} /\ NoAnswer.verdict = "NONE"
    BY DEF NoAnswer
  <1>2. GridTellsTheTruth'
    BY <1>1 DEF GridTellsTheTruth
  <1>3. AnswerIsPriced'
    BY <1>1, FS_EmptySet DEF AnswerIsPriced, Comparable
  <1> QED
    BY <1>2, <1>3 DEF NoAnswer, Answer, Verdicts

LEMMA BookingsStay ==
    ASSUME UNCHANGED <<hours, rules, bookings>>
    PROVE  /\ Scheduled' = Scheduled /\ Booked' = Booked /\ Standing' = Standing
           /\ Charged' = Charged /\ HeldWhenOpen' = HeldWhenOpen
           /\ AllProper' = AllProper /\ Instants' = Instants
  BY DEF Scheduled, Booked, Standing, Charged, HeldWhenOpen, validateOperatingHours, OpenOn,
         AllProper, Blocking, Instants

LEMMA ShowGridKeeps ==
    ASSUME ScheduleInv, NEW d \in DOMAIN hours, ShowGrid(d)
    PROVE  ScheduleInv'
  <1>1. /\ grid' = GetAvailability(d) /\ answer' = NoAnswer
        /\ UNCHANGED <<hours, rules, bookings, earned>>
    BY DEF ShowGrid
  <1>2. GridIsCurrent'
    BY <1>1, GridStays DEF GridIsCurrent
  <1>3. Scheduled' /\ HeldWhenOpen' /\ EarnedIsCharged'
    BY <1>1, BookingsStay DEF ScheduleInv, EarnedIsCharged
  <1>4. (bookings \in [RowIds -> CourtBooking \cup {NoRow}])'
    BY <1>1 DEF ScheduleInv
  <1> QED
    BY <1>1, <1>2, <1>3, <1>4, NothingIsSaid DEF ScheduleInv

LEMMA RefuseKeeps ==
    ASSUME ScheduleInv, NEW s \in Ranges,
           OutsideOperatingHours(s) \/ SlotConflict(s)
    PROVE  ScheduleInv'
  <1>1. PICK verdict \in {OutsideOperatingHoursError, SlotConflictError} : Refuse(s, verdict)
    BY DEF OutsideOperatingHours, SlotConflict
  <1>2. /\ Tell(s, verdict, 0) /\ UNCHANGED <<hours, rules, bookings, grid, earned>>
        /\ ~(validateOperatingHours(s) /\ findConflicting(s) = {})
    BY <1>1 DEF Refuse, OutsideOperatingHours, SlotConflict
  <1>3. Scheduled' /\ HeldWhenOpen' /\ EarnedIsCharged'
    BY <1>2, BookingsStay DEF ScheduleInv, EarnedIsCharged
  <1>4. (bookings \in [RowIds -> CourtBooking \cup {NoRow}])'
    BY <1>2 DEF ScheduleInv
  <1>5. GridIsCurrent'
    BY <1>2, GridStays DEF ScheduleInv, GridIsCurrent
  <1>6. CASE answer' = NoAnswer
    BY <1>3, <1>4, <1>5, <1>6, NothingIsSaid DEF ScheduleInv
  <1>7. CASE answer' = [start |-> s.start, end |-> s.end, verdict |-> verdict,
                        price |-> 0, shown |-> grid]
    <2>1. answer' \in Answer'
      <3>1. s.start \in Nat /\ s.end \in Nat
        BY RangesAssumption DEF Asked
      <3>2. grid \in SUBSET GridSlot /\ GridSlot' = GridSlot
        BY <1>2, GridTyped, BookingsStay DEF ScheduleInv, GridSlot
      <3>3. verdict \in Verdicts
        BY DEF Verdicts
      <3> QED
        BY <1>7, <3>1, <3>2, <3>3 DEF Answer
    <2>2. answer'.verdict # "HOLD"
      BY <1>7 DEF OutsideOperatingHoursError, SlotConflictError
    <2>3. AnswerIsPriced'
      <3>1. IsFiniteSet(grid)
        BY GridIsFinite DEF ScheduleInv
      <3> QED
        BY <1>7, <2>2, <3>1 DEF AnswerIsPriced, Comparable
    <2>4. GridTellsTheTruth'
      <3> SUFFICES ASSUME AllProper, NEW g \in grid, g.start = s.start, g.end = s.end,
                          OpensOnTheHour(dayOf(g.start))
                   PROVE  g.status # "AVAILABLE"
        BY <1>2, <1>7, <2>2, BookingsStay DEF GridTellsTheTruth, OpensOnTheHour
      <3> QED
        BY <1>2, GridIsRight DEF ScheduleInv
    <2> QED
      BY <1>3, <1>4, <1>5, <2>1, <2>3, <2>4 DEF ScheduleInv
  <1> QED
    BY <1>2, <1>6, <1>7 DEF Tell

LEMMA HoldKeeps ==
    ASSUME ScheduleInv, NEW s \in Ranges, Hold(s)
    PROVE  ScheduleInv'
  <1> DEFINE row == [start |-> s.start, end |-> s.end, status |-> "HOLD",
                     price |-> calculatePrice(s)]
  <1>1. PICK b \in RowIds \ Booked : bookings' = [bookings EXCEPT ![b] = row]
    BY DEF Hold
  <1>2. /\ validateOperatingHours(s) /\ findConflicting(s) = {}
        /\ Tell(s, "HOLD", calculatePrice(s)) /\ grid' = {} /\ UNCHANGED <<hours, rules, earned>>
    BY DEF Hold
  <1>3. s \in Asked /\ s.start \in Nat /\ s.end \in Nat /\ dayOf(s.start) \in DOMAIN hours
    BY ScheduleShape DEF ScheduleInv, Asked
  <1>4. calculatePrice(s) \in Int
    BY <1>3, RateType DEF calculatePrice, ScheduleInv
  <1>5. row \in CourtBooking
    BY <1>3, <1>4 DEF CourtBooking, Status
  <1>6. bookings' \in [RowIds -> CourtBooking \cup {NoRow}]
    <2> HIDE DEF row
    <2> QED
      BY <1>1, <1>5 DEF ScheduleInv
  <1>7. /\ bookings'[b] = row /\ row # NoRow
        /\ \A c \in Booked : c # b /\ bookings'[c] = bookings[c]
        /\ \A c \in RowIds : c # b => bookings'[c] = bookings[c]
    <2> HIDE DEF row
    <2> QED
      BY <1>1, <1>5, NoBookingRowAssumption DEF ScheduleInv, Booked
  <1>8. Booked' = Booked \cup {b}
    <2> HIDE DEF row
    <2> QED
      BY <1>1, <1>7 DEF Booked
  <1>9. Standing' = Standing
    BY <1>7, <1>8 DEF Standing
  <1>10. EarnedIsCharged'
    <2>1. Standing \in SUBSET RowIds /\ IsFiniteSet(Standing)
      BY RowsShape, FS_Subset DEF ScheduleInv
    <2>2. \A c \in Standing : Charged[c] = Charged'[c]
      BY <1>7, <2>1 DEF Charged, Standing
    <2>3. SumOf(Charged, Standing) = SumOf(Charged', Standing)
      BY <2>1, <2>2, SumOfSame
    <2> QED
      BY <1>2, <1>9, <2>3 DEF ScheduleInv, EarnedIsCharged
  <1>11. Scheduled' /\ GridIsCurrent'
    BY <1>2 DEF ScheduleInv, Scheduled, GridIsCurrent
  <1>12. HeldWhenOpen'
    <2>1. \A c \in Booked : /\ validateOperatingHours(bookings[c])
                            /\ dayOf(bookings[c].start) \in DOMAIN hours
      BY DEF ScheduleInv, HeldWhenOpen
    <2>2. validateOperatingHours(row) /\ dayOf(row.start) \in DOMAIN hours
      BY <1>2, <1>3, SameTimesSameHours
    <2>3. \A r : (validateOperatingHours(r) /\ dayOf(r.start) \in DOMAIN hours)
                   => (validateOperatingHours(r) /\ dayOf(r.start) \in DOMAIN hours)'
      BY <1>2 DEF validateOperatingHours, OpenOn, dayOf, clockTime, timeOfDay
    <2> HIDE DEF row
    <2> QED
      BY <1>7, <1>8, <2>1, <2>2, <2>3 DEF HeldWhenOpen, validateOperatingHours, OpenOn, dayOf,
                                          clockTime, timeOfDay
  <1>13. CASE answer' = NoAnswer
    BY <1>6, <1>10, <1>11, <1>12, <1>13, NothingIsSaid DEF ScheduleInv
  <1>14. CASE /\ grid # {}
              /\ answer' = [start |-> s.start, end |-> s.end, verdict |-> "HOLD",
                            price |-> calculatePrice(s), shown |-> grid]
    <2>1. answer' \in Answer'
      <3>1. grid \in SUBSET GridSlot /\ GridSlot' = GridSlot
        BY <1>2, GridTyped DEF ScheduleInv, GridSlot, Instants
      <3> QED
        BY <1>3, <1>4, <1>14, <3>1 DEF Answer, Verdicts
    <2>2. AllProper' => AllProper
      BY <1>7, <1>8 DEF AllProper, Blocking
    <2>3. GridTellsTheTruth'
      <3> SUFFICES ASSUME AllProper, NEW g \in grid, g.start = s.start, g.end = s.end,
                          OpensOnTheHour(dayOf(g.start))
                   PROVE  g.status = "AVAILABLE"
        BY <1>2, <1>14, <2>2 DEF GridTellsTheTruth, OpensOnTheHour
      <3> QED
        BY <1>2, GridIsRight DEF ScheduleInv
    <2>4. IsFiniteSet(answer'.shown)
      BY <1>14, GridIsFinite DEF ScheduleInv
    <2>5. Rate(answer)' = Rate(s)
      BY <1>2, <1>14 DEF Rate, ChargingRule, SelectInSeq, dayType, dayOf, clockTime, timeOfDay, Or
    <2>6. calculatePrice(answer)' = calculatePrice(s)
      BY <2>5, <1>14 DEF calculatePrice
    <2>7. ASSUME Comparable', NEW g \in grid, g.start >= s.start, g.end <= s.end
          PROVE  g.price = Hour * Rate(s)
      <3>1. PICK d \in DOMAIN hours : grid = GetAvailability(d)
        BY <1>14 DEF ScheduleInv, GridIsCurrent
      <3>2. PICK t \in HourSlots(d) :
              /\ OpenOn(d) /\ g.start = t.start /\ g.end = t.end
              /\ g.price = IF SlotStatus(t) = "AVAILABLE" THEN ShownPrice(t) ELSE 0
        BY <3>1, GridShape DEF ScheduleInv
      <3>3. SlotStatus(t) = "AVAILABLE"
        BY <1>2, <1>3, <2>7, <3>2, FreeSlots DEF ScheduleInv
      <3>4. /\ Proper(s)
            /\ \/ rules = <<>>
               \/ /\ ClearRules(dayType(dayOf(s.start)))
                  /\ OneRuleHolds(s)
                  /\ timeOfDay(s.end) # 0
        BY <1>2, <1>14, <2>7 DEF Comparable, Proper, ClearRules, OneRuleHolds
      <3>5. ShownPrice(t) = Hour * Rate(s)
        BY <1>3, <2>7, <3>2, <3>4, SameRate DEF ScheduleInv
      <3> QED
        BY <3>2, <3>3, <3>5
    <2>8. AnswerIsPriced'
      <3>1. answer'.price = calculatePrice(answer)'
        BY <1>14, <2>6
      <3>2. ASSUME Comparable', NEW g \in Within(answer)'
            PROVE  g.price = Hour * Rate(answer)'
        BY <1>14, <2>5, <2>7, <3>2 DEF Within
      <3> QED
        BY <2>4, <3>1, <3>2 DEF AnswerIsPriced
    <2> QED
      BY <1>6, <1>10, <1>11, <1>12, <2>1, <2>3, <2>8 DEF ScheduleInv
  <1> QED
    BY <1>2, <1>13, <1>14 DEF Tell

LEMMA ProceedKeeps ==
    ASSUME ScheduleInv, NEW b \in RowIds, NEW status \in Status, Proceed(b, status)
    PROVE  ScheduleInv'
  <1>1. /\ b \in Booked /\ isValidTransition(bookings[b].status, status)
        /\ bookings' = [bookings EXCEPT ![b] = [bookings[b] EXCEPT !.status = status]]
        /\ earned' = earned
             + (IF status = "CONFIRMED" THEN bookings[b].price ELSE 0)
             - (IF bookings[b].status = "CONFIRMED" /\ status # "COMPLETED"
                THEN bookings[b].price ELSE 0)
        /\ grid' = {} /\ answer' = NoAnswer /\ UNCHANGED <<hours, rules>>
    BY DEF Proceed
  <1>2. bookings[b] \in CourtBooking /\ bookings \in [RowIds -> CourtBooking \cup {NoRow}]
    BY <1>1, RowsShape DEF ScheduleInv
  <1> DEFINE row == [bookings[b] EXCEPT !.status = status]
  <1>3. /\ row \in CourtBooking /\ row # NoRow /\ row.start = bookings[b].start
        /\ row.end = bookings[b].end /\ row.price = bookings[b].price /\ row.status = status
    BY <1>2, NoBookingRowAssumption DEF CourtBooking
  <1>4. /\ bookings' \in [RowIds -> CourtBooking \cup {NoRow}]
        /\ bookings'[b] = row
        /\ \A c \in RowIds : c # b => bookings'[c] = bookings[c]
    <2> HIDE DEF row
    <2> QED
      BY <1>1, <1>2, <1>3 DEF row
  <1> HIDE DEF row
  <1>5. Booked' = Booked
    BY <1>1, <1>3, <1>4 DEF Booked
  <1>6. /\ IsFiniteSet(Booked) /\ Booked \in SUBSET RowIds /\ Standing \in SUBSET Booked
        /\ \A c \in Booked : Charged[c] = bookings[c].price /\ Charged[c] \in Int
    BY <1>2, RowsShape
  <1>7. \A c \in Booked : Charged'[c] = Charged[c]
    BY <1>3, <1>4, <1>6 DEF Charged
  <1>8. IsFiniteSet(Standing)
    BY <1>6, FS_Subset
  <1>9. SumOf(Charged, Standing) = earned /\ earned \in Int
    BY <1>6, <1>8, SumOfType DEF ScheduleInv, EarnedIsCharged
  <1>10. Standing' = IF status \in {"CONFIRMED", "COMPLETED"}
                     THEN Standing \cup {b} ELSE Standing \ {b}
    BY <1>1, <1>3, <1>4, <1>5, <1>6 DEF Standing
  <1>11. b \in Standing <=> bookings[b].status = "CONFIRMED"
    BY <1>1 DEF Standing, isValidTransition, VALID_TRANSITIONS
  <1>12. \/ /\ status = "CONFIRMED" /\ bookings[b].status # "CONFIRMED"
         \/ /\ status = "COMPLETED" /\ bookings[b].status = "CONFIRMED"
         \/ /\ status \notin {"CONFIRMED", "COMPLETED"}
    BY <1>1 DEF isValidTransition, VALID_TRANSITIONS
  <1>13. SumOf(Charged, Standing') = earned'
    <2>1. CASE status = "CONFIRMED" /\ bookings[b].status # "CONFIRMED"
      <3>1. Standing' = Standing \cup {b} /\ b \notin Standing
        BY <1>10, <1>11, <2>1
      <3>2. SumOf(Charged, Standing \cup {b}) = Charged[b] + SumOf(Charged, Standing)
        BY <1>1, <1>6, <1>8, <3>1, SumOfAdd
      <3> QED
        BY <1>1, <1>6, <1>9, <2>1, <3>1, <3>2
    <2>2. CASE status = "COMPLETED" /\ bookings[b].status = "CONFIRMED"
      <3>1. Standing' = Standing
        BY <1>10, <1>11, <2>2
      <3> QED
        BY <1>1, <1>9, <2>2, <3>1
    <2>3. CASE status \notin {"CONFIRMED", "COMPLETED"}
      <3>1. Standing' = Standing \ {b}
        BY <1>10, <2>3
      <3>2. CASE bookings[b].status = "CONFIRMED"
        <4>1. SumOf(Charged, Standing) = Charged[b] + SumOf(Charged, Standing \ {b})
          BY <1>6, <1>8, <1>11, <3>2, SumOfRemove
        <4>2. SumOf(Charged, Standing \ {b}) \in Int
          <5>1. IsFiniteSet(Standing \ {b})
            BY <1>8, FS_Subset
          <5> QED
            BY <1>6, <5>1, SumOfType
        <4> QED
          BY <1>1, <1>6, <1>9, <2>3, <3>1, <3>2, <4>1, <4>2
      <3>3. CASE bookings[b].status # "CONFIRMED"
        <4>1. Standing' = Standing
          BY <1>11, <3>1, <3>3
        <4> QED
          BY <1>1, <1>9, <2>3, <3>3, <4>1
      <3> QED
        BY <3>2, <3>3
    <2> QED
      BY <1>12, <2>1, <2>2, <2>3
  <1>14. EarnedIsCharged'
    <2>1. Standing' \in SUBSET Booked /\ IsFiniteSet(Standing')
      <3>1. Standing' \in SUBSET Booked
        BY <1>5 DEF Standing
      <3> QED
        BY <3>1, <1>6, FS_Subset
    <2>2. SumOf(Charged, Standing') = SumOf(Charged', Standing')
      BY <1>7, <2>1, SumOfSame
    <2> QED
      BY <1>13, <2>2 DEF EarnedIsCharged
  <1>15. Scheduled' /\ GridIsCurrent'
    BY <1>1 DEF ScheduleInv, Scheduled, GridIsCurrent
  <1>16. HeldWhenOpen'
    <2> SUFFICES ASSUME NEW c \in Booked
                 PROVE  (/\ validateOperatingHours(bookings[c])
                         /\ dayOf(bookings[c].start) \in DOMAIN hours)'
      BY <1>5 DEF HeldWhenOpen
    <2>1. validateOperatingHours(bookings[c]) /\ dayOf(bookings[c].start) \in DOMAIN hours
      BY DEF ScheduleInv, HeldWhenOpen
    <2>2. bookings'[c].start = bookings[c].start /\ bookings'[c].end = bookings[c].end
      BY <1>3, <1>4, <1>6
    <2> QED
      BY <1>1, <2>1, <2>2 DEF validateOperatingHours, OpenOn, dayOf, timeOfDay
  <1> QED
    BY <1>1, <1>4, <1>14, <1>15, <1>16, NothingIsSaid DEF ScheduleInv

LEMMA ScheduleUnchanged == ScheduleInv /\ UNCHANGED scheduleVars => ScheduleInv'
  <1> SUFFICES ASSUME ScheduleInv, UNCHANGED scheduleVars PROVE ScheduleInv'
    OBVIOUS
  <1>1. UNCHANGED <<hours, rules, bookings, grid, answer, earned>>
    BY DEF scheduleVars
  <1>2. Scheduled' /\ HeldWhenOpen' /\ EarnedIsCharged' /\ GridIsCurrent'
    BY <1>1, BookingsStay, GridStays DEF ScheduleInv, EarnedIsCharged, GridIsCurrent
  <1>3. (bookings \in [RowIds -> CourtBooking \cup {NoRow}])' /\ (answer \in Answer)'
    BY <1>1, BookingsStay DEF ScheduleInv, Answer, GridSlot
  <1>4. GridTellsTheTruth'
    BY <1>1, BookingsStay DEF ScheduleInv, GridTellsTheTruth, OpensOnTheHour
  <1>5. AnswerIsPriced'
    BY <1>1 DEF ScheduleInv, AnswerIsPriced, Comparable, ClearRules, OneRuleHolds, Within,
                calculatePrice, Rate, ChargingRule, SelectInSeq
  <1> QED
    BY <1>2, <1>3, <1>4, <1>5 DEF ScheduleInv

LEMMA ScheduleStep == ScheduleInv /\ [ScheduleNext]_scheduleVars => ScheduleInv'
  BY ShowGridKeeps, RefuseKeeps, HoldKeeps, ProceedKeeps, ScheduleUnchanged DEF ScheduleNext

-----------------------------------------------------------------------------
(* Search *)

\* What stays as it was while a customer searches.
SearchShape ==
    /\ venues \in Catalogs /\ query \in Queries
    /\ heap \in [1..Cardinality(VenueIds) -> VenueIds]
    /\ turn \in -1..Cardinality(VenueIds)
    /\ updated \in BOOLEAN

\* As long as nobody writes, the rows are found in the order of their ids.
HeapAsLoaded == ~updated => heap = [i \in 1..Cardinality(VenueIds) |-> i]

\* The list shows what matches.
FoundMatches == found \subseteq {Item(v) : v \in {w \in Matching : InRadius(w)}}

\* The details are those of a venue of the catalogue.
DetailsAreCurrent ==
    detail \subseteq {[venue |-> v, courts |-> CourtsOf(v)] : v \in VenueIds}

\* The walk has shown the pages before the next one, and nothing else.
PagesSeen ==
    ~updated /\ turn >= 0 =>
        \A v \in Matching :
            InRadius(v) /\ Place(v) \div SearchPage < turn => Item(v) \in found

\* When it stops, it has shown them all, under the conditions of SearchFindsAll.
WalkEnded ==
    turn = -1 /\ ~updated /\ (query.radius = 0 \/ Cardinality(Matching) <= SearchPage) =>
        \A v \in Matching : InRadius(v) => Item(v) \in found

SearchInv ==
    /\ SearchShape
    /\ HeapAsLoaded
    /\ FoundMatches
    /\ DetailsAreCurrent
    /\ PagesSeen
    /\ WalkEnded

LEMMA CatalogShape ==
    ASSUME venues \in Catalogs, query \in Queries
    PROVE  /\ query \in SearchVenuesQuery
           /\ Cardinality(VenueIds) \in Nat
           /\ VenueIds = 1..Cardinality(VenueIds)
           /\ IsFiniteSet(VenueIds)
           /\ \A v \in VenueIds :
                 /\ venues[v] \in VenueRow
                 /\ IsFiniteSet(venues[v].courts)
                 /\ \A a, b \in venues[v].courts : a.id = b.id => a = b
  <1>1. venues \in Seq(VenueRow)
    BY CatalogsAssumption
  <1>2. Len(venues) \in Nat /\ VenueIds = 1..Len(venues)
    BY <1>1 DEF VenueIds
  <1>3. IsFiniteSet(VenueIds) /\ Cardinality(VenueIds) = Len(venues)
    <2>1. IsFiniteSet(1..Len(venues))
          /\ Cardinality(1..Len(venues)) = IF 1 > Len(venues) THEN 0 ELSE Len(venues) - 1 + 1
      BY <1>2, FS_Interval
    <2>2. Len(venues) \in Nat
          /\ (IF 1 > Len(venues) THEN 0 ELSE Len(venues) - 1 + 1) = Len(venues)
      BY <1>2
    <2> HIDE DEF VenueIds
    <2> QED
      BY <1>2, <2>1, <2>2
  <1>4. \A v \in VenueIds : venues[v] \in VenueRow
    BY <1>1, <1>2
  <1> QED
    BY <1>2, <1>3, <1>4, CatalogsAssumption DEF VenueIds

\* A page is a part of the venues, and counts no more.
LEMMA PartIsCounted ==
    ASSUME venues \in Catalogs, query \in Queries, NEW items \in SUBSET VenueIds
    PROVE  /\ IsFiniteSet(items)
           /\ Cardinality(items) \in Nat
           /\ Cardinality(items) <= Cardinality(VenueIds)
  BY CatalogShape, FS_Subset, FS_CardinalityType

LEMMA ActiveCourtsShape ==
    ASSUME venues \in Catalogs, query \in Queries, NEW v \in VenueIds
    PROVE  /\ ActiveCourts(v) \subseteq CourtRow
           /\ IsFiniteSet(ActiveCourts(v))
           /\ Cardinality(ActiveCourts(v)) \in Nat
           /\ \A c \in ActiveCourts(v) : c.prices \in SUBSET Nat /\ c.id \in Nat
           /\ \A a, b \in ActiveCourts(v) : a.id = b.id => a = b
           /\ UNION {c.prices : c \in ActiveCourts(v)} \in SUBSET Nat
  <1>1. venues[v] \in VenueRow /\ IsFiniteSet(venues[v].courts)
        /\ \A a, b \in venues[v].courts : a.id = b.id => a = b
    BY CatalogShape
  <1>2. ActiveCourts(v) \in SUBSET venues[v].courts /\ venues[v].courts \subseteq CourtRow
    BY <1>1 DEF ActiveCourts, VenueRow
  <1>3. IsFiniteSet(ActiveCourts(v)) /\ Cardinality(ActiveCourts(v)) \in Nat
    <2>1. IsFiniteSet(ActiveCourts(v))
      BY <1>1, <1>2, FS_Subset
    <2> QED
      BY <2>1, FS_CardinalityType
  <1>4. \A c \in ActiveCourts(v) : c.prices \in SUBSET Nat /\ c.id \in Nat
    BY <1>2 DEF CourtRow
  <1> QED
    BY <1>1, <1>2, <1>3, <1>4

LEMMA ItemType ==
    ASSUME venues \in Catalogs, query \in Queries, NEW v \in VenueIds
    PROVE  Item(v) \in VenueListItem
  <1>1. \A c \in ActiveCourts(v) : c.sport \in STRING
    BY ActiveCourtsShape DEF CourtRow
  <1>2. MinPrice(UNION {c.prices : c \in ActiveCourts(v)}) \in Nat
    BY ActiveCourtsShape, MinPriceType
  <1>3. v \in Nat
    BY CatalogShape
  <1> QED
    BY <1>1, <1>2, <1>3, ActiveCourtsShape DEF Item, VenueListItem

LEMMA CourtsOfType ==
    ASSUME venues \in Catalogs, query \in Queries, NEW v \in VenueIds
    PROVE  [venue |-> v, courts |-> CourtsOf(v)] \in VenueDetailResponse
  <1>1. v \in Nat
    BY CatalogShape
  <1>2. ASSUME NEW c \in ActiveCourts(v)
        PROVE  [id |-> c.id, sport |-> c.sport, minPrice |-> MinPrice(c.prices)] \in CourtItem
    <2>1. c \in CourtRow /\ c.prices \in SUBSET Nat
      BY ActiveCourtsShape
    <2> QED
      BY <2>1, MinPriceType DEF CourtRow, CourtItem
  <1> QED
    BY <1>1, <1>2 DEF CourtsOf, VenueDetailResponse

LEMMA MatchingShape ==
    ASSUME venues \in Catalogs, query \in Queries
    PROVE  /\ Matching \in SUBSET VenueIds
           /\ IsFiniteSet(Matching)
           /\ Cardinality(Matching) \in Nat
           /\ Cardinality(Matching) <= Cardinality(VenueIds)
  <1>1. Matching \in SUBSET VenueIds
    BY DEF Matching
  <1> QED
    BY <1>1, PartIsCounted

\* In front of an untouched table a matching row comes before their number.
LEMMA PlaceBound ==
    ASSUME SearchShape, HeapAsLoaded, ~updated, NEW v \in Matching
    PROVE  Place(v) \in Nat /\ Place(v) < Cardinality(Matching)
  <1> DEFINE at(w) == CHOOSE i \in DOMAIN heap : heap[i] = w
             Before == {w \in Matching : at(w) < at(v)}
  <1>1. v \in VenueIds /\ Matching \in SUBSET VenueIds /\ IsFiniteSet(Matching)
        /\ Cardinality(Matching) \in Nat
    BY MatchingShape DEF SearchShape
  <1>2. \A w \in VenueIds : at(w) = w
    BY CatalogShape DEF SearchShape, HeapAsLoaded
  <1>3. Before \in SUBSET (Matching \ {v})
    <2>1. at(v) \in Nat
      <3>1. v \in Nat
        BY <1>1, CatalogShape DEF SearchShape
      <3> QED
        BY <1>1, <1>2, <3>1
    <2>2. ~(at(v) < at(v))
      <3> HIDE DEF at
      <3> QED
        BY <2>1
    <2> QED
      BY <2>2
  <1>4. IsFiniteSet(Matching \ {v}) /\ Cardinality(Matching \ {v}) = Cardinality(Matching) - 1
    BY <1>1, FS_RemoveElement
  <1>5. Cardinality(Before) \in Nat /\ Cardinality(Before) <= Cardinality(Matching) - 1
    <2> HIDE DEF Before
    <2> QED
      BY <1>3, <1>4, FS_Subset, FS_CardinalityType
  <1> QED
    BY <1>1, <1>5 DEF Place

\* Which page a row is on, and whether the pages so far reach it.
LEMMA PageOf ==
    ASSUME NEW p \in Nat, NEW t \in Nat
    PROVE  /\ p \div SearchPage \in Nat
           /\ p < (t + 1) * SearchPage => p \div SearchPage < t + 1
           /\ p < SearchPage => p \div SearchPage = 0
           /\ (t + 1) * SearchPage >= t + 1
  <1>1. SearchPage \in Nat /\ SearchPage >= 1
    BY SearchBounds
  <1> DEFINE q == p \div SearchPage
  <1>2. q \in Nat /\ SearchPage * q <= p /\ p < SearchPage * (q + 1)
    BY <1>1
  <1>3. p < (t + 1) * SearchPage => q < t + 1
    <2> SUFFICES ASSUME p < (t + 1) * SearchPage, q >= t + 1 PROVE FALSE
      BY <1>2
    <2>1. SearchPage * q >= SearchPage * (t + 1)
      BY <1>1, <1>2
    <2> HIDE DEF q
    <2> QED
      BY <2>1, <1>1, <1>2
  <1>4. p < SearchPage => q = 0
    BY <1>1
  <1>5. (t + 1) * SearchPage >= t + 1
    BY <1>1
  <1> QED
    BY <1>2, <1>3, <1>4, <1>5

LEMMA SearchInitially == SearchInit => SearchInv
  <1> SUFFICES ASSUME SearchInit PROVE SearchInv
    OBVIOUS
  <1>1. venues \in Catalogs /\ query \in Queries
    BY DEF SearchInit
  <1>2. SearchShape
    <2>1. Cardinality(VenueIds) \in Nat /\ VenueIds = 1..Cardinality(VenueIds)
      BY <1>1, CatalogShape
    <2>2. heap \in [1..Cardinality(VenueIds) -> VenueIds]
      BY <2>1 DEF SearchInit
    <2>3. turn \in -1..Cardinality(VenueIds)
      BY <2>1 DEF SearchInit
    <2> QED
      BY <1>1, <2>2, <2>3 DEF SearchInit, SearchShape
  <1>3. HeapAsLoaded /\ FoundMatches /\ DetailsAreCurrent
    BY DEF SearchInit, HeapAsLoaded, FoundMatches, DetailsAreCurrent
  <1>4. PagesSeen
    <2> SUFFICES ASSUME NEW v \in Matching PROVE ~(Place(v) \div SearchPage < 0)
      BY DEF SearchInit, PagesSeen
    <2>1. Place(v) \in Nat
      BY <1>2, <1>3, PlaceBound DEF SearchInit
    <2>2. Place(v) \div SearchPage \in Nat
      BY <2>1, PageOf
    <2> QED
      BY <2>2
  <1>5. WalkEnded
    BY DEF SearchInit, WalkEnded
  <1> QED
    BY <1>2, <1>3, <1>4, <1>5 DEF SearchInv

\* Nothing that is looked for changes while a customer searches.
LEMMA RowsStay ==
    ASSUME UNCHANGED <<venues, query>>
    PROVE  /\ VenueIds' = VenueIds
           /\ Matching' = Matching
           /\ \A v \in VenueIds :
                 InRadius(v)' = InRadius(v) /\ Item(v)' = Item(v) /\ CourtsOf(v)' = CourtsOf(v)
  BY DEF VenueIds, Matching, Matches, CourtMatches, PriceGiven, InBudget, InRadius, Item,
         ActiveCourts, CourtsOf

LEMMA SearchKeeps == SearchInv /\ Search => SearchInv'
  <1> SUFFICES ASSUME SearchInv, Search PROVE SearchInv'
    OBVIOUS
  <1> DEFINE items == {v \in Rows(turn) : InRadius(v)}
  <1>1. /\ turn >= 0 /\ UNCHANGED <<venues, heap, query, detail, updated>>
        /\ found' = found \cup {Item(v) : v \in items}
        /\ turn' = IF (turn + 1) * SearchPage < Total(items) THEN turn + 1 ELSE -1
    BY DEF Search, SearchVenues
  <1>2. SearchShape /\ venues \in Catalogs /\ query \in Queries /\ turn \in Nat
    BY <1>1, CatalogShape DEF SearchInv, SearchShape
  <1>3. /\ Matching \in SUBSET VenueIds /\ Cardinality(Matching) \in Nat
        /\ Cardinality(Matching) <= Cardinality(VenueIds)
        /\ Cardinality(VenueIds) \in Nat
    BY <1>2, MatchingShape, CatalogShape
  <1>4. items \in SUBSET Matching
    BY DEF Rows
  <1>5. Cardinality(items) \in Nat /\ Cardinality(items) <= Cardinality(Matching)
    <2> HIDE DEF items
    <2>1. IsFiniteSet(Matching)
      BY <1>2, MatchingShape
    <2> QED
      BY <2>1, <1>4, FS_Subset, FS_CardinalityType
  <1>6. Total(items) \in Nat /\ Total(items) <= Cardinality(Matching)
    BY <1>3, <1>5 DEF Total
  <1>7. /\ VenueIds' = VenueIds /\ Matching' = Matching
        /\ \A v \in VenueIds :
              InRadius(v)' = InRadius(v) /\ Item(v)' = Item(v) /\ CourtsOf(v)' = CourtsOf(v)
    BY <1>1, RowsStay
  <1>8. (turn + 1) * SearchPage >= turn + 1 /\ (turn + 1) * SearchPage \in Nat
    <2>1. (turn + 1) * SearchPage >= turn + 1
      BY <1>2, PageOf
    <2> QED
      BY <2>1, <1>2, SearchBounds
  <1>9. SearchShape'
    <2>1. turn' \in -1..Cardinality(VenueIds)
      <3> HIDE DEF items
      <3> QED
        BY <1>1, <1>2, <1>3, <1>6, <1>8
    <2> QED
      BY <1>1, <1>2, <1>7, <2>1 DEF SearchShape
  <1>10. HeapAsLoaded'
    BY <1>1, <1>7 DEF SearchInv, HeapAsLoaded
  <1>11. FoundMatches'
    <2>1. items \subseteq {w \in Matching : InRadius(w)}
      BY <1>4
    <2>2. found' \subseteq {Item(v) : v \in {w \in Matching : InRadius(w)}}
      <3> HIDE DEF items
      <3> QED
        BY <1>1, <2>1 DEF SearchInv, FoundMatches
    <2> QED
      BY <2>2, <1>3, <1>7 DEF FoundMatches
  <1>12. DetailsAreCurrent'
    BY <1>1, <1>7 DEF SearchInv, DetailsAreCurrent
  <1>13. ASSUME ~updated, NEW v \in Matching
         PROVE  /\ Place(v) \in Nat /\ Place(v) < Cardinality(Matching)
                /\ Place(v)' = Place(v)
    <2>1. Place(v) \in Nat /\ Place(v) < Cardinality(Matching)
      BY <1>2, <1>13, PlaceBound DEF SearchInv
    <2>2. Place(v)' = Place(v)
      BY <1>1, <1>7 DEF Place
    <2> QED
      BY <2>1, <2>2
  <1>14. ASSUME ~updated, NEW v \in Matching, InRadius(v), Place(v) \div SearchPage < turn + 1
         PROVE  Item(v) \in found'
    <2>1. Place(v) \div SearchPage \in Nat
      BY <1>13, <1>14, PageOf
    <2>2. CASE Place(v) \div SearchPage < turn
      BY <2>2, <1>1, <1>2, <1>14 DEF SearchInv, PagesSeen
    <2>3. CASE Place(v) \div SearchPage = turn
      <3>1. v \in items
        BY <2>3, <1>14 DEF Rows
      <3> QED
        BY <3>1, <1>1
    <2> QED
      BY <2>1, <2>2, <2>3, <1>2, <1>14
  <1>15. PagesSeen'
    <2> SUFFICES ASSUME ~updated, turn' >= 0, NEW v \in Matching, InRadius(v),
                        Place(v) \div SearchPage < turn'
                 PROVE  Item(v) \in found'
      BY <1>1, <1>3, <1>7, <1>13 DEF PagesSeen
    <2>1. turn' = turn + 1
      BY <1>1
    <2> QED
      BY <2>1, <1>14
  <1>16. WalkEnded'
    <2> SUFFICES ASSUME ~updated, turn' = -1, NEW v \in Matching, InRadius(v),
                        query.radius = 0 \/ Cardinality(Matching) <= SearchPage
                 PROVE  Item(v) \in found'
      BY <1>1, <1>3, <1>7 DEF WalkEnded
    <2>1. ~((turn + 1) * SearchPage < Total(items))
      <3> HIDE DEF items
      <3> QED
        BY <1>1, <1>2
    <2>2. Place(v) \in Nat /\ Place(v) < Cardinality(Matching)
      BY <1>13
    <2>3. CASE query.radius = 0
      <3>1. Place(v) < (turn + 1) * SearchPage
        BY <2>1, <2>2, <2>3, <1>3, <1>8 DEF Total
      <3>2. Place(v) \div SearchPage < turn + 1
        BY <3>1, <2>2, <1>2, PageOf
      <3> QED
        BY <3>2, <1>14
    <2>4. CASE Cardinality(Matching) <= SearchPage
      <3>1. Place(v) < SearchPage
        BY <2>2, <2>4, <1>3, SearchBounds
      <3>2. Place(v) \div SearchPage = 0
        BY <3>1, <2>2, <1>2, PageOf
      <3> QED
        BY <3>2, <1>2, <1>14
    <2> QED
      BY <2>3, <2>4
  <1> QED
    BY <1>9, <1>10, <1>11, <1>12, <1>15, <1>16 DEF SearchInv

LEMMA GetVenueDetailKeeps ==
    ASSUME SearchInv, NEW v \in VenueIds, GetVenueDetail(v)
    PROVE  SearchInv'
  <1>1. /\ UNCHANGED <<venues, heap, query, turn, found, updated>>
        /\ detail' = detail \cup {[venue |-> v, courts |-> CourtsOf(v)]}
    BY DEF GetVenueDetail
  <1>2. /\ VenueIds' = VenueIds /\ Matching' = Matching
        /\ \A w \in VenueIds :
              InRadius(w)' = InRadius(w) /\ Item(w)' = Item(w) /\ CourtsOf(w)' = CourtsOf(w)
    BY <1>1, RowsStay
  <1>3. Matching \subseteq VenueIds
    BY DEF Matching
  <1>4. SearchShape' /\ HeapAsLoaded' /\ FoundMatches'
    BY <1>1, <1>2, <1>3 DEF SearchInv, SearchShape, HeapAsLoaded, FoundMatches
  <1>5. DetailsAreCurrent'
    BY <1>1, <1>2 DEF SearchInv, DetailsAreCurrent
  <1>6. \A w \in Matching : Place(w)' = Place(w)
    BY <1>1, <1>2 DEF Place
  <1>7. PagesSeen' /\ WalkEnded'
    BY <1>1, <1>2, <1>3, <1>6 DEF SearchInv, PagesSeen, WalkEnded
  <1> QED
    BY <1>4, <1>5, <1>7 DEF SearchInv

LEMMA UpdateRowKeeps ==
    ASSUME SearchInv, NEW v \in VenueIds, UpdateRow(v)
    PROVE  SearchInv'
  <1>1. updated' = TRUE /\ turn >= 0 /\ UNCHANGED <<venues, query, turn, found, detail>>
    BY DEF UpdateRow
  <1>2. /\ VenueIds' = VenueIds /\ Matching' = Matching
        /\ \A w \in VenueIds :
              InRadius(w)' = InRadius(w) /\ Item(w)' = Item(w) /\ CourtsOf(w)' = CourtsOf(w)
    BY <1>1, RowsStay
  <1>3. Matching \subseteq VenueIds
    BY DEF Matching
  <1>4. heap' \in [1..Cardinality(VenueIds) -> VenueIds]
    <2>1. Cardinality(VenueIds) \in Nat /\ DOMAIN heap = 1..Cardinality(VenueIds)
          /\ heap \in [1..Cardinality(VenueIds) -> VenueIds]
      BY CatalogShape DEF SearchInv, SearchShape
    <2>2. PICK i : heap' = [j \in DOMAIN heap |->
                              IF j < i THEN heap[j]
                              ELSE IF j = Cardinality(VenueIds) THEN v ELSE heap[j + 1]]
      BY DEF UpdateRow
    <2> QED
      BY <2>1, <2>2
  <1>5. SearchShape'
    BY <1>1, <1>2, <1>4 DEF SearchInv, SearchShape
  <1>6. HeapAsLoaded' /\ PagesSeen' /\ WalkEnded'
    BY <1>1 DEF HeapAsLoaded, PagesSeen, WalkEnded
  <1>7. FoundMatches' /\ DetailsAreCurrent'
    BY <1>1, <1>2, <1>3 DEF SearchInv, FoundMatches, DetailsAreCurrent
  <1> QED
    BY <1>5, <1>6, <1>7 DEF SearchInv

LEMMA SearchUnchanged == SearchInv /\ UNCHANGED searchVars => SearchInv'
  <1> SUFFICES ASSUME SearchInv, UNCHANGED searchVars PROVE SearchInv'
    OBVIOUS
  <1>1. UNCHANGED <<venues, heap, query, turn, found, detail, updated>>
    BY DEF searchVars
  <1>2. /\ VenueIds' = VenueIds /\ Matching' = Matching
        /\ \A w \in VenueIds :
              InRadius(w)' = InRadius(w) /\ Item(w)' = Item(w) /\ CourtsOf(w)' = CourtsOf(w)
    BY <1>1, RowsStay
  <1>3. Matching \subseteq VenueIds /\ \A w \in Matching : Place(w)' = Place(w)
    BY <1>1, <1>2 DEF Place, Matching
  <1> QED
    BY <1>1, <1>2, <1>3 DEF SearchInv, SearchShape, HeapAsLoaded, FoundMatches,
                            DetailsAreCurrent, PagesSeen, WalkEnded

LEMMA SearchStep == SearchInv /\ [SearchNext]_searchVars => SearchInv'
  BY SearchKeeps, GetVenueDetailKeeps, UpdateRowKeeps, SearchUnchanged DEF SearchNext

\* A row on the screen is the list item of a venue that matches.
LEMMA FoundIsItem ==
    ASSUME SearchInv, NEW i \in found
    PROVE  /\ i.venue \in Matching /\ i.venue \in VenueIds
           /\ InRadius(i.venue) /\ i = Item(i.venue)
  <1>1. PICK v \in {w \in Matching : InRadius(w)} : i = Item(v)
    BY DEF SearchInv, FoundMatches
  <1>2. i.venue = v
    BY <1>1 DEF Item
  <1> QED
    BY <1>1, <1>2 DEF Matching

LEMMA SearchTyped == SearchInv => SearchTypeOK
  <1> SUFFICES ASSUME SearchInv PROVE SearchTypeOK
    OBVIOUS
  <1>1. SearchShape
    BY DEF SearchInv
  <1>2. found \subseteq VenueListItem
    BY <1>1, FoundIsItem, ItemType DEF SearchShape
  <1>3. detail \subseteq VenueDetailResponse
    BY <1>1, CourtsOfType DEF SearchInv, DetailsAreCurrent, SearchShape
  <1> QED
    BY <1>1, <1>2, <1>3 DEF SearchShape, SearchTypeOK

LEMMA FindsAll == SearchInv => SearchFindsAll
  <1> SUFFICES ASSUME SearchInv, turn = -1, ~updated,
                      query.radius = 0 \/ Cardinality(Matching) <= SearchPage
               PROVE  {i.venue : i \in found} =
                        {v \in Matching : query.radius # 0 =>
                            query.located /\ venues[v].distance \in 1..query.radius}
    BY DEF SearchFindsAll
  <1>1. \A v \in Matching :
           InRadius(v) <=> (query.radius # 0 =>
                              query.located /\ venues[v].distance \in 1..query.radius)
    <2> SUFFICES ASSUME NEW v \in Matching
                 PROVE  InRadius(v) <=> (query.radius # 0 =>
                              query.located /\ venues[v].distance \in 1..query.radius)
      OBVIOUS
    <2>1. venues[v].distance \in Nat /\ query.radius \in Nat
      BY CatalogShape DEF SearchInv, SearchShape, Matching, VenueRow, SearchVenuesQuery
    <2> QED
      BY <2>1 DEF InRadius
  <1>2. \A v \in Matching : InRadius(v) => Item(v) \in found
    BY DEF SearchInv, WalkEnded
  <1>3. \A v : Item(v).venue = v
    BY DEF Item
  <1>4. {i.venue : i \in found} \subseteq {v \in Matching : InRadius(v)}
    BY FoundIsItem
  <1>5. {v \in Matching : InRadius(v)} \subseteq {i.venue : i \in found}
    BY <1>2, <1>3
  <1> QED
    BY <1>1, <1>4, <1>5

\* The prices of a venue are those of its open courts.
PricesAt(v) == UNION {c.prices : c \in ActiveCourts(v)}

LEMMA WithinBudget == SearchInv => PriceWithinBudget
  <1> SUFFICES ASSUME SearchInv, NEW i \in found
               PROVE  /\ PriceGiven /\ NothingIsFree(i.venue) => i.minPrice > 0
                      /\ query.maxPrice # 0 => i.minPrice <= query.maxPrice
    BY DEF PriceWithinBudget
  <1>1. i.venue \in Matching /\ i.venue \in VenueIds /\ i = Item(i.venue)
    BY FoundIsItem
  <1>2. i.minPrice = MinPrice(PricesAt(i.venue))
    BY <1>1 DEF Item, PricesAt
  <1>3. venues \in Catalogs /\ query \in Queries /\ query \in SearchVenuesQuery
    BY CatalogShape DEF SearchInv, SearchShape
  <1>4. PricesAt(i.venue) \in SUBSET Nat
    BY <1>1, <1>3, ActiveCourtsShape DEF PricesAt
  <1>5. ASSUME PriceGiven
        PROVE  \E p \in PricesAt(i.venue) : InBudget(p)
    BY <1>1, <1>5 DEF Matching, Matches, CourtMatches, PricesAt, ActiveCourts
  <1>6. ASSUME PriceGiven
        PROVE  /\ i.minPrice \in PricesAt(i.venue)
               /\ \A p \in PricesAt(i.venue) : i.minPrice <= p
    BY <1>2, <1>4, <1>5, <1>6, MinIsLeast DEF MinPrice
  <1>7. ASSUME PriceGiven, NothingIsFree(i.venue) PROVE i.minPrice > 0
    <2>1. 0 \notin PricesAt(i.venue)
      BY <1>7 DEF NothingIsFree, PricesAt
    <2> QED
      BY <2>1, <1>4, <1>6, <1>7
  <1>8. ASSUME query.maxPrice # 0 PROVE i.minPrice <= query.maxPrice
    <2>1. PriceGiven
      BY <1>8 DEF PriceGiven
    <2>2. PICK p \in PricesAt(i.venue) : p <= query.maxPrice
      BY <1>5, <1>8, <2>1 DEF InBudget
    <2> QED
      BY <1>3, <1>4, <1>6, <2>1, <2>2 DEF SearchVenuesQuery
  <1> QED
    BY <1>7, <1>8

\* The details show each open court once.
LEMMA CourtsAreCounted ==
    ASSUME venues \in Catalogs, query \in Queries, NEW v \in VenueIds
    PROVE  Cardinality(CourtsOf(v)) = Cardinality(ActiveCourts(v))
  <1> DEFINE f == [c \in ActiveCourts(v) |->
                     [id |-> c.id, sport |-> c.sport, minPrice |-> MinPrice(c.prices)]]
  <1>1. f \in [ActiveCourts(v) -> CourtsOf(v)]
    BY DEF CourtsOf
  <1>2. \A a, b \in ActiveCourts(v) : f[a] = f[b] => a = b
    <2>1. \A a \in ActiveCourts(v) : f[a].id = a.id
      OBVIOUS
    <2> QED
      BY <2>1, ActiveCourtsShape
  <1>3. \A d \in CourtsOf(v) : \E c \in ActiveCourts(v) : f[c] = d
    BY DEF CourtsOf
  <1>4. f \in Bijection(ActiveCourts(v), CourtsOf(v))
    <2> HIDE DEF f
    <2> QED
      BY <1>1, <1>2, <1>3 DEF Bijection, Injection, Surjection, IsInjective
  <1>5. IsFiniteSet(ActiveCourts(v))
    BY ActiveCourtsShape
  <1> QED
    BY <1>4, <1>5, FS_Bijection DEF ExistsBijection

LEMMA CourtsAreShown ==
    ASSUME NEW v
    PROVE  /\ \A c \in ActiveCourts(v) : \E k \in CourtsOf(v) :
                 k.sport = c.sport /\ k.minPrice = MinPrice(c.prices)
           /\ \A k \in CourtsOf(v) : \E c \in ActiveCourts(v) :
                 k.sport = c.sport /\ k.minPrice = MinPrice(c.prices)
  <1> DEFINE Shown(c) == [id |-> c.id, sport |-> c.sport, minPrice |-> MinPrice(c.prices)]
  <1>1. CourtsOf(v) = {Shown(c) : c \in ActiveCourts(v)}
    BY DEF CourtsOf
  <1>2. \A c : Shown(c).sport = c.sport /\ Shown(c).minPrice = MinPrice(c.prices)
    OBVIOUS
  <1> HIDE DEF Shown
  <1> QED
    BY <1>1, <1>2

\* The cheapest of the cheapest hours of the courts is the cheapest of all,
\* when no hour costs nothing and courts without prices are passed over.
LEMMA CheapestOfAll ==
    ASSUME venues \in Catalogs, query \in Queries, NEW v \in VenueIds, NothingIsFree(v)
    PROVE  MinPrice(PricesAt(v)) = MinPrice({c.minPrice : c \in CourtsOf(v)} \ {0})
  <1> DEFINE M == {c.minPrice : c \in CourtsOf(v)} \ {0}
  <1>1. \A c \in ActiveCourts(v) : c.prices \in SUBSET Nat /\ 0 \notin c.prices
    BY ActiveCourtsShape DEF NothingIsFree
  <1>2. \A c \in ActiveCourts(v) :
           IF c.prices = {} THEN MinPrice(c.prices) = 0
           ELSE /\ MinPrice(c.prices) \in c.prices /\ MinPrice(c.prices) # 0
                /\ \A p \in c.prices : MinPrice(c.prices) <= p
    BY <1>1, MinIsLeast DEF MinPrice
  <1>3. M = {MinPrice(c.prices) : c \in {a \in ActiveCourts(v) : a.prices # {}}}
    <2>1. {c.minPrice : c \in CourtsOf(v)} = {MinPrice(c.prices) : c \in ActiveCourts(v)}
      BY CourtsAreShown
    <2> QED
      BY <2>1, <1>2
  <1>4. PricesAt(v) \in SUBSET Nat /\ M \in SUBSET Nat
    BY <1>1, <1>2, <1>3 DEF PricesAt
  <1>5. CASE PricesAt(v) = {}
    <2>1. M = {}
      BY <1>3, <1>5 DEF PricesAt
    <2> QED
      BY <1>5, <2>1 DEF MinPrice
  <1>6. CASE PricesAt(v) # {}
    <2> DEFINE m == MinPrice(PricesAt(v))
    <2>1. m \in PricesAt(v) /\ \A p \in PricesAt(v) : m <= p
      BY <1>4, <1>6, MinIsLeast DEF MinPrice
    <2>2. PICK c \in ActiveCourts(v) : m \in c.prices
      BY <2>1 DEF PricesAt
    <2>3. MinPrice(c.prices) \in PricesAt(v) /\ MinPrice(c.prices) <= m
      BY <1>2, <2>2 DEF PricesAt
    <2>4. m = MinPrice(c.prices)
      <3> HIDE DEF m
      <3> QED
        BY <1>4, <2>1, <2>3
    <2>5. m \in M
      <3> HIDE DEF m, M
      <3> QED
        BY <1>3, <2>2, <2>4
    <2>6. \A p \in M : p \in PricesAt(v)
      <3> HIDE DEF M
      <3> QED
        BY <1>2, <1>3 DEF PricesAt
    <2>7. \A p \in M : m <= p
      BY <2>1, <2>6
    <2> HIDE DEF m, M
    <2>8. MinPrice(M) = m
      BY <1>4, <2>5, <2>7, MinPriceIs
    <2> QED
      BY <2>8 DEF m, M
  <1> QED
    BY <1>5, <1>6

LEMMA AgreesWithDetail == SearchInv => ListAndDetailAgree
  <1> SUFFICES ASSUME SearchInv, NEW i \in found, NEW d \in detail, i.venue = d.venue
               PROVE  /\ i.sports = {c.sport : c \in d.courts}
                      /\ i.courts = Cardinality(d.courts)
                      /\ NothingIsFree(i.venue) =>
                            i.minPrice = MinPrice({c.minPrice : c \in d.courts} \ {0})
    BY DEF ListAndDetailAgree
  <1> DEFINE v == i.venue
  <1>1. v \in VenueIds /\ i = Item(v) /\ venues \in Catalogs /\ query \in Queries
    BY FoundIsItem DEF SearchInv, SearchShape
  <1>2. d.courts = CourtsOf(v)
    <2>1. PICK w \in VenueIds : d = [venue |-> w, courts |-> CourtsOf(w)]
      BY DEF SearchInv, DetailsAreCurrent
    <2> QED
      BY <2>1
  <1>3. /\ i.sports = {c.sport : c \in ActiveCourts(v)}
        /\ i.courts = Cardinality(ActiveCourts(v))
        /\ i.minPrice = MinPrice(PricesAt(v))
    <2> HIDE DEF v
    <2> QED
      BY <1>1 DEF Item, PricesAt
  <1>4. {c.sport : c \in CourtsOf(v)} = {c.sport : c \in ActiveCourts(v)}
    BY CourtsAreShown
  <1> QED
    BY <1>1, <1>2, <1>3, <1>4, CourtsAreCounted, CheapestOfAll

-----------------------------------------------------------------------------
(* The system *)

CatalogInv == ScheduleInv /\ SearchInv

\* Whatever a behaviour is about, the other topic rests.
LEMMA CatalogInitially == Init => CatalogInv
  BY ScheduleInitially, SearchInitially DEF Init, CatalogInv

LEMMA CatalogStep == CatalogInv /\ [Next]_vars => CatalogInv'
  <1> SUFFICES ASSUME CatalogInv, [Next]_vars PROVE CatalogInv'
    OBVIOUS
  <1>1. CASE ScheduleNext /\ UNCHANGED searchVars
    BY <1>1, ScheduleStep, SearchStep DEF CatalogInv
  <1>2. CASE SearchNext /\ UNCHANGED scheduleVars
    BY <1>2, ScheduleStep, SearchStep DEF CatalogInv
  <1>3. CASE UNCHANGED vars
    BY <1>3, ScheduleStep, SearchStep DEF CatalogInv, vars
  <1> QED
    BY <1>1, <1>2, <1>3 DEF Next

(***************************************************************************)
(* What the proofs below rest on: the parts of ScheduleInv and SearchInv   *)
(* hold in every state, for every schedule and every catalogue.            *)
(***************************************************************************)
THEOREM CatalogCorrect == Spec => []CatalogInv
  BY CatalogInitially, CatalogStep, PTL DEF Spec

(***************************************************************************)
(* Type correctness: grid, answer, figures, pages, list and details are    *)
(* what GetAvailabilityUseCase, createHold and SearchVenuesUseCase return. *)
(***************************************************************************)
THEOREM CatalogTyped == Spec => []TypeOK
  <1>1. CatalogInv => TypeOK
    BY ScheduleTyped, SearchTyped DEF CatalogInv, TypeOK
  <1> QED
    BY <1>1, CatalogCorrect, PTL

(***************************************************************************)
(* An up to date grid and createHold agree on every slot of a day that opens *)
(* on the hour, whatever its hours are, as long as no booking ends before it *)
(* begins: whole-hour slots lie within the hours, and the overlap test of the *)
(* grid finds what the conflict query finds.                               *)
(***************************************************************************)
THEOREM GridIsTruthful == Spec => []GridTellsTheTruth
  <1>1. CatalogInv => GridTellsTheTruth
    BY DEF CatalogInv, ScheduleInv
  <1> QED
    BY <1>1, CatalogCorrect, PTL

(***************************************************************************)
(* calculatePrice charges the sum of what the grid showed, when the rules of *)
(* the day are clear and one of them holds all along, for any number of rules *)
(* and slots: the first rule that holds from start to end is then the first *)
(* that holds at the start of each hour.                                   *)
(***************************************************************************)
THEOREM ShownIsCharged == Spec => []ShownPricesAddUp
  <1>1. CatalogInv => ShownPricesAddUp
    BY PricesAddUp DEF CatalogInv
  <1> QED
    BY <1>1, CatalogCorrect, PTL

(***************************************************************************)
(* validateOperatingHours keeps bookings within one day inside its opening *)
(* hours from the first instant to less than a minute after closing, although *)
(* it compares nothing but the minutes of both ends: cutting seconds off an *)
(* end lets a booking run over by less than the minute, cutting them off a *)
(* start lets none begin early.                                            *)
(***************************************************************************)
THEOREM ClosedCourtIsEmpty == Spec => []NobodyPlaysWhenClosed
  <1>1. CatalogInv => NobodyPlaysWhenClosed
    BY ClosedIsEmpty DEF CatalogInv
  <1> QED
    BY <1>1, CatalogCorrect, PTL

(***************************************************************************)
(* The revenue the owner is shown for two periods in a row is the sum of what *)
(* was charged for the bookings that stand, however many there are and however *)
(* they were confirmed, completed and cancelled.                           *)
(***************************************************************************)
THEOREM RevenueIsExact == Spec => []RevenueIsEarned
  <1>1. CatalogInv => RevenueIsEarned
    BY Revenue DEF CatalogInv
  <1> QED
    BY <1>1, CatalogCorrect, PTL

(***************************************************************************)
(* The walk over the pages of a search ends with all the venues that were  *)
(* asked for and no others, for any page size, if no row was written in the *)
(* meantime and, with a radius, the rows fit one page.                     *)
(***************************************************************************)
THEOREM WalkFindsAll == Spec => []SearchFindsAll
  <1>1. CatalogInv => SearchFindsAll
    BY FindsAll DEF CatalogInv
  <1> QED
    BY <1>1, CatalogCorrect, PTL

(***************************************************************************)
(* A venue that was found is listed with a price no higher than the upper  *)
(* bound that was given, and with a price at all if a bound was given and  *)
(* no hour is free: filter and list look at the same courts.               *)
(***************************************************************************)
THEOREM ListedWithinBudget == Spec => []PriceWithinBudget
  <1>1. CatalogInv => PriceWithinBudget
    BY WithinBudget DEF CatalogInv
  <1> QED
    BY <1>1, CatalogCorrect, PTL

(***************************************************************************)
(* The list of SearchVenuesUseCase and the details of                      *)
(* GetVenueDetailUseCase agree on the sports, the number of courts and,    *)
(* unless an hour is free, the cheapest hour of a venue: the least of the  *)
(* least prices of its courts is the least of them all.                    *)
(***************************************************************************)
THEOREM ListIsDetail == Spec => []ListAndDetailAgree
  <1>1. CatalogInv => ListAndDetailAgree
    BY AgreesWithDetail DEF CatalogInv
  <1> QED
    BY <1>1, CatalogCorrect, PTL
=============================================================================
