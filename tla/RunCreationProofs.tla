-------------------------- MODULE RunCreationProofs --------------------------
(***************************************************************************)
(* RunCreation for any requests, owners, keys, prices, caps, days and      *)
(* faults: the day's cap and the quota of a key are kept, a dispatched run *)
(* is funded, and requests with one key are answered with one run.  The    *)
(* cap is kept because what a run may still cost (Hold) is held by its     *)
(* reservation all along; the module begins with what it needs to know of  *)
(* such sums.                                                              *)
(***************************************************************************)
EXTENDS RunCreation, FiniteSetTheorems, TLAPS

-----------------------------------------------------------------------------
(* Sums over finite sets.  MapThenSumSet is a recursion over a set: the        *)
(* induction on its elements is stated for a set of sets.                      *)

\* A set of naturals that contains zero and with a number the next one.
LEMMA CountUp ==
  ASSUME NEW G \in SUBSET Nat, 0 \in G, \A n \in G : n + 1 \in G
  PROVE  G = Nat
<1> DEFINE Bad == Nat \ G
<1> SUFFICES ASSUME Bad # {} PROVE FALSE
  OBVIOUS
<1>1. Bad \subseteq Nat
  OBVIOUS
<1> HIDE DEF Bad
<1>2. PICK n \in Bad : \A m \in Bad : ~(<<m, n>> \in OpToRel(<, Nat))
  BY <1>1, NatLessThanWellFounded, WFMin
<1>3. n - 1 \in Nat /\ n - 1 < n /\ n - 1 \notin Bad
  <2>1. n # 0 /\ n \in Nat
    BY DEF Bad
  <2>2. n - 1 \in Nat /\ n - 1 < n
    BY <2>1
  <2> QED BY <1>2, <2>1, <2>2 DEF OpToRel
<1>4. n \in G
  BY <1>3 DEF Bad
<1> QED BY <1>4 DEF Bad

\* A property of finite sets that passes from all smaller sets to a set.
LEMMA SetInduction ==
  ASSUME NEW S, IsFiniteSet(S), NEW G,
         \A s \in SUBSET S : (\A x \in s : s \ {x} \in G) => s \in G
  PROVE  SUBSET S \subseteq G
<1> DEFINE Bad == (SUBSET S) \ G
<1> SUFFICES ASSUME Bad # {} PROVE FALSE
  OBVIOUS
<1>1. IsWellFoundedOn(StrictSubsetOrdering(S), SUBSET S)
  <2>1. IsWellFoundedOn(StrictSubsetOrdering(S), FiniteSubsetsOf(S))
    BY FS_StrictSubsetOrderingWellFounded
  <2> QED BY <2>1, FS_FiniteSubsetsOfFinite
<1>2. Bad \subseteq SUBSET S
  OBVIOUS
<1> HIDE DEF Bad
<1>3. PICK s \in Bad : \A t \in Bad : ~(<<t, s>> \in StrictSubsetOrdering(S))
  BY <1>1, <1>2, WFMin
<1>4. ASSUME NEW x \in s
      PROVE  s \ {x} \in G
  <2>1. s \ {x} \in SUBSET S /\ s \ {x} # s /\ s \ {x} \subseteq s /\ s \in SUBSET S
    BY <1>2
  <2>2. <<s \ {x}, s>> \in StrictSubsetOrdering(S)
    BY <2>1 DEF StrictSubsetOrdering
  <2> QED BY <1>3, <2>1, <2>2 DEF Bad
<1>5. s \in SUBSET S /\ s \notin G
  <2>1. s \in Bad
    BY <1>3
  <2> QED BY <2>1 DEF Bad
<1> QED BY <1>4, <1>5

Pick(s) == CHOOSE x \in s : TRUE

\* The recursion of MapThenSumSet for the sum of f over the subsets of S.
Sums(g, f, S) ==
  g = [s \in SUBSET S |-> IF s = {} THEN 0 ELSE f[Pick(s)] + g[s \ {Pick(s)}]]

LEMMA SumOf ==
  ASSUME NEW S, NEW f, NEW g, Sums(g, f, S), NEW s \in SUBSET S
  PROVE  /\ s = {} => g[s] = 0
         /\ s # {} => /\ Pick(s) \in s /\ s \ {Pick(s)} \in SUBSET S
                      /\ g[s] = f[Pick(s)] + g[s \ {Pick(s)}]
BY DEF Sums, Pick

LEMMA SumIsNatural ==
  ASSUME NEW S, IsFiniteSet(S), NEW f, NEW g, Sums(g, f, S), \A x \in S : f[x] \in Nat
  PROVE  \A s \in SUBSET S : g[s] \in Nat
<1> DEFINE G == {s \in SUBSET S : g[s] \in Nat}
<1>1. ASSUME NEW s \in SUBSET S, \A x \in s : s \ {x} \in G
      PROVE  s \in G
  <2>1. CASE s = {}
    BY <2>1, SumOf
  <2>2. CASE s # {}
    <3>1. Pick(s) \in s /\ g[s] = f[Pick(s)] + g[s \ {Pick(s)}]
      BY <2>2, SumOf
    <3>2. f[Pick(s)] \in Nat /\ g[s \ {Pick(s)}] \in Nat
      BY <1>1, <3>1
    <3> QED BY <3>1, <3>2
  <2> QED BY <2>1, <2>2
<1> HIDE DEF G
<1>2. SUBSET S \subseteq G
  BY <1>1, SetInduction
<1> QED BY <1>2 DEF G

\* A sum does not depend on the order in which its terms are taken.
LEMMA SumWithout ==
  ASSUME NEW S, IsFiniteSet(S), NEW f, NEW g, Sums(g, f, S), \A x \in S : f[x] \in Nat,
         NEW r \in SUBSET S, NEW y \in r
  PROVE  g[r] = f[y] + g[r \ {y}]
<1> DEFINE G == {s \in SUBSET S : \A x \in s : g[s] = f[x] + g[s \ {x}]}
<1>1. ASSUME NEW s \in SUBSET S, \A x \in s : s \ {x} \in G
      PROVE  s \in G
  <2> SUFFICES ASSUME NEW x \in s PROVE g[s] = f[x] + g[s \ {x}]
    OBVIOUS
  <2> DEFINE p == Pick(s)
  <2>0. s # {}
    OBVIOUS
  <2>1. p \in s /\ g[s] = f[p] + g[s \ {p}]
    BY <2>0, SumOf
  <2> HIDE DEF p
  <2>2. CASE x = p
    BY <2>1, <2>2
  <2>3. CASE x # p
    <3>1. x \in s \ {p} /\ p \in s \ {x}
      BY <2>1, <2>3
    <3>2. g[s \ {p}] = f[x] + g[(s \ {p}) \ {x}]
      BY <1>1, <2>1, <3>1
    <3>3. g[s \ {x}] = f[p] + g[(s \ {x}) \ {p}]
      BY <1>1, <3>1
    <3>4. (s \ {p}) \ {x} = (s \ {x}) \ {p}
      OBVIOUS
    <3>5. f[x] \in Nat /\ f[p] \in Nat /\ g[(s \ {x}) \ {p}] \in Nat
      BY <2>1, SumIsNatural
    <3>6. f[p] + (f[x] + g[(s \ {x}) \ {p}]) = f[x] + (f[p] + g[(s \ {x}) \ {p}])
      BY <3>5
    <3> QED BY <2>1, <3>2, <3>3, <3>4, <3>6
  <2> QED BY <2>2, <2>3
<1> HIDE DEF G
<1>2. SUBSET S \subseteq G
  BY <1>1, SetInduction
<1> QED BY <1>2 DEF G

LEMMA SumOfRest ==
  ASSUME NEW S, IsFiniteSet(S), NEW f, NEW g, Sums(g, f, S), \A x \in S : f[x] \in Nat,
         NEW y \in S
  PROVE  g[S] = f[y] + g[S \ {y}]
<1>1. S \in SUBSET S
  OBVIOUS
<1> QED BY <1>1, SumWithout

LEMMA SumIsMonotone ==
  ASSUME NEW S, IsFiniteSet(S), NEW f, NEW g, Sums(g, f, S), \A x \in S : f[x] \in Nat,
         NEW T, IsFiniteSet(T), NEW h, NEW k, Sums(k, h, T), \A x \in T : h[x] \in Nat
  PROVE  \A s \in SUBSET S : s \subseteq T /\ (\A x \in s : f[x] <= h[x]) => g[s] <= k[s]
<1> DEFINE G == {s \in SUBSET S : s \subseteq T /\ (\A x \in s : f[x] <= h[x]) => g[s] <= k[s]}
<1>1. ASSUME NEW s \in SUBSET S, \A x \in s : s \ {x} \in G
      PROVE  s \in G
  <2> SUFFICES ASSUME s \subseteq T, \A x \in s : f[x] <= h[x] PROVE g[s] <= k[s]
    OBVIOUS
  <2>1. CASE s = {}
    <3>1. g[s] = 0
      BY <2>1, SumOf
    <3>2. k[s] = 0
      BY <2>1, SumOf
    <3> QED BY <3>1, <3>2
  <2>2. CASE s # {}
    <3> DEFINE p == Pick(s)
    <3>0. p \in s /\ s \ {p} \in SUBSET S /\ g[s] = f[p] + g[s \ {p}]
      BY <2>2, SumOf
    <3>1. k[s] = h[p] + k[s \ {p}]
      BY <2>2, SumOf
    <3>2. g[s \ {p}] <= k[s \ {p}] /\ f[p] <= h[p]
      BY <1>1, <3>0
    <3>3. /\ f[p] \in Nat /\ h[p] \in Nat /\ g[s \ {p}] \in Nat /\ k[s \ {p}] \in Nat
      <4>1. f[p] \in Nat /\ g[s \ {p}] \in Nat
        BY <3>0, SumIsNatural
      <4>2. h[p] \in Nat /\ k[s \ {p}] \in Nat
        BY <3>0, SumIsNatural
      <4> QED BY <4>1, <4>2
    <3> QED BY <3>0, <3>1, <3>2, <3>3
  <2> QED BY <2>1, <2>2
<1> HIDE DEF G
<1>2. SUBSET S \subseteq G
  BY <1>1, SetInduction
<1> QED BY <1>2 DEF G

\* Every function from a finite set to the naturals has a sum.
LEMMA SumExists ==
  ASSUME NEW S, IsFiniteSet(S), NEW f, \A x \in S : f[x] \in Nat
  PROVE  \E g : Sums(g, f, S)
<1> DEFINE Term(s, rest) == IF s = {} THEN 0 ELSE f[Pick(s)] + rest
           Upto(n) == {s \in SUBSET S : Cardinality(s) <= n}
           Sized(n) == \E g \in [Upto(n) -> Nat] : \A s \in Upto(n) :
                         g[s] = Term(s, g[s \ {Pick(s)}])
           G == {n \in Nat : Sized(n)}
<1>1. \A s \in SUBSET S : IsFiniteSet(s) /\ Cardinality(s) \in Nat
  BY FS_Subset, FS_CardinalityType
<1>2. \A s \in SUBSET S : s # {} => /\ Pick(s) \in s /\ s \ {Pick(s)} \in SUBSET S
                                    /\ Cardinality(s \ {Pick(s)}) = Cardinality(s) - 1
  BY <1>1, FS_RemoveElement DEF Pick
<1>3. 0 \in G
  <2>1. Upto(0) = {{}}
    BY <1>1, FS_EmptySet
  <2>2. [s \in Upto(0) |-> 0] \in [Upto(0) -> Nat]
    OBVIOUS
  <2> QED BY <2>1, <2>2
<1>4. ASSUME NEW n \in G
      PROVE  n + 1 \in G
  <2>1. PICK g \in [Upto(n) -> Nat] : \A s \in Upto(n) : g[s] = Term(s, g[s \ {Pick(s)}])
    OBVIOUS
  <2> DEFINE h == [s \in Upto(n + 1) |-> IF s \in Upto(n) THEN g[s]
                                         ELSE Term(s, g[s \ {Pick(s)}])]
  <2>2. n \in Nat
    OBVIOUS
  <2>3. \A s \in Upto(n + 1) : s # {} => Pick(s) \in s /\ s \ {Pick(s)} \in Upto(n)
    BY <1>1, <1>2, <2>2
  <2>4. h \in [Upto(n + 1) -> Nat]
    BY <2>1, <2>3
  <2>5. \A s \in Upto(n + 1) : h[s] = Term(s, h[s \ {Pick(s)}])
    <3> SUFFICES ASSUME NEW s \in Upto(n + 1), s # {} PROVE h[s] = Term(s, h[s \ {Pick(s)}])
      <4>1. {} \in Upto(n + 1) => h[{}] = 0
        BY <2>1
      <4> QED BY <4>1
    <3>1. s \ {Pick(s)} \in Upto(n) /\ s \ {Pick(s)} \in Upto(n + 1)
      BY <1>1, <2>2, <2>3
    <3>2. h[s \ {Pick(s)}] = g[s \ {Pick(s)}]
      BY <3>1
    <3> QED BY <2>1, <3>2
  <2> HIDE DEF h
  <2>6. Sized(n + 1)
    BY <2>4, <2>5
  <2> HIDE DEF Sized
  <2>7. n + 1 \in Nat
    BY <2>2
  <2> QED BY <2>6, <2>7
<1>5. G = Nat
  BY <1>3, <1>4, CountUp
<1>6. Cardinality(S) \in Nat /\ \A s \in SUBSET S : Cardinality(s) <= Cardinality(S)
  BY FS_Subset, FS_CardinalityType
<1>7. PICK g \in [Upto(Cardinality(S)) -> Nat] :
        \A s \in Upto(Cardinality(S)) : g[s] = Term(s, g[s \ {Pick(s)}])
  BY <1>5, <1>6
<1>8. Upto(Cardinality(S)) = SUBSET S
  BY <1>6
<1> QED BY <1>7, <1>8 DEF Sums

\* A part of a set sums to no more than the set.
LEMMA SumOfPart ==
  ASSUME NEW S, IsFiniteSet(S), NEW f, NEW g, Sums(g, f, S), \A x \in S : f[x] \in Nat
  PROVE  \A s \in SUBSET S : g[S \ s] <= g[S]
<1>0. \A r \in SUBSET S : \A y \in r : g[r] = f[y] + g[r \ {y}]
  <2> SUFFICES ASSUME NEW r \in SUBSET S, NEW y \in r PROVE g[r] = f[y] + g[r \ {y}]
    OBVIOUS
  <2> QED BY SumWithout
<1> DEFINE G == {s \in SUBSET S : g[S \ s] <= g[S]}
<1>1. ASSUME NEW s \in SUBSET S, \A x \in s : s \ {x} \in G
      PROVE  s \in G
  <2>1. CASE s = {}
    <3>1. S \ s = S /\ S \in SUBSET S
      BY <2>1
    <3>2. g[S] \in Nat
      BY <3>1, SumIsNatural
    <3> QED BY <3>1, <3>2
  <2>2. CASE s # {}
    <3>1. PICK x \in s : TRUE
      BY <2>2
    <3> DEFINE t == S \ (s \ {x})
    <3>2. t \in SUBSET S /\ x \in t /\ t \ {x} = S \ s /\ S \ s \in SUBSET S /\ x \in S
      OBVIOUS
    <3>3. g[t] = f[x] + g[t \ {x}]
      <4> HIDE DEF t
      <4> QED BY <1>0, <3>2
    <3>4. g[t] <= g[S]
      BY <1>1
    <3>5. f[x] \in Nat /\ g[S \ s] \in Nat /\ g[t] \in Nat /\ g[S] \in Nat
      <4>1. S \in SUBSET S
        OBVIOUS
      <4> QED BY <3>2, <4>1, SumIsNatural
    <3>6. g[S \ s] <= g[S]
      <4> HIDE DEF t
      <4> QED BY <3>2, <3>3, <3>4, <3>5
    <3> QED BY <3>6
  <2> QED BY <2>1, <2>2
<1> HIDE DEF G
<1>2. SUBSET S \subseteq G
  BY <1>1, SetInduction
<1> QED BY <1>2 DEF G

-----------------------------------------------------------------------------
(* Sums over some of the requests *)

Total(f, D) == MapThenSumSet(LAMBDA r : f[r], D)

LEMMA TotalSums ==
  ASSUME NEW f, NEW D, IsFiniteSet(D), \A r \in D : f[r] \in Nat
  PROVE  \E g : Sums(g, f, D) /\ Total(f, D) = g[D]
<1>1. PICK g : Sums(g, f, D)
  BY SumExists
<1>2. g = [s \in SUBSET D |-> IF s = {} THEN 0 ELSE f[Pick(s)] + g[s \ {Pick(s)}]]
  BY <1>1 DEF Sums
<1>3. \E h : /\ h = [s \in SUBSET D |-> IF s = {} THEN 0
                                        ELSE f[Pick(s)] + h[s \ {Pick(s)}]]
             /\ Total(f, D) = h[D]
  BY <1>2 DEF Total, MapThenSumSet, MapThenFoldSet, Pick
<1> QED BY <1>3 DEF Sums

\* Over a smaller set, of smaller terms.
LEMMA TotalShrinks ==
  ASSUME NEW E, IsFiniteSet(E), NEW D \in SUBSET E,
         NEW f, NEW h, \A r \in E : h[r] \in Nat,
         \A r \in D : f[r] \in Nat /\ f[r] <= h[r]
  PROVE  Total(f, D) <= Total(h, E) /\ Total(f, D) \in Nat /\ Total(h, E) \in Nat
<1>1. IsFiniteSet(D)
  BY FS_Subset
<1>2. PICK g : Sums(g, f, D) /\ Total(f, D) = g[D]
  BY <1>1, TotalSums
<1>3. PICK k : Sums(k, h, E) /\ Total(h, E) = k[E]
  BY TotalSums
<1>4. D \in SUBSET D /\ E \in SUBSET E /\ E \ (E \ D) = D /\ E \ D \in SUBSET E
  OBVIOUS
<1>5. g[D] <= k[D]
  BY <1>1, <1>2, <1>3, <1>4, SumIsMonotone
<1>6. k[D] <= k[E]
  <2>1. \A s \in SUBSET E : k[E \ s] <= k[E]
    BY <1>3, SumOfPart
  <2> QED BY <1>4, <2>1
<1>7. g[D] \in Nat /\ k[D] \in Nat /\ k[E] \in Nat
  <2>1. g[D] \in Nat
    BY <1>1, <1>2, <1>4, SumIsNatural
  <2>2. \A s \in SUBSET E : k[s] \in Nat
    BY <1>3, SumIsNatural
  <2> QED BY <1>4, <2>1, <2>2
<1> QED BY <1>2, <1>3, <1>5, <1>6, <1>7

\* With one element more.
LEMMA TotalAdds ==
  ASSUME NEW D, IsFiniteSet(D), NEW r, r \notin D,
         NEW f, \A x \in D \cup {r} : f[x] \in Nat
  PROVE  Total(f, D \cup {r}) = Total(f, D) + f[r]
<1> DEFINE E == D \cup {r}
<1>1. IsFiniteSet(E) /\ r \in E /\ E \ {r} = D /\ D \in SUBSET E /\ D \in SUBSET D
  BY FS_AddElement
<1> HIDE DEF E
<1>2. PICK g : Sums(g, f, D) /\ Total(f, D) = g[D]
  BY TotalSums
<1>3. \A x \in E : f[x] \in Nat
  BY DEF E
<1>4. PICK k : Sums(k, f, E) /\ Total(f, E) = k[E]
  BY <1>1, <1>3, TotalSums
<1>5. k[E] = f[r] + k[D]
  BY <1>1, <1>3, <1>4, SumOfRest
<1>6. \A x \in D : f[x] \in Nat /\ f[x] <= f[x]
  OBVIOUS
<1>7. g[D] <= k[D] /\ k[D] <= g[D]
  <2>1. g[D] <= k[D]
    BY <1>1, <1>2, <1>3, <1>4, <1>6, SumIsMonotone
  <2>2. k[D] <= g[D]
    BY <1>1, <1>2, <1>3, <1>4, <1>6, SumIsMonotone
  <2> QED BY <2>1, <2>2
<1>8. g[D] \in Nat /\ k[D] \in Nat /\ f[r] \in Nat
  <2>1. g[D] \in Nat
    BY <1>1, <1>2, SumIsNatural
  <2>2. \A s \in SUBSET E : k[s] \in Nat
    BY <1>1, <1>3, <1>4, SumIsNatural
  <2> QED BY <1>1, <1>3, <2>1, <2>2
<1>9. Total(f, E) = Total(f, D) + f[r]
  BY <1>2, <1>4, <1>5, <1>7, <1>8
<1> QED BY <1>9 DEF E

-----------------------------------------------------------------------------
(* The inductive invariant *)

\* A run that is not there, or not dispatched, has done nothing.
RowInv ==
  \A r \in Posts :
    /\ run[r].status \in {"none", "removed"} =>
         work[r] = "none" /\ reserve[r] = NoReserve /\ ~run[r].keyed
    /\ run[r].status = "queued" => work[r] = "none" /\ reserve[r].settled = Unsettled
    /\ reserve[r].day = -1 => reserve[r] = NoReserve

\* The steps at which a request has a run.
Held == {"reserve", "dispatch", "fail", "release", "remove", "answered"}

\* What a request has seen of its run stays so: a reservation is given back only for
\* a run that failed, and only a run that failed unreserved loses its row.
CallerInv ==
  \A p \in Posts :
    /\ pc[p] = "idle" => run[p].status = "none"
    /\ pc[p] \in Held => target[p] \in Posts /\ run[target[p]].status # "none"
    /\ pc[p] = "dispatch" /\ run[target[p]].status = "queued" => reserve[target[p]] # NoReserve
    /\ pc[p] \in {"release", "remove"} =>
         run[target[p]].status \notin {"none", "queued"} /\ work[target[p]] = "none"
    /\ pc[p] = "remove" => ~run[target[p]].keyed

\* One run has a key, and a request that works on a run with a key has that key.
KeyInv ==
  /\ \A q, r \in Posts :
       run[q].keyed /\ run[r].keyed /\ Owner[q] = Owner[r] /\ Key[q] = Key[r] => q = r
  /\ \A p \in Posts :
       pc[p] \in Held /\ run[target[p]].keyed =>
         Owner[target[p]] = Owner[p] /\ Key[target[p]] = Key[p] /\ hash[target[p]] = hash[p]

\* The reservation of a run that works is not settled before the run is paid.
MoneyInv ==
  \A r \in Posts :
    /\ work[r] # "none" =>
         reserve[r] # NoReserve /\ (reserve[r].settled = Unsettled \/ reserve[r].settled >= spent[r])
    /\ work[r] \in {"working", "paid"} => reserve[r].settled = Unsettled
    /\ work[r] = "none" => spent[r] = 0

\* What the reservation of a run has to hold: its price, and once it is settled no
\* less than was spent.
HoldOf(booked, cost) == IF booked.settled = Unsettled THEN Price ELSE cost
Holds == [r \in Posts |-> HoldOf(reserve[r], spent[r])]

ReservedOn(day) == {r \in Posts : reserve[r].day = day}

CapInv == \A day \in Days : Total(Holds, ReservedOn(day)) <= DailyCap

CountedOn(quota, day) ==
  {r \in Posts : QuotaKey[r] = quota /\ run[r].day = day /\ reserve[r].day = day}

QuotaInv == \A q \in Posts, day \in Days : Cardinality(CountedOn(QuotaKey[q], day)) <= RunsPerDay

IInv == TypeOK /\ RowInv /\ CallerInv /\ KeyInv /\ MoneyInv /\ CapInv /\ QuotaInv

-----------------------------------------------------------------------------
(* The limits *)

\* The runs of a day, what they hold and how many count are no more than before.
Shrinks ==
  \A r \in Posts :
    reserve'[r].day \in Days =>
      /\ reserve'[r].day = reserve[r].day /\ run'[r].day = run[r].day
      /\ HoldOf(reserve'[r], spent'[r]) <= HoldOf(reserve[r], spent[r])

LEMMA HoldsAreNatural ==
  ASSUME RunCreationAssumption, TypeOK
  PROVE  \A r \in Posts : Holds[r] \in Nat
BY DEF RunCreationAssumption, TypeOK, Holds, HoldOf

LEMMA LimitsKept ==
  ASSUME RunCreationAssumption, TypeOK, TypeOK', CapInv, QuotaInv, Shrinks
  PROVE  CapInv' /\ QuotaInv'
<1>1. ASSUME NEW day \in Days
      PROVE  Total(Holds', ReservedOn(day)') <= DailyCap
  <2>1. IsFiniteSet(ReservedOn(day))
    BY FS_Subset DEF RunCreationAssumption, ReservedOn
  <2>2. ReservedOn(day)' \subseteq ReservedOn(day)
    BY DEF Shrinks, ReservedOn
  <2>3. \A r \in ReservedOn(day) : Holds[r] \in Nat
    BY HoldsAreNatural DEF ReservedOn
  <2>4. \A r \in ReservedOn(day)' : Holds'[r] \in Nat /\ Holds'[r] <= Holds[r]
    BY DEF RunCreationAssumption, TypeOK, Shrinks, Holds, HoldOf, ReservedOn
  <2>5. /\ Total(Holds', ReservedOn(day)') <= Total(Holds, ReservedOn(day))
        /\ Total(Holds', ReservedOn(day)') \in Nat /\ Total(Holds, ReservedOn(day)) \in Nat
    BY <2>1, <2>2, <2>3, <2>4, TotalShrinks
  <2>6. Total(Holds, ReservedOn(day)) <= DailyCap /\ DailyCap \in Nat
    BY DEF CapInv, RunCreationAssumption
  <2> QED BY <2>5, <2>6
<1>2. CapInv'
  BY <1>1 DEF CapInv, Total, MapThenSumSet, MapThenFoldSet
<1>3. ASSUME NEW q \in Posts, NEW day \in Days
      PROVE  Cardinality(CountedOn(QuotaKey[q], day)') <= RunsPerDay
  <2>1. IsFiniteSet(CountedOn(QuotaKey[q], day))
    BY FS_Subset DEF RunCreationAssumption, CountedOn
  <2>2. CountedOn(QuotaKey[q], day)' \subseteq CountedOn(QuotaKey[q], day)
    BY DEF Shrinks, CountedOn
  <2>3. /\ Cardinality(CountedOn(QuotaKey[q], day)') <= Cardinality(CountedOn(QuotaKey[q], day))
        /\ Cardinality(CountedOn(QuotaKey[q], day)') \in Nat
        /\ Cardinality(CountedOn(QuotaKey[q], day)) \in Nat
    BY <2>1, <2>2, FS_Subset, FS_CardinalityType
  <2>4. Cardinality(CountedOn(QuotaKey[q], day)) <= RunsPerDay /\ RunsPerDay \in Nat
    BY DEF QuotaInv, RunCreationAssumption
  <2> QED BY <2>3, <2>4
<1>4. QuotaInv'
  BY <1>3 DEF QuotaInv
<1> QED BY <1>2, <1>4

LEMMA InitInv == ASSUME RunCreationAssumption, Init PROVE IInv
<1>1. TypeOK
  <2>1. today \in Days /\ faults \in 0..MaxFaults /\ 0 \in 0..Price /\ 0 \in Days
    BY DEF Init, RunCreationAssumption, Days
  <2>2. run \in [Posts -> [status : {"none", "queued", "running", "ready", "failed", "expired",
                                     "removed"}, day : Days, keyed : BOOLEAN]]
    BY <2>1 DEF Init
  <2>3. reserve \in [Posts -> [day : Days \cup {-1}, settled : 0..Price \cup {Unsettled}]]
    BY DEF Init, NoReserve
  <2> QED
    BY <2>1, <2>2, <2>3 DEF Init, TypeOK
<1>2. RowInv /\ CallerInv /\ KeyInv /\ MoneyInv
  BY DEF Init, RowInv, CallerInv, KeyInv, MoneyInv, Held, NoReserve, Unsettled
<1>3. \A day \in Days : ReservedOn(day) = {}
  BY DEF Init, ReservedOn, NoReserve, Days, RunCreationAssumption
<1>4. CapInv
  <2>1. PICK g : Sums(g, Holds, {}) /\ Total(Holds, {}) = g[{}]
    BY FS_EmptySet, TotalSums
  <2>2. {} \in SUBSET {}
    OBVIOUS
  <2>3. g[{}] = 0
    BY <2>1, <2>2 DEF Sums
  <2> QED BY <1>3, <2>1, <2>3 DEF CapInv, RunCreationAssumption
<1>5. QuotaInv
  <2>1. \A q \in Posts, day \in Days : CountedOn(QuotaKey[q], day) = {}
    BY <1>3 DEF ReservedOn, CountedOn
  <2> QED BY <2>1, FS_EmptySet DEF QuotaInv, RunCreationAssumption
<1> QED
  BY <1>1, <1>2, <1>4, <1>5 DEF IInv

-----------------------------------------------------------------------------
(* Insertion *)

LEMMA InsertStep ==
  ASSUME RunCreationAssumption, IInv, NEW q \in Posts, Insert(q)
  PROVE  IInv'
<1>1. /\ pc[q] = "idle" /\ run[q].status = "none" /\ reserve[q] = NoReserve /\ work[q] = "none"
      /\ run' = [run EXCEPT ![q] = [status |-> "queued", day |-> today, keyed |-> Key[q] # NoKey]]
      /\ target' = [target EXCEPT ![q] = q] /\ pc' = [pc EXCEPT ![q] = "reserve"]
      /\ UNCHANGED <<reserve, work, spent, hash, today, faults>>
  BY DEF IInv, Insert, CallerInv, RowInv, Move, Money
<1>2. TypeOK'
  <2>1. run' \in [Posts -> [status : {"none", "queued", "running", "ready", "failed", "expired",
                                      "removed"}, day : Days, keyed : BOOLEAN]]
    BY <1>1 DEF IInv, TypeOK
  <2> QED
    BY <1>1, <2>1 DEF IInv, TypeOK
<1>3. /\ run'[q] = [status |-> "queued", day |-> today, keyed |-> Key[q] # NoKey]
      /\ \A r \in Posts \ {q} : run'[r] = run[r] /\ pc'[r] = pc[r] /\ target'[r] = target[r]
      /\ pc'[q] = "reserve" /\ target'[q] = q
  BY <1>1 DEF IInv, TypeOK
<1>4. RowInv'
  BY <1>1, <1>3 DEF IInv, RowInv, NoReserve
<1>5. \A p \in Posts \ {q} : pc[p] \in Held => target[p] \in Posts \ {q}
  BY <1>1 DEF IInv, CallerInv
<1>6. CallerInv'
  BY <1>1, <1>3, <1>5 DEF IInv, CallerInv, Held
<1>7. KeyInv'
  <2>1. ASSUME NEW r \in Posts \ {q}, Key[q] # NoKey
        PROVE  ~(run[r].keyed /\ Owner[r] = Owner[q] /\ Key[r] = Key[q])
    <3>1. run[r].keyed => r \in Rows
      BY DEF IInv, RowInv, Rows
    <3> QED BY <2>1, <3>1 DEF Insert, Conflicts, SameKey
  <2>2. run'[q].keyed = (Key[q] # NoKey)
    BY <1>3
  <2>3. ASSUME NEW a \in Posts, NEW b \in Posts,
               run'[a].keyed, run'[b].keyed, Owner[a] = Owner[b], Key[a] = Key[b]
        PROVE  a = b
    <3>1. CASE a = q /\ b = q
      BY <3>1
    <3>2. CASE a = q /\ b # q
      BY <1>3, <2>1, <2>2, <2>3, <3>2
    <3>3. CASE a # q /\ b = q
      BY <1>3, <2>1, <2>2, <2>3, <3>3
    <3>4. CASE a # q /\ b # q
      BY <1>3, <2>3, <3>4 DEF IInv, KeyInv
    <3> QED BY <3>1, <3>2, <3>3, <3>4
  <2>4. ASSUME NEW p \in Posts, pc'[p] \in Held, run'[target'[p]].keyed
        PROVE  /\ Owner[target'[p]] = Owner[p] /\ Key[target'[p]] = Key[p]
               /\ hash[target'[p]] = hash[p]
    <3>1. CASE p = q
      BY <1>3, <3>1
    <3>2. CASE p # q
      BY <1>3, <1>5, <2>4, <3>2 DEF IInv, KeyInv
    <3> QED BY <3>1, <3>2
  <2> QED
    BY <1>1, <2>3, <2>4 DEF KeyInv
<1>8. MoneyInv'
  BY <1>1 DEF IInv, MoneyInv
<1>9. Shrinks
  BY <1>1, <1>2, <1>3 DEF IInv, Shrinks, HoldOf, NoReserve, Days, TypeOK, RunCreationAssumption
<1> QED
  BY <1>2, <1>4, <1>6, <1>7, <1>8, <1>9, LimitsKept DEF IInv

\* A request moves on and nothing else changes.
Moves(p, step) ==
  /\ pc' = [pc EXCEPT ![p] = step] /\ target' \in [Posts -> Posts \cup {NoRun}]
  /\ \A q \in Posts \ {p} : target'[q] = target[q]
  /\ UNCHANGED <<run, reserve, work, spent, hash, today>>

\* Where it stands afterwards it has a run of its key, if it has one at all.
Founded(p, step) ==
  \/ step \notin Held \cup {"idle"}
  \/ /\ step \in {"reserve", "answered"}
     /\ target'[p] \in SameKey(p) /\ hash[target'[p]] = hash[p]
  \/ /\ step \in {"dispatch", "fail", "answered"} /\ pc[p] \in Held /\ target'[p] = target[p]
     /\ step = "dispatch" => reserve[target[p]] # NoReserve

LEMMA MovesStep ==
  ASSUME RunCreationAssumption, IInv, NEW p \in Posts, NEW step, Moves(p, step),
         Founded(p, step), TypeOK'
  PROVE  IInv'
<1>1. /\ UNCHANGED <<run, reserve, work, spent, hash, today>>
      /\ pc'[p] = step
      /\ \A q \in Posts \ {p} : pc'[q] = pc[q] /\ target'[q] = target[q]
  BY DEF Moves, IInv, TypeOK
<1>2. RowInv' /\ MoneyInv'
  BY <1>1 DEF IInv, RowInv, MoneyInv
<1>3. ASSUME step \in Held
      PROVE  /\ target'[p] \in Posts /\ run[target'[p]].status # "none"
             /\ run[target'[p]].keyed =>
                  /\ Owner[target'[p]] = Owner[p] /\ Key[target'[p]] = Key[p]
                  /\ hash[target'[p]] = hash[p]
  <2>1. CASE target'[p] \in SameKey(p) /\ hash[target'[p]] = hash[p]
    BY <2>1 DEF SameKey, Rows
  <2>2. CASE pc[p] \in Held /\ target'[p] = target[p]
    BY <2>2 DEF IInv, CallerInv, KeyInv
  <2> QED
    BY <1>3, <2>1, <2>2 DEF Founded
<1>4. CallerInv'
  <2>1. step = "dispatch" => reserve[target'[p]] # NoReserve
    BY DEF Founded, Held
  <2>2. step \notin {"idle", "release", "remove"}
    BY DEF Founded, Held
  <2> QED
    BY <1>1, <1>3, <2>1, <2>2 DEF IInv, CallerInv
<1>5. KeyInv'
  BY <1>1, <1>3 DEF IInv, KeyInv
<1>6. Shrinks
  BY <1>1 DEF IInv, Shrinks, HoldOf, TypeOK, RunCreationAssumption
<1> QED
  BY <1>2, <1>4, <1>5, <1>6, LimitsKept DEF IInv

LEMMA AnswerMoves ==
  ASSUME IInv, NEW p \in Posts, NEW what, Answer(p, what),
         UNCHANGED <<run, reserve, work, spent, hash, today>>
  PROVE  /\ Moves(p, what)
         /\ what = "answered" => target' = target
BY DEF Answer, Move, Moves, IInv, TypeOK

LEMMA InsertMissesStep ==
  ASSUME RunCreationAssumption, IInv, NEW q \in Posts, InsertMisses(q)
  PROVE  IInv'
<1> DEFINE step == IF Key[q] = NoKey THEN "active" ELSE "lookup"
<1>1. Moves(q, step) /\ Founded(q, step)
  BY DEF InsertMisses, Move, Money, Moves, Founded, Held, IInv, TypeOK
<1>2. TypeOK'
  BY DEF InsertMisses, Move, Money, IInv, TypeOK
<1> QED
  BY <1>1, <1>2, MovesStep

LEMMA LookupStep ==
  ASSUME RunCreationAssumption, IInv, NEW q \in Posts, Lookup(q)
  PROVE  IInv'
<1>1. UNCHANGED <<run, reserve, work, spent, hash, today, faults>>
  BY DEF Lookup, Money
<1>2. CASE \E r \in SameKey(q) :
             /\ Repeats(q, r)
             /\ target' = [target EXCEPT ![q] = r]
             /\ Move(q, IF run[r].status = "queued" THEN "reserve" ELSE "answered")
  <2>1. PICK r \in SameKey(q) :
          /\ Repeats(q, r)
          /\ target' = [target EXCEPT ![q] = r]
          /\ Move(q, IF run[r].status = "queued" THEN "reserve" ELSE "answered")
    BY <1>2
  <2> DEFINE step == IF run[r].status = "queued" THEN "reserve" ELSE "answered"
  <2>2. r \in Posts
    BY DEF SameKey, Rows
  <2>3. Moves(q, step)
    BY <1>1, <2>1, <2>2 DEF Move, Moves, IInv, TypeOK
  <2>4. target'[q] = r
    BY <2>1 DEF IInv, TypeOK
  <2>5. Founded(q, step)
    BY <2>1, <2>4 DEF Founded, Repeats
  <2>6. TypeOK'
    BY <1>1, <2>1, <2>2 DEF Move, IInv, TypeOK, Answers
  <2> QED
    BY <2>3, <2>5, <2>6, MovesStep
<1>3. CASE Answer(q, "conflict")
  <2>1. Moves(q, "conflict") /\ Founded(q, "conflict")
    BY <1>1, <1>3, AnswerMoves DEF Founded, Held
  <2>2. TypeOK'
    BY <1>1, <1>3, <2>1 DEF Moves, IInv, TypeOK, Answers
  <2> QED
    BY <2>1, <2>2, MovesStep
<1>4. CASE Onward(q, "active")
  <2>1. Moves(q, "active") /\ Founded(q, "active")
    BY <1>1, <1>4 DEF Onward, Move, Moves, Founded, Held, IInv, TypeOK
  <2>2. TypeOK'
    BY <1>1, <2>1 DEF Moves, IInv, TypeOK
  <2> QED
    BY <2>1, <2>2, MovesStep
<1> QED
  BY <1>2, <1>3, <1>4 DEF Lookup

LEMMA LookupActiveStep ==
  ASSUME RunCreationAssumption, IInv, NEW q \in Posts, LookupActive(q)
  PROVE  IInv'
<1> DEFINE what == IF ActiveOf(Owner[q]) # {} THEN "busy" ELSE "retry"
<1>1. UNCHANGED <<run, reserve, work, spent, hash, today, faults>> /\ Answer(q, what)
  BY DEF LookupActive, Money
<1>2. Moves(q, what) /\ Founded(q, what)
  BY <1>1, AnswerMoves DEF Founded, Held
<1>3. TypeOK'
  BY <1>1, <1>2 DEF Moves, IInv, TypeOK, Answers
<1> QED
  BY <1>2, <1>3, MovesStep

LEMMA DieStep ==
  ASSUME RunCreationAssumption, IInv, NEW p \in Posts, Die(p)
  PROVE  IInv'
<1>1. UNCHANGED <<run, reserve, work, spent, hash, today>> /\ Answer(p, "lost")
  BY DEF Die, Money
<1>2. Moves(p, "lost") /\ Founded(p, "lost")
  BY <1>1, AnswerMoves DEF Founded, Held
<1>3. faults' \in 0..MaxFaults
  BY DEF Die, Fault, IInv, TypeOK, RunCreationAssumption
<1>4. TypeOK'
  BY <1>1, <1>2, <1>3 DEF Moves, IInv, TypeOK, Answers
<1> QED
  BY <1>2, <1>4, MovesStep

-----------------------------------------------------------------------------
(* Steps on the row of one run *)

\* A request stays where it is, or moves on with its run.
Stays(p) ==
  \/ pc'[p] = pc[p] /\ target'[p] = target[p]
  \/ pc'[p] \notin Held \cup {"idle"}
  \/ /\ pc[p] \in Held /\ target'[p] = target[p]
     /\ \/ pc'[p] = "answered"
        \/ /\ pc'[p] \in {"release", "remove"}
           /\ run'[target[p]].status \notin {"none", "queued"} /\ work'[target[p]] = "none"
           /\ pc'[p] = "remove" => ~run'[target[p]].keyed

\* A row that is there changes: it is not queued again, its key does not come back, and
\* nobody releases a run that works.
Touches(r) ==
  /\ \A x \in Posts \ {r} :
       run'[x] = run[x] /\ reserve'[x] = reserve[x] /\ work'[x] = work[x] /\ spent'[x] = spent[x]
  /\ run[r].status # "none" /\ run'[r].status # "none"
  /\ run'[r].status = "queued" => run[r].status = "queued" /\ reserve'[r] = reserve[r]
  /\ run'[r].keyed => run[r].keyed
  /\ work'[r] # work[r] => work[r] # "none" \/ run[r].status = "queued"
  /\ hash' = hash

LEMMA TouchStep ==
  ASSUME IInv, NEW r \in Posts, Touches(r), \A p \in Posts : Stays(p)
  PROVE  CallerInv' /\ KeyInv'
<1>1. ASSUME NEW x \in Posts
      PROVE  /\ run[x].status # "none" <=> run'[x].status # "none"
             /\ run'[x].status = "queued" => run[x].status = "queued" /\ reserve'[x] = reserve[x]
             /\ run'[x].keyed => run[x].keyed
             /\ work[x] = "none" /\ run[x].status # "queued" => work'[x] = "none"
  BY DEF Touches
<1>2. CallerInv'
  <2> SUFFICES ASSUME NEW p \in Posts
               PROVE  /\ pc'[p] = "idle" => run'[p].status = "none"
                      /\ pc'[p] \in Held => target'[p] \in Posts /\ run'[target'[p]].status # "none"
                      /\ pc'[p] = "dispatch" /\ run'[target'[p]].status = "queued" =>
                           reserve'[target'[p]] # NoReserve
                      /\ pc'[p] \in {"release", "remove"} =>
                           /\ run'[target'[p]].status \notin {"none", "queued"}
                           /\ work'[target'[p]] = "none"
                      /\ pc'[p] = "remove" => ~run'[target'[p]].keyed
    BY DEF CallerInv
  <2>1. CASE pc'[p] = pc[p] /\ target'[p] = target[p]
    BY <1>1, <2>1 DEF IInv, CallerInv, Held
  <2>2. CASE pc'[p] \notin Held \cup {"idle"}
    BY <2>2 DEF Held
  <2>3. CASE /\ pc[p] \in Held /\ target'[p] = target[p]
             /\ \/ pc'[p] = "answered"
                \/ /\ pc'[p] \in {"release", "remove"}
                   /\ run'[target[p]].status \notin {"none", "queued"} /\ work'[target[p]] = "none"
                   /\ pc'[p] = "remove" => ~run'[target[p]].keyed
    BY <1>1, <2>3 DEF IInv, CallerInv, Held
  <2> QED
    BY <2>1, <2>2, <2>3 DEF Stays
<1>3. KeyInv'
  <2>1. \A p \in Posts : pc'[p] \in Held => /\ pc[p] \in Held /\ target'[p] = target[p]
                                           /\ target[p] \in Posts
    BY DEF Stays, IInv, CallerInv, Held
  <2>2. hash' = hash
    BY DEF Touches
  <2> QED
    BY <1>1, <2>1, <2>2 DEF IInv, KeyInv
<1> QED
  BY <1>2, <1>3

LEMMA DispatchStep ==
  ASSUME RunCreationAssumption, IInv, NEW p \in Posts, Dispatch(p)
  PROVE  IInv'
<1>1. /\ pc[p] = "dispatch" /\ target[p] \in Posts /\ run[target[p]].status # "none"
      /\ pc' = [pc EXCEPT ![p] = "answered"] /\ target' = target
      /\ UNCHANGED <<reserve, spent, hash, today, faults>>
  BY DEF IInv, CallerInv, Held, Dispatch, Answer, Move
<1>2. CASE run[target[p]].status # "queued"
  <2>1. UNCHANGED <<run, work>>
    BY <1>2 DEF Dispatch
  <2>2. Moves(p, "answered") /\ Founded(p, "answered")
    BY <1>1, <2>1 DEF Moves, Founded, Held, IInv, TypeOK
  <2>3. TypeOK'
    BY <1>1, <2>1 DEF IInv, TypeOK, Answers
  <2> QED
    BY <2>2, <2>3, MovesStep
<1>3. CASE run[target[p]].status = "queued"
  <2> DEFINE r == target[p]
  <2>1. /\ run' = [run EXCEPT ![r].status = "running"]
        /\ work' = [work EXCEPT ![r] = "working"] /\ r \in Posts
    BY <1>1, <1>3 DEF Dispatch
  <2>2. reserve[r] # NoReserve /\ reserve[r].settled = Unsettled /\ work[r] = "none" /\ spent[r] = 0
    BY <1>1, <1>3 DEF IInv, CallerInv, RowInv, MoneyInv
  <2> HIDE DEF r
  <2>3. /\ run'[r].status = "running" /\ run'[r].day = run[r].day /\ run'[r].keyed = run[r].keyed
        /\ work'[r] = "working" /\ run[r].status = "queued"
        /\ \A x \in Posts \ {r} : run'[x] = run[x] /\ work'[x] = work[x]
    BY <1>3, <2>1 DEF IInv, TypeOK, r
  <2>4. TypeOK'
    <3>1. run' \in [Posts -> [status : {"none", "queued", "running", "ready", "failed", "expired",
                                        "removed"}, day : Days, keyed : BOOLEAN]]
      BY <2>1 DEF IInv, TypeOK
    <3> QED
      BY <1>1, <2>1, <3>1 DEF IInv, TypeOK, Answers
  <2>5. Touches(r) /\ \A q \in Posts : Stays(q)
    <3>1. \A q \in Posts : Stays(q)
      BY <1>1 DEF Stays, IInv, TypeOK, Held
    <3> QED
      BY <1>1, <2>3, <3>1 DEF Touches
  <2>6. CallerInv' /\ KeyInv'
    BY <2>1, <2>5, TouchStep
  <2>7. RowInv' /\ MoneyInv'
    BY <1>1, <2>2, <2>3 DEF IInv, RowInv, MoneyInv
  <2>8. Shrinks
    BY <1>1, <2>3 DEF IInv, Shrinks, HoldOf, TypeOK, RunCreationAssumption
  <2> QED
    BY <2>4, <2>6, <2>7, <2>8, LimitsKept DEF IInv
<1> QED
  BY <1>2, <1>3

LEMMA FailRunStep ==
  ASSUME RunCreationAssumption, IInv, NEW p \in Posts, FailRun(p)
  PROVE  IInv'
<1>1. /\ pc[p] = "fail" /\ target[p] \in Posts /\ target' = target
      /\ UNCHANGED <<reserve, work, spent, hash, today, faults>>
  BY DEF IInv, CallerInv, Held, FailRun, Answer, Onward, Money
<1>2. CASE ~(target[p] \in Rows /\ run[target[p]].status = "queued")
  <2>1. UNCHANGED run /\ pc' = [pc EXCEPT ![p] = "answered"]
    BY <1>2 DEF FailRun, Answer, Move
  <2>2. Moves(p, "answered") /\ Founded(p, "answered")
    BY <1>1, <2>1 DEF Moves, Founded, Held, IInv, TypeOK
  <2>3. TypeOK'
    BY <1>1, <2>1 DEF IInv, TypeOK, Answers
  <2> QED
    BY <2>2, <2>3, MovesStep
<1>3. CASE target[p] \in Rows /\ run[target[p]].status = "queued"
  <2> DEFINE r == target[p]
  <2>1. run' = [run EXCEPT ![r].status = "failed"] /\ pc' = [pc EXCEPT ![p] = "release"] /\ r \in Posts
    BY <1>1, <1>3 DEF FailRun, Onward, Move
  <2> HIDE DEF r
  <2>2. /\ run'[r].status = "failed" /\ run'[r].day = run[r].day /\ run'[r].keyed = run[r].keyed
        /\ run[r].status = "queued" /\ \A x \in Posts \ {r} : run'[x] = run[x]
    BY <1>3, <2>1 DEF IInv, TypeOK, r
  <2>3. TypeOK'
    <3>1. run' \in [Posts -> [status : {"none", "queued", "running", "ready", "failed", "expired",
                                        "removed"}, day : Days, keyed : BOOLEAN]]
      BY <2>1 DEF IInv, TypeOK
    <3> QED
      BY <1>1, <2>1, <3>1 DEF IInv, TypeOK
  <2>4. RowInv' /\ MoneyInv'
    BY <1>1, <2>2 DEF IInv, RowInv, MoneyInv
  <2>5. work[r] = "none"
    BY <2>1, <2>2 DEF IInv, RowInv
  <2>6. \A q \in Posts : Stays(q)
    <3>1. Stays(p)
      BY <1>1, <2>1, <2>2, <2>5 DEF Stays, IInv, TypeOK, Held, r
    <3> QED
      BY <1>1, <2>1, <3>1 DEF Stays, IInv, TypeOK
  <2>7. Touches(r)
    BY <1>1, <2>2 DEF Touches
  <2>8. CallerInv' /\ KeyInv'
    BY <2>1, <2>6, <2>7, TouchStep
  <2>9. Shrinks
    BY <1>1, <2>2 DEF IInv, Shrinks, HoldOf, TypeOK, RunCreationAssumption
  <2> QED
    BY <2>3, <2>4, <2>8, <2>9, LimitsKept DEF IInv
<1> QED
  BY <1>2, <1>3

\* What a settlement leaves of a reservation.
LEMMA SettledRow ==
  ASSUME RunCreationAssumption, IInv, NEW r \in Posts, NEW amount \in 0..Price, Settled(r, amount)
  PROVE  /\ reserve' \in [Posts -> [day : Days \cup {-1}, settled : 0..Price \cup {Unsettled}]]
         /\ \A x \in Posts \ {r} : reserve'[x] = reserve[x]
         /\ reserve'[r].day = reserve[r].day
         /\ reserve[r] = NoReserve => reserve'[r] = NoReserve
         /\ reserve[r] # NoReserve => /\ reserve'[r] # NoReserve
                                      /\ reserve'[r].settled >= amount
                                      /\ reserve'[r].settled >= reserve[r].settled
                                      /\ reserve'[r].settled # Unsettled
<1>1. reserve[r] \in [day : Days \cup {-1}, settled : 0..Price \cup {Unsettled}]
  BY DEF IInv, TypeOK
<1>2. CASE r \in Rows /\ reserve[r] # NoReserve
  <2>1. reserve' = [reserve EXCEPT ![r] = [reserve[r] EXCEPT
                                             !.settled = Greatest(reserve[r].settled, amount)]]
    BY <1>2 DEF Settled
  <2>2. /\ Greatest(reserve[r].settled, amount) \in 0..Price
        /\ Greatest(reserve[r].settled, amount) >= amount
        /\ Greatest(reserve[r].settled, amount) >= reserve[r].settled
    BY <1>1 DEF Greatest, Unsettled, RunCreationAssumption
  <2>3. /\ reserve'[r].settled = Greatest(reserve[r].settled, amount)
        /\ reserve'[r].day = reserve[r].day
        /\ \A x \in Posts \ {r} : reserve'[x] = reserve[x]
    BY <2>1 DEF IInv, TypeOK
  <2>4. reserve' \in [Posts -> [day : Days \cup {-1}, settled : 0..Price \cup {Unsettled}]]
    BY <1>1, <2>1, <2>2 DEF IInv, TypeOK
  <2>5. reserve'[r] # NoReserve /\ reserve'[r].settled # Unsettled
    BY <2>2, <2>3 DEF NoReserve, Unsettled
  <2> QED
    BY <1>2, <2>2, <2>3, <2>4, <2>5
<1>3. CASE ~(r \in Rows /\ reserve[r] # NoReserve)
  <2>1. reserve' = reserve
    BY <1>3 DEF Settled
  <2>2. reserve[r] = NoReserve
    BY <1>3 DEF Rows, IInv, RowInv
  <2> QED
    BY <2>1, <2>2 DEF IInv, TypeOK
<1> QED
  BY <1>2, <1>3

LEMMA ReleaseStep ==
  ASSUME RunCreationAssumption, IInv, NEW p \in Posts, Release(p)
  PROVE  IInv'
<1> DEFINE r == target[p]
           step == IF run[r].keyed THEN "refused" ELSE "remove"
<1>1. /\ r \in Posts /\ pc[p] = "release" /\ Settled(r, 0)
      /\ run[r].status \notin {"none", "queued"} /\ work[r] = "none" /\ spent[r] = 0
      /\ UNCHANGED <<run, work, spent, hash, today, faults>>
  BY DEF IInv, CallerInv, MoneyInv, Held, Release
<1>2. /\ pc' = [pc EXCEPT ![p] = step] /\ target' \in [Posts -> Posts \cup {NoRun}]
      /\ \A q \in Posts \ {p} : target'[q] = target[q]
      /\ step = "remove" => target' = target /\ ~run[r].keyed
  BY DEF Release, Answer, Onward, Move, IInv, TypeOK
<1>3. step \in {"refused", "remove"}
  OBVIOUS
<1>r. r = target[p]
  OBVIOUS
<1> HIDE DEF r, step
<1>4. 0 \in 0..Price
  BY DEF RunCreationAssumption
<1>5. /\ reserve' \in [Posts -> [day : Days \cup {-1}, settled : 0..Price \cup {Unsettled}]]
      /\ \A x \in Posts \ {r} : reserve'[x] = reserve[x]
      /\ reserve'[r].day = reserve[r].day
      /\ reserve[r] = NoReserve => reserve'[r] = NoReserve
      /\ reserve[r] # NoReserve => reserve'[r].settled # Unsettled
  BY <1>1, <1>4, SettledRow
<1>6. TypeOK'
  BY <1>1, <1>2, <1>3, <1>5 DEF IInv, TypeOK, Answers
<1>7. RowInv' /\ MoneyInv'
  <2>1. RowInv'
    BY <1>1, <1>5 DEF IInv, RowInv
  <2>2. MoneyInv'
    BY <1>1, <1>5 DEF IInv, MoneyInv
  <2> QED BY <2>1, <2>2
<1>8. Touches(r)
  BY <1>1, <1>5 DEF Touches
<1>9. \A q \in Posts : Stays(q)
  <2>1. Stays(p)
    BY <1>1, <1>2, <1>3, <1>r DEF Stays, IInv, TypeOK, Held
  <2> QED
    BY <1>2, <2>1 DEF Stays, IInv, TypeOK
<1>10. CallerInv' /\ KeyInv'
  BY <1>1, <1>8, <1>9, TouchStep
<1>11. Shrinks
  <2>1. ASSUME reserve'[r].day \in Days
        PROVE  reserve'[r].settled # Unsettled
    <3>1. reserve[r] # NoReserve
      BY <1>5, <2>1 DEF NoReserve, Days, RunCreationAssumption
    <3> QED BY <1>5, <3>1
  <2>2. ASSUME NEW x \in Posts, reserve'[x].day \in Days
        PROVE  /\ reserve'[x].day = reserve[x].day /\ run'[x].day = run[x].day
               /\ HoldOf(reserve'[x], spent'[x]) <= HoldOf(reserve[x], spent[x])
    <3>1. Price \in Nat /\ spent[x] \in 0..Price /\ run'[x].day = run[x].day
      BY <1>1 DEF IInv, TypeOK, RunCreationAssumption
    <3>2. CASE x = r
      BY <1>1, <1>5, <2>1, <2>2, <3>1, <3>2 DEF HoldOf
    <3>3. CASE x # r
      BY <1>1, <1>5, <3>1, <3>3 DEF HoldOf
    <3> QED BY <3>2, <3>3
  <2> QED
    BY <2>2 DEF Shrinks
<1> QED
  BY <1>6, <1>7, <1>10, <1>11, LimitsKept DEF IInv

LEMMA RemoveRunStep ==
  ASSUME RunCreationAssumption, IInv, NEW p \in Posts, RemoveRun(p)
  PROVE  IInv'
<1> DEFINE r == target[p]
<1>1. /\ r \in Posts /\ pc[p] = "remove" /\ pc' = [pc EXCEPT ![p] = "refused"]
      /\ run[r].status \notin {"none", "queued"} /\ work[r] = "none" /\ ~run[r].keyed
      /\ run' = [run EXCEPT ![r].status = "removed"]
      /\ reserve' = [reserve EXCEPT ![r] = NoReserve]
      /\ target' = [target EXCEPT ![p] = NoRun]
      /\ UNCHANGED <<work, spent, hash, today, faults>>
  BY DEF IInv, CallerInv, Held, RemoveRun, Answer, Move
<1> HIDE DEF r
<1>2. /\ run'[r].status = "removed" /\ run'[r].day = run[r].day /\ run'[r].keyed = run[r].keyed
      /\ reserve'[r] = NoReserve
      /\ \A x \in Posts \ {r} : run'[x] = run[x] /\ reserve'[x] = reserve[x]
  BY <1>1 DEF IInv, TypeOK
<1>3. TypeOK'
  <2>1. run' \in [Posts -> [status : {"none", "queued", "running", "ready", "failed", "expired",
                                      "removed"}, day : Days, keyed : BOOLEAN]]
    BY <1>1 DEF IInv, TypeOK
  <2>2. reserve' \in [Posts -> [day : Days \cup {-1}, settled : 0..Price \cup {Unsettled}]]
    BY <1>1 DEF IInv, TypeOK, NoReserve
  <2> QED
    BY <1>1, <2>1, <2>2 DEF IInv, TypeOK, Answers
<1>4. RowInv' /\ MoneyInv'
  BY <1>1, <1>2 DEF IInv, RowInv, MoneyInv
<1>5. Touches(r) /\ \A q \in Posts : Stays(q)
  <2>1. Touches(r)
    BY <1>1, <1>2 DEF Touches
  <2>2. \A q \in Posts : Stays(q)
    BY <1>1 DEF Stays, IInv, TypeOK, Held
  <2> QED BY <2>1, <2>2
<1>6. CallerInv' /\ KeyInv'
  BY <1>1, <1>5, TouchStep
<1>7. Shrinks
  BY <1>1, <1>2
  DEF IInv, Shrinks, HoldOf, TypeOK, RunCreationAssumption, NoReserve, Days
<1> QED
  BY <1>3, <1>4, <1>6, <1>7, LimitsKept DEF IInv

-----------------------------------------------------------------------------
(* The reservation *)

\* A reservation commits as much as its run may still cost.
LEMMA CommittedCovers ==
  ASSUME RunCreationAssumption, IInv, NEW day \in Days
  PROVE  /\ Committed(day) \in Nat /\ Total(Holds, ReservedOn(day)) \in Nat
         /\ Total(Holds, ReservedOn(day)) <= Committed(day)
<1> DEFINE f == [r \in Posts |-> IF reserve[r].settled = Unsettled THEN Price
                                 ELSE reserve[r].settled]
           D == ReservedOn(day)
<1>1. Reserved(day) = D
  BY DEF Reserved, ReservedOn, Rows, IInv, RowInv, NoReserve, Days, RunCreationAssumption
<1>2. IsFiniteSet(D) /\ D \in SUBSET Posts
  BY FS_Subset DEF RunCreationAssumption, ReservedOn
<1>3. \A r \in D : f[r] \in Nat
  BY <1>2 DEF IInv, TypeOK, RunCreationAssumption
<1>4. Committed(day) = Total(f, D)
  <2> HIDE DEF D
  <2>1. \A s \in SUBSET D : s # {} => Pick(s) \in Posts
    BY <1>2 DEF Pick
  <2> HIDE DEF f
  <2>2. PICK g : Sums(g, f, D) /\ Total(f, D) = g[D]
    BY <1>2, <1>3, TotalSums
  <2>3. g = [s \in SUBSET D |-> IF s = {} THEN 0
                                ELSE (IF reserve[Pick(s)].settled = Unsettled THEN Price
                                      ELSE reserve[Pick(s)].settled) + g[s \ {Pick(s)}]]
    BY <2>1, <2>2 DEF Sums, f
  <2> DEFINE Rec(h) == h = [s \in SUBSET D |-> IF s = {} THEN 0
                                ELSE (IF reserve[Pick(s)].settled = Unsettled THEN Price
                                      ELSE reserve[Pick(s)].settled) + h[s \ {Pick(s)}]]
  <2>4. \E h : Rec(h) /\ Committed(day) = h[D]
    <3> DEFINE it == CHOOSE h : Rec(h)
    <3>1. Rec(g)
      BY <2>3
    <3>2. Rec(it)
      <4> HIDE DEF Rec
      <4> QED BY <3>1
    <3>3. Committed(day) = it[Reserved(day)]
      BY <1>1 DEF Committed, MapThenSumSet, MapThenFoldSet, Pick
    <3> QED BY <1>1, <3>2, <3>3
  <2>5. PICK h : Rec(h) /\ Committed(day) = h[D]
    BY <2>4
  <2>6. Sums(h, f, D)
    BY <2>1, <2>5 DEF Sums, f
  <2>7. D \in SUBSET D /\ \A r \in D : f[r] <= f[r]
    BY <1>3
  <2>8. g[D] <= h[D] /\ h[D] <= g[D]
    <3>1. g[D] <= h[D]
      BY <1>2, <1>3, <2>2, <2>6, <2>7, SumIsMonotone
    <3>2. h[D] <= g[D]
      BY <1>2, <1>3, <2>2, <2>6, <2>7, SumIsMonotone
    <3> QED BY <3>1, <3>2
  <2>9. g[D] \in Nat /\ h[D] \in Nat
    <3>1. g[D] \in Nat
      BY <1>2, <1>3, <2>2, <2>7, SumIsNatural
    <3>2. h[D] \in Nat
      BY <1>2, <1>3, <2>6, <2>7, SumIsNatural
    <3> QED BY <3>1, <3>2
  <2> QED
    BY <2>2, <2>5, <2>8, <2>9
<1>5. \A r \in D : Holds[r] \in Nat /\ Holds[r] <= f[r]
  BY <1>2 DEF IInv, TypeOK, MoneyInv, Holds, HoldOf, RunCreationAssumption
<1> HIDE DEF f, D
<1>6. /\ Total(Holds, D) <= Total(f, D) /\ Total(Holds, D) \in Nat /\ Total(f, D) \in Nat
  BY <1>2, <1>3, <1>5, TotalShrinks
<1> QED
  BY <1>4, <1>6 DEF D

\* A reservation that is granted: the cap and the quota are counted with it.
Books(r) ==
  /\ r \in Rows /\ reserve[r] = NoReserve /\ Granted(r)
  /\ reserve' = [reserve EXCEPT ![r].day = today]
  /\ UNCHANGED <<run, work, spent, hash, today>>

LEMMA BookedRow ==
  ASSUME RunCreationAssumption, IInv, NEW r \in Posts, Books(r)
  PROVE  /\ reserve' \in [Posts -> [day : Days \cup {-1}, settled : 0..Price \cup {Unsettled}]]
         /\ reserve'[r] = [day |-> today, settled |-> Unsettled] /\ reserve'[r] # NoReserve
         /\ work[r] = "none" /\ today \in Days /\ today # -1
         /\ \A x \in Posts \ {r} : reserve'[x] = reserve[x]
<1>1. today \in Days /\ today # -1
  BY DEF IInv, TypeOK, Days, RunCreationAssumption
<1>2. /\ reserve[r] = NoReserve
      /\ reserve' = [reserve EXCEPT ![r] = [reserve[r] EXCEPT !.day = today]]
  BY DEF Books
<1>3. [reserve[r] EXCEPT !.day = today] = [day |-> today, settled |-> Unsettled]
  BY <1>2 DEF NoReserve
<1>4. reserve' = [reserve EXCEPT ![r] = [day |-> today, settled |-> Unsettled]]
  BY <1>2, <1>3
<1>5. work[r] = "none"
  BY <1>2 DEF IInv, MoneyInv
<1> QED
  BY <1>1, <1>4, <1>5 DEF IInv, TypeOK, NoReserve

LEMMA BooksWithinLimits ==
  ASSUME RunCreationAssumption, IInv, NEW r \in Posts, Books(r)
  PROVE  CapInv' /\ QuotaInv'
<1>1. /\ reserve[r] = NoReserve /\ reserve'[r] = [day |-> today, settled |-> Unsettled]
      /\ today \in Days /\ \A x \in Posts \ {r} : reserve'[x] = reserve[x]
      /\ UNCHANGED <<run, spent>>
  BY BookedRow DEF Books
<1>2. Holds' = Holds /\ Holds[r] = Price
  BY <1>1 DEF Holds, HoldOf, NoReserve
<1>3. r \notin ReservedOn(today)
  BY <1>1 DEF ReservedOn, NoReserve, Days, RunCreationAssumption
<1>4. ASSUME NEW day \in Days
      PROVE  Total(Holds', ReservedOn(day)') <= DailyCap
  <2>1. CASE day # today
    <3>1. ReservedOn(day)' = ReservedOn(day)
      BY <1>1, <2>1 DEF ReservedOn, NoReserve, Days, RunCreationAssumption
    <3> QED
      BY <1>2, <3>1 DEF IInv, CapInv
  <2>2. CASE day = today
    <3>1. ReservedOn(day)' = ReservedOn(day) \cup {r}
      BY <1>1, <2>2 DEF ReservedOn
    <3>2. IsFiniteSet(ReservedOn(day)) /\ \A x \in ReservedOn(day) \cup {r} : Holds[x] \in Nat
      <4>1. IsFiniteSet(ReservedOn(day))
        BY FS_Subset DEF RunCreationAssumption, ReservedOn
      <4>2. TypeOK
        BY DEF IInv
      <4> QED
        BY <4>1, <4>2, HoldsAreNatural DEF ReservedOn
    <3>3. Total(Holds, ReservedOn(day) \cup {r}) = Total(Holds, ReservedOn(day)) + Price
      BY <1>2, <1>3, <2>2, <3>2, TotalAdds
    <3>4. /\ Committed(day) \in Nat /\ Total(Holds, ReservedOn(day)) \in Nat
          /\ Total(Holds, ReservedOn(day)) <= Committed(day)
      BY CommittedCovers
    <3>5. Committed(day) + Price <= DailyCap /\ Price \in Nat /\ DailyCap \in Nat
      BY <2>2 DEF Books, Granted, RunCreationAssumption
    <3>6. Total(Holds, ReservedOn(day)) + Price <= DailyCap
      BY <3>4, <3>5
    <3> QED
      BY <1>2, <3>1, <3>3, <3>6
  <2> QED
    BY <2>1, <2>2
<1>5. CapInv'
  BY <1>4 DEF CapInv, Total, MapThenSumSet, MapThenFoldSet
<1>6. ASSUME NEW q \in Posts, NEW day \in Days
      PROVE  Cardinality(CountedOn(QuotaKey[q], day)') <= RunsPerDay
  <2>1. CASE r \notin CountedOn(QuotaKey[q], day)'
    <3>1. CountedOn(QuotaKey[q], day)' \subseteq CountedOn(QuotaKey[q], day)
      BY <1>1, <2>1 DEF CountedOn
    <3>2. IsFiniteSet(CountedOn(QuotaKey[q], day))
      BY FS_Subset DEF RunCreationAssumption, CountedOn
    <3>3. /\ Cardinality(CountedOn(QuotaKey[q], day)') <= Cardinality(CountedOn(QuotaKey[q], day))
          /\ Cardinality(CountedOn(QuotaKey[q], day)') \in Nat
          /\ Cardinality(CountedOn(QuotaKey[q], day)) \in Nat
      BY <3>1, <3>2, FS_Subset, FS_CardinalityType
    <3>4. Cardinality(CountedOn(QuotaKey[q], day)) <= RunsPerDay /\ RunsPerDay \in Nat
      BY DEF IInv, QuotaInv, RunCreationAssumption
    <3> QED
      BY <3>3, <3>4
  <2>2. CASE r \in CountedOn(QuotaKey[q], day)'
    <3>1. day = today /\ QuotaKey[q] = QuotaKey[r]
      BY <1>1, <2>2 DEF CountedOn
    <3>2. CountedOn(QuotaKey[q], day)' \subseteq CreatedToday(QuotaKey[r])
      <4> SUFFICES ASSUME NEW x \in CountedOn(QuotaKey[q], day)'
                   PROVE  x \in CreatedToday(QuotaKey[r])
        OBVIOUS
      <4>1. x \in Posts /\ QuotaKey[x] = QuotaKey[r] /\ run[x].day = today /\ reserve'[x].day = today
        BY <1>1, <3>1 DEF CountedOn
      <4>2. x \in Rows
        <5>1. CASE x = r
          BY <5>1 DEF Books
        <5>2. CASE x # r
          BY <1>1, <4>1, <5>2
          DEF IInv, RowInv, Rows, NoReserve, Days, RunCreationAssumption
        <5> QED BY <5>1, <5>2
      <4> QED
        BY <4>1, <4>2 DEF CreatedToday
    <3>3. IsFiniteSet(CreatedToday(QuotaKey[r]))
      BY FS_Subset DEF RunCreationAssumption, CreatedToday, Rows
    <3>4. /\ Cardinality(CountedOn(QuotaKey[q], day)') <= Cardinality(CreatedToday(QuotaKey[r]))
          /\ Cardinality(CountedOn(QuotaKey[q], day)') \in Nat
          /\ Cardinality(CreatedToday(QuotaKey[r])) \in Nat
      BY <3>2, <3>3, FS_Subset, FS_CardinalityType
    <3>5. Cardinality(CreatedToday(QuotaKey[r])) <= RunsPerDay /\ RunsPerDay \in Nat
      BY DEF Books, Granted, WithinQuota, RunCreationAssumption
    <3> QED
      BY <3>4, <3>5
  <2> QED
    BY <2>1, <2>2
<1>7. QuotaInv'
  BY <1>6 DEF QuotaInv
<1> QED
  BY <1>5, <1>7

LEMMA ReserveStep ==
  ASSUME RunCreationAssumption, IInv, NEW p \in Posts, Reserve(p)
  PROVE  IInv'
<1> DEFINE r == target[p]
<1>1. /\ pc[p] = "reserve" /\ r \in Posts
      /\ UNCHANGED <<run, work, spent, hash, target, today>>
  BY DEF IInv, CallerInv, Held, Reserve
<1>2. CASE /\ r \in Rows /\ reserve[r] # NoReserve
           /\ Move(p, "dispatch") /\ UNCHANGED <<reserve, faults>>
  <2>1. Moves(p, "dispatch") /\ Founded(p, "dispatch")
    BY <1>1, <1>2 DEF Moves, Move, Founded, Held, IInv, TypeOK
  <2>2. TypeOK'
    BY <1>1, <1>2 DEF Move, IInv, TypeOK
  <2> QED
    BY <2>1, <2>2, MovesStep
<1>3. CASE Move(p, "fail") /\ UNCHANGED <<reserve, faults>>
  <2>1. Moves(p, "fail") /\ Founded(p, "fail")
    BY <1>1, <1>3 DEF Moves, Move, Founded, Held, IInv, TypeOK
  <2>2. TypeOK'
    BY <1>1, <1>3 DEF Move, IInv, TypeOK
  <2> QED
    BY <2>1, <2>2, MovesStep
<1>4. CASE /\ r \in Rows /\ reserve[r] = NoReserve /\ Granted(r)
           /\ reserve' = [reserve EXCEPT ![r].day = today]
           /\ \/ Move(p, "dispatch") /\ UNCHANGED faults
              \/ Fault /\ Move(p, "fail")
  <2> HIDE DEF r
  <2>1. Books(r)
    BY <1>1, <1>4 DEF Books
  <2>2. /\ reserve' \in [Posts -> [day : Days \cup {-1}, settled : 0..Price \cup {Unsettled}]]
        /\ reserve'[r] = [day |-> today, settled |-> Unsettled] /\ reserve'[r] # NoReserve
        /\ work[r] = "none" /\ today \in Days /\ today # -1
        /\ \A x \in Posts \ {r} : reserve'[x] = reserve[x]
    BY <1>1, <2>1, BookedRow
  <2>3. /\ \A q \in Posts \ {p} : pc'[q] = pc[q] /\ pc'[p] \in {"dispatch", "fail"}
        /\ pc' \in [Posts -> {"idle", "lookup", "active", "reserve", "dispatch", "fail", "release",
                              "remove"} \cup Answers]
        /\ pc'[p] \in {"dispatch", "fail"}
    BY <1>4 DEF Move, IInv, TypeOK
  <2>4. TypeOK'
    <3>1. faults' \in 0..MaxFaults
      BY <1>4 DEF Fault, IInv, TypeOK, RunCreationAssumption
    <3> QED
      BY <1>1, <2>2, <2>3, <3>1 DEF IInv, TypeOK
  <2>5. RowInv'
    BY <1>1, <1>4, <2>2 DEF IInv, RowInv, Rows
  <2>6. CallerInv'
    <3>1. \A x \in Posts : reserve[x] # NoReserve => reserve'[x] # NoReserve
      BY <2>2
    <3>2. run[r].status \notin {"none"} /\ target[p] = r
      BY <1>4 DEF Rows, r
    <3>3. ASSUME NEW q \in Posts \ {p}
          PROVE  /\ pc'[q] = "idle" => run'[q].status = "none"
                 /\ pc'[q] \in Held => target'[q] \in Posts /\ run'[target'[q]].status # "none"
                 /\ pc'[q] = "dispatch" /\ run'[target'[q]].status = "queued" =>
                      reserve'[target'[q]] # NoReserve
                 /\ pc'[q] \in {"release", "remove"} =>
                      run'[target'[q]].status \notin {"none", "queued"} /\ work'[target'[q]] = "none"
                 /\ pc'[q] = "remove" => ~run'[target'[q]].keyed
      BY <1>1, <2>3, <3>1 DEF IInv, CallerInv, Held
    <3>4. /\ pc'[p] \in {"dispatch", "fail"} /\ target'[p] = r /\ run'[r].status # "none"
          /\ reserve'[r] # NoReserve /\ r \in Posts
      BY <1>1, <2>2, <2>3, <3>2
    <3> QED
      BY <3>3, <3>4 DEF CallerInv
  <2>7. KeyInv'
    BY <1>1, <2>3 DEF IInv, KeyInv, Held
  <2>8. MoneyInv'
    BY <1>1, <2>2 DEF IInv, MoneyInv
  <2>9. CapInv' /\ QuotaInv'
    BY <1>1, <2>1, BooksWithinLimits
  <2> QED
    BY <2>4, <2>5, <2>6, <2>7, <2>8, <2>9 DEF IInv
<1> QED
  BY <1>2, <1>3, <1>4 DEF Reserve

-----------------------------------------------------------------------------
(* The run, its owner and the day *)

Requests == <<pc, target, today, faults>>

LEMMA RequestsStay ==
  ASSUME UNCHANGED Requests
  PROVE  \A p \in Posts : Stays(p)
BY DEF Requests, Stays

LEMMA PayStep ==
  ASSUME RunCreationAssumption, IInv, NEW r \in Posts, Pay(r)
  PROVE  IInv'
<1>1. /\ work[r] = "working" /\ work' = [work EXCEPT ![r] = "paid"]
      /\ UNCHANGED <<run, reserve, hash, pc, target, today, faults>>
  BY DEF Pay
<1>2. PICK cost \in 0..Price : spent' = [spent EXCEPT ![r] = cost]
  BY DEF Pay, RunCreationAssumption
<1>3. reserve[r].settled = Unsettled /\ reserve[r] # NoReserve
  BY <1>1 DEF IInv, MoneyInv
<1>4. run[r].status \notin {"none", "queued", "removed"}
  BY <1>1 DEF IInv, RowInv
<1>5. /\ work'[r] = "paid" /\ spent'[r] = cost
      /\ \A x \in Posts \ {r} : work'[x] = work[x] /\ spent'[x] = spent[x]
  BY <1>1, <1>2 DEF IInv, TypeOK
<1>6. TypeOK'
  BY <1>1, <1>2 DEF IInv, TypeOK
<1>7. RowInv' /\ MoneyInv'
  BY <1>1, <1>3, <1>4, <1>5 DEF IInv, RowInv, MoneyInv
<1>8. Touches(r)
  BY <1>1, <1>4, <1>5 DEF Touches
<1>9. CallerInv' /\ KeyInv'
  BY <1>1, <1>8, RequestsStay, TouchStep DEF Requests
<1>10. Shrinks
  BY <1>1, <1>3, <1>5 DEF IInv, Shrinks, HoldOf, TypeOK, RunCreationAssumption
<1> QED
  BY <1>6, <1>7, <1>9, <1>10, LimitsKept DEF IInv

LEMMA SettleCostStep ==
  ASSUME RunCreationAssumption, IInv, NEW r \in Posts, SettleCost(r)
  PROVE  IInv'
<1>1. /\ work[r] = "paid" /\ work' = [work EXCEPT ![r] = "settled"] /\ Settled(r, spent[r])
      /\ UNCHANGED <<run, spent, hash, pc, target, today, faults>>
  BY DEF SettleCost
<1>2. /\ reserve[r].settled = Unsettled /\ reserve[r] # NoReserve /\ spent[r] \in 0..Price
      /\ run[r].status \notin {"none", "queued", "removed"}
  BY <1>1 DEF IInv, MoneyInv, RowInv, TypeOK
<1>3. /\ reserve' \in [Posts -> [day : Days \cup {-1}, settled : 0..Price \cup {Unsettled}]]
      /\ \A x \in Posts \ {r} : reserve'[x] = reserve[x]
      /\ reserve'[r].day = reserve[r].day /\ reserve'[r] # NoReserve
      /\ reserve'[r].settled >= spent[r] /\ reserve'[r].settled # Unsettled
  BY <1>1, <1>2, SettledRow
<1>4. work'[r] = "settled" /\ \A x \in Posts \ {r} : work'[x] = work[x]
  BY <1>1 DEF IInv, TypeOK
<1>5. TypeOK'
  BY <1>1, <1>3 DEF IInv, TypeOK
<1>6. RowInv' /\ MoneyInv'
  BY <1>1, <1>2, <1>3, <1>4 DEF IInv, RowInv, MoneyInv
<1>7. Touches(r)
  BY <1>1, <1>2, <1>3, <1>4 DEF Touches
<1>8. CallerInv' /\ KeyInv'
  BY <1>1, <1>7, RequestsStay, TouchStep DEF Requests
<1>9. Shrinks
  BY <1>1, <1>2, <1>3 DEF IInv, Shrinks, HoldOf, TypeOK, RunCreationAssumption
<1> QED
  BY <1>5, <1>6, <1>8, <1>9, LimitsKept DEF IInv

LEMMA PublishStep ==
  ASSUME RunCreationAssumption, IInv, NEW r \in Posts, Publish(r)
  PROVE  IInv'
<1>1. /\ work[r] = "settled" /\ work' = [work EXCEPT ![r] = "over"]
      /\ run[r].status = "running" /\ run' = [run EXCEPT ![r].status = "ready"]
      /\ UNCHANGED <<reserve, spent, hash, pc, target, today, faults>>
  BY DEF Publish
<1>2. /\ run'[r].status = "ready" /\ run'[r].day = run[r].day /\ run'[r].keyed = run[r].keyed
      /\ work'[r] = "over"
      /\ \A x \in Posts \ {r} : run'[x] = run[x] /\ work'[x] = work[x]
  BY <1>1 DEF IInv, TypeOK
<1>3. TypeOK'
  <2>1. run' \in [Posts -> [status : {"none", "queued", "running", "ready", "failed", "expired",
                                      "removed"}, day : Days, keyed : BOOLEAN]]
    BY <1>1 DEF IInv, TypeOK
  <2> QED
    BY <1>1, <2>1 DEF IInv, TypeOK
<1>4. RowInv' /\ MoneyInv'
  BY <1>1, <1>2 DEF IInv, RowInv, MoneyInv
<1>5. Touches(r)
  BY <1>1, <1>2 DEF Touches
<1>6. CallerInv' /\ KeyInv'
  BY <1>1, <1>5, RequestsStay, TouchStep DEF Requests
<1>7. Shrinks
  BY <1>1, <1>2 DEF IInv, Shrinks, HoldOf, TypeOK, RunCreationAssumption
<1> QED
  BY <1>3, <1>4, <1>6, <1>7, LimitsKept DEF IInv

LEMMA FailWorkStep ==
  ASSUME RunCreationAssumption, IInv, NEW r \in Posts, FailWork(r)
  PROVE  IInv'
<1>1. /\ work[r] \in {"working", "paid", "settled"} /\ work' = [work EXCEPT ![r] = "over"]
      /\ Settled(r, Price)
      /\ UNCHANGED <<spent, hash, pc, target, today, faults>>
  BY DEF FailWork, FailureSettlement
<1>2. /\ reserve[r] # NoReserve /\ spent[r] \in 0..Price
      /\ run[r].status \notin {"none", "queued", "removed"}
  BY <1>1 DEF IInv, MoneyInv, RowInv, TypeOK
<1>3. Price \in 0..Price
  BY DEF RunCreationAssumption
<1>4. /\ reserve' \in [Posts -> [day : Days \cup {-1}, settled : 0..Price \cup {Unsettled}]]
      /\ \A x \in Posts \ {r} : reserve'[x] = reserve[x]
      /\ reserve'[r].day = reserve[r].day /\ reserve'[r] # NoReserve
      /\ reserve'[r].settled >= Price /\ reserve'[r].settled # Unsettled
  BY <1>1, <1>2, <1>3, SettledRow
<1>5. /\ run'[r].status \notin {"none", "queued", "removed"} /\ run'[r].day = run[r].day
      /\ run'[r].keyed = run[r].keyed /\ \A x \in Posts \ {r} : run'[x] = run[x]
      /\ run' \in [Posts -> [status : {"none", "queued", "running", "ready", "failed", "expired",
                                       "removed"}, day : Days, keyed : BOOLEAN]]
  <2>1. CASE run[r].status = "running"
    <3>1. run' = [run EXCEPT ![r].status = "failed"]
      BY <2>1 DEF FailWork
    <3> QED
      BY <3>1 DEF IInv, TypeOK
  <2>2. CASE run[r].status # "running"
    <3>1. run' = run
      BY <2>2 DEF FailWork
    <3> QED
      BY <1>2, <3>1 DEF IInv, TypeOK
  <2> QED BY <2>1, <2>2
<1>6. work'[r] = "over" /\ \A x \in Posts \ {r} : work'[x] = work[x]
  BY <1>1 DEF IInv, TypeOK
<1>7. TypeOK'
  BY <1>1, <1>4, <1>5 DEF IInv, TypeOK
<1>8. RowInv' /\ MoneyInv'
  <2>1. reserve'[r].settled >= spent[r]
    BY <1>2, <1>3, <1>4 DEF TypeOK, RunCreationAssumption, Unsettled
  <2>2. RowInv'
    BY <1>1, <1>2, <1>4, <1>5, <1>6 DEF IInv, RowInv
  <2>3. MoneyInv'
    BY <1>1, <1>4, <1>6, <2>1 DEF IInv, MoneyInv
  <2> QED BY <2>2, <2>3
<1>9. Touches(r)
  BY <1>1, <1>2, <1>4, <1>5, <1>6 DEF Touches
<1>10. CallerInv' /\ KeyInv'
  BY <1>1, <1>9, RequestsStay, TouchStep DEF Requests
<1>11. Shrinks
  BY <1>1, <1>2, <1>4, <1>5 DEF IInv, Shrinks, HoldOf, TypeOK, RunCreationAssumption
<1> QED
  BY <1>7, <1>8, <1>10, <1>11, LimitsKept DEF IInv

LEMMA ExpireStep ==
  ASSUME RunCreationAssumption, IInv, NEW r \in Posts, Expire(r)
  PROVE  IInv'
<1>1. /\ r \in Rows /\ UNCHANGED <<reserve, work, spent, hash, pc, target, today, faults>>
      /\ run' = [run EXCEPT ![r] = [run[r] EXCEPT !.status = "expired", !.keyed = FALSE]]
  BY DEF Expire, Money, IInv, TypeOK
<1>2. /\ run'[r].status = "expired" /\ run'[r].day = run[r].day /\ ~run'[r].keyed
      /\ run[r].status \notin {"none", "removed"}
      /\ \A x \in Posts \ {r} : run'[x] = run[x]
  BY <1>1 DEF IInv, TypeOK, Rows
<1>3. TypeOK'
  <2>1. run' \in [Posts -> [status : {"none", "queued", "running", "ready", "failed", "expired",
                                      "removed"}, day : Days, keyed : BOOLEAN]]
    <3>1. run \in [Posts -> [status : {"none", "queued", "running", "ready", "failed", "expired",
                                      "removed"}, day : Days, keyed : BOOLEAN]]
      BY DEF IInv, TypeOK
    <3>2. [run[r] EXCEPT !.status = "expired", !.keyed = FALSE]
            \in [status : {"none", "queued", "running", "ready", "failed", "expired", "removed"},
                day : Days, keyed : BOOLEAN]
      BY <3>1
    <3> QED
      BY <1>1, <3>1, <3>2
  <2> QED
    BY <1>1, <2>1 DEF IInv, TypeOK
<1>4. RowInv' /\ MoneyInv'
  BY <1>1, <1>2 DEF IInv, RowInv, MoneyInv
<1>5. Touches(r)
  BY <1>1, <1>2 DEF Touches
<1>6. CallerInv' /\ KeyInv'
  BY <1>1, <1>5, RequestsStay, TouchStep DEF Requests
<1>7. Shrinks
  BY <1>1, <1>2 DEF IInv, Shrinks, HoldOf, TypeOK, RunCreationAssumption
<1> QED
  BY <1>3, <1>4, <1>6, <1>7, LimitsKept DEF IInv

\* A day later, or nothing at all.
LEMMA RestStep ==
  ASSUME RunCreationAssumption, IInv, NextDay \/ UNCHANGED vars
  PROVE  IInv'
<1>1. UNCHANGED <<run, reserve, work, spent, hash, pc, target, faults>>
  BY DEF NextDay, vars, Money
<1>2. today' \in Days
  BY DEF NextDay, vars, IInv, TypeOK, Days, RunCreationAssumption
<1>3. TypeOK'
  BY <1>1, <1>2 DEF IInv, TypeOK
<1>4. RowInv' /\ CallerInv' /\ KeyInv' /\ MoneyInv'
  BY <1>1 DEF IInv, RowInv, CallerInv, KeyInv, MoneyInv
<1>5. Shrinks
  BY <1>1 DEF IInv, Shrinks, HoldOf, TypeOK, RunCreationAssumption
<1> QED
  BY <1>3, <1>4, <1>5, LimitsKept DEF IInv

LEMMA InductiveStep == ASSUME RunCreationAssumption, IInv, [Next]_vars PROVE IInv'
<1>1. ASSUME NEW q \in Posts, PostStep(q) PROVE IInv'
  BY <1>1, InsertStep, InsertMissesStep, LookupStep, LookupActiveStep DEF PostStep
<1>2. ASSUME NEW p \in Posts, AdmissionStep(p) PROVE IInv'
  BY <1>2, ReserveStep, DispatchStep, FailRunStep, ReleaseStep, RemoveRunStep, DieStep
  DEF AdmissionStep
<1>3. ASSUME NEW r \in Posts, RunStep(r) PROVE IInv'
  BY <1>3, PayStep, SettleCostStep, PublishStep, FailWorkStep, ExpireStep DEF RunStep
<1> QED
  BY <1>1, <1>2, <1>3, RestStep DEF Next

-----------------------------------------------------------------------------
(* What the invariant is for *)

LEMMA Solvent == ASSUME RunCreationAssumption, IInv PROVE SpendWithinCap
<1> SUFFICES ASSUME NEW day \in Days
             PROVE  Total(spent, ReservedOn(day)) <= DailyCap
  BY DEF SpendWithinCap, Total, ReservedOn
<1>1. IsFiniteSet(ReservedOn(day))
  BY FS_Subset DEF RunCreationAssumption, ReservedOn
<1>2. TypeOK
  BY DEF IInv
<1>3. \A r \in ReservedOn(day) : Holds[r] \in Nat
  BY <1>2, HoldsAreNatural DEF ReservedOn
<1>4. \A r \in ReservedOn(day) : spent[r] \in Nat /\ spent[r] <= Holds[r]
  BY <1>2 DEF ReservedOn, TypeOK, Holds, HoldOf, RunCreationAssumption
<1>5. ReservedOn(day) \in SUBSET ReservedOn(day)
  OBVIOUS
<1>6. /\ Total(spent, ReservedOn(day)) <= Total(Holds, ReservedOn(day))
      /\ Total(spent, ReservedOn(day)) \in Nat /\ Total(Holds, ReservedOn(day)) \in Nat
  BY <1>1, <1>3, <1>4, <1>5, TotalShrinks
<1>7. Total(Holds, ReservedOn(day)) <= DailyCap /\ DailyCap \in Nat
  BY DEF IInv, CapInv, RunCreationAssumption
<1> QED
  BY <1>6, <1>7

LEMMA WithinTheQuota == ASSUME RunCreationAssumption, IInv PROVE AdmittedWithinQuota
<1> SUFFICES ASSUME NEW q \in Posts, NEW day \in Days
             PROVE  Cardinality({r \in Posts : /\ QuotaKey[r] = QuotaKey[q] /\ work[r] # "none"
                                               /\ run[r].day = day /\ reserve[r].day = day})
                      <= RunsPerDay
  BY DEF AdmittedWithinQuota
<1> DEFINE D == {r \in Posts : /\ QuotaKey[r] = QuotaKey[q] /\ work[r] # "none"
                               /\ run[r].day = day /\ reserve[r].day = day}
<1>1. D \subseteq CountedOn(QuotaKey[q], day) /\ IsFiniteSet(CountedOn(QuotaKey[q], day))
  BY FS_Subset DEF CountedOn, RunCreationAssumption
<1> HIDE DEF D
<1>2. /\ Cardinality(D) <= Cardinality(CountedOn(QuotaKey[q], day))
      /\ Cardinality(D) \in Nat /\ Cardinality(CountedOn(QuotaKey[q], day)) \in Nat
  BY <1>1, FS_Subset, FS_CardinalityType
<1>3. Cardinality(CountedOn(QuotaKey[q], day)) <= RunsPerDay /\ RunsPerDay \in Nat
  BY DEF IInv, QuotaInv, RunCreationAssumption
<1>4. Cardinality(D) <= RunsPerDay
  BY <1>2, <1>3
<1> QED
  BY <1>4 DEF D

LEMMA Funded == ASSUME IInv PROVE DispatchIsFunded
BY DEF IInv, MoneyInv, DispatchIsFunded

LEMMA Agreed == ASSUME IInv PROVE KeyedAnswersAgree
<1> SUFFICES ASSUME NEW p \in Posts, NEW q \in Posts,
                    pc[p] = "answered", pc[q] = "answered",
                    Key[p] # NoKey, Owner[p] = Owner[q], Key[p] = Key[q],
                    run[target[p]].keyed, run[target[q]].keyed
             PROVE  target[p] = target[q] /\ hash[p] = hash[q]
  BY DEF KeyedAnswersAgree
<1>1. target[p] \in Posts /\ target[q] \in Posts
  BY DEF IInv, CallerInv, Held
<1>2. /\ Owner[target[p]] = Owner[p] /\ Key[target[p]] = Key[p] /\ hash[target[p]] = hash[p]
      /\ Owner[target[q]] = Owner[q] /\ Key[target[q]] = Key[q] /\ hash[target[q]] = hash[q]
  BY DEF IInv, KeyInv, Held
<1>3. target[p] = target[q]
  BY <1>1, <1>2 DEF IInv, KeyInv
<1> QED
  BY <1>2, <1>3

LEMMA Invariant == RunCreationAssumption => (Spec => []IInv)
<1> SUFFICES ASSUME RunCreationAssumption PROVE Spec => []IInv
  OBVIOUS
<1>1. Init => IInv
  BY InitInv
<1>2. IInv /\ [Next]_vars => IInv'
  BY InductiveStep
<1> QED
  BY <1>1, <1>2, PTL DEF Spec

\* The state of createRun, its rows and its callers has the shape the code gives it.
THEOREM CreationTypes == RunCreationAssumption => (Spec => []TypeOK)
<1> SUFFICES ASSUME RunCreationAssumption PROVE Spec => []TypeOK
  OBVIOUS
<1>1. IInv => TypeOK
  BY DEF IInv
<1>2. Spec => []IInv
  BY Invariant
<1> QED
  BY <1>1, <1>2, PTL

\* However many requests, prices and faults: the runs of a day cost no more than the
\* cap of the day, a quota key dispatches no more than its quota, and no release races
\* a dispatch (budget.reserve, settle and failAdmission).
THEOREM CreationKeepsLimits ==
  RunCreationAssumption =>
    (Spec => [](SpendWithinCap /\ AdmittedWithinQuota /\ DispatchIsFunded))
<1> SUFFICES ASSUME RunCreationAssumption
             PROVE  Spec => [](SpendWithinCap /\ AdmittedWithinQuota /\ DispatchIsFunded)
  OBVIOUS
<1>1. IInv => SpendWithinCap /\ AdmittedWithinQuota /\ DispatchIsFunded
  BY Solvent, WithinTheQuota, Funded
<1>2. Spec => []IInv
  BY Invariant
<1> QED
  BY <1>1, <1>2, PTL

\* Requests with one idempotency key are answered with one run and only if they ask for
\* the same (the two unique indexes and the comparison of the hashes).
THEOREM CreationAgrees == RunCreationAssumption => (Spec => []KeyedAnswersAgree)
<1> SUFFICES ASSUME RunCreationAssumption PROVE Spec => []KeyedAnswersAgree
  OBVIOUS
<1>1. IInv => KeyedAnswersAgree
  BY Agreed
<1>2. Spec => []IInv
  BY Invariant
<1> QED
  BY <1>1, <1>2, PTL

=============================================================================
