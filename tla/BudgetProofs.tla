----------------------------- MODULE BudgetProofs -----------------------------
(***************************************************************************)
(* Proofs about admission and accounting (module Budget).  The properties    *)
(* are about sums, so the first part says what a sum over a finite set does;  *)
(* the rest is one invariant in layers: where a call is tells what it holds,  *)
(* then the budgets hold what their calls hold.                              *)
(***************************************************************************)
EXTENDS Budget, Integers, FiniteSetTheorems, WellFoundedInduction, TLAPS

-----------------------------------------------------------------------------
(* Sums.  Induction is by a set of what is good: the library's least element  *)
(* of a well-founded relation needs no operator.                             *)

\* Induction over the subsets of a finite set, by a set instead of a predicate.
LEMMA SubsetInduction ==
  ASSUME NEW S, IsFiniteSet(S), NEW Good,
         \A T \in SUBSET S : (\A U \in SUBSET T : U # T => U \in Good) => T \in Good
  PROVE  \A T \in SUBSET S : T \in Good
<1> DEFINE Bad == {T \in SUBSET S : T \notin Good}
<1> SUFFICES ASSUME Bad # {} PROVE FALSE
  OBVIOUS
<1>1. IsWellFoundedOn(StrictSubsetOrdering(S), SUBSET S)
  <2>1. FiniteSubsetsOf(S) = SUBSET S
    BY FS_FiniteSubsetsOfFinite
  <2>2. IsWellFoundedOn(StrictSubsetOrdering(S), FiniteSubsetsOf(S))
    BY FS_StrictSubsetOrderingWellFounded
  <2>3. QED
    BY <2>1, <2>2
<1>2. PICK T \in Bad : \A U \in Bad : ~ (<<U, T>> \in StrictSubsetOrdering(S))
  <2>1. Bad \subseteq SUBSET S
    OBVIOUS
  <2> HIDE DEF Bad
  <2>2. QED
    BY <1>1, <2>1, WFMin
<1>3. \A U \in SUBSET T : U # T => U \in Good
  BY <1>2 DEF StrictSubsetOrdering
<1>4. QED
  BY <1>2, <1>3

\* What the sum over a set comes to when one element is taken at a time.
Chosen(s) == CHOOSE x \in s : TRUE
Sums(h, f, S) ==
  h = [s \in SUBSET S |-> IF s = {} THEN 0 ELSE f[Chosen(s)] + h[s \ {Chosen(s)}]]

LEMMA TotalSums ==
  ASSUME NEW S, NEW f, \E g : Sums(g, f, S)
  PROVE  \E h : Sums(h, f, S) /\ Total(f, S) = h[S]
BY DEF Total, MapThenSumSet, MapThenFoldSet, Sums, Chosen

\* Counting up to n, by a set.
LEMMA CountingUp ==
  ASSUME NEW Good, 0 \in Good, \A n \in Nat : n \in Good => n + 1 \in Good
  PROVE  \A n \in Nat : n \in Good
<1> DEFINE Bad == {n \in Nat : n \notin Good}
<1> SUFFICES ASSUME Bad # {} PROVE FALSE
  OBVIOUS
<1>1. PICK n \in Bad : \A m \in Bad : ~ (<<m, n>> \in OpToRel(<, Nat))
  <2>1. Bad \subseteq Nat
    OBVIOUS
  <2> HIDE DEF Bad
  <2>2. QED
    BY <2>1, NatLessThanWellFounded, WFMin
<1>2. n # 0 /\ n - 1 \in Nat /\ n - 1 < n /\ n = (n - 1) + 1
  OBVIOUS
<1>3. n - 1 \notin Bad
  BY <1>1, <1>2 DEF OpToRel
<1>4. QED
  BY <1>2, <1>3

LEMMA SumsExist ==
  ASSUME NEW S, IsFiniteSet(S), NEW f
  PROVE  \E g : Sums(g, f, S)
<1> DEFINE Level(n) == {s \in SUBSET S : Cardinality(s) <= n}
           Upto(g, n) == g = [s \in Level(n) |->
                                IF s = {} THEN 0 ELSE f[Chosen(s)] + g[s \ {Chosen(s)}]]
           Good == {n \in Nat : \E g : Upto(g, n)}
<1>0. \A s \in SUBSET S : IsFiniteSet(s) /\ Cardinality(s) \in Nat
                          /\ Cardinality(s) <= Cardinality(S)
  BY FS_Subset, FS_CardinalityType
<1>1. 0 \in Good
  <2>1. Level(0) = {{}}
    BY <1>0, FS_EmptySet
  <2>2. Upto([s \in {{}} |-> 0], 0)
    BY <2>1
  <2>3. QED
    BY <2>2
<1>2. ASSUME NEW n \in Nat, n \in Good PROVE n + 1 \in Good
  <2>1. PICK g : Upto(g, n)
    BY <1>2
  <2> DEFINE Taken(s) == IF s = {} THEN 0 ELSE f[Chosen(s)] + g[s \ {Chosen(s)}]
             h == [s \in Level(n + 1) |-> Taken(s)]
  <2>2. \A s \in Level(n + 1) : s # {} => s \ {Chosen(s)} \in Level(n)
    <3> SUFFICES ASSUME NEW s \in Level(n + 1), s # {} PROVE s \ {Chosen(s)} \in Level(n)
      OBVIOUS
    <3>1. Chosen(s) \in s
      BY DEF Chosen
    <3>2. Cardinality(s \ {Chosen(s)}) = Cardinality(s) - 1
      BY <1>0, <3>1, FS_RemoveElement
    <3>3. QED
      BY <1>0, <3>2
  <2>3. \A s \in Level(n) : s \in Level(n + 1) /\ g[s] = Taken(s)
    <3>1. \A s \in Level(n) : s \in Level(n + 1)
      BY <1>0
    <3> HIDE DEF Level
    <3>2. \A s \in Level(n) : g[s] = Taken(s)
      BY <2>1
    <3>3. QED
      BY <3>1, <3>2
  <2>4. \A s \in Level(n) : h[s] = g[s]
    BY <2>3
  <2>5. Upto(h, n + 1)
    <3> HIDE DEF Level
    <3>1. \A s \in Level(n + 1) :
            Taken(s) = IF s = {} THEN 0 ELSE f[Chosen(s)] + h[s \ {Chosen(s)}]
      BY <2>2, <2>4
    <3>2. QED
      BY <3>1
  <2>6. \E k : Upto(k, n + 1)
    BY <2>5
  <2> HIDE DEF Upto
  <2>7. QED
    BY <2>6
<1>3. \A n \in Nat : n \in Good
  <2> HIDE DEF Good
  <2>1. QED
    BY <1>1, <1>2, CountingUp
<1>4. PICK g : Upto(g, Cardinality(S))
  BY <1>0, <1>3
<1>5. Level(Cardinality(S)) = SUBSET S
  BY <1>0
<1>6. QED
  BY <1>4, <1>5 DEF Sums

\* Two ways of summing agree where both are defined.
LEMMA SumsAgree ==
  ASSUME NEW S, IsFiniteSet(S), NEW f, NEW g, NEW T \in SUBSET S, NEW h, NEW k,
         \A x \in T : f[x] = g[x],
         Sums(h, f, S), Sums(k, g, T)
  PROVE  \A U \in SUBSET T : h[U] = k[U]
<1> DEFINE Good == {U \in SUBSET T : h[U] = k[U]}
<1>1. ASSUME NEW U \in SUBSET T, \A V \in SUBSET U : V # U => V \in Good
      PROVE  U \in Good
  <2>1. CASE U = {}
    BY <2>1 DEF Sums
  <2>2. CASE U # {}
    <3>1. Chosen(U) \in U
      BY <2>2 DEF Chosen
    <3>2. U \ {Chosen(U)} \in Good
      BY <1>1, <3>1
    <3>3. h[U] = f[Chosen(U)] + h[U \ {Chosen(U)}] /\ k[U] = g[Chosen(U)] + k[U \ {Chosen(U)}]
      BY <2>2 DEF Sums
    <3>4. QED
      BY <3>1, <3>2, <3>3
  <2>3. QED
    BY <2>1, <2>2
<1>2. IsFiniteSet(T)
  BY FS_Subset
<1>3. \A U \in SUBSET T : U \in Good
  <2> HIDE DEF Good
  <2>1. QED
    BY <1>1, <1>2, SubsetInduction
<1>4. QED
  BY <1>3


\* What a proof needs to know of a sum.
LEMMA TotalOf ==
  ASSUME NEW S, IsFiniteSet(S), NEW f
  PROVE  \E h : Sums(h, f, S) /\ \A T \in SUBSET S : Total(f, T) = h[T]
<1>1. PICK h : Sums(h, f, S)
  BY SumsExist
<1>2. ASSUME NEW T \in SUBSET S PROVE Total(f, T) = h[T]
  <2>1. IsFiniteSet(T)
    BY FS_Subset
  <2>2. PICK k : Sums(k, f, T) /\ Total(f, T) = k[T]
    BY <2>1, SumsExist, TotalSums
  <2>3. QED
    BY <1>1, <2>2, SumsAgree
<1>3. QED
  BY <1>1, <1>2

LEMMA TotalSame ==
  ASSUME NEW S, IsFiniteSet(S), NEW f, NEW g, \A x \in S : f[x] = g[x]
  PROVE  Total(f, S) = Total(g, S)
<1>1. PICK h : Sums(h, f, S) /\ Total(f, S) = h[S]
  BY SumsExist, TotalSums
<1>2. PICK k : Sums(k, g, S) /\ Total(g, S) = k[S]
  BY SumsExist, TotalSums
<1>3. QED
  BY <1>1, <1>2, SumsAgree

LEMMA TotalEmpty == ASSUME NEW f PROVE Total(f, {}) = 0
<1>1. IsFiniteSet({})
  BY FS_EmptySet
<1>2. PICK h : Sums(h, f, {}) /\ Total(f, {}) = h[{}]
  BY <1>1, SumsExist, TotalSums
<1>3. QED
  BY <1>2 DEF Sums

LEMMA TotalType ==
  ASSUME NEW S, IsFiniteSet(S), NEW f, \A x \in S : f[x] \in Nat
  PROVE  Total(f, S) \in Nat
<1>1. PICK h : Sums(h, f, S) /\ \A T \in SUBSET S : Total(f, T) = h[T]
  BY TotalOf
<1> DEFINE Good == {U \in SUBSET S : h[U] \in Nat}
<1>2. ASSUME NEW U \in SUBSET S, \A V \in SUBSET U : V # U => V \in Good
      PROVE  U \in Good
  <2>1. CASE U = {}
    BY <1>1, <2>1 DEF Sums
  <2>2. CASE U # {}
    <3>1. Chosen(U) \in U
      BY <2>2 DEF Chosen
    <3>2. U \ {Chosen(U)} \in Good
      BY <1>2, <3>1
    <3>3. h[U] = f[Chosen(U)] + h[U \ {Chosen(U)}]
      BY <1>1, <2>2 DEF Sums
    <3>4. QED
      BY <3>1, <3>2, <3>3
  <2>3. QED
    BY <2>1, <2>2
<1>3. \A U \in SUBSET S : U \in Good
  <2> HIDE DEF Good
  <2>1. QED
    BY <1>2, SubsetInduction
<1>4. QED
  BY <1>1, <1>3

\* Any element can be taken out first.
LEMMA TotalSplit ==
  ASSUME NEW S, IsFiniteSet(S), NEW f, \A x \in S : f[x] \in Nat, NEW x \in S
  PROVE  Total(f, S) = Total(f, S \ {x}) + f[x]
<1>1. PICK h : Sums(h, f, S) /\ \A T \in SUBSET S : Total(f, T) = h[T]
  BY TotalOf
<1>2. \A T \in SUBSET S : h[T] \in Nat
  <2>1. \A T \in SUBSET S : IsFiniteSet(T)
    BY FS_Subset
  <2>2. QED
    BY <1>1, <2>1, TotalType
<1> DEFINE Good == {U \in SUBSET S : \A y \in U : h[U] = h[U \ {y}] + f[y]}
<1>3. ASSUME NEW U \in SUBSET S, \A V \in SUBSET U : V # U => V \in Good
      PROVE  U \in Good
  <2> SUFFICES ASSUME NEW y \in U PROVE h[U] = h[U \ {y}] + f[y]
    OBVIOUS
  <2> DEFINE c == Chosen(U)
  <2>1. c \in U
    BY DEF Chosen
  <2>2. h[U] = f[c] + h[U \ {c}]
    BY <1>1 DEF Sums
  <2> HIDE DEF c
  <2>3. CASE y = c
    BY <1>2, <2>1, <2>2, <2>3
  <2>4. CASE y # c
    <3>1. U \ {c} \in Good /\ U \ {y} \in Good
      BY <1>3, <2>1
    <3>2. h[U \ {c}] = h[(U \ {c}) \ {y}] + f[y] /\ h[U \ {y}] = h[(U \ {y}) \ {c}] + f[c]
      BY <2>1, <2>4, <3>1
    <3>3. (U \ {c}) \ {y} = (U \ {y}) \ {c}
      OBVIOUS
    <3>4. h[(U \ {c}) \ {y}] \in Nat /\ f[c] \in Nat /\ f[y] \in Nat
      BY <1>2, <2>1
    <3> DEFINE rest == h[(U \ {c}) \ {y}]
    <3>5. h[U] = f[c] + (rest + f[y]) /\ h[U \ {y}] = rest + f[c]
      BY <2>2, <3>2, <3>3
    <3> HIDE DEF rest
    <3>6. QED
      BY <3>4, <3>5 DEF rest
  <2>5. QED
    BY <2>3, <2>4
<1>4. \A U \in SUBSET S : U \in Good
  <2> HIDE DEF Good
  <2>1. QED
    BY <1>3, SubsetInduction
<1>5. QED
  BY <1>1, <1>4

\* What a sum does when only one element changes, or is added, or goes.
LEMMA OneChange ==
  ASSUME NEW S, IsFiniteSet(S), NEW f, \A x \in S : f[x] \in Nat,
         NEW T, IsFiniteSet(T), NEW g, \A x \in T : g[x] \in Nat,
         NEW c, S \ {c} = T \ {c}, \A x \in S \ {c} : f[x] = g[x]
  PROVE  \E rest \in Nat :
            /\ Total(f, S) = rest + (IF c \in S THEN f[c] ELSE 0)
            /\ Total(g, T) = rest + (IF c \in T THEN g[c] ELSE 0)
<1>1. IsFiniteSet(S \ {c}) /\ S \ {c} \subseteq S
  BY FS_Subset
<1>2. Total(f, S \ {c}) \in Nat
  BY <1>1, TotalType
<1>3. Total(f, S \ {c}) = Total(g, T \ {c})
  BY <1>1, TotalSame
<1>4. Total(f, S) = Total(f, S \ {c}) + (IF c \in S THEN f[c] ELSE 0)
  <2>1. CASE c \in S
    BY <2>1, TotalSplit
  <2>2. CASE c \notin S
    <3>1. S \ {c} = S
      BY <2>2
    <3>2. QED
      BY <1>2, <2>2, <3>1
  <2>3. QED
    BY <2>1, <2>2
<1>5. Total(g, T) = Total(g, T \ {c}) + (IF c \in T THEN g[c] ELSE 0)
  <2>1. CASE c \in T
    BY <2>1, TotalSplit
  <2>2. CASE c \notin T
    <3>1. T \ {c} = T
      BY <2>2
    <3>2. QED
      BY <1>2, <1>3, <2>2, <3>1
  <2>3. QED
    BY <2>1, <2>2
<1>6. QED
  BY <1>2, <1>3, <1>4, <1>5

LEMMA TotalUnion ==
  ASSUME NEW S, IsFiniteSet(S), NEW f, \A x \in S : f[x] \in Nat,
         NEW A \in SUBSET S, NEW B \in SUBSET S, A \cap B = {}
  PROVE  Total(f, A \cup B) = Total(f, A) + Total(f, B)
<1> DEFINE Good == {U \in SUBSET S : A \cap U = {} =>
                       Total(f, A \cup U) = Total(f, A) + Total(f, U)}
<1>1. \A U \in SUBSET S : IsFiniteSet(U) /\ Total(f, U) \in Nat
  <2>1. \A U \in SUBSET S : IsFiniteSet(U)
    BY FS_Subset
  <2>2. QED
    BY <2>1, TotalType
<1>2. ASSUME NEW U \in SUBSET S, \A V \in SUBSET U : V # U => V \in Good
      PROVE  U \in Good
  <2> SUFFICES ASSUME A \cap U = {} PROVE Total(f, A \cup U) = Total(f, A) + Total(f, U)
    OBVIOUS
  <2>1. CASE U = {}
    <3>1. Total(f, A \cup U) = Total(f, A)
      <4>1. A \cup U = A
        BY <2>1
      <4>2. QED
        BY <4>1, Zenon
    <3>2. Total(f, U) = 0
      BY <2>1, TotalEmpty
    <3>3. Total(f, A) \in Nat
      BY <1>1
    <3>4. QED
      BY <3>1, <3>2, <3>3
  <2>2. ASSUME NEW x \in U PROVE Total(f, A \cup U) = Total(f, A) + Total(f, U)
    <3>1. U \ {x} \in Good /\ A \cap (U \ {x}) = {}
      BY <1>2
    <3>2. Total(f, A \cup (U \ {x})) = Total(f, A) + Total(f, U \ {x})
      BY <3>1
    <3>3. Total(f, U) = Total(f, U \ {x}) + f[x]
      BY <1>1, TotalSplit
    <3>4. Total(f, A \cup U) = Total(f, (A \cup U) \ {x}) + f[x]
      <4>1. IsFiniteSet(A \cup U) /\ x \in A \cup U /\ \A y \in A \cup U : f[y] \in Nat
        BY <1>1
      <4>2. QED
        BY <4>1, TotalSplit
    <3>5. (A \cup U) \ {x} = A \cup (U \ {x})
      OBVIOUS
    <3>6. Total(f, A) \in Nat /\ Total(f, U \ {x}) \in Nat /\ f[x] \in Nat
      BY <1>1
    <3>7. QED
      BY <3>2, <3>3, <3>4, <3>5, <3>6
  <2>3. QED
    BY <2>1, <2>2
<1>3. \A U \in SUBSET S : U \in Good
  <2> HIDE DEF Good
  <2>1. QED
    BY <1>2, SubsetInduction
<1>4. QED
  BY <1>3

\* A finite set of numbers that is not empty has a greatest one.
LEMMA Greatest ==
  ASSUME NEW S \in SUBSET Nat, IsFiniteSet(S), S # {}
  PROVE  Max(S) \in S /\ \A y \in S : y <= Max(S)
<1> DEFINE Good == {U \in SUBSET S : U # {} => \E x \in U : \A y \in U : x >= y}
<1>1. ASSUME NEW U \in SUBSET S, \A V \in SUBSET U : V # U => V \in Good
      PROVE  U \in Good
  <2> SUFFICES ASSUME NEW z \in U PROVE \E x \in U : \A y \in U : x >= y
    OBVIOUS
  <2>1. U \ {z} \in Good
    BY <1>1
  <2>2. CASE U \ {z} = {}
    <3>1. \A y \in U : z >= y
      BY <2>2
    <3>2. QED
      BY <3>1
  <2>3. CASE U \ {z} # {}
    <3>1. PICK x \in U \ {z} : \A y \in U \ {z} : x >= y
      BY <2>1, <2>3
    <3>2. CASE x >= z
      BY <3>1, <3>2
    <3>3. CASE ~ (x >= z)
      <4>1. \A y \in U : z >= y
        BY <3>1, <3>3
      <4>2. QED
        BY <4>1
    <3>4. QED
      BY <3>2, <3>3
  <2>4. QED
    BY <2>2, <2>3
<1>2. \A U \in SUBSET S : U \in Good
  <2> HIDE DEF Good
  <2>1. QED
    BY <1>1, SubsetInduction
<1>3. \E x \in S : \A y \in S : x >= y
  BY <1>2
<1>4. QED
  BY <1>3 DEF Max

-----------------------------------------------------------------------------
(* Where a call is tells what it holds.                                      *)

Constants ==
    /\ IsFiniteSet(Calls) /\ IsFiniteSet(Owners) /\ Earlier \notin Calls
    /\ BucketsOf \in [Calls -> SUBSET Buckets]
    /\ Limit \in Nat /\ BucketLimit \in Nat /\ ExecLimit \in Nat /\ Orphaned \in Nat
    /\ Slots \in Nat \ {0} /\ Threshold \in Nat \ {0} /\ Usages \subseteq Nat \ {0}
    /\ Ceiling \in Nat /\ Limit <= Ceiling /\ Orphaned <= Ceiling
    /\ Max(Wanted) \in Nat /\ \A w \in Wanted : w \in Nat /\ 2 <= w /\ w <= Max(Wanted)

LEMMA ConstantsAre == Constants
<1>1. IsFiniteSet(Owners)
  BY CallsAssumption, FS_AddElement DEF Owners
<1>2. Max(Wanted) \in Wanted /\ \A w \in Wanted : w <= Max(Wanted)
  BY WantedAssumption, Greatest
<1>3. \A w \in Wanted : w \in Nat /\ 2 <= w
  BY WantedAssumption
<1>4. Ceiling \in Nat /\ Limit <= Ceiling /\ Orphaned <= Ceiling
  <2>1. {Limit, Orphaned} \subseteq Nat /\ {Limit, Orphaned} # {}
    BY LimitsAssumption
  <2>2. IsFiniteSet({Limit, Orphaned})
    <3>1. IsFiniteSet({Limit} \cup {Orphaned}) /\ {Limit} \cup {Orphaned} = {Limit, Orphaned}
      BY FS_Singleton, FS_AddElement
    <3>2. QED
      BY <3>1
  <2>3. Ceiling \in {Limit, Orphaned} /\ \A y \in {Limit, Orphaned} : y <= Ceiling
    BY <2>1, <2>2, Greatest DEF Ceiling
  <2>4. QED
    BY <2>1, <2>3
<1>5. QED
  BY <1>1, <1>2, <1>3, <1>4, CallsAssumption, BucketsAssumption, LimitsAssumption DEF Constants

\* The types, before it is known that no counter is taken below zero.
Loose ==
    /\ pc \in [Calls -> PCs]
    /\ est \in [Calls -> Nat] /\ cost \in [Calls -> Nat] /\ share \in [Calls -> Nat]
    /\ result \in [Calls -> {"none", "ok", "failed"}]
    /\ exec \in [spent : Nat, held : Int, calls : Int]
    /\ bucket \in [Buckets -> [spent : Nat, held : Int]]
    /\ rows \in [Owners -> Nat] /\ stale \subseteq Owners
    /\ late \in Nat /\ execOver \in Nat /\ dayOver \in Nat /\ bucketOver \in [Buckets -> Nat]
    /\ used \in Nat /\ slots \in Int /\ slots <= Slots
    /\ mu \subseteq Calls /\ failures \in Nat /\ open \in BOOLEAN

LEMMA LooseInit == Init => Loose
<1> SUFFICES ASSUME Init PROVE Loose
  OBVIOUS
<1> USE DEF Init
<1>1. /\ pc \in [Calls -> PCs] /\ est \in [Calls -> Nat] /\ cost \in [Calls -> Nat]
      /\ share \in [Calls -> Nat] /\ result \in [Calls -> {"none", "ok", "failed"}]
  BY DEF PCs
<1>2. rows \in [Owners -> Nat]
  BY ConstantsAre DEF Constants
<1>3. /\ exec \in [spent : Nat, held : Int, calls : Int]
      /\ bucket \in [Buckets -> [spent : Nat, held : Int]]
  BY DEF NothingSpent
<1>4. slots \in Int /\ slots <= Slots
  BY ConstantsAre DEF Constants
<1>5. QED
  BY <1>1, <1>2, <1>3, <1>4 DEF Loose

LEMMA Entered ==
  ASSUME Loose, NEW c \in Calls, Enter(c)
  PROVE  \/ UNCHANGED <<call, budgets, database, governor>> /\ Go(c, "new", "out")
         \/ \E granted \in Nat :
               /\ 2 <= granted /\ granted <= Max(Wanted)
               /\ granted <= ExecLimit - exec.spent - exec.held
               /\ Go(c, "new", "circuit")
               /\ est' = [est EXCEPT ![c] = granted]
               /\ share' = [share EXCEPT ![c] = granted]
               /\ Execution(exec.spent, exec.held + granted, exec.calls + 1)
               /\ UNCHANGED <<cost, result, bucket, database, governor>>
<1> DEFINE left == ExecLimit - exec.spent - exec.held
<1>1. left \in Int
  BY ConstantsAre DEF Loose, Constants
<1>2. PICK want \in Wanted :
         IF ~ (exec.calls < MaxCalls /\ left > 1)
         THEN Go(c, "new", "out") /\ UNCHANGED <<call, budgets, database, governor>>
         ELSE LET granted == IF want < left THEN want ELSE left IN
              /\ Go(c, "new", "circuit")
              /\ est' = [est EXCEPT ![c] = granted]
              /\ share' = [share EXCEPT ![c] = granted]
              /\ Execution(exec.spent, exec.held + granted, exec.calls + 1)
              /\ UNCHANGED <<cost, result, bucket, database, governor>>
  BY DEF Enter
<1>3. want \in Nat /\ 2 <= want /\ want <= Max(Wanted) /\ Max(Wanted) \in Nat
  BY ConstantsAre DEF Constants
<1> HIDE DEF left
<1>4. CASE left > 1
  <2> DEFINE granted == IF want < left THEN want ELSE left
  <2>1. granted \in Nat /\ 2 <= granted /\ granted <= Max(Wanted) /\ granted <= left
    BY <1>1, <1>3, <1>4
  <2> HIDE DEF granted
  <2>2. QED
    BY <1>2, <1>4, <2>1 DEF granted, left
<1>5. QED
  BY <1>2, <1>4

\* What the transaction of an admission does.
LEMMA Tried ==
  ASSUME Loose, NEW c \in Calls, TryReserve(c)
  PROVE  LET fresh == [d \in Owners |-> IF d \in stale THEN 0 ELSE rows[d]] IN
         /\ pc[c] \in {"reserve", "again"}
         /\ UNCHANGED <<cost, result, budgets, used, execOver, bucketOver, dayOver, governor>>
         /\ \/ /\ pc' = [pc EXCEPT ![c] = "run"] /\ est' = est
               /\ rows' = [fresh EXCEPT ![c] = est[c]] /\ stale' = {}
               /\ late' = late + Total(est, stale \cap Calls) /\ late' \in Nat
               /\ Total(fresh, Owners) \in Nat
               /\ used + Total(fresh, Owners) + est[c] <= Limit \/ est[c] = 0
            \/ /\ UNCHANGED <<rows, stale, late>>
               /\ \/ /\ pc' = [pc EXCEPT ![c] = "again"]
                     /\ \E left \in Nat : 1 <= left /\ left < est[c]
                                         /\ est' = [est EXCEPT ![c] = left]
                  \/ pc' = [pc EXCEPT ![c] = "unslot"] /\ est' = est
<1> DEFINE fresh == [d \in Owners |-> IF d \in stale THEN 0 ELSE rows[d]]
           taken == used + Total(fresh, Owners)
           left == IF taken < Limit THEN Limit - taken ELSE 0
<1>1. \A d \in Owners : fresh[d] \in Nat
  BY DEF Loose
<1>2. Total(fresh, Owners) \in Nat
  <2> HIDE DEF fresh
  <2>1. QED
    BY <1>1, ConstantsAre, TotalType DEF Constants
<1>3. Total(est, stale \cap Calls) \in Nat
  <2>1. IsFiniteSet(stale \cap Calls)
    BY ConstantsAre, FS_Subset DEF Constants
  <2>2. \A d \in stale \cap Calls : est[d] \in Nat
    BY DEF Loose
  <2>3. QED
    BY <2>1, <2>2, TotalType
<1>4. /\ pc[c] \in {"reserve", "again"} /\ UNCHANGED <<cost, result, budgets, used, execOver, bucketOver, dayOver, governor>>
      /\ IF est[c] <= left
         THEN /\ pc' = [pc EXCEPT ![c] = "run"] /\ rows' = [fresh EXCEPT ![c] = est[c]]
              /\ stale' = {} /\ late' = late + Total(est, stale \cap Calls) /\ est' = est
         ELSE /\ IF pc[c] = "reserve" /\ left > 1
                 THEN est' = [est EXCEPT ![c] = left] /\ pc' = [pc EXCEPT ![c] = "again"]
                 ELSE est' = est /\ pc' = [pc EXCEPT ![c] = "unslot"]
              /\ UNCHANGED <<rows, stale, late>>
  BY DEF TryReserve
<1>5. est[c] \in Nat /\ used \in Nat /\ late \in Nat /\ Limit \in Nat
  BY ConstantsAre DEF Constants, Loose
<1> HIDE DEF fresh
<1>6. left \in Nat /\ (est[c] <= left => taken + est[c] <= Limit \/ est[c] = 0)
  BY <1>2, <1>5
<1>7. CASE est[c] <= left
  <2>1. used + Total(fresh, Owners) + est[c] <= Limit \/ est[c] = 0
    BY <1>6, <1>7
  <2> HIDE DEF left, taken
  <2>2. late' \in Nat
    BY <1>3, <1>4, <1>5, <1>7
  <2>3. QED
    BY <1>2, <1>4, <1>7, <2>1, <2>2 DEF fresh
<1>8. CASE ~ (est[c] <= left)
  <2> HIDE DEF left, taken
  <2>1. left < est[c]
    BY <1>5, <1>6, <1>8
  <2>2. QED
    BY <1>4, <1>6, <1>8, <2>1
<1>9. QED
  BY <1>7, <1>8

\* ... and what of it the calls one by one can tell.
LEMMA TriedSimply ==
  ASSUME Loose, NEW c \in Calls, TryReserve(c)
  PROVE  /\ pc[c] \in {"reserve", "again"}
         /\ UNCHANGED <<cost, result, budgets, used, execOver, bucketOver, dayOver, governor>>
         /\ \/ /\ pc' = [pc EXCEPT ![c] = "run"] /\ est' = est /\ stale' = {}
               /\ \A d \in Owners : rows'[d] = IF d = c THEN est[c]
                                               ELSE IF d \in stale THEN 0 ELSE rows[d]
            \/ /\ UNCHANGED <<rows, stale, late>>
               /\ \/ /\ pc' = [pc EXCEPT ![c] = "again"]
                     /\ \E left \in Nat : 1 <= left /\ left < est[c]
                                         /\ est' = [est EXCEPT ![c] = left]
                  \/ pc' = [pc EXCEPT ![c] = "unslot"] /\ est' = est
<1> DEFINE fresh == [d \in Owners |-> IF d \in stale THEN 0 ELSE rows[d]]
<1>1. ASSUME rows' = [fresh EXCEPT ![c] = est[c]]
      PROVE  \A d \in Owners : rows'[d] = IF d = c THEN est[c]
                                          ELSE IF d \in stale THEN 0 ELSE rows[d]
  BY <1>1 DEF Owners
<1>2. QED
  BY <1>1, Tried

LEMMA LooseStep == Loose /\ [Next]_vars => Loose'
<1> SUFFICES ASSUME Loose, [Next]_vars PROVE Loose'
  OBVIOUS
<1> USE ConstantsAre
    DEF Constants, Loose, PCs, Owners, Go, Execution, call, budgets, database, history, governor
<1>1. ASSUME NEW c \in Calls, Enter(c) PROVE Loose'
  <2>1. CASE UNCHANGED <<call, budgets, database, governor>> /\ pc' = [pc EXCEPT ![c] = "out"]
    BY <2>1
  <2>2. ASSUME NEW granted \in Nat, pc' = [pc EXCEPT ![c] = "circuit"],
               est' = [est EXCEPT ![c] = granted], share' = [share EXCEPT ![c] = granted],
               Execution(exec.spent, exec.held + granted, exec.calls + 1),
               UNCHANGED <<cost, result, bucket, database, governor>>
        PROVE  Loose'
    <3>1. exec' \in [spent : Nat, held : Int, calls : Int]
      BY <2>2
    <3>2. /\ pc' \in [Calls -> PCs] /\ est' \in [Calls -> Nat] /\ share' \in [Calls -> Nat]
      BY <2>2
    <3>3. QED
      BY <2>2, <3>1, <3>2
  <2>3. QED
    BY <1>1, <2>1, <2>2, Entered
<1>2. ASSUME NEW c \in Calls, CheckCircuit(c) PROVE Loose'
  BY <1>2 DEF CheckCircuit
<1>3. ASSUME NEW c \in Calls, TakeSlot(c) PROVE Loose'
  BY <1>3 DEF TakeSlot
<1>4. ASSUME NEW c \in Calls, LeaveQueue(c) PROVE Loose'
  BY <1>4 DEF LeaveQueue
<1>5. ASSUME NEW c \in Calls, TryReserve(c) PROVE Loose'
  <2>1. UNCHANGED <<cost, result, budgets, used, execOver, bucketOver, dayOver, governor>>
    BY <1>5, Tried
  <2>2. pc' \in [Calls -> PCs] /\ est' \in [Calls -> Nat] /\ late' \in Nat
        /\ rows' \in [Owners -> Nat] /\ stale' \subseteq Owners
    <3> HIDE DEF Constants, Go, call, budgets, database, history, governor
    <3> DEFINE fresh == [d \in Owners |-> IF d \in stale THEN 0 ELSE rows[d]]
    <3>1. fresh \in [Owners -> Nat]
      OBVIOUS
    <3>2. \/ /\ pc' = [pc EXCEPT ![c] = "run"] /\ est' = est
             /\ rows' = [fresh EXCEPT ![c] = est[c]] /\ stale' = {} /\ late' \in Nat
          \/ /\ UNCHANGED <<rows, stale, late>>
             /\ \/ /\ pc' = [pc EXCEPT ![c] = "again"]
                   /\ \E left \in Nat : est' = [est EXCEPT ![c] = left]
                \/ pc' = [pc EXCEPT ![c] = "unslot"] /\ est' = est
      <4> HIDE DEF Loose, PCs, Owners
      <4>1. QED
        BY <1>5, Tried
    <3> HIDE DEF fresh
    <3>3. QED
      BY <3>1, <3>2
  <2>3. QED
    BY <2>1, <2>2
<1>6. ASSUME NEW c \in Calls, ReserveRunCost(c) PROVE Loose'
  BY <1>6 DEF ReserveRunCost
<1>7. ASSUME NEW c \in Calls, DropRefusedRow(c) PROVE Loose'
  BY <1>7 DEF DropRefusedRow, DropRow
<1>8. ASSUME NEW c \in Calls, ReleaseSlot(c) PROVE Loose'
  BY <1>8 DEF ReleaseSlot
<1>9. ASSUME NEW c \in Calls, Cancel(c) PROVE Loose'
  <2>1. exec' \in [spent : Nat, held : Int, calls : Int]
    BY <1>9 DEF Cancel
  <2>2. QED
    BY <1>9, <2>1 DEF Cancel
<1>10. ASSUME NEW c \in Calls, Preflight(c) PROVE Loose'
  BY <1>10 DEF Preflight
<1>11. ASSUME NEW c \in Calls, Answer(c) PROVE Loose'
  <2>1. exec' \in [spent : Nat, held : Int, calls : Int]
    BY <1>11 DEF Answer
  <2>2. /\ pc' \in [Calls -> PCs] /\ share' \in [Calls -> Nat] /\ cost' \in [Calls -> Nat]
        /\ result' \in [Calls -> {"none", "ok", "failed"}]
    BY <1>11 DEF Answer
  <2>3. execOver' \in Nat
    <3>1. PICK n \in Usages : execOver' = execOver + Above(n, share[c])
      BY <1>11 DEF Answer
    <3>2. Above(n, share[c]) \in Nat
      BY DEF Above
    <3>3. QED
      BY <3>1, <3>2
  <2>4. QED
    BY <1>11, <2>1, <2>2, <2>3 DEF Answer
<1>12. ASSUME NEW c \in Calls, Fail(c) PROVE Loose'
  <2>1. exec' \in [spent : Nat, held : Int, calls : Int]
    BY <1>12 DEF Fail
  <2>2. /\ pc' \in [Calls -> PCs] /\ share' \in [Calls -> Nat] /\ cost' \in [Calls -> Nat]
        /\ result' \in [Calls -> {"none", "ok", "failed"}]
    BY <1>12 DEF Fail
  <2>3. QED
    BY <1>12, <2>1, <2>2 DEF Fail
<1>13. ASSUME NEW c \in Calls, After(c) PROVE Loose'
  <2>1. failures' \in Nat /\ open' \in BOOLEAN
    <3>1. CASE result[c] = "ok"
      <4>1. failures' = 0 /\ open' = FALSE
        BY <1>13, <3>1 DEF After, Circuit
      <4>2. QED
        BY <4>1
    <3>2. CASE result[c] # "ok"
      <4>1. open' = (open \/ failures + 1 >= Threshold)
        BY <1>13, <3>2 DEF After, Circuit
      <4>2. failures' \in Nat
        BY <1>13, <3>2 DEF After, Circuit
      <4>3. QED
        BY <4>1, <4>2
    <3>3. QED
      BY <3>1, <3>2
  <2>2. dayOver' \in Nat
    <3>1. Above(cost[c], est[c]) \in Nat
      BY DEF Above
    <3>2. QED
      BY <1>13, <3>1 DEF After
  <2>3. QED
    BY <1>13, <2>1, <2>2 DEF After, DropRow
<1>14. ASSUME NEW c \in Calls, Record(c) PROVE Loose'
  <2> DEFINE charge == IF result[c] = "ok" THEN cost[c] ELSE est[c]
  <2>1. charge \in Nat
    OBVIOUS
  <2>2. Settle(c, charge)
    BY <1>14 DEF Record
  <2>3. Above(charge, est[c]) \in Nat
    BY <2>1 DEF Above
  <2> HIDE DEF charge
  <2>4. bucketOver' \in [Buckets -> Nat]
    BY <2>2, <2>3 DEF Settle
  <2>5. bucket' \in [Buckets -> [spent : Nat, held : Int]]
    BY <2>1, <2>2 DEF Settle
  <2>6. QED
    BY <1>14, <2>4, <2>5 DEF Record
<1>15. ASSUME NEW c \in Owners, Expire(c) PROVE Loose'
  BY <1>15 DEF Expire
<1>16. CASE CoolDown
  BY <1>16 DEF CoolDown
<1>17. CASE UNCHANGED vars
  BY <1>17 DEF vars
<1>18. QED
  BY <1>1, <1>2, <1>3, <1>4, <1>5, <1>6, <1>7, <1>8, <1>9, <1>10, <1>11, <1>12, <1>13, <1>14,
     <1>15, <1>16, <1>17 DEF Next, Step

\* The places where a call has a row, has a slot, and counts in full.
Charged == {"run", "unrow", "call", "lock"}
Placed == {"reserve", "again", "run", "unrow", "unslot", "call", "lock", "record"}
Counting == {"circuit", "slot", "reserve", "again", "run", "unrow", "call"}

Stage(c) ==
    /\ pc[c] \in {"new", "out"} => share[c] = 0
    /\ rows[c] # 0 => pc[c] \in Charged /\ rows[c] = est[c]
    /\ result[c] # "none" => pc[c] \in {"lock", "record", "unslot"} /\ share[c] = 0
    /\ cost[c] # 0 => pc[c] \in {"lock", "record"}
    /\ est[c] <= Max(Wanted) /\ (pc[c] = "record" => cost[c] <= est[c] + dayOver)
    /\ pc[c] \in Counting => 1 <= est[c] /\ est[c] <= share[c]

Exclusive ==
    /\ Between = mu
    /\ \A c, d \in mu : c = d
    /\ \A d \in stale : rows[d] # 0

Staged == Loose /\ (\A c \in Calls : Stage(c)) /\ Exclusive

LEMMA StagedInit == Init => Staged
<1> SUFFICES ASSUME Init PROVE Staged
  OBVIOUS
<1>1. Loose
  BY LooseInit
<1>2. /\ \A c \in Calls : /\ pc[c] = "new" /\ share[c] = 0 /\ result[c] = "none"
                           /\ cost[c] = 0 /\ est[c] = 0 /\ rows[c] = 0
      /\ mu = {} /\ stale = {} /\ Between = {}
  BY ConstantsAre DEF Init, Owners, Constants, Between
<1>3. \A c \in Calls : Stage(c)
  BY <1>2, ConstantsAre DEF Stage, Counting, Constants
<1>4. QED
  BY <1>1, <1>2, <1>3 DEF Staged, Exclusive

LEMMA StageStep ==
  ASSUME Staged, [Next]_vars
  PROVE  \A e \in Calls : Stage(e)'
<1> SUFFICES ASSUME NEW e \in Calls PROVE Stage(e)'
  OBVIOUS
<1> USE ConstantsAre
    DEF Constants, Staged, Loose, Exclusive, Stage, Owners, Go, Charged, Counting,
        call, budgets, database, history, governor
<1>1. ASSUME NEW c \in Calls, Enter(c) PROVE Stage(e)'
  BY <1>1, Entered
<1>2. ASSUME NEW c \in Calls, CheckCircuit(c) PROVE Stage(e)'
  BY <1>2 DEF CheckCircuit
<1>3. ASSUME NEW c \in Calls, TakeSlot(c) PROVE Stage(e)'
  BY <1>3 DEF TakeSlot
<1>4. ASSUME NEW c \in Calls, LeaveQueue(c) PROVE Stage(e)'
  BY <1>4 DEF LeaveQueue
<1>5. ASSUME NEW c \in Calls, TryReserve(c) PROVE Stage(e)'
  <2>1. CASE UNCHANGED <<rows, stale, late>>
    <3> HIDE DEF Owners
    <3>1. QED
      BY <1>5, <2>1, TriedSimply
  <2>2. CASE rows'[e] = IF e = c THEN est[c] ELSE IF e \in stale THEN 0 ELSE rows[e]
    BY <1>5, <2>2, TriedSimply
  <2>3. QED
    BY <1>5, <2>1, <2>2, TriedSimply
<1>6. ASSUME NEW c \in Calls, ReserveRunCost(c) PROVE Stage(e)'
  BY <1>6 DEF ReserveRunCost
<1>7. ASSUME NEW c \in Calls, DropRefusedRow(c) PROVE Stage(e)'
  BY <1>7 DEF DropRefusedRow, DropRow
<1>8. ASSUME NEW c \in Calls, ReleaseSlot(c) PROVE Stage(e)'
  BY <1>8 DEF ReleaseSlot
<1>9. ASSUME NEW c \in Calls, Cancel(c) PROVE Stage(e)'
  BY <1>9 DEF Cancel
<1>10. ASSUME NEW c \in Calls, Preflight(c) PROVE Stage(e)'
  BY <1>10 DEF Preflight
<1>11. ASSUME NEW c \in Calls, Answer(c) PROVE Stage(e)'
  BY <1>11 DEF Answer
<1>12. ASSUME NEW c \in Calls, Fail(c) PROVE Stage(e)'
  BY <1>12 DEF Fail
<1>13. ASSUME NEW c \in Calls, After(c) PROVE Stage(e)'
  <2>1. /\ Above(cost[c], est[c]) \in Nat /\ cost[c] <= est[c] + Above(cost[c], est[c])
        /\ dayOver' = dayOver + Above(cost[c], est[c])
    BY <1>13 DEF After, Above
  <2>2. pc'[e] = "record" => cost'[e] <= est'[e] + dayOver'
    BY <1>13, <2>1 DEF After
  <2>3. QED
    BY <1>13, <2>2 DEF After, DropRow
<1>14. ASSUME NEW c \in Calls, Record(c) PROVE Stage(e)'
  BY <1>14 DEF Record
<1>15. ASSUME NEW c \in Owners, Expire(c) PROVE Stage(e)'
  BY <1>15 DEF Expire
<1>16. CASE CoolDown
  BY <1>16 DEF CoolDown
<1>17. CASE UNCHANGED vars
  BY <1>17 DEF vars
<1>18. QED
  BY <1>1, <1>2, <1>3, <1>4, <1>5, <1>6, <1>7, <1>8, <1>9, <1>10, <1>11, <1>12, <1>13, <1>14,
     <1>15, <1>16, <1>17 DEF Next, Step

LEMMA ExclusiveStep == Staged /\ [Next]_vars => Exclusive'
<1> SUFFICES ASSUME Staged, [Next]_vars PROVE Exclusive'
  OBVIOUS
<1> USE ConstantsAre
    DEF Constants, Staged, Loose, Exclusive, Between, Owners, Go, Charged,
        call, budgets, database, history, governor
<1>1. ASSUME NEW c \in Calls, Enter(c) PROVE Exclusive'
  BY <1>1, Entered
<1>2. ASSUME NEW c \in Calls, CheckCircuit(c) PROVE Exclusive'
  BY <1>2 DEF CheckCircuit
<1>3. ASSUME NEW c \in Calls, TakeSlot(c) PROVE Exclusive'
  BY <1>3 DEF TakeSlot
<1>4. ASSUME NEW c \in Calls, LeaveQueue(c) PROVE Exclusive'
  BY <1>4 DEF LeaveQueue
<1>5. ASSUME NEW c \in Calls, TryReserve(c) PROVE Exclusive'
  BY <1>5, TriedSimply
<1>6. ASSUME NEW c \in Calls, ReserveRunCost(c) PROVE Exclusive'
  BY <1>6 DEF ReserveRunCost
<1>7. ASSUME NEW c \in Calls, DropRefusedRow(c) PROVE Exclusive'
  BY <1>7 DEF DropRefusedRow, DropRow
<1>8. ASSUME NEW c \in Calls, ReleaseSlot(c) PROVE Exclusive'
  BY <1>8 DEF ReleaseSlot
<1>9. ASSUME NEW c \in Calls, Cancel(c) PROVE Exclusive'
  BY <1>9 DEF Cancel
<1>10. ASSUME NEW c \in Calls, Preflight(c) PROVE Exclusive'
  BY <1>10 DEF Preflight
<1>11. ASSUME NEW c \in Calls, Answer(c) PROVE Exclusive'
  BY <1>11 DEF Answer
<1>12. ASSUME NEW c \in Calls, Fail(c) PROVE Exclusive'
  BY <1>12 DEF Fail
<1>13. ASSUME NEW c \in Calls, After(c) PROVE Exclusive'
  BY <1>13 DEF After, DropRow
<1>14. ASSUME NEW c \in Calls, Record(c) PROVE Exclusive'
  BY <1>14 DEF Record
<1>15. ASSUME NEW c \in Owners, Expire(c) PROVE Exclusive'
  BY <1>15 DEF Expire
<1>16. CASE CoolDown
  BY <1>16 DEF CoolDown
<1>17. CASE UNCHANGED vars
  BY <1>17 DEF vars
<1>18. QED
  BY <1>1, <1>2, <1>3, <1>4, <1>5, <1>6, <1>7, <1>8, <1>9, <1>10, <1>11, <1>12, <1>13, <1>14,
     <1>15, <1>16, <1>17 DEF Next, Step

LEMMA AlwaysStaged == Spec => []Staged
<1>1. Staged /\ [Next]_vars => Staged'
  BY LooseStep, StageStep, ExclusiveStep DEF Staged
<1>2. QED
  BY <1>1, StagedInit, PTL DEF Spec

-----------------------------------------------------------------------------
(* The budgets hold what their calls hold.                                   *)

Under(b) == {c \in InFlight : b \in BucketsOf[c]}
Placing == {c \in Calls : pc[c] \in Placed}
Admitting == {c \in Calls : pc[c] \notin {"new", "out"}}

SharesHeld == exec.held = Total(share, Calls)
BucketHeld(b) == bucket[b].held = Total(est, Under(b))
SlotsTaken == slots = Cardinality(Placing)
Counted == Cardinality(Admitting) <= exec.calls

Backed == SharesHeld /\ (\A b \in Buckets : BucketHeld(b)) /\ SlotsTaken /\ Counted

LEMMA BackedInit == Init => Backed
<1> SUFFICES ASSUME Init PROVE Backed
  OBVIOUS
<1>1. Under("none") = {} /\ (\A b \in Buckets : Under(b) = {}) /\ Placing = {} /\ Admitting = {}
  BY DEF Init, Under, InFlight, Placing, Placed, Admitting
<1>2. Cardinality({}) = 0
  BY FS_EmptySet
<1>3. Total(share, Calls) = 0
  <2> DEFINE Good == {S \in SUBSET Calls : Total(share, S) = 0}
  <2>1. ASSUME NEW U \in SUBSET Calls, \A V \in SUBSET U : V # U => V \in Good
        PROVE  U \in Good
    <3>1. CASE U = {}
      BY <3>1, TotalEmpty
    <3>2. ASSUME NEW x \in U PROVE U \in Good
      <4>1. IsFiniteSet(U) /\ \A y \in U : share[y] \in Nat
        BY ConstantsAre, FS_Subset DEF Constants, Init
      <4>2. Total(share, U) = Total(share, U \ {x}) + share[x]
        BY <4>1, TotalSplit
      <4>3. share[x] = 0 /\ U \ {x} \in Good
        BY <2>1 DEF Init
      <4>4. QED
        BY <4>2, <4>3
    <3>3. QED
      BY <3>1, <3>2
  <2>2. \A U \in SUBSET Calls : U \in Good
    <3> HIDE DEF Good
    <3>1. QED
      BY <2>1, ConstantsAre, SubsetInduction DEF Constants
  <2>3. QED
    BY <2>2
<1>4. SharesHeld /\ SlotsTaken /\ Counted
  BY <1>1, <1>2, <1>3 DEF Init, SharesHeld, SlotsTaken, Counted
<1>5. \A b \in Buckets : BucketHeld(b)
  BY <1>1, TotalEmpty DEF Init, BucketHeld, NothingSpent
<1>6. QED
  BY <1>4, <1>5 DEF Backed

\* One call's share changes, and the budget with it.
LEMMA ShareChanges ==
  ASSUME Staged, SharesHeld, NEW c \in Calls, NEW n \in Nat, share' = [share EXCEPT ![c] = n]
  PROVE  /\ Total(share, Calls)' = exec.held - share[c] + n
         /\ exec.held \in Nat /\ share[c] <= exec.held
<1>1. /\ IsFiniteSet(Calls) /\ (\A d \in Calls : share[d] \in Nat) /\ share'[c] = n
      /\ (\A d \in Calls : share'[d] \in Nat) /\ \A d \in Calls \ {c} : share[d] = share'[d]
  BY ConstantsAre DEF Constants, Staged, Loose
<1>2. PICK rest \in Nat : /\ Total(share, Calls) = rest + (IF c \in Calls THEN share[c] ELSE 0)
                          /\ Total(share', Calls) = rest + (IF c \in Calls THEN share'[c] ELSE 0)
  <2> DEFINE g == share'
  <2>1. \A d \in Calls : g[d] \in Nat
    BY <1>1
  <2>2. \A d \in Calls \ {c} : share[d] = g[d]
    BY <1>1
  <2> HIDE DEF g
  <2>3. \E rest \in Nat : /\ Total(share, Calls) = rest + (IF c \in Calls THEN share[c] ELSE 0)
                           /\ Total(g, Calls) = rest + (IF c \in Calls THEN g[c] ELSE 0)
    BY <1>1, <2>1, <2>2, OneChange
  <2>4. QED
    BY <2>3 DEF g
<1>3. QED
  BY <1>1, <1>2 DEF SharesHeld

LEMMA SharesStep == Staged /\ SharesHeld /\ [Next]_vars => SharesHeld'
<1> SUFFICES ASSUME Staged, SharesHeld, [Next]_vars PROVE SharesHeld'
  OBVIOUS
<1>0. ASSUME UNCHANGED <<exec, share>> PROVE SharesHeld'
  BY <1>0 DEF SharesHeld
<1> USE DEF call, budgets, database, history, governor
<1>1. ASSUME NEW c \in Calls, Enter(c) PROVE SharesHeld'
  <2>1. CASE UNCHANGED <<exec, share>>
    BY <1>0, <2>1
  <2>2. ASSUME NEW granted \in Nat, pc[c] = "new", share' = [share EXCEPT ![c] = granted],
               Execution(exec.spent, exec.held + granted, exec.calls + 1)
        PROVE  SharesHeld'
    <3>1. share[c] = 0
      BY <2>2 DEF Staged, Stage
    <3>2. Total(share, Calls)' = exec.held - share[c] + granted /\ exec.held \in Nat
      BY <2>2, ShareChanges
    <3>3. exec'.held = exec.held + granted
      BY <2>2 DEF Execution
    <3>4. QED
      BY <3>1, <3>2, <3>3 DEF SharesHeld
  <2>3. QED
    BY <1>1, <2>1, <2>2, Entered DEF Staged, Go
<1>2. ASSUME NEW c \in Calls, CheckCircuit(c) PROVE SharesHeld'
  BY <1>0, <1>2 DEF CheckCircuit
<1>3. ASSUME NEW c \in Calls, TakeSlot(c) PROVE SharesHeld'
  BY <1>0, <1>3 DEF TakeSlot
<1>4. ASSUME NEW c \in Calls, LeaveQueue(c) PROVE SharesHeld'
  BY <1>0, <1>4 DEF LeaveQueue
<1>5. ASSUME NEW c \in Calls, TryReserve(c) PROVE SharesHeld'
  BY <1>0, <1>5, TriedSimply DEF Staged
<1>6. ASSUME NEW c \in Calls, ReserveRunCost(c) PROVE SharesHeld'
  BY <1>0, <1>6 DEF ReserveRunCost
<1>7. ASSUME NEW c \in Calls, DropRefusedRow(c) PROVE SharesHeld'
  BY <1>0, <1>7 DEF DropRefusedRow, DropRow
<1>8. ASSUME NEW c \in Calls, ReleaseSlot(c) PROVE SharesHeld'
  BY <1>0, <1>8 DEF ReleaseSlot
<1>9. ASSUME NEW c \in Calls, Cancel(c) PROVE SharesHeld'
  <2>1. Total(share, Calls)' = exec.held - share[c] + 0 /\ exec.held \in Nat
    BY <1>9, ShareChanges DEF Cancel
  <2>2. share[c] \in Nat /\ exec'.held = exec.held - share[c]
    BY <1>9 DEF Cancel, Execution, Staged, Loose
  <2>3. QED
    BY <2>1, <2>2 DEF SharesHeld
<1>10. ASSUME NEW c \in Calls, Preflight(c) PROVE SharesHeld'
  BY <1>0, <1>10 DEF Preflight
<1>11. ASSUME NEW c \in Calls, Answer(c) PROVE SharesHeld'
  <2>1. Total(share, Calls)' = exec.held - share[c] + 0 /\ exec.held \in Nat
    BY <1>11, ShareChanges DEF Answer
  <2>2. share[c] \in Nat /\ exec'.held = exec.held - share[c]
    BY <1>11 DEF Answer, Execution, Staged, Loose
  <2>3. QED
    BY <2>1, <2>2 DEF SharesHeld
<1>12. ASSUME NEW c \in Calls, Fail(c) PROVE SharesHeld'
  <2>1. Total(share, Calls)' = exec.held - share[c] + 0 /\ exec.held \in Nat
    BY <1>12, ShareChanges DEF Fail
  <2>2. share[c] \in Nat /\ exec'.held = exec.held - share[c]
    BY <1>12 DEF Fail, Execution, Staged, Loose
  <2>3. QED
    BY <2>1, <2>2 DEF SharesHeld
<1>13. ASSUME NEW c \in Calls, After(c) PROVE SharesHeld'
  BY <1>0, <1>13 DEF After, DropRow
<1>14. ASSUME NEW c \in Calls, Record(c) PROVE SharesHeld'
  BY <1>0, <1>14 DEF Record
<1>15. ASSUME NEW c \in Owners, Expire(c) PROVE SharesHeld'
  BY <1>0, <1>15 DEF Expire
<1>16. CASE CoolDown
  BY <1>0, <1>16 DEF CoolDown
<1>17. CASE UNCHANGED vars
  BY <1>0, <1>17 DEF vars
<1>18. QED
  BY <1>1, <1>2, <1>3, <1>4, <1>5, <1>6, <1>7, <1>8, <1>9, <1>10, <1>11, <1>12, <1>13, <1>14,
     <1>15, <1>16, <1>17 DEF Next, Step

\* A step that moves no call into a run budget or out of one.
LEMMA BucketStays ==
  ASSUME Staged, NEW b \in Buckets, BucketHeld(b), UNCHANGED bucket, InFlight' = InFlight,
         \A c \in InFlight : est'[c] = est[c]
  PROVE  BucketHeld(b)'
<1>1. IsFiniteSet(Under(b)) /\ Under(b)' = Under(b) /\ \A c \in Under(b) : est[c] = est'[c]
  <2>1. Under(b) \subseteq Calls
    BY DEF Under, InFlight
  <2>2. IsFiniteSet(Under(b))
    BY <2>1, ConstantsAre, FS_Subset DEF Constants
  <2>3. QED
    BY <2>2 DEF Under
<1>2. Total(est, Under(b)) = Total(est', Under(b))
  BY <1>1, TotalSame
<1>3. Total(est, Under(b))' = Total(est', Under(b))
  BY <1>1
<1>4. QED
  BY <1>2, <1>3 DEF BucketHeld

\* One call is added or taken away.
LEMMA BucketChanges ==
  ASSUME Loose, Loose', NEW b \in Buckets, BucketHeld(b), NEW c \in Calls,
         Under(b)' \ {c} = Under(b) \ {c}, \A d \in Calls \ {c} : est'[d] = est[d]
  PROVE  /\ bucket[b].held \in Nat
         /\ Total(est, Under(b))' =
               bucket[b].held - (IF c \in Under(b) THEN est[c] ELSE 0)
                              + (IF c \in Under(b)' THEN est'[c] ELSE 0)
<1>1. Under(b) \subseteq Calls /\ Under(b)' \subseteq Calls
  BY DEF Under, InFlight
<1>2. IsFiniteSet(Under(b)) /\ IsFiniteSet(Under(b)')
  BY <1>1, ConstantsAre, FS_Subset DEF Constants
<1>3. \A d \in Calls : est[d] \in Nat /\ est'[d] \in Nat
  BY DEF Loose
<1> DEFINE S == Under(b)
           T == Under(b)'
<1>4. /\ IsFiniteSet(S) /\ \A d \in S : est[d] \in Nat
      /\ IsFiniteSet(T) /\ \A d \in T : est'[d] \in Nat
      /\ S \ {c} = T \ {c} /\ \A d \in S \ {c} : est[d] = est'[d]
  BY <1>1, <1>2, <1>3
<1>5. Total(est, Under(b))' = Total(est', T)
  OBVIOUS
<1> HIDE DEF S, T
<1>6. PICK rest \in Nat : /\ Total(est, S) = rest + (IF c \in S THEN est[c] ELSE 0)
                          /\ Total(est', T) = rest + (IF c \in T THEN est'[c] ELSE 0)
  BY <1>4, OneChange
<1>7. bucket[b].held = Total(est, S)
  BY DEF BucketHeld, S
<1>8. est[c] \in Nat /\ est'[c] \in Nat
  BY <1>3
<1>9. QED
  BY <1>5, <1>6, <1>7, <1>8 DEF S, T

LEMMA BucketsStep ==
  ASSUME Staged, Staged', [Next]_vars, NEW b \in Buckets, BucketHeld(b)
  PROVE  BucketHeld(b)'
<1>0. ASSUME UNCHANGED bucket, InFlight' = InFlight, \A d \in InFlight : est'[d] = est[d]
      PROVE  BucketHeld(b)'
  BY <1>0, BucketStays
<1> USE DEF Staged, Go, InFlight, call, budgets, database, history, governor
<1>1. ASSUME NEW c \in Calls, Enter(c) PROVE BucketHeld(b)'
  BY <1>0, <1>1, Entered DEF Loose
<1>2. ASSUME NEW c \in Calls, CheckCircuit(c) PROVE BucketHeld(b)'
  BY <1>0, <1>2 DEF CheckCircuit, Loose
<1>3. ASSUME NEW c \in Calls, TakeSlot(c) PROVE BucketHeld(b)'
  BY <1>0, <1>3 DEF TakeSlot, Loose
<1>4. ASSUME NEW c \in Calls, LeaveQueue(c) PROVE BucketHeld(b)'
  BY <1>0, <1>4 DEF LeaveQueue, Loose
<1>5. ASSUME NEW c \in Calls, TryReserve(c) PROVE BucketHeld(b)'
  BY <1>0, <1>5, TriedSimply DEF Loose
<1>6. ASSUME NEW c \in Calls, ReserveRunCost(c) PROVE BucketHeld(b)'
  <2>1. CASE UNCHANGED bucket /\ pc' = [pc EXCEPT ![c] = "unrow"]
    BY <1>0, <1>6, <2>1 DEF ReserveRunCost, Loose
  <2>2. ASSUME bucket' = [a \in Buckets |-> IF a \in BucketsOf[c]
                             THEN [bucket[a] EXCEPT !.held = @ + est[c]] ELSE bucket[a]],
               pc[c] = "run", pc' = [pc EXCEPT ![c] = "call"], est' = est
        PROVE  BucketHeld(b)'
    <3>1. /\ c \notin Under(b) /\ Under(b)' \ {c} = Under(b) \ {c}
          /\ c \in Under(b)' <=> b \in BucketsOf[c]
      BY <2>2 DEF Under, Loose
    <3>2. /\ bucket[b].held \in Nat
          /\ Total(est, Under(b))' = bucket[b].held + (IF c \in Under(b)' THEN est[c] ELSE 0)
      <4>1. Loose /\ Loose' /\ est'[c] = est[c] /\ est[c] \in Nat
            /\ \A d \in Calls \ {c} : est'[d] = est[d]
        BY <2>2 DEF Loose
      <4>2. /\ bucket[b].held \in Nat
            /\ Total(est, Under(b))' =
                  bucket[b].held - (IF c \in Under(b) THEN est[c] ELSE 0)
                                 + (IF c \in Under(b)' THEN est'[c] ELSE 0)
        BY <3>1, <4>1, BucketChanges
      <4>3. QED
        BY <3>1, <4>1, <4>2
    <3>3. bucket'[b].held = bucket[b].held + (IF b \in BucketsOf[c] THEN est[c] ELSE 0)
      BY <2>2, <3>2 DEF Loose
    <3>4. QED
      BY <3>1, <3>2, <3>3 DEF BucketHeld
  <2>3. QED
    BY <1>6, <2>1, <2>2 DEF ReserveRunCost
<1>7. ASSUME NEW c \in Calls, DropRefusedRow(c) PROVE BucketHeld(b)'
  BY <1>0, <1>7 DEF DropRefusedRow, DropRow, Loose
<1>8. ASSUME NEW c \in Calls, ReleaseSlot(c) PROVE BucketHeld(b)'
  BY <1>0, <1>8 DEF ReleaseSlot, Loose
<1>9. ASSUME NEW c \in Calls, Cancel(c) PROVE BucketHeld(b)'
  BY <1>0, <1>9 DEF Cancel, Loose
<1>10. ASSUME NEW c \in Calls, Preflight(c) PROVE BucketHeld(b)'
  BY <1>0, <1>10 DEF Preflight, Loose
<1>11. ASSUME NEW c \in Calls, Answer(c) PROVE BucketHeld(b)'
  BY <1>0, <1>11 DEF Answer, Loose
<1>12. ASSUME NEW c \in Calls, Fail(c) PROVE BucketHeld(b)'
  BY <1>0, <1>12 DEF Fail, Loose
<1>13. ASSUME NEW c \in Calls, After(c) PROVE BucketHeld(b)'
  BY <1>0, <1>13 DEF After, DropRow, Loose
<1>14. ASSUME NEW c \in Calls, Record(c) PROVE BucketHeld(b)'
  <2>1. /\ pc[c] = "record" /\ pc' = [pc EXCEPT ![c] = "unslot"]
        /\ est' = [est EXCEPT ![c] = 0]
        /\ bucket'[b].held = bucket[b].held - (IF b \in BucketsOf[c] THEN est[c] ELSE 0)
    <3>1. bucket[b].held \in Int
      BY DEF Loose
    <3>2. QED
      BY <1>14, <3>1 DEF Record, Settle
  <2>2. /\ c \notin Under(b)' /\ Under(b)' \ {c} = Under(b) \ {c}
        /\ c \in Under(b) <=> b \in BucketsOf[c]
    BY <2>1 DEF Under, Loose
  <2>3. /\ bucket[b].held \in Nat
        /\ Total(est, Under(b))' = bucket[b].held - (IF c \in Under(b) THEN est[c] ELSE 0)
                                                 + (IF c \in Under(b)' THEN est'[c] ELSE 0)
    <3>1. \A d \in Calls \ {c} : est'[d] = est[d]
      BY <2>1 DEF Loose
    <3>2. QED
      BY <2>2, <3>1, BucketChanges
  <2>4. QED
    <3>1. est[c] \in Nat
      BY DEF Loose
    <3>2. QED
      BY <2>1, <2>2, <2>3, <3>1 DEF BucketHeld
<1>15. ASSUME NEW c \in Owners, Expire(c) PROVE BucketHeld(b)'
  BY <1>0, <1>15 DEF Expire, Loose
<1>16. CASE CoolDown
  BY <1>0, <1>16 DEF CoolDown, Loose
<1>17. CASE UNCHANGED vars
  BY <1>0, <1>17 DEF vars, Loose
<1>18. QED
  BY <1>1, <1>2, <1>3, <1>4, <1>5, <1>6, <1>7, <1>8, <1>9, <1>10, <1>11, <1>12, <1>13, <1>14,
     <1>15, <1>16, <1>17 DEF Next, Step
\* A set of calls that one joins or leaves.
LEMMA CallJoins ==
  ASSUME NEW S \in SUBSET Calls, NEW c \in Calls
  PROVE  /\ IsFiniteSet(S) /\ Cardinality(S) \in Nat
         /\ c \notin S => Cardinality(S \cup {c}) = Cardinality(S) + 1
         /\ c \in S => Cardinality(S \ {c}) = Cardinality(S) - 1 /\ 1 <= Cardinality(S)
<1>1. IsFiniteSet(S) /\ Cardinality(S) \in Nat
  BY ConstantsAre, FS_Subset, FS_CardinalityType DEF Constants
<1>2. ASSUME c \in S PROVE Cardinality(S \ {c}) = Cardinality(S) - 1
  BY <1>1, <1>2, FS_RemoveElement
<1>3. IsFiniteSet(S \ {c}) /\ Cardinality(S \ {c}) \in Nat
  BY <1>1, FS_Subset, FS_CardinalityType
<1>4. ASSUME c \notin S PROVE Cardinality(S \cup {c}) = Cardinality(S) + 1
  BY <1>1, <1>4, FS_AddElement
<1>5. QED
  BY <1>1, <1>2, <1>3, <1>4

LEMMA SlotsStep == Staged /\ SlotsTaken /\ [Next]_vars => SlotsTaken'
<1> SUFFICES ASSUME Staged, SlotsTaken, [Next]_vars PROVE SlotsTaken'
  OBVIOUS
<1>0. ASSUME UNCHANGED slots, Placing' = Placing PROVE SlotsTaken'
  BY <1>0 DEF SlotsTaken
<1> USE DEF Go, call, budgets, database, history, governor
<1>1. ASSUME NEW c \in Calls, Enter(c) PROVE SlotsTaken'
  BY <1>0, <1>1, Entered DEF Placing, Placed, Staged, Loose
<1>2. ASSUME NEW c \in Calls, CheckCircuit(c) PROVE SlotsTaken'
  BY <1>0, <1>2 DEF CheckCircuit, Placing, Placed, Staged, Loose
<1>3. ASSUME NEW c \in Calls, TakeSlot(c) PROVE SlotsTaken'
  <2>1. c \notin Placing /\ Placing' = Placing \cup {c} /\ slots' = slots + 1
    BY <1>3 DEF TakeSlot, Placing, Placed, Staged, Loose
  <2>2. Cardinality(Placing \cup {c}) = Cardinality(Placing) + 1
    BY <2>1, CallJoins DEF Placing
  <2>3. QED
    BY <2>1, <2>2 DEF SlotsTaken
<1>4. ASSUME NEW c \in Calls, LeaveQueue(c) PROVE SlotsTaken'
  BY <1>0, <1>4 DEF LeaveQueue, Placing, Placed, Staged, Loose
<1>5. ASSUME NEW c \in Calls, TryReserve(c) PROVE SlotsTaken'
  BY <1>0, <1>5, TriedSimply DEF Placing, Placed, Staged, Loose
<1>6. ASSUME NEW c \in Calls, ReserveRunCost(c) PROVE SlotsTaken'
  BY <1>0, <1>6 DEF ReserveRunCost, Placing, Placed, Staged, Loose
<1>7. ASSUME NEW c \in Calls, DropRefusedRow(c) PROVE SlotsTaken'
  BY <1>0, <1>7 DEF DropRefusedRow, DropRow, Placing, Placed, Staged, Loose
<1>8. ASSUME NEW c \in Calls, ReleaseSlot(c) PROVE SlotsTaken'
  <2>1. c \in Placing /\ Placing' = Placing \ {c} /\ slots' = slots - 1
    BY <1>8 DEF ReleaseSlot, Placing, Placed, Staged, Loose
  <2>2. Cardinality(Placing \ {c}) = Cardinality(Placing) - 1
    BY <2>1, CallJoins DEF Placing
  <2>3. QED
    BY <2>1, <2>2 DEF SlotsTaken
<1>9. ASSUME NEW c \in Calls, Cancel(c) PROVE SlotsTaken'
  BY <1>0, <1>9 DEF Cancel, Placing, Placed, Staged, Loose
<1>10. ASSUME NEW c \in Calls, Preflight(c) PROVE SlotsTaken'
  BY <1>0, <1>10 DEF Preflight, Placing, Placed, Staged, Loose
<1>11. ASSUME NEW c \in Calls, Answer(c) PROVE SlotsTaken'
  BY <1>0, <1>11 DEF Answer, Placing, Placed, Staged, Loose
<1>12. ASSUME NEW c \in Calls, Fail(c) PROVE SlotsTaken'
  BY <1>0, <1>12 DEF Fail, Placing, Placed, Staged, Loose
<1>13. ASSUME NEW c \in Calls, After(c) PROVE SlotsTaken'
  BY <1>0, <1>13 DEF After, DropRow, Placing, Placed, Staged, Loose
<1>14. ASSUME NEW c \in Calls, Record(c) PROVE SlotsTaken'
  BY <1>0, <1>14 DEF Record, Placing, Placed, Staged, Loose
<1>15. ASSUME NEW c \in Owners, Expire(c) PROVE SlotsTaken'
  BY <1>0, <1>15 DEF Expire, Placing, Placed, Staged, Loose
<1>16. CASE CoolDown
  BY <1>0, <1>16 DEF CoolDown, Placing, Placed, Staged, Loose
<1>17. CASE UNCHANGED vars
  BY <1>0, <1>17 DEF vars, Placing, Placed, Staged, Loose
<1>18. QED
  BY <1>1, <1>2, <1>3, <1>4, <1>5, <1>6, <1>7, <1>8, <1>9, <1>10, <1>11, <1>12, <1>13, <1>14,
     <1>15, <1>16, <1>17 DEF Next, Step

LEMMA CountedStep == Staged /\ Counted /\ [Next]_vars => Counted'
<1> SUFFICES ASSUME Staged, Counted, [Next]_vars PROVE Counted'
  OBVIOUS
<1>0. ASSUME exec'.calls = exec.calls, Admitting' = Admitting PROVE Counted'
  BY <1>0 DEF Counted
<1>00. exec.calls \in Int /\ Cardinality(Admitting) <= exec.calls
  BY DEF Counted, Staged, Loose
<1> USE DEF Go, Execution, call, budgets, database, history, governor
<1>1. ASSUME NEW c \in Calls, Enter(c) PROVE Counted'
  <2>1. CASE UNCHANGED exec /\ pc[c] = "new" /\ pc' = [pc EXCEPT ![c] = "out"]
    BY <1>0, <2>1 DEF Admitting, Staged, Loose
  <2>2. CASE exec'.calls = exec.calls + 1 /\ pc[c] = "new" /\ pc' = [pc EXCEPT ![c] = "circuit"]
    <3>1. c \notin Admitting /\ Admitting' = Admitting \cup {c}
      BY <2>2 DEF Admitting, Staged, Loose
    <3>2. /\ Cardinality(Admitting \cup {c}) = Cardinality(Admitting) + 1
          /\ Cardinality(Admitting) \in Nat
      BY <3>1, CallJoins DEF Admitting
    <3>3. QED
      BY <1>00, <2>2, <3>1, <3>2 DEF Counted
  <2>3. QED
    BY <1>1, <2>1, <2>2, Entered DEF Staged
<1>2. ASSUME NEW c \in Calls, CheckCircuit(c) PROVE Counted'
  BY <1>0, <1>2 DEF CheckCircuit, Admitting, Staged, Loose
<1>3. ASSUME NEW c \in Calls, TakeSlot(c) PROVE Counted'
  BY <1>0, <1>3 DEF TakeSlot, Admitting, Staged, Loose
<1>4. ASSUME NEW c \in Calls, LeaveQueue(c) PROVE Counted'
  BY <1>0, <1>4 DEF LeaveQueue, Admitting, Staged, Loose
<1>5. ASSUME NEW c \in Calls, TryReserve(c) PROVE Counted'
  BY <1>0, <1>5, TriedSimply DEF Admitting, Staged, Loose
<1>6. ASSUME NEW c \in Calls, ReserveRunCost(c) PROVE Counted'
  BY <1>0, <1>6 DEF ReserveRunCost, Admitting, Staged, Loose
<1>7. ASSUME NEW c \in Calls, DropRefusedRow(c) PROVE Counted'
  BY <1>0, <1>7 DEF DropRefusedRow, DropRow, Admitting, Staged, Loose
<1>8. ASSUME NEW c \in Calls, ReleaseSlot(c) PROVE Counted'
  <2>1. CASE pc' = [pc EXCEPT ![c] = "cancel"]
    BY <1>0, <1>8, <2>1 DEF ReleaseSlot, Admitting, Staged, Loose
  <2>2. CASE pc' = [pc EXCEPT ![c] = "out"]
    <3>1. c \in Admitting /\ Admitting' = Admitting \ {c} /\ exec'.calls = exec.calls
      BY <1>8, <2>2 DEF ReleaseSlot, Admitting, Staged, Loose
    <3>2. /\ Cardinality(Admitting \ {c}) = Cardinality(Admitting) - 1
          /\ Cardinality(Admitting) \in Nat
      BY <3>1, CallJoins DEF Admitting
    <3>3. QED
      BY <1>00, <3>1, <3>2 DEF Counted
  <2>3. QED
    BY <1>8, <2>1, <2>2 DEF ReleaseSlot
<1>9. ASSUME NEW c \in Calls, Cancel(c) PROVE Counted'
  <2>1. c \in Admitting /\ Admitting' = Admitting \ {c} /\ exec'.calls = exec.calls - 1
    BY <1>9 DEF Cancel, Admitting, Staged, Loose
  <2>2. /\ Cardinality(Admitting \ {c}) = Cardinality(Admitting) - 1
        /\ Cardinality(Admitting) \in Nat
    BY <2>1, CallJoins DEF Admitting
  <2>3. QED
    BY <1>00, <2>1, <2>2 DEF Counted
<1>10. ASSUME NEW c \in Calls, Preflight(c) PROVE Counted'
  BY <1>0, <1>10 DEF Preflight, Admitting, Staged, Loose
<1>11. ASSUME NEW c \in Calls, Answer(c) PROVE Counted'
  BY <1>0, <1>11 DEF Answer, Admitting, Staged, Loose
<1>12. ASSUME NEW c \in Calls, Fail(c) PROVE Counted'
  BY <1>0, <1>12 DEF Fail, Admitting, Staged, Loose
<1>13. ASSUME NEW c \in Calls, After(c) PROVE Counted'
  BY <1>0, <1>13 DEF After, DropRow, Admitting, Staged, Loose
<1>14. ASSUME NEW c \in Calls, Record(c) PROVE Counted'
  BY <1>0, <1>14 DEF Record, Admitting, Staged, Loose
<1>15. ASSUME NEW c \in Owners, Expire(c) PROVE Counted'
  BY <1>0, <1>15 DEF Expire, Admitting, Staged, Loose
<1>16. CASE CoolDown
  BY <1>0, <1>16 DEF CoolDown, Admitting, Staged, Loose
<1>17. CASE UNCHANGED vars
  BY <1>0, <1>17 DEF vars, Admitting, Staged, Loose
<1>18. QED
  BY <1>1, <1>2, <1>3, <1>4, <1>5, <1>6, <1>7, <1>8, <1>9, <1>10, <1>11, <1>12, <1>13, <1>14,
     <1>15, <1>16, <1>17 DEF Next, Step

LEMMA AlwaysBacked == Spec => [](Staged /\ Backed)
<1>1. Staged /\ Staged' /\ Backed /\ [Next]_vars => Backed'
  BY SharesStep, BucketsStep, SlotsStep, CountedStep DEF Backed
<1>2. Spec => []Backed
  BY <1>1, BackedInit, AlwaysStaged, PTL DEF Spec
<1>3. QED
  BY <1>2, AlwaysStaged, PTL

\* With what they hold behind them, no counter is taken below zero.
LEMMA Typed == Staged /\ Backed => TypeOK
<1> SUFFICES ASSUME Staged, Backed PROVE TypeOK
  OBVIOUS
<1>1. exec.held \in Nat
  BY ConstantsAre, TotalType DEF Staged, Loose, Backed, SharesHeld, Constants
<1>2. exec.calls \in Nat /\ slots \in 0..Slots
  <2>1. /\ Cardinality(Placing) \in Nat /\ Cardinality(Admitting) \in Nat
    <3>1. IsFiniteSet(Placing) /\ IsFiniteSet(Admitting)
      BY ConstantsAre, FS_Subset DEF Constants, Placing, Admitting
    <3>2. QED
      BY <3>1, FS_CardinalityType
  <2>2. QED
    BY <2>1, ConstantsAre DEF Staged, Loose, Backed, SlotsTaken, Counted, Constants
<1>3. \A b \in Buckets : bucket[b].held \in Nat
  <2> SUFFICES ASSUME NEW b \in Buckets PROVE bucket[b].held \in Nat
    OBVIOUS
  <2>1. Under(b) \subseteq Calls /\ \A c \in Under(b) : est[c] \in Nat
    BY DEF Under, InFlight, Staged, Loose
  <2>2. IsFiniteSet(Under(b))
    BY <2>1, ConstantsAre, FS_Subset DEF Constants
  <2>3. QED
    BY <2>1, <2>2, TotalType DEF Backed, BucketHeld
<1>4. exec \in [spent : Nat, held : Nat, calls : Nat]
  BY <1>1, <1>2 DEF Staged, Loose
<1>5. bucket \in [Buckets -> [spent : Nat, held : Nat]]
  BY <1>3 DEF Staged, Loose
<1>6. QED
  BY <1>2, <1>4, <1>5 DEF Staged, Loose, TypeOK

\* Every counter stays a number of what is there: no release is made twice.
THEOREM Types == Spec => []TypeOK
  BY AlwaysBacked, Typed, PTL

\* Each budget holds exactly the reservations of the calls in flight, and each slot of
\* the provider has its call, at whatever step a call is refused or fails (completeOne).
THEOREM NoReservationLeaks == Spec => []NothingLeaks
<1>1. Staged /\ Backed => NothingLeaks
  <2> SUFFICES ASSUME Staged, Backed PROVE NothingLeaks
    OBVIOUS
  <2>1. Placing = {c \in Calls : pc[c] \in {"reserve", "again", "run", "unrow", "unslot"}}
                  \cup InFlight
    BY DEF Placing, Placed, InFlight
  <2>2. \A c \in Calls : pc[c] = "out" => share[c] = 0 /\ rows[c] = 0
    BY DEF Staged, Stage, Charged
  <2>3. \A b \in Buckets :
           bucket[b].held = Total(est, {c \in InFlight : b \in BucketsOf[c]})
    BY DEF Backed, BucketHeld, Under
  <2>4. QED
    BY <2>1, <2>2, <2>3 DEF NothingLeaks, Backed, SharesHeld, SlotsTaken
<1>2. QED
  BY <1>1, AlwaysBacked, PTL
-----------------------------------------------------------------------------
(* What a run may spend.                                                     *)

LEMMA KeptInit == Init => RunBudgetKept
<1> SUFFICES ASSUME Init PROVE RunBudgetKept
  OBVIOUS
<1> QED
  BY ConstantsAre DEF Init, RunBudgetKept, NothingSpent, Constants

LEMMA BucketKept ==
  ASSUME Staged, TypeOK, RunBudgetKept, [Next]_vars, NEW b \in Buckets
  PROVE  bucket'[b].spent + bucket'[b].held <= BucketLimit + bucketOver'[b]
<1>0. /\ bucket[b].spent \in Nat /\ bucket[b].held \in Nat /\ BucketLimit \in Nat
      /\ bucketOver[b] \in Nat
      /\ bucket[b].spent + bucket[b].held <= BucketLimit + bucketOver[b]
  BY ConstantsAre DEF TypeOK, RunBudgetKept, Constants
<1> DEFINE Kept == bucket'[b].spent + bucket'[b].held <= BucketLimit + bucketOver'[b]
<1> USE DEF Go, call, budgets, database, history, governor
<1>1. ASSUME NEW c \in Calls, Enter(c) PROVE Kept
  BY <1>0, <1>1, Entered DEF Staged
<1>2. ASSUME NEW c \in Calls, CheckCircuit(c) PROVE Kept
  BY <1>0, <1>2 DEF CheckCircuit
<1>3. ASSUME NEW c \in Calls, TakeSlot(c) PROVE Kept
  BY <1>0, <1>3 DEF TakeSlot
<1>4. ASSUME NEW c \in Calls, LeaveQueue(c) PROVE Kept
  BY <1>0, <1>4 DEF LeaveQueue
<1>5. ASSUME NEW c \in Calls, TryReserve(c) PROVE Kept
  BY <1>0, <1>5, TriedSimply DEF Staged
<1>6. ASSUME NEW c \in Calls, ReserveRunCost(c) PROVE Kept
  <2>1. est[c] \in Nat
    BY DEF TypeOK
  <2>0. UNCHANGED bucketOver
    BY <1>6 DEF ReserveRunCost
  <2>2. CASE b \in BucketsOf[c] /\ bucket' = [a \in Buckets |-> IF a \in BucketsOf[c]
                                      THEN [bucket[a] EXCEPT !.held = @ + est[c]] ELSE bucket[a]]
    <3>1. bucket[b].spent + bucket[b].held + est[c] <= BucketLimit \/ bucket' = bucket
      BY <1>6, <2>2 DEF ReserveRunCost
    <3>2. bucket'[b] = [bucket[b] EXCEPT !.held = @ + est[c]]
      BY <2>2
    <3>3. bucket'[b].spent = bucket[b].spent /\ bucket'[b].held = bucket[b].held + est[c]
      BY <3>2 DEF TypeOK
    <3>4. QED
      BY <1>0, <2>0, <2>1, <3>1, <3>3
  <2>3. CASE bucket'[b] = bucket[b]
    BY <1>0, <2>0, <2>3
  <2>4. QED
    BY <1>6, <2>2, <2>3 DEF ReserveRunCost
<1>7. ASSUME NEW c \in Calls, DropRefusedRow(c) PROVE Kept
  BY <1>0, <1>7 DEF DropRefusedRow, DropRow
<1>8. ASSUME NEW c \in Calls, ReleaseSlot(c) PROVE Kept
  BY <1>0, <1>8 DEF ReleaseSlot
<1>9. ASSUME NEW c \in Calls, Cancel(c) PROVE Kept
  BY <1>0, <1>9 DEF Cancel
<1>10. ASSUME NEW c \in Calls, Preflight(c) PROVE Kept
  BY <1>0, <1>10 DEF Preflight
<1>11. ASSUME NEW c \in Calls, Answer(c) PROVE Kept
  BY <1>0, <1>11 DEF Answer
<1>12. ASSUME NEW c \in Calls, Fail(c) PROVE Kept
  BY <1>0, <1>12 DEF Fail
<1>13. ASSUME NEW c \in Calls, After(c) PROVE Kept
  BY <1>0, <1>13 DEF After, DropRow
<1>14. ASSUME NEW c \in Calls, Record(c) PROVE Kept
  <2>1. est[c] \in Nat /\ cost[c] \in Nat
    BY DEF TypeOK
  <2> DEFINE charge == IF result[c] = "ok" THEN cost[c] ELSE est[c]
  <2>2. charge \in Nat
    BY <2>1
  <2>3. /\ bucket' = [a \in Buckets |-> IF a \in BucketsOf[c]
             THEN [spent |-> bucket[a].spent + charge, held |-> bucket[a].held - est[c]]
             ELSE bucket[a]]
        /\ bucketOver' = [a \in Buckets |->
             bucketOver[a] + IF a \in BucketsOf[c] THEN Above(charge, est[c]) ELSE 0]
    BY <1>14 DEF Record, Settle
  <2>4. /\ Above(charge, est[c]) \in Nat
        /\ charge <= est[c] + Above(charge, est[c])
    BY <2>1, <2>2 DEF Above
  <2> HIDE DEF charge
  <2>5. CASE b \in BucketsOf[c]
    <3>1. /\ bucket'[b].spent = bucket[b].spent + charge
          /\ bucket'[b].held = bucket[b].held - est[c]
          /\ bucketOver'[b] = bucketOver[b] + Above(charge, est[c])
      BY <2>3, <2>5
    <3>2. QED
      BY <1>0, <2>1, <2>2, <2>4, <3>1
  <2>6. CASE b \notin BucketsOf[c]
    <3>1. bucket'[b] = bucket[b] /\ bucketOver'[b] = bucketOver[b]
      BY <1>0, <2>3, <2>6
    <3>2. QED
      BY <1>0, <3>1
  <2>7. QED
    BY <2>5, <2>6
<1>15. ASSUME NEW c \in Owners, Expire(c) PROVE Kept
  BY <1>0, <1>15 DEF Expire
<1>16. CASE CoolDown
  BY <1>0, <1>16 DEF CoolDown
<1>17. CASE UNCHANGED vars
  BY <1>0, <1>17 DEF vars
<1>18. QED
  BY <1>1, <1>2, <1>3, <1>4, <1>5, <1>6, <1>7, <1>8, <1>9, <1>10, <1>11, <1>12, <1>13, <1>14,
     <1>15, <1>16, <1>17 DEF Next, Step

LEMMA ExecKept ==
  ASSUME Staged, Backed, TypeOK, RunBudgetKept, [Next]_vars
  PROVE  exec'.spent + exec'.held <= ExecLimit + execOver'
<1>0. /\ exec.spent \in Nat /\ exec.held \in Nat /\ ExecLimit \in Nat
      /\ execOver \in Nat /\ exec.spent + exec.held <= ExecLimit + execOver
  BY ConstantsAre DEF TypeOK, RunBudgetKept, Constants
<1> DEFINE Kept == exec'.spent + exec'.held <= ExecLimit + execOver'
<1> USE DEF Go, Execution, call, budgets, database, history, governor
<1>1. ASSUME NEW c \in Calls, Enter(c) PROVE Kept
  <2>1. CASE UNCHANGED <<exec, execOver>>
    BY <1>0, <2>1
  <2>2. ASSUME NEW granted \in Nat, granted <= ExecLimit - exec.spent - exec.held,
               UNCHANGED execOver,
               exec'.spent = exec.spent, exec'.held = exec.held + granted
        PROVE  Kept
    BY <1>0, <2>2
  <2>3. QED
    BY <1>1, <2>1, <2>2, Entered DEF Staged
<1>2. ASSUME NEW c \in Calls, CheckCircuit(c) PROVE Kept
  BY <1>0, <1>2 DEF CheckCircuit
<1>3. ASSUME NEW c \in Calls, TakeSlot(c) PROVE Kept
  BY <1>0, <1>3 DEF TakeSlot
<1>4. ASSUME NEW c \in Calls, LeaveQueue(c) PROVE Kept
  BY <1>0, <1>4 DEF LeaveQueue
<1>5. ASSUME NEW c \in Calls, TryReserve(c) PROVE Kept
  BY <1>0, <1>5, TriedSimply DEF Staged
<1>6. ASSUME NEW c \in Calls, ReserveRunCost(c) PROVE Kept
  BY <1>0, <1>6 DEF ReserveRunCost
<1>7. ASSUME NEW c \in Calls, DropRefusedRow(c) PROVE Kept
  BY <1>0, <1>7 DEF DropRefusedRow, DropRow
<1>8. ASSUME NEW c \in Calls, ReleaseSlot(c) PROVE Kept
  BY <1>0, <1>8 DEF ReleaseSlot
<1>9. ASSUME NEW c \in Calls, Cancel(c) PROVE Kept
  <2>1. share[c] \in Nat
    BY DEF TypeOK
  <2>2. QED
    BY <1>0, <1>9, <2>1 DEF Cancel
<1>10. ASSUME NEW c \in Calls, Preflight(c) PROVE Kept
  BY <1>0, <1>10 DEF Preflight
<1>11. ASSUME NEW c \in Calls, Answer(c) PROVE Kept
  <2>1. share[c] \in Nat
    BY DEF TypeOK
  <2>2. PICK n \in Usages : /\ Execution(exec.spent + n, exec.held - share[c], exec.calls)
                            /\ execOver' = execOver + Above(n, share[c])
    BY <1>11 DEF Answer
  <2>3. n \in Nat /\ Above(n, share[c]) \in Nat /\ n <= share[c] + Above(n, share[c])
    BY <2>1, ConstantsAre DEF Constants, Above
  <2>4. QED
    BY <1>0, <2>1, <2>2, <2>3
<1>12. ASSUME NEW c \in Calls, Fail(c) PROVE Kept
  <2>1. share[c] \in Nat
    BY DEF TypeOK
  <2>2. QED
    BY <1>0, <1>12, <2>1 DEF Fail
<1>13. ASSUME NEW c \in Calls, After(c) PROVE Kept
  BY <1>0, <1>13 DEF After, DropRow
<1>14. ASSUME NEW c \in Calls, Record(c) PROVE Kept
  BY <1>0, <1>14 DEF Record
<1>15. ASSUME NEW c \in Owners, Expire(c) PROVE Kept
  BY <1>0, <1>15 DEF Expire
<1>16. CASE CoolDown
  BY <1>0, <1>16 DEF CoolDown
<1>17. CASE UNCHANGED vars
  BY <1>0, <1>17 DEF vars
<1>18. QED
  BY <1>1, <1>2, <1>3, <1>4, <1>5, <1>6, <1>7, <1>8, <1>9, <1>10, <1>11, <1>12, <1>13, <1>14,
     <1>15, <1>16, <1>17 DEF Next, Step

\* A run never spends more than its execution budget, and no run budget above a call is
\* passed, however many calls and nested runs hold a part of it (ReserveRunCost), but by
\* what a provider reports above what had been reserved (settle, SettleRunCost).
THEOREM RunsKeepTheirBudget == Spec => []RunBudgetKept
<1>1. Staged /\ Backed /\ RunBudgetKept /\ [Next]_vars => RunBudgetKept'
  <2> SUFFICES ASSUME Staged, Backed, RunBudgetKept, [Next]_vars PROVE RunBudgetKept'
    OBVIOUS
  <2>1. TypeOK
    BY Typed
  <2>2. /\ \A b \in Buckets :
              bucket'[b].spent + bucket'[b].held <= BucketLimit + bucketOver'[b]
        /\ exec'.spent + exec'.held <= ExecLimit + execOver'
    BY <2>1, BucketKept, ExecKept
  <2>3. QED
    BY <2>2 DEF RunBudgetKept
<1>2. QED
  BY <1>1, KeptInit, AlwaysBacked, PTL DEF Spec
-----------------------------------------------------------------------------
(* What a day may cost.  Beside the usage, the reservations, and the one call *)
(* whose usage is not recorded yet, the invariant counts the calls that run    *)
(* on after their reservation was deleted.                                   *)

Lapsed == {c \in Calls : pc[c] \in Charged /\ rows[c] = 0}

LapsesCounted == Total(est, Lapsed) <= late

Within ==
    used + Reserved + Total(cost, Between) + Total(est, Lapsed)
       <= Ceiling + late + Max(Wanted) + dayOver

DayInv == LapsesCounted /\ Within

LEMMA Amounts ==
  ASSUME Loose
  PROVE  /\ used \in Nat /\ late \in Nat /\ dayOver \in Nat /\ Max(Wanted) \in Nat
         /\ Limit \in Nat /\ Ceiling \in Nat /\ Limit <= Ceiling
         /\ Reserved \in Nat /\ Total(cost, Between) \in Nat /\ Total(est, Lapsed) \in Nat
         /\ IsFiniteSet(Lapsed) /\ IsFiniteSet(Between)
         /\ Lapsed \subseteq Calls /\ Between \subseteq Calls
<1>1. Lapsed \subseteq Calls /\ Between \subseteq Calls
  BY DEF Lapsed, Between
<1>2. IsFiniteSet(Lapsed) /\ IsFiniteSet(Between)
  BY <1>1, ConstantsAre, FS_Subset DEF Constants
<1>3. (\A c \in Lapsed : est[c] \in Nat) /\ (\A c \in Between : cost[c] \in Nat)
  BY <1>1 DEF Loose
<1>4. Total(cost, Between) \in Nat /\ Total(est, Lapsed) \in Nat
  BY <1>2, <1>3, TotalType
<1>5. Reserved \in Nat
  <2>1. IsFiniteSet(Owners) /\ \A d \in Owners : rows[d] \in Nat
    BY ConstantsAre DEF Constants, Loose
  <2>2. QED
    BY <2>1, TotalType DEF Reserved
<1>6. QED
  BY <1>1, <1>2, <1>4, <1>5, ConstantsAre DEF Constants, Loose

LEMMA DayInit == Init => DayInv
<1> SUFFICES ASSUME Init PROVE DayInv
  OBVIOUS
<1>1. Lapsed = {} /\ Between = {} /\ used = 0 /\ late = 0 /\ dayOver = 0
  BY DEF Init, Lapsed, Between, Charged
<1>2. Total(cost, Between) = 0 /\ Total(est, Lapsed) = 0
  BY <1>1, TotalEmpty
<1>3. Reserved = Orphaned
  <2> DEFINE Empty == [d \in Owners |-> 0]
             Good == {S \in SUBSET Owners : Total(rows, S) = IF Earlier \in S THEN Orphaned ELSE 0}
  <2>1. ASSUME NEW U \in SUBSET Owners, \A V \in SUBSET U : V # U => V \in Good
        PROVE  U \in Good
    <3>1. CASE U = {}
      BY <3>1, TotalEmpty
    <3>2. ASSUME NEW x \in U PROVE U \in Good
      <4>1. IsFiniteSet(U) /\ \A y \in U : rows[y] \in Nat
        BY ConstantsAre, FS_Subset DEF Constants, Init
      <4>2. Total(rows, U) = Total(rows, U \ {x}) + rows[x]
        BY <4>1, TotalSplit
      <4>3. U \ {x} \in Good /\ rows[x] = (IF x = Earlier THEN Orphaned ELSE 0)
        BY <2>1 DEF Init
      <4>4. QED
        BY <4>2, <4>3, ConstantsAre DEF Constants
    <3>3. QED
      BY <3>1, <3>2
  <2>2. \A U \in SUBSET Owners : U \in Good
    <3> HIDE DEF Good
    <3>1. QED
      BY <2>1, ConstantsAre, SubsetInduction DEF Constants
  <2>3. QED
    BY <2>2 DEF Reserved, Owners
<1>4. QED
  BY <1>1, <1>2, <1>3, ConstantsAre DEF DayInv, LapsesCounted, Within, Constants

\* A step that changes neither what is counted nor who counts.
LEMMA DayStays ==
  ASSUME Loose, DayInv, UNCHANGED <<used, rows, late, dayOver>>,
         Lapsed' = Lapsed, \A c \in Lapsed : est'[c] = est[c],
         Between' = Between, \A c \in Between : cost'[c] = cost[c]
  PROVE  DayInv'
<1>1. Total(est, Lapsed)' = Total(est, Lapsed)
  <2>1. Total(est', Lapsed) = Total(est, Lapsed)
    BY Amounts, TotalSame
  <2>2. QED
    BY <2>1
<1>2. Total(cost, Between)' = Total(cost, Between)
  <2>1. Total(cost', Between) = Total(cost, Between)
    BY Amounts, TotalSame
  <2>2. QED
    BY <2>1
<1>3. Reserved' = Reserved
  BY DEF Reserved
<1>4. QED
  BY <1>1, <1>2, <1>3 DEF DayInv, LapsesCounted, Within

\* A call gives up its row, if the row is still there, and counts no more as lapsed.
LEMMA RowGoes ==
  ASSUME Staged, Loose', NEW c \in Calls, pc[c] \in Charged, UNCHANGED est,
         rows' = [rows EXCEPT ![c] = 0], Lapsed' = Lapsed \ {c}
  PROVE  /\ Reserved' + Total(est, Lapsed)' + est[c] = Reserved + Total(est, Lapsed)
         /\ Total(est, Lapsed)' <= Total(est, Lapsed)
<1>1. est[c] \in Nat /\ rows[c] \in Nat /\ c \in Owners /\ (rows[c] # 0 => rows[c] = est[c])
  BY DEF Staged, Loose, Stage, Owners
<1>2. Reserved' + rows[c] = Reserved /\ Reserved' \in Nat
  <2> DEFINE g == rows'
  <2>1. /\ IsFiniteSet(Owners) /\ (\A d \in Owners : rows[d] \in Nat)
        /\ (\A d \in Owners : g[d] \in Nat) /\ (\A d \in Owners \ {c} : rows[d] = g[d])
        /\ g[c] = 0
    BY ConstantsAre, <1>1 DEF Constants, Staged, Loose
  <2>2. Total(rows, Owners)' = Total(g, Owners)
    OBVIOUS
  <2> HIDE DEF g
  <2>3. PICK rest \in Nat : /\ Total(rows, Owners) = rest + (IF c \in Owners THEN rows[c] ELSE 0)
                            /\ Total(g, Owners) = rest + (IF c \in Owners THEN g[c] ELSE 0)
    BY <2>1, OneChange
  <2>4. QED
    BY <1>1, <2>1, <2>2, <2>3 DEF Reserved
<1>3. /\ Total(est, Lapsed)' + (IF c \in Lapsed THEN est[c] ELSE 0) = Total(est, Lapsed)
      /\ Total(est, Lapsed)' \in Nat
  <2>1. IsFiniteSet(Lapsed) /\ (\A d \in Lapsed : est[d] \in Nat) /\ Total(est, Lapsed) \in Nat
    BY Amounts DEF Staged, Loose
  <2>2. Total(est, Lapsed)' = Total(est, Lapsed \ {c}) /\ Total(est, Lapsed)' \in Nat
    <3>1. Total(est, Lapsed)' = Total(est', Lapsed')
      OBVIOUS
    <3>2. IsFiniteSet(Lapsed \ {c}) /\ \A d \in Lapsed \ {c} : est[d] \in Nat
      BY <2>1, FS_Subset
    <3>3. Total(est, Lapsed \ {c}) \in Nat
      BY <3>2, TotalType
    <3>4. QED
      BY <3>1, <3>3
  <2>3. CASE c \in Lapsed
    <3>1. Total(est, Lapsed) = Total(est, Lapsed \ {c}) + est[c]
      BY <2>1, <2>3, TotalSplit
    <3>2. QED
      BY <2>2, <2>3, <3>1
  <2>4. CASE c \notin Lapsed
    <3>1. Lapsed \ {c} = Lapsed
      BY <2>4
    <3>2. QED
      BY <2>1, <2>2, <2>4, <3>1
  <2>5. QED
    BY <2>3, <2>4
<1>4. c \in Lapsed <=> rows[c] = 0
  BY DEF Lapsed
<1>5. Reserved \in Nat /\ Total(est, Lapsed) \in Nat
  BY Amounts DEF Staged
<1>6. QED
  BY <1>1, <1>2, <1>3, <1>4, <1>5

\* The cost of the one call between Release and Record.
LEMMA OneAlone == ASSUME Loose, NEW c \in Calls PROVE Total(cost, {c}) = cost[c]
<1>1. IsFiniteSet({c}) /\ (\A x \in {c} : cost[x] \in Nat) /\ {c} \ {c} = {}
  BY FS_Singleton DEF Loose
<1>2. Total(cost, {c}) = Total(cost, {c} \ {c}) + cost[c]
  BY <1>1, TotalSplit
<1>3. cost[c] \in Nat
  BY <1>1
<1>4. QED
  BY <1>1, <1>2, <1>3, TotalEmpty

LEMMA OneBetween ==
  ASSUME Loose, NEW c \in Calls
  PROVE  /\ Between = {c} => Total(cost, Between) = cost[c]
         /\ Between = {} => Total(cost, Between) = 0
  BY OneAlone, TotalEmpty

LEMMA BetweenBounded == Staged => Total(cost, Between) <= Max(Wanted) + dayOver
<1> SUFFICES ASSUME Staged PROVE Total(cost, Between) <= Max(Wanted) + dayOver
  OBVIOUS
<1>0. dayOver \in Nat
  BY DEF Staged, Loose
<1>1. CASE Between = {}
  <2>1. Total(cost, Between) = 0
    BY <1>1, TotalEmpty
  <2>2. QED
    BY <1>0, <2>1, ConstantsAre DEF Constants
<1>2. ASSUME NEW c \in Between PROVE Total(cost, Between) <= Max(Wanted) + dayOver
  <2>1. c \in Calls /\ Between = {c}
    BY <1>2 DEF Staged, Exclusive, Between
  <2>2. Total(cost, Between) = cost[c]
    BY <2>1, OneBetween DEF Staged
  <2>3. cost[c] \in Nat /\ est[c] \in Nat /\ cost[c] <= est[c] + dayOver /\ est[c] <= Max(Wanted)
    BY <1>2, <2>1 DEF Staged, Loose, Stage, Between
  <2>4. QED
    BY <1>0, <2>2, <2>3, ConstantsAre DEF Constants
<1>3. QED
  BY <1>1, <1>2

\* An admission: what has expired is deleted and its calls lapse.
LEMMA Admitted ==
  ASSUME Staged, Loose', DayInv, NEW c \in Calls, TryReserve(c), ~ (rows' = rows /\ stale' = stale)
  PROVE  DayInv'
<1> DEFINE fresh == [d \in Owners |-> IF d \in stale THEN 0 ELSE rows[d]]
           lapsing == stale \cap Calls
<1>1. /\ pc[c] \in {"reserve", "again"} /\ UNCHANGED <<cost, used, dayOver>>
      /\ pc' = [pc EXCEPT ![c] = "run"] /\ est' = est
      /\ rows' = [fresh EXCEPT ![c] = est[c]]
      /\ late' = late + Total(est, lapsing)
      /\ Total(fresh, Owners) \in Nat
      /\ used + Total(fresh, Owners) + est[c] <= Limit \/ est[c] = 0
  BY Tried DEF Staged, budgets, governor
<1>2. /\ c \in Owners /\ rows[c] = 0 /\ 1 <= est[c] /\ est[c] \in Nat
      /\ \A d \in Owners : fresh[d] = (IF d \in stale THEN 0 ELSE rows[d]) /\ fresh[d] \in Nat
  BY <1>1 DEF Staged, Loose, Stage, Counting, Charged, Owners
<1>3. Reserved' = Total(fresh, Owners) + est[c]
  <2> DEFINE g == rows'
  <2>1. /\ IsFiniteSet(Owners) /\ (\A d \in Owners : fresh[d] \in Nat) /\ fresh[c] = 0
        /\ (\A d \in Owners : g[d] \in Nat) /\ (\A d \in Owners \ {c} : fresh[d] = g[d])
        /\ g[c] = est[c]
    BY ConstantsAre, <1>1, <1>2 DEF Constants, Loose
  <2>2. Total(rows, Owners)' = Total(g, Owners)
    OBVIOUS
  <2> HIDE DEF g, fresh
  <2>3. PICK rest \in Nat :
           /\ Total(fresh, Owners) = rest + (IF c \in Owners THEN fresh[c] ELSE 0)
           /\ Total(g, Owners) = rest + (IF c \in Owners THEN g[c] ELSE 0)
    BY <2>1, OneChange
  <2>4. QED
    BY <1>2, <2>1, <2>2, <2>3 DEF Reserved
<1>4. used + Reserved' <= Limit
  <2>1. used + Total(fresh, Owners) + est[c] <= Limit
    BY <1>1, <1>2
  <2>2. QED
    BY <1>1, <1>2, <1>3, <2>1, Amounts DEF Staged
<1>5. Lapsed' = Lapsed \cup lapsing /\ Lapsed \cap lapsing = {}
  <2>1. \A d \in lapsing : rows[d] # 0 /\ pc[d] \in Charged
    BY DEF Staged, Exclusive, Stage
  <2>2. \A d \in Calls : rows'[d] = IF d = c THEN est[c] ELSE IF d \in stale THEN 0 ELSE rows[d]
    BY <1>1, <1>2 DEF Owners
  <2>3. \A d \in Calls : d \in Lapsed' <=> d \in Lapsed \/ d \in lapsing
    <3> SUFFICES ASSUME NEW d \in Calls PROVE d \in Lapsed' <=> d \in Lapsed \/ d \in lapsing
      OBVIOUS
    <3>1. CASE d = c
      BY <1>1, <1>2, <2>1, <2>2, <3>1 DEF Lapsed, Charged
    <3>2. CASE d # c
      <4>1. pc'[d] = pc[d] /\ rows'[d] = IF d \in stale THEN 0 ELSE rows[d]
        BY <1>1, <2>2, <3>2 DEF Staged, Loose
      <4>2. QED
        BY <2>1, <4>1 DEF Lapsed
    <3>3. QED
      BY <3>1, <3>2
  <2>4. QED
    BY <2>1, <2>3 DEF Lapsed
<1>6. Total(est, Lapsed)' = Total(est, Lapsed) + Total(est, lapsing)
  <2>1. Lapsed \in SUBSET Calls /\ lapsing \in SUBSET Calls /\ \A d \in Calls : est[d] \in Nat
    BY DEF Lapsed, Staged, Loose
  <2>2. Total(est, Lapsed \cup lapsing) = Total(est, Lapsed) + Total(est, lapsing)
    <3> HIDE DEF lapsing
    <3>1. QED
      BY <1>5, <2>1, ConstantsAre, TotalUnion DEF Constants
  <2>3. Total(est, Lapsed)' = Total(est', Lapsed')
    OBVIOUS
  <2>4. QED
    BY <1>1, <1>5, <2>2, <2>3
<1>7. Total(cost, Between)' = Total(cost, Between)
  <2>1. Between' = Between
    BY <1>1 DEF Between, Staged, Loose
  <2>2. Total(cost, Between)' = Total(cost', Between')
    OBVIOUS
  <2>3. QED
    BY <1>1, <2>1, <2>2
<1>8. Total(est, lapsing) \in Nat
  <2>1. lapsing \subseteq Calls /\ \A d \in lapsing : est[d] \in Nat
    BY DEF Staged, Loose
  <2>2. IsFiniteSet(lapsing)
    BY <2>1, ConstantsAre, FS_Subset DEF Constants
  <2>3. QED
    BY <2>1, <2>2, TotalType
<1> HIDE DEF lapsing, fresh
<1>9. /\ Total(est, Lapsed) <= late /\ late' = late + Total(est, lapsing) /\ used' = used
      /\ Total(cost, Between) <= Max(Wanted) + dayOver /\ dayOver' = dayOver
  BY <1>1, BetweenBounded DEF DayInv, LapsesCounted
<1>10. Total(est, Lapsed)' <= late'
  BY <1>6, <1>8, <1>9, Amounts DEF Staged
<1>11. /\ Reserved' \in Nat /\ Total(est, Lapsed)' \in Nat /\ late' \in Nat
  BY <1>1, <1>2, <1>3, <1>6, <1>8, <1>9, Amounts DEF Staged
<1>12. used' + Reserved' + Total(cost, Between)' + Total(est, Lapsed)'
          <= Ceiling + late' + Max(Wanted) + dayOver'
  BY <1>4, <1>7, <1>9, <1>10, <1>11, Amounts DEF Staged
<1>13. QED
  BY <1>10, <1>12 DEF DayInv, LapsesCounted, Within

\* ... or nothing of the database changes.
LEMMA OnlyRejected ==
  ASSUME Staged, NEW c \in Calls, TryReserve(c), UNCHANGED <<rows, stale>>
  PROVE  /\ UNCHANGED <<used, late, dayOver, cost>> /\ pc[c] \in {"reserve", "again"}
         /\ \E to \in {"again", "unslot"} : pc' = [pc EXCEPT ![c] = to]
         /\ \A d \in Calls \ {c} : est'[d] = est[d]
<1>1. rows[c] = 0 /\ 1 <= est[c] /\ est[c] \in Nat /\ c \in Owners
  BY Tried DEF Staged, Loose, Stage, Counting, Charged, Owners
<1>2. ~ (\A d \in Owners : rows'[d] = IF d = c THEN est[c]
                                      ELSE IF d \in stale THEN 0 ELSE rows[d])
  BY <1>1
<1>3. UNCHANGED <<used, dayOver, cost>> /\ pc[c] \in {"reserve", "again"}
  BY TriedSimply DEF Staged, budgets, governor
<1>4. /\ UNCHANGED late
      /\ \/ /\ pc' = [pc EXCEPT ![c] = "again"]
            /\ \E left \in Nat : est' = [est EXCEPT ![c] = left]
         \/ pc' = [pc EXCEPT ![c] = "unslot"] /\ est' = est
  BY <1>2, TriedSimply DEF Staged
<1>5. QED
  BY <1>3, <1>4 DEF Staged, Loose

LEMMA AlsoAfter ==
  Loose' => (Reserved \in Nat /\ Total(cost, Between) \in Nat /\ Total(est, Lapsed) \in Nat)'
<1>1. Loose => Reserved \in Nat /\ Total(cost, Between) \in Nat /\ Total(est, Lapsed) \in Nat
  BY Amounts
<1>2. QED
  BY <1>1, PTL

LEMMA DayStep == Staged /\ Staged' /\ DayInv /\ [Next]_vars => DayInv'
<1> SUFFICES ASSUME Staged, Staged', DayInv, [Next]_vars PROVE DayInv'
  OBVIOUS
<1>0. ASSUME UNCHANGED <<used, rows, late, dayOver>>,
             Lapsed' = Lapsed, \A d \in Lapsed : est'[d] = est[d],
             Between' = Between, \A d \in Between : cost'[d] = cost[d]
      PROVE  DayInv'
  BY <1>0, DayStays DEF Staged
<1>00. /\ used \in Nat /\ late \in Nat /\ dayOver \in Nat /\ Ceiling \in Nat /\ Max(Wanted) \in Nat
       /\ Reserved \in Nat /\ Total(cost, Between) \in Nat /\ Total(est, Lapsed) \in Nat
       /\ Reserved' \in Nat /\ Total(cost, Between)' \in Nat /\ Total(est, Lapsed)' \in Nat
  BY Amounts, AlsoAfter DEF Staged
<1> USE DEF Staged, Go, call, budgets, database, history, governor
<1>1. ASSUME NEW c \in Calls, Enter(c) PROVE DayInv'
  BY <1>0, <1>1, Entered DEF Lapsed, Between, Charged, Loose
<1>2. ASSUME NEW c \in Calls, CheckCircuit(c) PROVE DayInv'
  BY <1>0, <1>2 DEF CheckCircuit, Lapsed, Between, Charged, Loose
<1>3. ASSUME NEW c \in Calls, TakeSlot(c) PROVE DayInv'
  BY <1>0, <1>3 DEF TakeSlot, Lapsed, Between, Charged, Loose
<1>4. ASSUME NEW c \in Calls, LeaveQueue(c) PROVE DayInv'
  BY <1>0, <1>4 DEF LeaveQueue, Lapsed, Between, Charged, Loose
<1>5. ASSUME NEW c \in Calls, TryReserve(c) PROVE DayInv'
  <2>1. CASE UNCHANGED <<rows, stale>>
    <3>1. UNCHANGED <<used, late, dayOver, cost>> /\ pc[c] \in {"reserve", "again"}
          /\ \E to \in {"again", "unslot"} : pc' = [pc EXCEPT ![c] = to]
          /\ \A d \in Calls \ {c} : est'[d] = est[d]
      BY <1>5, <2>1, OnlyRejected
    <3>2. Lapsed' = Lapsed /\ Between' = Between
      BY <2>1, <3>1 DEF Lapsed, Between, Charged, Loose
    <3>3. \A d \in Lapsed : est'[d] = est[d]
      BY <3>1 DEF Lapsed, Charged
    <3>4. QED
      BY <1>0, <2>1, <3>1, <3>2, <3>3
  <2>2. CASE ~ UNCHANGED <<rows, stale>>
    BY <1>5, <2>2, Admitted
  <2>3. QED
    BY <2>1, <2>2
<1>6. ASSUME NEW c \in Calls, ReserveRunCost(c) PROVE DayInv'
  BY <1>0, <1>6 DEF ReserveRunCost, Lapsed, Between, Charged, Loose
<1>7. ASSUME NEW c \in Calls, DropRefusedRow(c) PROVE DayInv'
  <2>1. /\ pc[c] = "unrow" /\ pc' = [pc EXCEPT ![c] = "unslot"]
        /\ UNCHANGED <<est, cost, used, late, dayOver>>
        /\ rows' = [rows EXCEPT ![c] = 0]
    BY <1>7 DEF DropRefusedRow, DropRow
  <2>2. Lapsed' = Lapsed \ {c} /\ Between' = Between
    BY <2>1 DEF Lapsed, Charged, Between, Loose, Owners
  <2>3. /\ Reserved' + Total(est, Lapsed)' + est[c] = Reserved + Total(est, Lapsed)
        /\ Total(est, Lapsed)' <= Total(est, Lapsed)
    BY <2>1, <2>2, RowGoes DEF Charged
  <2>4. Total(cost, Between)' = Total(cost, Between)
    BY <2>1, <2>2
  <2>5. est[c] \in Nat
    BY DEF Loose
  <2>6. QED
    BY <1>00, <2>1, <2>3, <2>4, <2>5 DEF DayInv, LapsesCounted, Within
<1>8. ASSUME NEW c \in Calls, ReleaseSlot(c) PROVE DayInv'
  BY <1>0, <1>8 DEF ReleaseSlot, Lapsed, Between, Charged, Loose
<1>9. ASSUME NEW c \in Calls, Cancel(c) PROVE DayInv'
  BY <1>0, <1>9 DEF Cancel, Lapsed, Between, Charged, Loose
<1>10. ASSUME NEW c \in Calls, Preflight(c) PROVE DayInv'
  BY <1>0, <1>10 DEF Preflight, Lapsed, Between, Charged, Loose
<1>11. ASSUME NEW c \in Calls, Answer(c) PROVE DayInv'
  BY <1>0, <1>11 DEF Answer, Lapsed, Between, Charged, Loose
<1>12. ASSUME NEW c \in Calls, Fail(c) PROVE DayInv'
  BY <1>0, <1>12 DEF Fail, Lapsed, Between, Charged, Loose
<1>13. ASSUME NEW c \in Calls, After(c) PROVE DayInv'
  <2>1. /\ pc[c] = "lock" /\ pc' = [pc EXCEPT ![c] = "record"]
        /\ UNCHANGED <<est, cost, used, late>>
        /\ rows' = [rows EXCEPT ![c] = 0] /\ mu = {} /\ mu' = {c}
        /\ dayOver' = dayOver + Above(cost[c], est[c])
    BY <1>13 DEF After, DropRow
  <2>2. Lapsed' = Lapsed \ {c} /\ Between' = {c} /\ Between = {}
    BY <2>1 DEF Lapsed, Charged, Exclusive, Loose, Owners
  <2>3. /\ Reserved' + Total(est, Lapsed)' + est[c] = Reserved + Total(est, Lapsed)
        /\ Total(est, Lapsed)' <= Total(est, Lapsed)
    BY <2>1, <2>2, RowGoes DEF Charged
  <2>4. Total(cost, Between)' = cost[c] /\ Total(cost, Between) = 0
    <3>1. Total(cost, Between)' = Total(cost, {c})
      BY <2>1, <2>2
    <3>2. Total(cost, {c}) = cost[c]
      BY OneAlone
    <3>3. QED
      BY <2>2, <3>1, <3>2, TotalEmpty
  <2>5. /\ est[c] \in Nat /\ cost[c] \in Nat /\ Above(cost[c], est[c]) \in Nat
        /\ cost[c] <= est[c] + Above(cost[c], est[c])
    BY DEF Loose, Above
  <2>6. QED
    BY <1>00, <2>1, <2>3, <2>4, <2>5 DEF DayInv, LapsesCounted, Within
<1>14. ASSUME NEW c \in Calls, Record(c) PROVE DayInv'
  <2>1. /\ pc[c] = "record" /\ pc' = [pc EXCEPT ![c] = "unslot"] /\ UNCHANGED <<rows, late, dayOver>>
        /\ est' = [est EXCEPT ![c] = 0] /\ used' = used + cost[c]
    BY <1>14 DEF Record
  <2>2. Between = {c} /\ Between' = {} /\ Lapsed' = Lapsed
    BY <2>1 DEF Exclusive, Between, Lapsed, Charged, Loose
  <2>3. \A d \in Lapsed : est'[d] = est[d]
    BY <2>1 DEF Lapsed, Charged, Loose
  <2>4. Total(cost, Between) = cost[c] /\ Total(cost, Between)' = 0
    <3>1. Total(cost, Between)' = Total(cost', {})
      BY <2>2
    <3>2. QED
      BY <2>2, <3>1, OneBetween, TotalEmpty
  <2>5. Total(est, Lapsed)' = Total(est, Lapsed)
    <3>1. Total(est', Lapsed) = Total(est, Lapsed)
      BY <2>3, Amounts, TotalSame
    <3>2. QED
      BY <2>2, <3>1
  <2>6. Reserved' = Reserved /\ cost[c] \in Nat
    BY <2>1 DEF Reserved, Loose
  <2>7. QED
    BY <1>00, <2>1, <2>4, <2>5, <2>6 DEF DayInv, LapsesCounted, Within
<1>15. ASSUME NEW c \in Owners, Expire(c) PROVE DayInv'
  BY <1>0, <1>15 DEF Expire, Lapsed, Between, Charged, Loose
<1>16. CASE CoolDown
  BY <1>0, <1>16 DEF CoolDown, Lapsed, Between, Charged, Loose
<1>17. CASE UNCHANGED vars
  BY <1>0, <1>17 DEF vars, Lapsed, Between, Charged, Loose
<1>18. QED
  BY <1>1, <1>2, <1>3, <1>4, <1>5, <1>6, <1>7, <1>8, <1>9, <1>10, <1>11, <1>12, <1>13, <1>14,
     <1>15, <1>16, <1>17 DEF Next, Step

\* What the day has cost and may still cost is bounded by the limit (or what
\* a crash left reserved, if that is more), one call, the calls that outlived their
\* reservation, and what calls cost above it (TryReserve, Release and Record).
THEOREM DayIsBounded == Spec => []OvershootBounded
<1>1. Spec => []DayInv
  BY DayInit, DayStep, AlwaysStaged, PTL DEF Spec
<1>2. Staged /\ DayInv => OvershootBounded
  BY Amounts DEF Staged, DayInv, Within, OvershootBounded
<1>3. QED
  BY <1>1, <1>2, AlwaysStaged, PTL

-----------------------------------------------------------------------------
(* Why every call is over in the end (CallsSettle), as far as it can be said  *)
(* without fairness.                                                         *)

\* While calls are under way one of them can move without giving up its place: the
\* mutex and the slots are never waited for in a circle (Governor.Before and After).
THEOREM NeverStuck == Spec => []NobodyIsStuck
<1>1. ASSUME Staged, SlotsTaken, NEW c \in Calls, pc[c] \notin {"new", "out"}
      PROVE  \E d \in Calls : CanMove(d)
  <2>1. ASSUME NEW d \in mu PROVE CanMove(d) /\ d \in Calls
    BY <1>1, <2>1 DEF Staged, Exclusive, Between, CanMove
  <2>2. ASSUME mu = {}, NEW d \in Calls, pc[d] \notin {"new", "out", "slot"}
        PROVE  CanMove(d)
    BY <2>2 DEF CanMove
  <2>3. ASSUME \A d \in Calls : pc[d] \in {"new", "out", "slot"}
        PROVE  CanMove(c)
    <3>1. Placing = {}
      BY <2>3 DEF Placing, Placed
    <3>2. slots = 0
      BY <1>1, <3>1, FS_EmptySet DEF SlotsTaken
    <3>3. 0 < Slots
      BY ConstantsAre DEF Constants
    <3>4. QED
      BY <1>1, <2>3, <3>2, <3>3 DEF CanMove
  <2>4. QED
    BY <1>1, <2>1, <2>2, <2>3
<1>2. Staged /\ Backed => NobodyIsStuck
  BY <1>1 DEF Backed, NobodyIsStuck
<1>3. QED
  BY <1>2, AlwaysBacked, PTL

\* Each step of a call leaves it fewer steps to go, whatever refuses or fails it; with
\* NeverStuck, only finitely many steps lie between any call and its end.
THEOREM OnlyOnwards == Spec => CallsMoveOn
<1>1. Staged /\ [Next]_vars =>
         \A c \in Calls : pc'[c] # pc[c] => StepsLeft[pc'[c]] < StepsLeft[pc[c]]
  <2> SUFFICES ASSUME Staged, [Next]_vars, NEW e \in Calls, pc'[e] # pc[e]
               PROVE  StepsLeft[pc'[e]] < StepsLeft[pc[e]]
    OBVIOUS
  <2> USE DEF Staged, Loose, Go, PCs, StepsLeft
  <2>1. ASSUME NEW c \in Calls, Enter(c) PROVE StepsLeft[pc'[e]] < StepsLeft[pc[e]]
    BY <2>1, Entered
  <2>2. ASSUME NEW c \in Calls, CheckCircuit(c) PROVE StepsLeft[pc'[e]] < StepsLeft[pc[e]]
    BY <2>2 DEF CheckCircuit
  <2>3. ASSUME NEW c \in Calls, TakeSlot(c) PROVE StepsLeft[pc'[e]] < StepsLeft[pc[e]]
    BY <2>3 DEF TakeSlot
  <2>4. ASSUME NEW c \in Calls, LeaveQueue(c) PROVE StepsLeft[pc'[e]] < StepsLeft[pc[e]]
    BY <2>4 DEF LeaveQueue
  <2>5. ASSUME NEW c \in Calls, TryReserve(c) PROVE StepsLeft[pc'[e]] < StepsLeft[pc[e]]
    <3>1. /\ pc[c] \in {"reserve", "again"}
          /\ \/ pc' = [pc EXCEPT ![c] = "run"] \/ pc' = [pc EXCEPT ![c] = "unslot"]
             \/ pc[c] = "reserve" /\ pc' = [pc EXCEPT ![c] = "again"]
      BY <2>5 DEF TryReserve
    <3>2. QED
      BY <3>1
  <2>6. ASSUME NEW c \in Calls, ReserveRunCost(c) PROVE StepsLeft[pc'[e]] < StepsLeft[pc[e]]
    BY <2>6 DEF ReserveRunCost
  <2>7. ASSUME NEW c \in Calls, DropRefusedRow(c) PROVE StepsLeft[pc'[e]] < StepsLeft[pc[e]]
    BY <2>7 DEF DropRefusedRow
  <2>8. ASSUME NEW c \in Calls, ReleaseSlot(c) PROVE StepsLeft[pc'[e]] < StepsLeft[pc[e]]
    BY <2>8 DEF ReleaseSlot
  <2>9. ASSUME NEW c \in Calls, Cancel(c) PROVE StepsLeft[pc'[e]] < StepsLeft[pc[e]]
    BY <2>9 DEF Cancel
  <2>10. ASSUME NEW c \in Calls, Preflight(c) PROVE StepsLeft[pc'[e]] < StepsLeft[pc[e]]
    BY <2>10 DEF Preflight
  <2>11. ASSUME NEW c \in Calls, Answer(c) PROVE StepsLeft[pc'[e]] < StepsLeft[pc[e]]
    BY <2>11 DEF Answer
  <2>12. ASSUME NEW c \in Calls, Fail(c) PROVE StepsLeft[pc'[e]] < StepsLeft[pc[e]]
    BY <2>12 DEF Fail
  <2>13. ASSUME NEW c \in Calls, After(c) PROVE StepsLeft[pc'[e]] < StepsLeft[pc[e]]
    BY <2>13 DEF After
  <2>14. ASSUME NEW c \in Calls, Record(c) PROVE StepsLeft[pc'[e]] < StepsLeft[pc[e]]
    BY <2>14 DEF Record
  <2>15. ASSUME NEW c \in Owners, Expire(c) PROVE FALSE
    BY <2>15 DEF Expire
  <2>16. ASSUME CoolDown PROVE FALSE
    BY <2>16 DEF CoolDown
  <2>17. ASSUME UNCHANGED vars PROVE FALSE
    BY <2>17 DEF vars
  <2>18. QED
    BY <2>1, <2>2, <2>3, <2>4, <2>5, <2>6, <2>7, <2>8, <2>9, <2>10, <2>11, <2>12, <2>13, <2>14,
       <2>15, <2>16, <2>17 DEF Next, Step
<1>2. QED
  BY <1>1, AlwaysStaged, PTL DEF Spec, CallsMoveOn

=============================================================================
