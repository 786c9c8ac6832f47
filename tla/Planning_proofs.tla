--------------------------- MODULE Planning_proofs ---------------------------
(***************************************************************************)
(* The plan a cut executes, proved for any contracts, facts, edits and     *)
(* bumps: what runs is what was approved, crates come after what they      *)
(* depend on, and nothing that is needed is left to CI.  And the contract  *)
(* it is made of, for any frontmatters and repositories: what is accepted  *)
(* can be carried out, and its canonical form reads as the same contract.  *)
(***************************************************************************)
EXTENDS ReleasePlan, FiniteSetTheorems, WellFoundedInduction, TLAPS

-----------------------------------------------------------------------------
(* Numbers and recursive functions.                                         *)

\* Every set of naturals that is not empty has a least member.
LEMMA LeastMember ==
  ASSUME NEW S \in SUBSET Nat, S # {}
  PROVE  \E x \in S : \A y \in S : x <= y
<1>. DEFINE R == OpToRel(<, Nat)
<1>1. IsWellFoundedOn(R, Nat)
  BY NatLessThanWellFounded
<1>2. \A x, y \in Nat : y < x => <<y, x>> \in R
  BY DEF OpToRel
<1>. HIDE DEF R
<1>3. PICK x \in S : \A y \in S : ~ (<<y, x>> \in R)
  BY <1>1, WFMin
<1>4. ASSUME NEW y \in S PROVE x <= y
  <2>1. ~ (y < x)
    BY <1>2, <1>3, Zenon
  <2>. QED
    BY <2>1
<1>. QED
  BY <1>3, <1>4

\* Stage follows stage: each of n is made from the one before.
Stages(f, n, first, next) ==
  f = [k \in 0 .. n |-> IF k = 0 THEN first ELSE next[k][f[k - 1]]]

\* A function may be defined by what makes one stage of the one before.
LEMMA Recursion ==
  ASSUME NEW first, NEW next, NEW n \in Nat
  PROVE  \E f : Stages(f, n, first, next)
<1>. DEFINE Bad == {k \in Nat : ~ \E f : Stages(f, k, first, next)}
<1>1. SUFFICES ASSUME Bad # {} PROVE FALSE
  OBVIOUS
<1>2. PICK k \in Bad : \A j \in Bad : k <= j
  BY <1>1, LeastMember
<1>3. k \in Nat
  OBVIOUS
<1>4. CASE k = 0
  <2>. DEFINE f == [j \in 0..0 |-> first]
  <2>1. Stages(f, 0, first, next)
    BY DEF Stages
  <2>. QED
    BY <1>2, <1>4, <2>1
<1>5. CASE k # 0
  <2>1. k - 1 \in Nat /\ k - 1 \notin Bad
    BY <1>2, <1>3, <1>5
  <2>2. PICK g : Stages(g, k - 1, first, next)
    BY <2>1
  <2>. DEFINE f == [j \in 0..k |-> IF j = k THEN next[k][g[k - 1]] ELSE g[j]]
  <2>3. \A j \in 0..(k - 1) : g[j] = IF j = 0 THEN first ELSE next[j][g[j - 1]]
    BY <2>2 DEF Stages
  <2>4. \A j \in 0..k : f[j] = IF j = 0 THEN first ELSE next[j][f[j - 1]]
    <3>. TAKE j \in 0..k
    <3>1. CASE j = k
      BY <3>1, <1>3, <1>5
    <3>2. CASE j # k
      <4>1. j \in 0..(k - 1) /\ (j # 0 => j - 1 \in 0..(k - 1))
        BY <3>2, <1>3
      <4>2. f[j] = g[j] /\ (j # 0 => f[j - 1] = g[j - 1])
        BY <4>1, <1>3, <3>2
      <4>. QED
        BY <4>1, <4>2, <2>3
    <3>. QED
      BY <3>1, <3>2
  <2>5. Stages(f, k, first, next)
    BY <2>4 DEF Stages
  <2>. QED
    BY <1>2, <2>5
<1>. QED
  BY <1>4, <1>5

-----------------------------------------------------------------------------
(* Lists.                                                                   *)

\* A list is a list of what it has.
LEMMA ListOfIts ==
  ASSUME NEW T, NEW x \in Seq(T)
  PROVE  /\ Len(x) \in Nat /\ DOMAIN x = 1..Len(x)
         /\ x = [i \in 1..Len(x) |-> x[i]]
         /\ \A i \in 1..Len(x) : x[i] \in ToSet(x)
         /\ ToSet(x) \subseteq T
         /\ x \in Seq(ToSet(x))
<1>1. /\ Len(x) \in Nat /\ DOMAIN x = 1..Len(x)
      /\ x = [i \in 1..Len(x) |-> x[i]]
      /\ \A i \in 1..Len(x) : x[i] \in T
  OBVIOUS
<1>2. (\A i \in 1..Len(x) : x[i] \in ToSet(x)) /\ ToSet(x) \subseteq T
  BY <1>1 DEF ToSet
<1>3. x \in Seq(ToSet(x))
  BY <1>1, <1>2
<1>. QED
  BY <1>1, <1>2, <1>3

\* A list after a list.
LEMMA Joined ==
  ASSUME NEW T, NEW x \in Seq(T), NEW y \in Seq(T),
         NEW m, m = Len(x), NEW n, n = Len(y)
  PROVE  /\ x \o y \in Seq(T) /\ Len(x \o y) = m + n
         /\ \A i \in 1..m : (x \o y)[i] = x[i]
         /\ \A i \in (m + 1)..(m + n) : (x \o y)[i] = y[i - m]
OBVIOUS

\* Three lists joined keep their places.
LEMMA JoinedThree ==
  ASSUME NEW U, NEW x \in Seq(U), NEW y \in Seq(U), NEW z \in Seq(U),
         NEW k, k = Len(x), NEW m, m = Len(y), NEW n, n = Len(z)
  PROVE  /\ (x \o y) \o z \in Seq(U) /\ Len((x \o y) \o z) = (k + m) + n
         /\ \A i \in 1..k : ((x \o y) \o z)[i] = x[i]
         /\ \A i \in (k + 1)..(k + m) : ((x \o y) \o z)[i] = y[i - k]
         /\ \A i \in (k + m + 1)..((k + m) + n) : ((x \o y) \o z)[i] = z[i - (k + m)]
<1>. DEFINE u == x \o y
<1>1. /\ u \in Seq(U) /\ Len(u) = k + m /\ k \in Nat /\ m \in Nat
      /\ \A i \in 1..k : u[i] = x[i]
      /\ \A i \in (k + 1)..(k + m) : u[i] = y[i - k]
  BY Joined
<1>. DEFINE l == k + m
<1>. HIDE DEF u, l
<1>2. l = Len(u) /\ l = k + m
  BY <1>1 DEF l
<1>. u \in Seq(U) /\ l = Len(u)
  BY <1>1, <1>2
<1>3. /\ u \o z \in Seq(U) /\ Len(u \o z) = l + n
      /\ \A i \in 1..l : (u \o z)[i] = u[i]
      /\ \A i \in (l + 1)..(l + n) : (u \o z)[i] = z[i - l]
  OBVIOUS
<1>4. (\A i \in 1..k : i \in 1..l) /\ (\A i \in (k + 1)..(k + m) : i \in 1..l)
  BY <1>1, <1>2
<1>. QED
  BY <1>1, <1>2, <1>3, <1>4 DEF u

\* A list with one more has one more.
LEMMA AppendedSet ==
  ASSUME NEW T, NEW x \in Seq(T), NEW e \in T
  PROVE  Append(x, e) \in Seq(T) /\ ToSet(Append(x, e)) = ToSet(x) \cup {e}
<1>1. /\ Append(x, e) \in Seq(T) /\ Len(Append(x, e)) = Len(x) + 1 /\ Len(x) \in Nat
      /\ DOMAIN x = 1..Len(x) /\ DOMAIN Append(x, e) = 1..(Len(x) + 1)
      /\ \A i \in 1..Len(x) : Append(x, e)[i] = x[i]
      /\ Append(x, e)[Len(x) + 1] = e
  OBVIOUS
<1>2. 1..(Len(x) + 1) = (1..Len(x)) \cup {Len(x) + 1}
  BY <1>1
<1>. QED
  BY <1>1, <1>2 DEF ToSet

\* kept is what Keep goes through.
Keeping(kept, list, S) ==
  kept = [i \in 0 .. Len(list) |->
            IF i = 0 THEN <<>>
            ELSE IF list[i] \in S THEN Append(kept[i - 1], list[i]) ELSE kept[i - 1]]

\* Keep is what they say it is.
LEMMA KeepIsKept ==
  ASSUME NEW T, NEW list \in Seq(T), NEW S
  PROVE  \E kept : /\ Keeping(kept, list, S)
                   /\ Keep(list, S) = kept[Len(list)]
<1>. DEFINE n == Len(list)
            next == [k \in 1..n |-> [x \in Seq(T) |->
                       IF list[k] \in S THEN Append(x, list[k]) ELSE x]]
<1>1. n \in Nat /\ \A k \in 1..n : list[k] \in T
  OBVIOUS
<1>2. \A k \in 1..n : \A x \in Seq(T) :
        /\ next[k][x] = IF list[k] \in S THEN Append(x, list[k]) ELSE x
        /\ next[k][x] \in Seq(T)
  BY <1>1
<1>. HIDE DEF next
<1>3. PICK f : Stages(f, n, <<>>, next)
  BY <1>1, Recursion
<1>. HIDE DEF n
<1>4. \A k \in 0..n : f[k] = IF k = 0 THEN <<>> ELSE next[k][f[k - 1]]
  BY <1>3 DEF Stages
<1>. DEFINE Bad == {k \in 0..n : f[k] \notin Seq(T)}
<1>5. Bad = {}
  <2>1. SUFFICES ASSUME Bad # {} PROVE FALSE
    OBVIOUS
  <2>2. Bad \in SUBSET Nat
    BY <1>1
  <2>3. PICK k \in Bad : \A j \in Bad : k <= j
    BY <2>1, <2>2, LeastMember
  <2>4. k # 0
    <3>1. <<>> \in Seq(T) /\ k \in 0..n /\ f[k] \notin Seq(T)
      BY <2>3
    <3>. QED
      BY <1>4, <3>1
  <2>5. k - 1 \in 0..n /\ k - 1 \notin Bad /\ k \in 1..n
    BY <1>1, <2>3, <2>4
  <2>. QED
    BY <1>2, <1>4, <2>3, <2>4, <2>5
<1>6. \A k \in 0..n : f[k] = IF k = 0 THEN <<>>
                            ELSE IF list[k] \in S THEN Append(f[k - 1], list[k]) ELSE f[k - 1]
  <2>. TAKE k \in 0..n
  <2>1. CASE k = 0
    BY <1>4, <2>1
  <2>2. CASE k # 0
    <3>1. k - 1 \in 0..n /\ k \in 1..n
      BY <1>1, <2>2
    <3>. QED
      BY <1>2, <1>4, <1>5, <2>2, <3>1
  <2>. QED
    BY <2>1, <2>2
<1>7. Keeping(f, list, S)
  <2>1. f = [k \in 0..n |-> f[k]]
    BY <1>3 DEF Stages
  <2>. QED
    BY <1>6, <2>1 DEF Keeping, n
<1>. DEFINE Chosen == CHOOSE kept : Keeping(kept, list, S)
<1>8. Keeping(Chosen, list, S)
  BY <1>7, Zenon
<1>9. Keep(list, S) = Chosen[Len(list)]
  BY DEF Keep, Keeping
<1>. QED
  BY <1>8, <1>9

\* What is kept of a list is what it has in S.
LEMMA KeepType ==
  ASSUME NEW T, NEW list \in Seq(T), NEW S
  PROVE  Keep(list, S) \in Seq(T) /\ ToSet(Keep(list, S)) = ToSet(list) \cap S
<1>. DEFINE n == Len(list)
<1>1. n \in Nat /\ DOMAIN list = 1..n /\ \A k \in 1..n : list[k] \in T
  OBVIOUS
<1>2. PICK kept : Keeping(kept, list, S) /\ Keep(list, S) = kept[Len(list)]
  BY KeepIsKept
<1>. HIDE DEF n
<1>3. \A k \in 0..n : kept[k] = IF k = 0 THEN <<>>
                               ELSE IF list[k] \in S THEN Append(kept[k - 1], list[k]) ELSE kept[k - 1]
  BY <1>2 DEF Keeping, n
<1>. DEFINE Good(k) == /\ kept[k] \in Seq(T)
                       /\ ToSet(kept[k]) = {list[i] : i \in 1..k} \cap S
            Bad == {k \in 0..n : ~ Good(k)}
<1>4. Bad = {}
  <2>1. SUFFICES ASSUME Bad # {} PROVE FALSE
    OBVIOUS
  <2>2. Bad \in SUBSET Nat
    BY <1>1
  <2>3. PICK k \in Bad : \A j \in Bad : k <= j
    BY <2>1, <2>2, LeastMember
  <2>4. CASE k = 0
    <3>1. kept[k] = <<>>
      BY <1>3, <2>3, <2>4
    <3>2. <<>> \in Seq(T) /\ ToSet(<<>>) = {} /\ 1..0 = {}
      BY DEF ToSet
    <3>. QED
      BY <2>3, <2>4, <3>1, <3>2
  <2>5. CASE k # 0
    <3>1. k - 1 \in 0..n /\ k \in 1..n /\ 1..k = (1..(k - 1)) \cup {k}
      BY <1>1, <2>3, <2>5
    <3>2. Good(k - 1)
      <4>1. k - 1 \notin Bad
        <5>1. k \in Nat
          BY <1>1, <2>3
        <5>. HIDE DEF Bad
        <5>. QED
          BY <2>3, <5>1
      <4>. HIDE DEF Good
      <4>. QED
        BY <3>1, <4>1
    <3>3. \A x \in Seq(T), e \in T : Append(x, e) \in Seq(T) /\ ToSet(Append(x, e)) = ToSet(x) \cup {e}
      BY AppendedSet
    <3>4. list[k] \in T
      BY <1>1, <3>1
    <3>5. kept[k] = IF list[k] \in S THEN Append(kept[k - 1], list[k]) ELSE kept[k - 1]
      BY <1>3, <2>3, <2>5
    <3>6. {list[i] : i \in 1..k} = {list[i] : i \in 1..(k - 1)} \cup {list[k]}
      BY <3>1
    <3>7. Good(k)
      <4>1. kept[k] \in Seq(T)
        BY <3>2, <3>3, <3>4, <3>5
      <4>2. ToSet(kept[k]) = {list[i] : i \in 1..k} \cap S
        <5>1. CASE list[k] \in S
          <6>1. kept[k] = Append(kept[k - 1], list[k])
            BY <3>5, <5>1
          <6>2. ToSet(kept[k]) = ToSet(kept[k - 1]) \cup {list[k]}
            BY <3>2, <3>3, <3>4, <6>1
          <6>. QED
            BY <3>2, <3>6, <5>1, <6>2
        <5>2. CASE list[k] \notin S
          BY <3>2, <3>5, <3>6, <5>2
        <5>. QED
          BY <5>1, <5>2
      <4>. QED
        BY <4>1, <4>2
    <3>. QED
      BY <2>3, <3>7
  <2>. QED
    BY <2>4, <2>5
<1>5. Good(n)
  <2>1. n \in 0..n /\ n \notin Bad
    <3>. HIDE DEF Bad
    <3>. QED
      BY <1>1, <1>4
  <2>. HIDE DEF Good
  <2>. QED
    BY <2>1
<1>. QED
  BY <1>1, <1>2, <1>5 DEF ToSet, n

\* As many names at most as members.
LEMMA NamesAreFinite ==
  ASSUME NEW T, NEW members \in Seq(T)
  PROVE  /\ IsFiniteSet(PackageNames(members))
         /\ Cardinality(PackageNames(members)) <= Len(members)
         /\ IsFiniteSet(ToSet(members))
<1>. DEFINE n == Len(members)
            names == [i \in 1..n |-> members[i].package]
            elements == [i \in 1..n |-> members[i]]
<1>1. n \in Nat /\ DOMAIN members = 1..n
  OBVIOUS
<1>2. IsFiniteSet(1..n) /\ Cardinality(1..n) = n
  BY <1>1, FS_Interval
<1>. HIDE DEF n
<1>3. names \in Surjection(1..n, PackageNames(members))
  BY <1>1 DEF Surjection, PackageNames
<1>4. elements \in Surjection(1..n, ToSet(members))
  BY <1>1 DEF Surjection, ToSet
<1>5. /\ IsFiniteSet(PackageNames(members))
      /\ Cardinality(PackageNames(members)) <= Cardinality(1..n)
  BY <1>2, <1>3, FS_Surjection
<1>6. IsFiniteSet(ToSet(members))
  BY <1>2, <1>4, FS_Surjection
<1>. QED
  BY <1>2, <1>5, <1>6 DEF n

-----------------------------------------------------------------------------
(* Dependencies.                                                            *)

\* Only members depend on anything.
LEMMA OnlyMembersDepend ==
  ASSUME NEW members, NEW p, NEW d \in DepsOf(members, p)
  PROVE  \E i \in DOMAIN members : members[i].package = p /\ d \in members[i].deps
BY DEF DepsOf

\* The closure has the packages, is closed, and is the least such set.
LEMMA ClosureIsLeast ==
  ASSUME NEW packages, NEW members
  PROVE  /\ packages \subseteq ClosureOf(packages, members)
         /\ Closed(ClosureOf(packages, members), members)
         /\ \A S : packages \subseteq S /\ Closed(S, members)
                     => ClosureOf(packages, members) \subseteq S
<1>. DEFINE all == packages \cup UNION {DepsOf(members, p) : p \in PackageNames(members)}
            Has(S) == packages \subseteq S /\ Closed(S, members)
<1>1. ClosureOf(packages, members) = {p \in all : \A S \in SUBSET all : Has(S) => p \in S}
  BY DEF ClosureOf
<1>2. \A p : DepsOf(members, p) \subseteq all
  <2>. SUFFICES ASSUME NEW p, NEW d \in DepsOf(members, p) PROVE d \in all
    OBVIOUS
  <2>1. p \in PackageNames(members)
    BY OnlyMembersDepend DEF PackageNames
  <2>. QED
    BY <2>1
<1>. HIDE DEF all
<1>3. packages \subseteq all
  BY DEF all
<1>4. packages \subseteq ClosureOf(packages, members)
  BY <1>1, <1>3
<1>5. Closed(ClosureOf(packages, members), members)
  <2>. SUFFICES ASSUME NEW p \in ClosureOf(packages, members), NEW d \in DepsOf(members, p)
                PROVE  d \in ClosureOf(packages, members)
    BY DEF Closed
  <2>1. d \in all
    BY <1>2
  <2>2. ASSUME NEW S \in SUBSET all, Has(S) PROVE d \in S
    BY <1>1, <2>2 DEF Closed
  <2>. QED
    BY <1>1, <2>1, <2>2
<1>6. ASSUME NEW S, Has(S) PROVE ClosureOf(packages, members) \subseteq S
  <2>1. Has(S \cap all)
    BY <1>2, <1>3, <1>6 DEF Closed
  <2>. QED
    BY <1>1, <2>1
<1>. QED
  BY <1>4, <1>5, <1>6

\* What one of the packages needs they all need.
LEMMA ClosureOfOne ==
  ASSUME NEW packages, NEW members, NEW p \in ClosureOf(packages, members)
  PROVE  ClosureOf({p}, members) \subseteq ClosureOf(packages, members)
BY ClosureIsLeast

\* What they need one of them needs.
LEMMA ClosureOfEach ==
  ASSUME NEW packages, NEW members, NEW p \in ClosureOf(packages, members)
  PROVE  \E r \in packages : p \in ClosureOf({r}, members)
<1>. DEFINE S == UNION {ClosureOf({r}, members) : r \in packages}
<1>1. packages \subseteq S
  <2>1. \A r \in packages : r \in ClosureOf({r}, members)
    BY ClosureIsLeast
  <2>. QED
    BY <2>1
<1>2. Closed(S, members)
  <2>. SUFFICES ASSUME NEW r \in packages, NEW q \in ClosureOf({r}, members),
                       NEW d \in DepsOf(members, q)
                PROVE  d \in ClosureOf({r}, members)
    BY DEF Closed
  <2>. QED
    BY ClosureIsLeast DEF Closed
<1>3. p \in S
  <2>. HIDE DEF S
  <2>. QED
    BY <1>1, <1>2, ClosureIsLeast
<1>. QED
  BY <1>3

\* A package needs itself and what its dependencies need.
LEMMA ClosureByStep ==
  ASSUME NEW p, NEW members
  PROVE  ClosureOf({p}, members) \subseteq {p} \cup ClosureOf(DepsOf(members, p), members)
<1>. DEFINE S == {p} \cup ClosureOf(DepsOf(members, p), members)
<1>1. Closed(S, members)
  BY ClosureIsLeast DEF Closed
<1>. QED
  BY <1>1, ClosureIsLeast

\* A package in a workspace needs finitely many.
LEMMA ClosureIsFinite ==
  ASSUME NEW packages, IsFiniteSet(packages), NEW members, IsWorkspace(members)
  PROVE  IsFiniteSet(ClosureOf(packages, members))
<1>. DEFINE deps == {m.deps : m \in ToSet(members)}
            all == packages \cup UNION {DepsOf(members, p) : p \in PackageNames(members)}
<1>1. IsFiniteSet(ToSet(members))
  BY NamesAreFinite DEF IsWorkspace
<1>2. [m \in ToSet(members) |-> m.deps] \in Surjection(ToSet(members), deps)
  BY DEF Surjection
<1>3. IsFiniteSet(deps)
  BY <1>1, <1>2, FS_Surjection
<1>4. \A S \in deps : IsFiniteSet(S)
  BY DEF IsWorkspace
<1>. HIDE DEF deps
<1>5. IsFiniteSet(UNION deps)
  BY <1>3, <1>4, FS_UNION
<1>6. IsFiniteSet(packages \cup UNION deps)
  BY <1>5, FS_Union
<1>7. ClosureOf(packages, members) \subseteq packages \cup UNION deps
  BY DEF ClosureOf, DepsOf, deps, ToSet
<1>. QED
  BY <1>6, <1>7, FS_Subset

\* Of crates each of which depends on another of them, two need each other, and
\* every one of them needs such two.
LEMMA EndlessNeedsCircle ==
  ASSUME NEW members, IsWorkspace(members), NEW L, NEW x \in L,
         \A y \in L : \E z \in L : z # y /\ z \in DepsOf(members, y)
  PROVE  \E p, q \in ClosureOf({x}, members) :
           p # q /\ q \in ClosureOf({p}, members) /\ p \in ClosureOf({q}, members)
<1>. DEFINE Needs(y) == ClosureOf({y}, members)
            Size(y) == Cardinality(Needs(y))
            Sizes == {n \in Nat : \E y \in L \cap Needs(x) : n = Size(y)}
<1>1. \A y : IsFiniteSet(Needs(y)) /\ Size(y) \in Nat /\ y \in Needs(y)
  <2>. TAKE y
  <2>1. IsFiniteSet({y})
    BY FS_Singleton
  <2>2. IsFiniteSet(Needs(y))
    BY <2>1, ClosureIsFinite
  <2>. QED
    BY <2>2, FS_CardinalityType, ClosureIsLeast
<1>2. \A y : \A z \in Needs(y) : Needs(z) \subseteq Needs(y)
  BY ClosureOfOne
<1>3. \A y : DepsOf(members, y) \subseteq Needs(y)
  BY ClosureIsLeast DEF Closed
<1>. HIDE DEF Needs
<1>4. Sizes \in SUBSET Nat /\ Sizes # {}
  BY <1>1
<1>5. PICK n \in Sizes : \A k \in Sizes : n <= k
  BY <1>4, LeastMember
<1>6. PICK p \in L \cap Needs(x) : n = Size(p)
  OBVIOUS
<1>7. PICK q \in L : q # p /\ q \in DepsOf(members, p)
  BY <1>6
<1>8. q \in Needs(p) /\ Needs(q) \subseteq Needs(p)
  BY <1>2, <1>3, <1>7
<1>9. q \in Needs(x)
  BY <1>2, <1>6, <1>8
<1>10. Size(p) <= Size(q)
  BY <1>1, <1>5, <1>6, <1>7, <1>9
<1>11. Needs(q) = Needs(p)
  BY <1>1, <1>8, <1>10, FS_Subset
<1>12. p \in Needs(q)
  BY <1>1, <1>11
<1>. QED
  BY <1>6, <1>7, <1>8, <1>9, <1>12 DEF Needs

-----------------------------------------------------------------------------
(* The order of the crates.                                                 *)

\* Crates that only go out because nothing else can.
Endless(p, members) ==
  \E L : /\ p \in L
         /\ \A y \in L : \E z \in L : z # y /\ z \in DepsOf(members, y)

\* A crate's dependencies are out before it, unless nothing else could be.
Ordered(order, members) ==
  \A i \in DOMAIN order :
    \A d \in DepsOf(members, order[i]) \cap PackageNames(members) :
      \/ d = order[i]
      \/ Endless(order[i], members)
      \/ \E j \in DOMAIN order : j < i /\ order[j] = d

\* What a member depends on is what its declaration says.
LEMMA DepsOfMember ==
  ASSUME NEW members, IsWorkspace(members), NEW m \in ToSet(members)
  PROVE  DepsOf(members, m.package) = m.deps
<1>1. PICK i \in DOMAIN members : members[i] = m
  BY DEF ToSet
<1>2. \A j \in DOMAIN members : members[j] \in ToSet(members)
  BY DEF ToSet
<1>3. \A j \in DOMAIN members : members[j].package = m.package => members[j] = m
  BY <1>2 DEF IsWorkspace
<1>4. DepsOf(members, m.package) = UNION {members[j].deps : j \in {j \in DOMAIN members : members[j].package = m.package}}
  BY DEF DepsOf
<1>. QED
  BY <1>1, <1>3, <1>4

\* A round keeps the order and, until all are out, brings one out.
LEMMA RoundOrders ==
  ASSUME NEW members, IsWorkspace(members),
         NEW order \in Seq(PackageNames(members)), Ordered(order, members)
  PROVE  LET after == Round(order, members)
             names == PackageNames(members)
         IN /\ after \in Seq(names)
            /\ Ordered(after, members)
            /\ ToSet(order) \subseteq ToSet(after)
            /\ ToSet(order) = names \/ \E p \in names \ ToSet(order) : p \in ToSet(after)
<1>. DEFINE after == Round(order, members)
            names == PackageNames(members)
            waiting == {m \in ToSet(members) : m.package \notin ToSet(order)}
            free == {m \in ToSet(members) : (m.deps \cap names) \ {m.package} \subseteq ToSet(order)}
            left == Keep(members, waiting)
            ready == Keep(left, free)
<1>1. members \in Seq(ToSet(members))
  BY DEF IsWorkspace
<1>2. left \in Seq(ToSet(members)) /\ ToSet(left) = waiting
  BY <1>1, KeepType
<1>3. ready \in Seq(ToSet(members)) /\ ToSet(ready) = waiting \cap free
  <2>. HIDE DEF left, waiting, free
  <2>. QED
    BY <1>2, KeepType
<1>4. after = CASE left = <<>> -> order
                [] left # <<>> /\ ready = <<>> -> order \o [i \in DOMAIN left |-> left[i].package]
                [] OTHER -> Append(order, ready[1].package)
  BY DEF Round
<1>5. names = {m.package : m \in ToSet(members)}
  BY DEF PackageNames, ToSet
<1>6. DOMAIN order = 1..Len(order) /\ Len(order) \in Nat /\ ToSet(order) \subseteq names
  BY DEF ToSet
<1>. HIDE DEF after, names, left, ready
<1>7. CASE left = <<>>
  <2>1. waiting = {}
    BY <1>2, <1>7 DEF ToSet
  <2>2. ToSet(order) = names
    BY <1>5, <1>6, <2>1
  <2>3. after = order
    BY <1>4, <1>7
  <2>. QED
    BY <2>2, <2>3 DEF after, names
<1>8. CASE left # <<>> /\ ready = <<>>
  <2>. DEFINE rest == [i \in DOMAIN left |-> left[i].package]
              n == Len(order)
              L == {m.package : m \in waiting}
  <2>1. rest \in Seq(names) /\ Len(rest) = Len(left) /\ Len(left) \in Nat /\ DOMAIN left = 1..Len(left)
    <3>1. DOMAIN left = 1..Len(left) /\ Len(left) \in Nat /\ \A i \in 1..Len(left) : left[i] \in ToSet(members)
      BY <1>2
    <3>. QED
      BY <1>5, <3>1
  <2>2. \A i \in 1..Len(left) : rest[i] \in L
    BY <1>2, <2>1 DEF ToSet
  <2>3. after = order \o rest
    BY <1>4, <1>8
  <2>. HIDE DEF rest
  <2>4. /\ after \in Seq(names) /\ DOMAIN after = 1..(n + Len(left))
        /\ \A i \in 1..n : after[i] = order[i]
        /\ \A i \in (n + 1)..(n + Len(left)) : after[i] = rest[i - n]
    <3>1. order \in Seq(names)
      BY DEF names
    <3>2. Len(order \o rest) = n + Len(left) /\ order \o rest \in Seq(names)
      BY <2>1, <3>1
    <3>3. /\ \A i \in 1..n : (order \o rest)[i] = order[i]
          /\ \A i \in (n + 1)..(n + Len(left)) : (order \o rest)[i] = rest[i - n]
      BY <1>6, <2>1, <3>1, <3>2
    <3>. QED
      BY <1>6, <2>1, <2>3, <3>2, <3>3
  <2>5. \A y \in L : \E z \in L : z # y /\ z \in DepsOf(members, y)
    <3>. SUFFICES ASSUME NEW m \in waiting
                  PROVE  \E z \in L : z # m.package /\ z \in DepsOf(members, m.package)
      OBVIOUS
    <3>1. waiting \cap free = {}
      BY <1>3, <1>8 DEF ToSet
    <3>2. PICK z \in (m.deps \cap names) \ {m.package} : z \notin ToSet(order)
      BY <3>1
    <3>3. z \in L
      BY <1>5, <3>2
    <3>4. z \in DepsOf(members, m.package)
      BY <3>2, DepsOfMember
    <3>. QED
      BY <3>2, <3>3, <3>4
  <2>. HIDE DEF L
  <2>6. \A p \in L : Endless(p, members)
    BY <2>5 DEF Endless
  <2>7. Ordered(after, members)
    <3>. SUFFICES ASSUME NEW i \in DOMAIN after,
                         NEW d \in DepsOf(members, after[i]) \cap PackageNames(members)
                  PROVE  \/ d = after[i]
                         \/ Endless(after[i], members)
                         \/ \E j \in DOMAIN after : j < i /\ after[j] = d
      BY DEF Ordered
    <3>1. CASE i \in 1..n
      BY <1>6, <2>1, <2>4, <3>1 DEF Ordered
    <3>2. CASE i \in (n + 1)..(n + Len(left))
      <4>1. i - n \in 1..Len(left)
        BY <1>6, <2>1, <3>2
      <4>2. after[i] \in L
        BY <2>2, <2>4, <3>2, <4>1
      <4>. QED
        BY <2>6, <4>2
    <3>. QED
      BY <1>6, <2>1, <2>4, <3>1, <3>2
  <2>8. ToSet(order) \subseteq ToSet(after)
    BY <1>6, <2>1, <2>4 DEF ToSet
  <2>9. \E p \in names \ ToSet(order) : p \in ToSet(after)
    <3>1. 1 \in 1..Len(left) /\ n + 1 \in (n + 1)..(n + Len(left)) /\ (n + 1) - n = 1
      BY <1>2, <1>6, <1>8, <2>1
    <3>2. after[n + 1] \in L /\ n + 1 \in DOMAIN after
      BY <1>6, <2>1, <2>2, <2>4, <3>1
    <3>3. after[n + 1] \in names \ ToSet(order)
      BY <1>5, <3>2 DEF L
    <3>4. after[n + 1] \in ToSet(after)
      BY <3>2 DEF ToSet
    <3>. QED
      BY <3>3, <3>4
  <2>. QED
    BY <2>4, <2>7, <2>8, <2>9 DEF after, names
<1>9. CASE left # <<>> /\ ready # <<>>
  <2>. DEFINE p == ready[1].package
              n == Len(order)
  <2>1. ready[1] \in waiting \cap free
    <3>1. 1 \in DOMAIN ready
      BY <1>3, <1>9
    <3>. QED
      BY <1>3, <3>1 DEF ToSet
  <2>2. after = Append(order, p)
    BY <1>4, <1>9
  <2>3. p \in names \ ToSet(order)
    BY <1>5, <2>1
  <2>4. DepsOf(members, p) \cap names \subseteq ToSet(order) \cup {p}
    BY <2>1, DepsOfMember
  <2>. HIDE DEF p
  <2>5. /\ after \in Seq(names) /\ DOMAIN after = 1..(n + 1)
        /\ \A i \in 1..n : after[i] = order[i]
        /\ after[n + 1] = p
    BY <1>6, <2>2, <2>3 DEF names
  <2>6. Ordered(after, members)
    <3>. SUFFICES ASSUME NEW i \in DOMAIN after,
                         NEW d \in DepsOf(members, after[i]) \cap PackageNames(members)
                  PROVE  \/ d = after[i]
                         \/ Endless(after[i], members)
                         \/ \E j \in DOMAIN after : j < i /\ after[j] = d
      BY DEF Ordered
    <3>1. CASE i \in 1..n
      BY <1>6, <2>5, <3>1 DEF Ordered
    <3>2. CASE i = n + 1
      <4>1. d = p \/ d \in ToSet(order)
        BY <2>4, <2>5, <3>2 DEF names
      <4>2. CASE d \in ToSet(order)
        <5>1. PICK j \in 1..n : order[j] = d
          BY <1>6, <4>2 DEF ToSet
        <5>. QED
          BY <1>6, <2>5, <3>2, <5>1
      <4>. QED
        BY <2>5, <3>2, <4>1, <4>2
    <3>. QED
      BY <1>6, <2>5, <3>1, <3>2
  <2>7. ToSet(order) \subseteq ToSet(after) /\ p \in ToSet(after)
    BY <1>6, <2>5 DEF ToSet
  <2>. QED
    BY <2>3, <2>5, <2>6, <2>7 DEF after, names
<1>. QED
  BY <1>7, <1>8, <1>9

\* order is what TopoOrder goes through.
Ordering(order, members) ==
  order = [n \in 0 .. Len(members) |-> IF n = 0 THEN <<>> ELSE Round(order[n - 1], members)]

\* TopoOrder puts out every member, each after what it depends on.
LEMMA TopoOrders ==
  ASSUME NEW members, IsWorkspace(members)
  PROVE  /\ TopoOrder(members) \in Seq(PackageNames(members))
         /\ ToSet(TopoOrder(members)) = PackageNames(members)
         /\ Ordered(TopoOrder(members), members)
<1>. DEFINE N == Len(members)
            names == PackageNames(members)
            Step == [x \in Seq(names) |-> Round(x, members)]
            next == [k \in 1..N |-> Step]
            Good(x) == x \in Seq(names) /\ Ordered(x, members)
<1>1. N \in Nat /\ members \in Seq(ToSet(members))
  BY DEF IsWorkspace
<1>2. IsFiniteSet(names) /\ Cardinality(names) <= N
  BY <1>1, NamesAreFinite
<1>3. Good(<<>>)
  BY DEF Ordered
<1>4. \A x : Good(x) => Good(Round(x, members))
  BY RoundOrders
<1>. HIDE DEF N
<1>5. PICK f : Stages(f, N, <<>>, next)
  <2>. HIDE DEF next
  <2>. QED
    BY <1>1, Recursion
<1>6. \A k \in 0..N : f[k] = IF k = 0 THEN <<>> ELSE next[k][f[k - 1]]
  <2>. HIDE DEF next
  <2>. QED
    BY <1>5 DEF Stages
<1>7. \A k \in 1..N : \A x \in Seq(names) : next[k][x] = Round(x, members)
  OBVIOUS
<1>8. \A x : Good(x) => x \in Seq(names)
  OBVIOUS
<1>. HIDE DEF next, Good
<1>. DEFINE Bad == {k \in 0..N : ~ Good(f[k])}
<1>9. Bad = {}
  <2>1. SUFFICES ASSUME Bad # {} PROVE FALSE
    OBVIOUS
  <2>2. Bad \in SUBSET Nat
    BY <1>1
  <2>3. PICK k \in Bad : \A j \in Bad : k <= j
    BY <2>1, <2>2, LeastMember
  <2>4. k \in 0..N /\ k # 0
    BY <1>3, <1>6, <2>3
  <2>5. k - 1 \in 0..N /\ k \in 1..N /\ k - 1 \notin Bad
    BY <1>1, <2>3, <2>4
  <2>6. Good(f[k - 1])
    BY <2>5
  <2>7. f[k] = Round(f[k - 1], members)
    BY <1>6, <1>7, <1>8, <2>4, <2>5, <2>6
  <2>. QED
    BY <1>4, <2>3, <2>6, <2>7
<1>10. \A k \in 0..N : f[k] = IF k = 0 THEN <<>> ELSE Round(f[k - 1], members)
  <2>. TAKE k \in 0..N
  <2>1. CASE k = 0
    BY <1>6, <2>1
  <2>2. CASE k # 0
    <3>1. k - 1 \in 0..N /\ k \in 1..N
      BY <1>1, <2>2
    <3>2. Good(f[k - 1])
      BY <1>9, <3>1
    <3>. QED
      BY <1>6, <1>7, <1>8, <2>2, <3>1, <3>2
  <2>. QED
    BY <2>1, <2>2
<1>11. Ordering(f, members)
  <2>1. f = [k \in 0..N |-> f[k]]
    BY <1>5 DEF Stages
  <2>. QED
    BY <1>10, <2>1 DEF Ordering, N
<1>. DEFINE order == CHOOSE g : Ordering(g, members)
<1>12. Ordering(order, members)
  BY <1>11, Zenon
<1>13. TopoOrder(members) = order[N]
  BY DEF TopoOrder, Ordering, N
<1>. HIDE DEF order
<1>14. \A k \in 0..N : order[k] = IF k = 0 THEN <<>> ELSE Round(order[k - 1], members)
  BY <1>12 DEF Ordering, N
<1>. DEFINE Left(k) == Cardinality(names \ ToSet(order[k]))
            Fine(k) == Good(order[k]) /\ (Left(k) + k <= N \/ ToSet(order[k]) = names)
            Wrong == {k \in 0..N : ~ Fine(k)}
<1>15. \A k : IsFiniteSet(names \ ToSet(order[k])) /\ Left(k) \in Nat
  BY <1>2, FS_Subset, FS_CardinalityType
<1>16. Wrong = {}
  <2>1. SUFFICES ASSUME Wrong # {} PROVE FALSE
    OBVIOUS
  <2>2. Wrong \in SUBSET Nat
    BY <1>1
  <2>3. PICK k \in Wrong : \A j \in Wrong : k <= j
    BY <2>1, <2>2, LeastMember
  <2>4. k \in 0..N /\ ~ Fine(k)
    BY <2>3
  <2>5. CASE k = 0
    <3>1. order[k] = <<>>
      BY <1>14, <2>4, <2>5
    <3>2. names \ ToSet(<<>>) = names
      BY DEF ToSet
    <3>3. Left(0) = Cardinality(names) /\ Left(0) \in Nat
      BY <1>15, <2>5, <3>1, <3>2
    <3>4. Good(order[0])
      BY <1>3, <2>5, <3>1
    <3>. HIDE DEF Left
    <3>5. Fine(0)
      BY <1>1, <1>2, <3>3, <3>4
    <3>. HIDE DEF Fine
    <3>. QED
      BY <2>4, <2>5, <3>5
  <2>6. CASE k # 0
    <3>1. k - 1 \in 0..N /\ k \in Nat
      BY <1>1, <2>4, <2>6
    <3>2. Fine(k - 1)
      <4>1. k - 1 \notin Wrong
        <5>. HIDE DEF Wrong
        <5>. QED
          BY <2>3, <3>1
      <4>. HIDE DEF Fine
      <4>. QED
        BY <3>1, <4>1
    <3>3. order[k] = Round(order[k - 1], members)
      BY <1>14, <2>4, <2>6
    <3>. DEFINE x == order[k - 1]
                y == order[k]
    <3>4. Good(x) /\ Good(y)
      BY <1>4, <3>2, <3>3
    <3>5. /\ ToSet(x) \subseteq ToSet(y)
          /\ ToSet(x) = names \/ \E p \in names \ ToSet(x) : p \in ToSet(y)
      BY <3>3, <3>4, RoundOrders DEF Good
    <3>6. CASE ToSet(x) = names
      <4>1. ToSet(y) = names
        <5>1. y \in Seq(names)
          BY <1>8, <3>4
        <5>2. ToSet(y) \subseteq names
          BY <5>1 DEF ToSet
        <5>. QED
          BY <3>5, <3>6, <5>2
      <4>. QED
        BY <2>4, <3>4, <4>1
    <3>7. CASE ToSet(x) # names
      <4>1. PICK p \in names \ ToSet(x) : p \in ToSet(y)
        BY <3>5, <3>7
      <4>2. Left(k - 1) + (k - 1) <= N
        BY <3>2, <3>7
      <4>3. Cardinality((names \ ToSet(x)) \ {p}) = Left(k - 1) - 1
        BY <1>15, <4>1, FS_RemoveElement
      <4>4. names \ ToSet(y) \subseteq (names \ ToSet(x)) \ {p}
        BY <3>5, <4>1
      <4>5. IsFiniteSet((names \ ToSet(x)) \ {p})
        BY <1>15, FS_RemoveElement
      <4>6. Left(k) <= Left(k - 1) - 1
        BY <4>3, <4>4, <4>5, FS_Subset
      <4>7. Left(k) \in Nat /\ Left(k - 1) \in Nat
        BY <1>15
      <4>. HIDE DEF Left
      <4>8. Left(k) + k <= N
        BY <1>1, <3>1, <4>2, <4>6, <4>7
      <4>9. Fine(k)
        BY <3>4, <4>8
      <4>. HIDE DEF Fine
      <4>. QED
        BY <2>4, <4>9
    <3>. QED
      BY <3>6, <3>7
  <2>. QED
    BY <2>5, <2>6
<1>17. Fine(N)
  <2>1. N \in 0..N /\ N \notin Wrong
    <3>. HIDE DEF Wrong
    <3>. QED
      BY <1>1, <1>16
  <2>. HIDE DEF Fine
  <2>. QED
    BY <2>1
<1>18. Good(order[N]) /\ ToSet(order[N]) = names
  <2>1. CASE ToSet(order[N]) = names
    BY <1>17, <2>1
  <2>2. CASE ToSet(order[N]) # names
    <3>1. Left(N) = 0
      <4>1. Left(N) + N <= N /\ Left(N) \in Nat
        BY <1>15, <1>17, <2>2
      <4>. HIDE DEF Left
      <4>. QED
        BY <1>1, <4>1
    <3>2. names \ ToSet(order[N]) = {}
      BY <1>15, <3>1, FS_EmptySet
    <3>3. order[N] \in Seq(names)
      BY <1>8, <1>17
    <3>4. ToSet(order[N]) \subseteq names
      BY <3>3 DEF ToSet
    <3>. QED
      BY <2>2, <3>2, <3>4
  <2>. QED
    BY <2>1, <2>2
<1>. QED
  BY <1>13, <1>18 DEF Good

\* What a set of packages needs comes out, the packages among it, each crate
\* after its dependencies.
LEMMA ClosureOrders ==
  ASSUME NEW members, IsWorkspace(members), NEW R, NEW roots \in Seq(R)
  PROVE  LET order == ClosureOrder(roots, members)
         IN /\ order \in Seq(ClosureOf(ToSet(roots), members))
            /\ ToSet(roots) \subseteq ToSet(order)
            /\ Ordered(order, members)
<1>. DEFINE required == ClosureOf(ToSet(roots), members)
            within == {m \in ToSet(members) : m.package \in required}
            sub == Keep(members, within)
            ordered == TopoOrder(sub)
            rest == Keep(roots, ToSet(roots) \ ToSet(ordered))
            order == ClosureOrder(roots, members)
            n == Len(ordered)
<1>1. order = ordered \o rest
  BY DEF ClosureOrder
<1>2. members \in Seq(ToSet(members))
  BY DEF IsWorkspace
<1>3. sub \in Seq(ToSet(members)) /\ ToSet(sub) = within
  <2>1. sub \in Seq(ToSet(members)) /\ ToSet(sub) = ToSet(members) \cap within
    <3>. HIDE DEF within
    <3>. QED
      BY <1>2, KeepType
  <2>. QED
    BY <2>1
<1>4. IsWorkspace(sub)
  <2>1. sub \in Seq(ToSet(sub))
    <3>. HIDE DEF sub
    <3>. QED
      BY <1>3, ListOfIts
  <2>. QED
    BY <1>3, <2>1 DEF IsWorkspace
<1>5. required = ClosureOf(ToSet(roots), members) /\ ToSet(roots) \subseteq required
      /\ Closed(required, members)
  BY ClosureIsLeast
<1>6. PackageNames(sub) = PackageNames(members) \cap required
  <2>1. \A s : PackageNames(s) = {m.package : m \in ToSet(s)}
    BY DEF PackageNames, ToSet
  <2>. QED
    BY <1>3, <2>1
<1>7. \A p : DepsOf(sub, p) \subseteq DepsOf(members, p)
  <2>1. \A s, p : DepsOf(s, p) = UNION {m.deps : m \in {m \in ToSet(s) : m.package = p}}
    BY DEF DepsOf, ToSet
  <2>. QED
    BY <1>3, <2>1
<1>8. \A p \in PackageNames(sub) : DepsOf(sub, p) = DepsOf(members, p)
  <2>. SUFFICES ASSUME NEW p \in PackageNames(sub) PROVE DepsOf(sub, p) = DepsOf(members, p)
    OBVIOUS
  <2>1. PICK m \in ToSet(sub) : m.package = p
    BY DEF PackageNames, ToSet
  <2>2. m \in ToSet(members)
    BY <1>3, <2>1
  <2>. QED
    BY <1>4, <2>1, <2>2, DepsOfMember
<1>. HIDE DEF required, sub
<1>9. /\ ordered \in Seq(PackageNames(sub))
      /\ ToSet(ordered) = PackageNames(sub)
      /\ Ordered(ordered, sub)
  BY <1>4, TopoOrders
<1>. HIDE DEF ordered
<1>10. rest \in Seq(R) /\ ToSet(rest) = ToSet(roots) \ ToSet(ordered)
  <2>1. rest \in Seq(R) /\ ToSet(rest) = ToSet(roots) \cap (ToSet(roots) \ ToSet(ordered))
    BY KeepType
  <2>. QED
    BY <2>1
<1>11. ordered \in Seq(required)
  BY <1>6, <1>9
<1>12. rest \in Seq(required)
  <2>. HIDE DEF rest
  <2>1. rest \in Seq(ToSet(rest))
    BY <1>10, ListOfIts
  <2>2. ToSet(rest) \subseteq required
    BY <1>5, <1>10
  <2>. QED
    BY <2>1, <2>2
<1>. HIDE DEF rest, order
<1>13. /\ order \in Seq(required) /\ n \in Nat /\ Len(rest) \in Nat
       /\ DOMAIN order = 1..(n + Len(rest)) /\ DOMAIN ordered = 1..n /\ DOMAIN rest = 1..Len(rest)
       /\ \A i \in 1..n : order[i] = ordered[i]
       /\ \A i \in (n + 1)..(n + Len(rest)) : order[i] = rest[i - n]
  BY <1>1, <1>11, <1>12
<1>14. ToSet(roots) \subseteq ToSet(order)
  <2>1. ToSet(ordered) \subseteq ToSet(order)
    BY <1>13 DEF ToSet
  <2>2. ToSet(rest) \subseteq ToSet(order)
    <3>. SUFFICES ASSUME NEW i \in 1..Len(rest) PROVE rest[i] \in ToSet(order)
      BY <1>13 DEF ToSet
    <3>1. n + i \in (n + 1)..(n + Len(rest)) /\ n + i \in 1..(n + Len(rest)) /\ (n + i) - n = i
      BY <1>13
    <3>. QED
      BY <1>13, <3>1 DEF ToSet
  <2>. QED
    BY <1>10, <2>1, <2>2
<1>15. Ordered(order, members)
  <2>. SUFFICES ASSUME NEW i \in DOMAIN order,
                       NEW d \in DepsOf(members, order[i]) \cap PackageNames(members)
                PROVE  \/ d = order[i]
                       \/ Endless(order[i], members)
                       \/ \E j \in DOMAIN order : j < i /\ order[j] = d
    BY DEF Ordered
  <2>1. order[i] \in required
    BY <1>13
  <2>2. CASE i \in 1..n
    <3>1. order[i] = ordered[i] /\ order[i] \in PackageNames(sub)
      BY <1>9, <1>13, <2>2
    <3>2. d \in DepsOf(sub, ordered[i]) \cap PackageNames(sub)
      BY <1>5, <1>6, <1>8, <2>1, <3>1 DEF Closed
    <3>3. \/ d = ordered[i]
          \/ Endless(ordered[i], sub)
          \/ \E j \in 1..n : j < i /\ ordered[j] = d
      BY <1>9, <1>13, <2>2, <3>2 DEF Ordered
    <3>4. Endless(ordered[i], sub) => Endless(ordered[i], members)
      BY <1>7 DEF Endless
    <3>5. ASSUME NEW j \in 1..n, j < i, ordered[j] = d
          PROVE  \E k \in DOMAIN order : k < i /\ order[k] = d
      BY <1>13, <3>5
    <3>. QED
      BY <3>1, <3>3, <3>4, <3>5
  <2>3. CASE i \in (n + 1)..(n + Len(rest))
    <3>1. i - n \in 1..Len(rest) /\ order[i] = rest[i - n]
      BY <1>13, <2>3
    <3>2. order[i] \in ToSet(rest)
      BY <1>13, <3>1 DEF ToSet
    <3>3. order[i] \notin PackageNames(sub)
      BY <1>9, <1>10, <3>2
    <3>4. order[i] \notin PackageNames(members)
      BY <1>6, <2>1, <3>3
    <3>5. order[i] \in PackageNames(members)
      BY OnlyMembersDepend DEF PackageNames
    <3>. QED
      BY <3>4, <3>5
  <2>. QED
    BY <1>13, <2>2, <2>3
<1>. QED
  BY <1>13, <1>14, <1>15 DEF order, required

-----------------------------------------------------------------------------
(* The resolved targets.                                                    *)

\* A target is a record of these four fields.
IsTarget(t) ==
  t = [ecosystem |-> t.ecosystem, package |-> t.package, registry |-> t.registry, adapter |-> t.adapter]

Own(base) == {t \in ToSet(base) : EnginePublishes(t)}

\* The own targets have been replaced, where the first stood, by those of order.
Spliced(out, base, order) ==
  \E k \in Nat, e \in Own(base) :
    /\ k + Len(order) <= Len(out)
    /\ \A i \in 1..k : out[i] \in ToSet(base) \ Own(base)
    /\ \A i \in (k + 1)..(k + Len(order)) : out[i] = [e EXCEPT !.package = order[i - k]]
    /\ \A i \in (k + Len(order) + 1)..Len(out) : out[i] \in ToSet(base) \ Own(base)

\* A list that is expanded either stays or has its own targets' closure instead.
LEMMA ExpandedTargets ==
  ASSUME NEW T, NEW base \in Seq(T), NEW facts,
         facts.workspace # Null => IsWorkspace(facts.workspace.members)
  PROVE  LET out == ExpandMembers(base, facts)
         IN \/ /\ out = base
               /\ facts.workspace = Null \/ Own(base) = {} \/ \E t \in Own(base) : t.package = Null
            \/ /\ facts.workspace # Null
               /\ \E R : \E roots \in Seq(R) :
                    /\ ToSet(roots) = {t.package : t \in Own(base)}
                    /\ Spliced(out, base, ClosureOrder(roots, facts.workspace.members))
               /\ ToSet(base) \ Own(base) \subseteq ToSet(out)
               /\ out = [i \in 1..Len(out) |-> out[i]] /\ Len(out) \in Nat
<1>. DEFINE out == ExpandMembers(base, facts)
            own == Own(base)
            engine == Keep(base, own)
            roots == [i \in DOMAIN engine |-> engine[i].package]
            R == {t.package : t \in own}
            order == ClosureOrder(roots, facts.workspace.members)
            first == CHOOSE i \in DOMAIN base : base[i] \in own /\ \A j \in 1 .. i - 1 : base[j] \notin own
            front == SubSeq(base, 1, first - 1)
            derived == [i \in DOMAIN order |-> [engine[1] EXCEPT !.package = order[i]]]
            back == Keep(SubSeq(base, first, Len(base)), ToSet(base) \ own)
<1>1. base \in Seq(ToSet(base)) /\ DOMAIN base = 1..Len(base) /\ Len(base) \in Nat
  <2>1. base = [i \in 1..Len(base) |-> base[i]] /\ Len(base) \in Nat
    OBVIOUS
  <2>2. \A i \in 1..Len(base) : base[i] \in ToSet(base)
    BY DEF ToSet
  <2>. QED
    BY <2>1, <2>2
<1>2. engine \in Seq(ToSet(base)) /\ ToSet(engine) = own
  <2>1. own \subseteq ToSet(base)
    BY DEF Own
  <2>2. engine \in Seq(ToSet(base)) /\ ToSet(engine) = ToSet(base) \cap own
    <3>. HIDE DEF own
    <3>. QED
      BY <1>1, KeepType
  <2>. QED
    BY <2>1, <2>2
<1>3. out = IF facts.workspace = Null \/ engine = <<>> \/ Null \in ToSet(roots) THEN base
            ELSE (front \o derived) \o back
  BY DEF ExpandMembers, Own
<1>. HIDE DEF own, out, engine
<1>4. roots \in Seq(R) /\ ToSet(roots) = R
  <2>1. DOMAIN engine = 1..Len(engine) /\ Len(engine) \in Nat
    BY <1>2
  <2>2. \A i \in 1..Len(engine) : engine[i] \in own
    BY <1>2, <2>1 DEF ToSet
  <2>3. ToSet(roots) = R
    BY <1>2 DEF ToSet
  <2>. QED
    BY <2>1, <2>2, <2>3
<1>5. CASE facts.workspace = Null \/ engine = <<>> \/ Null \in ToSet(roots)
  <2>1. engine = <<>> => own = {}
    BY <1>2 DEF ToSet
  <2>2. Null \in ToSet(roots) => \E t \in own : t.package = Null
    BY <1>4
  <2>. QED
    BY <1>3, <1>5, <2>1, <2>2 DEF out, own
<1>6. CASE ~ (facts.workspace = Null \/ engine = <<>> \/ Null \in ToSet(roots))
  <2>1. engine[1] \in own
    <3>1. 1 \in DOMAIN engine
      BY <1>2, <1>6
    <3>. QED
      BY <1>2, <3>1 DEF ToSet
  <2>2. first \in 1..Len(base) /\ \A j \in 1 .. first - 1 : base[j] \notin own
    <3>. DEFINE S == {i \in 1..Len(base) : base[i] \in own}
    <3>1. S # {} /\ S \in SUBSET Nat
      BY <1>1, <2>1 DEF Own, own, ToSet
    <3>2. PICK i \in S : \A j \in S : i <= j
      BY <3>1, LeastMember
    <3>3. \A j \in 1..(i - 1) : base[j] \notin own
      BY <1>1, <3>2
    <3>4. i \in DOMAIN base /\ base[i] \in own
      BY <1>1, <3>2
    <3>. QED
      BY <1>1, <3>3, <3>4
  <2>. HIDE DEF first
  <2>3. order \in Seq(ClosureOf(ToSet(roots), facts.workspace.members))
    BY <1>4, <1>6, ClosureOrders
  <2>. HIDE DEF order
  <2>. DEFINE k == first - 1
              m == Len(order)
  <2>4. k \in Nat /\ k + 1 = first /\ m \in Nat /\ k \in 0..Len(base)
    BY <1>1, <2>2, <2>3
  <2>5. /\ front \in Seq(ToSet(base)) /\ Len(front) = k
        /\ \A i \in 1..k : front[i] = base[i]
    BY <1>1, <2>2, <2>4
  <2>6. derived = [i \in 1..m |-> [engine[1] EXCEPT !.package = order[i]]]
    BY <2>3
  <2>. DEFINE D == {derived[i] : i \in 1..m}
  <2>7. derived \in Seq(D) /\ Len(derived) = m
    BY <2>4, <2>6
  <2>8. back \in Seq(ToSet(base)) /\ ToSet(back) = ToSet(SubSeq(base, first, Len(base))) \ own
    <3>1. /\ SubSeq(base, first, Len(base)) \in Seq(ToSet(base))
      BY <1>1, <2>2
    <3>2. ToSet(SubSeq(base, first, Len(base))) \subseteq ToSet(base)
      BY <3>1, ListOfIts
    <3>3. /\ back \in Seq(ToSet(base))
          /\ ToSet(back) = ToSet(SubSeq(base, first, Len(base))) \cap (ToSet(base) \ own)
      BY <3>1, KeepType
    <3>. QED
      BY <3>2, <3>3
  <2>9. \A i \in first..Len(base) : base[i] \in ToSet(SubSeq(base, first, Len(base)))
    <3>. SUFFICES ASSUME NEW i \in first..Len(base)
                  PROVE  base[i] \in ToSet(SubSeq(base, first, Len(base)))
      OBVIOUS
    <3>. DEFINE s == SubSeq(base, first, Len(base))
    <3>1. Len(s) = Len(base) - first + 1 /\ DOMAIN s = 1..Len(s)
          /\ \A j \in 1..Len(s) : s[j] = base[first + j - 1]
      BY <1>1, <2>2
    <3>2. (i - first) + 1 \in 1..Len(s) /\ first + ((i - first) + 1) - 1 = i
      BY <1>1, <2>2, <3>1
    <3>3. s[(i - first) + 1] = base[i]
      BY <3>1, <3>2
    <3>. QED
      BY <3>1, <3>2, <3>3 DEF ToSet
  <2>10. out = (front \o derived) \o back
    BY <1>3, <1>6
  <2>. HIDE DEF front, derived, back, D, k, m
  <2>. DEFINE U == ToSet(base) \cup D
              r == Len(back)
  <2>11. r \in Nat /\ front \in Seq(U) /\ derived \in Seq(U) /\ back \in Seq(U)
    BY <2>5, <2>7, <2>8
  <2>. HIDE DEF U, r
  <2>12. /\ Len(front) = k /\ Len(derived) = m
    BY <2>5, <2>7
  <2>13. /\ out \in Seq(U) /\ Len(out) = (k + m) + r
         /\ \A i \in 1..k : out[i] = front[i]
         /\ \A i \in (k + 1)..(k + m) : out[i] = derived[i - k]
         /\ \A i \in (k + m + 1)..((k + m) + r) : out[i] = back[i - (k + m)]
    <3>1. r = Len(back)
      BY DEF r
    <3>2. r \in Nat /\ k = Len(front) /\ m = Len(derived)
      BY <2>11, <2>12
    <3>. HIDE DEF out
    <3>3. /\ (front \o derived) \o back \in Seq(U) /\ Len((front \o derived) \o back) = (k + m) + r
          /\ \A i \in 1..k : ((front \o derived) \o back)[i] = front[i]
          /\ \A i \in (k + 1)..(k + m) : ((front \o derived) \o back)[i] = derived[i - k]
          /\ \A i \in (k + m + 1)..((k + m) + r) : ((front \o derived) \o back)[i] = back[i - (k + m)]
      <4>. HIDE DEF r
      <4>. DEFINE w == (front \o derived) \o back
      <4>1. /\ w \in Seq(U)
            /\ Len(w) = (Len(front) + Len(derived)) + Len(back)
            /\ \A i \in 1..Len(front) : w[i] = front[i]
            /\ \A i \in (Len(front) + 1)..(Len(front) + Len(derived)) : w[i] = derived[i - Len(front)]
            /\ \A i \in (Len(front) + Len(derived) + 1)..((Len(front) + Len(derived)) + Len(back)) :
                  w[i] = back[i - (Len(front) + Len(derived))]
        BY <2>11, JoinedThree
      <4>. HIDE DEF w
      <4>2. /\ w \in Seq(U) /\ Len(w) = (k + m) + r
            /\ \A i \in 1..k : w[i] = front[i]
            /\ \A i \in (k + 1)..(k + m) : w[i] = derived[i - k]
            /\ \A i \in (k + m + 1)..((k + m) + r) : w[i] = back[i - (k + m)]
        BY <3>1, <3>2, <4>1
      <4>. QED
        BY <4>2 DEF w
    <3>. QED
      BY <2>10, <3>3
  <2>14. /\ \A i \in 1..k : out[i] = base[i]
         /\ \A i \in (k + 1)..(k + m) : out[i] = derived[i - k]
    BY <2>5, <2>13
  <2>15. \A i \in 1..k : out[i] \in ToSet(base) \ own
    BY <1>1, <2>2, <2>4, <2>14 DEF k, ToSet
  <2>16. \A i \in (k + 1)..(k + m) : out[i] = [engine[1] EXCEPT !.package = order[i - k]]
    <3>. SUFFICES ASSUME NEW i \in (k + 1)..(k + m)
                  PROVE  out[i] = [engine[1] EXCEPT !.package = order[i - k]]
      OBVIOUS
    <3>1. i - k \in 1..m
      BY <2>4
    <3>. QED
      BY <2>6, <2>14, <3>1
  <2>17. \A i \in (k + m + 1)..Len(out) : out[i] \in ToSet(base) \ own
    <3>. SUFFICES ASSUME NEW i \in (k + m + 1)..Len(out)
                  PROVE  out[i] \in ToSet(base) \ own
      OBVIOUS
    <3>1. i - (k + m) \in 1..r
      BY <2>4, <2>11, <2>13
    <3>2. out[i] = back[i - (k + m)]
      BY <2>13
    <3>3. DOMAIN back = 1..r
      BY <2>8 DEF r
    <3>4. out[i] \in ToSet(back) /\ out[i] \in ToSet(base)
      BY <2>8, <3>1, <3>2, <3>3 DEF ToSet, r
    <3>. QED
      BY <2>8, <3>4
  <2>18. DOMAIN out = 1..Len(out) /\ Len(out) \in Nat /\ k + m <= Len(out)
         /\ out = [i \in 1..Len(out) |-> out[i]]
    BY <2>4, <2>11, <2>13
  <2>19. ToSet(base) \ own \subseteq ToSet(out)
    <3>. SUFFICES ASSUME NEW i \in 1..Len(base), base[i] \notin own PROVE base[i] \in ToSet(out)
      BY <1>1 DEF ToSet
    <3>1. CASE i \in 1..k
      <4>1. i \in DOMAIN out
        BY <2>4, <2>18, <3>1
      <4>. QED
        BY <2>14, <3>1, <4>1 DEF ToSet
    <3>2. CASE i \in first..Len(base)
      <4>1. base[i] \in ToSet(back)
        BY <2>8, <2>9, <3>2
      <4>2. PICK j \in 1..r : back[j] = base[i]
        BY <2>8, <4>1 DEF ToSet, r
      <4>3. (k + m) + j \in (k + m + 1)..((k + m) + r) /\ ((k + m) + j) - (k + m) = j
        BY <2>4, <2>11
      <4>4. out[(k + m) + j] = base[i] /\ (k + m) + j \in DOMAIN out
        <5>1. out[(k + m) + j] = back[((k + m) + j) - (k + m)]
          BY <2>13, <4>3
        <5>2. (k + m) + j \in 1..Len(out)
          <6>1. Len(out) = (k + m) + r
            BY <2>13
          <6>. HIDE DEF out
          <6>. QED
            BY <2>4, <2>11, <6>1
        <5>. QED
          BY <2>18, <4>2, <4>3, <5>1, <5>2
      <4>. QED
        BY <4>4 DEF ToSet
    <3>. QED
      BY <1>1, <2>2, <2>4, <3>1, <3>2 DEF k
  <2>20. Spliced(out, base, order)
    BY <2>1, <2>4, <2>15, <2>16, <2>17, <2>18 DEF Spliced, own, m
  <2>. QED
    BY <1>4, <1>6, <2>18, <2>19, <2>20 DEF out, own, order
<1>. QED
  BY <1>5, <1>6

-----------------------------------------------------------------------------
(* What a repository's targets are.                                         *)

\* A list of targets.
AreTargets(list) == list \in Seq(ToSet(list)) /\ \A t \in ToSet(list) : IsTarget(t)

\* A list that was made element by element.
LEMMA MadeList ==
  ASSUME NEW n \in Nat, NEW out, out = [i \in 1..n |-> out[i]], \A i \in 1..n : IsTarget(out[i])
  PROVE  AreTargets(out)
<1>1. \A i \in 1..n : out[i] \in ToSet(out)
  BY DEF ToSet
<1>2. out \in Seq(ToSet(out))
  BY <1>1
<1>3. \A t \in ToSet(out) : \E i \in 1..n : t = out[i]
  <2>1. DOMAIN out = 1..n
    OBVIOUS
  <2>. QED
    BY <2>1 DEF ToSet
<1>. QED
  BY <1>2, <1>3 DEF AreTargets

\* Every entry of a frontmatter becomes a target, and so does an ecosystem.
LEMMA TargetsOfContract ==
  ASSUME NEW s \in Sources
  PROVE  AreTargets(NormalizedStr(s.document, s.repository).contract.targets)
<1>. DEFINE c == NormalizedStr(s.document, s.repository).contract
<1>1. \E m : /\ m = EmptyMap \/ (m = s.document /\ m # Malformed)
             /\ c = Built(m)
  BY DEF NormalizedStr
<1>2. PICK m : (m = EmptyMap \/ (m = s.document /\ m # Malformed)) /\ c = Built(m)
  BY <1>1
<1>. DEFINE ecosystems == Canonically(EcosystemOrder, AsList(m, "ecosystems"))
            layout == ReleaseBlock(m).layout
            entries == MappingEntries(TargetEntries(m))
<1>3. c.targets = Targets(m, ecosystems, layout)
  BY <1>2 DEF Built
<1>. HIDE DEF c, layout
<1>4. CASE ~ Present(m, "targets")
  <2>1. EcosystemOrder \in Seq({"rust", "node", "python", "go", "binary"})
    BY DEF EcosystemOrder
  <2>2. ecosystems \in Seq({"rust", "node", "python", "go", "binary"})
    BY <2>1, KeepType DEF Canonically
  <2>. HIDE DEF ecosystems
  <2>3. DOMAIN ecosystems = 1..Len(ecosystems) /\ Len(ecosystems) \in Nat
    BY <2>2
  <2>4. c.targets = [i \in 1..Len(ecosystems) |->
           [ecosystem |-> ecosystems[i], package |-> Null, registry |-> DefaultRegistry[ecosystems[i]],
            adapter |-> DefaultAdapter(ecosystems[i], layout)]]
    BY <1>3, <1>4, <2>3 DEF Targets, ExpandTargets
  <2>5. \A i \in 1..Len(ecosystems) : IsTarget(c.targets[i])
    BY <2>4 DEF IsTarget
  <2>. QED
    BY <2>3, <2>4, <2>5, MadeList DEF c
<1>5. CASE Present(m, "targets")
  <2>1. m = s.document /\ m # Malformed
    BY <1>2, <1>5 DEF Present, Declares, EmptyMap
  <2>2. TargetEntries(m) \in Seq(ToSet(TargetEntries(m)))
    BY <2>1, SourcesAssumption
  <2>3. entries \in Seq(ToSet(TargetEntries(m)))
    BY <2>2, KeepType DEF MappingEntries
  <2>. HIDE DEF entries
  <2>4. DOMAIN entries = 1..Len(entries) /\ Len(entries) \in Nat
    BY <2>3
  <2>5. c.targets = [i \in 1..Len(entries) |-> WithPlaceholders(ParsedTarget(entries[i], layout))]
    BY <1>3, <1>5, <2>4 DEF Targets, entries
  <2>6. \A t : IsTarget(WithPlaceholders(t))
    BY DEF IsTarget, WithPlaceholders
  <2>7. \A i \in 1..Len(entries) : IsTarget(c.targets[i])
    BY <2>5, <2>6
  <2>. QED
    BY <2>4, <2>5, <2>7, MadeList DEF c
<1>. QED
  BY <1>4, <1>5

\* The declared targets, a package resolved where one was left out.
LEMMA DeclaredTargets ==
  ASSUME NEW c, AreTargets(c.targets), NEW facts
  PROVE  AreTargets(BaseTargets(c, facts))
<1>. DEFINE n == Len(c.targets)
            base == BaseTargets(c, facts)
<1>1. n \in Nat /\ DOMAIN c.targets = 1..n /\ \A i \in 1..n : IsTarget(c.targets[i])
  <2>1. n \in Nat /\ DOMAIN c.targets = 1..n
    BY DEF AreTargets
  <2>2. \A i \in 1..n : c.targets[i] \in ToSet(c.targets)
    BY <2>1 DEF ToSet
  <2>. QED
    BY <2>1, <2>2 DEF AreTargets
<1>2. base = [i \in 1..n |->
        [c.targets[i] EXCEPT
           !.package = Or(c.targets[i].package, ResolvePackage(facts, c.targets[i].ecosystem))]]
  BY <1>1 DEF BaseTargets
<1>3. \A t, p : IsTarget(t) => IsTarget([t EXCEPT !.package = p])
  BY DEF IsTarget
<1>. HIDE DEF n, base
<1>4. \A i \in 1..n : IsTarget(base[i])
  BY <1>1, <1>2, <1>3
<1>. QED
  BY <1>1, <1>2, <1>4, MadeList DEF base

\* The targets a plan is made of.
LEMMA ResolvedAreTargets ==
  ASSUME NEW c, AreTargets(c.targets), NEW facts,
         facts.workspace # Null => IsWorkspace(facts.workspace.members)
  PROVE  LET out == ResolvedTargets(c, facts)
         IN /\ \E n \in Nat : out = [i \in 1..n |-> out[i]]
            /\ \A i \in DOMAIN out : IsTarget(out[i])
<1>. DEFINE base == BaseTargets(c, facts)
            out == ExpandMembers(base, facts)
<1>1. AreTargets(base)
  BY DeclaredTargets
<1>2. base \in Seq(ToSet(base)) /\ \A t \in ToSet(base) : IsTarget(t)
  BY <1>1 DEF AreTargets
<1>3. \A t, p : IsTarget(t) => IsTarget([t EXCEPT !.package = p])
  BY DEF IsTarget
<1>. HIDE DEF base
<1>4. CASE out = base
  <2>1. base = [i \in 1..Len(base) |-> base[i]] /\ Len(base) \in Nat /\ DOMAIN base = 1..Len(base)
    BY <1>2
  <2>2. \A i \in 1..Len(base) : base[i] \in ToSet(base)
    BY <2>1 DEF ToSet
  <2>. QED
    BY <1>2, <1>4, <2>1, <2>2 DEF ResolvedTargets, base
<1>5. CASE out # base
  <2>1. /\ out = [i \in 1..Len(out) |-> out[i]] /\ Len(out) \in Nat
        /\ \E R : \E roots \in Seq(R) : Spliced(out, base, ClosureOrder(roots, facts.workspace.members))
        /\ facts.workspace # Null
    BY <1>2, <1>5, ExpandedTargets
  <2>. HIDE DEF out
  <2>2. PICK R : \E roots \in Seq(R) : Spliced(out, base, ClosureOrder(roots, facts.workspace.members))
    BY <2>1
  <2>3. PICK roots \in Seq(R) : Spliced(out, base, ClosureOrder(roots, facts.workspace.members))
    BY <2>2
  <2>. DEFINE order == ClosureOrder(roots, facts.workspace.members)
  <2>4. Len(order) \in Nat
    BY <2>1, ClosureOrders
  <2>. HIDE DEF order
  <2>5. PICK k \in Nat, e \in Own(base) :
          /\ \A i \in 1..k : out[i] \in ToSet(base) \ Own(base)
          /\ \A i \in (k + 1)..(k + Len(order)) : out[i] = [e EXCEPT !.package = order[i - k]]
          /\ \A i \in (k + Len(order) + 1)..Len(out) : out[i] \in ToSet(base) \ Own(base)
    BY <2>3 DEF Spliced, order
  <2>6. e \in ToSet(base)
    BY DEF Own
  <2>7. \A i \in 1..Len(out) :
          \/ i \in 1..k \/ i \in (k + 1)..(k + Len(order)) \/ i \in (k + Len(order) + 1)..Len(out)
    BY <2>1, <2>4
  <2>8. \A i \in 1..Len(out) : IsTarget(out[i])
    <3>. SUFFICES ASSUME NEW i \in 1..Len(out) PROVE IsTarget(out[i])
      OBVIOUS
    <3>1. \/ out[i] \in ToSet(base)
          \/ i \in (k + 1)..(k + Len(order)) /\ out[i] = [e EXCEPT !.package = order[i - k]]
      BY <2>5, <2>7
    <3>2. IsTarget(e)
      BY <1>2, <2>6
    <3>3. IsTarget([e EXCEPT !.package = order[i - k]])
      BY <1>3, <3>2
    <3>. QED
      BY <1>2, <3>1, <3>3
  <2>9. DOMAIN out = 1..Len(out)
    BY <2>1
  <2>. QED
    BY <2>1, <2>8, <2>9 DEF ResolvedTargets, out, base
<1>. QED
  BY <1>4, <1>5

-----------------------------------------------------------------------------
(* What a plan is derived from.                                             *)

\* A repository as it reads.
Reads(c, facts) == \E s \in ReadSources : c = s.read.contract /\ facts = s.facts

\* What reads has targets for its list of them, and a workspace if any.
LEMMA WhatReads ==
  ASSUME NEW c, NEW facts, Reads(c, facts)
  PROVE  /\ AreTargets(c.targets)
         /\ facts.workspace # Null => IsWorkspace(facts.workspace.members)
<1>1. PICK s \in Sources : /\ c = NormalizedStr(s.document, s.repository).contract
                           /\ facts = s.facts
  BY DEF Reads, ReadSources
<1>. QED
  BY <1>1, TargetsOfContract, SourcesAssumption

\* A plan that was derived was built, with the bump of its flag.
LEMMA Derived ==
  ASSUME NEW c, NEW facts, NEW head, NEW flag, NEW plan \in DerivedPlans(c, facts, head, flag)
  PROVE  LET v == ReleaseVersion(c, facts)
         IN /\ v # Null
            /\ flag = Null => plan = BuiltPlan(c, facts, head, v, Null)
            /\ flag # Null => /\ PinsAreSealable(facts, v)
                              /\ plan = BuiltPlan(c, facts, head, BumpVersion(flag, v),
                                                  BumpPlan(c, facts, head, flag, v))
<1>. DEFINE v == ReleaseVersion(c, facts)
<1>1. v # Null
  BY DEF DerivedPlans
<1>2. BumpPlan(c, facts, head, flag, v).to = BumpVersion(flag, v)
  BY DEF BumpPlan
<1>. QED
  BY <1>1, <1>2 DEF DerivedPlans

\* What every plan that was built says.
LEMMA BuiltFields ==
  ASSUME NEW c, NEW facts, NEW head, NEW version, NEW bump
  PROVE  LET plan == BuiltPlan(c, facts, head, version, bump)
         IN /\ plan.plan_id = Seal(c, ResolvedTargets(c, facts), head, version, bump)
            /\ plan.head_sha = head /\ plan.version = version /\ plan.bump = bump
            /\ plan.targets = ResolvedTargets(c, facts)
BY DEF BuiltPlan

\* A plan somebody derived.
Sealed(plan, c, facts, head, flag) ==
  /\ Reads(c, facts) /\ head \in 0 .. MaxEdits /\ flag \in BumpFlags
  /\ plan \in DerivedPlans(c, facts, head, flag)

WasSealed(plan) == \E c, facts, head, flag : Sealed(plan, c, facts, head, flag)

\* What a sealed plan was built from.
LEMMA SealedWasBuilt ==
  ASSUME NEW plan, NEW c, NEW facts, NEW head, NEW flag, Sealed(plan, c, facts, head, flag)
  PROVE  /\ plan.targets = ResolvedTargets(c, facts)
         /\ plan.head_sha \in 0 .. MaxEdits
         /\ plan.version # Null
         /\ flag = Null => plan.bump = Null /\ plan.version = ReleaseVersion(c, facts)
         /\ flag # Null => /\ plan.bump # Null
                           /\ plan.bump = BumpPlan(c, facts, head, flag, ReleaseVersion(c, facts))
                           /\ PinsAreSealable(facts, ReleaseVersion(c, facts))
<1>. DEFINE v == ReleaseVersion(c, facts)
<1>1. /\ v # Null
      /\ flag = Null => plan = BuiltPlan(c, facts, head, v, Null)
      /\ flag # Null => /\ PinsAreSealable(facts, v)
                        /\ plan = BuiltPlan(c, facts, head, BumpVersion(flag, v),
                                            BumpPlan(c, facts, head, flag, v))
  BY Derived DEF Sealed
<1>2. flag # Null => BumpPlan(c, facts, head, flag, v) # Null /\ BumpVersion(flag, v) # Null
  BY <1>1, NullAssumption DEF Sealed, Reads
<1>. HIDE DEF v
<1>. QED
  BY <1>1, <1>2, BuiltFields DEF Sealed, v

\* Plans with one address are built from one contract, and differ in the
\* description at most.
LEMMA AddressDecides ==
  ASSUME NEW plan, NEW c, NEW facts, NEW head, NEW flag, Sealed(plan, c, facts, head, flag),
         NEW stored, WasSealed(stored), stored.plan_id = plan.plan_id
  PROVE  [plan EXCEPT !.description = Null] = [stored EXCEPT !.description = Null]
<1>1. PICK c2, facts2, head2, flag2 : Sealed(stored, c2, facts2, head2, flag2)
  BY DEF WasSealed
<1>2. \E version, bump : plan = BuiltPlan(c, facts, head, version, bump)
  BY Derived DEF Sealed
<1>3. PICK version, bump : plan = BuiltPlan(c, facts, head, version, bump)
  BY <1>2
<1>4. \E v, b : stored = BuiltPlan(c2, facts2, head2, v, b)
  BY <1>1, Derived DEF Sealed
<1>5. PICK v, b : stored = BuiltPlan(c2, facts2, head2, v, b)
  BY <1>4
<1>. DEFINE ts == ResolvedTargets(c, facts)
            ts2 == ResolvedTargets(c2, facts2)
<1>6. Seal(c, ts, head, version, bump) = Seal(c2, ts2, head2, v, b)
  BY <1>3, <1>5, BuiltFields
<1>. HIDE DEF ts, ts2
<1>7. c = c2 /\ ts = ts2 /\ head = head2 /\ version = v /\ bump = b
  BY <1>6 DEF Seal
<1>. QED
  BY <1>3, <1>5, <1>7 DEF BuiltPlan, ts, ts2

-----------------------------------------------------------------------------
(* What the steps keep.                                                     *)

\* The repository is at a commit between the first and the last edit.
SourceIsRevision ==
  source # Null =>
    \E s \in ReadSources, edits \in 0 .. MaxEdits :
      \E head \in 0 .. edits : source = Revision(s, head, edits)

\* What was stored was derived.
ApprovedAreSealed ==
  /\ IsFiniteSet(approved) /\ Cardinality(approved) <= MaxPlans
  /\ \A plan \in approved : WasSealed(plan)

\* What is executed is derived from what the repository holds, has the address
\* of a stored plan, and went through the gates.
ExecutedIsSealed ==
  executed # Null =>
    /\ source # Null
    /\ executed.stored \in approved
    /\ executed.plan.plan_id = executed.stored.plan_id
    /\ \E flag : Sealed(executed.plan, CurrentContract, source.facts, source.head, flag)
    /\ Executable(executed.plan)
    /\ DelegatedConflicts(executed.plan, source.facts) = {}

PlanInd == SourceIsRevision /\ ApprovedAreSealed /\ ExecutedIsSealed

\* A repository as it is opened or edited.
LEMMA RevisionFields ==
  ASSUME NEW s, NEW head, NEW edits
  PROVE  LET r == Revision(s, head, edits)
         IN r.facts = s.facts /\ r.read = s.read /\ r.head = head /\ r.edits = edits
BY DEF Revision

\* What the repository holds has been read.
LEMMA SourceReads ==
  ASSUME SourceIsRevision, source # Null
  PROVE  /\ Reads(CurrentContract, source.facts)
         /\ source.edits \in 0 .. MaxEdits /\ source.head \in 0 .. source.edits
         /\ source.head \in 0 .. MaxEdits
<1>1. PICK s \in ReadSources, edits \in 0 .. MaxEdits :
        \E head \in 0 .. edits : source = Revision(s, head, edits)
  BY DEF SourceIsRevision
<1>2. PICK head \in 0 .. edits : source = Revision(s, head, edits)
  BY <1>1
<1>3. source.facts = s.facts /\ source.read = s.read /\ source.head = head /\ source.edits = edits
  BY <1>2, RevisionFields
<1>4. head \in 0 .. MaxEdits
  BY PlanAssumption
<1>. QED
  BY <1>3, <1>4 DEF Reads, CurrentContract

\* It starts that way.
LEMMA PlanInitInd ==
  ASSUME PlanInit
  PROVE  PlanInd
<1>1. IsFiniteSet({}) /\ Cardinality({}) = 0
  BY FS_EmptySet
<1>. QED
  BY <1>1, PlanAssumption DEF PlanInit, PlanInd, SourceIsRevision, ApprovedAreSealed, ExecutedIsSealed

\* Opening the repository.
LEMMA OpenKeeps ==
  ASSUME PlanInd, OpenRepository
  PROVE  PlanInd'
<1>1. PICK s \in ReadSources : source' = Revision(s, 0, 0)
  BY DEF OpenRepository
<1>2. SourceIsRevision'
  <2>1. 0 \in 0 .. MaxEdits /\ 0 \in 0 .. 0
    BY PlanAssumption
  <2>. QED
    BY <1>1, <2>1 DEF SourceIsRevision
<1>3. ApprovedAreSealed'
  BY DEF PlanInd, OpenRepository, ApprovedAreSealed
<1>4. executed' = Null
  BY DEF OpenRepository, PlanInd, ExecutedIsSealed
<1>. QED
  BY <1>2, <1>3, <1>4 DEF PlanInd, ExecutedIsSealed

\* Editing it, before a cut.
LEMMA EditKeeps ==
  ASSUME PlanInd, EditRepository
  PROVE  PlanInd'
<1>1. PICK s \in ReadSources, moves \in 0 .. 1 :
        source' = Revision(s, source.head + moves, source.edits + 1)
  BY DEF EditRepository
<1>2. SourceIsRevision'
  <2>1. source.edits \in 0 .. MaxEdits /\ source.head \in 0 .. source.edits
    BY SourceReads DEF PlanInd, EditRepository
  <2>2. source.edits + 1 \in 0 .. MaxEdits /\ source.head + moves \in 0 .. source.edits + 1
    BY <2>1, PlanAssumption DEF EditRepository
  <2>. QED
    BY <1>1, <2>2 DEF SourceIsRevision
<1>3. ApprovedAreSealed'
  BY DEF PlanInd, EditRepository, ApprovedAreSealed
<1>4. executed' = Null
  BY DEF EditRepository
<1>. QED
  BY <1>2, <1>3, <1>4 DEF PlanInd, ExecutedIsSealed

\* Storing a plan.
LEMMA PlanReleaseKeeps ==
  ASSUME PlanInd, PlanRelease
  PROVE  PlanInd'
<1>1. PICK flag \in BumpFlags :
        \E plan \in DerivedPlans(CurrentContract, source.facts, source.head, flag) :
          approved' = approved \cup {plan}
  BY DEF PlanRelease
<1>0. PICK plan \in DerivedPlans(CurrentContract, source.facts, source.head, flag) :
        approved' = approved \cup {plan}
  BY <1>1
<1>2. WasSealed(plan)
  BY SourceReads DEF WasSealed, Sealed, PlanInd, PlanRelease
<1>3. ApprovedAreSealed'
  <2>1. approved' = approved \cup {plan}
    BY <1>0
  <2>2. /\ IsFiniteSet(approved \cup {plan})
        /\ Cardinality(approved \cup {plan}) \in {Cardinality(approved), Cardinality(approved) + 1}
        /\ Cardinality(approved) \in Nat
    BY FS_AddElement, FS_CardinalityType DEF PlanInd, ApprovedAreSealed
  <2>3. Cardinality(approved \cup {plan}) <= MaxPlans
    BY <2>2, PlanAssumption DEF PlanInd, ApprovedAreSealed, PlanRelease
  <2>. QED
    BY <1>2, <2>1, <2>2, <2>3 DEF PlanInd, ApprovedAreSealed
<1>4. SourceIsRevision' /\ executed' = Null
  BY DEF PlanInd, PlanRelease, SourceIsRevision
<1>. QED
  BY <1>3, <1>4 DEF PlanInd, ExecutedIsSealed

\* Cutting the release that a stored plan is for.
LEMMA CutReleaseKeeps ==
  ASSUME PlanInd, CutRelease
  PROVE  PlanInd'
<1>1. \E stored \in approved, level \in BumpFlags :
        \E current \in DerivedPlans(CurrentContract, source.facts, source.head, level) :
          /\ current.plan_id = stored.plan_id
          /\ Executable(current)
          /\ DelegatedConflicts(current, source.facts) = {}
          /\ executed' = [plan |-> current, stored |-> stored]
  <2>1. PICK stored \in approved, flag \in BumpFlags :
          LET level == IF stored.bump = Null THEN flag ELSE stored.bump.level
          IN /\ stored.bump # Null => flag \in {Null, level}
             /\ \E current \in DerivedPlans(CurrentContract, source.facts, source.head, level) :
                  /\ current.plan_id = stored.plan_id
                  /\ Executable(current)
                  /\ DelegatedConflicts(current, source.facts) = {}
                  /\ executed' = [plan |-> current, stored |-> stored]
    BY DEF CutRelease
  <2>2. stored.bump # Null => stored.bump.level \in BumpFlags
    <3>1. PICK c, facts, head, level : Sealed(stored, c, facts, head, level)
      BY DEF PlanInd, ApprovedAreSealed, WasSealed
    <3>2. stored.bump = Null \/ stored.bump = BumpPlan(c, facts, head, level, ReleaseVersion(c, facts))
      BY <3>1, SealedWasBuilt
    <3>. QED
      BY <3>1, <3>2 DEF BumpPlan, Sealed
  <2>. QED
    BY <2>1, <2>2
<1>2. PICK stored \in approved, level \in BumpFlags :
        \E current \in DerivedPlans(CurrentContract, source.facts, source.head, level) :
          /\ current.plan_id = stored.plan_id
          /\ Executable(current)
          /\ DelegatedConflicts(current, source.facts) = {}
          /\ executed' = [plan |-> current, stored |-> stored]
  BY <1>1
<1>0. PICK current \in DerivedPlans(CurrentContract, source.facts, source.head, level) :
        /\ current.plan_id = stored.plan_id
        /\ Executable(current)
        /\ DelegatedConflicts(current, source.facts) = {}
        /\ executed' = [plan |-> current, stored |-> stored]
  BY <1>2
<1>3. UNCHANGED <<source, approved>> /\ source # Null
  BY DEF CutRelease
<1>4. SourceIsRevision' /\ ApprovedAreSealed'
  BY <1>3 DEF PlanInd, SourceIsRevision, ApprovedAreSealed
<1>5. ExecutedIsSealed'
  <2>1. Sealed(current, CurrentContract, source.facts, source.head, level)
    BY <1>2, <1>3, SourceReads DEF PlanInd, Sealed
  <2>2. executed'.plan = current /\ executed'.stored = stored
    BY <1>0
  <2>3. CurrentContract' = CurrentContract
    BY <1>3 DEF CurrentContract
  <2>4. /\ current.plan_id = stored.plan_id
        /\ Executable(current)
        /\ DelegatedConflicts(current, source.facts) = {}
    BY <1>0
  <2>. QED
    BY <1>3, <2>1, <2>2, <2>3, <2>4 DEF ExecutedIsSealed
<1>. QED
  BY <1>4, <1>5 DEF PlanInd

\* Whatever happens, the repository is at a revision, what is stored was
\* derived, and what is executed is what was stored, derived again.
THEOREM PlanInvariance == PlanSpec => []PlanInd
<1>1. ContractInit /\ PlanInit => PlanInd
  BY PlanInitInd
<1>2. PlanInd /\ [PlanNext /\ UNCHANGED contractVars]_<<planVars, contractVars>> => PlanInd'
  <2>. SUFFICES ASSUME PlanInd, [PlanNext /\ UNCHANGED contractVars]_<<planVars, contractVars>>
                PROVE  PlanInd'
    OBVIOUS
  <2>1. CASE PlanNext
    BY <2>1, OpenKeeps, EditKeeps, PlanReleaseKeeps, CutReleaseKeeps DEF PlanNext
  <2>2. CASE UNCHANGED <<planVars, contractVars>>
    BY <2>2 DEF planVars, PlanInd, SourceIsRevision, ApprovedAreSealed, ExecutedIsSealed, CurrentContract
  <2>. QED
    BY <2>1, <2>2
<1>. QED
  BY <1>1, <1>2, PTL DEF PlanSpec

-----------------------------------------------------------------------------
(* What is executed is what was approved.                                   *)

\* Every phase of the run acts on what the stored document says, whatever was
\* edited between plan and cut (cut derives again and compares the address).
THEOREM ExecutesTheApprovedHolds == PlanSpec => []ExecutesTheApproved
<1>1. PlanInd => ExecutesTheApproved
  <2>. SUFFICES ASSUME PlanInd, executed # Null
                PROVE  [ThePlan EXCEPT !.description = Null]
                         = [executed.stored EXCEPT !.description = Null]
    BY DEF ExecutesTheApproved, Running
  <2>1. PICK flag : Sealed(executed.plan, CurrentContract, source.facts, source.head, flag)
    BY DEF PlanInd, ExecutedIsSealed
  <2>2. WasSealed(executed.stored) /\ executed.stored.plan_id = executed.plan.plan_id
    BY DEF PlanInd, ExecutedIsSealed, ApprovedAreSealed
  <2>. QED
    BY <2>1, <2>2, AddressDecides DEF ThePlan
<1>. QED
  BY <1>1, PlanInvariance, PTL

-----------------------------------------------------------------------------
(* The parts of PlanInv.                                                    *)

\* The stored and the executed plans are what they are said to be.
LEMMA PlanTyped ==
  ASSUME PlanInd
  PROVE  PlanTypeOK
<1>1. \A plan \in approved : plan.head_sha \in 0 .. MaxEdits /\ plan.version # Null
  BY SealedWasBuilt DEF PlanInd, ApprovedAreSealed, WasSealed
<1>. QED
  BY <1>1, SourceReads DEF PlanTypeOK, PlanInd, ApprovedAreSealed, ExecutedIsSealed

\* What a run acts on.
LEMMA RunningPlan ==
  ASSUME PlanInd, Running
  PROVE  /\ source # Null
         /\ Reads(CurrentContract, source.facts)
         /\ ThePlan.targets = ResolvedTargets(CurrentContract, source.facts)
         /\ \A i \in DOMAIN ThePlan.targets : ThePlan.targets[i].package # Null
         /\ DelegatedConflicts(ThePlan, source.facts) = {}
         /\ \E n \in Nat : ThePlan.targets = [i \in 1..n |-> ThePlan.targets[i]]
         /\ \A i \in DOMAIN ThePlan.targets : IsTarget(ThePlan.targets[i])
<1>1. PICK flag : Sealed(executed.plan, CurrentContract, source.facts, source.head, flag)
  BY DEF PlanInd, ExecutedIsSealed, Running
<1>2. source # Null /\ Executable(ThePlan) /\ DelegatedConflicts(ThePlan, source.facts) = {}
  BY DEF PlanInd, ExecutedIsSealed, Running, ThePlan
<1>3. ThePlan.targets = ResolvedTargets(CurrentContract, source.facts)
  BY <1>1, SealedWasBuilt DEF ThePlan
<1>4. Reads(CurrentContract, source.facts)
  BY <1>2, SourceReads DEF PlanInd
<1>5. /\ \E n \in Nat : ThePlan.targets = [i \in 1..n |-> ThePlan.targets[i]]
      /\ \A i \in DOMAIN ThePlan.targets : IsTarget(ThePlan.targets[i])
  BY <1>3, <1>4, WhatReads, ResolvedAreTargets
<1>. QED
  BY <1>2, <1>3, <1>4, <1>5 DEF Executable

\* Without a workspace nothing is needed.
LEMMA NoMembers ==
  ASSUME NEW p
  PROVE  DepsOf(<<>>, p) = {} /\ ClosureOf({p}, <<>>) \subseteq {p}
<1>1. \A q : DepsOf(<<>>, q) = {}
  BY DEF DepsOf
<1>2. Closed({p}, <<>>)
  BY <1>1 DEF Closed
<1>. QED
  BY <1>1, <1>2, ClosureIsLeast

\* What the engine publishes needs nothing that CI publishes later.
LEMMA NobodyWaits ==
  ASSUME PlanInd
  PROVE  NothingWaitsForCI
<1>. SUFFICES ASSUME Running,
                     NEW i \in DOMAIN ThePlan.targets, ThePlan.targets[i].adapter = "cargo-publish-ci",
                     NEW j \in DOMAIN ThePlan.targets, EnginePublishes(ThePlan.targets[j]),
                     ThePlan.targets[j].package # ThePlan.targets[i].package,
                     ThePlan.targets[i].package \in ClosureOf({ThePlan.targets[j].package}, Members)
              PROVE  FALSE
  BY DEF NothingWaitsForCI, EngineCrates, EngineTargets
<1>. DEFINE p == ThePlan.targets[i].package
            e == ThePlan.targets[j].package
<1>1. p \in {e} \cup ClosureOf(DepsOf(Members, e), Members)
  BY ClosureByStep
<1>2. p \in ClosureOf(DepsOf(Members, e), Members)
  BY <1>1
<1>3. source.facts.workspace # Null
  <2>. SUFFICES ASSUME source.facts.workspace = Null PROVE FALSE
    OBVIOUS
  <2>1. Members = <<>>
    BY DEF Members
  <2>2. ClosureOf({e}, <<>>) \subseteq {e}
    BY NoMembers
  <2>. QED
    BY <2>1, <2>2
<1>4. DelegatedConflicts(ThePlan, source.facts) = {}
  BY RunningPlan
<1>. QED
  BY <1>2, <1>3, <1>4 DEF DelegatedConflicts, Members

\* A declaration that pins a member is rewritten, or the bump was not sealed.
LEMMA PinsMove ==
  ASSUME PlanInd
  PROVE  PinsMoveTogether
<1>. SUFFICES ASSUME Running, ThePlan.bump # Null, source.facts.workspace # Null,
                     NEW g \in source.facts.workspace.pins, g.dep \in PackageNames(Members),
                     NEW r \in g.reqs, IsExact(r)
              PROVE  /\ [owner |-> g.owner, dep |-> g.dep] \in ThePlan.bump.pins
                     /\ Explicit(g) = {Exact(ThePlan.bump.from)}
  BY DEF PinsMoveTogether
<1>. DEFINE v == ReleaseVersion(CurrentContract, source.facts)
<1>1. PICK flag : Sealed(executed.plan, CurrentContract, source.facts, source.head, flag)
  BY DEF PlanInd, ExecutedIsSealed, Running
<1>2. /\ ThePlan.bump = BumpPlan(CurrentContract, source.facts, source.head, flag, v)
      /\ PinsAreSealable(source.facts, v)
  BY <1>1, SealedWasBuilt DEF ThePlan
<1>3. ThePlan.bump.from = v /\ ThePlan.bump.pins = PinRewrites(source.facts, v)
  BY <1>2 DEF BumpPlan
<1>. HIDE DEF v
<1>4. g \in MemberGroups(source.facts.workspace)
  BY DEF MemberGroups, Members
<1>5. r \in Explicit(g)
  BY DEF IsExact, Explicit
<1>6. Rewritable(g, v)
  BY <1>2, <1>4, <1>5 DEF PinsAreSealable, Refused
<1>. QED
  BY <1>3, <1>4, <1>6 DEF PinRewrites, Rewritable

\* The targets' manifests show one version, from which the plan's is made.
LEMMA OneVersion ==
  ASSUME PlanInd
  PROVE  VersionIsTheManifests
<1>. SUFFICES ASSUME Running, NEW i \in DOMAIN ThePlan.targets,
                     ThePlan.targets[i].ecosystem \in ManifestVersioned
              PROVE  VersionOf(source.facts, ThePlan.targets[i]) =
                       IF ThePlan.bump = Null THEN ThePlan.version ELSE ThePlan.bump.from
  BY DEF VersionIsTheManifests
<1>. DEFINE v == ReleaseVersion(CurrentContract, source.facts)
            ts == ResolvedTargets(CurrentContract, source.facts)
            versions == DeclaredVersions(CurrentContract, source.facts, ts)
<1>1. PICK flag : Sealed(executed.plan, CurrentContract, source.facts, source.head, flag)
  BY DEF PlanInd, ExecutedIsSealed, Running
<1>2. v = IF ThePlan.bump = Null THEN ThePlan.version ELSE ThePlan.bump.from
  <2>1. CASE flag = Null
    BY <1>1, <2>1, SealedWasBuilt DEF ThePlan
  <2>2. CASE flag # Null
    <3>1. ThePlan.bump # Null /\ ThePlan.bump = BumpPlan(CurrentContract, source.facts, source.head, flag, v)
      BY <1>1, <2>2, SealedWasBuilt DEF ThePlan
    <3>. QED
      BY <3>1 DEF BumpPlan
  <2>. QED
    BY <2>1, <2>2
<1>3. v # Null
  BY <1>1, Derived DEF Sealed
<1>4. \E w \in versions : versions = {w} /\ v = w
  <2>. HIDE DEF versions
  <2>1. v = IF \E w \in versions : versions = {w} THEN CHOOSE w \in versions : TRUE ELSE Null
    BY DEF ReleaseVersion, versions
  <2>. HIDE DEF v
  <2>. QED
    BY <1>3, <2>1
<1>5. ThePlan.targets = ts /\ ts[i].package # Null
  BY RunningPlan
<1>6. CurrentContract.targets # <<>>
  <2>. SUFFICES ASSUME CurrentContract.targets = <<>> PROVE FALSE
    OBVIOUS
  <2>. DEFINE base == BaseTargets(CurrentContract, source.facts)
  <2>1. base = <<>>
    BY DEF BaseTargets
  <2>2. ts = base
    <3>1. base \in Seq({}) /\ Own(base) = {}
      BY <2>1 DEF Own, ToSet
    <3>2. source.facts.workspace # Null => IsWorkspace(source.facts.workspace.members)
      BY RunningPlan, WhatReads
    <3>3. \A out, order : ~Spliced(out, base, order)
      BY <3>1 DEF Spliced
    <3>. HIDE DEF base
    <3>4. ExpandMembers(base, source.facts) = base
      BY <3>1, <3>2, <3>3, ExpandedTargets
    <3>. QED
      BY <3>4 DEF ResolvedTargets, base
  <2>. QED
    BY <1>5, <2>1, <2>2
<1>7. VersionOf(source.facts, ts[i]) \in versions
  BY <1>5, <1>6 DEF DeclaredVersions
<1>. QED
  BY <1>2, <1>4, <1>5, <1>7

\* Two targets of a plan have one id only if they are one target, or if one has
\* no package, which no cut executes.
LEMMA IdsOfTargets ==
  ASSUME NEW n \in Nat, NEW targets, targets = [i \in 1..n |-> targets[i]],
         \A i \in 1..n : IsTarget(targets[i]),
         NEW i \in 1..n, NEW j \in 1..n, JournalTargetIds(targets)[i] = JournalTargetIds(targets)[j],
         targets[i].package # Null, targets[j].package # Null
  PROVE  targets[i] = targets[j]
<1>. SUFFICES ASSUME i # j PROVE targets[i] = targets[j]
  OBVIOUS
<1>. DEFINE Group(k) == {l \in DOMAIN targets : targets[l].ecosystem = targets[k].ecosystem}
            level == MinimalLevel(targets, Group(i))
            distinct == {l \in 1 .. MaxLevel :
                           \A k, m \in Group(i) : k # m =>
                             Discriminator(targets[k], l) # Discriminator(targets[m], l)}
<1>1. DOMAIN targets = 1..n
  OBVIOUS
<1>2. \A k \in 1..n : JournalTargetIds(targets)[k] =
        <<targets[k].ecosystem,
          IF Group(k) = {k} THEN <<>> ELSE Discriminator(targets[k], MinimalLevel(targets, Group(k)))>>
  BY <1>1 DEF JournalTargetIds
<1>3. targets[i].ecosystem = targets[j].ecosystem
  <2>. DEFINE second(k) == IF Group(k) = {k} THEN <<>>
                           ELSE Discriminator(targets[k], MinimalLevel(targets, Group(k)))
  <2>1. /\ JournalTargetIds(targets)[i] = <<targets[i].ecosystem, second(i)>>
        /\ JournalTargetIds(targets)[j] = <<targets[j].ecosystem, second(j)>>
    BY <1>2
  <2>. HIDE DEF second
  <2>. QED
    BY <2>1
<1>4. Group(i) = Group(j) /\ i \in Group(i) /\ j \in Group(i)
  BY <1>1, <1>3
<1>5. Group(i) # {i} /\ Group(j) # {j}
  BY <1>4
<1>6. Discriminator(targets[i], level) = Discriminator(targets[j], level)
  <2>. DEFINE di == Discriminator(targets[i], MinimalLevel(targets, Group(i)))
              dj == Discriminator(targets[j], MinimalLevel(targets, Group(j)))
  <2>1. /\ JournalTargetIds(targets)[i] = <<targets[i].ecosystem, di>>
        /\ JournalTargetIds(targets)[j] = <<targets[j].ecosystem, dj>>
    BY <1>2, <1>5
  <2>2. di = dj
    <3>. HIDE DEF di, dj
    <3>. QED
      BY <2>1
  <2>. QED
    BY <1>4, <2>2
<1>7. level \notin distinct
  BY <1>4, <1>6
<1>8. distinct = {}
  <2>1. level = IF distinct = {} THEN MaxLevel
                ELSE CHOOSE l \in distinct : \A k \in distinct : l <= k
    BY DEF MinimalLevel
  <2>2. distinct \in SUBSET Nat
    BY DEF MaxLevel
  <2>. HIDE DEF distinct, level
  <2>3. distinct # {} => \E l \in distinct : \A k \in distinct : l <= k
    BY <2>2, LeastMember
  <2>. QED
    BY <1>7, <2>1, <2>3
<1>9. level = MaxLevel
  BY <1>8 DEF MinimalLevel
<1>10. \A k \in 1..3 : Segments(targets[i])[k] = Segments(targets[j])[k]
  <2>1. \A t, k : k \in 1..3 => Discriminator(t, MaxLevel)[k] = Segments(t)[k]
    BY DEF Discriminator, MaxLevel
  <2>. QED
    BY <1>6, <1>9, <2>1
<1>11. /\ targets[i].package = targets[j].package
       /\ targets[i].registry = targets[j].registry
       /\ targets[i].adapter = targets[j].adapter
  <2>1. 1 \in 1..3 /\ 2 \in 1..3 /\ 3 \in 1..3
    OBVIOUS
  <2>2. /\ Segments(targets[i])[1] = Segments(targets[j])[1]
        /\ Segments(targets[i])[2] = Segments(targets[j])[2]
        /\ Segments(targets[i])[3] = Segments(targets[j])[3]
    BY <1>10, <2>1
  <2>3. \A t : t.package # Null => /\ Segments(t)[1] = t.package /\ Segments(t)[2] = t.registry
                                   /\ Segments(t)[3] = t.adapter
    BY DEF Segments, Or
  <2>. QED
    BY <2>2, <2>3
<1>. QED
  BY <1>3, <1>11 DEF IsTarget

\* So do those of every stored plan.
LEMMA StoredIds ==
  ASSUME PlanInd
  PROVE  TargetsHaveTheirIds
<1>. SUFFICES ASSUME NEW plan \in approved,
                     NEW i \in DOMAIN JournalTargetIds(plan.targets),
                     NEW j \in DOMAIN JournalTargetIds(plan.targets),
                     JournalTargetIds(plan.targets)[i] = JournalTargetIds(plan.targets)[j],
                     plan.targets[i].package # Null, plan.targets[j].package # Null
              PROVE  plan.targets[i] = plan.targets[j]
  BY DEF TargetsHaveTheirIds
<1>1. PICK c, facts, head, flag : Sealed(plan, c, facts, head, flag)
  BY DEF PlanInd, ApprovedAreSealed, WasSealed
<1>2. plan.targets = ResolvedTargets(c, facts) /\ Reads(c, facts)
  BY <1>1, SealedWasBuilt DEF Sealed
<1>3. /\ \E n \in Nat : plan.targets = [k \in 1..n |-> plan.targets[k]]
      /\ \A k \in DOMAIN plan.targets : IsTarget(plan.targets[k])
  BY <1>2, WhatReads, ResolvedAreTargets
<1>4. PICK n \in Nat : plan.targets = [k \in 1..n |-> plan.targets[k]]
  BY <1>3
<1>5. DOMAIN plan.targets = 1..n /\ DOMAIN JournalTargetIds(plan.targets) = 1..n
  <2>1. DOMAIN plan.targets = 1..n
    BY <1>4
  <2>. QED
    BY <2>1 DEF JournalTargetIds
<1>. QED
  BY <1>3, <1>4, <1>5, IdsOfTargets

-----------------------------------------------------------------------------
(* What the expansion does to the declared targets.                         *)

\* The plan's targets are the declared ones, all with packages, or have the own
\* ones replaced by what those need, in the workspace's order.
LEMMA RunningExpansion ==
  ASSUME PlanInd, Running
  PROVE  LET base == BaseTargets(CurrentContract, source.facts)
             out == ThePlan.targets
         IN /\ \A t \in ToSet(base) : IsTarget(t)
            /\ \/ out = base /\ (source.facts.workspace = Null \/ Own(base) = {})
               \/ /\ source.facts.workspace # Null
                  /\ IsWorkspace(Members)
                  /\ ToSet(base) \ Own(base) \subseteq ToSet(out)
                  /\ \E order :
                       /\ Spliced(out, base, order)
                       /\ \E S : order \in Seq(S)
                       /\ \A i \in DOMAIN order :
                            \E t \in Own(base) : order[i] \in ClosureOf({t.package}, Members)
                       /\ {t.package : t \in Own(base)} \subseteq ToSet(order)
                       /\ Ordered(order, Members)
<1>. DEFINE base == BaseTargets(CurrentContract, source.facts)
            out == ThePlan.targets
<1>1. base \in Seq(ToSet(base)) /\ \A t \in ToSet(base) : IsTarget(t)
  BY RunningPlan, WhatReads, DeclaredTargets DEF AreTargets
<1>2. source.facts.workspace # Null => IsWorkspace(source.facts.workspace.members)
  BY RunningPlan, WhatReads
<1>3. out = ExpandMembers(base, source.facts) /\ \A i \in DOMAIN out : out[i].package # Null
  BY RunningPlan DEF ResolvedTargets
<1>. HIDE DEF base, out
<1>4. CASE out = base /\ (source.facts.workspace = Null \/ Own(base) = {} \/ \E t \in Own(base) : t.package = Null)
  <2>1. \A t \in Own(base) : t.package # Null
    BY <1>3, <1>4 DEF Own, ToSet
  <2>. QED
    BY <1>1, <1>4, <2>1 DEF base, out
<1>5. CASE /\ source.facts.workspace # Null
           /\ \E R : \E roots \in Seq(R) :
                /\ ToSet(roots) = {t.package : t \in Own(base)}
                /\ Spliced(out, base, ClosureOrder(roots, source.facts.workspace.members))
           /\ ToSet(base) \ Own(base) \subseteq ToSet(out)
  <2>1. Members = source.facts.workspace.members /\ IsWorkspace(Members)
    BY <1>2, <1>5 DEF Members
  <2>2. PICK R : \E roots \in Seq(R) :
                /\ ToSet(roots) = {t.package : t \in Own(base)}
                /\ Spliced(out, base, ClosureOrder(roots, Members))
    BY <1>5, <2>1
  <2>3. PICK roots \in Seq(R) :
                /\ ToSet(roots) = {t.package : t \in Own(base)}
                /\ Spliced(out, base, ClosureOrder(roots, Members))
    BY <2>2
  <2>. DEFINE order == ClosureOrder(roots, Members)
  <2>4. /\ order \in Seq(ClosureOf(ToSet(roots), Members))
        /\ ToSet(roots) \subseteq ToSet(order)
        /\ Ordered(order, Members)
    BY <2>1, ClosureOrders
  <2>5. Spliced(out, base, order)
    BY <2>3
  <2>. HIDE DEF order
  <2>6. \A i \in DOMAIN order : order[i] \in ClosureOf(ToSet(roots), Members)
    BY <2>4
  <2>7. \A i \in DOMAIN order :
          \E t \in Own(base) : order[i] \in ClosureOf({t.package}, Members)
    <3>. SUFFICES ASSUME NEW i \in DOMAIN order
                  PROVE  \E t \in Own(base) : order[i] \in ClosureOf({t.package}, Members)
      OBVIOUS
    <3>1. PICK r \in ToSet(roots) : order[i] \in ClosureOf({r}, Members)
      BY <2>6, ClosureOfEach
    <3>. QED
      BY <2>3, <3>1
  <2>. QED
    BY <1>1, <1>5, <2>1, <2>3, <2>4, <2>5, <2>7 DEF base, out
<1>6. \/ out = base /\ (source.facts.workspace = Null \/ Own(base) = {} \/ \E t \in Own(base) : t.package = Null)
      \/ /\ source.facts.workspace # Null
         /\ \E R : \E roots \in Seq(R) :
              /\ ToSet(roots) = {t.package : t \in Own(base)}
              /\ Spliced(out, base, ClosureOrder(roots, source.facts.workspace.members))
         /\ ToSet(base) \ Own(base) \subseteq ToSet(out)
  <2>. DEFINE x == ExpandMembers(base, source.facts)
  <2>1. \/ x = base /\ (source.facts.workspace = Null \/ Own(base) = {} \/ \E t \in Own(base) : t.package = Null)
        \/ /\ source.facts.workspace # Null
           /\ \E R : \E roots \in Seq(R) :
                /\ ToSet(roots) = {t.package : t \in Own(base)}
                /\ Spliced(x, base, ClosureOrder(roots, source.facts.workspace.members))
           /\ ToSet(base) \ Own(base) \subseteq ToSet(x)
    BY <1>1, <1>2, ExpandedTargets
  <2>2. x = out
    BY <1>3
  <2>. HIDE DEF x
  <2>. QED
    BY <2>1, <2>2
<1>. QED
  BY <1>4, <1>5, <1>6

\* Nothing that is declared is dropped, and only what it needs is added.
LEMMA NothingElse ==
  ASSUME PlanInd
  PROVE  NothingBesidesTheDeclared
<1>. SUFFICES ASSUME Running PROVE NothingBesidesTheDeclared
  BY DEF NothingBesidesTheDeclared
<1>. DEFINE base == BaseTargets(CurrentContract, source.facts)
            out == ThePlan.targets
            roots == {t.package : t \in Own(base)}
            Needed(t) == \E r \in roots : EnginePublishes(t) /\ t.package \in ClosureOf({r}, Members)
<1>1. /\ \A t \in ToSet(base) : IsTarget(t)
      /\ \/ out = base /\ (source.facts.workspace = Null \/ Own(base) = {})
         \/ /\ ToSet(base) \ Own(base) \subseteq ToSet(out)
            /\ \E order :
                 /\ Spliced(out, base, order)
                 /\ \E S : order \in Seq(S)
                 /\ \A i \in DOMAIN order :
                      \E t \in Own(base) : order[i] \in ClosureOf({t.package}, Members)
                 /\ roots \subseteq ToSet(order)
  BY RunningExpansion
<1>2. \E n \in Nat : out = [i \in 1..n |-> out[i]]
  BY RunningPlan
<1>. HIDE DEF base, out, roots
<1>3. SUFFICES /\ ToSet(base) \subseteq ToSet(out)
               /\ \A t \in ToSet(out) \ ToSet(base) : Needed(t)
  BY DEF NothingBesidesTheDeclared, base, out, roots, Own
<1>4. CASE out = base
  BY <1>4
<1>5. CASE /\ ToSet(base) \ Own(base) \subseteq ToSet(out)
           /\ \E order :
                /\ Spliced(out, base, order)
                /\ \E S : order \in Seq(S)
                /\ \A i \in DOMAIN order :
                     \E t \in Own(base) : order[i] \in ClosureOf({t.package}, Members)
                /\ roots \subseteq ToSet(order)
  <2>1. PICK order :
                /\ Spliced(out, base, order)
                /\ \E S : order \in Seq(S)
                /\ \A i \in DOMAIN order :
                     \E t \in Own(base) : order[i] \in ClosureOf({t.package}, Members)
                /\ roots \subseteq ToSet(order)
    BY <1>5
  <2>. DEFINE m == Len(order)
  <2>2. m \in Nat /\ DOMAIN order = 1..m
    BY <2>1
  <2>3. PICK k \in Nat, e \in Own(base) :
          /\ k + m <= Len(out)
          /\ \A i \in 1..k : out[i] \in ToSet(base) \ Own(base)
          /\ \A i \in (k + 1)..(k + m) : out[i] = [e EXCEPT !.package = order[i - k]]
          /\ \A i \in (k + m + 1)..Len(out) : out[i] \in ToSet(base) \ Own(base)
    BY <2>1 DEF Spliced
  <2>4. Len(out) \in Nat /\ DOMAIN out = 1..Len(out)
    BY <1>2
  <2>. HIDE DEF m
  <2>5. IsTarget(e) /\ EnginePublishes(e)
    BY <1>1 DEF Own
  <2>6. \A t, p : IsTarget(t) /\ EnginePublishes(t) =>
          /\ EnginePublishes([t EXCEPT !.package = p]) /\ [t EXCEPT !.package = p].package = p
          /\ IsTarget([t EXCEPT !.package = p])
    BY DEF EnginePublishes, IsTarget
  <2>7. \A t, u : /\ IsTarget(t) /\ EnginePublishes(t) /\ IsTarget(u) /\ EnginePublishes(u)
                  /\ t.package = u.package
                  => t = u
    BY DEF EnginePublishes, IsTarget
  <2>8. ToSet(base) \subseteq ToSet(out)
    <3>. SUFFICES ASSUME NEW t \in Own(base) PROVE t \in ToSet(out)
      BY <1>5
    <3>1. PICK i \in 1..m : order[i] = t.package
      <4>1. t.package \in roots
        BY DEF roots
      <4>. QED
        BY <2>1, <2>2, <4>1 DEF ToSet
    <3>2. k + i \in (k + 1)..(k + m) /\ (k + i) - k = i /\ k + i \in 1..Len(out)
      BY <2>2, <2>3, <2>4
    <3>3. out[k + i] = [e EXCEPT !.package = t.package]
      BY <2>3, <3>1, <3>2
    <3>4. IsTarget(t) /\ EnginePublishes(t)
      BY <1>1 DEF Own
    <3>5. out[k + i] = t
      BY <2>5, <2>6, <2>7, <3>3, <3>4
    <3>. QED
      BY <2>4, <3>2, <3>5 DEF ToSet
  <2>9. ASSUME NEW t \in ToSet(out) \ ToSet(base)
        PROVE  Needed(t)
    <3>1. PICK i \in 1..Len(out) : out[i] = t
      BY <2>4 DEF ToSet
    <3>2. i \in (k + 1)..(k + m)
      BY <2>2, <2>3, <2>4, <3>1
    <3>3. t = [e EXCEPT !.package = order[i - k]] /\ i - k \in 1..m
      <4>1. out[i] = [e EXCEPT !.package = order[i - k]]
        BY <2>3, <3>2
      <4>2. i - k \in 1..m
        BY <2>2, <3>2
      <4>. QED
        BY <3>1, <4>1, <4>2
    <3>4. EnginePublishes(t) /\ t.package = order[i - k]
      BY <2>5, <2>6, <3>3
    <3>5. PICK r \in Own(base) : order[i - k] \in ClosureOf({r.package}, Members)
      BY <2>1, <2>2, <3>3
    <3>. QED
      BY <3>4, <3>5 DEF roots
  <2>. QED
    BY <2>8, <2>9
<1>. QED
  BY <1>1, <1>4, <1>5

\* The plan a cut runs releases what was declared, under the version of the
\* manifests, with distinct ids, and waiting for nobody.
THEOREM PlanInvHolds == PlanSpec => []PlanInv
<1>1. PlanInd => PlanInv
  BY PlanTyped, NothingElse, NobodyWaits, StoredIds, OneVersion, PinsMove DEF PlanInv
<1>. QED
  BY <1>1, PlanInvariance, PTL

-----------------------------------------------------------------------------
(* The order of publishing.                                                 *)

\* A crate is published after the workspace crates it depends on, all of which
\* are published too, unless it needs two crates that need each other.
THEOREM DependenciesComeFirstHolds == PlanSpec => []DependenciesComeFirst
<1>1. ASSUME PlanInd PROVE DependenciesComeFirst
  <2>. SUFFICES ASSUME Running, NEW x \in EngineTargets,
                       NEW d \in DepsOf(Members, ThePlan.targets[x].package) \cap PackageNames(Members),
                       d # ThePlan.targets[x].package, ~NeedsCircle(ThePlan.targets[x].package)
                PROVE  \E y \in EngineTargets : y < x /\ ThePlan.targets[y].package = d
    BY DEF DependenciesComeFirst
  <2>. DEFINE base == BaseTargets(CurrentContract, source.facts)
              out == ThePlan.targets
  <2>1. source.facts.workspace # Null
    <3>. SUFFICES ASSUME source.facts.workspace = Null PROVE FALSE
      OBVIOUS
    <3>. QED
      BY NoMembers DEF Members
  <2>2. x \in DOMAIN out /\ EnginePublishes(out[x])
    BY DEF EngineTargets
  <2>3. ~ (out = base /\ Own(base) = {})
    BY <2>2 DEF Own, ToSet
  <2>4. PICK order :
          /\ \A t \in ToSet(base) : IsTarget(t)
          /\ IsWorkspace(Members)
          /\ Spliced(out, base, order)
          /\ \E S : order \in Seq(S)
          /\ Ordered(order, Members)
    BY <1>1, <2>1, <2>3, RunningExpansion
  <2>5. \E n \in Nat : out = [i \in 1..n |-> out[i]]
    BY <1>1, RunningPlan
  <2>. DEFINE m == Len(order)
  <2>6. m \in Nat /\ DOMAIN order = 1..m /\ Len(out) \in Nat /\ DOMAIN out = 1..Len(out)
    BY <2>4, <2>5
  <2>7. PICK k \in Nat, e \in Own(base) :
          /\ k + m <= Len(out)
          /\ \A i \in 1..k : out[i] \in ToSet(base) \ Own(base)
          /\ \A i \in (k + 1)..(k + m) : out[i] = [e EXCEPT !.package = order[i - k]]
          /\ \A i \in (k + m + 1)..Len(out) : out[i] \in ToSet(base) \ Own(base)
    BY <2>4 DEF Spliced
  <2>. HIDE DEF m, base
  <2>8. \A p : EnginePublishes([e EXCEPT !.package = p]) /\ [e EXCEPT !.package = p].package = p
    BY <2>4 DEF EnginePublishes, IsTarget, Own
  <2>9. x \in (k + 1)..(k + m)
    BY <2>2, <2>6, <2>7 DEF Own
  <2>10. x - k \in 1..m /\ out[x].package = order[x - k]
    <3>1. out[x] = [e EXCEPT !.package = order[x - k]]
      BY <2>7, <2>9
    <3>2. x - k \in 1..m
      BY <2>6, <2>9
    <3>. QED
      BY <2>8, <3>1, <3>2
  <2>11. \/ Endless(order[x - k], Members)
         \/ \E j \in 1..m : j < x - k /\ order[j] = d
    BY <2>4, <2>6, <2>10 DEF Ordered
  <2>12. ~ Endless(order[x - k], Members)
    BY <2>4, <2>10, EndlessNeedsCircle DEF Endless, NeedsCircle
  <2>13. PICK j \in 1..m : j < x - k /\ order[j] = d
    BY <2>11, <2>12
  <2>14. k + j \in (k + 1)..(k + m) /\ (k + j) - k = j /\ k + j < x /\ k + j \in 1..Len(out)
    BY <2>6, <2>7, <2>9, <2>13
  <2>15. out[k + j].package = d /\ EnginePublishes(out[k + j])
    <3>1. out[k + j] = [e EXCEPT !.package = order[(k + j) - k]]
      BY <2>7, <2>14
    <3>2. out[k + j] = [e EXCEPT !.package = d]
      BY <2>13, <2>14, <3>1
    <3>. QED
      BY <2>8, <3>2
  <2>. QED
    BY <2>6, <2>14, <2>15 DEF EngineTargets
<1>. QED
  BY <1>1, PlanInvariance, PTL

-----------------------------------------------------------------------------
(* The contract: how a frontmatter is read.                                 *)

\* What is kept depends only on which of the elements are asked for.
LEMMA KeepAgree ==
  ASSUME NEW T, NEW list \in Seq(T), NEW S, NEW R, \A e \in ToSet(list) : e \in S <=> e \in R
  PROVE  Keep(list, S) = Keep(list, R)
<1>. DEFINE n == Len(list)
<1>1. n \in Nat /\ \A k \in 1..n : list[k] \in S <=> list[k] \in R
  BY DEF ToSet
<1>2. PICK f : Keeping(f, list, S) /\ Keep(list, S) = f[Len(list)]
  BY KeepIsKept
<1>3. PICK g : Keeping(g, list, R) /\ Keep(list, R) = g[Len(list)]
  BY KeepIsKept
<1>. HIDE DEF n
<1>4. \A k \in 0..n : f[k] = IF k = 0 THEN <<>>
                            ELSE IF list[k] \in S THEN Append(f[k - 1], list[k]) ELSE f[k - 1]
  BY <1>2 DEF Keeping, n
<1>5. \A k \in 0..n : g[k] = IF k = 0 THEN <<>>
                            ELSE IF list[k] \in R THEN Append(g[k - 1], list[k]) ELSE g[k - 1]
  BY <1>3 DEF Keeping, n
<1>. DEFINE Bad == {k \in 0..n : f[k] # g[k]}
<1>6. Bad = {}
  <2>1. SUFFICES ASSUME Bad # {} PROVE FALSE
    OBVIOUS
  <2>2. Bad \in SUBSET Nat
    BY <1>1
  <2>3. PICK k \in Bad : \A j \in Bad : k <= j
    BY <2>1, <2>2, LeastMember
  <2>4. k # 0
    BY <1>4, <1>5, <2>3
  <2>5. k - 1 \in 0..n /\ k - 1 \notin Bad /\ k \in 1..n
    BY <1>1, <2>3, <2>4
  <2>6. f[k - 1] = g[k - 1]
    BY <2>5
  <2>. QED
    BY <1>1, <1>4, <1>5, <2>3, <2>4, <2>5, <2>6
<1>7. f[n] = g[n]
  <2>1. n \in 0..n
    BY <1>1
  <2>. QED
    BY <1>6, <2>1
<1>. QED
  BY <1>2, <1>3, <1>7 DEF n

\* A list keeps all of its elements.
LEMMA KeepAll ==
  ASSUME NEW T, NEW list \in Seq(T), NEW S, ToSet(list) \subseteq S
  PROVE  Keep(list, S) = list
<1>. DEFINE n == Len(list)
<1>1. n \in Nat /\ DOMAIN list = 1..n /\ \A k \in 1..n : list[k] \in T /\ list[k] \in S
  BY DEF ToSet
<1>2. PICK f : Keeping(f, list, S) /\ Keep(list, S) = f[Len(list)]
  BY KeepIsKept
<1>. HIDE DEF n
<1>3. \A k \in 0..n : f[k] = IF k = 0 THEN <<>>
                            ELSE IF list[k] \in S THEN Append(f[k - 1], list[k]) ELSE f[k - 1]
  BY <1>2 DEF Keeping, n
<1>. DEFINE Good(k) == f[k] \in Seq(T) /\ Len(f[k]) = k /\ \A i \in 1..k : f[k][i] = list[i]
            Bad == {k \in 0..n : ~ Good(k)}
<1>4. Bad = {}
  <2>1. SUFFICES ASSUME Bad # {} PROVE FALSE
    OBVIOUS
  <2>2. Bad \in SUBSET Nat
    BY <1>1
  <2>3. PICK k \in Bad : \A j \in Bad : k <= j
    BY <2>1, <2>2, LeastMember
  <2>4. k # 0
    <3>1. k \in 0..n /\ ~ Good(k)
      BY <2>3
    <3>2. ASSUME k = 0 PROVE Good(k)
      <4>1. f[k] = <<>>
        BY <1>3, <3>1, <3>2
      <4>2. <<>> \in Seq(T) /\ Len(<<>>) = 0 /\ 1..k = {}
        BY <3>2
      <4>. QED
        BY <3>2, <4>1, <4>2
    <3>. HIDE DEF Good
    <3>. QED
      BY <3>1, <3>2
  <2>5. k - 1 \in 0..n /\ k \in 1..n
    BY <1>1, <2>3, <2>4
  <2>6. Good(k - 1)
    <3>1. k \in Nat
      BY <1>1, <2>3
    <3>2. k - 1 \notin Bad
      <4>. HIDE DEF Bad
      <4>. QED
        BY <2>3, <3>1
    <3>. HIDE DEF Good
    <3>. QED
      BY <2>5, <3>2
  <2>7. f[k] = Append(f[k - 1], list[k]) /\ list[k] \in T
    BY <1>1, <1>3, <2>3, <2>4, <2>5
  <2>8. Good(k)
    BY <2>5, <2>6, <2>7
  <2>. QED
    BY <2>3, <2>8
<1>5. Good(n)
  <2>1. n \in 0..n /\ n \notin Bad
    <3>. HIDE DEF Bad
    <3>. QED
      BY <1>1, <1>4
  <2>. HIDE DEF Good
  <2>. QED
    BY <2>1
<1>6. f[n] = list
  BY <1>1, <1>5 DEF n
<1>. QED
  BY <1>2, <1>6 DEF n

\* What is in the canonical order already stays as it is.
LEMMA CanonicallyTwice ==
  ASSUME NEW T, NEW order \in Seq(T), NEW list
  PROVE  Canonically(order, Canonically(order, list)) = Canonically(order, list)
<1>1. ToSet(Keep(order, ToSet(list))) = ToSet(order) \cap ToSet(list)
  BY KeepType
<1>2. Keep(order, ToSet(Keep(order, ToSet(list)))) = Keep(order, ToSet(list))
  BY <1>1, KeepAgree
<1>. QED
  BY <1>2 DEF Canonically

\* The fixed orders are lists of what they order.
LEMMA Orders ==
  /\ EcosystemOrder \in Seq(Ecosystems) /\ InstallerOrder \in Seq(ToSet(InstallerOrder))
  /\ DefaultPlatforms \in Seq(Triples) /\ DefaultPlatforms # <<>>
<1>1. EcosystemOrder \in Seq(Ecosystems)
  BY DEF EcosystemOrder, Ecosystems, ToSet
<1>2. InstallerOrder \in Seq(ToSet(InstallerOrder))
  BY DEF InstallerOrder, ToSet
<1>3. DefaultPlatforms \in Seq(Triples) /\ DefaultPlatforms # <<>>
  BY DEF DefaultPlatforms, Triples
<1>. QED
  BY <1>1, <1>2, <1>3

\* What is chosen from an enum is in it, and what is in it is chosen.
LEMMA EnumChosen ==
  ASSUME NEW m, NEW key, NEW valid, NEW default
  PROVE  /\ default \in valid => EnumField(m, key, valid, default) \in valid
         /\ Declares(m, key) /\ m[key] \in valid =>
              EnumField(m, key, valid, default) = m[key] /\ EnumProblem(m, key, valid) = {}
         /\ EnumProblem(m, key, valid) = {} =>
              EnumField(m, key, valid, default) = IF Declares(m, key) THEN m[key] ELSE default
BY DEF EnumField, EnumProblem, Problem

\* Every contract has an ecosystem list of the fixed order.
LEMMA EcosystemsOrdered ==
  ASSUME NEW list
  PROVE  /\ Canonically(EcosystemOrder, list) \in Seq(Ecosystems)
         /\ ToSet(Canonically(EcosystemOrder, list)) \subseteq Ecosystems
<1>1. Keep(EcosystemOrder, ToSet(list)) \in Seq(Ecosystems)
      /\ ToSet(Keep(EcosystemOrder, ToSet(list))) = ToSet(EcosystemOrder) \cap ToSet(list)
  BY Orders, KeepType
<1>. QED
  BY <1>1 DEF Canonically, Ecosystems

\* The defaults of an ecosystem write no formula, and leave nothing to CI.
LEMMA DefaultsOf ==
  ASSUME NEW e \in Ecosystems, NEW layout
  PROVE  /\ DefaultRegistry[e] \in Registries /\ DefaultRegistry[e] # "homebrew"
         /\ DefaultAdapter(e, layout) \in Adapters /\ DefaultAdapter(e, layout) # "cargo-publish-ci"
<1>1. e \in {"rust", "node", "python", "go", "binary"}
  BY DEF Ecosystems, EcosystemOrder, ToSet
<1>. QED
  BY <1>1 DEF DefaultRegistry, DefaultAdapter, Registries, Adapters

EcosystemsOf(m) == Canonically(EcosystemOrder, AsList(m, "ecosystems"))
MaturityOf(m) == EnumField(m, "maturity", Maturities, "mvp")
TargetsOf(m) == Targets(m, EcosystemsOf(m), ReleaseBlock(m).layout)

\* The contract that is built of m, dial by dial.
LEMMA BuiltParts ==
  ASSUME NEW m
  PROVE  /\ Built(m).maturity = MaturityOf(m) /\ Built(m).ecosystems = EcosystemsOf(m)
         /\ Built(m).targets = TargetsOf(m) /\ Built(m).distributions = Distributions(m)
         /\ Built(m).changelog = Changelog(m) /\ Built(m).release = ReleaseBlock(m)
         /\ Built(m).extra_fields = ExtraFields(m, KnownKeys)
BY DEF Built, MaturityOf, EcosystemsOf, TargetsOf

\* Each dial takes the value it is given, or its default.
LEMMA BuiltDials ==
  ASSUME NEW m
  PROVE  /\ Built(m).status = EnumField(m, "status", {"draft", "approved"}, "draft")
         /\ Built(m).conventional_commits = EnumField(m, "conventional_commits", BOOLEAN, FALSE)
         /\ Built(m).contribution_provenance =
              EnumField(m, "contribution_provenance", {"dco", "cla", "none"}, "none")
         /\ Built(m).provenance_level =
              EnumField(m, "provenance_level", {"none", "keyless", "slsa-l3"}, "none")
         /\ Built(m).docs_site = EnumField(m, "docs_site", DocsSites, "none")
BY DEF Built

\* The dials whose defaults hang on others.
LEMMA BuiltRest ==
  ASSUME NEW m
  PROVE  /\ Built(m).dependency_bot =
              EnumField(m, "dependency_bot", {"dependabot", "renovate", "none"},
                        IF MaturityOf(m) = "spike" THEN "none" ELSE "dependabot")
         /\ Built(m).health_badges = HealthBadges(m, MaturityOf(m), TargetsOf(m))
         /\ Built(m).license = License(m) /\ Built(m).schema_version = KnownSchemaVersion
         /\ Built(m).versioning = Versioning(m).versioning
         /\ Built(m).versioning_pattern = Versioning(m).versioning_pattern
BY DEF Built, MaturityOf, EcosystemsOf, TargetsOf

\* A contract is all of its fields.
AllFields(c) ==
  [schema_version |-> KnownSchemaVersion, status |-> c.status, maturity |-> c.maturity,
   ecosystems |-> c.ecosystems, targets |-> c.targets, distributions |-> c.distributions,
   changelog |-> c.changelog, conventional_commits |-> c.conventional_commits, release |-> c.release,
   contribution_provenance |-> c.contribution_provenance, provenance_level |-> c.provenance_level,
   dependency_bot |-> c.dependency_bot, health_badges |-> c.health_badges, license |-> c.license,
   docs_site |-> c.docs_site, extra_fields |-> c.extra_fields, versioning |-> c.versioning,
   versioning_pattern |-> c.versioning_pattern]

\* All its fields but the extra ones.
Alike(c, d) ==
  /\ d.status = c.status /\ d.maturity = c.maturity
  /\ d.ecosystems = c.ecosystems /\ d.targets = c.targets /\ d.distributions = c.distributions
  /\ d.changelog = c.changelog /\ d.conventional_commits = c.conventional_commits
  /\ d.release = c.release /\ d.contribution_provenance = c.contribution_provenance
  /\ d.provenance_level = c.provenance_level /\ d.dependency_bot = c.dependency_bot
  /\ d.health_badges = c.health_badges /\ d.license = c.license /\ d.docs_site = c.docs_site
  /\ d.versioning = c.versioning /\ d.versioning_pattern = c.versioning_pattern

\* What is built has these fields and no other.
LEMMA BuiltOf ==
  ASSUME NEW m
  PROVE  Built(m) = AllFields(Built(m))
BY DEF Built, AllFields

\* Contracts alike in everything else are told apart by their extra fields.
LEMMA BuiltAlike ==
  ASSUME NEW m, NEW n, Alike(Built(m), Built(n))
  PROVE  Built(n) = [Built(m) EXCEPT !.extra_fields = Built(n).extra_fields]
<1>. DEFINE c == Built(m)
            d == Built(n)
<1>1. c = AllFields(c) /\ d = AllFields(d)
  BY BuiltOf
<1>. HIDE DEF c, d
<1>2. AllFields(d) = [AllFields(c) EXCEPT !.extra_fields = d.extra_fields]
  BY DEF AllFields, Alike, c, d
<1>. QED
  BY <1>1, <1>2 DEF c, d

\* What is without problems is without each of them.
LEMMA ProblemParts ==
  ASSUME NEW m, NEW repo
  PROVE  Problems(m, repo) = {} <=>
           /\ FieldProblems(m) = {} /\ ReleaseFloors(Built(m)) = {} /\ BadgeProblems(Built(m)) = {}
           /\ HomebrewProblems(Built(m)) = {} /\ PublisherProblems(Built(m)) = {}
           /\ EvidenceProblems(Built(m), repo) = {} /\ DistWorkspaceProblems(Built(m), repo) = {}
BY DEF Problems

\* A frontmatter without problems is without each problem of its fields.
LEMMA FieldParts ==
  ASSUME NEW m
  PROVE  FieldProblems(m) = {} <=>
           /\ SchemaProblems(m) = {} /\ EnumProblem(m, "status", {"draft", "approved"}) = {}
           /\ Declares(m, "maturity") /\ EnumProblem(m, "maturity", Maturities) = {}
           /\ ListProblem(m, "ecosystems", Ecosystems) = {}
           /\ TargetProblems(m, Built(m).ecosystems, Built(m).release.layout) = {}
           /\ DistributionsProblems(m) = {} /\ VersioningProblems(m) = {} /\ ChangelogProblems(m) = {}
           /\ ReleaseProblems(m) = {} /\ EnumProblem(m, "conventional_commits", BOOLEAN) = {}
           /\ EnumProblem(m, "contribution_provenance", {"dco", "cla", "none"}) = {}
           /\ EnumProblem(m, "provenance_level", {"none", "keyless", "slsa-l3"}) = {}
           /\ EnumProblem(m, "dependency_bot", {"dependabot", "renovate", "none"}) = {}
           /\ EnumProblem(m, "docs_site", DocsSites) = {} /\ ListProblem(m, "health_badges", Badges) = {}
           /\ Built(m).license # Malformed /\ ExtraProblems(m, KnownKeys) = {}
BY DEF FieldProblems, Problem

-----------------------------------------------------------------------------
(* What is normalized.                                                      *)

TheFrontmatter == IF document = Malformed THEN EmptyMap ELSE document

\* What was normalized is the frontmatter that was written, in some repository.
ContractInd ==
  /\ document # Null => document \in Documents
  /\ normalized # Null =>
       /\ document # Null
       /\ \E repo \in Repositories :
            LET read == NormalizedStr(document, repo)
            IN normalized = [contract |-> read.contract, problems |-> read.problems, repository |-> repo]

\* The invariant holds from the start, and neither step disturbs it.
THEOREM ContractInvariance == ContractSpec => []ContractInd
<1>1. ContractInit => ContractInd
  BY DEF ContractInit, ContractInd
<1>2. ASSUME ContractInd, [ContractNext]_contractVars
      PROVE  ContractInd'
  <2>1. CASE WriteDocument
    BY <1>2, <2>1 DEF WriteDocument, ContractInd
  <2>2. CASE Normalize
    BY <1>2, <2>2 DEF Normalize, ContractInd
  <2>3. CASE UNCHANGED contractVars
    BY <1>2, <2>3 DEF contractVars, ContractInd
  <2>. QED
    BY <1>2, <2>1, <2>2, <2>3 DEF ContractNext
<1>. QED
  BY <1>1, <1>2, PTL DEF ContractSpec

\* What the invariant says of what has been normalized.
LEMMA Normal ==
  ASSUME ContractInd, normalized # Null
  PROVE  /\ TheContract = Built(TheFrontmatter) /\ TheRepository \in Repository
         /\ IsFrontmatter(TheFrontmatter) /\ IsStructured(TheContract)
         /\ Accepted <=> document # Malformed /\ Problems(document, TheRepository) = {}
<1>1. PICK repo \in Repositories :
        LET read == NormalizedStr(document, repo)
        IN normalized = [contract |-> read.contract, problems |-> read.problems, repository |-> repo]
  BY DEF ContractInd
<1>2. document \in Documents
  BY DEF ContractInd
<1>3. TheContract = NormalizedStr(document, repo).contract /\ TheRepository = repo
      /\ normalized.problems = NormalizedStr(document, repo).problems
  BY <1>1 DEF TheContract, TheRepository
<1>4. NormalizedStr(document, repo).contract = Built(TheFrontmatter)
      /\ (document = Malformed => NormalizedStr(document, repo).problems # {})
      /\ (document # Malformed => NormalizedStr(document, repo).problems = Problems(document, repo))
  BY DEF NormalizedStr, TheFrontmatter
<1>5. TheFrontmatter \in {EmptyMap} \cup (Documents \ {Malformed})
  BY <1>2 DEF TheFrontmatter
<1>6. IsFrontmatter(TheFrontmatter) /\ IsStructured(Built(TheFrontmatter)) /\ repo \in Repository
  BY <1>5, ContractAssumption
<1>7. Accepted <=> document # Malformed /\ Problems(document, TheRepository) = {}
  BY <1>3, <1>4 DEF Accepted
<1>. QED
  BY <1>3, <1>4, <1>6, <1>7

TargetType ==
  [ecosystem : Ecosystems, package : {Null} \cup STRING, registry : Registries, adapter : Adapters]

\* The entries of a list that are mappings.
LEMMA MappingsOf ==
  ASSUME NEW T, NEW list \in Seq(T)
  PROVE  /\ MappingEntries(list) \in Seq(T)
         /\ ToSet(MappingEntries(list)) = ToSet(list) \ {Malformed}
         /\ \A i \in DOMAIN MappingEntries(list) : MappingEntries(list)[i] \in ToSet(list) \ {Malformed}
         /\ Malformed \notin ToSet(list) => MappingEntries(list) = list
<1>1. MappingEntries(list) \in Seq(T) /\ ToSet(MappingEntries(list)) = ToSet(list) \cap (ToSet(list) \ {Malformed})
  BY KeepType DEF MappingEntries
<1>2. Malformed \notin ToSet(list) => MappingEntries(list) = list
  <2>1. Malformed \notin ToSet(list) => ToSet(list) \subseteq ToSet(list) \ {Malformed}
    OBVIOUS
  <2>. QED
    BY <2>1, KeepAll DEF MappingEntries
<1>. HIDE DEF MappingEntries
<1>3. \A i \in DOMAIN MappingEntries(list) : MappingEntries(list)[i] \in ToSet(MappingEntries(list))
  BY DEF ToSet
<1>. QED
  BY <1>1, <1>2, <1>3

\* A frontmatter's lists are lists.
LEMMA ListsOf ==
  ASSUME NEW m, IsFrontmatter(m)
  PROVE  /\ TargetEntries(m) \in Seq(ToSet(TargetEntries(m)))
         /\ DistributionEntries(m) \in Seq(ToSet(DistributionEntries(m)))
         /\ AsList(m, "health_badges") \in Seq(ToSet(AsList(m, "health_badges")))
<1>1. \A x : <<x>> \in Seq(ToSet(<<x>>))
  BY DEF ToSet
<1>2. <<>> \in Seq(ToSet(<<>>))
  OBVIOUS
<1>3. TargetEntries(m) \in Seq(ToSet(TargetEntries(m)))
  BY <1>2 DEF IsFrontmatter, TargetEntries, Holds
<1>4. \A key \in {"distributions", "health_badges"} : AsList(m, key) \in Seq(ToSet(AsList(m, key)))
  <2>. TAKE key \in {"distributions", "health_badges"}
  <2>1. CASE ~Present(m, key)
    BY <1>2, <2>1 DEF AsList
  <2>2. CASE Present(m, key) /\ m[key] = Malformed
    BY <1>1, <2>2 DEF AsList
  <2>3. CASE Present(m, key) /\ m[key] # Malformed
    <3>1. AsList(m, key) = m[key]
      BY <2>3 DEF AsList
    <3>. QED
      BY <2>3, <3>1 DEF IsFrontmatter, Holds
  <2>. QED
    BY <2>1, <2>2, <2>3
<1>5. DistributionEntries(m) \in Seq(ToSet(DistributionEntries(m)))
  <2>1. CASE Present(m, "distributions")
    BY <1>4, <2>1 DEF DistributionEntries
  <2>2. CASE ~Present(m, "distributions") /\ Present(m, "distribution")
    BY <1>1, <2>2 DEF DistributionEntries
  <2>3. CASE ~Present(m, "distributions") /\ ~Present(m, "distribution")
    BY <1>2, <2>3 DEF DistributionEntries
  <2>. QED
    BY <2>1, <2>2, <2>3
<1>. QED
  BY <1>3, <1>4, <1>5

MadeUp(e, layout) ==
  [ecosystem |-> e, package |-> Null, registry |-> DefaultRegistry[e], adapter |-> DefaultAdapter(e, layout)]

\* The targets of an omitted list, one for each ecosystem.
LEMMA MadeUpTargets ==
  ASSUME NEW es \in Seq(Ecosystems), NEW layout
  PROVE  /\ ExpandTargets(es, layout) \in Seq(TargetType) /\ DOMAIN ExpandTargets(es, layout) = DOMAIN es
         /\ \A i \in DOMAIN es :
              /\ ExpandTargets(es, layout)[i].registry # "homebrew"
              /\ ExpandTargets(es, layout)[i].adapter # "cargo-publish-ci"
              /\ ExpandTargets(es, layout)[i].ecosystem \in ToSet(es)
              /\ ExpandTargets(es, layout)[i] \in TargetType
<1>. DEFINE n == Len(es)
<1>1. n \in Nat /\ DOMAIN es = 1..n /\ \A i \in 1..n : es[i] \in Ecosystems /\ es[i] \in ToSet(es)
  BY DEF ToSet
<1>2. ExpandTargets(es, layout) = [i \in 1..n |-> MadeUp(es[i], layout)]
  BY <1>1 DEF ExpandTargets, MadeUp
<1>3. \A i \in 1..n : /\ MadeUp(es[i], layout) \in TargetType
                      /\ MadeUp(es[i], layout).registry # "homebrew"
                      /\ MadeUp(es[i], layout).adapter # "cargo-publish-ci"
                      /\ MadeUp(es[i], layout).ecosystem \in ToSet(es)
  BY <1>1, DefaultsOf DEF TargetType, MadeUp
<1>4. ExpandTargets(es, layout) \in Seq(TargetType)
  BY <1>1, <1>2, <1>3
<1>5. DOMAIN ExpandTargets(es, layout) = DOMAIN es
  BY <1>1, <1>2
<1>6. \A i \in DOMAIN es :
        /\ ExpandTargets(es, layout)[i].registry # "homebrew"
        /\ ExpandTargets(es, layout)[i].adapter # "cargo-publish-ci"
        /\ ExpandTargets(es, layout)[i].ecosystem \in ToSet(es)
        /\ ExpandTargets(es, layout)[i] \in TargetType
  BY <1>1, <1>2, <1>3
<1>. QED
  BY <1>4, <1>5, <1>6

\* An entry of any shape reads as a target, with placeholders where it must.
LEMMA ParsedTyped ==
  ASSUME NEW entry, Holds(entry, "package") => entry.package \in STRING, NEW layout
  PROVE  /\ ParsedTarget(entry, layout).ecosystem \in Ecosystems \cup {Null}
         /\ ParsedTarget(entry, layout).package \in {Null} \cup STRING
         /\ ParsedTarget(entry, layout).registry \in Registries \cup {Null}
         /\ ParsedTarget(entry, layout).adapter \in Adapters \cup {Null}
         /\ WithPlaceholders(ParsedTarget(entry, layout)) \in TargetType
<1>. DEFINE ecosystem == EnumField(entry, "ecosystem", Ecosystems, Null)
            p == ParsedTarget(entry, layout)
<1>1. ecosystem \in Ecosystems \cup {Null}
  BY DEF EnumField
<1>2. EnumField(entry, "registry", Registries, Null) \in Registries \cup {Null}
      /\ EnumField(entry, "adapter", Adapters, Null) \in Adapters \cup {Null}
  BY DEF EnumField
<1>3. p = [ecosystem |-> ecosystem,
           package |-> IF Declares(entry, "package") /\ entry.package # Malformed THEN entry.package ELSE Null,
           registry |-> EnumField(entry, "registry", Registries, Null),
           adapter |-> IF Declares(entry, "adapter") THEN EnumField(entry, "adapter", Adapters, Null)
                       ELSE IF ecosystem = Null THEN Null ELSE DefaultAdapter(ecosystem, layout)]
  BY DEF ParsedTarget
<1>. HIDE DEF ecosystem, p
<1>4. p.ecosystem \in Ecosystems \cup {Null} /\ p.registry \in Registries \cup {Null}
  BY <1>1, <1>2, <1>3
<1>5. p.package \in {Null} \cup STRING
  BY <1>3 DEF Holds, Present, Declares
<1>6. p.adapter \in Adapters \cup {Null}
  BY <1>1, <1>2, <1>3, DefaultsOf
<1>7. "binary" \in Ecosystems /\ "gh-releases" \in Registries /\ "manual" \in Adapters
  BY DEF Ecosystems, EcosystemOrder, ToSet, Registries, Adapters
<1>8. WithPlaceholders(p) \in TargetType
  BY <1>4, <1>5, <1>6, <1>7 DEF WithPlaceholders, Or, TargetType
<1>. QED
  BY <1>4, <1>5, <1>6, <1>8 DEF p

\* The targets have their type, whether they are read or made up.
LEMMA TargetsTyped ==
  ASSUME NEW m, IsFrontmatter(m)
  PROVE  TargetsOf(m) \in Seq(TargetType) /\ EcosystemsOf(m) \in Seq(Ecosystems)
<1>1. EcosystemsOf(m) \in Seq(Ecosystems)
  BY EcosystemsOrdered DEF EcosystemsOf
<1>2. CASE ~Present(m, "targets")
  <2>1. TargetsOf(m) = ExpandTargets(EcosystemsOf(m), ReleaseBlock(m).layout)
    BY <1>2 DEF TargetsOf, Targets
  <2>2. ExpandTargets(EcosystemsOf(m), ReleaseBlock(m).layout) \in Seq(TargetType)
    BY <1>1, MadeUpTargets
  <2>. QED
    BY <1>1, <2>1, <2>2
<1>3. CASE Present(m, "targets")
  <2>. DEFINE entries == MappingEntries(TargetEntries(m))
              layout == ReleaseBlock(m).layout
              row(i) == WithPlaceholders(ParsedTarget(entries[i], layout))
              n == Len(entries)
  <2>1. entries \in Seq(ToSet(TargetEntries(m)))
        /\ \A i \in DOMAIN entries : entries[i] \in ToSet(TargetEntries(m)) \ {Malformed}
    BY ListsOf, MappingsOf
  <2>2. TargetsOf(m) = [i \in DOMAIN entries |-> row(i)]
    BY <1>3 DEF TargetsOf, Targets
  <2>. HIDE DEF entries, layout
  <2>3. n \in Nat /\ DOMAIN entries = 1..n
    BY <2>1
  <2>4. \A i \in 1..n : row(i) \in TargetType
    BY <2>1, <2>3, ParsedTyped DEF IsFrontmatter
  <2>. HIDE DEF row, n
  <2>. QED
    BY <1>1, <2>2, <2>3, <2>4
<1>. QED
  BY <1>2, <1>3

\* What was accepted has no problem in its frontmatter and none on a floor.
LEMMA AcceptedOf ==
  ASSUME ContractInd, Accepted
  PROVE  LET c == TheContract
         IN /\ document # Malformed /\ c = Built(document) /\ IsFrontmatter(document) /\ IsStructured(c)
            /\ FieldProblems(document) = {} /\ ReleaseFloors(c) = {} /\ BadgeProblems(c) = {}
            /\ HomebrewProblems(c) = {} /\ PublisherProblems(c) = {}
            /\ EvidenceProblems(c, TheRepository) = {} /\ DistWorkspaceProblems(c, TheRepository) = {}
            /\ TheRepository \in Repository
<1>1. normalized # Null
  BY DEF Accepted
<1>2. document # Malformed /\ Problems(document, TheRepository) = {} /\ TheFrontmatter = document
  BY <1>1, Normal DEF TheFrontmatter
<1>. QED
  BY <1>1, <1>2, Normal, ProblemParts

\* What is built has its type, problems or not.
LEMMA ContractTyped == ContractInd => ContractTypeOK
<1>. SUFFICES ASSUME ContractInd, normalized # Null
              PROVE  /\ TheRepository \in Repository
                     /\ TheContract.maturity \in Maturities
                     /\ TheContract.versioning \in {"semver", "zerover", "calver"}
                     /\ ToSet(TheContract.targets) \subseteq TargetType
                     /\ \A i \in DOMAIN TheContract.distributions :
                          TheContract.distributions[i].platforms # Malformed
                     /\ Malformed \notin {TheContract.extra_fields[k] : k \in DOMAIN TheContract.extra_fields}
  BY DEF ContractTypeOK, TargetType
<1>. DEFINE m == TheFrontmatter
<1>1. TheContract = Built(m) /\ TheRepository \in Repository /\ IsFrontmatter(m) /\ IsStructured(TheContract)
  BY Normal
<1>. HIDE DEF m
<1>2. TheContract.maturity \in Maturities
  <2>1. "mvp" \in Maturities
    BY DEF Maturities
  <2>. QED
    BY <1>1, <2>1, BuiltParts, EnumChosen DEF MaturityOf
<1>3. TheContract.versioning \in {"semver", "zerover", "calver"}
  <2>. DEFINE declared == IF Declares(m, "versioning") THEN m.versioning ELSE "semver"
  <2>1. declared \in {"semver", "zerover", "calver", Malformed} \cup DOMAIN CalverPattern
    BY <1>1 DEF IsFrontmatter
  <2>2. TheContract.versioning = Versioning(m).versioning
    BY <1>1, BuiltRest
  <2>3. CASE declared = Malformed
    BY <2>2, <2>3 DEF Versioning
  <2>4. CASE declared # Malformed /\ declared \in DOMAIN CalverPattern
    BY <2>2, <2>4 DEF Versioning
  <2>5. CASE declared # Malformed /\ declared \notin DOMAIN CalverPattern
    BY <2>1, <2>2, <2>5 DEF Versioning
  <2>. QED
    BY <2>3, <2>4, <2>5
<1>4. ToSet(TheContract.targets) \subseteq TargetType
  <2>1. TheContract.targets \in Seq(TargetType)
    BY <1>1, BuiltParts, TargetsTyped
  <2>. QED
    BY <2>1 DEF ToSet
<1>5. \A i \in DOMAIN TheContract.distributions : TheContract.distributions[i].platforms # Malformed
  BY <1>1 DEF IsStructured, IsData
<1>6. Malformed \notin {TheContract.extra_fields[k] : k \in DOMAIN TheContract.extra_fields}
  <2>1. TheContract.extra_fields = ExtraFields(m, KnownKeys)
    BY <1>1, BuiltParts
  <2>2. \A f : \A k \in DOMAIN WellFormed(f) : WellFormed(f)[k] # Malformed
    BY DEF WellFormed
  <2>3. \A f, g : \A k \in DOMAIN Merged(WellFormed(f), WellFormed(g)) :
          Merged(WellFormed(f), WellFormed(g))[k] # Malformed
    BY <2>2 DEF Merged
  <2>. QED
    BY <2>1, <2>3 DEF ExtraFields
<1>. QED
  BY <1>1, <1>2, <1>3, <1>4, <1>5, <1>6

\* The formula of an accepted contract has one writer.
LEMMA FormulaWriters == ContractInd => OneFormulaWriter
<1>. SUFFICES ASSUME ContractInd, Accepted
              PROVE  OneFormulaWriter
  BY DEF OneFormulaWriter
<1>. DEFINE c == TheContract
            repo == TheRepository
<1>1. HomebrewProblems(c) = {} /\ DistWorkspaceProblems(c, repo) = {}
  BY AcceptedOf
<1>2. /\ ~(HomebrewTargets(c, {"homebrew-tap", "cargo-dist"}) # {} /\ DeclaredTap(c) = Null)
      /\ ~(HomebrewTargets(c, {"homebrew-tap"}) # {} /\ InstallsByHomebrew(c))
  BY <1>1 DEF HomebrewProblems, Problem
<1>3. repo.dist # Null =>
        /\ ~(repo.dist.publishJob /\ HomebrewTargets(c, {"cargo-dist"}) = {})
        /\ ~(repo.dist.publishJob /\ HomebrewTargets(c, {"homebrew-tap"}) # {})
        /\ ~(/\ HomebrewTargets(c, {"cargo-dist"}) # {} /\ Null \notin {repo.dist.tap, DeclaredTap(c)}
             /\ repo.dist.tap # DeclaredTap(c))
  BY <1>1 DEF DistWorkspaceProblems, Problem
<1>4. HomebrewTargets(c, {"cargo-dist"}) # {} => HomebrewTargets(c, {"homebrew-tap", "cargo-dist"}) # {}
  BY DEF HomebrewTargets
<1>. QED
  BY <1>2, <1>3, <1>4 DEF OneFormulaWriter

\* An accepted contract that publishes nothing says so everywhere.
LEMMA NonePublished == ContractInd => PublishNoneIsNone
<1>. SUFFICES ASSUME ContractInd, Accepted, TheContract.targets = <<>>
              PROVE  /\ TheContract.distributions = <<>>
                     /\ "registry" \notin ToSet(TheContract.health_badges)
                     /\ TheRepository.dist # Null => ~TheRepository.dist.publishJob
  BY DEF PublishNoneIsNone
<1>. DEFINE c == TheContract
<1>1. ReleaseFloors(c) = {} /\ BadgeProblems(c) = {} /\ DistWorkspaceProblems(c, TheRepository) = {}
  BY AcceptedOf
<1>2. c.distributions = <<>>
  BY <1>1 DEF ReleaseFloors, Problem
<1>3. "registry" \notin ToSet(c.health_badges)
  BY <1>1 DEF BadgeProblems, Problem
<1>4. HomebrewTargets(c, {"cargo-dist"}) = {}
  BY DEF HomebrewTargets
<1>5. TheRepository.dist # Null => ~TheRepository.dist.publishJob
  BY <1>1, <1>4 DEF DistWorkspaceProblems, Problem
<1>. QED
  BY <1>2, <1>3, <1>5

\* A list after a list has what they have.
LEMMA JoinedSet ==
  ASSUME NEW T, NEW x \in Seq(T), NEW y \in Seq(T)
  PROVE  x \o y \in Seq(T) /\ ToSet(x \o y) = ToSet(x) \cup ToSet(y)
<1>. DEFINE m == Len(x)
            n == Len(y)
            z == x \o y
<1>1. /\ z \in Seq(T) /\ Len(z) = m + n /\ m \in Nat /\ n \in Nat
      /\ DOMAIN x = 1..m /\ DOMAIN y = 1..n /\ DOMAIN z = 1..(m + n)
      /\ \A i \in 1..m : z[i] = x[i]
      /\ \A i \in (m + 1)..(m + n) : z[i] = y[i - m]
  BY Joined
<1>. HIDE DEF m, n, z
<1>2. \A i \in 1..(m + n) : z[i] \in ToSet(x) \cup ToSet(y)
  <2>. TAKE i \in 1..(m + n)
  <2>1. CASE i \in 1..m
    BY <1>1, <2>1 DEF ToSet
  <2>2. CASE i \notin 1..m
    <3>1. i \in (m + 1)..(m + n) /\ i - m \in 1..n
      BY <1>1, <2>2
    <3>. QED
      BY <1>1, <3>1 DEF ToSet
  <2>. QED
    BY <2>1, <2>2
<1>3. \A i \in 1..m : x[i] \in ToSet(z)
  <2>. TAKE i \in 1..m
  <2>1. i \in 1..(m + n) /\ z[i] = x[i]
    BY <1>1
  <2>. QED
    BY <1>1, <2>1 DEF ToSet
<1>4. \A i \in 1..n : y[i] \in ToSet(z)
  <2>. TAKE i \in 1..n
  <2>1. i + m \in (m + 1)..(m + n) /\ (i + m) - m = i
    BY <1>1
  <2>2. z[i + m] = y[i] /\ i + m \in 1..(m + n)
    BY <1>1, <2>1
  <2>. QED
    BY <1>1, <2>2 DEF ToSet
<1>5. ToSet(z) = ToSet(x) \cup ToSet(y)
  BY <1>1, <1>2, <1>3, <1>4 DEF ToSet
<1>. QED
  BY <1>1, <1>5 DEF z

\* The default badges are for what the contract has.
LEMMA DefaultBadges ==
  ASSUME NEW maturity, NEW targets
  PROVE  LET badges == DefaultHealthBadges(maturity, targets)
         IN /\ badges \in Seq(Badges)
            /\ "ci" \in ToSet(badges) => maturity # "spike"
            /\ "registry" \in ToSet(badges) => targets # <<>>
            /\ "coverage" \notin ToSet(badges) /\ "scorecard" \notin ToSet(badges)
<1>. DEFINE first == IF maturity \in {"mvp", "production"} THEN <<"ci">> ELSE <<>>
            second == IF targets # <<>> THEN <<"registry">> ELSE <<>>
            badges == DefaultHealthBadges(maturity, targets)
<1>1. badges = (first \o second) \o <<"license">>
  BY DEF DefaultHealthBadges
<1>2. /\ \A badge \in Badges : <<badge>> \in Seq(Badges) /\ ToSet(<<badge>>) = {badge}
      /\ <<>> \in Seq(Badges) /\ ToSet(<<>>) = {}
      /\ {"ci", "registry", "license"} \subseteq Badges
  BY DEF Badges, ToSet
<1>3. /\ first \in Seq(Badges) /\ ToSet(first) \subseteq {"ci"}
      /\ "ci" \in ToSet(first) => maturity # "spike"
  <2>1. CASE maturity \in {"mvp", "production"}
    BY <1>2, <2>1
  <2>2. CASE maturity \notin {"mvp", "production"}
    BY <1>2, <2>2
  <2>. QED
    BY <2>1, <2>2
<1>4. /\ second \in Seq(Badges) /\ ToSet(second) \subseteq {"registry"}
      /\ "registry" \in ToSet(second) => targets # <<>>
  <2>1. CASE targets # <<>>
    BY <1>2, <2>1
  <2>2. CASE targets = <<>>
    BY <1>2, <2>2
  <2>. QED
    BY <2>1, <2>2
<1>5. <<"license">> \in Seq(Badges) /\ ToSet(<<"license">>) = {"license"}
  BY <1>2
<1>. HIDE DEF first, second, badges
<1>6. first \o second \in Seq(Badges) /\ ToSet(first \o second) = ToSet(first) \cup ToSet(second)
  BY <1>3, <1>4, JoinedSet
<1>7. \A x \in Seq(Badges) : x \o <<"license">> \in Seq(Badges)
        /\ ToSet(x \o <<"license">>) = ToSet(x) \cup ToSet(<<"license">>)
  BY <1>5, JoinedSet
<1>8. badges \in Seq(Badges) /\ ToSet(badges) = ToSet(first) \cup ToSet(second) \cup {"license"}
  BY <1>1, <1>5, <1>6, <1>7
<1>. QED
  BY <1>3, <1>4, <1>8 DEF badges

\* What a frontmatter leaves out takes defaults that no floor refuses.
LEMMA DefaultsPass == ContractInd => DefaultsPassTheFloors
<1>. SUFFICES ASSUME ContractInd, normalized # Null, document # Malformed,
                     DOMAIN document \subseteq FreeKeys, FieldProblems(document) = {},
                     TheRepository = [dist |-> Null, evidence |-> {}]
              PROVE  Accepted
  BY DEF DefaultsPassTheFloors
<1>. DEFINE m == document
            c == TheContract
            repo == TheRepository
<1>1. c = Built(m) /\ IsFrontmatter(m) /\ (Accepted <=> Problems(m, repo) = {})
  BY Normal DEF TheFrontmatter
<1>2. \A key \in {"targets", "distribution", "distributions", "release", "provenance_level", "health_badges"} :
        ~Declares(m, key) /\ ~Present(m, key)
  BY DEF FreeKeys, Declares, Present
<1>3. c.distributions = <<>> /\ ~InstallsByHomebrew(c)
  <2>1. DistributionEntries(m) = <<>>
    BY <1>2 DEF DistributionEntries
  <2>2. MappingEntries(<<>>) = <<>>
    <3>1. <<>> \in Seq({}) /\ Malformed \notin ToSet(<<>>)
      BY DEF ToSet
    <3>. QED
      BY <3>1, MappingsOf
  <2>3. Distributions(m) = [i \in {} |-> ParsedDistribution(<<>>[i])]
    BY <2>1, <2>2 DEF Distributions
  <2>4. Distributions(m) = <<>>
    BY <2>3
  <2>5. c.distributions = <<>>
    BY <1>1, <2>4, BuiltParts
  <2>. QED
    BY <2>5 DEF InstallsByHomebrew
<1>4. c.release.model = "gated" /\ c.provenance_level = "none"
  <2>1. Block(m, "release") = EmptyMap
    BY <1>2 DEF Block
  <2>2. ~Declares(EmptyMap, "model")
    BY DEF EmptyMap, Declares
  <2>3. ReleaseBlock(m).model = "gated"
    BY <2>1, <2>2 DEF ReleaseBlock, EnumField
  <2>4. c.release = ReleaseBlock(m)
    BY <1>1, BuiltParts
  <2>5. c.provenance_level = EnumField(m, "provenance_level", {"none", "keyless", "slsa-l3"}, "none")
    BY <1>1, BuiltDials
  <2>. QED
    BY <1>2, <2>3, <2>4, <2>5 DEF EnumField
<1>5. \A i \in DOMAIN c.targets :
        c.targets[i].registry # "homebrew" /\ c.targets[i].adapter # "cargo-publish-ci"
  <2>1. TargetsOf(m) = ExpandTargets(EcosystemsOf(m), ReleaseBlock(m).layout)
    BY <1>2 DEF TargetsOf, Targets
  <2>2. EcosystemsOf(m) \in Seq(Ecosystems)
    BY EcosystemsOrdered DEF EcosystemsOf
  <2>3. c.targets = TargetsOf(m)
    BY <1>1, BuiltParts
  <2>. QED
    BY <2>1, <2>2, <2>3, MadeUpTargets
<1>6. c.license # Malformed
  BY <1>1, FieldParts
<1>7. ReleaseFloors(c) = {}
  BY <1>3, <1>4, <1>6 DEF ReleaseFloors, Problem
<1>8. BadgeProblems(c) = {}
  <2>1. HealthBadges(m, MaturityOf(m), TargetsOf(m)) = DefaultHealthBadges(MaturityOf(m), TargetsOf(m))
    BY <1>2 DEF HealthBadges
  <2>2. c.health_badges = DefaultHealthBadges(c.maturity, c.targets)
    BY <1>1, <2>1, BuiltParts, BuiltRest
  <2>. QED
    BY <2>2, DefaultBadges DEF BadgeProblems, Problem
<1>9. \A adapters : HomebrewTargets(c, adapters) = {}
  BY <1>5 DEF HomebrewTargets
<1>10. HomebrewProblems(c) = {}
  BY <1>9 DEF HomebrewProblems, Problem
<1>11. PublisherProblems(c) = {}
  BY <1>5 DEF PublisherProblems, Problem
<1>12. EvidenceProblems(c, repo) = {} /\ DistWorkspaceProblems(c, repo) = {}
  BY DEF EvidenceProblems, DistWorkspaceProblems, Problem
<1>. QED
  BY <1>1, <1>7, <1>8, <1>10, <1>11, <1>12, ProblemParts

-----------------------------------------------------------------------------
(* The canonical form, read as frontmatter.                                 *)

\* A frontmatter every field of which is read without a problem.
ReadsWell(m) == IsFrontmatter(m) /\ IsStructured(Built(m)) /\ FieldProblems(m) = {}

\* The canonical form of what is read from m.
Again(m) == Canonical(Built(m))

PlainFields ==
  {"schema_version", "status", "maturity", "ecosystems", "targets", "changelog", "conventional_commits",
   "contribution_provenance", "provenance_level", "dependency_bot", "health_badges", "license",
   "docs_site", "versioning", "versioning_pattern"}

\* The canonical form has every field, but the extra ones only if there are any.
LEMMA CanonicalShape ==
  ASSUME NEW m
  PROVE  /\ \A k \in PlainFields : Declares(Again(m), k) /\ Again(m)[k] = Built(m)[k]
         /\ Declares(Again(m), "release") /\ Again(m).release = CanonicalRelease(Built(m).release)
         /\ Declares(Again(m), "distributions") /\ ~Declares(Again(m), "distribution")
         /\ Again(m).distributions =
              [i \in DOMAIN Built(m).distributions |-> CanonicalDistribution(Built(m).distributions[i])]
         /\ Declares(Again(m), "extra_fields") <=> Built(m).extra_fields # EmptyMap
         /\ Built(m).extra_fields # EmptyMap => Again(m).extra_fields = Built(m).extra_fields
         /\ DOMAIN Again(m) \ KnownKeys = {"versioning_pattern"}
<1>. DEFINE c == Built(m)
            left == IF c.extra_fields = EmptyMap THEN {"extra_fields"} ELSE {}
            base == [k \in (DOMAIN c \cup {"warnings"}) \ left |-> IF k = "warnings" THEN <<>> ELSE c[k]]
            dists == [i \in DOMAIN c.distributions |-> CanonicalDistribution(c.distributions[i])]
            rel == CanonicalRelease(c.release)
<1>1. DOMAIN c = PlainFields \cup {"distributions", "release", "extra_fields"}
  BY DEF Built, PlainFields
<1>2. Again(m) = [base EXCEPT !.distributions = dists, !.release = rel]
  BY DEF Again, Canonical
<1>3. {"distributions", "release", "extra_fields", "warnings", "distribution"} \cap PlainFields = {}
  BY DEF PlainFields
<1>. HIDE DEF c, dists, rel
<1>4. /\ DOMAIN Again(m) = (DOMAIN c \cup {"warnings"}) \ left
      /\ Again(m).distributions = dists /\ Again(m).release = rel
      /\ \A k \in DOMAIN Again(m) \ {"distributions", "release"} :
           Again(m)[k] = IF k = "warnings" THEN <<>> ELSE c[k]
  BY <1>1, <1>2
<1>. HIDE DEF base
<1>5. \A k \in PlainFields : k \in DOMAIN Again(m) /\ Again(m)[k] = c[k]
  BY <1>1, <1>3, <1>4
<1>6. "release" \in DOMAIN Again(m) /\ "distributions" \in DOMAIN Again(m) /\ "distribution" \notin DOMAIN Again(m)
  BY <1>1, <1>3, <1>4
<1>7. /\ "extra_fields" \in DOMAIN Again(m) <=> c.extra_fields # EmptyMap
      /\ c.extra_fields # EmptyMap => Again(m).extra_fields = c.extra_fields
  BY <1>1, <1>4
<1>8. DOMAIN Again(m) \ KnownKeys = {"versioning_pattern"}
  BY <1>1, <1>4 DEF PlainFields, KnownKeys
<1>. QED
  BY <1>4, <1>5, <1>6, <1>7, <1>8, Zenon DEF Declares, c, dists, rel

\* An enum that was read is read again.
LEMMA EnumAgain ==
  ASSUME NEW m, NEW key \in PlainFields, NEW valid, NEW default,
         \E chosen \in valid : Built(m)[key] = EnumField(m, key, valid, chosen)
  PROVE  EnumField(Again(m), key, valid, default) = Built(m)[key] /\ EnumProblem(Again(m), key, valid) = {}
<1>1. Declares(Again(m), key) /\ Again(m)[key] = Built(m)[key]
  BY CanonicalShape
<1>2. Built(m)[key] \in valid
  BY EnumChosen
<1>. QED
  BY <1>1, <1>2, EnumChosen

\* Every dial that was read is read again.
LEMMA DialsAgain ==
  ASSUME NEW m
  PROVE  LET c == Built(m)
             d == Built(Again(m))
         IN /\ d.status = c.status /\ d.maturity = c.maturity
            /\ d.conventional_commits = c.conventional_commits
            /\ d.contribution_provenance = c.contribution_provenance
            /\ d.provenance_level = c.provenance_level /\ d.docs_site = c.docs_site
            /\ d.dependency_bot = c.dependency_bot
            /\ Declares(Again(m), "maturity") /\ EnumProblem(Again(m), "maturity", Maturities) = {}
            /\ EnumProblem(Again(m), "status", {"draft", "approved"}) = {}
            /\ EnumProblem(Again(m), "conventional_commits", BOOLEAN) = {}
            /\ EnumProblem(Again(m), "contribution_provenance", {"dco", "cla", "none"}) = {}
            /\ EnumProblem(Again(m), "provenance_level", {"none", "keyless", "slsa-l3"}) = {}
            /\ EnumProblem(Again(m), "dependency_bot", {"dependabot", "renovate", "none"}) = {}
            /\ EnumProblem(Again(m), "docs_site", DocsSites) = {}
<1>. DEFINE a == Again(m)
<1>1. {"status", "maturity", "conventional_commits", "contribution_provenance", "provenance_level",
       "dependency_bot", "docs_site"} \subseteq PlainFields
  BY DEF PlainFields
<1>2. EnumField(a, "status", {"draft", "approved"}, "draft") = Built(m).status
      /\ EnumProblem(a, "status", {"draft", "approved"}) = {}
  <2>1. Built(m).status = EnumField(m, "status", {"draft", "approved"}, "draft")
        /\ "draft" \in {"draft", "approved"}
    BY BuiltDials
  <2>. HIDE DEF a
  <2>. QED
    BY <1>1, <2>1, EnumAgain DEF a
<1>3. EnumField(a, "maturity", Maturities, "mvp") = Built(m).maturity
      /\ EnumProblem(a, "maturity", Maturities) = {} /\ Declares(a, "maturity")
  <2>1. Built(m).maturity = EnumField(m, "maturity", Maturities, "mvp") /\ "mvp" \in Maturities
    BY BuiltParts DEF MaturityOf, Maturities
  <2>2. Declares(a, "maturity")
    BY <1>1, CanonicalShape
  <2>. HIDE DEF a
  <2>. QED
    BY <1>1, <2>1, <2>2, EnumAgain DEF a
<1>4. EnumField(a, "conventional_commits", BOOLEAN, FALSE) = Built(m).conventional_commits
      /\ EnumProblem(a, "conventional_commits", BOOLEAN) = {}
  <2>1. Built(m).conventional_commits = EnumField(m, "conventional_commits", BOOLEAN, FALSE)
        /\ FALSE \in BOOLEAN
    BY BuiltDials
  <2>. QED
    BY <1>1, <2>1, EnumAgain
<1>5. EnumField(a, "contribution_provenance", {"dco", "cla", "none"}, "none") = Built(m).contribution_provenance
      /\ EnumProblem(a, "contribution_provenance", {"dco", "cla", "none"}) = {}
  <2>1. Built(m).contribution_provenance =
          EnumField(m, "contribution_provenance", {"dco", "cla", "none"}, "none")
        /\ "none" \in {"dco", "cla", "none"}
    BY BuiltDials
  <2>. QED
    BY <1>1, <2>1, EnumAgain
<1>6. EnumField(a, "provenance_level", {"none", "keyless", "slsa-l3"}, "none") = Built(m).provenance_level
      /\ EnumProblem(a, "provenance_level", {"none", "keyless", "slsa-l3"}) = {}
  <2>1. Built(m).provenance_level =
          EnumField(m, "provenance_level", {"none", "keyless", "slsa-l3"}, "none")
        /\ "none" \in {"none", "keyless", "slsa-l3"}
    BY BuiltDials
  <2>. QED
    BY <1>1, <2>1, EnumAgain
<1>7. EnumField(a, "docs_site", DocsSites, "none") = Built(m).docs_site
      /\ EnumProblem(a, "docs_site", DocsSites) = {}
  <2>1. Built(m).docs_site = EnumField(m, "docs_site", DocsSites, "none") /\ "none" \in DocsSites
    BY BuiltDials DEF DocsSites
  <2>. QED
    BY <1>1, <2>1, EnumAgain
<1>8. (\A default : EnumField(a, "dependency_bot", {"dependabot", "renovate", "none"}, default)
                      = Built(m).dependency_bot)
      /\ EnumProblem(a, "dependency_bot", {"dependabot", "renovate", "none"}) = {}
  <2>. DEFINE chosen == IF MaturityOf(m) = "spike" THEN "none" ELSE "dependabot"
  <2>1. Built(m).dependency_bot = EnumField(m, "dependency_bot", {"dependabot", "renovate", "none"}, chosen)
        /\ chosen \in {"dependabot", "renovate", "none"}
    BY BuiltRest
  <2>. HIDE DEF chosen
  <2>. QED
    BY <1>1, <2>1, EnumAgain
<1>9. Built(a).maturity = Built(m).maturity
  BY <1>3, BuiltParts DEF MaturityOf
<1>10. Built(a).dependency_bot = Built(m).dependency_bot
  BY <1>8, BuiltRest
<1>11. Built(a).status = Built(m).status /\ Built(a).conventional_commits = Built(m).conventional_commits
       /\ Built(a).contribution_provenance = Built(m).contribution_provenance
       /\ Built(a).provenance_level = Built(m).provenance_level /\ Built(a).docs_site = Built(m).docs_site
  BY <1>2, <1>4, <1>5, <1>6, <1>7, BuiltDials
<1>. QED
  BY <1>2, <1>3, <1>4, <1>5, <1>6, <1>7, <1>8, <1>9, <1>10, <1>11, Zenon

\* The list of ecosystems is in the order in which it is put.
LEMMA EcosystemsAgain ==
  ASSUME NEW m, IsStructured(Built(m))
  PROVE  /\ EcosystemsOf(Again(m)) = EcosystemsOf(m)
         /\ ListProblem(Again(m), "ecosystems", Ecosystems) = {}
<1>. DEFINE es == Built(m).ecosystems
<1>1. es = EcosystemsOf(m) /\ IsData(es)
  BY BuiltParts DEF IsStructured
<1>2. Declares(Again(m), "ecosystems") /\ Again(m).ecosystems = es
  BY CanonicalShape DEF PlainFields
<1>. HIDE DEF es
<1>3. AsList(Again(m), "ecosystems") = es
  BY <1>1, <1>2 DEF AsList, Present, IsData
<1>4. Canonically(EcosystemOrder, es) = es
  BY <1>1, Orders, CanonicallyTwice DEF EcosystemsOf
<1>5. ToSet(es) \subseteq Ecosystems
  BY <1>1, EcosystemsOrdered DEF EcosystemsOf
<1>6. ListProblem(Again(m), "ecosystems", Ecosystems) = {}
  BY <1>3, <1>5 DEF ListProblem, Problem
<1>. QED
  BY <1>1, <1>3, <1>4, <1>6 DEF EcosystemsOf

\* The release block, whose hook is left out if there is none.
LEMMA ReleaseAgain ==
  ASSUME NEW m, IsStructured(Built(m)), ReleaseProblems(m) = {}
  PROVE  ReleaseBlock(Again(m)) = ReleaseBlock(m) /\ ReleaseProblems(Again(m)) = {}
<1>. DEFINE r == ReleaseBlock(m)
            b == CanonicalRelease(r)
<1>1. Built(m).release = r
  BY BuiltParts
<1>2. Declares(Again(m), "release") /\ Again(m).release = b
  BY <1>1, CanonicalShape
<1>3. IsData(b)
  BY <1>1 DEF IsStructured
<1>4. r.model \in {"gated", "auto"} /\ r.layout \in {"single", "monorepo"} /\ r.bump_hook # Malformed
      /\ r = [model |-> r.model, layout |-> r.layout, bump_hook |-> r.bump_hook]
  <2>1. "gated" \in {"gated", "auto"} /\ "single" \in {"single", "monorepo"} /\ Null # Malformed
    BY ContractAssumption
  <2>. QED
    BY <2>1, EnumChosen DEF ReleaseBlock
<1>. HIDE DEF r
<1>5. /\ Declares(b, "model") /\ b.model = r.model /\ Declares(b, "layout") /\ b.layout = r.layout
      /\ Declares(b, "bump_hook") <=> r.bump_hook # Null
      /\ Declares(b, "bump_hook") => b.bump_hook = r.bump_hook
  BY <1>4 DEF CanonicalRelease, Declares
<1>. HIDE DEF b
<1>6. Block(Again(m), "release") = b /\ BlockProblem(Again(m), "release") = {}
  BY <1>2, <1>3 DEF Block, BlockProblem, Problem, Present, IsData
<1>7. /\ EnumField(b, "model", {"gated", "auto"}, "gated") = r.model /\ EnumProblem(b, "model", {"gated", "auto"}) = {}
      /\ EnumField(b, "layout", {"single", "monorepo"}, "single") = r.layout
      /\ EnumProblem(b, "layout", {"single", "monorepo"}) = {}
  BY <1>4, <1>5 DEF EnumField, EnumProblem, Problem
<1>8. (IF Present(b, "bump_hook") /\ b.bump_hook # Malformed THEN b.bump_hook ELSE Null) = r.bump_hook
      /\ BlockProblem(b, "bump_hook") = {}
  BY <1>4, <1>5 DEF BlockProblem, Problem, Present
<1>9. ReleaseBlock(Again(m)) = [model |-> r.model, layout |-> r.layout, bump_hook |-> r.bump_hook]
  BY <1>6, <1>7, <1>8 DEF ReleaseBlock
<1>10. ReleaseProblems(Again(m)) = {}
  BY <1>6, <1>7, <1>8 DEF ReleaseProblems
<1>. QED
  BY <1>4, <1>9, <1>10 DEF r

\* The changelog block, whose fragment directory is always named.
LEMMA ChangelogAgain ==
  ASSUME NEW m, IsStructured(Built(m)), ChangelogProblems(m) = {}
  PROVE  Changelog(Again(m)) = Changelog(m) /\ ChangelogProblems(Again(m)) = {}
<1>. DEFINE g == Changelog(m)
<1>1. Built(m).changelog = g
  BY BuiltParts
<1>2. Declares(Again(m), "changelog") /\ Again(m).changelog = g
  BY <1>1, CanonicalShape DEF PlainFields
<1>3. IsData(g)
  BY <1>1 DEF IsStructured
<1>4. /\ g.mode \in ChangelogModes /\ g.source \in ChangelogSources
      /\ g.fragment_dir # Malformed \/ g.fragment_dir = DefaultFragmentDir
      /\ g = [mode |-> g.mode, source |-> g.source, fragment_dir |-> g.fragment_dir]
  <2>1. "curated" \in ChangelogModes /\ "manual" \in ChangelogSources
    BY DEF ChangelogModes, ChangelogSources
  <2>. QED
    BY <2>1, EnumChosen DEF Changelog
<1>5. g.fragment_dir # Escaping
  BY DEF ChangelogProblems, Problem
<1>. HIDE DEF g
<1>6. /\ Declares(g, "mode") /\ Declares(g, "source") /\ Declares(g, "fragment_dir")
  BY <1>4 DEF Declares
<1>7. Block(Again(m), "changelog") = g /\ BlockProblem(Again(m), "changelog") = {}
  BY <1>2, <1>3 DEF Block, BlockProblem, Problem, Present, IsData
<1>8. /\ EnumField(g, "mode", ChangelogModes, "curated") = g.mode /\ EnumProblem(g, "mode", ChangelogModes) = {}
      /\ EnumField(g, "source", ChangelogSources, "manual") = g.source
      /\ EnumProblem(g, "source", ChangelogSources) = {}
  BY <1>4, <1>6 DEF EnumField, EnumProblem, Problem
<1>9. (IF Declares(g, "fragment_dir") /\ g.fragment_dir # Malformed THEN g.fragment_dir ELSE DefaultFragmentDir)
        = g.fragment_dir
  BY <1>4, <1>6
<1>10. Changelog(Again(m)) = g
  BY <1>4, <1>7, <1>8, <1>9 DEF Changelog
<1>11. BlockProblem(g, "fragment_dir") = {}
  BY <1>4, ContractAssumption DEF BlockProblem, Problem, Present
<1>12. ChangelogProblems(Again(m)) = {}
  BY <1>5, <1>7, <1>8, <1>10, <1>11 DEF ChangelogProblems, Problem
<1>. QED
  BY <1>10, <1>12 DEF g

\* A versioning other than calver has no pattern to split off.
LEMMA VersioningAgain ==
  ASSUME NEW m, IsFrontmatter(m), VersioningProblems(m) = {}, Built(m).versioning # "calver"
  PROVE  /\ Versioning(Again(m)) = Versioning(m) /\ VersioningProblems(Again(m)) = {}
         /\ Built(m).versioning_pattern = Null
<1>. DEFINE declared == IF Declares(m, "versioning") THEN m.versioning ELSE "semver"
            v == Built(m).versioning
<1>1. v = Versioning(m).versioning
  BY BuiltRest
<1>2. declared \in {"semver", "zerover", "calver", Malformed} \cup DOMAIN CalverPattern
  BY DEF IsFrontmatter
<1>3. declared # Malformed /\ declared # "calver"
  <2>1. CASE Declares(m, "versioning")
    BY <2>1 DEF VersioningProblems, Problem
  <2>2. CASE ~Declares(m, "versioning")
    BY <2>2, ContractAssumption
  <2>. QED
    BY <2>1, <2>2
<1>4. Versioning(m) = CASE declared = Malformed -> [versioning |-> "semver", versioning_pattern |-> Null]
                       [] declared \in DOMAIN CalverPattern ->
                            [versioning |-> "calver", versioning_pattern |-> CalverPattern[declared]]
                       [] OTHER -> [versioning |-> declared, versioning_pattern |-> Null]
  BY DEF Versioning
<1>. HIDE DEF declared
<1>5. declared \notin DOMAIN CalverPattern
  BY <1>1, <1>3, <1>4
<1>6. Versioning(m) = [versioning |-> declared, versioning_pattern |-> Null]
  BY <1>3, <1>4, <1>5
<1>7. Declares(Again(m), "versioning") /\ Again(m).versioning = declared
  <2>1. Declares(Again(m), "versioning") /\ Again(m).versioning = Built(m).versioning
    BY CanonicalShape DEF PlainFields
  <2>. QED
    BY <1>1, <1>6, <2>1
<1>8. Versioning(Again(m)) = [versioning |-> declared, versioning_pattern |-> Null]
  BY <1>3, <1>5, <1>7 DEF Versioning
<1>9. VersioningProblems(Again(m)) = {}
  BY <1>3, <1>7 DEF VersioningProblems, Problem
<1>10. Built(m).versioning_pattern = Null
  BY <1>6, BuiltRest
<1>. QED
  BY <1>6, <1>8, <1>9, <1>10

\* The badges, every one of them known.
LEMMA BadgesAgain ==
  ASSUME NEW m, IsFrontmatter(m), IsStructured(Built(m))
  PROVE  /\ \A maturity, targets : HealthBadges(Again(m), maturity, targets) = Built(m).health_badges
         /\ ListProblem(Again(m), "health_badges", Badges) = {}
<1>. DEFINE h == Built(m).health_badges
<1>1. h = HealthBadges(m, MaturityOf(m), TargetsOf(m)) /\ IsData(h)
  BY BuiltRest DEF IsStructured
<1>2. h \in Seq(ToSet(AsList(m, "health_badges")) \cup Badges) /\ ToSet(h) \subseteq Badges
  <2>1. CASE Declares(m, "health_badges")
    <3>1. h = Keep(AsList(m, "health_badges"), Badges)
      BY <1>1, <2>1 DEF HealthBadges
    <3>2. AsList(m, "health_badges") \in Seq(ToSet(AsList(m, "health_badges")) \cup Badges)
      BY ListsOf
    <3>. QED
      BY <3>1, <3>2, KeepType
  <2>2. CASE ~Declares(m, "health_badges")
    <3>1. h = DefaultHealthBadges(MaturityOf(m), TargetsOf(m))
      BY <1>1, <2>2 DEF HealthBadges
    <3>2. h \in Seq(Badges)
      BY <3>1, DefaultBadges
    <3>. QED
      BY <3>2 DEF ToSet
  <2>. QED
    BY <2>1, <2>2
<1>3. Declares(Again(m), "health_badges") /\ Again(m).health_badges = h
  BY CanonicalShape DEF PlainFields
<1>. HIDE DEF h
<1>4. AsList(Again(m), "health_badges") = h
  BY <1>1, <1>3 DEF AsList, Present, IsData
<1>5. Keep(h, Badges) = h
  BY <1>2, KeepAll
<1>. QED
  BY <1>2, <1>3, <1>4, <1>5 DEF HealthBadges, ListProblem, Problem, h

\* The version of the schema and the license.
LEMMA SchemaAgain ==
  ASSUME NEW m
  PROVE  SchemaProblems(Again(m)) = {} /\ License(Again(m)) = Built(m).license
<1>1. /\ Declares(Again(m), "schema_version") /\ Again(m).schema_version = Built(m).schema_version
      /\ Declares(Again(m), "license") /\ Again(m).license = Built(m).license
  BY CanonicalShape DEF PlainFields
<1>2. Built(m).schema_version = 2
  BY BuiltRest DEF KnownSchemaVersion
<1>. QED
  BY <1>1, <1>2 DEF SchemaProblems, KnownSchemaVersion, Problem, License

\* What was captured is captured again as it is.
LEMMA CapturedAgain ==
  ASSUME NEW m, NEW known
  PROVE  LET x == ExtraFields(m, known)
         IN /\ NonStringKey \notin DOMAIN x /\ \A k \in DOMAIN x : x[k] # Malformed
            /\ WellFormed(x) = x
            /\ Merged(WellFormed(x), WellFormed([k \in {} |-> m[k]])) = x
<1>. DEFINE x == ExtraFields(m, known)
            f == WellFormed(Block(m, "extra_fields"))
            g == WellFormed([k \in DOMAIN m \ known |-> m[k]])
<1>1. x = [k \in DOMAIN f \cup DOMAIN g |-> IF k \in DOMAIN f THEN f[k] ELSE g[k]]
  BY DEF ExtraFields, Merged
<1>2. \A h : /\ NonStringKey \notin DOMAIN WellFormed(h)
             /\ \A k \in DOMAIN WellFormed(h) : WellFormed(h)[k] # Malformed
  BY DEF WellFormed
<1>3. NonStringKey \notin DOMAIN f /\ (\A k \in DOMAIN f : f[k] # Malformed)
      /\ NonStringKey \notin DOMAIN g /\ (\A k \in DOMAIN g : g[k] # Malformed)
  BY <1>2
<1>. HIDE DEF f, g, x
<1>4. NonStringKey \notin DOMAIN x /\ \A k \in DOMAIN x : x[k] # Malformed
  BY <1>1, <1>3
<1>5. x = [k \in DOMAIN x |-> x[k]]
  BY <1>1
<1>6. WellFormed(x) = x
  <2>1. {k \in DOMAIN x : k # NonStringKey /\ x[k] # Malformed} = DOMAIN x
    BY <1>4
  <2>. QED
    BY <1>5, <2>1 DEF WellFormed
<1>7. DOMAIN WellFormed([k \in {} |-> m[k]]) = {}
  BY DEF WellFormed
<1>8. Merged(x, WellFormed([k \in {} |-> m[k]])) = x
  BY <1>5, <1>7 DEF Merged
<1>. QED
  BY <1>4, <1>6, <1>8 DEF x

\* The extra fields, the pattern of the versioning now among them.
LEMMA ExtraAgain ==
  ASSUME NEW m, IsStructured(Built(m)), Built(m).versioning_pattern = Null,
         "versioning_pattern" \notin DOMAIN Built(m).extra_fields
  PROVE  /\ ExtraFields(Again(m), KnownKeys)
              = Merged(Built(m).extra_fields, Only("versioning_pattern", Null))
         /\ ExtraProblems(Again(m), KnownKeys) = {}
<1>. DEFINE x == Built(m).extra_fields
            a == Again(m)
            unknown == [k \in DOMAIN a \ KnownKeys |-> a[k]]
<1>1. x = ExtraFields(m, KnownKeys) /\ IsData(x)
  BY BuiltParts DEF IsStructured
<1>2. NonStringKey \notin DOMAIN x /\ (\A k \in DOMAIN x : x[k] # Malformed) /\ WellFormed(x) = x
  BY <1>1, CapturedAgain
<1>3. DOMAIN a \ KnownKeys = {"versioning_pattern"} /\ a.versioning_pattern = Null
  <2>1. a.versioning_pattern = Built(m).versioning_pattern
    BY CanonicalShape DEF PlainFields
  <2>. QED
    BY <2>1, CanonicalShape
<1>4. Block(a, "extra_fields") = x /\ BlockProblem(a, "extra_fields") = {}
  <2>1. /\ Declares(a, "extra_fields") <=> x # EmptyMap
        /\ x # EmptyMap => a.extra_fields = x
    BY CanonicalShape
  <2>. HIDE DEF x, a
  <2>. QED
    BY <1>1, <2>1 DEF Block, BlockProblem, Problem, Present, IsData
<1>. HIDE DEF x, a
<1>5. WellFormed(unknown) = Only("versioning_pattern", Null)
  <2>1. unknown = [k \in {"versioning_pattern"} |-> Null]
    BY <1>3
  <2>2. {k \in {"versioning_pattern"} : k # NonStringKey /\ Null # Malformed} = {"versioning_pattern"}
    BY ContractAssumption DEF NonStringKey
  <2>. HIDE DEF unknown
  <2>. QED
    BY <2>1, <2>2 DEF WellFormed, Only
<1>6. ExtraFields(a, KnownKeys) = Merged(x, Only("versioning_pattern", Null))
  BY <1>2, <1>4, <1>5 DEF ExtraFields
<1>7. ExtraProblems(a, KnownKeys) = {}
  <2>1. NonStringKey \notin (DOMAIN a \ KnownKeys) \cup DOMAIN x
    BY <1>2, <1>3 DEF NonStringKey
  <2>2. ~ \E k \in DOMAIN a \ KnownKeys : a[k] = Malformed
    BY <1>3, ContractAssumption
  <2>3. (DOMAIN a \ KnownKeys) \cap DOMAIN WellFormed(x) = {}
    BY <1>2, <1>3 DEF x
  <2>. QED
    BY <1>2, <1>4, <2>1, <2>2, <2>3 DEF ExtraProblems, Problem
<1>. QED
  BY <1>6, <1>7 DEF x, a

Written(e) == CanonicalDistribution(ParsedDistribution(e))

\* A distribution's canonical form has its fields, but the extra ones only if
\* there are any.
LEMMA WrittenShape ==
  ASSUME NEW e
  PROVE  LET d == ParsedDistribution(e)
             w == Written(e)
         IN /\ \A k \in {"package", "adapter", "gh_releases", "installers", "homebrew_tap", "platforms"} :
                 Declares(w, k) /\ w[k] = d[k]
            /\ Declares(w, "extra_fields") <=> d.extra_fields # EmptyMap
            /\ d.extra_fields # EmptyMap => w.extra_fields = d.extra_fields
            /\ DOMAIN w \ KnownDistributionKeys = {}
<1>. DEFINE d == ParsedDistribution(e)
            left == IF d.extra_fields = EmptyMap THEN {"extra_fields"} ELSE {}
<1>1. DOMAIN d = KnownDistributionKeys
  BY DEF ParsedDistribution, KnownDistributionKeys
<1>2. Written(e) = [k \in DOMAIN d \ left |-> d[k]]
  BY DEF Written, CanonicalDistribution
<1>. HIDE DEF d
<1>. QED
  BY <1>1, <1>2 DEF Declares, KnownDistributionKeys, d

\* The parts of a distribution that is read.
LEMMA ReadParts ==
  ASSUME NEW e, Holds(e, "platforms") => e.platforms \in Seq(ToSet(e.platforms)),
         DistributionProblems(e) = {}
  PROVE  LET d == ParsedDistribution(e)
         IN /\ d = [package |-> d.package, adapter |-> d.adapter, gh_releases |-> d.gh_releases,
                    installers |-> d.installers, homebrew_tap |-> d.homebrew_tap,
                    platforms |-> d.platforms, extra_fields |-> d.extra_fields]
            /\ d.package # Malformed /\ d.homebrew_tap # Malformed
            /\ d.adapter \in {"cargo-dist", "goreleaser", "manual"} /\ d.gh_releases \in BOOLEAN
            /\ d.installers = Canonically(InstallerOrder, AsList(e, "installers"))
            /\ d.platforms \in Seq(ToSet(d.platforms)) /\ ToSet(d.platforms) \subseteq Triples
            /\ d.platforms # <<>> /\ d.extra_fields = ExtraFields(e, KnownDistributionKeys)
            /\ ~("homebrew" \in ToSet(d.installers) /\ d.homebrew_tap = Null)
<1>. DEFINE d == ParsedDistribution(e)
<1>1. /\ d.package # Malformed /\ d.homebrew_tap # Malformed
      /\ d.installers = Canonically(InstallerOrder, AsList(e, "installers"))
      /\ d.extra_fields = ExtraFields(e, KnownDistributionKeys)
  BY ContractAssumption DEF ParsedDistribution
<1>2. d.adapter \in {"cargo-dist", "goreleaser", "manual"} /\ d.gh_releases \in BOOLEAN
  BY DEF ParsedDistribution, EnumField
<1>3. d.platforms = IF ~Present(e, "platforms") \/ e.platforms \in {Malformed, <<>>}
                    THEN DefaultPlatforms ELSE Keep(e.platforms, Triples)
  BY DEF ParsedDistribution
<1>4. d = [package |-> d.package, adapter |-> d.adapter, gh_releases |-> d.gh_releases,
           installers |-> d.installers, homebrew_tap |-> d.homebrew_tap,
           platforms |-> d.platforms, extra_fields |-> d.extra_fields]
  BY DEF ParsedDistribution
<1>5. ~("homebrew" \in ToSet(d.installers) /\ d.homebrew_tap = Null)
  BY DEF DistributionProblems, Problem
<1>6. Present(e, "platforms") /\ e.platforms # Malformed => e.platforms # <<>> /\ ToSet(e.platforms) \subseteq Triples
  <2>1. Problem("platforms", /\ Present(e, "platforms") /\ e.platforms # Malformed
                             /\ e.platforms = <<>> \/ ~(ToSet(e.platforms) \subseteq Triples)) = {}
    BY DEF DistributionProblems
  <2>. QED
    BY <2>1 DEF Problem
<1>. HIDE DEF d
<1>7. d.platforms \in Seq(ToSet(d.platforms)) /\ ToSet(d.platforms) \subseteq Triples /\ d.platforms # <<>>
  <2>1. CASE ~Present(e, "platforms") \/ e.platforms = Malformed
    <3>1. d.platforms = DefaultPlatforms
      BY <1>3, <2>1
    <3>. QED
      BY <3>1, Orders DEF ToSet
  <2>2. CASE Present(e, "platforms") /\ e.platforms # Malformed
    <3>1. e.platforms \in Seq(ToSet(e.platforms))
      BY <2>2 DEF Holds
    <3>2. Keep(e.platforms, Triples) = e.platforms
      BY <1>6, <2>2, <3>1, KeepAll
    <3>3. d.platforms = e.platforms
      BY <1>3, <1>6, <2>2, <3>2
    <3>. QED
      BY <1>6, <2>2, <3>1, <3>3
  <2>. QED
    BY <2>1, <2>2
<1>. QED
  BY <1>1, <1>2, <1>4, <1>5, <1>7, Zenon DEF d

\* A distribution's canonical form reads as the same distribution.
LEMMA DistributionAgain ==
  ASSUME NEW e, Holds(e, "platforms") => e.platforms \in Seq(ToSet(e.platforms)),
         DistributionProblems(e) = {},
         IsData(ParsedDistribution(e).installers), IsData(ParsedDistribution(e).platforms),
         IsData(ParsedDistribution(e).extra_fields)
  PROVE  ParsedDistribution(Written(e)) = ParsedDistribution(e) /\ DistributionProblems(Written(e)) = {}
<1>. DEFINE d == ParsedDistribution(e)
            w == Written(e)
            keys == {"package", "adapter", "gh_releases", "installers", "homebrew_tap", "platforms"}
<1>1. /\ \A k \in keys : Declares(w, k) /\ w[k] = d[k]
      /\ Declares(w, "extra_fields") <=> d.extra_fields # EmptyMap
      /\ d.extra_fields # EmptyMap => w.extra_fields = d.extra_fields
      /\ DOMAIN w \ KnownDistributionKeys = {}
  BY WrittenShape
<1>2. /\ d = [package |-> d.package, adapter |-> d.adapter, gh_releases |-> d.gh_releases,
              installers |-> d.installers, homebrew_tap |-> d.homebrew_tap,
              platforms |-> d.platforms, extra_fields |-> d.extra_fields]
      /\ d.package # Malformed /\ d.homebrew_tap # Malformed
      /\ d.adapter \in {"cargo-dist", "goreleaser", "manual"} /\ d.gh_releases \in BOOLEAN
      /\ d.installers = Canonically(InstallerOrder, AsList(e, "installers"))
      /\ d.platforms \in Seq(ToSet(d.platforms)) /\ ToSet(d.platforms) \subseteq Triples
      /\ d.platforms # <<>> /\ d.extra_fields = ExtraFields(e, KnownDistributionKeys)
      /\ ~("homebrew" \in ToSet(d.installers) /\ d.homebrew_tap = Null)
  BY ReadParts
<1>3. IsData(d.installers) /\ IsData(d.platforms) /\ IsData(d.extra_fields)
  OBVIOUS
<1>. HIDE DEF d, w
<1>4. Declares(w, "package") /\ w.package = d.package /\ Declares(w, "adapter") /\ w.adapter = d.adapter
      /\ Declares(w, "gh_releases") /\ w.gh_releases = d.gh_releases
      /\ Declares(w, "installers") /\ w.installers = d.installers
      /\ Declares(w, "homebrew_tap") /\ w.homebrew_tap = d.homebrew_tap
      /\ Declares(w, "platforms") /\ w.platforms = d.platforms
  BY <1>1
<1>. HIDE DEF keys
<1>5. /\ EnumField(w, "adapter", {"cargo-dist", "goreleaser", "manual"}, "cargo-dist") = d.adapter
      /\ EnumProblem(w, "adapter", {"cargo-dist", "goreleaser", "manual"}) = {}
      /\ EnumField(w, "gh_releases", BOOLEAN, TRUE) = d.gh_releases
      /\ EnumProblem(w, "gh_releases", BOOLEAN) = {}
  BY <1>2, <1>4 DEF EnumField, EnumProblem, Problem
<1>6. AsList(w, "installers") = d.installers
  BY <1>3, <1>4 DEF AsList, Present, IsData
<1>7. Canonically(InstallerOrder, AsList(w, "installers")) = d.installers
  BY <1>2, <1>6, Orders, CanonicallyTwice
<1>8. ListProblem(w, "installers", ToSet(InstallerOrder)) = {}
  <2>1. ToSet(d.installers) \subseteq ToSet(InstallerOrder)
    BY <1>2, Orders, KeepType DEF Canonically
  <2>. QED
    BY <1>6, <2>1 DEF ListProblem, Problem
<1>9. /\ Present(w, "platforms") /\ w.platforms \notin {Malformed, <<>>}
      /\ Keep(w.platforms, Triples) = d.platforms
  BY <1>2, <1>3, <1>4, KeepAll DEF Present, IsData
<1>10. Block(w, "extra_fields") = d.extra_fields /\ BlockProblem(w, "extra_fields") = {}
  BY <1>1, <1>3 DEF Block, BlockProblem, Problem, Present, IsData
<1>11. /\ NonStringKey \notin DOMAIN d.extra_fields
       /\ \A k \in DOMAIN d.extra_fields : d.extra_fields[k] # Malformed
       /\ WellFormed(d.extra_fields) = d.extra_fields
       /\ Merged(WellFormed(d.extra_fields), WellFormed([k \in {} |-> e[k]])) = d.extra_fields
  BY <1>2, CapturedAgain
<1>12. ExtraFields(w, KnownDistributionKeys) = d.extra_fields
  <2>1. [k \in {} |-> w[k]] = [k \in {} |-> e[k]]
    OBVIOUS
  <2>. QED
    BY <1>1, <1>10, <1>11, <2>1 DEF ExtraFields
<1>13. ExtraProblems(w, KnownDistributionKeys) = {}
  BY <1>1, <1>10, <1>11 DEF ExtraProblems, Problem
<1>14. /\ (IF Declares(w, "package") /\ w.package # Malformed THEN w.package ELSE Null) = d.package
       /\ (IF Declares(w, "homebrew_tap") /\ w.homebrew_tap # Malformed THEN w.homebrew_tap ELSE Null)
            = d.homebrew_tap
       /\ (IF ~Present(w, "platforms") \/ w.platforms \in {Malformed, <<>>} THEN DefaultPlatforms
           ELSE Keep(w.platforms, Triples)) = d.platforms
  BY <1>2, <1>4, <1>9
<1>15. ParsedDistribution(w) =
         [package |-> d.package, adapter |-> d.adapter, gh_releases |-> d.gh_releases,
          installers |-> d.installers, homebrew_tap |-> d.homebrew_tap,
          platforms |-> d.platforms, extra_fields |-> d.extra_fields]
  BY <1>5, <1>7, <1>12, <1>14 DEF ParsedDistribution
<1>16. ParsedDistribution(w) = d
  BY <1>2, <1>15, Zenon
<1>17. /\ Problem("distribution.package", Present(w, "package") /\ w.package = Malformed) = {}
       /\ Problem("distribution.adapter", ~Declares(w, "adapter")) = {}
       /\ BlockProblem(w, "homebrew_tap") = {}
       /\ BlockProblem(w, "platforms") = {}
       /\ Problem("platforms", /\ Present(w, "platforms") /\ w.platforms # Malformed
                               /\ w.platforms = <<>> \/ ~(ToSet(w.platforms) \subseteq Triples)) = {}
  BY <1>2, <1>4, <1>9 DEF BlockProblem, Problem
<1>18. Problem("installer without a tap",
               LET parsed == ParsedDistribution(w)
               IN "homebrew" \in ToSet(parsed.installers) /\ parsed.homebrew_tap = Null) = {}
  BY <1>2, <1>16 DEF Problem
<1>19. DistributionProblems(w) = {}
  BY <1>5, <1>8, <1>13, <1>17, <1>18 DEF DistributionProblems
<1>. QED
  BY <1>16, <1>19 DEF d, w

\* The list of distributions, whichever key it was written under.
LEMMA DistributionsAgain ==
  ASSUME NEW m, ReadsWell(m)
  PROVE  Distributions(Again(m)) = Distributions(m) /\ DistributionsProblems(Again(m)) = {}
<1>. DEFINE entries == MappingEntries(DistributionEntries(m))
            ds == Distributions(m)
            ws == [i \in DOMAIN ds |-> CanonicalDistribution(ds[i])]
            n == Len(entries)
<1>1. entries \in Seq(ToSet(DistributionEntries(m)))
      /\ \A i \in DOMAIN entries : entries[i] \in ToSet(DistributionEntries(m)) \ {Malformed}
  BY ListsOf, MappingsOf DEF ReadsWell
<1>2. ds = [i \in DOMAIN entries |-> ParsedDistribution(entries[i])]
  BY DEF Distributions
<1>3. DistributionsProblems(m) = {}
  BY FieldParts DEF ReadsWell
<1>. DEFINE packages == [i \in DOMAIN entries |-> ParsedDistribution(entries[i]).package]
<1>4. (\A i \in DOMAIN entries : DistributionProblems(entries[i]) = {})
      /\ ~ (/\ Len(packages) >= 2
            /\ Null \in ToSet(packages) \/ Cardinality(ToSet(packages)) < Len(packages))
  BY <1>3 DEF DistributionsProblems, Problem
<1>5. Built(m).distributions = ds
  BY BuiltParts
<1>6. /\ IsData(Again(m).distributions)
      /\ \A i \in DOMAIN ds : /\ CanonicalDistribution(ds[i]) # Malformed
                              /\ IsData(ds[i].installers) /\ IsData(ds[i].platforms)
                              /\ IsData(ds[i].extra_fields)
  BY <1>5 DEF ReadsWell, IsStructured, Again
<1>7. Declares(Again(m), "distributions") /\ ~Declares(Again(m), "distribution") /\ Again(m).distributions = ws
  BY <1>5, CanonicalShape
<1>8. \A e \in ToSet(DistributionEntries(m)) \ {Malformed} :
        Holds(e, "platforms") => e.platforms \in Seq(ToSet(e.platforms))
  BY DEF ReadsWell, IsFrontmatter
<1>. HIDE DEF entries
<1>9. n \in Nat /\ DOMAIN entries = 1..n /\ DOMAIN ds = 1..n
  BY <1>1, <1>2
<1>10. \A i \in 1..n : ds[i] = ParsedDistribution(entries[i])
  BY <1>2, <1>9
<1>. HIDE DEF ds, n
<1>11. \A i \in 1..n : ws[i] = Written(entries[i]) /\ ws[i] # Malformed
  BY <1>6, <1>9, <1>10 DEF Written
<1>12. \A i \in 1..n : ParsedDistribution(ws[i]) = ds[i] /\ DistributionProblems(ws[i]) = {}
  <2>. TAKE i \in 1..n
  <2>1. DistributionProblems(entries[i]) = {}
        /\ (Holds(entries[i], "platforms") => entries[i].platforms \in Seq(ToSet(entries[i].platforms)))
    BY <1>1, <1>4, <1>8, <1>9
  <2>2. IsData(ParsedDistribution(entries[i]).installers) /\ IsData(ParsedDistribution(entries[i]).platforms)
        /\ IsData(ParsedDistribution(entries[i]).extra_fields)
    BY <1>6, <1>9, <1>10
  <2>. QED
    BY <1>10, <1>11, <2>1, <2>2, DistributionAgain
<1>13. DistributionEntries(Again(m)) = ws
  <2>1. Present(Again(m), "distributions") /\ Again(m).distributions # Malformed
    BY <1>6, <1>7 DEF Present, IsData
  <2>2. AsList(Again(m), "distributions") = Again(m).distributions
    BY <2>1 DEF AsList
  <2>. QED
    BY <1>7, <2>1, <2>2 DEF DistributionEntries
<1>14. ws \in Seq({ws[i] : i \in 1..n}) /\ DOMAIN ws = 1..n
  <2>1. ws = [i \in 1..n |-> CanonicalDistribution(ds[i])]
    BY <1>9
  <2>. HIDE DEF ws
  <2>2. DOMAIN ws = 1..n /\ ws = [i \in 1..n |-> ws[i]]
    BY <2>1
  <2>. QED
    BY <1>9, <2>2
<1>. HIDE DEF ws
<1>15. MappingEntries(ws) = ws /\ Malformed \notin ToSet(ws)
  <2>1. Malformed \notin ToSet(ws)
    BY <1>11, <1>14 DEF ToSet
  <2>. QED
    BY <1>14, <2>1, MappingsOf
<1>16. Distributions(Again(m)) = ds
  <2>1. Distributions(Again(m)) = [i \in 1..n |-> ParsedDistribution(ws[i])]
    BY <1>13, <1>14, <1>15 DEF Distributions
  <2>2. ds = [i \in 1..n |-> ds[i]]
    BY <1>2, <1>9
  <2>. QED
    BY <1>12, <2>1, <2>2
<1>17. packages = [i \in 1..n |-> ParsedDistribution(ws[i]).package]
  BY <1>9, <1>10, <1>12
<1>18. ~Present(Again(m), "distribution")
  BY <1>7 DEF Present
<1>. HIDE DEF packages
<1>19. DistributionsProblems(Again(m)) = {}
  <2>. DEFINE again == [i \in DOMAIN ws |-> ParsedDistribution(ws[i]).package]
  <2>1. again = packages
    BY <1>14, <1>17
  <2>2. Problem("distributions are indistinguishable",
                 /\ Len(again) >= 2
                 /\ Null \in ToSet(again) \/ Cardinality(ToSet(again)) < Len(again)) = {}
    BY <1>4, <2>1 DEF Problem
  <2>3. UNION {DistributionProblems(ws[i]) : i \in DOMAIN ws} = {}
    BY <1>12, <1>14
  <2>4. Problem("both distribution and distributions",
                Present(Again(m), "distribution") /\ Present(Again(m), "distributions")) = {}
        /\ Problem("distribution is no map", Malformed \in ToSet(ws)) = {}
    BY <1>15, <1>18 DEF Problem
  <2>. QED
    BY <1>13, <1>15, <2>2, <2>3, <2>4 DEF DistributionsProblems
<1>. QED
  BY <1>16, <1>19 DEF ds

\* A target of full type reads as itself.
LEMMA TargetAgain ==
  ASSUME NEW t \in TargetType, t.package # Malformed, NEW layout
  PROVE  /\ ParsedTarget(t, layout) = t /\ WithPlaceholders(t) = t
         /\ Null \notin {t.ecosystem, t.registry, t.adapter}
<1>1. /\ Null \notin Ecosystems /\ Null \notin Registries /\ Null \notin Adapters
  BY ContractAssumption
<1>2. /\ t = [ecosystem |-> t.ecosystem, package |-> t.package, registry |-> t.registry, adapter |-> t.adapter]
      /\ t.ecosystem \in Ecosystems /\ t.registry \in Registries /\ t.adapter \in Adapters
  BY DEF TargetType
<1>3. Declares(t, "ecosystem") /\ Declares(t, "package") /\ Declares(t, "registry") /\ Declares(t, "adapter")
  BY <1>2 DEF Declares
<1>4. EnumField(t, "ecosystem", Ecosystems, Null) = t.ecosystem
      /\ EnumField(t, "registry", Registries, Null) = t.registry
      /\ EnumField(t, "adapter", Adapters, Null) = t.adapter
  BY <1>2, <1>3 DEF EnumField
<1>5. ParsedTarget(t, layout) =
        [ecosystem |-> t.ecosystem, package |-> t.package, registry |-> t.registry, adapter |-> t.adapter]
  BY <1>3, <1>4 DEF ParsedTarget
<1>6. WithPlaceholders(t) =
        [ecosystem |-> t.ecosystem, package |-> t.package, registry |-> t.registry, adapter |-> t.adapter]
  BY <1>1, <1>2 DEF WithPlaceholders, Or
<1>. QED
  BY <1>1, <1>2, <1>5, <1>6

\* What is read of a frontmatter without problems needs no placeholder.
LEMMA TargetsSound ==
  ASSUME NEW m, ReadsWell(m)
  PROVE  LET ts == TargetsOf(m)
             es == EcosystemsOf(m)
         IN /\ ts \in Seq(TargetType)
            /\ \A i \in DOMAIN ts : /\ ts[i] \in TargetType /\ ts[i].package # Malformed
                                    /\ es # <<>> => ts[i].ecosystem \in ToSet(es)
                                    /\ CompatProblems(ts[i]) = {}
<1>. DEFINE ts == TargetsOf(m)
            es == EcosystemsOf(m)
            layout == ReleaseBlock(m).layout
<1>1. ts \in Seq(TargetType) /\ es \in Seq(Ecosystems)
  BY TargetsTyped DEF ReadsWell
<1>2. \A i \in DOMAIN ts : ts[i] \in TargetType
  <2>. HIDE DEF ts
  <2>. QED
    BY <1>1
<1>3. CASE ~Present(m, "targets")
  <2>1. ts = ExpandTargets(es, layout)
    BY <1>3 DEF TargetsOf, Targets
  <2>. HIDE DEF ts, es, layout
  <2>2. DOMAIN ts = DOMAIN es /\ ts = [i \in DOMAIN es |-> MadeUp(es[i], layout)]
    BY <2>1 DEF ExpandTargets, MadeUp
  <2>3. \A i \in DOMAIN ts : ts[i].package = Null /\ ts[i].ecosystem = es[i] /\ es[i] \in ToSet(es)
    BY <2>2 DEF MadeUp, ToSet
  <2>4. \A i \in DOMAIN ts : ts[i].registry # "homebrew" /\ ts[i].adapter # "cargo-publish-ci"
    BY <1>1, <2>1, <2>2, MadeUpTargets
  <2>5. \A i \in DOMAIN ts : CompatProblems(ts[i]) = {}
    BY <2>4 DEF CompatProblems, Problem
  <2>. QED
    BY <1>1, <1>2, <2>3, <2>5, ContractAssumption DEF ts, es
<1>4. CASE Present(m, "targets")
  <2>. DEFINE entries == MappingEntries(TargetEntries(m))
              parsed == [i \in DOMAIN entries |-> ParsedTarget(entries[i], layout)]
              row(i) == WithPlaceholders(ParsedTarget(entries[i], layout))
  <2>1. ts = [i \in DOMAIN entries |-> row(i)]
    BY <1>4 DEF TargetsOf, Targets
  <2>2. TargetProblems(m, es, layout) = {}
    BY FieldParts, BuiltParts DEF ReadsWell
  <2>3. /\ \A i \in DOMAIN parsed :
             Null \notin {parsed[i].ecosystem, parsed[i].registry, parsed[i].adapter}
        /\ es # <<>> => \A i \in DOMAIN parsed : parsed[i].ecosystem \in {Null} \cup ToSet(es)
        /\ \A i \in DOMAIN parsed : CompatProblems(parsed[i]) = {}
    <3>1. Problem("target does not parse",
                  \E i \in DOMAIN parsed : Null \in {parsed[i].ecosystem, parsed[i].registry,
                                                     parsed[i].adapter}) = {}
          /\ Problem("target's ecosystem is not declared",
                  /\ es # <<>>
                  /\ \E i \in DOMAIN parsed : parsed[i].ecosystem \notin {Null} \cup ToSet(es)) = {}
          /\ UNION {CompatProblems(parsed[i]) : i \in DOMAIN parsed} = {}
      BY <2>2 DEF TargetProblems
    <3>. HIDE DEF parsed, es
    <3>2. \A i \in DOMAIN parsed : CompatProblems(parsed[i]) = {}
      BY <3>1
    <3>. QED
      BY <3>1, <3>2 DEF Problem
  <2>. HIDE DEF entries
  <2>4. DOMAIN ts = DOMAIN entries /\ DOMAIN parsed = DOMAIN entries
        /\ \A i \in DOMAIN entries : parsed[i] = ParsedTarget(entries[i], layout) /\ ts[i] = row(i)
    BY <2>1
  <2>5. \A e : /\ ParsedTarget(e, layout).package # Malformed
               /\ ParsedTarget(e, layout) = [ecosystem |-> ParsedTarget(e, layout).ecosystem,
                                             package |-> ParsedTarget(e, layout).package,
                                             registry |-> ParsedTarget(e, layout).registry,
                                             adapter |-> ParsedTarget(e, layout).adapter]
    BY ContractAssumption DEF ParsedTarget
  <2>. HIDE DEF parsed
  <2>6. \A i \in DOMAIN entries : row(i) = parsed[i]
    <3>. TAKE i \in DOMAIN entries
    <3>1. parsed[i] = [ecosystem |-> parsed[i].ecosystem, package |-> parsed[i].package,
                       registry |-> parsed[i].registry, adapter |-> parsed[i].adapter]
      BY <2>4, <2>5
    <3>2. WithPlaceholders(parsed[i]) = [ecosystem |-> parsed[i].ecosystem, package |-> parsed[i].package,
                       registry |-> parsed[i].registry, adapter |-> parsed[i].adapter]
      BY <2>3, <2>4 DEF WithPlaceholders, Or
    <3>. QED
      BY <2>4, <3>1, <3>2
  <2>. HIDE DEF ts, row
  <2>7. \A i \in DOMAIN ts : /\ ts[i] = parsed[i] /\ i \in DOMAIN parsed /\ ts[i].package # Malformed
    BY <2>4, <2>5, <2>6
  <2>. QED
    BY <1>1, <1>2, <2>3, <2>7 DEF ts
<1>. QED
  BY <1>3, <1>4

\* The list of targets, spelled out.
LEMMA TargetsAgain ==
  ASSUME NEW m, ReadsWell(m)
  PROVE  /\ TargetsOf(Again(m)) = TargetsOf(m)
         /\ TargetProblems(Again(m), EcosystemsOf(Again(m)), ReleaseBlock(Again(m)).layout) = {}
<1>. DEFINE ts == TargetsOf(m)
            es == EcosystemsOf(m)
            layout == ReleaseBlock(m).layout
            a == Again(m)
<1>1. ts \in Seq(TargetType)
      /\ \A i \in DOMAIN ts : /\ ts[i] \in TargetType /\ ts[i].package # Malformed
                              /\ es # <<>> => ts[i].ecosystem \in ToSet(es)
                              /\ CompatProblems(ts[i]) = {}
  BY TargetsSound
<1>2. Built(m).targets = ts /\ IsData(ts) /\ Malformed \notin ToSet(ts)
  <2>1. Built(m).targets = ts
    BY BuiltParts
  <2>. QED
    BY <2>1 DEF ReadsWell, IsStructured
<1>3. EcosystemsOf(a) = es /\ ReleaseBlock(a).layout = layout
  <2>1. IsStructured(Built(m)) /\ ReleaseProblems(m) = {}
    BY FieldParts DEF ReadsWell
  <2>. QED
    BY <2>1, EcosystemsAgain, ReleaseAgain
<1>4. Declares(a, "targets") /\ a.targets = ts
  <2>1. Declares(a, "targets") /\ a.targets = Built(m).targets
    BY CanonicalShape DEF PlainFields
  <2>. QED
    BY <1>2, <2>1
<1>. HIDE DEF ts, es, layout, a
<1>5. Present(a, "targets") /\ TargetEntries(a) = ts /\ MappingEntries(ts) = ts
  <2>1. Present(a, "targets") /\ TargetEntries(a) = ts
    BY <1>2, <1>4 DEF Present, TargetEntries, IsData
  <2>. QED
    BY <1>1, <1>2, <2>1, MappingsOf
<1>6. \A i \in DOMAIN ts : /\ ParsedTarget(ts[i], layout) = ts[i] /\ WithPlaceholders(ts[i]) = ts[i]
                           /\ Null \notin {ts[i].ecosystem, ts[i].registry, ts[i].adapter}
  BY <1>1, TargetAgain
<1>7. Targets(a, es, layout) = [i \in DOMAIN ts |-> WithPlaceholders(ParsedTarget(ts[i], layout))]
  BY <1>5 DEF Targets
<1>8. Targets(a, es, layout) = ts
  <2>1. ts = [i \in DOMAIN ts |-> ts[i]]
    BY <1>1
  <2>2. Targets(a, es, layout) = [i \in DOMAIN ts |-> ts[i]]
    BY <1>6, <1>7
  <2>. QED
    BY <2>1, <2>2
<1>9. TargetProblems(a, es, layout) = {}
  <2>. DEFINE parsed == [i \in DOMAIN ts |-> ParsedTarget(ts[i], layout)]
  <2>1. parsed = [i \in DOMAIN ts |-> ts[i]] /\ ts = [i \in DOMAIN ts |-> ts[i]]
    BY <1>1, <1>6
  <2>2. parsed = ts
    BY <2>1
  <2>3. /\ Problem("target does not parse",
                  \E i \in DOMAIN parsed : Null \in {parsed[i].ecosystem, parsed[i].registry,
                                                     parsed[i].adapter}) = {}
        /\ Problem("target's ecosystem is not declared",
                  /\ es # <<>>
                  /\ \E i \in DOMAIN parsed :
                       parsed[i].ecosystem \notin {Null} \cup ToSet(es)) = {}
        /\ UNION {CompatProblems(parsed[i]) : i \in DOMAIN parsed} = {}
    <3>. HIDE DEF parsed
    <3>1. UNION {CompatProblems(parsed[i]) : i \in DOMAIN parsed} = {}
      BY <1>1, <2>2
    <3>. QED
      BY <1>1, <1>6, <2>2, <3>1 DEF Problem
  <2>4. BlockProblem(a, "targets") = {} /\ Problem("target is no map", Malformed \in ToSet(ts)) = {}
    BY <1>2, <1>4 DEF BlockProblem, Problem, IsData
  <2>5. TargetProblems(a, es, layout) =
          BlockProblem(a, "targets")
          \cup Problem("target is no map", Malformed \in ToSet(ts))
          \cup Problem("target does not parse",
                       \E i \in DOMAIN parsed : Null \in {parsed[i].ecosystem, parsed[i].registry,
                                                          parsed[i].adapter})
          \cup Problem("target's ecosystem is not declared",
                       /\ es # <<>>
                       /\ \E i \in DOMAIN parsed :
                            parsed[i].ecosystem \notin {Null} \cup ToSet(es))
          \cup (UNION {CompatProblems(parsed[i]) : i \in DOMAIN parsed})
    BY <1>5 DEF TargetProblems
  <2>. HIDE DEF parsed
  <2>. QED
    BY <2>3, <2>4, <2>5
<1>. QED
  BY <1>3, <1>8, <1>9 DEF TargetsOf, ts, es, layout, a

\* Read again, the contract differs in its extra fields only.
LEMMA ContractAgain ==
  ASSUME NEW m, ReadsWell(m), Built(m).versioning # "calver",
         "versioning_pattern" \notin DOMAIN Built(m).extra_fields
  PROVE  /\ Alike(Built(m), Built(Again(m)))
         /\ Built(Again(m)).extra_fields = Merged(Built(m).extra_fields, Only("versioning_pattern", Null))
         /\ FieldProblems(Again(m)) = {}
<1>. DEFINE c == Built(m)
            a == Again(m)
            d == Built(Again(m))
<1>1. /\ IsFrontmatter(m) /\ IsStructured(c) /\ ReleaseProblems(m) = {} /\ ChangelogProblems(m) = {}
      /\ VersioningProblems(m) = {} /\ c.license # Malformed
  BY FieldParts DEF ReadsWell
<1>2. /\ Versioning(a) = Versioning(m) /\ VersioningProblems(a) = {} /\ c.versioning_pattern = Null
  BY <1>1, VersioningAgain
<1>3. /\ ExtraFields(a, KnownKeys) = Merged(c.extra_fields, Only("versioning_pattern", Null))
      /\ ExtraProblems(a, KnownKeys) = {}
  BY <1>1, <1>2, ExtraAgain
<1>4. ReleaseBlock(a) = ReleaseBlock(m) /\ ReleaseProblems(a) = {}
  BY <1>1, ReleaseAgain
<1>5. Changelog(a) = Changelog(m) /\ ChangelogProblems(a) = {}
  BY <1>1, ChangelogAgain
<1>6. EcosystemsOf(a) = EcosystemsOf(m) /\ ListProblem(a, "ecosystems", Ecosystems) = {}
  BY <1>1, EcosystemsAgain
<1>7. TargetsOf(a) = TargetsOf(m) /\ TargetProblems(a, EcosystemsOf(a), ReleaseBlock(a).layout) = {}
  BY TargetsAgain
<1>8. Distributions(a) = Distributions(m) /\ DistributionsProblems(a) = {}
  BY DistributionsAgain
<1>9. /\ \A maturity, targets : HealthBadges(a, maturity, targets) = c.health_badges
      /\ ListProblem(a, "health_badges", Badges) = {}
  BY <1>1, BadgesAgain
<1>10. SchemaProblems(a) = {} /\ License(a) = c.license
  BY SchemaAgain
<1>11. /\ d.status = c.status /\ d.maturity = c.maturity
       /\ d.conventional_commits = c.conventional_commits
       /\ d.contribution_provenance = c.contribution_provenance
       /\ d.provenance_level = c.provenance_level /\ d.docs_site = c.docs_site
       /\ d.dependency_bot = c.dependency_bot
  BY DialsAgain
<1>12. /\ Declares(a, "maturity") /\ EnumProblem(a, "maturity", Maturities) = {}
       /\ EnumProblem(a, "status", {"draft", "approved"}) = {}
       /\ EnumProblem(a, "conventional_commits", BOOLEAN) = {}
       /\ EnumProblem(a, "contribution_provenance", {"dco", "cla", "none"}) = {}
       /\ EnumProblem(a, "provenance_level", {"none", "keyless", "slsa-l3"}) = {}
       /\ EnumProblem(a, "dependency_bot", {"dependabot", "renovate", "none"}) = {}
       /\ EnumProblem(a, "docs_site", DocsSites) = {}
  BY DialsAgain
<1>. HIDE DEF c, a, d
<1>13. /\ d.ecosystems = EcosystemsOf(a) /\ d.targets = TargetsOf(a) /\ d.distributions = Distributions(a)
       /\ d.changelog = Changelog(a) /\ d.release = ReleaseBlock(a)
       /\ d.extra_fields = ExtraFields(a, KnownKeys)
  BY BuiltParts DEF d, a
<1>14. /\ c.ecosystems = EcosystemsOf(m) /\ c.targets = TargetsOf(m) /\ c.distributions = Distributions(m)
       /\ c.changelog = Changelog(m) /\ c.release = ReleaseBlock(m)
  BY BuiltParts DEF c
<1>15. /\ d.health_badges = HealthBadges(a, MaturityOf(a), TargetsOf(a)) /\ d.license = License(a)
       /\ d.versioning = Versioning(a).versioning /\ d.versioning_pattern = Versioning(a).versioning_pattern
  BY BuiltRest DEF d, a
<1>16. c.versioning = Versioning(m).versioning /\ c.versioning_pattern = Versioning(m).versioning_pattern
  BY BuiltRest DEF c
<1>17. Alike(c, d)
  BY <1>2, <1>4, <1>5, <1>6, <1>7, <1>8, <1>9, <1>10, <1>11, <1>13, <1>14, <1>15, <1>16 DEF Alike
<1>18. d.extra_fields = Merged(c.extra_fields, Only("versioning_pattern", Null))
  BY <1>3, <1>13
<1>19. FieldProblems(a) = {}
  <2>1. TargetProblems(a, d.ecosystems, d.release.layout) = {} /\ d.license # Malformed
    BY <1>1, <1>7, <1>10, <1>13, <1>15
  <2>. QED
    BY <1>2, <1>3, <1>4, <1>5, <1>6, <1>8, <1>9, <1>10, <1>12, <2>1, FieldParts DEF d, a
<1>. QED
  BY <1>17, <1>18, <1>19 DEF c, a, d

\* The floors read no extra field.
LEMMA FloorsAlike ==
  ASSUME NEW c, NEW d, Alike(c, d), NEW repo
  PROVE  /\ ReleaseFloors(d) = ReleaseFloors(c) /\ BadgeProblems(d) = BadgeProblems(c)
         /\ HomebrewProblems(d) = HomebrewProblems(c) /\ PublisherProblems(d) = PublisherProblems(c)
         /\ EvidenceProblems(d, repo) = EvidenceProblems(c, repo)
         /\ DistWorkspaceProblems(d, repo) = DistWorkspaceProblems(c, repo)
<1>1. /\ d.maturity = c.maturity /\ d.ecosystems = c.ecosystems /\ d.targets = c.targets
      /\ d.distributions = c.distributions /\ d.release = c.release
      /\ d.provenance_level = c.provenance_level /\ d.health_badges = c.health_badges
      /\ d.license = c.license
  BY DEF Alike
<1>2. /\ \A adapters : HomebrewTargets(d, adapters) = HomebrewTargets(c, adapters)
      /\ InstallsByHomebrew(d) <=> InstallsByHomebrew(c)
      /\ DeclaredTap(d) = DeclaredTap(c) /\ CrateTargets(d) = CrateTargets(c)
  BY <1>1 DEF HomebrewTargets, InstallsByHomebrew, DeclaredTap, CrateTargets
<1>3. ReleaseFloors(d) = ReleaseFloors(c)
  BY <1>1 DEF ReleaseFloors
<1>4. BadgeProblems(d) = BadgeProblems(c)
  BY <1>1 DEF BadgeProblems
<1>5. HomebrewProblems(d) = HomebrewProblems(c)
  BY <1>2 DEF HomebrewProblems
<1>6. PublisherProblems(d) = PublisherProblems(c)
  BY <1>1 DEF PublisherProblems
<1>7. EvidenceProblems(d, repo) = EvidenceProblems(c, repo)
  BY <1>1, <1>2 DEF EvidenceProblems
<1>8. DistWorkspaceProblems(d, repo) = DistWorkspaceProblems(c, repo)
  <2>1. /\ HomebrewTargets(d, {"cargo-dist"}) = HomebrewTargets(c, {"cargo-dist"})
        /\ HomebrewTargets(d, {"homebrew-tap"}) = HomebrewTargets(c, {"homebrew-tap"})
        /\ DeclaredTap(d) = DeclaredTap(c)
    BY <1>2
  <2>2. CASE repo.dist = Null
    BY <2>2 DEF DistWorkspaceProblems
  <2>3. CASE repo.dist # Null
    BY <2>1, <2>3 DEF DistWorkspaceProblems, Problem
  <2>. QED
    BY <2>2, <2>3
<1>. QED
  BY <1>3, <1>4, <1>5, <1>6, <1>7, <1>8

\* The canonical form reads back.
LEMMA ReadsBack == ContractInd => CanonicalReadsBack
<1>. SUFFICES ASSUME ContractInd, Accepted, TheContract.versioning # "calver",
                     "versioning_pattern" \notin DOMAIN TheContract.extra_fields
              PROVE  LET again == NormalizedStr(Canonical(TheContract), TheRepository)
                     IN /\ again.problems = {}
                        /\ again.contract =
                             [TheContract EXCEPT !.extra_fields = Merged(@, Only("versioning_pattern", Null))]
  BY DEF CanonicalReadsBack
<1>. DEFINE m == document
            c == TheContract
            repo == TheRepository
            d == Built(Again(m))
<1>1. /\ c = Built(m) /\ IsFrontmatter(m) /\ IsStructured(c) /\ FieldProblems(m) = {}
      /\ ReleaseFloors(c) = {} /\ BadgeProblems(c) = {} /\ HomebrewProblems(c) = {}
      /\ PublisherProblems(c) = {} /\ EvidenceProblems(c, repo) = {}
      /\ DistWorkspaceProblems(c, repo) = {}
  BY AcceptedOf
<1>2. ReadsWell(m)
  BY <1>1 DEF ReadsWell
<1>3. /\ Alike(c, d) /\ FieldProblems(Again(m)) = {}
      /\ d.extra_fields = Merged(c.extra_fields, Only("versioning_pattern", Null))
  BY <1>1, <1>2, ContractAgain
<1>4. Canonical(c) = Again(m) /\ Again(m) # Malformed
  BY <1>1 DEF Again, IsStructured, IsData
<1>5. Problems(Again(m), repo) = {}
  BY <1>1, <1>3, FloorsAlike, ProblemParts
<1>6. d = [c EXCEPT !.extra_fields = Merged(@, Only("versioning_pattern", Null))]
  <2>1. Built(Again(m)) = [Built(m) EXCEPT !.extra_fields = Built(Again(m)).extra_fields]
    BY <1>1, <1>3, BuiltAlike
  <2>. QED
    BY <1>1, <1>3, <2>1
<1>. HIDE DEF c, d, repo
<1>7. NormalizedStr(Again(m), repo) = [contract |-> d, problems |-> Problems(Again(m), repo)]
  BY <1>4 DEF NormalizedStr, d
<1>. QED
  BY <1>4, <1>5, <1>6, <1>7 DEF c, repo

\* What the normalizer accepts the release can carry out, and it refuses
\* neither what was left out nor what it wrote itself.
THEOREM ContractInvHolds == ContractSpec => []ContractInv
<1>1. ContractInd => ContractInv
  BY ContractTyped, DefaultsPass, FormulaWriters, NonePublished, ReadsBack DEF ContractInv
<1>. QED
  BY <1>1, ContractInvariance, PTL
=============================================================================
