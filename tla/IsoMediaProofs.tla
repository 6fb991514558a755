--------------------------- MODULE IsoMediaProofs ---------------------------
(***************************************************************************)
(* Theorems about ChangeSets and about what IsoMedia makes of it: for any  *)
(* group, any cache that was left and any builds that died, the medium is  *)
(* what is selected, and each change set on it is listed once.             *)
(***************************************************************************)
EXTENDS IsoMedia, FiniteSetTheorems, SequenceTheorems, TLAPS

\* Packages and groups: what a change set is fetched of.
Named == Groups \cup Packages
CsNames == {<<FileBase[t]>> : t \in Named} \cup {<<FileBase[t], i>> : t \in Named, i \in Nat}
Early == {"tree", "kernels", "deps"}
Fetching == {"lookup", "download", "rename", "link"}

\* What a change set of a trove may hold.
WholeOf(t) == {t} \cup (IF t \in Packages THEN Comps[t] ELSE {})

Typed ==
  /\ pc \in Early \cup Fetching \cup {"done", "failed"}
  /\ selected \subseteq Troves
  /\ pkgorder \in Seq(Named) /\ num \in Nat /\ cslist \in Seq(CsNames \X Named)

\* Each package is fetched once; the solver leaves nothing out that is selected.
Ordered ==
  /\ \A i, j \in DOMAIN pkgorder : pkgorder[i] = pkgorder[j] => i = j
  /\ pc \in {"deps", "done"} \cup Fetching => Kernels \cap tree \subseteq selected
  /\ pc \in {"done"} \cup Fetching =>
       VerifyPackageList(pkgorder) /\ \A t \in selected : PkgName(t) \in Range(pkgorder)

\* The list follows the packages, one entry ahead while a change set is fetched.
Numbered ==
  /\ pc \in Early => cslist = <<>> /\ num = 0
  /\ num <= Len(cslist)
  /\ pc \in {"lookup", "done"} => Len(cslist) = num
  /\ pc \in {"download", "rename", "link"} => Len(cslist) = num + 1
  /\ pc \in Fetching => num < Len(pkgorder)
  /\ pc = "done" => num = Len(pkgorder)
  /\ \A i \in 1 .. Len(cslist) : i \in DOMAIN pkgorder /\ cslist[i][2] = pkgorder[i]
  /\ \A i, j \in 1 .. Len(cslist) : cslist[i][1] = cslist[j][1] => i = j

\* The directory has the change set of each entry that is dealt with, whole and no more.
Gathered ==
  /\ DOMAIN csdir = {cslist[i][1] : i \in 1 .. num}
  /\ \A i \in 1 .. num : csdir[cslist[i][1]] = Full(Wanted(pkgorder[i]))

\* The cache may hold what is wrong, but only of the trove in its name.
Cached ==
  /\ \A k \in DOMAIN cache : /\ cache[k] \in [DOMAIN cache[k] -> BOOLEAN]
                             /\ DOMAIN cache[k] # {} /\ DOMAIN cache[k] \subseteq WholeOf(k[1])
  /\ pc = "rename" => temp = {Full(Wanted(Trove))}
  /\ pc = "link" => /\ CacheName(Trove) \in DOMAIN cache
                    /\ cache[CacheName(Trove)] = Full(Wanted(Trove))

MediumInv == Typed /\ Ordered /\ Numbered /\ Gathered /\ Cached

----------------------------------------------------------------------------
(* Least numbers, and induction on a set of numbers.                       *)

LEMMA LeastOf ==
  ASSUME NEW S \in SUBSET Nat, S # {}
  PROVE  \E i \in S : \A j \in S : i <= j
<1>1. PICK i \in S : \A j \in S : <<j, i>> \notin OpToRel(<, Nat)
  BY NatLessThanWellFounded, WFMin, Zenon
<1>2. ASSUME NEW j \in S PROVE i <= j
  <2>1. i \in Nat /\ j \in Nat
    BY <1>1
  <2>2. ~(j < i)
    BY <1>1, <2>1 DEF OpToRel
  <2> QED BY <2>1, <2>2
<1> QED BY <1>2

LEMMA SetInduction ==
  ASSUME NEW M, 0 \in M, \A n \in Nat : n \in M => n + 1 \in M
  PROVE  \A n \in Nat : n \in M
<1> SUFFICES ASSUME Nat \ M # {} PROVE FALSE
  OBVIOUS
<1>1. PICK i \in Nat \ M : \A j \in Nat \ M : i <= j
  BY LeastOf
<1>2. i # 0 /\ i - 1 \in Nat /\ i - 1 \in M
  BY <1>1
<1>3. (i - 1) + 1 = i
  BY <1>1
<1> QED BY <1>1, <1>2, <1>3

LEMMA AppendRange ==
  ASSUME NEW S, NEW s \in Seq(S), NEW e \in S
  PROVE  Range(Append(s, e)) = Range(s) \cup {e}
<1>1. /\ DOMAIN s = 1 .. Len(s) /\ DOMAIN Append(s, e) = 1 .. Len(s) + 1 /\ Len(s) \in Nat
      /\ \A i \in 1 .. Len(s) : Append(s, e)[i] = s[i]
      /\ Append(s, e)[Len(s) + 1] = e
  OBVIOUS
<1>2. ASSUME NEW x \in Range(Append(s, e)) PROVE x \in Range(s) \cup {e}
  <2>1. PICK i \in 1 .. Len(s) + 1 : x = Append(s, e)[i]
    BY <1>1, <1>2 DEF Range
  <2>2. i \in 1 .. Len(s) \/ i = Len(s) + 1
    BY <1>1, <2>1
  <2> QED BY <1>1, <2>1, <2>2 DEF Range
<1>3. ASSUME NEW x \in Range(s) \cup {e} PROVE x \in Range(Append(s, e))
  <2>1. CASE x \in Range(s)
    <3>1. PICK i \in 1 .. Len(s) : x = s[i]
      BY <1>1, <2>1 DEF Range
    <3>2. i \in 1 .. Len(s) + 1
      BY <1>1, <3>1
    <3> QED BY <1>1, <3>1, <3>2 DEF Range
  <2>2. CASE x = e
    <3>1. Len(s) + 1 \in 1 .. Len(s) + 1
      BY <1>1
    <3> QED BY <1>1, <2>2, <3>1 DEF Range
  <2> QED BY <1>3, <2>1, <2>2
<1> QED BY <1>2, <1>3

----------------------------------------------------------------------------
(* The troves, and what trovebucket and gencslist make of them.            *)

LEMMA PkgNameIs ==
  /\ \A t \in Troves : PkgName(t) \in Named
  /\ \A t \in Components : PkgName(t) \in Packages /\ t \in Comps[PkgName(t)]
  /\ \A t \in Named : PkgName(t) = t
<1>1. \A t \in Components : \E p \in Packages : t \in Comps[p]
  BY ChangeSetsAssumption DEF ChangeSetsAssumption
<1>2. Named \cap Components = {}
  BY ChangeSetsAssumption DEF ChangeSetsAssumption, Named
<1> QED BY <1>1, <1>2 DEF PkgName, Named, Troves

\* A file name is found that is not in the list, however many troves would like it.
LEMMA FreshName ==
  ASSUME Typed, NEW t \in Named
  PROVE  /\ CsFilename(t) \in CsNames
         /\ \A i \in 1 .. Len(cslist) : cslist[i][1] # CsFilename(t)
<1> DEFINE taken == {c[1] : c \in Range(cslist)}
           n == Cardinality(taken)
           free == {i \in 0 .. n : <<FileBase[t], i>> \notin taken}
<1>1. cslist \in Seq(CsNames \X Named) /\ DOMAIN cslist = 1 .. Len(cslist) /\ Len(cslist) \in Nat
  BY DEF Typed
<1>2. taken = {cslist[i][1] : i \in 1 .. Len(cslist)}
  BY <1>1 DEF Range
<1>3. IsFiniteSet(taken)
  <2> DEFINE f == [i \in 1 .. Len(cslist) |-> cslist[i][1]]
  <2>1. f \in Surjection(1 .. Len(cslist), taken)
    BY <1>2 DEF Surjection
  <2>2. IsFiniteSet(1 .. Len(cslist))
    BY <1>1, FS_Interval
  <2> HIDE DEF f, taken
  <2> QED BY <2>1, <2>2, FS_Surjection
<1>4. n \in Nat
  BY <1>3, FS_CardinalityType
<1>5. free # {}
  <2> SUFFICES ASSUME free = {} PROVE FALSE
    OBVIOUS
  <2> DEFINE g == [i \in 0 .. n |-> <<FileBase[t], i>>]
  <2>1. \A i \in 0 .. n : g[i] \in taken
    OBVIOUS
  <2>2. g \in Injection(0 .. n, taken)
    <3>1. g \in [0 .. n -> taken]
      BY <2>1
    <3>2. \A i, j \in 0 .. n : g[i] = g[j] => i = j
      OBVIOUS
    <3> HIDE DEF g, taken, n
    <3> QED BY <3>1, <3>2 DEF Injection, IsInjective
  <2>3. Cardinality(0 .. n) = n + 1
    <3> HIDE DEF n
    <3>1. Cardinality(0 .. n) = IF 0 > n THEN 0 ELSE n - 0 + 1
      BY <1>4, FS_Interval
    <3> QED BY <1>4, <3>1
  <2>4. Cardinality(0 .. n) <= n
    <3> HIDE DEF g, taken
    <3> QED BY <1>3, <2>2, FS_Injection
  <2> HIDE DEF n
  <2> QED BY <1>4, <2>3, <2>4
<1>6. PICK i \in free : \A j \in free : i <= j
  <2>1. free \in SUBSET Nat
    BY <1>4
  <2> HIDE DEF free
  <2> QED BY <1>5, <2>1, LeastOf
<1> DEFINE m == CHOOSE k \in free : \A j \in free : k <= j
<1>7. m \in free /\ m \in Nat
  <2>1. m \in free
    <3> HIDE DEF free
    <3> QED BY <1>6
  <2> HIDE DEF m
  <2> QED BY <2>1, <1>4
<1>8. CsFilename(t) = IF <<FileBase[t]>> \notin taken THEN <<FileBase[t]>> ELSE <<FileBase[t], m>>
  BY DEF CsFilename
<1>9. CsFilename(t) \notin taken
  <2> HIDE DEF m
  <2> QED BY <1>7, <1>8
<1>10. CsFilename(t) \in CsNames
  <2> HIDE DEF m, taken
  <2> QED BY <1>7, <1>8 DEF CsNames
<1> QED BY <1>2, <1>9, <1>10

\* _orderValidTroves: every package and group that is selected, or has a component that is,
\* and none twice.
LEMMA OrderIs ==
  ASSUME NEW jobs \in Seq(Troves)
  PROVE  LET order == orderValidTroves(jobs)
         IN  /\ order \in Seq(Named)
             /\ \A i, j \in DOMAIN order : order[i] = order[j] => i = j
             /\ \A k \in DOMAIN jobs : jobs[k] \in selected => PkgName(jobs[k]) \in Range(order)
<1> DEFINE N == Len(jobs)
           Turn(g, n) == IF ~IsJob(jobs[n]) \/ PkgName(jobs[n]) \in Range(g) THEN g
                         ELSE Append(g, PkgName(jobs[n]))
           List(f) == [n \in 0 .. N |->
                         IF n = 0 THEN <<>>
                         ELSE IF ~IsJob(jobs[n]) \/ PkgName(jobs[n]) \in Range(f[n - 1])
                         THEN f[n - 1]
                         ELSE Append(f[n - 1], PkgName(jobs[n]))]
           trvList == CHOOSE f : f = List(f)
<1>1. orderValidTroves(jobs) = trvList[N]
  BY DEF orderValidTroves
<1>2. N \in Nat /\ DOMAIN jobs = 1 .. N /\ \A k \in 1 .. N : jobs[k] \in Troves
  OBVIOUS
<1>0. ASSUME NEW f
       PROVE  /\ DOMAIN List(f) = 0 .. N /\ List(f)[0] = <<>>
              /\ \A n \in 1 .. N : List(f)[n] = Turn(f[n - 1], n)
  BY <1>2
<1>3. \E f : f = List(f)
  <2> DEFINE First(f, m) == /\ DOMAIN f = 0 .. m /\ f[0] = <<>>
                            /\ \A n \in 1 .. m : f[n] = Turn(f[n - 1], n)
             M == {m \in Nat : \E f : First(f, m)}
  <2>1. 0 \in M
    <3>1. First([n \in 0 .. 0 |-> <<>>], 0)
      OBVIOUS
    <3> QED BY <3>1
  <2>2. ASSUME NEW m \in Nat, m \in M PROVE m + 1 \in M
    <3>1. PICK f : First(f, m)
      BY <2>2
    <3> DEFINE h == [n \in 0 .. m + 1 |-> IF n = m + 1 THEN Turn(f[m], m + 1) ELSE f[n]]
    <3> HIDE DEF Turn
    <3>2. h[0] = <<>>
      BY <3>1
    <3>3. ASSUME NEW n \in 1 .. m + 1 PROVE h[n] = Turn(h[n - 1], n)
      <4>1. CASE n = m + 1
        BY <4>1
      <4>2. CASE n # m + 1
        <5>1. n \in 1 .. m /\ n - 1 \in 0 .. m /\ n \in 0 .. m
          BY <4>2
        <5>2. h[n] = f[n] /\ h[n - 1] = f[n - 1]
          BY <5>1
        <5> QED BY <3>1, <5>1, <5>2
      <4> QED BY <4>1, <4>2
    <3>4. First(h, m + 1)
      BY <3>2, <3>3
    <3> HIDE DEF First, h
    <3> QED BY <3>4
  <2>3. N \in M
    <3> HIDE DEF M
    <3> QED BY <1>2, <2>1, <2>2, SetInduction
  <2>4. PICK f : First(f, N)
    BY <2>3
  <2>5. DOMAIN List(f) = 0 .. N /\ \A n \in 0 .. N : List(f)[n] = f[n]
    <3>1. \A n \in 0 .. N : n = 0 \/ n \in 1 .. N
      BY <1>2
    <3> HIDE DEF List, Turn
    <3> QED BY <1>0, <2>4, <3>1
  <2>6. \E g : g = List(f) /\ List(g) = g
    <3>1. \A n \in 0 .. N : n # 0 => n - 1 \in 0 .. N
      BY <1>2
    <3>2. List(List(f)) = List(f)
      BY <2>5, <3>1
    <3> HIDE DEF List
    <3> QED BY <3>2
  <2> HIDE DEF List
  <2> QED BY <2>6
<1>4. trvList = List(trvList)
  <2> HIDE DEF List
  <2> QED BY <1>3
<1> DEFINE Good(n) ==
             /\ trvList[n] \in Seq(Named)
             /\ \A i, j \in DOMAIN trvList[n] : trvList[n][i] = trvList[n][j] => i = j
             /\ \A k \in 1 .. n : jobs[k] \in selected => PkgName(jobs[k]) \in Range(trvList[n])
           G == {n \in Nat : n <= N => Good(n)}
<1> HIDE DEF trvList
<1>5. 0 \in G
  <2>1. trvList[0] = <<>>
    BY <1>2, <1>4
  <2>2. Good(0)
    BY <2>1
  <2> HIDE DEF Good
  <2> QED BY <2>2
<1>6. ASSUME NEW m \in Nat, m \in G PROVE m + 1 \in G
  <2> SUFFICES ASSUME m + 1 <= N PROVE Good(m + 1)
    OBVIOUS
  <2>1. m <= N /\ m + 1 \in 1 .. N /\ (m + 1) - 1 = m /\ m + 1 \in 0 .. N
    BY <1>2
  <2>2. Good(m)
    BY <1>6, <2>1
  <2>3. trvList[m + 1] = Turn(trvList[m], m + 1)
    <3> HIDE DEF List, Turn
    <3>1. List(trvList)[m + 1] = Turn(trvList[(m + 1) - 1], m + 1)
      BY <1>0, <2>1
    <3> QED BY <1>4, <2>1, <3>1
  <2>4. PkgName(jobs[m + 1]) \in Named
    BY <1>2, <2>1, PkgNameIs
  <2> DEFINE s == trvList[m]
             e == PkgName(jobs[m + 1])
  <2>5. CASE trvList[m + 1] = s /\ (~IsJob(jobs[m + 1]) \/ e \in Range(s))
    <3>1. ASSUME NEW k \in 1 .. m + 1, jobs[k] \in selected
          PROVE  PkgName(jobs[k]) \in Range(s)
      <4>1. k \in 1 .. m \/ k = m + 1
        BY <3>1
      <4> QED BY <2>2, <2>5, <3>1, <4>1 DEF IsJob
    <3> QED BY <2>2, <2>5, <3>1
  <2>6. CASE trvList[m + 1] = Append(s, e) /\ e \notin Range(s)
    <3>1. s \in Seq(Named) /\ Len(s) \in Nat /\ DOMAIN s = 1 .. Len(s)
      BY <2>2
    <3> HIDE DEF s, e
    <3>2. /\ Append(s, e) \in Seq(Named) /\ DOMAIN Append(s, e) = 1 .. Len(s) + 1
          /\ \A i \in 1 .. Len(s) : Append(s, e)[i] = s[i]
          /\ Append(s, e)[Len(s) + 1] = e
      BY <2>4, <3>1 DEF e
    <3>3. Range(Append(s, e)) = Range(s) \cup {e}
      BY <2>4, <3>1, AppendRange DEF e
    <3>4. ASSUME NEW k \in 1 .. m + 1, jobs[k] \in selected
          PROVE  PkgName(jobs[k]) \in Range(Append(s, e))
      <4>1. k \in 1 .. m \/ k = m + 1
        BY <3>4
      <4> QED BY <2>2, <3>3, <3>4, <4>1 DEF e, s
    <3>5. ASSUME NEW i \in 1 .. Len(s) + 1, NEW j \in 1 .. Len(s) + 1,
                 Append(s, e)[i] = Append(s, e)[j]
          PROVE  i = j
      <4>1. \A k \in 1 .. Len(s) + 1 : k \in 1 .. Len(s) \/ k = Len(s) + 1
        BY <3>1
      <4>2. \A k \in 1 .. Len(s) : s[k] # e
        BY <2>6, <3>1 DEF Range
      <4>3. \A k, l \in 1 .. Len(s) : s[k] = s[l] => k = l
        BY <2>2, <3>1 DEF s
      <4> QED BY <3>2, <3>5, <4>1, <4>2, <4>3
    <3> QED BY <2>6, <3>2, <3>4, <3>5
  <2> QED BY <2>3, <2>5, <2>6
<1>7. N \in G
  <2> HIDE DEF G
  <2> QED BY <1>2, <1>5, <1>6, SetInduction
<1>8. Good(N)
  BY <1>2, <1>7
<1> HIDE DEF Good
<1> QED BY <1>1, <1>2, <1>8 DEF Good

----------------------------------------------------------------------------
(* The invariant, build step by build step.                                *)

LEMMA FullIs ==
  /\ \A S : DOMAIN Full(S) = S /\ Full(S) \in [S -> BOOLEAN] /\ \A t \in S : Full(S)[t]
  /\ DOMAIN Partial = {}
BY DEF Full, Partial

LEMMA WantedIs ==
  ASSUME NEW t \in Named
  PROVE  Wanted(t) # {} /\ Wanted(t) \subseteq WholeOf(t)
BY DEF Wanted, compNames, IsPackage, getChildren, WholeOf

\* A change set that is found valid has what is wanted and nothing else.
LEMMA ValidIsFull ==
  ASSUME NEW t \in Named, NEW cs, cs \in [DOMAIN cs -> BOOLEAN], DOMAIN cs \subseteq WholeOf(t),
         ValidateChangeSet(t, cs)
  PROVE  cs = Full(Wanted(t))
<1>1. t \in DOMAIN cs /\ cs[t]
  BY DEF ValidateChangeSet
<1>2. DOMAIN cs = Wanted(t) /\ \A x \in DOMAIN cs : cs[x]
  <2>1. CASE t \in Packages
    <3>1. DOMAIN cs \subseteq {t} \cup Comps[t]
      BY <2>1 DEF WholeOf
    <3>2. compNames(t) \subseteq Comps[t] /\ Wanted(t) = {t} \cup compNames(t)
      BY <2>1 DEF compNames, IsPackage, getChildren, Wanted
    <3>3. \A c \in Comps[t] : IF c \in compNames(t) THEN c \in DOMAIN cs /\ cs[c]
                              ELSE c \notin DOMAIN cs
      BY <2>1 DEF ValidateChangeSet, IsPackage
    <3> QED BY <1>1, <3>1, <3>2, <3>3
  <2>2. CASE t \notin Packages
    BY <1>1, <2>2 DEF WholeOf, Wanted, compNames, IsPackage
  <2> QED BY <2>1, <2>2
<1>3. cs = [x \in DOMAIN cs |-> cs[x]]
  OBVIOUS
<1>4. \A x \in DOMAIN cs : cs[x] = TRUE
  BY <1>2
<1> QED BY <1>2, <1>3, <1>4 DEF Full

\* What is selected, and with it what is wanted of each trove, is left alone.
LEMMA WantedSame ==
  ASSUME UNCHANGED <<selected, byDefault>>
  PROVE  /\ \A t : Wanted(t)' = Wanted(t) /\ CacheName(t)' = CacheName(t)
         /\ \A order : VerifyPackageList(order)' = VerifyPackageList(order)
         /\ (Kernels \cap tree \subseteq selected)' = (Kernels \cap tree \subseteq selected)
<1>1. \A p : getChildren(p)' = getChildren(p)
  BY DEF getChildren, isDefault
<1> QED BY <1>1 DEF Wanted, CacheName, compNames, VerifyPackageList

LEMMA InitMedium == Init => MediumInv
<1> SUFFICES ASSUME Init PROVE MediumInv
  OBVIOUS
<1>1. /\ selected = {} /\ pkgorder = <<>> /\ num = 0 /\ csdir = <<>> /\ cslist = <<>>
      /\ pc = "tree" /\ cache \in OldCaches
  BY DEF Init
<1>2. Typed
  BY <1>1 DEF Typed, Early
<1>3. Ordered /\ Numbered /\ Gathered
  BY <1>1 DEF Ordered, Numbered, Gathered, Early, Fetching
<1>4. Cached
  <2> SUFFICES ASSUME NEW k \in DOMAIN cache
               PROVE  /\ cache[k] \in [DOMAIN cache[k] -> BOOLEAN]
                      /\ DOMAIN cache[k] # {} /\ DOMAIN cache[k] \subseteq WholeOf(k[1])
    BY <1>1 DEF Cached
  <2> DEFINE keys == {j \in Packages \X SUBSET Components : j[2] \subseteq Comps[j[1]]}
  <2>1. PICK j \in keys : cache \in {[x \in {j} |-> f] : f \in OldFiles(j)}
    <3>1. cache # <<>>
      OBVIOUS
    <3>2. cache \in {<<>>} \cup UNION {{[x \in {j} |-> f] : f \in OldFiles(j)} : j \in keys}
      BY <1>1 DEF OldCaches
    <3> HIDE DEF keys
    <3> QED BY <3>1, <3>2
  <2>2. k = j /\ cache[k] \in OldFiles(j)
    BY <2>1
  <2> DEFINE p == j[1]
             S == j[2]
             whole == {p} \cup S
  <2>3. p \in Packages /\ S \subseteq Comps[p] /\ p \notin S /\ WholeOf(k[1]) = {p} \cup Comps[p]
    <3>1. p \in Packages /\ S \subseteq Components /\ S \subseteq Comps[p]
      BY <2>1
    <3> QED BY <2>2, <3>1, ChangeSetsAssumption DEF ChangeSetsAssumption, WholeOf
  <2>4. \/ cache[k] = Full(whole)
        \/ \E b \in whole : cache[k] = [c \in whole |-> c # b]
        \/ \E b \in S : cache[k] = Full(whole \ {b})
        \/ \E b \in Comps[p] : cache[k] = Full(whole \cup {b})
    BY <2>2 DEF OldFiles
  <2> HIDE DEF p, S
  <2>5. CASE cache[k] = Full(whole)
    BY <2>3, <2>5, FullIs
  <2>6. ASSUME NEW b \in whole, cache[k] = [c \in whole |-> c # b]
        PROVE  DOMAIN cache[k] = whole /\ cache[k] \in [whole -> BOOLEAN]
    BY <2>6
  <2>7. ASSUME NEW b \in S, cache[k] = Full(whole \ {b})
        PROVE  /\ DOMAIN cache[k] = whole \ {b} /\ cache[k] \in [whole \ {b} -> BOOLEAN]
               /\ p \in DOMAIN cache[k]
    BY <2>3, <2>7, FullIs
  <2>8. ASSUME NEW b \in Comps[p], cache[k] = Full(whole \cup {b})
        PROVE  DOMAIN cache[k] = whole \cup {b} /\ cache[k] \in [whole \cup {b} -> BOOLEAN]
    BY <2>8, FullIs
  <2> QED BY <2>3, <2>4, <2>5, <2>6, <2>7, <2>8
<1> QED BY <1>2, <1>3, <1>4 DEF MediumInv

LEMMA TreeStep == MediumInv /\ CalcGroupHierarchy => MediumInv'
<1> SUFFICES ASSUME MediumInv, CalcGroupHierarchy PROVE MediumInv'
  OBVIOUS
<1>1. /\ pc = "tree" /\ pc' = "kernels" /\ selected' = tree \cap byDefault
      /\ UNCHANGED <<pkgorder, num, cache, csdir, cslist>>
  BY DEF CalcGroupHierarchy
<1>2. tree \subseteq Troves
  BY DEF tree
<1>3. cslist = <<>> /\ num = 0
  BY <1>1 DEF MediumInv, Numbered, Early
<1>4. Typed' /\ Ordered' /\ Numbered'
  BY <1>1, <1>2, <1>3 DEF MediumInv, Typed, Ordered, Numbered, Early, Fetching
<1>5. Gathered' /\ Cached'
  BY <1>1, <1>3 DEF MediumInv, Gathered, Cached
<1> QED BY <1>4, <1>5 DEF MediumInv

LEMMA KernelStep == MediumInv /\ SelectKernels => MediumInv'
<1> SUFFICES ASSUME MediumInv, SelectKernels PROVE MediumInv'
  OBVIOUS
<1>1. /\ pc = "kernels" /\ pc' = "deps" /\ selected' = Select(Kernels \cap tree, selected)
      /\ UNCHANGED <<pkgorder, num, cache, csdir, cslist>>
  BY DEF SelectKernels
<1>2. selected' \subseteq Troves
  BY <1>1 DEF Select, MediumInv, Typed
<1>3. Kernels \cap tree \subseteq selected'
  <2>1. Kernels \cap tree \subseteq Troves
    BY DEF tree
  <2> QED BY <1>1, <2>1 DEF Select
<1>4. cslist = <<>> /\ num = 0
  BY <1>1 DEF MediumInv, Numbered, Early
<1>5. tree' = tree
  BY DEF tree
<1>6. Typed' /\ Ordered' /\ Numbered'
  BY <1>1, <1>2, <1>3, <1>4, <1>5 DEF MediumInv, Typed, Ordered, Numbered, Early, Fetching
<1>7. Gathered' /\ Cached'
  BY <1>1, <1>4 DEF MediumInv, Gathered, Cached
<1> QED BY <1>6, <1>7 DEF MediumInv

LEMMA DepsStep == MediumInv /\ CheckDeps => MediumInv'
<1> SUFFICES ASSUME MediumInv, CheckDeps PROVE MediumInv'
  OBVIOUS
<1>1. pc = "deps" /\ UNCHANGED <<byDefault, selected, num, cache, csdir, cslist>>
  BY DEF CheckDeps
<1>2. cslist = <<>> /\ num = 0 /\ Kernels \cap tree \subseteq selected /\ selected \subseteq Troves
  BY <1>1 DEF MediumInv, Numbered, Early, Ordered, Typed
<1>3. Gathered'
  BY <1>1, <1>2 DEF MediumInv, Gathered
<1>4. tree' = tree /\ \A order : VerifyPackageList(order)' = VerifyPackageList(order)
  BY <1>1, WantedSame DEF tree
<1>5. CASE pc' = "failed" /\ UNCHANGED pkgorder
  <2>1. Typed' /\ Ordered' /\ Numbered'
    BY <1>1, <1>2, <1>5 DEF MediumInv, Typed, Ordered, Numbered, Early, Fetching
  <2>2. Cached'
    BY <1>1, <1>5 DEF MediumInv, Cached
  <2> QED BY <1>3, <2>1, <2>2 DEF MediumInv
<1>6. ASSUME NEW jobs \in JobOrders, pkgorder' = orderValidTroves(jobs),
             pc' = IF ~VerifyPackageList(orderValidTroves(jobs)) THEN "failed"
                   ELSE IF orderValidTroves(jobs) = <<>> THEN "done" ELSE "lookup"
      PROVE  MediumInv'
  <2>1. jobs \in Seq(Troves) /\ Troves \subseteq Range(jobs)
    BY ChangeSetsAssumption DEF ChangeSetsAssumption
  <2>2. /\ pkgorder' \in Seq(Named)
        /\ \A i, j \in DOMAIN pkgorder' : pkgorder'[i] = pkgorder'[j] => i = j
        /\ \A k \in DOMAIN jobs : jobs[k] \in selected => PkgName(jobs[k]) \in Range(pkgorder')
    BY <1>6, <2>1, OrderIs
  <2>3. ASSUME NEW t \in selected PROVE PkgName(t) \in Range(pkgorder')
    <3>1. PICK k \in DOMAIN jobs : jobs[k] = t
      BY <1>2, <2>1 DEF Range
    <3> QED BY <2>2, <3>1
  <2>4. pc' \in {"failed", "done", "lookup"} /\ (pc' # "failed" => VerifyPackageList(pkgorder'))
    BY <1>6
  <2>5. pc' = "lookup" => Len(pkgorder') > 0
    <3>1. pc' = "lookup" => pkgorder' # <<>>
      BY <1>6
    <3> QED BY <2>2, <3>1
  <2>6. pc' = "done" => Len(pkgorder') = 0
    BY <1>6, <2>4
  <2>7. Typed'
    BY <1>1, <1>2, <2>2, <2>4 DEF MediumInv, Typed, Fetching
  <2>8. Ordered'
    <3>1. pc' # "failed" => VerifyPackageList(pkgorder)'
      <4>1. VerifyPackageList(pkgorder)' <=> VerifyPackageList(pkgorder')
        BY <1>1, WantedSame DEF VerifyPackageList, getChildren, isDefault
      <4> QED BY <2>4, <4>1
    <3>2. \A t : PkgName(t)' = PkgName(t)
      BY DEF PkgName
    <3> QED BY <1>1, <1>2, <1>4, <2>2, <2>3, <2>4, <3>1, <3>2 DEF Ordered, Fetching
  <2>9. Numbered'
    BY <1>1, <1>2, <2>4, <2>5, <2>6 DEF Numbered, Early, Fetching
  <2>10. Cached'
    BY <1>1, <2>4 DEF MediumInv, Cached
  <2> QED BY <1>3, <2>7, <2>8, <2>9, <2>10 DEF MediumInv
<1> QED BY <1>5, <1>6 DEF CheckDeps

\* While change sets are fetched, the trove of the turn is a package or a group.
LEMMA TurnIs ==
  ASSUME MediumInv, pc \in Fetching
  PROVE  /\ Trove \in Named /\ num + 1 \in DOMAIN pkgorder
         /\ CacheName(Trove)[1] = Trove
<1>1. pkgorder \in Seq(Named) /\ num \in Nat /\ num < Len(pkgorder)
  BY DEF MediumInv, Typed, Numbered
<1>2. num + 1 \in 1 .. Len(pkgorder) /\ DOMAIN pkgorder = 1 .. Len(pkgorder)
  BY <1>1
<1> QED BY <1>1, <1>2 DEF Trove, CacheName

\* A step of the fetching leaves what is selected and the order alone.
LEMMA OrderedStays ==
  ASSUME MediumInv, pc \in Fetching, pc' \in Fetching \cup {"done", "failed"},
         UNCHANGED <<byDefault, selected, pkgorder>>
  PROVE  Ordered'
<1>1. VerifyPackageList(pkgorder)' = VerifyPackageList(pkgorder)
  BY WantedSame DEF VerifyPackageList, getChildren, isDefault
<1>2. tree' = tree /\ \A t : PkgName(t)' = PkgName(t)
  BY DEF tree, PkgName
<1> QED BY <1>1, <1>2 DEF MediumInv, Ordered, Fetching

LEMMA GatheredStays ==
  ASSUME MediumInv, UNCHANGED <<byDefault, selected, pkgorder, num, csdir>>,
         \A i \in 1 .. num : cslist'[i] = cslist[i]
  PROVE  Gathered'
<1>1. \A t : Wanted(t)' = Wanted(t)
  BY WantedSame
<1>2. \A i \in 1 .. num : Full(Wanted(pkgorder[i]))' = Full(Wanted(pkgorder[i]))
  BY <1>1 DEF Full, Wanted, compNames, getChildren, isDefault
<1>3. {cslist'[i][1] : i \in 1 .. num} = {cslist[i][1] : i \in 1 .. num}
  OBVIOUS
<1>4. \A i \in 1 .. num : csdir[cslist'[i][1]] = Full(Wanted(pkgorder[i]))
  BY DEF MediumInv, Gathered
<1> QED BY <1>2, <1>3, <1>4 DEF MediumInv, Gathered

\* What is wanted of the trove of the turn, when the turn goes on.
LEMMA TurnSame ==
  ASSUME UNCHANGED <<byDefault, selected, pkgorder, num>>
  PROVE  /\ Trove' = Trove /\ CacheName(Trove)' = CacheName(Trove)
         /\ Full(Wanted(Trove))' = Full(Wanted(Trove))
BY DEF Trove, CacheName, Full, Wanted, compNames, getChildren, isDefault

LEMMA LookupStep == MediumInv /\ Lookup => MediumInv'
<1> SUFFICES ASSUME MediumInv, Lookup PROVE MediumInv'
  OBVIOUS
<1> DEFINE k == CacheName(Trove)
           hit == InCache(k) /\ ValidateChangeSet(Trove, cache[k])
           n == Len(cslist)
           e == <<CsFilename(Trove), Trove>>
<1>1. /\ pc = "lookup" /\ UNCHANGED <<byDefault, selected, pkgorder, num, csdir>>
      /\ cslist' = Append(cslist, e)
      /\ cache' = IF hit THEN cache ELSE [x \in DOMAIN cache \ {k} |-> cache[x]]
      /\ pc' = IF hit THEN "link" ELSE "download"
  BY DEF Lookup
<1>2. Trove \in Named /\ num + 1 \in DOMAIN pkgorder /\ k[1] = Trove
  BY <1>1, TurnIs DEF Fetching
<1>3. e \in CsNames \X Named /\ \A i \in 1 .. n : cslist[i][1] # e[1]
  BY <1>2, FreshName DEF MediumInv
<1>4. /\ n = num /\ n \in Nat /\ num < Len(pkgorder) /\ cslist \in Seq(CsNames \X Named)
      /\ \A i \in 1 .. n : i \in DOMAIN pkgorder /\ cslist[i][2] = pkgorder[i]
      /\ \A i, j \in 1 .. n : cslist[i][1] = cslist[j][1] => i = j
  BY <1>1 DEF MediumInv, Numbered, Typed, Fetching
<1> HIDE DEF e, k
<1>5. /\ cslist' \in Seq(CsNames \X Named) /\ Len(cslist') = n + 1
      /\ \A i \in 1 .. n : cslist'[i] = cslist[i]
      /\ cslist'[n + 1] = e
  BY <1>1, <1>3, <1>4
<1>6. Typed'
  BY <1>1, <1>5 DEF MediumInv, Typed, Fetching
<1>7. Ordered'
  BY <1>1, OrderedStays DEF Fetching
<1>8. Numbered'
  <2>1. \A i \in 1 .. n + 1 : i \in 1 .. n \/ i = n + 1
    BY <1>4
  <2>2. e[2] = pkgorder[num + 1]
    BY DEF e, Trove
  <2>3. \A i \in 1 .. n + 1 : i \in DOMAIN pkgorder /\ cslist'[i][2] = pkgorder[i]
    BY <1>2, <1>4, <1>5, <2>1, <2>2
  <2>4. \A i, j \in 1 .. n + 1 : cslist'[i][1] = cslist'[j][1] => i = j
    BY <1>3, <1>4, <1>5, <2>1
  <2>5. pc' \in {"link", "download"} /\ num' = num /\ num <= n + 1
    BY <1>1, <1>4
  <2> QED BY <1>1, <1>4, <1>5, <2>3, <2>4, <2>5 DEF Numbered, Early, Fetching
<1>9. Gathered'
  BY <1>1, <1>4, <1>5, GatheredStays
<1>10. Cached'
  <2>1. \A x \in DOMAIN cache' : x \in DOMAIN cache /\ cache'[x] = cache[x]
    BY <1>1
  <2>2. pc' = "link" => k \in DOMAIN cache' /\ cache'[k] = Full(Wanted(Trove))
    <3> SUFFICES ASSUME hit PROVE k \in DOMAIN cache /\ cache[k] = Full(Wanted(Trove))
      BY <1>1
    <3>1. k \in DOMAIN cache /\ ValidateChangeSet(Trove, cache[k])
      BY DEF InCache
    <3>2. cache[k] \in [DOMAIN cache[k] -> BOOLEAN] /\ DOMAIN cache[k] \subseteq WholeOf(Trove)
      BY <1>2, <3>1 DEF MediumInv, Cached
    <3> QED BY <1>2, <3>1, <3>2, ValidIsFull
  <2>3. CacheName(Trove)' = k /\ Full(Wanted(Trove))' = Full(Wanted(Trove))
    BY <1>1, TurnSame DEF k
  <2>4. pc' # "rename"
    BY <1>1
  <2>5. ASSUME NEW x \in DOMAIN cache'
        PROVE  /\ cache'[x] \in [DOMAIN cache'[x] -> BOOLEAN]
               /\ DOMAIN cache'[x] # {} /\ DOMAIN cache'[x] \subseteq WholeOf(x[1])
    BY <2>1, <2>5 DEF MediumInv, Cached
  <2> QED BY <2>2, <2>3, <2>4, <2>5 DEF Cached
<1> QED BY <1>6, <1>7, <1>8, <1>9, <1>10 DEF MediumInv

LEMMA DownloadStep == MediumInv /\ Download => MediumInv'
<1> SUFFICES ASSUME MediumInv, Download PROVE MediumInv'
  OBVIOUS
<1>1. /\ pc = "download"
      /\ UNCHANGED <<byDefault, selected, pkgorder, num, csdir, cslist, builds, cache>>
      /\ \/ pc' = "download"
         \/ pc' = "rename" /\ temp' = {Full(Wanted(Trove))}
         \/ pc' = "failed"
  BY DEF Download, StartDownload
<1>2. Typed' /\ Numbered'
  BY <1>1 DEF MediumInv, Typed, Numbered, Early, Fetching
<1>3. Ordered'
  BY <1>1, OrderedStays DEF Fetching
<1>4. Gathered'
  BY <1>1, GatheredStays
<1>5. Cached'
  <2>1. Full(Wanted(Trove))' = Full(Wanted(Trove))
    BY <1>1, TurnSame
  <2>2. pc' # "link"
    BY <1>1
  <2> QED BY <1>1, <2>1, <2>2 DEF MediumInv, Cached
<1> QED BY <1>2, <1>3, <1>4, <1>5 DEF MediumInv

LEMMA RenameStep == MediumInv /\ Rename => MediumInv'
<1> SUFFICES ASSUME MediumInv, Rename PROVE MediumInv'
  OBVIOUS
<1> DEFINE k == CacheName(Trove)
           f == CHOOSE g \in temp : TRUE
<1>1. /\ pc = "rename" /\ pc' = "link"
      /\ UNCHANGED <<byDefault, selected, pkgorder, num, csdir, cslist>>
      /\ cache' = [x \in DOMAIN cache \cup {k} |-> IF x = k THEN f ELSE cache[x]]
  BY DEF Rename
<1>2. f = Full(Wanted(Trove))
  BY <1>1 DEF MediumInv, Cached
<1>3. Trove \in Named /\ k[1] = Trove
  BY <1>1, TurnIs DEF Fetching
<1> HIDE DEF k, f
<1>4. f \in [DOMAIN f -> BOOLEAN] /\ DOMAIN f # {} /\ DOMAIN f \subseteq WholeOf(k[1])
  <2>1. DOMAIN f = Wanted(Trove) /\ f \in [Wanted(Trove) -> BOOLEAN]
    BY <1>2, FullIs
  <2>2. Wanted(Trove) # {} /\ Wanted(Trove) \subseteq WholeOf(Trove)
    BY <1>3, WantedIs
  <2> QED BY <1>3, <2>1, <2>2
<1>5. Typed' /\ Numbered'
  BY <1>1 DEF MediumInv, Typed, Numbered, Early, Fetching
<1>6. Ordered'
  BY <1>1, OrderedStays DEF Fetching
<1>7. Gathered'
  BY <1>1, GatheredStays
<1>8. Cached'
  <2>1. /\ DOMAIN cache' = DOMAIN cache \cup {k} /\ cache'[k] = f
        /\ \A x \in DOMAIN cache : x # k => cache'[x] = cache[x]
    BY <1>1
  <2>2. CacheName(Trove)' = k /\ Full(Wanted(Trove))' = f
    BY <1>1, <1>2, TurnSame DEF k
  <2>3. ASSUME NEW x \in DOMAIN cache'
        PROVE  /\ cache'[x] \in [DOMAIN cache'[x] -> BOOLEAN]
               /\ DOMAIN cache'[x] # {} /\ DOMAIN cache'[x] \subseteq WholeOf(x[1])
    <3>1. CASE x = k
      BY <1>4, <2>1, <3>1
    <3>2. CASE x # k
      BY <2>1, <2>3, <3>2 DEF MediumInv, Cached
    <3> QED BY <3>1, <3>2
  <2>4. pc' # "rename"
    BY <1>1
  <2> QED BY <2>1, <2>2, <2>3, <2>4 DEF Cached
<1> QED BY <1>5, <1>6, <1>7, <1>8 DEF MediumInv

LEMMA LinkStep == MediumInv /\ Link => MediumInv'
<1> SUFFICES ASSUME MediumInv, Link PROVE MediumInv'
  OBVIOUS
<1> DEFINE name == Last(cslist)[1]
           cs == cache[CacheName(Trove)]
<1>1. /\ pc = "link" /\ num' = num + 1
      /\ UNCHANGED <<byDefault, selected, pkgorder, cache, temp, cslist>>
      /\ csdir' = [x \in DOMAIN csdir \cup {name} |-> IF x = name THEN cs ELSE csdir[x]]
      /\ pc' = IF num + 1 = Len(pkgorder) THEN "done" ELSE "lookup"
  BY DEF Link
<1>2. /\ num \in Nat /\ Len(cslist) = num + 1 /\ num < Len(pkgorder) /\ Len(pkgorder) \in Nat
      /\ \A i, j \in 1 .. Len(cslist) : cslist[i][1] = cslist[j][1] => i = j
  BY <1>1 DEF MediumInv, Typed, Numbered, Fetching
<1>3. cs = Full(Wanted(Trove)) /\ Trove = pkgorder[num + 1]
  BY <1>1 DEF MediumInv, Cached, Trove
<1>4. name = cslist[num + 1][1]
  BY <1>2 DEF Last
<1>5. pc' \in {"done", "lookup"}
  BY <1>1
<1>6. Typed'
  BY <1>1, <1>2, <1>5 DEF MediumInv, Typed, Fetching
<1>7. Numbered'
  <2>1. pc' = "lookup" => num + 1 < Len(pkgorder)
    BY <1>1, <1>2
  <2>2. pc' = "done" => num + 1 = Len(pkgorder)
    BY <1>1
  <2>3. \A i \in 1 .. Len(cslist) : i \in DOMAIN pkgorder /\ cslist[i][2] = pkgorder[i]
    BY DEF MediumInv, Numbered
  <2> QED BY <1>1, <1>2, <1>5, <2>1, <2>2, <2>3 DEF Numbered, Early, Fetching
<1>8. Ordered'
  BY <1>1, <1>5, OrderedStays DEF Fetching
<1>9. Cached'
  BY <1>1, <1>5 DEF MediumInv, Cached
<1>10. Gathered'
  <2>1. \A i \in 1 .. num + 1 : i \in 1 .. num \/ i = num + 1
    BY <1>2
  <2>2. \A i \in 1 .. num : i \in 1 .. num + 1 /\ i # num + 1
    BY <1>2
  <2>3. num + 1 \in 1 .. num + 1
    BY <1>2
  <2>4. \A i \in 1 .. num : cslist[i][1] # name
    BY <1>2, <1>4, <2>2, <2>3
  <2> HIDE DEF name, cs
  <2>5. DOMAIN csdir' = DOMAIN csdir \cup {name}
    BY <1>1
  <2>6. DOMAIN csdir' = {cslist'[i][1] : i \in 1 .. num'}
    <3>1. {cslist[i][1] : i \in 1 .. num + 1} = {cslist[i][1] : i \in 1 .. num} \cup {name}
      BY <1>4, <2>1, <2>2, <2>3
    <3> QED BY <1>1, <2>5, <3>1 DEF MediumInv, Gathered
  <2>7. csdir'[name] = Full(Wanted(pkgorder[num + 1]))
    BY <1>1, <1>3
  <2>8. ASSUME NEW i \in 1 .. num
        PROVE  csdir'[cslist[i][1]] = Full(Wanted(pkgorder[i]))
    <3>1. cslist[i][1] \in DOMAIN csdir /\ csdir[cslist[i][1]] = Full(Wanted(pkgorder[i]))
      BY DEF MediumInv, Gathered
    <3> QED BY <1>1, <2>4, <3>1
  <2>9. \A i \in 1 .. num + 1 : csdir'[cslist[i][1]] = Full(Wanted(pkgorder[i]))
    BY <1>4, <2>1, <2>7, <2>8
  <2>10. \A i : Full(Wanted(pkgorder[i]))' = Full(Wanted(pkgorder[i]))
    BY <1>1 DEF Full, Wanted, compNames, getChildren, isDefault
  <2>11. cslist' = cslist /\ num' = num + 1
    BY <1>1
  <2> QED BY <2>6, <2>9, <2>10, <2>11 DEF Gathered
<1> QED BY <1>6, <1>7, <1>8, <1>9, <1>10 DEF MediumInv

\* The next build keeps the cache as it is, whatever the one before was at.
LEMMA NextBuildStep == MediumInv /\ NextBuild => MediumInv'
<1> SUFFICES ASSUME MediumInv, NextBuild PROVE MediumInv'
  OBVIOUS
<1>1. /\ selected' = {} /\ pkgorder' = <<>> /\ num' = 0 /\ csdir' = <<>> /\ cslist' = <<>>
      /\ pc' = "tree" /\ cache' = cache
  BY DEF NextBuild
<1>2. Typed' /\ Cached'
  BY <1>1 DEF MediumInv, Typed, Cached, Early
<1>3. Ordered' /\ Numbered' /\ Gathered'
  BY <1>1 DEF Ordered, Numbered, Gathered, Early, Fetching
<1> QED BY <1>2, <1>3 DEF MediumInv

LEMMA MediumStep == MediumInv /\ [Next]_vars => MediumInv'
<1> SUFFICES ASSUME MediumInv, [Next]_vars PROVE MediumInv'
  OBVIOUS
<1>1. CASE UNCHANGED vars
  <2>1. UNCHANGED <<byDefault, selected, pkgorder, num, cache, temp, csdir, cslist, pc>>
    BY <1>1 DEF vars
  <2>2. \A t : Wanted(t)' = Wanted(t) /\ CacheName(t)' = CacheName(t)
    BY <2>1, WantedSame
  <2>3. Typed' /\ Numbered'
    BY <2>1 DEF MediumInv, Typed, Numbered
  <2>4. Ordered'
    <3>1. VerifyPackageList(pkgorder)' = VerifyPackageList(pkgorder)
      BY <2>1 DEF VerifyPackageList, getChildren, isDefault
    <3>2. tree' = tree /\ \A t : PkgName(t)' = PkgName(t)
      BY DEF tree, PkgName
    <3> QED BY <2>1, <3>1, <3>2 DEF MediumInv, Ordered
  <2>5. Gathered'
    BY <2>1, GatheredStays
  <2>6. Cached'
    BY <2>1, TurnSame DEF MediumInv, Cached
  <2> QED BY <2>3, <2>4, <2>5, <2>6 DEF MediumInv
<1> QED
  BY <1>1, TreeStep, KernelStep, DepsStep, LookupStep, DownloadStep, RenameStep, LinkStep,
     NextBuildStep
  DEF Next, Build, Ended

----------------------------------------------------------------------------
(* What the invariant says of the cache and of the medium.                 *)

LEMMA InvNothingHalf == MediumInv => NothingHalfCached
BY FullIs DEF MediumInv, Cached, NothingHalfCached

LEMMA InvSelection == MediumInv => MediumIsSelection
<1> SUFFICES ASSUME MediumInv, pc = "done"
             PROVE  /\ UNION {DOMAIN csdir[f] : f \in DOMAIN csdir} = selected
                    /\ Kernels \cap tree \subseteq selected
                    /\ \A f \in DOMAIN csdir : \A t \in DOMAIN csdir[f] :
                         csdir[f][t] /\ \A g \in DOMAIN csdir \ {f} : t \notin DOMAIN csdir[g]
  BY DEF MediumIsSelection
<1> DEFINE n == Len(pkgorder)
           name(i) == cslist[i][1]
<1>1. /\ pkgorder \in Seq(Named) /\ num = n /\ n \in Nat /\ DOMAIN pkgorder = 1 .. n
      /\ \A i, j \in 1 .. n : pkgorder[i] = pkgorder[j] => i = j
      /\ \A i \in 1 .. n : pkgorder[i] \in Named
  <2>1. pkgorder \in Seq(Named) /\ num = n
    BY DEF MediumInv, Typed, Numbered
  <2>2. n \in Nat /\ DOMAIN pkgorder = 1 .. n /\ \A i \in 1 .. n : pkgorder[i] \in Named
    BY <2>1
  <2>3. \A i, j \in DOMAIN pkgorder : pkgorder[i] = pkgorder[j] => i = j
    BY DEF MediumInv, Ordered
  <2> QED BY <2>1, <2>2, <2>3
<1>2. /\ VerifyPackageList(pkgorder) /\ \A t \in selected : PkgName(t) \in Range(pkgorder)
      /\ Kernels \cap tree \subseteq selected /\ selected \subseteq Troves
  BY DEF MediumInv, Ordered, Typed
<1>3. /\ DOMAIN csdir = {name(i) : i \in 1 .. n}
      /\ \A i \in 1 .. n : csdir[name(i)] = Full(Wanted(pkgorder[i]))
  BY <1>1 DEF MediumInv, Gathered
<1>4. \A i \in 1 .. n : /\ DOMAIN csdir[name(i)] = Wanted(pkgorder[i])
                        /\ \A t \in Wanted(pkgorder[i]) : csdir[name(i)][t]
  BY <1>3, FullIs
<1>5. ASSUME NEW i \in 1 .. n PROVE Wanted(pkgorder[i]) \subseteq selected
  <2>1. pkgorder[i] \in Range(pkgorder)
    BY <1>1 DEF Range
  <2> QED BY <1>2, <2>1 DEF VerifyPackageList, Wanted, compNames
<1>6. ASSUME NEW t \in selected PROVE \E i \in 1 .. n : t \in Wanted(pkgorder[i])
  <2>1. PICK i \in 1 .. n : PkgName(t) = pkgorder[i]
    BY <1>1, <1>2 DEF Range
  <2>2. CASE t \in Components
    <3>1. PkgName(t) \in Packages /\ t \in Comps[PkgName(t)]
      BY <2>2, PkgNameIs
    <3> QED BY <2>1, <3>1 DEF Wanted, compNames, IsPackage, getChildren
  <2>3. CASE t \in Named
    BY <2>1, <2>3, PkgNameIs DEF Wanted
  <2> QED BY <1>2, <2>2, <2>3 DEF Troves, Named
<1>7. ASSUME NEW i \in 1 .. n, NEW j \in 1 .. n, NEW t \in Wanted(pkgorder[i]),
             t \in Wanted(pkgorder[j])
      PROVE  i = j
  <2>1. pkgorder[i] \in Named /\ pkgorder[j] \in Named
    BY <1>1
  <2>2. \A p \in Named : Wanted(p) \subseteq WholeOf(p)
    BY WantedIs
  <2>3. /\ Named \cap Components = {}
        /\ \A p \in Packages : Comps[p] \subseteq Components
        /\ \A p, q \in Packages : \A c \in Components : c \in Comps[p] /\ c \in Comps[q] => p = q
    BY ChangeSetsAssumption DEF ChangeSetsAssumption, Named
  <2>4. t \in WholeOf(pkgorder[i]) /\ t \in WholeOf(pkgorder[j])
    BY <1>7, <2>1, <2>2
  <2>5. pkgorder[i] = pkgorder[j]
    BY <2>1, <2>3, <2>4 DEF WholeOf
  <2> QED BY <1>1, <2>5
<1>8. UNION {DOMAIN csdir[f] : f \in DOMAIN csdir} = selected
  <2>1. ASSUME NEW f \in DOMAIN csdir PROVE DOMAIN csdir[f] \subseteq selected
    BY <1>3, <1>4, <1>5
  <2>2. ASSUME NEW t \in selected PROVE \E f \in DOMAIN csdir : t \in DOMAIN csdir[f]
    BY <1>3, <1>4, <1>6
  <2> QED BY <2>1, <2>2
<1>9. ASSUME NEW f \in DOMAIN csdir, NEW t \in DOMAIN csdir[f]
      PROVE  csdir[f][t] /\ \A g \in DOMAIN csdir \ {f} : t \notin DOMAIN csdir[g]
  <2>1. PICK i \in 1 .. n : f = name(i)
    BY <1>3
  <2>2. csdir[f][t] /\ t \in Wanted(pkgorder[i])
    BY <1>4, <2>1
  <2>3. ASSUME NEW g \in DOMAIN csdir, t \in DOMAIN csdir[g] PROVE g = f
    <3>1. PICK j \in 1 .. n : g = name(j)
      BY <1>3
    <3>2. t \in Wanted(pkgorder[j])
      BY <1>4, <2>3, <3>1
    <3> QED BY <1>7, <2>1, <2>2, <3>1, <3>2
  <2> QED BY <2>2, <2>3
<1> QED BY <1>2, <1>8, <1>9

LEMMA InvListed == MediumInv => ListedOnce
<1> SUFFICES ASSUME MediumInv, NEW i \in 1 .. num
             PROVE  /\ \A j \in 1 .. Len(cslist) : j # i => /\ cslist[j] # cslist[i]
                                                            /\ cslist[j][1] # cslist[i][1]
                    /\ cslist[i][1] \in DOMAIN csdir
                    /\ cslist[i][2] \in DOMAIN csdir[cslist[i][1]]
  BY DEF ListedOnce
<1>1. i \in 1 .. Len(cslist)
  <2>1. num \in Nat /\ Len(cslist) \in Nat /\ num <= Len(cslist)
    BY DEF MediumInv, Typed, Numbered
  <2> QED BY <2>1
<1>2. \A j \in 1 .. Len(cslist) : cslist[j][1] = cslist[i][1] => j = i
  BY <1>1 DEF MediumInv, Numbered
<1>3. cslist[i][2] = pkgorder[i]
  BY <1>1 DEF MediumInv, Numbered
<1>4. cslist[i][1] \in DOMAIN csdir /\ DOMAIN csdir[cslist[i][1]] = Wanted(pkgorder[i])
  BY FullIs DEF MediumInv, Gathered
<1> QED BY <1>2, <1>3, <1>4 DEF Wanted

(* The cache of change sets, the list and the directory go together at     *)
(* every step of a build, and of the builds after it on the same cache.    *)
THEOREM MediumInvHolds == Spec => []MediumInv
BY InitMedium, MediumStep, PTL DEF Spec

(* What ChangeSets does is all that happens to its variables when the      *)
(* discs are filled as well.                                               *)
LEMMA MediaInvariance == SpecMedia => []MediumInv
<1>1. InitMedia => Init
  BY DEF InitMedia
<1>2. [NextMedia]_<<vars, discVars>> => [Next]_vars
  BY DEF NextMedia, ReadList, vars
<1> QED BY <1>1, <1>2, InitMedium, MediumStep, PTL DEF SpecMedia

(* CsCache: for every group, every trove and every build that dies, no     *)
(* file has a name of the cache that was not written to its end.           *)
THEOREM NothingHalfCachedHolds == Spec => []NothingHalfCached
BY MediumInvHolds, InvNothingHalf, PTL

(* trovebucket and gencslist: for every group and every cache that was     *)
(* left, a build that ends has on its medium what is selected and nothing  *)
(* else, each trove once and as the repository has it, and each entry of   *)
(* its list names a file of its own with that trove in it.                 *)
THEOREM MediumIsListedHolds == Spec => []MediumIsListed
<1>1. MediumInv => MediumIsListed
  BY InvSelection, InvListed DEF MediumIsListed
<1> QED BY <1>1, MediumInvHolds, PTL

(* The same of the medium whose list is shared out over the discs.         *)
THEOREM MediaIsListed == SpecMedia => [](MediumIsListed /\ NothingHalfCached)
<1>1. MediumInv => MediumIsListed /\ NothingHalfCached
  BY InvSelection, InvListed, InvNothingHalf DEF MediumIsListed
<1> QED BY <1>1, MediaInvariance, PTL

----------------------------------------------------------------------------
(* The discs.  Ranked lists every member of a set once, in the order.      *)

\* R orders S.
Orders(R, S) ==
  /\ \A x \in S : <<x, x>> \notin R
  /\ \A x, y \in S : x # y => <<x, y>> \in R \/ <<y, x>> \in R
  /\ \A x, y, z \in S : <<x, y>> \in R /\ <<y, z>> \in R => <<x, z>> \in R

LEMMA CardinalityIs ==
  ASSUME NEW S
  PROVE  D!Cardinality(S) = Cardinality(S)
BY DEF D!Cardinality, Cardinality, D!IsFiniteSet, IsFiniteSet

LEMMA RankedIs ==
  ASSUME NEW S, IsFiniteSet(S), NEW R, Orders(R, S)
  PROVE  /\ Cardinality(S) \in Nat
         /\ DOMAIN D!Ranked(S, R) = 1 .. Cardinality(S)
         /\ \A k \in 1 .. Cardinality(S) : D!Ranked(S, R)[k] \in S
         /\ \A x \in S : \E k \in 1 .. Cardinality(S) : D!Ranked(S, R)[k] = x
         /\ \A j, k \in 1 .. Cardinality(S) :
              j < k => <<D!Ranked(S, R)[j], D!Ranked(S, R)[k]>> \in R
         /\ \A j, k \in 1 .. Cardinality(S) : D!Ranked(S, R)[j] = D!Ranked(S, R)[k] => j = k
<1> DEFINE n == Cardinality(S)
           below(x) == {y \in S : <<y, x>> \in R}
           rank == [x \in S |-> Cardinality(below(x))]
           o == D!Ranked(S, R)
<1>1. n \in Nat
  BY FS_CardinalityType
<1>2. ASSUME NEW x \in S
      PROVE  /\ IsFiniteSet(below(x)) /\ IsFiniteSet(below(x) \cup {x})
             /\ rank[x] \in 0 .. n - 1 /\ rank[x] \in Nat
             /\ Cardinality(below(x) \cup {x}) = rank[x] + 1
  <2>1. below(x) \in SUBSET S /\ x \notin below(x) /\ below(x) \cup {x} \in SUBSET S
    BY DEF Orders
  <2>2. IsFiniteSet(below(x)) /\ IsFiniteSet(below(x) \cup {x})
        /\ Cardinality(below(x) \cup {x}) <= n
    BY <2>1, FS_Subset
  <2>3. Cardinality(below(x)) \in Nat
    BY <2>2, FS_CardinalityType
  <2>4. Cardinality(below(x) \cup {x}) = Cardinality(below(x)) + 1
    BY <2>1, <2>2, FS_AddElement
  <2>5. rank[x] = Cardinality(below(x))
    OBVIOUS
  <2> HIDE DEF rank, below, n
  <2> QED BY <1>1, <2>2, <2>3, <2>4, <2>5
<1>3. ASSUME NEW x \in S, NEW y \in S, <<x, y>> \in R PROVE rank[x] < rank[y]
  <2>1. below(x) \cup {x} \in SUBSET below(y)
    BY <1>3 DEF Orders
  <2>2. Cardinality(below(x) \cup {x}) <= Cardinality(below(y))
    <3> HIDE DEF below
    <3> QED BY <1>2, <2>1, FS_Subset
  <2>3. Cardinality(below(y)) = rank[y]
    OBVIOUS
  <2>4. /\ rank[x] \in Nat /\ rank[y] \in Nat
        /\ Cardinality(below(x) \cup {x}) = rank[x] + 1
    <3> HIDE DEF rank, below, n
    <3> QED BY <1>2
  <2> HIDE DEF rank, below, n
  <2> QED BY <2>2, <2>3, <2>4
<1>4. ASSUME NEW x \in S PROVE rank[x] \in 0 .. n - 1 /\ rank[x] \in Nat
  <2> HIDE DEF rank, below, n
  <2> QED BY <1>2
<1>5. ASSUME NEW x \in S, NEW y \in S, rank[x] <= rank[y], x # y PROVE <<x, y>> \in R
  <2>1. rank[x] \in Nat /\ rank[y] \in Nat
    <3> HIDE DEF rank, below, n
    <3> QED BY <1>4
  <2>2. <<y, x>> \in R => rank[y] < rank[x]
    <3> HIDE DEF rank, below, n
    <3> QED BY <1>3
  <2> HIDE DEF rank, below, n
  <2> QED BY <1>5, <2>1, <2>2 DEF Orders
<1>6. rank \in Surjection(S, 0 .. n - 1)
  <2>1. IsFiniteSet(0 .. n - 1) /\ Cardinality(0 .. n - 1) = n
    <3> HIDE DEF n
    <3>1. /\ IsFiniteSet(0 .. n - 1)
          /\ Cardinality(0 .. n - 1) = IF 0 > n - 1 THEN 0 ELSE (n - 1) - 0 + 1
      BY <1>1, FS_Interval
    <3> QED BY <1>1, <3>1
  <2>2. ASSUME NEW x \in S, NEW y \in S, rank[x] = rank[y] PROVE x = y
    <3> HIDE DEF rank, below, n
    <3>1. rank[x] \in Nat /\ rank[y] \in Nat
      BY <1>4
    <3>2. x # y => <<x, y>> \in R /\ <<y, x>> \in R
      BY <1>5, <2>2, <3>1
    <3> QED BY <3>2 DEF Orders
  <2>3. rank \in [S -> 0 .. n - 1]
    <3>1. DOMAIN rank = S /\ rank = [x \in S |-> rank[x]]
      OBVIOUS
    <3> HIDE DEF rank, below, n
    <3> QED BY <1>4, <3>1
  <2> HIDE DEF rank, below
  <2>4. rank \in Injection(S, 0 .. n - 1)
    BY <2>2, <2>3 DEF Injection, IsInjective
  <2> QED BY <2>1, <2>4, FS_Injection
<1>7. DOMAIN o = 1 .. n
  BY CardinalityIs DEF D!Ranked
<1>8. ASSUME NEW k \in 1 .. n PROVE o[k] \in S /\ rank[o[k]] = k - 1
  <2>1. o[k] = CHOOSE x \in S : Cardinality(below(x)) = k - 1
    BY CardinalityIs DEF D!Ranked
  <2>2. PICK x \in S : rank[x] = k - 1
    <3>1. k - 1 \in 0 .. n - 1
      <4> HIDE DEF n
      <4> QED BY <1>1
    <3> HIDE DEF rank, n
    <3> QED BY <1>6, <3>1 DEF Surjection
  <2>3. Cardinality(below(x)) = k - 1
    BY <2>2
  <2>4. o[k] \in S /\ Cardinality(below(o[k])) = k - 1
    <3> HIDE DEF below, rank, o, n
    <3> QED BY <2>1, <2>3
  <2> HIDE DEF o
  <2> QED BY <2>4
<1>9. ASSUME NEW x \in S PROVE rank[x] + 1 \in 1 .. n /\ o[rank[x] + 1] = x
  <2> DEFINE k == rank[x] + 1
  <2>1. k \in 1 .. n /\ k - 1 = rank[x]
    <3> HIDE DEF rank, n
    <3> QED BY <1>1, <1>4
  <2>2. o[k] \in S /\ rank[o[k]] = rank[x]
    <3> HIDE DEF rank, n, o, k
    <3> QED BY <1>8, <2>1
  <2>3. o[k] = x
    <3> HIDE DEF rank, n, o, k
    <3>1. rank[x] \in Nat /\ x # o[k] => <<x, o[k]>> \in R /\ <<o[k], x>> \in R
      BY <1>4, <1>5, <2>2
    <3> QED BY <2>2, <3>1, <1>4 DEF Orders
  <2> QED BY <2>1, <2>3
<1>10. ASSUME NEW j \in 1 .. n, NEW k \in 1 .. n, j < k PROVE <<o[j], o[k]>> \in R
  <2> HIDE DEF rank, n, o
  <2>1. o[j] \in S /\ o[k] \in S /\ rank[o[j]] < rank[o[k]]
    BY <1>1, <1>8, <1>10
  <2>2. rank[o[j]] \in Nat /\ rank[o[k]] \in Nat
    BY <1>4, <2>1
  <2> QED BY <1>5, <2>1, <2>2
<1>11. ASSUME NEW j \in 1 .. n, NEW k \in 1 .. n, o[j] = o[k] PROVE j = k
  <2> HIDE DEF rank, n, o
  <2> QED BY <1>1, <1>8, <1>11
<1> HIDE DEF rank, n, o
<1>12. \A x \in S : \E k \in 1 .. n : o[k] = x
  BY <1>9
<1> QED BY <1>1, <1>7, <1>8, <1>10, <1>11, <1>12 DEF n, o

----------------------------------------------------------------------------
(* Sums.                                                                   *)

\* What a recursion over 1 .. N builds.
BuiltBy(g, base, N, turn) ==
  g[0] = base /\ \A n \in 1 .. N : g[n] = turn[<<g[n - 1], n>>]

LEMMA Recursion ==
  ASSUME NEW X, NEW base, base \in X, NEW N \in Nat, NEW turn, turn \in [X \X (1 .. N) -> X]
  PROVE  \E g : g \in [0 .. N -> X] /\ BuiltBy(g, base, N, turn)
<1> DEFINE First(g, m) == g[0] = base /\ \A n \in 1 .. m : g[n] = turn[<<g[n - 1], n>>]
           M == {m \in Nat : m <= N => \E g \in [0 .. m -> X] : First(g, m)}
<1>1. 0 \in M
  <2>1. [n \in 0 .. 0 |-> base] \in [0 .. 0 -> X] /\ First([n \in 0 .. 0 |-> base], 0)
    OBVIOUS
  <2> QED BY <2>1
<1>2. ASSUME NEW m \in Nat, m \in M PROVE m + 1 \in M
  <2> SUFFICES ASSUME m + 1 <= N PROVE \E h \in [0 .. m + 1 -> X] : First(h, m + 1)
    OBVIOUS
  <2>1. PICK g \in [0 .. m -> X] : First(g, m)
    BY <1>2
  <2> DEFINE h == [n \in 0 .. m + 1 |-> IF n = m + 1 THEN turn[<<g[m], m + 1>>] ELSE g[n]]
  <2>2. m + 1 \in 1 .. N /\ g[m] \in X
    BY <2>1
  <2>3. h \in [0 .. m + 1 -> X]
    BY <2>1, <2>2
  <2>4. h[m + 1] = turn[<<g[m], m + 1>>] /\ \A n \in 0 .. m : h[n] = g[n]
    OBVIOUS
  <2> HIDE DEF h
  <2>5. ASSUME NEW n \in 1 .. m + 1 PROVE h[n] = turn[<<h[n - 1], n>>]
    <3>1. CASE n = m + 1
      <4>1. n - 1 = m /\ h[m] = g[m]
        BY <2>4, <3>1
      <4> QED BY <2>4, <3>1, <4>1
    <3>2. CASE n # m + 1
      <4>1. n \in 1 .. m /\ n \in 0 .. m /\ n - 1 \in 0 .. m
        BY <3>2
      <4> QED BY <2>1, <2>4, <4>1
    <3> QED BY <3>1, <3>2
  <2>6. h[0] = base
    BY <2>1, <2>4
  <2> QED BY <2>3, <2>5, <2>6
<1>3. N \in M
  <2> HIDE DEF M
  <2> QED BY <1>1, <1>2, SetInduction
<1> QED BY <1>3 DEF BuiltBy

\* The sums of the first members of a sequence of numbers.
Sums(s) == CHOOSE f : f = [n \in 0 .. Len(s) |-> IF n = 0 THEN 0 ELSE f[n - 1] + s[n]]

Numbers(s) == Len(s) \in Nat /\ \A n \in 1 .. Len(s) : s[n] \in Nat

LEMMA SumsIs ==
  ASSUME NEW s, Numbers(s)
  PROVE  /\ D!Total(s) = Sums(s)[Len(s)] /\ Sums(s)[0] = 0
         /\ \A n \in 1 .. Len(s) : Sums(s)[n] = Sums(s)[n - 1] + s[n]
         /\ \A n \in 0 .. Len(s) : Sums(s)[n] \in Nat
<1> DEFINE N == Len(s)
           All(f) == [n \in 0 .. N |-> IF n = 0 THEN 0 ELSE f[n - 1] + s[n]]
           turn == [p \in Nat \X (1 .. N) |-> p[1] + s[p[2]]]
<1>1. D!Total(s) = Sums(s)[N]
  BY DEF D!Total, Sums
<1>2. N \in Nat /\ \A n \in 1 .. N : s[n] \in Nat
  BY DEF Numbers
<1>3. turn \in [Nat \X (1 .. N) -> Nat]
  BY <1>2
<1>0. \A r \in Nat, n \in 1 .. N : turn[<<r, n>>] = r + s[n]
  OBVIOUS
<1> HIDE DEF turn, N, All
<1>4. PICK g : g \in [0 .. N -> Nat] /\ BuiltBy(g, 0, N, turn)
  <2>1. N \in Nat /\ 0 \in Nat
    BY <1>2
  <2> QED BY <1>3, <2>1, Recursion
<1>5. ASSUME NEW n \in 1 .. N PROVE g[n] = g[n - 1] + s[n]
  <2>1. n - 1 \in 0 .. N
    BY <1>2
  <2>2. g[n - 1] \in Nat
    BY <1>4, <2>1
  <2> QED BY <1>0, <1>4, <2>2 DEF BuiltBy
<1>6. g = All(g)
  <2>1. \A n \in 0 .. N : n = 0 \/ n \in 1 .. N
    BY <1>2
  <2>2. \A n \in 0 .. N : g[n] = IF n = 0 THEN 0 ELSE g[n - 1] + s[n]
    BY <1>4, <1>5, <2>1 DEF BuiltBy
  <2>3. g = [n \in 0 .. N |-> g[n]]
    BY <1>4
  <2> QED BY <2>2, <2>3 DEF All
<1>7. Sums(s) = All(Sums(s))
  <2>1. Sums(s) = CHOOSE f : f = All(f)
    BY DEF Sums, N, All
  <2> HIDE DEF All
  <2> QED BY <1>6, <2>1
<1> DEFINE f == Sums(s)
<1>8. f[0] = 0 /\ \A n \in 1 .. N : f[n] = f[n - 1] + s[n]
  <2>1. All(f)[0] = 0 /\ \A n \in 1 .. N : All(f)[n] = f[n - 1] + s[n]
    BY <1>2 DEF All
  <2> HIDE DEF All, f
  <2> QED BY <1>7, <2>1 DEF f
<1>9. \A n \in 0 .. N : f[n] \in Nat
  <2> DEFINE M == {n \in Nat : n <= N => f[n] \in Nat}
  <2> HIDE DEF f
  <2>1. 0 \in M
    BY <1>8
  <2>2. ASSUME NEW n \in Nat, n \in M PROVE n + 1 \in M
    <3> SUFFICES ASSUME n + 1 <= N PROVE f[n + 1] \in Nat
      OBVIOUS
    <3>1. n + 1 \in 1 .. N /\ (n + 1) - 1 = n /\ n <= N
      BY <1>2
    <3>2. f[n + 1] = f[n] + s[n + 1] /\ f[n] \in Nat /\ s[n + 1] \in Nat
      BY <1>2, <1>8, <2>2, <3>1
    <3> QED BY <3>2
  <2>3. \A n \in Nat : n \in M
    <3> HIDE DEF M
    <3> QED BY <2>1, <2>2, SetInduction
  <2> QED BY <1>2, <2>3
<1> QED BY <1>1, <1>8, <1>9 DEF N, f

\* Smaller members, a smaller sum.
LEMMA SumsAtMost ==
  ASSUME NEW s, NEW t, Numbers(s), Numbers(t), NEW m \in Nat, m <= Len(s), m <= Len(t),
         \A n \in 1 .. m : s[n] <= t[n]
  PROVE  Sums(s)[m] <= Sums(t)[m]
<1> DEFINE f == Sums(s)
           g == Sums(t)
           M == {n \in Nat : n <= m => f[n] <= g[n]}
<1>1. /\ f[0] = 0 /\ \A n \in 1 .. Len(s) : f[n] = f[n - 1] + s[n]
      /\ \A n \in 0 .. Len(s) : f[n] \in Nat
      /\ g[0] = 0 /\ \A n \in 1 .. Len(t) : g[n] = g[n - 1] + t[n]
      /\ \A n \in 0 .. Len(t) : g[n] \in Nat
      /\ Len(s) \in Nat /\ Len(t) \in Nat
      /\ \A n \in 1 .. Len(s) : s[n] \in Nat
      /\ \A n \in 1 .. Len(t) : t[n] \in Nat
  BY SumsIs DEF Numbers
<1> HIDE DEF f, g
<1>2. 0 \in M
  BY <1>1
<1>3. ASSUME NEW n \in Nat, n \in M PROVE n + 1 \in M
  <2> SUFFICES ASSUME n + 1 <= m PROVE f[n + 1] <= g[n + 1]
    OBVIOUS
  <2>1. /\ n + 1 \in 1 .. Len(s) /\ n + 1 \in 1 .. Len(t) /\ (n + 1) - 1 = n /\ n + 1 \in 1 .. m
        /\ n \in 0 .. Len(s) /\ n \in 0 .. Len(t) /\ f[n] <= g[n]
    BY <1>1, <1>3
  <2>2. f[n + 1] = f[n] + s[n + 1] /\ g[n + 1] = g[n] + t[n + 1]
    BY <1>1, <2>1
  <2>3. f[n] \in Nat /\ g[n] \in Nat /\ s[n + 1] \in Nat /\ t[n + 1] \in Nat /\ s[n + 1] <= t[n + 1]
    BY <1>1, <2>1
  <2> QED BY <2>1, <2>2, <2>3
<1>4. m \in M
  <2> HIDE DEF M
  <2> QED BY <1>2, <1>3, SetInduction
<1> QED BY <1>4 DEF f, g

LEMMA TotalAtMost ==
  ASSUME NEW s, NEW t, Numbers(s), Numbers(t), Len(s) = Len(t), \A n \in 1 .. Len(s) : s[n] <= t[n]
  PROVE  D!Total(s) <= D!Total(t) /\ D!Total(s) \in Nat
<1>1. Len(s) \in Nat
  BY DEF Numbers
<1> QED BY <1>1, SumsIs, SumsAtMost

\* The same members up to m, the same sum.
LEMMA SumsSame ==
  ASSUME NEW s, NEW t, Numbers(s), Numbers(t), NEW m \in Nat, m <= Len(s), m <= Len(t),
         \A n \in 1 .. m : s[n] = t[n]
  PROVE  Sums(s)[m] = Sums(t)[m]
<1>1. \A n \in 1 .. m : s[n] \in Nat
  BY DEF Numbers
<1>2. Sums(s)[m] <= Sums(t)[m] /\ Sums(t)[m] <= Sums(s)[m]
  BY <1>1, SumsAtMost
<1>3. Sums(s)[m] \in Nat /\ Sums(t)[m] \in Nat
  BY SumsIs DEF Numbers
<1> QED BY <1>2, <1>3
\* One member more than nothing.
LEMMA TotalOneMore ==
  ASSUME NEW s, NEW t, Numbers(s), Numbers(t), Len(s) = Len(t), NEW i \in 1 .. Len(s),
         s[i] = 0, \A n \in 1 .. Len(s) : n # i => s[n] = t[n]
  PROVE  D!Total(t) = D!Total(s) + t[i]
<1> DEFINE f == Sums(s)
           g == Sums(t)
           l == Len(s)
           x == t[i]
           M == {n \in Nat : n <= l => g[n] = f[n] + (IF n >= i THEN x ELSE 0)}
<1>1. /\ f[0] = 0 /\ \A n \in 1 .. l : f[n] = f[n - 1] + s[n]
      /\ \A n \in 0 .. l : f[n] \in Nat
      /\ g[0] = 0 /\ \A n \in 1 .. l : g[n] = g[n - 1] + t[n]
      /\ \A n \in 0 .. l : g[n] \in Nat
      /\ l \in Nat /\ x \in Nat /\ i \in 1 .. l
      /\ \A n \in 1 .. l : s[n] \in Nat /\ t[n] \in Nat /\ (n # i => s[n] = t[n])
  BY SumsIs DEF Numbers
<1>2. D!Total(s) = f[l] /\ D!Total(t) = g[l]
  BY SumsIs
<1>3. s[i] = 0 /\ t[i] = x
  OBVIOUS
<1> HIDE DEF f, g, l, x
<1>4. 0 \in M
  BY <1>1
<1>5. ASSUME NEW n \in Nat, n \in M PROVE n + 1 \in M
  <2> SUFFICES ASSUME n + 1 <= l PROVE g[n + 1] = f[n + 1] + (IF n + 1 >= i THEN x ELSE 0)
    OBVIOUS
  <2>1. n + 1 \in 1 .. l /\ (n + 1) - 1 = n /\ n \in 0 .. l
    BY <1>1
  <2>2. g[n] = f[n] + (IF n >= i THEN x ELSE 0) /\ f[n] \in Nat /\ g[n] \in Nat
    BY <1>1, <1>5, <2>1
  <2>3. f[n + 1] = f[n] + s[n + 1] /\ g[n + 1] = g[n] + t[n + 1]
    BY <1>1, <2>1
  <2>4. CASE n + 1 = i
    BY <1>1, <1>3, <2>2, <2>3, <2>4
  <2>5. CASE n + 1 # i
    <3>1. s[n + 1] = t[n + 1] /\ s[n + 1] \in Nat /\ (n >= i <=> n + 1 >= i)
      BY <1>1, <2>1, <2>5
    <3> DEFINE y == s[n + 1]
               z == IF n >= i THEN x ELSE 0
    <3>2. /\ f[n + 1] = f[n] + y /\ g[n + 1] = g[n] + y /\ g[n] = f[n] + z
          /\ y \in Nat /\ z \in Nat /\ z = IF n + 1 >= i THEN x ELSE 0
      BY <1>1, <2>2, <2>3, <3>1
    <3> HIDE DEF y, z
    <3> QED BY <2>2, <3>2
  <2> QED BY <2>4, <2>5
<1>6. l \in M
  <2> HIDE DEF M
  <2> QED BY <1>1, <1>4, <1>5, SetInduction
<1> QED BY <1>1, <1>2, <1>6 DEF x

LEMMA TotalOfNothing ==
  ASSUME NEW s, Numbers(s), \A n \in 1 .. Len(s) : s[n] = 0
  PROVE  D!Total(s) = 0
<1> DEFINE f == Sums(s)
           l == Len(s)
           M == {n \in Nat : n <= l => f[n] = 0}
<1>1. f[0] = 0 /\ l \in Nat /\ \A n \in 1 .. l : f[n] = f[n - 1] + s[n] /\ s[n] = 0
  BY SumsIs DEF Numbers
<1>2. D!Total(s) = f[l]
  BY SumsIs
<1> HIDE DEF f, l
<1>3. 0 \in M
  BY <1>1
<1>4. ASSUME NEW n \in Nat, n \in M PROVE n + 1 \in M
  <2> SUFFICES ASSUME n + 1 <= l PROVE f[n + 1] = 0
    OBVIOUS
  <2>1. n + 1 \in 1 .. l /\ (n + 1) - 1 = n /\ n <= l
    BY <1>1
  <2>2. f[n] = 0
    BY <1>4, <2>1
  <2> QED BY <1>1, <2>1, <2>2
<1>5. l \in M
  <2> HIDE DEF M
  <2> QED BY <1>1, <1>3, <1>4, SetInduction
<1> QED BY <1>1, <1>2, <1>5

LEMMA TotalLonger ==
  ASSUME NEW s, NEW t, Numbers(s), Numbers(t), Len(t) = Len(s) + 1,
         \A n \in 1 .. Len(s) : s[n] = t[n]
  PROVE  D!Total(t) = D!Total(s) + t[Len(s) + 1]
<1> DEFINE l == Len(s)
<1>1. l \in Nat /\ Len(t) = l + 1 /\ l + 1 \in 1 .. Len(t) /\ (l + 1) - 1 = l /\ l <= Len(t)
  BY DEF Numbers
<1>2. Sums(t)[l + 1] = Sums(t)[l] + t[l + 1]
  BY <1>1, SumsIs
<1>3. Sums(s)[l] = Sums(t)[l]
  BY <1>1, SumsSame
<1> QED BY <1>1, <1>2, <1>3, SumsIs

LEMMA MappedIs ==
  ASSUME NEW n \in Nat, NEW w, w \in [1 .. n -> Nat]
  PROVE  Len(w) = n /\ Numbers(w)
<1>1. w \in Seq(Nat)
  OBVIOUS
<1>2. Len(w) \in Nat /\ DOMAIN w = 1 .. Len(w)
  BY <1>1
<1>3. Len(w) = n
  BY <1>2
<1> QED BY <1>3 DEF Numbers

----------------------------------------------------------------------------
(* Bytes and blocks.                                                       *)

LEMMA SpaceIs ==
  ASSUME NEW x \in Nat
  PROVE  /\ D!space(x) \in Nat /\ D!space(x) > 0
         /\ D!filled(x) \in Nat /\ D!filled(x) <= D!space(x)
<1> DEFINE b == isoblocksize
           p == x \div b
           r == x % b
           q == (x + b - 1) \div b
           m == (x + b - 1) % b
<1>1. b \in Nat \ {0}
  BY IsoMediaAssumption DEF IsoMediaAssumption
<1>2. p \in Int /\ r \in 0 .. b - 1 /\ x = b * p + r
  BY <1>1
<1>3. q \in Int /\ m \in 0 .. b - 1 /\ x + b - 1 = b * q + m
  BY <1>1
<1>4. D!space(x) = x + b - r /\ D!filled(x) = b * q
  BY DEF D!space, D!filled
<1> HIDE DEF b, p, q, r, m
<1>5. q >= 0
  <2>1. SUFFICES ASSUME q <= -1 PROVE FALSE
    BY <1>3
  <2>2. b * q <= b * (-1)
    BY <1>1, <1>3, <2>1
  <2> QED BY <1>1, <1>3, <2>2
<1>6. q <= p + 1
  <2>1. SUFFICES ASSUME q >= p + 2 PROVE FALSE
    BY <1>2, <1>3
  <2>2. b * q >= b * (p + 2) /\ b * (p + 2) = b * p + 2 * b
    BY <1>1, <1>2, <1>3, <2>1
  <2> QED BY <1>1, <1>2, <1>3, <2>2
<1>7. b * q <= b * (p + 1) /\ b * (p + 1) = b * p + b
  BY <1>1, <1>2, <1>3, <1>6
<1>8. b * q \in Nat
  BY <1>1, <1>3, <1>5
<1> QED BY <1>1, <1>2, <1>4, <1>7, <1>8

LEMMA FilesFill ==
  ASSUME NEW s \in Seq(Nat)
  PROVE  /\ D!spaceused(s) \in Nat /\ D!Filled(s) \in Nat /\ D!Filled(s) <= D!spaceused(s)
<1> DEFINE u == [i \in 1 .. Len(s) |-> D!space(s[i])]
           v == [i \in 1 .. Len(s) |-> D!filled(s[i])]
<1>1. Len(s) \in Nat /\ \A i \in 1 .. Len(s) : s[i] \in Nat
  OBVIOUS
<1>2. \A i \in 1 .. Len(s) : /\ D!space(s[i]) \in Nat /\ D!filled(s[i]) \in Nat
                             /\ D!filled(s[i]) <= D!space(s[i])
  BY <1>1, SpaceIs
<1>3. u \in [1 .. Len(s) -> Nat] /\ v \in [1 .. Len(s) -> Nat]
      /\ \A i \in 1 .. Len(s) : v[i] <= u[i]
  BY <1>2
<1>4. D!spaceused(s) = D!Total(u) /\ D!Filled(s) = D!Total(v)
  BY DEF D!spaceused, D!Filled
<1> HIDE DEF u, v
<1>5. Len(u) = Len(s) /\ Numbers(u) /\ Len(v) = Len(s) /\ Numbers(v)
  BY <1>1, <1>3, MappedIs
<1>6. D!Total(v) <= D!Total(u) /\ D!Total(v) \in Nat
  BY <1>3, <1>5, TotalAtMost
<1>7. D!Total(u) \in Nat
  <2>1. \A n \in 1 .. Len(u) : u[n] <= u[n]
    BY <1>1, <1>3, <1>5
  <2> QED BY <1>5, <2>1, TotalAtMost
<1> QED BY <1>4, <1>6, <1>7

LEMMA OneFileMore ==
  ASSUME NEW s \in Seq(Nat), NEW x \in Nat
  PROVE  D!Filled(Append(s, x)) = D!Filled(s) + D!filled(x)
<1> DEFINE t == Append(s, x)
           v == [i \in 1 .. Len(s) |-> D!filled(s[i])]
           w == [i \in 1 .. Len(t) |-> D!filled(t[i])]
<1>1. /\ Len(s) \in Nat /\ t \in Seq(Nat) /\ Len(t) = Len(s) + 1 /\ t[Len(s) + 1] = x
      /\ \A i \in 1 .. Len(s) : t[i] = s[i] /\ s[i] \in Nat
      /\ \A i \in 1 .. Len(t) : t[i] \in Nat
  BY AppendProperties
<1> HIDE DEF t
<1>2. v \in [1 .. Len(s) -> Nat] /\ w \in [1 .. Len(t) -> Nat]
  BY <1>1, SpaceIs
<1>3. /\ w[Len(s) + 1] = D!filled(x)
      /\ \A i \in 1 .. Len(s) : v[i] = w[i]
  BY <1>1
<1>4. D!Filled(s) = D!Total(v) /\ D!Filled(t) = D!Total(w)
  BY DEF D!Filled
<1> HIDE DEF v, w
<1>5. Len(v) = Len(s) /\ Numbers(v) /\ Len(w) = Len(t) /\ Numbers(w)
  <2>1. Len(t) \in Nat
    BY <1>1
  <2> QED BY <1>1, <1>2, <2>1, MappedIs
<1> QED BY <1>1, <1>3, <1>4, <1>5, TotalLonger DEF t

----------------------------------------------------------------------------
(* The list, and what some of its lines need.                              *)

Kinds == {"info", "reserved", "base", "plain"}

Listing ==
  /\ Len(list) \in Nat
  /\ \A i \in 1 .. Len(list) :
       list[i].csfile = i /\ list[i].size \in Nat /\ list[i].kind \in Kinds

Spaces(S) == [i \in 1 .. Len(list) |-> IF i \in S THEN D!space(list[i].size) ELSE 0]
Blocks(S) == [i \in 1 .. Len(list) |-> IF i \in S THEN D!filled(list[i].size) ELSE 0]

LEMMA WeightsAre ==
  ASSUME Listing, NEW S
  PROVE  /\ D!SpaceOf(S) = D!Total(Spaces(S)) /\ D!FilledBy(S) = D!Total(Blocks(S))
         /\ Len(Spaces(S)) = Len(list) /\ Numbers(Spaces(S))
         /\ Len(Blocks(S)) = Len(list) /\ Numbers(Blocks(S))
<1>1. Len(list) \in Nat /\ \A i \in 1 .. Len(list) : list[i].size \in Nat
  BY DEF Listing
<1>2. D!SpaceOf(S) = D!Total(Spaces(S)) /\ D!FilledBy(S) = D!Total(Blocks(S))
  BY DEF D!SpaceOf, D!FilledBy, D!Lines, D!Size, Spaces, Blocks
<1>3. \A i \in 1 .. Len(list) : D!space(list[i].size) \in Nat /\ D!filled(list[i].size) \in Nat
  BY <1>1, SpaceIs
<1>4. Spaces(S) \in [1 .. Len(list) -> Nat] /\ Blocks(S) \in [1 .. Len(list) -> Nat]
  BY <1>3 DEF Spaces, Blocks
<1> QED BY <1>1, <1>2, <1>4, MappedIs

LEMMA WeighedIs ==
  ASSUME Listing, NEW S
  PROVE  D!SpaceOf(S) \in Nat /\ D!FilledBy(S) \in Nat /\ D!FilledBy(S) <= D!SpaceOf(S)
<1>1. \A i \in 1 .. Len(list) : list[i].size \in Nat
  BY DEF Listing
<1>2. ASSUME NEW i \in 1 .. Len(list)
      PROVE  Blocks(S)[i] <= Spaces(S)[i] /\ Spaces(S)[i] <= Spaces(S)[i]
  <2> DEFINE x == D!space(list[i].size)
             y == D!filled(list[i].size)
  <2>1. x \in Nat /\ y \in Nat /\ y <= x
    BY <1>1, SpaceIs
  <2>2. /\ Spaces(S)[i] = IF i \in S THEN x ELSE 0
        /\ Blocks(S)[i] = IF i \in S THEN y ELSE 0
    BY DEF Blocks, Spaces
  <2> HIDE DEF x, y
  <2> QED BY <2>1, <2>2
<1>3. D!Total(Blocks(S)) <= D!Total(Spaces(S)) /\ D!Total(Blocks(S)) \in Nat
  BY <1>2, WeightsAre, TotalAtMost
<1>4. D!Total(Spaces(S)) \in Nat
  BY <1>2, WeightsAre, TotalAtMost
<1> QED BY <1>3, <1>4, WeightsAre

LEMMA MoreLines ==
  ASSUME Listing, NEW S, NEW T, S \cap D!Lines \subseteq T
  PROVE  D!SpaceOf(S) <= D!SpaceOf(T)
<1>1. \A i \in 1 .. Len(list) : list[i].size \in Nat
  BY DEF Listing
<1>2. ASSUME NEW i \in 1 .. Len(list) PROVE Spaces(S)[i] <= Spaces(T)[i]
  <2> DEFINE x == D!space(list[i].size)
  <2>1. x \in Nat
    BY <1>1, SpaceIs
  <2>2. /\ Spaces(S)[i] = IF i \in S THEN x ELSE 0
        /\ Spaces(T)[i] = IF i \in T THEN x ELSE 0
        /\ i \in S => i \in T
    BY DEF Spaces, D!Lines
  <2> HIDE DEF x
  <2> QED BY <2>1, <2>2
<1> QED BY <1>2, WeightsAre, TotalAtMost

LEMMA NoLines ==
  ASSUME Listing
  PROVE  D!SpaceOf({}) = 0 /\ D!FilledBy({}) = 0
<1>1. \A i \in 1 .. Len(list) : Spaces({})[i] = 0 /\ Blocks({})[i] = 0
  BY DEF Spaces, Blocks
<1> QED BY <1>1, WeightsAre, TotalOfNothing

LEMMA OneLineMore ==
  ASSUME Listing, NEW S, NEW i \in D!Lines, i \notin S
  PROVE  /\ D!SpaceOf(S \cup {i}) = D!SpaceOf(S) + D!Size(i)
         /\ D!FilledBy(S \cup {i}) = D!FilledBy(S) + D!filled(list[i].size)
         /\ D!Size(i) \in Nat /\ D!Size(i) > 0
<1> DEFINE T == S \cup {i}
<1>1. i \in 1 .. Len(list) /\ list[i].size \in Nat
  BY DEF Listing, D!Lines
<1>2. /\ Spaces(S)[i] = 0 /\ Spaces(T)[i] = D!Size(i)
      /\ Blocks(S)[i] = 0 /\ Blocks(T)[i] = D!filled(list[i].size)
  BY <1>1 DEF Spaces, Blocks, D!Size
<1>3. \A n \in 1 .. Len(list) : n # i => /\ Spaces(S)[n] = Spaces(T)[n]
                                         /\ Blocks(S)[n] = Blocks(T)[n]
  BY DEF Spaces, Blocks
<1> HIDE DEF T
<1>4. D!Total(Spaces(T)) = D!Total(Spaces(S)) + Spaces(T)[i]
  BY <1>1, <1>2, <1>3, WeightsAre, TotalOneMore
<1>5. D!Total(Blocks(T)) = D!Total(Blocks(S)) + Blocks(T)[i]
  BY <1>1, <1>2, <1>3, WeightsAre, TotalOneMore
<1>6. D!Size(i) \in Nat /\ D!Size(i) > 0
  BY <1>1, SpaceIs DEF D!Size
<1> QED BY <1>2, <1>4, <1>5, <1>6, WeightsAre DEF T

LEMMA SizeIs ==
  ASSUME Listing, NEW i \in D!Lines
  PROVE  D!Size(i) \in Nat /\ D!Size(i) > 0
<1>1. i \notin {}
  OBVIOUS
<1> QED BY <1>1, OneLineMore

----------------------------------------------------------------------------
(* The plan.                                                               *)

SoonerPairs == {p \in D!Lines \X D!Lines : D!Sooner(p[1], p[2])}

LEMMA SoonerOrders ==
  ASSUME Listing
  PROVE  /\ IsFiniteSet(D!Lines) /\ Cardinality(D!Lines) = Len(list)
         /\ Orders(SoonerPairs, D!Lines)
<1>1. Len(list) \in Nat /\ D!Lines = 1 .. Len(list)
  BY DEF Listing, D!Lines
<1>2. IsFiniteSet(1 .. Len(list)) /\ Cardinality(1 .. Len(list)) = Len(list)
  <2> DEFINE l == Len(list)
  <2> HIDE DEF l
  <2>1. l \in Nat
    BY <1>1 DEF l
  <2>2. IsFiniteSet(1 .. l) /\ Cardinality(1 .. l) = IF 1 > l THEN 0 ELSE l - 1 + 1
    BY <2>1, FS_Interval
  <2>3. Cardinality(1 .. l) = l
    BY <2>1, <2>2
  <2> QED BY <2>2, <2>3 DEF l
<1> DEFINE turn(k) == [info |-> 1, reserved |-> 2, base |-> 3, plain |-> 4][k]
           kind(i) == list[i].kind
           after(i, j) == IF kind(i) \in {"info", "base"} THEN i < j
                          ELSE \/ D!Size(i) > D!Size(j)
                               \/ D!Size(i) = D!Size(j) /\ i > j
<1>3. \A i, j \in 1 .. Len(list) : D!Sooner(i, j) <=> \/ turn(kind(i)) < turn(kind(j))
                                                      \/ kind(i) = kind(j) /\ after(i, j)
  BY DEF D!Sooner, Listing
<1>4. \A i \in 1 .. Len(list) : i \in Nat /\ D!Size(i) \in Nat /\ kind(i) \in Kinds
  <2>1. \A i \in 1 .. Len(list) : list[i].size \in Nat /\ kind(i) \in Kinds
    BY DEF Listing
  <2>2. \A i \in 1 .. Len(list) : D!space(list[i].size) \in Nat
    BY <2>1, SpaceIs
  <2> HIDE DEF kind
  <2> QED BY <1>1, <2>1, <2>2 DEF D!Size
<1>5. \A k \in Kinds : turn(k) \in Nat /\ \A m \in Kinds : turn(k) = turn(m) => k = m
  BY DEF Kinds
<1> HIDE DEF turn, kind
<1>6. ASSUME NEW i \in 1 .. Len(list), NEW j \in 1 .. Len(list)
      PROVE  /\ i \in Nat /\ D!Size(i) \in Nat /\ turn(kind(i)) \in Nat
             /\ kind(i) = kind(j) <=> turn(kind(i)) = turn(kind(j))
             /\ D!Sooner(i, j) <=> \/ turn(kind(i)) < turn(kind(j))
                                   \/ turn(kind(i)) = turn(kind(j)) /\ after(i, j)
  <2>1. kind(i) \in Kinds /\ kind(j) \in Kinds
    BY <1>4
  <2>2. kind(i) = kind(j) <=> turn(kind(i)) = turn(kind(j))
    BY <1>5, <2>1
  <2>3. turn(kind(i)) \in Nat
    BY <1>5, <2>1
  <2>4. i \in Nat /\ D!Size(i) \in Nat
    BY <1>4
  <2> HIDE DEF after
  <2>5. D!Sooner(i, j) <=> turn(kind(i)) < turn(kind(j)) \/ (kind(i) = kind(j) /\ after(i, j))
    BY <1>3
  <2> QED BY <2>2, <2>3, <2>4, <2>5
<1>7. ASSUME NEW i \in 1 .. Len(list) PROVE ~D!Sooner(i, i)
  BY <1>6
<1>8. ASSUME NEW i \in 1 .. Len(list), NEW j \in 1 .. Len(list), i # j
      PROVE  D!Sooner(i, j) \/ D!Sooner(j, i)
  <2>1. CASE turn(kind(i)) = turn(kind(j))
    <3>1. kind(i) = kind(j) /\ (D!Sooner(i, j) <=> after(i, j)) /\ (D!Sooner(j, i) <=> after(j, i))
      <4> HIDE DEF after
      <4> QED BY <1>6, <2>1
    <3>2. i \in Nat /\ j \in Nat /\ D!Size(i) \in Nat /\ D!Size(j) \in Nat
      BY <1>4
    <3> QED BY <1>8, <3>1, <3>2
  <2>2. CASE turn(kind(i)) # turn(kind(j))
    <3> DEFINE a == turn(kind(i))
               b == turn(kind(j))
    <3> HIDE DEF after
    <3>1. /\ a \in Nat /\ b \in Nat /\ a # b
          /\ a < b => D!Sooner(i, j)
          /\ b < a => D!Sooner(j, i)
      BY <1>6, <2>2
    <3> HIDE DEF a, b
    <3> QED BY <3>1
  <2> QED BY <2>1, <2>2
<1>9. ASSUME NEW i \in 1 .. Len(list), NEW j \in 1 .. Len(list), NEW k \in 1 .. Len(list),
             D!Sooner(i, j), D!Sooner(j, k)
      PROVE  D!Sooner(i, k)
  <2> DEFINE a == turn(kind(i))
             b == turn(kind(j))
             c == turn(kind(k))
  <2>1. /\ a \in Nat /\ b \in Nat /\ c \in Nat
        /\ D!Sooner(i, k) <=> a < c \/ (a = c /\ after(i, k))
    <3> HIDE DEF after
    <3>1. a \in Nat /\ b \in Nat /\ c \in Nat
      BY <1>6
    <3>2. D!Sooner(i, k) <=> a < c \/ (a = c /\ after(i, k))
      BY <1>6
    <3> QED BY <3>1, <3>2
  <2>2. /\ a < b \/ (a = b /\ after(i, j))
        /\ b < c \/ (b = c /\ after(j, k))
    <3> HIDE DEF after
    <3> QED BY <1>6, <1>9
  <2>3. CASE a = b /\ b = c
    <3>1. kind(i) = kind(j) /\ kind(j) = kind(k)
      BY <1>6, <2>3
    <3>2. after(i, j) /\ after(j, k)
      <4> HIDE DEF a, b, c, after
      <4> QED BY <2>1, <2>2, <2>3
    <3>3. /\ i \in Nat /\ j \in Nat /\ k \in Nat
          /\ D!Size(i) \in Nat /\ D!Size(j) \in Nat /\ D!Size(k) \in Nat
      BY <1>4
    <3>4. after(i, k)
      BY <3>1, <3>2, <3>3
    <3> HIDE DEF a, b, c, after
    <3> QED BY <2>1, <2>3, <3>4
  <2>4. CASE ~(a = b /\ b = c)
    <3> HIDE DEF a, b, c, after
    <3> QED BY <2>1, <2>2, <2>4
  <2> QED BY <2>3, <2>4
<1>10. Orders(SoonerPairs, D!Lines)
  BY <1>1, <1>7, <1>8, <1>9 DEF Orders, SoonerPairs
<1> QED BY <1>1, <1>2, <1>10

\* What is known of a plan, and what planning one more line does.
Plans == {r \in [disc : [D!Lines -> Nat], limit : Seq(Int)] : Len(r.limit) >= 1}

PlannedOne(r, q, i) ==
  /\ q.disc[i] >= 1
  /\ \A j \in D!Lines : j # i => q.disc[j] = r.disc[j]
  /\ q.disc[i] = 1 <=> maxisosize > 0 /\ D!Size(i) <= r.limit[1]
  /\ q.limit[1] = r.limit[1] - (IF q.disc[i] = 1 THEN D!Size(i) ELSE 0)

LEMMA PlanOneIs ==
  ASSUME Listing, NEW r \in Plans, NEW i \in D!Lines, NEW later \in Nat
  PROVE  D!PlanOne(r, i, later) \in Plans /\ PlannedOne(r, D!PlanOne(r, i, later), i)
<1> DEFINE fits == {d \in 1 .. Len(r.limit) : maxisosize > 0 /\ D!Size(i) <= r.limit[d]}
           d == IF fits = {} THEN Len(r.limit) + 1 ELSE D!Min(fits)
           q == D!PlanOne(r, i, later)
           s == D!Size(i)
           l == r.limit
<1>1. s \in Nat /\ s > 0 /\ maxisosize \in Nat
  <2>1. D!Size(i) \in Nat /\ D!Size(i) > 0
    BY SizeIs
  <2> QED BY <2>1, IsoMediaAssumption DEF IsoMediaAssumption
<1>2. r.disc \in [D!Lines -> Nat] /\ l \in Seq(Int) /\ Len(l) \in Nat /\ Len(l) >= 1
  BY DEF Plans
<1>3. fits # {} => d \in fits /\ \A e \in fits : d <= e
  <2> SUFFICES ASSUME fits # {} PROVE d \in fits /\ \A e \in fits : d <= e
    OBVIOUS
  <2>1. fits \in SUBSET Nat
    OBVIOUS
  <2> HIDE DEF fits
  <2>2. PICK e \in fits : \A f \in fits : e <= f
    BY <2>1, LeastOf
  <2>3. d = CHOOSE g \in fits : \A f \in fits : g <= f
    BY DEF D!Min
  <2> QED BY <2>2, <2>3
<1>4. d \in Nat /\ d >= 1
  BY <1>2, <1>3
<1>5. d = 1 <=> maxisosize > 0 /\ s <= l[1]
  <2>1. maxisosize > 0 /\ s <= l[1] <=> 1 \in fits
    BY <1>2
  <2>2. fits # {} => d \in 1 .. Len(l) /\ d \in fits
    BY <1>3
  <2>3. fits = {} => d = Len(l) + 1
    OBVIOUS
  <2> HIDE DEF fits, d
  <2>4. 1 \in fits => d = 1
    BY <1>3, <1>4
  <2> QED BY <1>2, <2>1, <2>2, <2>3, <2>4
<1>6. q = [disc |-> [r.disc EXCEPT ![i] = d],
           limit |-> IF fits = {} THEN Append(l, maxisosize - s - later)
                     ELSE [l EXCEPT ![d] = @ - s]]
  BY DEF D!PlanOne
<1>7. /\ q.disc = [r.disc EXCEPT ![i] = d]
      /\ q.limit = IF fits = {} THEN Append(l, maxisosize - s - later)
                   ELSE [l EXCEPT ![d] = @ - s]
      /\ q = [disc |-> q.disc, limit |-> q.limit]
  BY <1>6
<1> HIDE DEF q, d, s, l
<1>8. q.disc \in [D!Lines -> Nat] /\ q.disc[i] = d
      /\ \A j \in D!Lines : j # i => q.disc[j] = r.disc[j]
  BY <1>2, <1>4, <1>7 DEF l
<1>9. q.limit \in Seq(Int) /\ Len(q.limit) >= 1 /\ q.limit[1] = l[1] - (IF d = 1 THEN s ELSE 0)
  <2>1. CASE fits = {}
    <3> DEFINE x == maxisosize - s - later
    <3>1. x \in Int /\ q.limit = Append(l, x)
      BY <1>1, <1>7, <2>1
    <3> HIDE DEF x
    <3>2. q.limit \in Seq(Int) /\ Len(q.limit) = Len(l) + 1 /\ q.limit[1] = l[1] /\ l[1] \in Int
      BY <1>2, <3>1, AppendProperties
    <3>3. d # 1
      BY <1>2, <2>1 DEF d, l
    <3> QED BY <1>2, <3>2, <3>3
  <2>2. CASE fits # {}
    <3>1. q.limit = [l EXCEPT ![d] = l[d] - s] /\ d \in 1 .. Len(l)
      <4>1. d \in 1 .. Len(l)
        BY <1>3, <2>2 DEF l
      <4> HIDE DEF fits
      <4> QED BY <1>7, <2>2, <4>1
    <3>2. l[d] - s \in Int /\ l[1] \in Int /\ 1 \in 1 .. Len(l)
      BY <1>1, <1>2, <3>1
    <3>3. q.limit \in Seq(Int) /\ Len(q.limit) = Len(l)
      <4> DEFINE x == l[d] - s
      <4>1. x \in Int /\ q.limit = [l EXCEPT ![d] = x]
        BY <3>1, <3>2
      <4> HIDE DEF x
      <4> QED BY <1>2, <3>1, <4>1, ExceptSeq
    <3>4. q.limit[1] = IF d = 1 THEN l[d] - s ELSE l[1]
      BY <1>2, <3>1, <3>2
    <3> QED BY <1>1, <1>2, <3>2, <3>3, <3>4
  <2> HIDE DEF fits
  <2> QED BY <2>1, <2>2
<1>10. q \in Plans
  <2> HIDE DEF fits
  <2> QED BY <1>7, <1>8, <1>9 DEF Plans
<1>11. PlannedOne(r, q, i)
  <2> HIDE DEF fits
  <2>1. q.disc[i] = d /\ d >= 1 /\ (d = 1 <=> maxisosize > 0 /\ D!Size(i) <= r.limit[1])
    BY <1>4, <1>5, <1>8 DEF s, l
  <2>2. q.limit[1] = r.limit[1] - (IF q.disc[i] = 1 THEN D!Size(i) ELSE 0)
    BY <1>8, <1>9 DEF s, l
  <2> QED BY <1>8, <2>1, <2>2 DEF PlannedOne
<1> QED BY <1>10, <1>11 DEF q

\* The plan turn by turn.
PlannedBy(g, first, later) ==
  /\ g[0] = [disc |-> [i \in D!Lines |-> 0], limit |-> <<maxisosize - first>>]
  /\ \A n \in 1 .. Len(list) : g[n] = D!PlanOne(g[n - 1], D!Arranged[n], later)

LEMMA PlannedTurns ==
  ASSUME Listing, NEW first \in Nat, NEW later \in Nat
  PROVE  /\ D!Planned(first, later) \in [0 .. Len(list) -> Plans]
         /\ PlannedBy(D!Planned(first, later), first, later)
<1> DEFINE N == Len(list)
           base == [disc |-> [i \in D!Lines |-> 0], limit |-> <<maxisosize - first>>]
           turn == [p \in Plans \X (1 .. N) |-> D!PlanOne(p[1], D!Arranged[p[2]], later)]
           All(f) == [n \in 0 .. N |-> IF n = 0 THEN base
                                       ELSE D!PlanOne(f[n - 1], D!Arranged[n], later)]
<1>1. N \in Nat /\ D!Lines = 1 .. N
  BY DEF Listing, D!Lines
<1>2. \A n \in 1 .. N : D!Arranged[n] \in D!Lines
  <2> HIDE DEF N
  <2>1. /\ IsFiniteSet(D!Lines) /\ Cardinality(D!Lines) = N /\ Orders(SoonerPairs, D!Lines)
    BY SoonerOrders DEF N
  <2>2. D!Arranged = D!Ranked(D!Lines, SoonerPairs)
    BY DEF D!Arranged, SoonerPairs
  <2> QED BY <2>1, <2>2, RankedIs
<1>3. base \in Plans
  <2>1. maxisosize - first \in Int
    BY IsoMediaAssumption DEF IsoMediaAssumption
  <2> QED BY <2>1 DEF Plans
<1>4. \A r \in Plans, n \in 1 .. N : turn[<<r, n>>] = D!PlanOne(r, D!Arranged[n], later)
  OBVIOUS
<1>5. turn \in [Plans \X (1 .. N) -> Plans]
  <2>1. \A r \in Plans, n \in 1 .. N : D!PlanOne(r, D!Arranged[n], later) \in Plans
    BY <1>2, PlanOneIs
  <2> HIDE DEF N
  <2> QED BY <2>1
<1> HIDE DEF turn, N, base, All
<1>6. PICK g : g \in [0 .. N -> Plans] /\ BuiltBy(g, base, N, turn)
  BY <1>1, <1>3, <1>5, Recursion
<1>7. ASSUME NEW n \in 1 .. N PROVE g[n] = D!PlanOne(g[n - 1], D!Arranged[n], later)
  <2>1. n - 1 \in 0 .. N
    BY <1>1
  <2>2. g[n - 1] \in Plans
    BY <1>6, <2>1
  <2> QED BY <1>4, <1>6, <2>2 DEF BuiltBy
<1>8. g = All(g)
  <2>1. \A n \in 0 .. N : n = 0 \/ n \in 1 .. N
    BY <1>1
  <2>2. \A n \in 0 .. N : g[n] = IF n = 0 THEN base
                                ELSE D!PlanOne(g[n - 1], D!Arranged[n], later)
    BY <1>6, <1>7, <2>1 DEF BuiltBy
  <2>3. g = [n \in 0 .. N |-> g[n]]
    BY <1>6
  <2> QED BY <2>2, <2>3 DEF All
<1> DEFINE f == D!Planned(first, later)
<1>9. f = All(f)
  <2>1. f = CHOOSE h : h = All(h)
    BY DEF D!Planned, N, All, base
  <2> HIDE DEF All, f
  <2> QED BY <1>8, <2>1
<1> HIDE DEF f
<1>10. f[0] = base /\ \A n \in 1 .. N : f[n] = D!PlanOne(f[n - 1], D!Arranged[n], later)
  <2>1. /\ All(f)[0] = base
        /\ \A n \in 1 .. N : All(f)[n] = D!PlanOne(f[n - 1], D!Arranged[n], later)
    BY <1>1 DEF All
  <2> HIDE DEF All
  <2> QED BY <1>9, <2>1
<1>11. f \in [0 .. N -> Plans]
  <2> DEFINE M == {n \in Nat : n <= N => f[n] \in Plans}
  <2>1. 0 \in M
    BY <1>3, <1>10
  <2>2. ASSUME NEW n \in Nat, n \in M PROVE n + 1 \in M
    <3> SUFFICES ASSUME n + 1 <= N PROVE f[n + 1] \in Plans
      OBVIOUS
    <3>1. n + 1 \in 1 .. N /\ (n + 1) - 1 = n /\ f[n] \in Plans
      BY <1>1, <2>2
    <3> QED BY <1>2, <1>10, <3>1, PlanOneIs
  <2>3. \A n \in Nat : n \in M
    <3> HIDE DEF M
    <3> QED BY <2>1, <2>2, SetInduction
  <2>4. \A n \in 0 .. N : f[n] \in Plans
    BY <1>1, <2>3
  <2>5. f = [n \in 0 .. N |-> f[n]]
    <3>1. DOMAIN All(f) = 0 .. N
      BY DEF All
    <3>2. All(f) = [n \in 0 .. N |-> All(f)[n]]
      BY DEF All
    <3> HIDE DEF All
    <3> QED BY <1>9, <3>2
  <2> QED BY <2>4, <2>5
<1> QED BY <1>10, <1>11 DEF PlannedBy, f, N, base

\* What holds when the first n lines are planned.
OnFirst(r) == {j \in D!Lines : r.disc[j] = 1}
SoonerOnFirst(r, i) == {j \in OnFirst(r) : D!Sooner(j, i)}

PlannedSoFar(r, n, first) ==
  /\ \A k \in 1 .. Len(list) : k <= n <=> r.disc[D!Arranged[k]] >= 1
  /\ r.limit[1] = maxisosize - first - D!SpaceOf(OnFirst(r))
  /\ OnFirst(r) # {} => r.limit[1] >= 0 /\ maxisosize > 0
  /\ \A i \in D!Lines :
       r.disc[i] > 1 /\ maxisosize > 0
         => first + D!SpaceOf(SoonerOnFirst(r, i)) + D!Size(i) > maxisosize

LEMMA ArrangedIs ==
  ASSUME Listing
  PROVE  /\ \A k \in 1 .. Len(list) : D!Arranged[k] \in D!Lines
         /\ \A x \in D!Lines : \E k \in 1 .. Len(list) : D!Arranged[k] = x
         /\ \A j, k \in 1 .. Len(list) : D!Arranged[j] = D!Arranged[k] => j = k
         /\ \A j, k \in 1 .. Len(list) : j < k => D!Sooner(D!Arranged[j], D!Arranged[k])
<1> DEFINE N == Len(list)
           a == D!Arranged
           L == D!Lines
<1>1. IsFiniteSet(L) /\ Cardinality(L) = N /\ Orders(SoonerPairs, L)
  BY SoonerOrders
<1>2. a = D!Ranked(L, SoonerPairs)
  BY DEF D!Arranged, SoonerPairs
<1> HIDE DEF N, a, L
<1>3. /\ \A k \in 1 .. N : a[k] \in L
      /\ \A x \in L : \E k \in 1 .. N : a[k] = x
      /\ \A j, k \in 1 .. N : j < k => <<a[j], a[k]>> \in SoonerPairs
      /\ \A j, k \in 1 .. N : a[j] = a[k] => j = k
  BY <1>1, <1>2, RankedIs
<1>4. \A i, j \in L : <<i, j>> \in SoonerPairs => D!Sooner(i, j)
  BY DEF SoonerPairs
<1> QED BY <1>3, <1>4 DEF N, a, L

LEMMA OneMorePlanned ==
  ASSUME Listing, NEW first \in Nat, NEW n \in 0 .. Len(list) - 1, NEW r \in Plans, NEW q \in Plans,
         PlannedSoFar(r, n, first), PlannedOne(r, q, D!Arranged[n + 1])
  PROVE  PlannedSoFar(q, n + 1, first)
<1> DEFINE N == Len(list)
           a == D!Arranged
           L == D!Lines
           i == a[n + 1]
           F == OnFirst(r)
           G == OnFirst(q)
<1>1. N \in Nat /\ n + 1 \in 1 .. N /\ maxisosize \in Nat /\ n \in Nat
  BY IsoMediaAssumption DEF Listing, IsoMediaAssumption
<1>2. i \in L /\ \A k \in 1 .. N : a[k] \in L /\ (k # n + 1 => a[k] # i)
  BY <1>1, ArrangedIs
<1>3. r.disc \in [L -> Nat] /\ q.disc \in [L -> Nat]
      /\ r.limit \in Seq(Int) /\ q.limit \in Seq(Int) /\ Len(r.limit) >= 1 /\ Len(q.limit) >= 1
  BY DEF Plans
<1>4. r.limit[1] \in Int /\ q.limit[1] \in Int
  BY <1>3
<1>5. r.disc[i] = 0
  <2>1. ~(r.disc[i] >= 1)
    BY <1>1 DEF PlannedSoFar
  <2> QED BY <1>2, <1>3, <2>1
<1>6. /\ q.disc[i] >= 1
      /\ \A j \in L : j # i => q.disc[j] = r.disc[j]
      /\ q.disc[i] = 1 <=> maxisosize > 0 /\ D!Size(i) <= r.limit[1]
      /\ q.limit[1] = r.limit[1] - (IF q.disc[i] = 1 THEN D!Size(i) ELSE 0)
  BY DEF PlannedOne
<1>7. i \notin F /\ G = (IF q.disc[i] = 1 THEN F \cup {i} ELSE F) /\ F \subseteq L /\ G \subseteq L
  BY <1>2, <1>3, <1>5, <1>6 DEF OnFirst
<1>8. /\ r.limit[1] = maxisosize - first - D!SpaceOf(F)
      /\ F # {} => r.limit[1] >= 0 /\ maxisosize > 0
      /\ \A j \in L : r.disc[j] > 1 /\ maxisosize > 0
                        => first + D!SpaceOf(SoonerOnFirst(r, j)) + D!Size(j) > maxisosize
      /\ \A k \in 1 .. N : k <= n <=> r.disc[a[k]] >= 1
  BY DEF PlannedSoFar
<1>9. D!SpaceOf(F) \in Nat /\ D!SpaceOf(G) \in Nat
      /\ D!SpaceOf(F \cup {i}) = D!SpaceOf(F) + D!Size(i) /\ D!Size(i) \in Nat
  BY <1>2, <1>7, WeighedIs, OneLineMore
<1> HIDE DEF N, a, L, i, F, G
<1>10. q.limit[1] = maxisosize - first - D!SpaceOf(G)
  <2> DEFINE x == r.limit[1]
             y == q.limit[1]
             z == D!Size(i)
  <2> HIDE DEF x, y, z
  <2>1. CASE q.disc[i] = 1
    <3>1. D!SpaceOf(G) = D!SpaceOf(F) + z /\ y = x - z
      BY <1>6, <1>7, <1>9, <2>1 DEF x, y, z
    <3> QED BY <1>1, <1>8, <1>9, <3>1 DEF x, y, z
  <2>2. CASE q.disc[i] # 1
    <3>1. D!SpaceOf(G) = D!SpaceOf(F) /\ y = x - 0
      BY <1>6, <1>7, <2>2 DEF x, y
    <3> QED BY <1>1, <1>4, <1>8, <3>1 DEF x, y
  <2> QED BY <2>1, <2>2
<1>11. G # {} => q.limit[1] >= 0 /\ maxisosize > 0
  BY <1>1, <1>4, <1>6, <1>7, <1>8, <1>9
<1>12. ASSUME NEW k \in 1 .. N PROVE k <= n + 1 <=> q.disc[a[k]] >= 1
  <2>1. CASE k = n + 1
    BY <1>1, <1>6, <2>1 DEF i
  <2>2. CASE k # n + 1
    <3>1. q.disc[a[k]] = r.disc[a[k]] /\ (k <= n + 1 <=> k <= n)
      BY <1>1, <1>2, <1>6, <2>2
    <3> QED BY <1>8, <3>1
  <2> QED BY <2>1, <2>2
<1>13. ASSUME NEW j \in L, q.disc[j] > 1, maxisosize > 0
       PROVE  first + D!SpaceOf(SoonerOnFirst(q, j)) + D!Size(j) > maxisosize
  <2>1. D!SpaceOf(SoonerOnFirst(q, j)) \in Nat /\ D!SpaceOf(SoonerOnFirst(r, j)) \in Nat
        /\ D!Size(j) \in Nat
    <3>1. j \in D!Lines
      BY <1>13 DEF L
    <3>2. D!Size(j) \in Nat
      BY <3>1, SizeIs
    <3> QED BY <3>2, WeighedIs
  <2>2. CASE j = i
    <3>1. G = F /\ D!Size(j) > r.limit[1]
      BY <1>4, <1>6, <1>7, <1>9, <1>13, <2>2
    <3>2. F \subseteq SoonerOnFirst(q, j)
      <4> SUFFICES ASSUME NEW x \in F PROVE D!Sooner(x, i)
        BY <2>2, <3>1 DEF SoonerOnFirst, G
      <4>1. x \in L /\ r.disc[x] = 1
        BY DEF F, OnFirst, L
      <4>2. PICK k \in 1 .. N : a[k] = x
        BY <4>1, ArrangedIs DEF N, a, L
      <4>3. k <= n /\ k < n + 1
        BY <1>1, <1>8, <4>1, <4>2
      <4> QED BY <1>1, <4>2, <4>3, ArrangedIs DEF N, a, i
    <3>3. D!SpaceOf(F) <= D!SpaceOf(SoonerOnFirst(q, j))
      <4>1. F \cap D!Lines \subseteq SoonerOnFirst(q, j)
        BY <3>2
      <4> QED BY <4>1, MoreLines
    <3> QED BY <1>1, <1>4, <1>8, <1>9, <2>1, <3>1, <3>3
  <2>3. CASE j # i
    <3>1. r.disc[j] > 1
      BY <1>6, <1>13, <2>3
    <3>2. SoonerOnFirst(r, j) \cap D!Lines \subseteq SoonerOnFirst(q, j)
      BY <1>7 DEF SoonerOnFirst, F, G
    <3>3. D!SpaceOf(SoonerOnFirst(r, j)) <= D!SpaceOf(SoonerOnFirst(q, j))
      BY <3>2, MoreLines
    <3> QED BY <1>1, <1>8, <1>13, <2>1, <3>1, <3>3
  <2> QED BY <2>2, <2>3
<1> QED BY <1>10, <1>11, <1>12, <1>13 DEF PlannedSoFar, N, a, L, G

LEMMA PlannedIs ==
  ASSUME Listing, NEW first \in Nat, NEW later \in Nat
  PROVE  /\ D!Planned(first, later)[Len(list)] \in Plans
         /\ PlannedSoFar(D!Planned(first, later)[Len(list)], Len(list), first)
<1> DEFINE N == Len(list)
           f == D!Planned(first, later)
           M == {n \in Nat : n <= N => PlannedSoFar(f[n], n, first)}
<1>1. N \in Nat /\ f \in [0 .. N -> Plans] /\ PlannedBy(f, first, later)
  BY PlannedTurns DEF Listing
<1> HIDE DEF f
<1>2. 0 \in M
  <2> DEFINE r == f[0]
             x == maxisosize - first
  <2>1. r = [disc |-> [i \in D!Lines |-> 0], limit |-> <<x>>] /\ x \in Int
    BY <1>1, IsoMediaAssumption DEF PlannedBy, IsoMediaAssumption
  <2>2. /\ \A i \in D!Lines : r.disc[i] = 0
        /\ r.limit[1] = x
    BY <2>1
  <2>3. OnFirst(r) = {}
    BY <2>2 DEF OnFirst
  <2>4. \A k \in 1 .. N : D!Arranged[k] \in D!Lines
    BY ArrangedIs
  <2>5. D!SpaceOf({}) = 0
    BY NoLines
  <2> HIDE DEF r
  <2>6. PlannedSoFar(r, 0, first)
    <3>1. \A k \in 1 .. N : k <= 0 <=> r.disc[D!Arranged[k]] >= 1
      BY <2>2, <2>4
    <3>2. r.limit[1] = maxisosize - first - D!SpaceOf(OnFirst(r))
      <4>1. x = x - 0
        BY <2>1
      <4>2. D!SpaceOf(OnFirst(r)) = 0
        BY <2>3, <2>5
      <4> QED BY <2>2, <4>1, <4>2
    <3>3. \A i \in D!Lines : ~(r.disc[i] > 1)
      BY <2>2
    <3> HIDE DEF x
    <3> QED BY <2>3, <3>1, <3>2, <3>3 DEF PlannedSoFar
  <2> QED BY <2>6 DEF r
<1>3. ASSUME NEW n \in Nat, n \in M PROVE n + 1 \in M
  <2> SUFFICES ASSUME n + 1 <= N PROVE PlannedSoFar(f[n + 1], n + 1, first)
    OBVIOUS
  <2>1. /\ n + 1 \in 1 .. N /\ (n + 1) - 1 = n /\ n \in 0 .. N - 1 /\ n \in 0 .. N
        /\ n + 1 \in 0 .. N /\ PlannedSoFar(f[n], n, first)
    BY <1>1, <1>3
  <2>2. f[n] \in Plans /\ f[n + 1] \in Plans
    BY <1>1, <2>1
  <2>3. f[n + 1] = D!PlanOne(f[n], D!Arranged[n + 1], later)
    BY <1>1, <2>1 DEF PlannedBy
  <2>4. PlannedOne(f[n], f[n + 1], D!Arranged[n + 1])
    <3>1. D!Arranged[n + 1] \in D!Lines
      BY <2>1, ArrangedIs
    <3> QED BY <2>2, <2>3, <3>1, PlanOneIs
  <2> HIDE DEF N
  <2> QED BY <2>1, <2>2, <2>4, OneMorePlanned DEF N
<1>4. N \in M
  <2> HIDE DEF M
  <2> QED BY <1>1, <1>2, <1>3, SetInduction
<1>5. f[N] \in Plans
  BY <1>1
<1> QED BY <1>1, <1>4, <1>5 DEF f

----------------------------------------------------------------------------
(* The discs: the invariant.                                               *)

\* What is on disc 1 before the first change set.
First == D!spaceused(D!Initial(1))

\* The plan p has each line once, disc by disc as w shares them out.
InOrder(p, w) ==
  /\ Len(p) = Len(list)
  /\ \A k \in 1 .. Len(list) : p[k] \in 1 .. Len(list)
  /\ \A i \in 1 .. Len(list) : \E k \in 1 .. Len(list) : p[k] = i
  /\ \A j, k \in 1 .. Len(list) : p[j] = p[k] => j = k
  /\ \A j, k \in 1 .. Len(list) : j < k => w[p[j]] <= w[p[k]]

\* A line that is shared out to disc 1 fits there with the others, and one that is not
\* does not fit with those that come sooner.
Shared(w) == {i \in 1 .. Len(list) : w[i] = 1}
SharedSooner(w, i) == {j \in Shared(w) : D!Sooner(j, i)}

FirstFit(w) ==
  /\ \A i \in 1 .. Len(list) : w[i] >= 1
  /\ Shared(w) # {} => First + D!SpaceOf(Shared(w)) <= maxisosize
  /\ maxisosize > 0 =>
       \A i \in 1 .. Len(list) :
         w[i] > 1 => First + D!SpaceOf(SharedSooner(w, i)) + D!Size(i) > maxisosize

\* The lines of the plan that are on disc d.
On(d) == {i \in 1 .. Len(list) : \E k \in 1 .. done : plan[k] = i /\ outcs[k][2] = d}

Recorded ==
  /\ outcs \in Seq(Nat \X Nat) /\ Len(outcs) = done
  /\ discs \in Seq(Seq(Nat)) /\ Len(discs) >= 1
  /\ \A k \in 1 .. done : outcs[k][1] = plan[k] /\ outcs[k][2] \in 1 .. Len(discs)

FilledAs ==
  \A d \in 1 .. Len(discs) :
    /\ D!Filled(discs[d]) = D!Filled(D!Initial(d)) + (IF d = 1 THEN D!filled(ListSize) ELSE 0)
                            + D!FilledBy(On(d))
    /\ \/ maxisosize = 0
       \/ D!spaceused(D!Initial(d)) + D!SpaceOf(On(d)) <= maxisosize
       \/ On(d) = {}
       \/ d # 1 /\ \E i \in 1 .. Len(list) : On(d) = {i}

\* While it may go on the first disc, the lines of the plan have not left it.
OnTrack(w) ==
  maxisosize > 0 =>
    /\ \A k \in 1 .. done : w[plan[k]] = 1 => outcs[k][2] = 1
    /\ (\A k \in 1 .. done : w[plan[k]] = 1) => Len(discs) = 1

Laid ==
  /\ done \in 0 .. Len(list)
  /\ \E w \in [1 .. Len(list) -> Nat] : InOrder(plan, w) /\ FirstFit(w) /\ OnTrack(w)
  /\ Recorded /\ FilledAs
  /\ used = D!spaceused(D!Initial(Len(discs))) + D!SpaceOf(On(Len(discs)))

DiscInv ==
  /\ disc \in {"packages", "layout", "plan", "split", "done"}
  /\ disc # "packages" => Listing /\ trees \in Seq(Nat) /\ common \in Seq(Nat)
  /\ disc \in {"packages", "layout", "plan"} => done = 0 /\ outcs = <<>>
  /\ disc = "plan" => discs = <<D!Initial(1)>> /\ used = First
  /\ disc \in {"split", "done"} => Laid
  /\ disc = "done" => done = Len(list)

LEMMA InitialIs ==
  ASSUME trees \in Seq(Nat), common \in Seq(Nat), NEW d
  PROVE  D!Initial(d) \in Seq(Nat)
<1>1. <<InfoSize>> \in Seq(Nat)
  BY IsoMediaAssumption DEF IsoMediaAssumption
<1>2. trees \o <<InfoSize>> \in Seq(Nat) /\ common \o <<InfoSize>> \in Seq(Nat)
  BY <1>1, ConcatProperties
<1>3. (trees \o <<InfoSize>>) \o common \in Seq(Nat)
  BY <1>2, ConcatProperties
<1> QED BY <1>2, <1>3 DEF D!Initial

\* The pairs of lines in the order of the discs w.
ByDisc(w) ==
  {p \in D!Lines \X D!Lines : \/ w[p[1]] < w[p[2]]
                              \/ w[p[1]] = w[p[2]] /\ D!Sooner(p[1], p[2])}

LEMMA ByDiscOrders ==
  ASSUME Listing, NEW w \in [D!Lines -> Nat]
  PROVE  Orders(ByDisc(w), D!Lines)
<1> DEFINE L == D!Lines
           S == SoonerPairs
           R == ByDisc(w)
<1>1. Orders(S, L)
  BY SoonerOrders
<1>2. \A i, j \in L : <<i, j>> \in R <=> w[i] < w[j] \/ (w[i] = w[j] /\ <<i, j>> \in S)
  BY DEF ByDisc, SoonerPairs
<1>3. \A i \in L : w[i] \in Nat
  OBVIOUS
<1> HIDE DEF L, S, R
<1>4. ASSUME NEW i \in L PROVE <<i, i>> \notin R
  <2>1. <<i, i>> \notin S
    BY <1>1 DEF Orders
  <2> QED BY <1>2, <1>3, <2>1
<1>5. ASSUME NEW i \in L, NEW j \in L, i # j PROVE <<i, j>> \in R \/ <<j, i>> \in R
  <2>1. <<i, j>> \in S \/ <<j, i>> \in S
    BY <1>1, <1>5 DEF Orders
  <2> QED BY <1>2, <1>3, <2>1
<1>6. ASSUME NEW i \in L, NEW j \in L, NEW k \in L, <<i, j>> \in R, <<j, k>> \in R
      PROVE  <<i, k>> \in R
  <2>1. w[i] <= w[j] /\ w[j] <= w[k]
    BY <1>2, <1>3, <1>6
  <2>2. CASE w[i] = w[k]
    <3>1. w[i] = w[j] /\ w[j] = w[k]
      BY <1>3, <2>1, <2>2
    <3>2. <<i, j>> \in S /\ <<j, k>> \in S
      BY <1>2, <1>3, <1>6, <3>1
    <3>3. <<i, k>> \in S
      BY <1>1, <3>2 DEF Orders
    <3> QED BY <1>2, <2>2, <3>3
  <2>3. CASE w[i] # w[k]
    BY <1>2, <1>3, <2>1, <2>3
  <2> QED BY <2>2, <2>3
<1>7. Orders(R, L)
  BY <1>4, <1>5, <1>6 DEF Orders
<1> QED BY <1>7 DEF R, L

LEMMA ReorderIs ==
  ASSUME Listing, trees \in Seq(Nat), common \in Seq(Nat), NEW later \in Nat
  PROVE  \E w \in [1 .. Len(list) -> Nat] :
           InOrder(D!reorderChangesets(First, later), w) /\ FirstFit(w)
<1> DEFINE N == Len(list)
           r == D!Planned(First, later)[N]
           w == r.disc
           p == D!reorderChangesets(First, later)
           L == D!Lines
<1>1. First \in Nat
  BY InitialIs, FilesFill DEF First
<1>2. r \in Plans /\ PlannedSoFar(r, N, First)
  BY <1>1, PlannedIs
<1>3. L = 1 .. N /\ N \in Nat
  BY DEF D!Lines, Listing
<1>4. w \in [L -> Nat]
  BY <1>2 DEF Plans
<1>5. p = D!Ranked(L, ByDisc(w))
  BY DEF D!reorderChangesets, ByDisc
<1> HIDE DEF r
<1>6. Orders(ByDisc(w), L)
  BY <1>4, ByDiscOrders
<1>7. IsFiniteSet(L) /\ Cardinality(L) = N
  BY SoonerOrders
<1> HIDE DEF p, L, w, N
<1>8. /\ DOMAIN p = 1 .. N
      /\ \A k \in 1 .. N : p[k] \in L
      /\ \A x \in L : \E k \in 1 .. N : p[k] = x
      /\ \A j, k \in 1 .. N : j < k => <<p[j], p[k]>> \in ByDisc(w)
      /\ \A j, k \in 1 .. N : p[j] = p[k] => j = k
  <2> DEFINE R == ByDisc(w)
  <2> HIDE DEF R
  <2>1. Orders(R, L) /\ p = D!Ranked(L, R)
    BY <1>5, <1>6 DEF R
  <2>2. /\ DOMAIN p = 1 .. N
        /\ \A k \in 1 .. N : p[k] \in L
        /\ \A j, k \in 1 .. N : j < k => <<p[j], p[k]>> \in R
        /\ \A j, k \in 1 .. N : p[j] = p[k] => j = k
    BY <1>7, <2>1, RankedIs
  <2>3. \A x \in L : \E k \in 1 .. N : p[k] = x
    BY <1>7, <2>1, RankedIs
  <2> QED BY <2>2, <2>3 DEF R
<1>9. InOrder(p, w)
  <2>1. Len(p) = N
    BY <1>3, <1>8
  <2>2. ASSUME NEW j \in 1 .. N, NEW k \in 1 .. N, j < k PROVE w[p[j]] <= w[p[k]]
    <3>1. w[p[j]] \in Nat /\ w[p[k]] \in Nat
      BY <1>4, <1>8
    <3>2. w[p[j]] < w[p[k]] \/ w[p[j]] = w[p[k]]
      BY <1>8, <2>2 DEF ByDisc
    <3> QED BY <3>1, <3>2
  <2> QED BY <1>3, <1>8, <2>1, <2>2 DEF InOrder, N
<1>10. FirstFit(w)
  <2>1. Shared(w) = OnFirst(r) /\ \A i : SharedSooner(w, i) = SoonerOnFirst(r, i)
    BY <1>3 DEF Shared, SharedSooner, OnFirst, SoonerOnFirst, w, L, N
  <2>2. ASSUME NEW i \in 1 .. N PROVE w[i] >= 1
    <3>1. PICK k \in 1 .. N : D!Arranged[k] = i
      BY <1>3, ArrangedIs DEF L, N
    <3>2. k <= N
      BY <1>3
    <3> QED BY <1>2, <3>1, <3>2 DEF PlannedSoFar, w, N
  <2>3. Shared(w) # {} => First + D!SpaceOf(Shared(w)) <= maxisosize
    <3>1. r.limit[1] = maxisosize - First - D!SpaceOf(Shared(w))
          /\ (Shared(w) # {} => r.limit[1] >= 0)
      BY <1>2, <2>1 DEF PlannedSoFar
    <3>2. D!SpaceOf(Shared(w)) \in Nat /\ maxisosize \in Nat
      BY WeighedIs, IsoMediaAssumption DEF IsoMediaAssumption
    <3> QED BY <1>1, <3>1, <3>2
  <2>4. \A i \in L : w[i] > 1 /\ maxisosize > 0
                       => First + D!SpaceOf(SharedSooner(w, i)) + D!Size(i) > maxisosize
    BY <1>2, <2>1 DEF PlannedSoFar, w, L
  <2> QED BY <1>3, <2>2, <2>3, <2>4 DEF FirstFit, N
<1> QED BY <1>3, <1>4, <1>9, <1>10 DEF p, N

----------------------------------------------------------------------------
(* The discs, step by step.                                                *)

LEMMA SameSpace ==
  ASSUME list' = list, NEW S
  PROVE  D!SpaceOf(S)' = D!SpaceOf(S) /\ D!FilledBy(S)' = D!FilledBy(S)
<1>1. D!SpaceOf(S)' = D!SpaceOf(S)
  BY DEF D!SpaceOf, D!Lines, D!Size, D!space
<1>2. D!FilledBy(S)' = D!FilledBy(S)
  BY DEF D!FilledBy, D!Lines
<1> QED BY <1>1, <1>2

LEMMA SameFirst ==
  ASSUME UNCHANGED <<trees, common>>, NEW d
  PROVE  /\ D!Initial(d)' = D!Initial(d) /\ First' = First
         /\ D!spaceused(D!Initial(d))' = D!spaceused(D!Initial(d))
         /\ D!Filled(D!Initial(d))' = D!Filled(D!Initial(d))
BY DEF D!Initial, D!Filled, D!spaceused, First

LEMMA SameFit ==
  ASSUME UNCHANGED <<list, trees, common>>, NEW w, FirstFit(w)
  PROVE  FirstFit(w)'
<1>1. \A i, j : D!Sooner(i, j)' = D!Sooner(i, j) /\ D!Size(i)' = D!Size(i)
  BY DEF D!Sooner, D!Size, D!space
<1>2. Shared(w)' = Shared(w) /\ \A i : SharedSooner(w, i)' = SharedSooner(w, i)
  BY <1>1 DEF Shared, SharedSooner
<1>3. D!SpaceOf(Shared(w))' = D!SpaceOf(Shared(w))
      /\ \A i : D!SpaceOf(SharedSooner(w, i))' = D!SpaceOf(SharedSooner(w, i))
  BY <1>2, SameSpace
<1>4. First' = First
  BY SameFirst
<1> QED BY <1>1, <1>2, <1>3, <1>4 DEF FirstFit

LEMMA InitDiscs == InitMedia => DiscInv
BY DEF InitMedia, DiscInv

LEMMA ReadListStep == MediumInv /\ DiscInv /\ ReadList => DiscInv'
<1> SUFFICES ASSUME MediumInv, DiscInv, ReadList PROVE DiscInv'
  OBVIOUS
<1>1. PICK size \in SizesOf, kind \in KindsOf : list' = Lines(size, kind)
  BY DEF ReadList
<1>2. size \in [Named -> Nat] /\ kind \in [Named -> Kinds]
  BY IsoMediaAssumption DEF IsoMediaAssumption, Named, Kinds
<1>3. cslist \in Seq(CsNames \X Named)
  BY DEF MediumInv, Typed
<1>4. Len(cslist) \in Nat /\ \A i \in 1 .. Len(cslist) : cslist[i][2] \in Named
  BY <1>3
<1>5. DOMAIN list' = 1 .. Len(cslist) /\ Len(list') = Len(cslist)
      /\ \A i \in 1 .. Len(cslist) : list'[i] = [csfile |-> i, kind |-> kind[cslist[i][2]],
                                                 size |-> size[cslist[i][2]]]
  BY <1>1, <1>3, <1>4 DEF Lines
<1>6. Listing'
  BY <1>2, <1>4, <1>5 DEF Listing
<1>7. trees' \in Seq(Nat) /\ common' \in Seq(Nat)
  BY IsoMediaAssumption DEF ReadList, IsoMediaAssumption
<1>8. disc' = "layout" /\ done' = 0 /\ outcs' = <<>>
  BY DEF ReadList, DiscInv
<1> QED BY <1>6, <1>7, <1>8 DEF DiscInv

LEMMA LayOutStep == DiscInv /\ D!LayOutFirst => DiscInv'
<1> SUFFICES ASSUME DiscInv, D!LayOutFirst PROVE DiscInv'
  OBVIOUS
<1>1. /\ disc = "layout" /\ disc' = "plan" /\ UNCHANGED <<list, trees, common, plan, done, outcs>>
      /\ discs' = <<trees \o <<InfoSize>> \o common>> /\ used' = D!spaceused(discs'[1])
  BY DEF D!LayOutFirst
<1>2. Listing' /\ trees' \in Seq(Nat) /\ common' \in Seq(Nat) /\ done' = 0 /\ outcs' = <<>>
  BY <1>1 DEF DiscInv, Listing
<1>3. D!Initial(1)' = D!Initial(1) /\ First' = First
  BY <1>1, SameFirst
<1>4. discs' = <<D!Initial(1)>>
  BY <1>1 DEF D!Initial
<1>5. used' = First
  <2>1. discs'[1] = D!Initial(1)
    BY <1>4
  <2> QED BY <1>1, <2>1 DEF First
<1> QED BY <1>1, <1>2, <1>3, <1>4, <1>5 DEF DiscInv

LEMMA LaidStays ==
  ASSUME UNCHANGED <<list, trees, common, plan, done, discs, used, outcs>>, Laid
  PROVE  Laid'
<1>1. \A d : On(d)' = On(d)
  BY DEF On
<1>2. Recorded' /\ done' \in 0 .. Len(list)'
  BY DEF Laid, Recorded
<1>3. PICK w \in [1 .. Len(list) -> Nat] : InOrder(plan, w) /\ FirstFit(w) /\ OnTrack(w)
  BY DEF Laid
<1>4. w \in [1 .. Len(list') -> Nat] /\ InOrder(plan, w)' /\ FirstFit(w)' /\ OnTrack(w)'
  <2>1. FirstFit(w)'
    BY <1>3, SameFit
  <2> QED BY <1>3, <2>1 DEF InOrder, OnTrack
<1>5. FilledAs'
  <2> SUFFICES ASSUME NEW d \in 1 .. Len(discs)
        PROVE  /\ D!Filled(discs[d]') = D!Filled(D!Initial(d))'
                    + (IF d = 1 THEN D!filled(ListSize) ELSE 0) + D!FilledBy(On(d))'
               /\ \/ maxisosize = 0
                  \/ D!spaceused(D!Initial(d))' + D!SpaceOf(On(d))' <= maxisosize
                  \/ On(d)' = {}
                  \/ d # 1 /\ \E i \in 1 .. Len(list') : On(d)' = {i}
    BY DEF FilledAs
  <2>1. /\ D!spaceused(D!Initial(d))' = D!spaceused(D!Initial(d))
        /\ D!Filled(D!Initial(d))' = D!Filled(D!Initial(d))
    BY SameFirst
  <2>2. D!FilledBy(On(d))' = D!FilledBy(On(d)) /\ D!SpaceOf(On(d))' = D!SpaceOf(On(d))
    BY <1>1, SameSpace
  <2> QED BY <1>1, <2>1, <2>2 DEF Laid, FilledAs
<1>6. used' = (D!spaceused(D!Initial(Len(discs))) + D!SpaceOf(On(Len(discs))))'
  <2> DEFINE l == Len(discs)
  <2>1. /\ D!spaceused(D!Initial(l))' = D!spaceused(D!Initial(l))
        /\ D!SpaceOf(On(l))' = D!SpaceOf(On(l))
    BY DEF D!spaceused, D!Initial, D!SpaceOf, D!Lines, D!Size, D!space, On
  <2> QED BY <2>1 DEF Laid
<1> QED BY <1>2, <1>4, <1>5, <1>6 DEF Laid

LEMMA CloseStep == DiscInv /\ D!Close => DiscInv'
<1> SUFFICES ASSUME DiscInv, D!Close PROVE DiscInv'
  OBVIOUS
<1>1. /\ disc = "split" /\ disc' = "done" /\ done = Len(plan)
      /\ UNCHANGED <<list, trees, common, plan, done, discs, used, outcs>>
  BY DEF D!Close
<1>2. Listing' /\ trees' \in Seq(Nat) /\ common' \in Seq(Nat)
  BY <1>1 DEF DiscInv, Listing
<1>3. Laid /\ Len(plan) = Len(list)
  BY <1>1 DEF DiscInv, Laid, InOrder
<1>4. Laid'
  BY <1>1, <1>3, LaidStays
<1> QED BY <1>1, <1>2, <1>3, <1>4 DEF DiscInv

LEMMA PlanStep == DiscInv /\ D!Plan => DiscInv'
<1> SUFFICES ASSUME DiscInv, D!Plan PROVE DiscInv'
  OBVIOUS
<1> DEFINE later == D!spaceused(D!preparedir)
           one == D!Initial(1)
<1>1. /\ disc = "plan" /\ disc' = "split" /\ plan' = D!reorderChangesets(used, later)
      /\ discs' = [discs EXCEPT ![1] = discs[1] \o <<ListSize>>]
      /\ UNCHANGED <<list, trees, common, done, used, outcs>>
  BY DEF D!Plan
<1>2. /\ Listing /\ trees \in Seq(Nat) /\ common \in Seq(Nat) /\ done = 0 /\ outcs = <<>>
      /\ discs = <<one>> /\ used = First
  BY <1>1 DEF DiscInv
<1>3. Listing' /\ trees' \in Seq(Nat) /\ common' \in Seq(Nat) /\ Len(list) \in Nat
  BY <1>1, <1>2 DEF Listing
<1>4. one \in Seq(Nat) /\ ListSize \in Nat
  BY <1>2, InitialIs, IsoMediaAssumption DEF IsoMediaAssumption
<1>5. Len(discs') = 1 /\ discs'[1] = Append(one, ListSize)
  <2> HIDE DEF one
  <2>1. one \o <<ListSize>> = Append(one, ListSize)
    BY <1>4, AppendIsConcat
  <2> DEFINE x == Append(one, ListSize)
  <2>2. discs' = [discs EXCEPT ![1] = x]
    BY <1>1, <1>2, <2>1
  <2> HIDE DEF x
  <2>3. discs' = <<x>>
    BY <1>2, <2>2
  <2> QED BY <2>3 DEF x
<1>6. PICK w \in [1 .. Len(list) -> Nat] : InOrder(plan', w) /\ FirstFit(w)
  <2>1. later \in Nat
    BY <1>2, FilesFill DEF D!preparedir
  <2> HIDE DEF later
  <2>2. plan' = D!reorderChangesets(First, later)
    BY <1>1, <1>2
  <2> QED BY <1>2, <2>1, <2>2, ReorderIs
<1>7. \A d : On(d)' = {}
  BY <1>1, <1>2 DEF On
<1>8. /\ D!SpaceOf({}) = 0 /\ D!FilledBy({}) = 0
      /\ \A d : D!SpaceOf(On(d))' = 0 /\ D!FilledBy(On(d))' = 0
  <2>1. D!SpaceOf({}) = 0 /\ D!FilledBy({}) = 0
    BY <1>2, NoLines
  <2>2. ASSUME NEW d PROVE D!SpaceOf(On(d))' = 0 /\ D!FilledBy(On(d))' = 0
    <3>1. D!SpaceOf(On(d))' = D!SpaceOf({}) /\ D!FilledBy(On(d))' = D!FilledBy({})
      BY <1>1, <1>7, SameSpace
    <3> QED BY <2>1, <3>1
  <2> QED BY <2>1, <2>2
<1>9. /\ D!spaceused(one)' = D!spaceused(one) /\ D!Filled(one)' = D!Filled(one)
      /\ First' = First /\ First = D!spaceused(one) /\ First \in Nat /\ D!Filled(one) \in Nat
  BY <1>1, <1>4, SameFirst, FilesFill DEF First
<1>10. w \in [1 .. Len(list') -> Nat] /\ InOrder(plan, w)' /\ FirstFit(w)' /\ OnTrack(w)'
  <2>1. FirstFit(w)'
    BY <1>1, <1>6, SameFit
  <2>2. InOrder(plan, w)'
    BY <1>1, <1>6 DEF InOrder
  <2>3. OnTrack(w)'
    BY <1>1, <1>2, <1>5 DEF OnTrack
  <2> QED BY <1>1, <2>1, <2>2, <2>3
<1>11. Recorded' /\ done' \in 0 .. Len(list')
  <2>1. discs' \in Seq(Seq(Nat))
    <3> DEFINE x == Append(one, ListSize)
    <3>1. x \in Seq(Nat)
      BY <1>4, AppendProperties
    <3> HIDE DEF one, x
    <3>2. discs' = [<<one>> EXCEPT ![1] = x]
      <4>1. <<one>>[1] \o <<ListSize>> = x
        BY <1>4, AppendIsConcat DEF x
      <4> HIDE DEF x
      <4> QED BY <1>1, <1>2, <4>1
    <3>3. discs' = <<x>>
      BY <3>2
    <3> QED BY <3>1, <3>3
  <2> QED BY <1>1, <1>2, <1>3, <1>5, <2>1 DEF Recorded
<1>12. FilledAs'
  <2>1. D!Filled(discs'[1]) = D!Filled(one) + D!filled(ListSize)
    <3> HIDE DEF one
    <3> QED BY <1>4, <1>5, OneFileMore
  <2>2. D!filled(ListSize) \in Nat
    BY <1>4, SpaceIs
  <2>3. \A d \in 1 .. Len(discs') : d = 1
    BY <1>5
  <2>4. D!Filled(discs'[1]) = D!Filled(D!Initial(1))' + D!filled(ListSize) + D!FilledBy(On(1))'
    <3>1. D!FilledBy(On(1))' = 0
      BY <1>8
    <3>2. D!Filled(D!Initial(1))' = D!Filled(one)
      BY <1>9
    <3> DEFINE x == D!Filled(one)
               y == D!filled(ListSize)
    <3>3. x + y = x + y + 0
      BY <1>9, <2>2
    <3> HIDE DEF x, y, one
    <3> QED BY <2>1, <3>1, <3>2, <3>3 DEF x, y
  <2>5. On(1)' = {}
    BY <1>7
  <2> QED BY <2>1, <2>3, <2>4, <2>5 DEF FilledAs
<1>13. used' = (D!spaceused(D!Initial(Len(discs))) + D!SpaceOf(On(Len(discs))))'
  <2>1. /\ D!spaceused(D!Initial(Len(discs)))' = D!spaceused(one)
        /\ D!SpaceOf(On(Len(discs)))' = 0
    <3>1. Len(discs)' = 1
      BY <1>5
    <3>2. D!spaceused(D!Initial(Len(discs)))' = D!spaceused(D!Initial(1))'
      BY <3>1 DEF D!spaceused, D!Initial
    <3>3. D!SpaceOf(On(Len(discs)))' = D!SpaceOf(On(1))'
      BY <3>1 DEF D!SpaceOf, On
    <3> QED BY <1>8, <1>9, <3>2, <3>3
  <2> QED BY <1>1, <1>2, <1>9, <2>1
<1>14. Laid'
  BY <1>10, <1>11, <1>12, <1>13 DEF Laid
<1> QED BY <1>1, <1>3, <1>14 DEF DiscInv

LEMMA PutStep == DiscInv /\ D!Put => DiscInv'
<1> SUFFICES ASSUME DiscInv, D!Put PROVE DiscInv'
  OBVIOUS
<1> DEFINE i == plan[done + 1]
           sz == D!Size(i)
           full == maxisosize > 0 /\ used + sz > maxisosize
           new == D!preparedir \o <<InfoSize>>
           onto == IF full THEN Append(discs, new) ELSE discs
           x == list[i].size
           n == Len(discs)
           m == Len(onto)
<1>1. /\ disc = "split" /\ disc' = "split" /\ done < Len(plan)
      /\ discs' = [onto EXCEPT ![m] = Append(onto[m], x)]
      /\ used' = IF full THEN D!UsedAfter(i) ELSE used + sz
      /\ outcs' = Append(outcs, <<list[i].csfile, m>>)
      /\ done' = done + 1
      /\ UNCHANGED <<list, trees, common, plan>>
  BY DEF D!Put
<1>2. /\ Listing /\ trees \in Seq(Nat) /\ common \in Seq(Nat)
      /\ done \in 0 .. Len(list) /\ Recorded /\ FilledAs
      /\ used = D!spaceused(D!Initial(n)) + D!SpaceOf(On(n))
  BY <1>1 DEF DiscInv, Laid
<1>3. PICK w \in [1 .. Len(list) -> Nat] : InOrder(plan, w) /\ FirstFit(w) /\ OnTrack(w)
  BY <1>1 DEF DiscInv, Laid
<1>4. /\ Listing' /\ trees' \in Seq(Nat) /\ common' \in Seq(Nat) /\ Len(list) \in Nat
      /\ D!Lines = 1 .. Len(list)
  BY <1>1, <1>2 DEF Listing, D!Lines
<1>5. /\ done \in Nat /\ done + 1 \in 1 .. Len(list) /\ i \in 1 .. Len(list)
      /\ list[i].csfile = i /\ x \in Nat /\ maxisosize \in Nat
      /\ \A k \in 1 .. done : k \in 1 .. Len(list) /\ plan[k] # i /\ w[plan[k]] <= w[i]
  <2>1. done + 1 \in 1 .. Len(list) /\ done \in Nat
    BY <1>1, <1>2, <1>3, <1>4 DEF InOrder
  <2>2. i \in 1 .. Len(list)
    BY <1>3, <2>1 DEF InOrder
  <2>3. list[i].csfile = i /\ x \in Nat
    BY <1>2, <2>2 DEF Listing
  <2>4. ASSUME NEW k \in 1 .. done
        PROVE  k \in 1 .. Len(list) /\ plan[k] # i /\ w[plan[k]] <= w[i]
    <3>1. k \in 1 .. Len(list) /\ k < done + 1
      BY <1>4, <2>1
    <3>2. k # done + 1
      BY <3>1
    <3> QED BY <1>3, <2>1, <3>1, <3>2 DEF InOrder
  <2> QED BY <2>1, <2>2, <2>3, <2>4, IsoMediaAssumption DEF IsoMediaAssumption
<1>6. sz \in Nat /\ sz > 0
  BY <1>2, <1>4, <1>5, SizeIs
<1>7. /\ discs \in Seq(Seq(Nat)) /\ n \in Nat /\ n >= 1 /\ outcs \in Seq(Nat \X Nat)
      /\ Len(outcs) = done
      /\ \A k \in 1 .. done : outcs[k][1] = plan[k] /\ outcs[k][2] \in 1 .. n
  BY <1>2 DEF Recorded
<1>8. new \in Seq(Nat) /\ \A d : d # 1 => D!Initial(d) = new
  <2>1. \A d : d # 1 => D!Initial(d) = new
    BY DEF D!Initial, D!preparedir
  <2>2. 2 # 1
    OBVIOUS
  <2> HIDE DEF new
  <2> QED BY <1>2, <2>1, <2>2, InitialIs
<1> HIDE DEF i, sz, full, new, onto, x, n, m
<1>9. /\ onto \in Seq(Seq(Nat)) /\ m \in Nat /\ m = (IF full THEN n + 1 ELSE n)
      /\ \A d \in 1 .. n : onto[d] = discs[d]
      /\ full => onto[m] = new
  <2>1. CASE full
    <3>1. onto = Append(discs, new)
      BY <2>1 DEF onto
    <3>2. /\ onto \in Seq(Seq(Nat)) /\ m = n + 1 /\ onto[n + 1] = new
          /\ \A d \in 1 .. n : onto[d] = discs[d]
      BY <1>7, <1>8, <3>1, AppendProperties DEF m, n
    <3> QED BY <1>7, <2>1, <3>2
  <2>2. CASE ~full
    BY <1>7, <2>2 DEF onto, m, n
  <2> QED BY <2>1, <2>2
<1>10. /\ discs' \in Seq(Seq(Nat)) /\ Len(discs') = m /\ m >= 1
       /\ \A d \in 1 .. m : discs'[d] = IF d = m THEN Append(onto[m], x) ELSE onto[d]
       /\ onto[m] \in Seq(Nat)
  <2>1. m \in 1 .. Len(onto) /\ onto[m] \in Seq(Nat) /\ m >= 1
    BY <1>7, <1>9 DEF m
  <2> DEFINE e == Append(onto[m], x)
  <2>2. e \in Seq(Nat) /\ discs' = [onto EXCEPT ![m] = e]
    BY <1>1, <1>5, <2>1, AppendProperties
  <2> HIDE DEF e
  <2>3. discs' \in Seq(Seq(Nat)) /\ Len(discs') = Len(onto)
        /\ \A d \in 1 .. Len(onto) : discs'[d] = IF d = m THEN e ELSE onto[d]
    BY <1>9, <2>1, <2>2, ExceptSeq
  <2> QED BY <2>1, <2>3 DEF e, m
<1>11. /\ outcs' \in Seq(Nat \X Nat) /\ Len(outcs') = done + 1
       /\ \A k \in 1 .. done : outcs'[k] = outcs[k]
       /\ outcs'[done + 1][1] = i /\ outcs'[done + 1][2] = m
  <2> DEFINE e == <<i, m>>
  <2>1. e \in Nat \X Nat /\ e[1] = i /\ e[2] = m
    BY <1>5, <1>9
  <2>2. outcs' = Append(outcs, e)
    BY <1>1, <1>5
  <2> HIDE DEF e
  <2>3. /\ outcs' \in Seq(Nat \X Nat) /\ Len(outcs') = Len(outcs) + 1
        /\ \A k \in 1 .. Len(outcs) : outcs'[k] = outcs[k]
        /\ outcs'[Len(outcs) + 1] = e
    BY <1>7, <2>1, <2>2, AppendProperties
  <2> QED BY <1>7, <2>1, <2>3
<1>12. \A d : i \notin On(d) /\ On(d)' = (IF d = m THEN On(d) \cup {i} ELSE On(d))
  <2> SUFFICES ASSUME NEW d
               PROVE  i \notin On(d) /\ On(d)' = (IF d = m THEN On(d) \cup {i} ELSE On(d))
    OBVIOUS
  <2>1. i \notin On(d)
    BY <1>5 DEF On
  <2>2. \A j \in 1 .. Len(list) :
          j \in On(d)' <=> \E k \in 1 .. done + 1 : plan[k] = j /\ outcs'[k][2] = d
    BY <1>1 DEF On
  <2>3. \A k \in 1 .. done + 1 : k \in 1 .. done \/ k = done + 1
    BY <1>5
  <2>4. \A k \in 1 .. done : k \in 1 .. done + 1
    BY <1>5
  <2>5. done + 1 \in 1 .. done + 1 /\ plan[done + 1] = i
    BY <1>5 DEF i
  <2>6. ASSUME NEW j \in 1 .. Len(list) PROVE j \in On(d)' <=> j \in On(d) \/ (j = i /\ d = m)
    <3>1. j \in On(d) <=> \E k \in 1 .. done : plan[k] = j /\ outcs[k][2] = d
      BY DEF On
    <3>2. \A k \in 1 .. done : outcs'[k][2] = outcs[k][2]
      BY <1>11
    <3>3. (\E k \in 1 .. done + 1 : plan[k] = j /\ outcs'[k][2] = d)
            <=> \/ \E k \in 1 .. done : plan[k] = j /\ outcs'[k][2] = d
                \/ plan[done + 1] = j /\ outcs'[done + 1][2] = d
      BY <2>3, <2>4, <2>5
    <3>4. outcs'[done + 1][2] = m
      BY <1>11
    <3> QED BY <2>2, <2>5, <3>1, <3>2, <3>3, <3>4
  <2>7. On(d) \subseteq 1 .. Len(list) /\ On(d)' \subseteq 1 .. Len(list)
    BY <1>1 DEF On
  <2> QED BY <1>5, <2>1, <2>6, <2>7
<1>13. \A d : d \notin 1 .. n => On(d) = {}
  BY <1>7 DEF On
<1>14. maxisosize > 0 /\ w[i] = 1 => m = 1
  <2> SUFFICES ASSUME maxisosize > 0, w[i] = 1 PROVE m = 1
    OBVIOUS
  <2>1. \A k \in 1 .. done : w[plan[k]] = 1
    <3> SUFFICES ASSUME NEW k \in 1 .. done PROVE w[plan[k]] = 1
      OBVIOUS
    <3>1. plan[k] \in 1 .. Len(list) /\ w[plan[k]] <= 1
      <4>1. k \in 1 .. Len(list) /\ w[plan[k]] <= w[i] /\ w[i] = 1
        BY <1>5
      <4> QED BY <1>3, <4>1 DEF InOrder
    <3>2. w[plan[k]] \in Nat /\ w[plan[k]] >= 1
      BY <1>3, <3>1 DEF FirstFit
    <3> QED BY <3>1, <3>2
  <2>2. n = 1
    BY <1>3, <2>1 DEF OnTrack, n
  <2>3. On(1) \cup {i} \subseteq Shared(w)
    BY <1>5, <2>1 DEF On, Shared
  <2>4. D!SpaceOf(On(1) \cup {i}) = D!SpaceOf(On(1)) + sz
    BY <1>2, <1>4, <1>5, <1>12, OneLineMore DEF sz
  <2>5. D!SpaceOf(On(1) \cup {i}) <= D!SpaceOf(Shared(w))
    <3>1. (On(1) \cup {i}) \cap D!Lines \subseteq Shared(w)
      BY <2>3
    <3> QED BY <1>2, <3>1, MoreLines
  <2>6. First + D!SpaceOf(Shared(w)) <= maxisosize
    BY <1>3, <2>3 DEF FirstFit
  <2>7. used = First + D!SpaceOf(On(1))
    BY <1>2, <2>2 DEF First, n
  <2>8. First \in Nat /\ D!SpaceOf(On(1)) \in Nat /\ D!SpaceOf(Shared(w)) \in Nat
    BY <1>2, WeighedIs, InitialIs, FilesFill DEF First
  <2>9. ~full
    BY <1>5, <1>6, <2>4, <2>5, <2>6, <2>7, <2>8 DEF full
  <2> QED BY <1>9, <2>2, <2>9
<1>15. InOrder(plan, w)' /\ FirstFit(w)' /\ OnTrack(w)' /\ w \in [1 .. Len(list') -> Nat]
  <2>1. InOrder(plan, w)'
    BY <1>1, <1>3 DEF InOrder
  <2>2. FirstFit(w)'
    BY <1>1, <1>3, SameFit
  <2>3. \A k \in 1 .. done + 1 : k \in 1 .. done \/ k = done + 1
    BY <1>5
  <2>4. done + 1 \in 1 .. done + 1 /\ plan[done + 1] = i
    BY <1>5 DEF i
  <2>5. maxisosize > 0 => \A k \in 1 .. done + 1 : w[plan[k]] = 1 => outcs'[k][2] = 1
    BY <1>3, <1>11, <1>14, <2>3, <2>4 DEF OnTrack
  <2>6. maxisosize > 0 => ((\A k \in 1 .. done + 1 : w[plan[k]] = 1) => m = 1)
    BY <1>14, <2>4
  <2>7. OnTrack(w)'
    BY <1>1, <1>10, <2>5, <2>6 DEF OnTrack
  <2> QED BY <1>1, <1>3, <2>1, <2>2, <2>7
<1>16. Recorded' /\ done' \in 0 .. Len(list')
  <2>1. \A k \in 1 .. done + 1 : k \in 1 .. done \/ k = done + 1
    BY <1>5
  <2>2. plan[done + 1] = i /\ m \in 1 .. m /\ \A d \in 1 .. n : d \in 1 .. m
    BY <1>7, <1>9 DEF i
  <2>3. \A k \in 1 .. done + 1 : outcs'[k][1] = plan[k] /\ outcs'[k][2] \in 1 .. m
    BY <1>7, <1>11, <2>1, <2>2
  <2>4. done + 1 \in 0 .. Len(list)
    BY <1>4, <1>5
  <2> QED BY <1>1, <1>10, <1>11, <2>3, <2>4 DEF Recorded
<1>17. ASSUME NEW d
       PROVE  /\ D!spaceused(D!Initial(d))' = D!spaceused(D!Initial(d))
              /\ D!Filled(D!Initial(d))' = D!Filled(D!Initial(d))
              /\ D!spaceused(D!Initial(d)) \in Nat /\ D!Filled(D!Initial(d)) \in Nat
              /\ D!FilledBy(On(d)) \in Nat /\ D!SpaceOf(On(d)) \in Nat
              /\ d # m => D!SpaceOf(On(d))' = D!SpaceOf(On(d))
              /\ d # m => D!FilledBy(On(d))' = D!FilledBy(On(d))
              /\ d = m => D!SpaceOf(On(d))' = D!SpaceOf(On(d)) + sz
              /\ d = m => D!FilledBy(On(d))' = D!FilledBy(On(d)) + D!filled(x)
  <2>1. /\ D!spaceused(D!Initial(d))' = D!spaceused(D!Initial(d))
        /\ D!Filled(D!Initial(d))' = D!Filled(D!Initial(d))
    BY <1>1, SameFirst
  <2>2. D!spaceused(D!Initial(d)) \in Nat /\ D!Filled(D!Initial(d)) \in Nat
    BY <1>2, InitialIs, FilesFill
  <2>3. D!FilledBy(On(d)) \in Nat /\ D!SpaceOf(On(d)) \in Nat
    BY <1>2, WeighedIs
  <2>4. CASE d # m
    <3>1. On(d)' = On(d)
      BY <1>12, <2>4
    <3>2. D!SpaceOf(On(d))' = D!SpaceOf(On(d)) /\ D!FilledBy(On(d))' = D!FilledBy(On(d))
      BY <1>1, <3>1, SameSpace
    <3> QED BY <2>1, <2>2, <2>3, <2>4, <3>2
  <2>5. CASE d = m
    <3> DEFINE T == On(d) \cup {i}
    <3>1. On(d)' = T /\ i \notin On(d)
      BY <1>12, <2>5
    <3>2. D!SpaceOf(T) = D!SpaceOf(On(d)) + sz /\ D!FilledBy(T) = D!FilledBy(On(d)) + D!filled(x)
      BY <1>2, <1>4, <1>5, <3>1, OneLineMore DEF sz, x
    <3> HIDE DEF T
    <3>3. D!SpaceOf(On(d))' = D!SpaceOf(T) /\ D!FilledBy(On(d))' = D!FilledBy(T)
      BY <1>1, <3>1, SameSpace
    <3> QED BY <2>1, <2>2, <2>3, <2>5, <3>2, <3>3
  <2> QED BY <2>4, <2>5
<1>18. \A d \in 1 .. n :
         /\ D!Filled(discs[d]) = D!Filled(D!Initial(d)) + (IF d = 1 THEN D!filled(ListSize) ELSE 0)
                                 + D!FilledBy(On(d))
         /\ \/ maxisosize = 0
            \/ D!spaceused(D!Initial(d)) + D!SpaceOf(On(d)) <= maxisosize
            \/ On(d) = {}
            \/ d # 1 /\ \E j \in 1 .. Len(list) : On(d) = {j}
  BY <1>2 DEF FilledAs, n
<1>19. full => m # 1 /\ On(m) = {} /\ D!SpaceOf(On(m)) = 0 /\ D!FilledBy(On(m)) = 0
               /\ D!Initial(m) = new
  <2> SUFFICES ASSUME full PROVE m # 1 /\ On(m) = {} /\ D!SpaceOf(On(m)) = 0
                                 /\ D!FilledBy(On(m)) = 0 /\ D!Initial(m) = new
    OBVIOUS
  <2>1. m # 1 /\ m \notin 1 .. n
    BY <1>7, <1>9
  <2>2. On(m) = {} /\ D!Initial(m) = new
    BY <1>8, <1>13, <2>1
  <2>3. D!SpaceOf({}) = 0 /\ D!FilledBy({}) = 0
    BY <1>2, NoLines
  <2> QED BY <2>1, <2>2, <2>3
<1>20. ASSUME NEW d \in 1 .. m
       PROVE  /\ D!Filled(discs'[d]) = D!Filled(D!Initial(d))'
                                       + (IF d = 1 THEN D!filled(ListSize) ELSE 0)
                                       + D!FilledBy(On(d))'
              /\ \/ maxisosize = 0
                 \/ D!spaceused(D!Initial(d))' + D!SpaceOf(On(d))' <= maxisosize
                 \/ On(d)' = {}
                 \/ d # 1 /\ \E j \in 1 .. Len(list') : On(d)' = {j}
  <2> DEFINE c == IF d = 1 THEN D!filled(ListSize) ELSE 0
             f == D!Filled(D!Initial(d))
             u == D!spaceused(D!Initial(d))
             b == D!FilledBy(On(d))
             a == D!SpaceOf(On(d))
             y == D!filled(x)
  <2>1. c \in Nat /\ y \in Nat
    BY <1>5, SpaceIs, IsoMediaAssumption DEF IsoMediaAssumption
  <2>2. f \in Nat /\ u \in Nat /\ b \in Nat /\ a \in Nat
    BY <1>17
  <2>3. D!Filled(onto[d]) = f + c + b
    <3>1. CASE d \in 1 .. n
      BY <1>9, <1>18, <3>1
    <3>2. CASE d \notin 1 .. n
      <4>1. full /\ d = m
        BY <1>7, <1>9, <3>2
      <4>2. c = 0 /\ b = 0 /\ onto[d] = D!Initial(d)
        BY <1>9, <1>19, <4>1
      <4> HIDE DEF c, b
      <4>3. f = f + c + b
        BY <2>2, <4>2
      <4> QED BY <4>2, <4>3
    <3> QED BY <3>1, <3>2
  <2>4. CASE d # m
    <3>1. d \in 1 .. n /\ discs'[d] = discs[d]
      BY <1>7, <1>9, <1>10, <2>4
    <3>2. On(d)' = On(d)
      BY <1>12, <2>4
    <3> QED BY <1>1, <1>17, <1>18, <2>4, <3>1, <3>2
  <2>5. CASE d = m
    <3>1. D!Filled(discs'[d]) = D!Filled(onto[d]) + y
      BY <1>5, <1>10, <2>5, OneFileMore
    <3>2. D!FilledBy(On(d))' = b + y /\ D!SpaceOf(On(d))' = a + sz
      BY <1>17, <2>5
    <3>3. D!Filled(D!Initial(d))' = f /\ D!spaceused(D!Initial(d))' = u
      BY <1>17
    <3> HIDE DEF f, b, y, a, u, c
    <3>4. D!Filled(discs'[d]) = f + c + (b + y)
      BY <2>1, <2>2, <2>3, <3>1
    <3>5. CASE full
      <4>1. d # 1 /\ On(d)' = {i} /\ i \in 1 .. Len(list')
        BY <1>1, <1>5, <1>12, <1>19, <2>5, <3>5
      <4> QED BY <3>2, <3>3, <3>4, <4>1 DEF c
    <3>6. CASE ~full
      <4>1. d = n
        BY <1>9, <2>5, <3>6
      <4>2. used = u + a
        BY <1>2, <4>1 DEF u, a, n
      <4>3. maxisosize = 0 \/ u + (a + sz) <= maxisosize
        BY <1>5, <1>6, <2>2, <3>6, <4>2 DEF full
      <4> QED BY <3>2, <3>3, <3>4, <4>3 DEF c
    <3> QED BY <3>5, <3>6
  <2> QED BY <2>4, <2>5
<1>21. FilledAs'
  BY <1>10, <1>20 DEF FilledAs
<1>22. used' = (D!spaceused(D!Initial(Len(discs))) + D!SpaceOf(On(Len(discs))))'
  <2>1. PICK e \in Nat : e = m
    BY <1>9
  <2>2. D!spaceused(D!Initial(Len(discs)))' = D!spaceused(D!Initial(m))
    <3>1. Len(discs)' = e
      BY <1>10, <2>1
    <3>2. D!spaceused(D!Initial(Len(discs)))' = D!spaceused(D!Initial(e))
      BY <1>1, <3>1 DEF D!spaceused, D!Initial
    <3> QED BY <2>1, <3>2
  <2>3. D!SpaceOf(On(Len(discs)))' = D!SpaceOf(On(m) \cup {i})
    <3> DEFINE T == On(e) \cup {i}
    <3>1. On(e)' = T
      BY <1>12, <2>1
    <3>2. On(Len(discs))' = On(e)'
      <4>1. Len(discs)' = e
        BY <1>10, <2>1
      <4> QED BY <4>1 DEF On
    <3> HIDE DEF T
    <3>3. On(Len(discs))' = T
      BY <3>1, <3>2
    <3>4. D!SpaceOf(On(Len(discs)))' = D!SpaceOf(T)
      BY <1>1, <3>3 DEF D!SpaceOf, D!Lines, D!Size, D!space
    <3> QED BY <2>1, <3>4 DEF T
  <2>4. D!SpaceOf(On(m) \cup {i}) = D!SpaceOf(On(m)) + sz
    BY <1>2, <1>4, <1>5, <1>12, OneLineMore DEF sz
  <2>5. D!spaceused(D!Initial(m)) \in Nat /\ D!SpaceOf(On(m)) \in Nat
    BY <1>17
  <2>6. CASE full
    <3>1. used' = D!spaceused(new) + sz
      BY <1>1, <2>6 DEF D!UsedAfter, new, sz
    <3>2. D!SpaceOf(On(m)) + sz = sz /\ D!spaceused(D!Initial(m)) = D!spaceused(new)
      BY <1>6, <1>19, <2>6
    <3> QED BY <2>2, <2>3, <2>4, <3>1, <3>2
  <2>7. CASE ~full
    <3>1. used' = used + sz /\ m = n
      BY <1>1, <1>9, <2>7
    <3>2. used = D!spaceused(D!Initial(m)) + D!SpaceOf(On(m))
      BY <1>2, <3>1 DEF n
    <3> DEFINE u == D!spaceused(D!Initial(m))
               a == D!SpaceOf(On(m))
    <3>3. (u + a) + sz = u + (a + sz)
      <4>1. u \in Nat /\ a \in Nat
        BY <2>5
      <4> HIDE DEF u, a
      <4> QED BY <1>6, <4>1
    <3> QED BY <2>2, <2>3, <2>4, <3>1, <3>2, <3>3
  <2> QED BY <2>6, <2>7
<1>23. Laid'
  BY <1>15, <1>16, <1>21, <1>22 DEF Laid
<1> QED BY <1>1, <1>4, <1>23 DEF DiscInv

LEMMA DiscStep == MediumInv /\ DiscInv /\ [NextMedia]_<<vars, discVars>> => DiscInv'
<1> SUFFICES ASSUME MediumInv, DiscInv, [NextMedia]_<<vars, discVars>> PROVE DiscInv'
  OBVIOUS
<1>1. CASE UNCHANGED discVars
  <2>1. UNCHANGED <<list, trees, common, plan, done, discs, used, outcs, disc>>
    BY <1>1 DEF discVars
  <2>2. disc \in {"packages", "layout", "plan"} => DiscInv'
    <3> SUFFICES ASSUME disc \in {"packages", "layout", "plan"} PROVE DiscInv'
      OBVIOUS
    <3>1. D!Initial(1)' = D!Initial(1) /\ First' = First
      BY <2>1, SameFirst
    <3> QED BY <2>1, <3>1 DEF DiscInv, Listing
  <2>3. disc \in {"split", "done"} => DiscInv'
    <3> SUFFICES ASSUME disc \in {"split", "done"} PROVE DiscInv'
      OBVIOUS
    <3>1. Laid'
      BY <2>1, LaidStays DEF DiscInv
    <3> QED BY <2>1, <3>1 DEF DiscInv, Listing
  <2> QED BY <2>2, <2>3 DEF DiscInv
<1>2. CASE ReadList
  BY <1>2, ReadListStep
<1>3. CASE D!LayOutFirst
  BY <1>3, LayOutStep
<1>4. CASE D!Plan
  BY <1>4, PlanStep
<1>5. CASE D!Put
  BY <1>5, PutStep
<1>6. CASE D!Close
  BY <1>6, CloseStep
<1>7. NextMedia => ReadList \/ D!Next \/ UNCHANGED discVars
  BY DEF NextMedia
<1>8. D!Next => D!LayOutFirst \/ D!Plan \/ D!Put \/ D!Close \/ UNCHANGED discVars
  BY DEF D!Next, D!vars, discVars
<1>9. UNCHANGED <<vars, discVars>> => UNCHANGED discVars
  OBVIOUS
<1> QED BY <1>1, <1>2, <1>3, <1>4, <1>5, <1>6, <1>7, <1>8, <1>9

\* What the list of disc 1 says, when it is complete.
LEMMA OnDiscIs ==
  ASSUME DiscInv, disc = "done"
  PROVE  /\ \A d : D!OnDisc(d) = On(d)
         /\ \A i \in 1 .. Len(list) :
              \E d \in 1 .. Len(discs) :
                /\ <<list[i].csfile, d>> \in D!Range(outcs)
                /\ i \in On(d) /\ D!Disc(i) = d
<1>1. Listing /\ Recorded /\ done = Len(list) /\ D!Lines = 1 .. Len(list)
  BY DEF DiscInv, Laid, D!Lines
<1>2. PICK w \in [1 .. Len(list) -> Nat] : InOrder(plan, w)
  BY DEF DiscInv, Laid
<1>3. outcs \in Seq(Nat \X Nat) /\ Len(outcs) = Len(list) /\ Len(list) \in Nat
      /\ \A k \in 1 .. Len(list) : outcs[k][1] = plan[k] /\ outcs[k][2] \in 1 .. Len(discs)
  BY <1>1 DEF Recorded, Listing
<1>4. \A i \in 1 .. Len(list) : list[i].csfile = i
  BY <1>1 DEF Listing
<1>5. D!Range(outcs) = {outcs[k] : k \in 1 .. Len(list)}
  <2>1. DOMAIN outcs = 1 .. Len(list)
    BY <1>3
  <2> QED BY <2>1 DEF D!Range
<1>6. ASSUME NEW i \in 1 .. Len(list), NEW d
      PROVE  <<list[i].csfile, d>> \in D!Range(outcs) <=> i \in On(d)
  <2>1. <<list[i].csfile, d>> \in D!Range(outcs)
          <=> \E k \in 1 .. Len(list) : outcs[k] = <<i, d>>
    BY <1>4, <1>5
  <2>2. ASSUME NEW k \in 1 .. Len(list)
        PROVE  outcs[k] = <<i, d>> <=> plan[k] = i /\ outcs[k][2] = d
    <3>1. outcs[k] \in Nat \X Nat
      BY <1>3
    <3>2. outcs[k] = <<outcs[k][1], outcs[k][2]>>
      BY <3>1
    <3>3. outcs[k][1] = plan[k]
      BY <1>3
    <3> QED BY <3>2, <3>3
  <2>3. i \in On(d) <=> \E k \in 1 .. Len(list) : plan[k] = i /\ outcs[k][2] = d
    BY <1>1 DEF On
  <2> QED BY <2>1, <2>2, <2>3
<1>7. ASSUME NEW d PROVE D!OnDisc(d) = On(d)
  <2>1. On(d) \subseteq 1 .. Len(list)
    BY DEF On
  <2>2. D!OnDisc(d) = {i \in 1 .. Len(list) : <<list[i].csfile, d>> \in D!Range(outcs)}
    BY <1>1 DEF D!OnDisc
  <2> QED BY <1>6, <2>1, <2>2
<1>8. ASSUME NEW i \in 1 .. Len(list)
      PROVE  \E d \in 1 .. Len(discs) : /\ <<list[i].csfile, d>> \in D!Range(outcs)
                                        /\ i \in On(d) /\ D!Disc(i) = d
  <2>1. PICK k \in 1 .. Len(list) : plan[k] = i
    BY <1>2 DEF InOrder
  <2> DEFINE d == outcs[k][2]
  <2>2. d \in 1 .. Len(discs) /\ i \in On(d)
    BY <1>1, <1>3, <2>1 DEF On
  <2>3. ASSUME NEW e, i \in On(e) PROVE e = d
    <3>1. PICK l \in 1 .. Len(list) : plan[l] = i /\ outcs[l][2] = e
      BY <1>1, <2>3 DEF On
    <3>2. l = k
      BY <1>2, <2>1, <3>1 DEF InOrder
    <3> QED BY <3>1, <3>2
  <2> HIDE DEF d
  <2>4. D!Disc(i) = CHOOSE e \in 1 .. Len(discs) : <<list[i].csfile, e>> \in D!Range(outcs)
    BY DEF D!Disc
  <2>5. <<list[i].csfile, d>> \in D!Range(outcs)
        /\ \A e : <<list[i].csfile, e>> \in D!Range(outcs) => e = d
    BY <1>6, <2>2, <2>3
  <2>6. D!Disc(i) = d
    BY <2>2, <2>4, <2>5
  <2> QED BY <2>2, <2>5, <2>6
<1> QED BY <1>7, <1>8

LEMMA InvFit == DiscInv => D!DiscsFit
<1> SUFFICES ASSUME DiscInv, disc = "done" PROVE D!DiscsFit
  BY DEF D!DiscsFit
<1>1. Listing /\ Recorded /\ FilledAs /\ done = Len(list) /\ D!Lines = 1 .. Len(list)
      /\ trees \in Seq(Nat) /\ common \in Seq(Nat)
  BY DEF DiscInv, Laid, D!Lines
<1>2. Len(outcs) = Len(list)
  BY <1>1 DEF Recorded
<1>3. \A i \in D!Lines : \E d \in 1 .. Len(discs) : <<list[i].csfile, d>> \in D!Range(outcs)
  BY <1>1, OnDiscIs
<1>4. ASSUME NEW d \in 1 .. Len(discs)
      PROVE  /\ D!Filled(discs[d]) = D!Filled(D!Initial(d))
                                     + (IF d = 1 THEN D!filled(ListSize) ELSE 0)
                                     + D!FilledBy(D!OnDisc(d))
             /\ \/ maxisosize = 0
                \/ D!Filled(discs[d]) <= maxisosize + (IF d = 1 THEN D!space(ListSize) ELSE 0)
                \/ D!Cardinality(D!OnDisc(d)) <= (IF d = 1 THEN 0 ELSE 1)
  <2> DEFINE f == D!Filled(D!Initial(d))
             u == D!spaceused(D!Initial(d))
             c == IF d = 1 THEN D!filled(ListSize) ELSE 0
             r == IF d = 1 THEN D!space(ListSize) ELSE 0
             b == D!FilledBy(On(d))
             a == D!SpaceOf(On(d))
  <2>1. D!OnDisc(d) = On(d)
    BY OnDiscIs
  <2>2. D!Filled(discs[d]) = f + c + b
        /\ \/ maxisosize = 0
           \/ u + a <= maxisosize
           \/ On(d) = {}
           \/ d # 1 /\ \E i \in 1 .. Len(list) : On(d) = {i}
    BY <1>1 DEF FilledAs
  <2>3. f \in Nat /\ u \in Nat /\ f <= u
    BY <1>1, InitialIs, FilesFill
  <2>4. a \in Nat /\ b \in Nat /\ b <= a
    BY <1>1, WeighedIs
  <2>5. c \in Nat /\ r \in Nat /\ c <= r
    <3>1. D!filled(ListSize) \in Nat /\ D!space(ListSize) \in Nat
          /\ D!filled(ListSize) <= D!space(ListSize)
      BY SpaceIs, IsoMediaAssumption DEF IsoMediaAssumption
    <3> QED BY <3>1
  <2>6. On(d) = {} => D!Cardinality(On(d)) = 0
    BY CardinalityIs, FS_EmptySet
  <2>7. ASSUME NEW i, On(d) = {i} PROVE D!Cardinality(On(d)) = 1
    BY <2>7, CardinalityIs, FS_Singleton
  <2>8. maxisosize \in Nat
    BY IsoMediaAssumption DEF IsoMediaAssumption
  <2>9. u + a <= maxisosize => f + c + b <= maxisosize + r
    <3> HIDE DEF f, u, c, r, b, a
    <3> QED BY <2>3, <2>4, <2>5, <2>8
  <2>10. \/ maxisosize = 0
         \/ D!Filled(discs[d]) <= maxisosize + r
         \/ D!Cardinality(On(d)) <= (IF d = 1 THEN 0 ELSE 1)
    <3>1. CASE On(d) = {}
      BY <2>6, <3>1
    <3>2. CASE d # 1 /\ \E i \in 1 .. Len(list) : On(d) = {i}
      BY <2>7, <3>2
    <3> HIDE DEF f, u, c, r, b, a
    <3> QED BY <2>2, <2>9, <3>1, <3>2
  <2> QED BY <2>1, <2>2, <2>10
<1> QED BY <1>2, <1>3, <1>4 DEF D!DiscsFit

LEMMA InvCore == DiscInv => D!CoreFirst
<1> SUFFICES ASSUME DiscInv, disc = "done", maxisosize > 0, NEW i \in D!Lines,
                    list[i].kind = "reserved", D!Disc(i) > 1
             PROVE  LET core == {j \in D!OnDisc(1) : list[j].kind \in {"info", "reserved"}}
                    IN  D!spaceused(D!Initial(1)) + D!Size(i) + D!SpaceOf(core) > maxisosize
  BY DEF D!CoreFirst
<1> DEFINE core == {j \in D!OnDisc(1) : list[j].kind \in {"info", "reserved"}}
<1>1. Listing /\ done = Len(list) /\ D!Lines = 1 .. Len(list) /\ Len(list) \in Nat
      /\ trees \in Seq(Nat) /\ common \in Seq(Nat)
  BY DEF DiscInv, Laid, D!Lines, Listing
<1>2. PICK w \in [1 .. Len(list) -> Nat] : InOrder(plan, w) /\ FirstFit(w) /\ OnTrack(w)
  BY DEF DiscInv, Laid
<1>3. ASSUME NEW j \in 1 .. Len(list), w[j] = 1 PROVE j \in On(1)
  <2>1. PICK k \in 1 .. Len(list) : plan[k] = j
    BY <1>2 DEF InOrder
  <2>2. outcs[k][2] = 1
    BY <1>1, <1>2, <1>3, <2>1 DEF OnTrack
  <2> QED BY <1>1, <2>1, <2>2 DEF On
<1>4. w[i] > 1
  <2>1. PICK d \in 1 .. Len(discs) : i \in On(d) /\ D!Disc(i) = d
    BY <1>1, OnDiscIs
  <2>2. w[i] \in Nat /\ w[i] >= 1
    BY <1>1, <1>2 DEF FirstFit
  <2>3. w[i] # 1
    <3> SUFFICES ASSUME w[i] = 1 PROVE FALSE
      OBVIOUS
    <3>1. i \in On(1) /\ d > 1
      BY <1>1, <1>3, <2>1
    <3>2. PICK k \in 1 .. Len(list) : plan[k] = i /\ outcs[k][2] = 1
      BY <1>1, <3>1 DEF On
    <3>3. PICK l \in 1 .. Len(list) : plan[l] = i /\ outcs[l][2] = d
      BY <1>1, <2>1 DEF On
    <3>4. k = l
      <4>1. \A j, m \in 1 .. Len(list) : plan[j] = plan[m] => j = m
        BY <1>2 DEF InOrder
      <4>2. plan[k] = plan[l]
        BY <3>2, <3>3
      <4> QED BY <4>1, <4>2
    <3> QED BY <3>1, <3>2, <3>3, <3>4
  <2> QED BY <2>2, <2>3
<1>5. First + D!SpaceOf(SharedSooner(w, i)) + D!Size(i) > maxisosize
  BY <1>1, <1>2, <1>4 DEF FirstFit
<1>6. SharedSooner(w, i) \subseteq core
  <2> SUFFICES ASSUME NEW j \in 1 .. Len(list), w[j] = 1, D!Sooner(j, i) PROVE j \in core
    BY DEF SharedSooner, Shared
  <2>1. j \in D!OnDisc(1)
    BY <1>3, OnDiscIs
  <2>2. list[j].kind \in Kinds
    BY <1>1 DEF Listing
  <2>3. list[j].kind \in {"info", "reserved"}
    BY <2>2 DEF D!Sooner, Kinds
  <2> QED BY <2>1, <2>3
<1>7. D!SpaceOf(SharedSooner(w, i)) <= D!SpaceOf(core)
  <2> HIDE DEF core
  <2>1. SharedSooner(w, i) \cap D!Lines \subseteq core
    BY <1>6
  <2> QED BY <1>1, <2>1, MoreLines
<1>8. First \in Nat /\ D!SpaceOf(SharedSooner(w, i)) \in Nat /\ D!SpaceOf(core) \in Nat
      /\ D!Size(i) \in Nat /\ maxisosize \in Nat
  <2> HIDE DEF core
  <2>1. D!Size(i) \in Nat
    BY <1>1, SizeIs
  <2>2. First \in Nat
    BY <1>1, InitialIs, FilesFill DEF First
  <2> QED BY <1>1, <2>1, <2>2, WeighedIs, IsoMediaAssumption DEF IsoMediaAssumption
<1> HIDE DEF core
<1>9. D!spaceused(D!Initial(1)) = First
  BY DEF First
<1>10. D!spaceused(D!Initial(1)) + D!Size(i) + D!SpaceOf(core) > maxisosize
  BY <1>5, <1>7, <1>8, <1>9
<1> QED BY <1>10 DEF core

(* The shares of the discs, and the plan they follow, go together at every *)
(* step, for every list that the packages lead to.                         *)
THEOREM DiscInvHolds == SpecMedia => [](MediumInv /\ DiscInv)
<1>1. InitMedia => DiscInv
  BY InitDiscs
<1>2. MediumInv /\ DiscInv /\ [NextMedia]_<<vars, discVars>> => DiscInv'
  BY DiscStep
<1>3. SpecMedia => []DiscInv
  BY <1>1, <1>2, MediaInvariance, PTL DEF SpecMedia
<1> QED BY <1>3, MediaInvariance, PTL

(* splitdistro: for every list of change sets, every size of the discs and *)
(* whatever is on them before: each change set is on one disc, as the list *)
(* says, no disc holds more than it may, and a change set of the core is   *)
(* on a later disc only when there is no room left for it on the first.    *)
THEOREM DiscsAsNeededHolds == SpecMedia => []DiscsAsNeeded
<1>1. DiscInv => DiscsAsNeeded
  BY InvFit, InvCore DEF DiscsAsNeeded
<1> QED BY <1>1, DiscInvHolds, PTL
=============================================================================
