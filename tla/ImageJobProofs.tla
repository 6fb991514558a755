--------------------------- MODULE ImageJobProofs ---------------------------
(***************************************************************************)
(* Theorems about ImageJob, for every partition scheme, every root that    *)
(* packages can bring, every size and every bound.                         *)
(***************************************************************************)
EXTENDS ImageJob, FiniteSetTheorems, SequenceTheorems, WellFoundedInduction, TLAPS

(* Orders.                                                                 *)

LEMMA LeastOf ==
  ASSUME NEW S \in SUBSET Nat, S # {}
  PROVE  \E i \in S : \A j \in S : i <= j
<1>1. PICK i \in S : \A j \in S : <<j, i>> \notin OpToRel(<, Nat)
  BY NatLessThanWellFounded, WFMin, Zenon
<1>2. ASSUME NEW j \in S PROVE i <= j
  <2>1. i \in Nat /\ j \in Nat
    BY <1>1
  <2>2. ~(j < i)
    BY <1>1, <2>1 DEF OpToRel
  <2> QED BY <2>1, <2>2
<1> QED BY <1>2

LEMMA SetInduction ==
  ASSUME NEW M, 0 \in M, \A n \in Nat : n \in M => n + 1 \in M
  PROVE  \A n \in Nat : n \in M
<1> DEFINE T == {n \in Nat : n \notin M}
<1> SUFFICES ASSUME T # {} PROVE FALSE
  OBVIOUS
<1>1. T \in SUBSET Nat
  OBVIOUS
<1>2. PICK i \in T : \A j \in T : i <= j
  <2> HIDE DEF T
  <2> QED BY <1>1, LeastOf
<1>3. i \in Nat /\ i # 0
  BY <1>2
<1>4. i - 1 \in Nat /\ (i - 1) + 1 = i
  BY <1>3
<1>5. i - 1 \in M
  BY <1>2, <1>4
<1> QED BY <1>2, <1>4, <1>5

\* R orders S.
Orders(R, S) ==
  /\ \A x \in S : <<x, x>> \notin R
  /\ \A x, y \in S : x # y => <<x, y>> \in R \/ <<y, x>> \in R
  /\ \A x, y, z \in S : <<x, y>> \in R /\ <<y, z>> \in R => <<x, z>> \in R

\* Ranked lists every member of a set once, in the order.
LEMMA RankedIs ==
  ASSUME NEW S, IsFiniteSet(S), NEW R, Orders(R, S)
  PROVE  /\ Cardinality(S) \in Nat
         /\ DOMAIN Ranked(S, R) = 1 .. Cardinality(S)
         /\ \A k \in 1 .. Cardinality(S) : Ranked(S, R)[k] \in S
         /\ \A x \in S : \E k \in 1 .. Cardinality(S) : Ranked(S, R)[k] = x
         /\ \A j, k \in 1 .. Cardinality(S) :
              j < k => <<Ranked(S, R)[j], Ranked(S, R)[k]>> \in R
         /\ \A j, k \in 1 .. Cardinality(S) : Ranked(S, R)[j] = Ranked(S, R)[k] => j = k
<1> DEFINE n == Cardinality(S)
           below(x) == {y \in S : <<y, x>> \in R}
           rank == [x \in S |-> Cardinality(below(x))]
           o == Ranked(S, R)
<1>1. n \in Nat
  BY FS_CardinalityType
<1>2. ASSUME NEW x \in S
      PROVE  /\ IsFiniteSet(below(x)) /\ IsFiniteSet(below(x) \cup {x})
             /\ rank[x] \in 0 .. n - 1 /\ rank[x] \in Nat
             /\ Cardinality(below(x) \cup {x}) = rank[x] + 1
  <2>1. below(x) \in SUBSET S /\ x \notin below(x) /\ below(x) \cup {x} \in SUBSET S
    BY DEF Orders
  <2>2. IsFiniteSet(below(x)) /\ IsFiniteSet(below(x) \cup {x})
        /\ Cardinality(below(x) \cup {x}) <= n
    BY <2>1, FS_Subset
  <2>3. Cardinality(below(x)) \in Nat
    BY <2>2, FS_CardinalityType
  <2>4. Cardinality(below(x) \cup {x}) = Cardinality(below(x)) + 1
    BY <2>1, <2>2, FS_AddElement
  <2>5. rank[x] = Cardinality(below(x))
    OBVIOUS
  <2> HIDE DEF rank, below, n
  <2> QED BY <1>1, <2>2, <2>3, <2>4, <2>5
<1>3. ASSUME NEW x \in S, NEW y \in S, <<x, y>> \in R PROVE rank[x] < rank[y]
  <2>1. below(x) \cup {x} \in SUBSET below(y)
    BY <1>3 DEF Orders
  <2>2. Cardinality(below(x) \cup {x}) <= Cardinality(below(y))
    <3> HIDE DEF below
    <3> QED BY <1>2, <2>1, FS_Subset
  <2>3. Cardinality(below(y)) = rank[y]
    OBVIOUS
  <2>4. /\ rank[x] \in Nat /\ rank[y] \in Nat
        /\ Cardinality(below(x) \cup {x}) = rank[x] + 1
    <3> HIDE DEF rank, below, n
    <3> QED BY <1>2
  <2> HIDE DEF rank, below, n
  <2> QED BY <2>2, <2>3, <2>4
<1>4. ASSUME NEW x \in S PROVE rank[x] \in 0 .. n - 1 /\ rank[x] \in Nat
  <2> HIDE DEF rank, below, n
  <2> QED BY <1>2
<1>5. ASSUME NEW x \in S, NEW y \in S, rank[x] <= rank[y], x # y PROVE <<x, y>> \in R
  <2>1. rank[x] \in Nat /\ rank[y] \in Nat
    <3> HIDE DEF rank, below, n
    <3> QED BY <1>4
  <2>2. <<y, x>> \in R => rank[y] < rank[x]
    <3> HIDE DEF rank, below, n
    <3> QED BY <1>3
  <2> HIDE DEF rank, below, n
  <2> QED BY <1>5, <2>1, <2>2 DEF Orders
<1>6. rank \in Surjection(S, 0 .. n - 1)
  <2>1. IsFiniteSet(0 .. n - 1) /\ Cardinality(0 .. n - 1) = n
    <3> HIDE DEF n
    <3>1. /\ IsFiniteSet(0 .. n - 1)
          /\ Cardinality(0 .. n - 1) = IF 0 > n - 1 THEN 0 ELSE (n - 1) - 0 + 1
      BY <1>1, FS_Interval
    <3> QED BY <1>1, <3>1
  <2>2. ASSUME NEW x \in S, NEW y \in S, rank[x] = rank[y] PROVE x = y
    <3> HIDE DEF rank, below, n
    <3>1. rank[x] \in Nat /\ rank[y] \in Nat
      BY <1>4
    <3>2. x # y => <<x, y>> \in R /\ <<y, x>> \in R
      BY <1>5, <2>2, <3>1
    <3> QED BY <3>2 DEF Orders
  <2>3. rank \in [S -> 0 .. n - 1]
    <3>1. DOMAIN rank = S /\ rank = [x \in S |-> rank[x]]
      OBVIOUS
    <3> HIDE DEF rank, below, n
    <3> QED BY <1>4, <3>1
  <2> HIDE DEF rank, below
  <2>4. rank \in Injection(S, 0 .. n - 1)
    BY <2>2, <2>3 DEF Injection, IsInjective
  <2> QED BY <2>1, <2>4, FS_Injection
<1>7. DOMAIN o = 1 .. n
  BY DEF Ranked
<1>8. ASSUME NEW k \in 1 .. n PROVE o[k] \in S /\ rank[o[k]] = k - 1
  <2>1. o[k] = CHOOSE x \in S : Cardinality(below(x)) = k - 1
    BY DEF Ranked
  <2>2. PICK x \in S : rank[x] = k - 1
    <3>1. k - 1 \in 0 .. n - 1
      <4> HIDE DEF n
      <4> QED BY <1>1
    <3> HIDE DEF rank, n
    <3> QED BY <1>6, <3>1 DEF Surjection
  <2>3. Cardinality(below(x)) = k - 1
    BY <2>2
  <2>4. o[k] \in S /\ Cardinality(below(o[k])) = k - 1
    <3> HIDE DEF below, rank, o, n
    <3> QED BY <2>1, <2>3
  <2> HIDE DEF o
  <2> QED BY <2>4
<1>9. ASSUME NEW x \in S PROVE rank[x] + 1 \in 1 .. n /\ o[rank[x] + 1] = x
  <2> DEFINE k == rank[x] + 1
  <2>1. k \in 1 .. n /\ k - 1 = rank[x]
    <3> HIDE DEF rank, n
    <3> QED BY <1>1, <1>4
  <2>2. o[k] \in S /\ rank[o[k]] = rank[x]
    <3> HIDE DEF rank, n, o, k
    <3> QED BY <1>8, <2>1
  <2>3. o[k] = x
    <3> HIDE DEF rank, n, o, k
    <3>1. rank[x] \in Nat /\ x # o[k] => <<x, o[k]>> \in R /\ <<o[k], x>> \in R
      BY <1>4, <1>5, <2>2
    <3> QED BY <2>2, <3>1, <1>4 DEF Orders
  <2> QED BY <2>1, <2>3
<1>10. ASSUME NEW j \in 1 .. n, NEW k \in 1 .. n, j < k PROVE <<o[j], o[k]>> \in R
  <2> HIDE DEF rank, n, o
  <2>1. o[j] \in S /\ o[k] \in S /\ rank[o[j]] < rank[o[k]]
    BY <1>1, <1>8, <1>10
  <2>2. rank[o[j]] \in Nat /\ rank[o[k]] \in Nat
    BY <1>4, <2>1
  <2> QED BY <1>5, <2>1, <2>2
<1>11. ASSUME NEW j \in 1 .. n, NEW k \in 1 .. n, o[j] = o[k] PROVE j = k
  <2> HIDE DEF rank, n, o
  <2> QED BY <1>1, <1>8, <1>11
<1> HIDE DEF rank, n, o
<1>12. \A x \in S : \E k \in 1 .. n : o[k] = x
  BY <1>9
<1> QED BY <1>1, <1>7, <1>8, <1>10, <1>11, <1>12 DEF n, o

LEMMA AscendingIs ==
  ASSUME NEW S \in SUBSET Nat, IsFiniteSet(S)
  PROVE  /\ Cardinality(S) \in Nat
         /\ DOMAIN Ascending(S) = 1 .. Cardinality(S)
         /\ \A k \in 1 .. Cardinality(S) : Ascending(S)[k] \in S
         /\ \A x \in S : \E k \in 1 .. Cardinality(S) : Ascending(S)[k] = x
         /\ \A j, k \in 1 .. Cardinality(S) : j < k => Ascending(S)[j] < Ascending(S)[k]
<1> DEFINE R == {p \in S \X S : p[1] < p[2]}
<1>1. Orders(R, S)
  BY DEF Orders
<1>2. \A x, y : <<x, y>> \in R => x < y
  OBVIOUS
<1>3. Ascending(S) = Ranked(S, R)
  BY DEF Ascending
<1> DEFINE o == Ranked(S, R)
<1> HIDE DEF R
<1>4. /\ Cardinality(S) \in Nat /\ DOMAIN o = 1 .. Cardinality(S)
      /\ \A k \in 1 .. Cardinality(S) : o[k] \in S
      /\ \A x \in S : \E k \in 1 .. Cardinality(S) : o[k] = x
      /\ \A j, k \in 1 .. Cardinality(S) : j < k => <<o[j], o[k]>> \in R
  BY <1>1, RankedIs
<1> HIDE DEF o
<1>5. \A j, k \in 1 .. Cardinality(S) : j < k => o[j] < o[k]
  BY <1>2, <1>4
<1> QED BY <1>3, <1>4, <1>5 DEF o

LEMMA DescendingIs ==
  ASSUME NEW S \in SUBSET Nat, IsFiniteSet(S)
  PROVE  /\ Descending(S) \in Seq(S)
         /\ Len(Descending(S)) = Cardinality(S) /\ Cardinality(S) \in Nat
         /\ \A x \in S : \E k \in 1 .. Cardinality(S) : Descending(S)[k] = x
         /\ S # {} => \A x \in S : x <= Descending(S)[1]
         /\ Descending(S) = <<>> <=> S = {}
<1> DEFINE R == {p \in S \X S : p[1] > p[2]}
           s == Descending(S)
           n == Cardinality(S)
<1>1. Orders(R, S)
  BY DEF Orders
<1>2. \A x, y : <<x, y>> \in R => x > y
  OBVIOUS
<1>3. s = Ranked(S, R)
  BY DEF Descending
<1> DEFINE o == Ranked(S, R)
<1> HIDE DEF R
<1>4. /\ n \in Nat /\ DOMAIN o = 1 .. n
      /\ \A k \in 1 .. n : o[k] \in S
      /\ \A x \in S : \E k \in 1 .. n : o[k] = x
      /\ \A j, k \in 1 .. n : j < k => <<o[j], o[k]>> \in R
  BY <1>1, RankedIs
<1>5. s = [k \in 1 .. n |-> s[k]]
  <2>1. Ranked(S, R) = [k \in 1 .. Cardinality(S) |-> Ranked(S, R)[k]]
    <3> DEFINE f(k) == CHOOSE x \in S : Cardinality({y \in S : <<y, x>> \in R}) = k - 1
    <3>1. Ranked(S, R) = [k \in 1 .. Cardinality(S) |-> f(k)]
      BY DEF Ranked
    <3> HIDE DEF f
    <3> QED BY <3>1
  <2> HIDE DEF s, n, o
  <2> QED BY <1>3, <2>1 DEF n
<1> HIDE DEF s, n, o
<1>6. /\ n \in Nat /\ DOMAIN s = 1 .. n
      /\ \A k \in 1 .. n : s[k] \in S
      /\ \A x \in S : \E k \in 1 .. n : s[k] = x
      /\ \A j, k \in 1 .. n : j < k => s[j] > s[k]
  BY <1>2, <1>3, <1>4 DEF o
<1>7. s \in Seq(S) /\ Len(s) = n
  <2>1. s \in [1 .. n -> S]
    BY <1>6, <1>5
  <2>2. s \in Seq(S)
    BY <1>6, <2>1
  <2> QED BY <1>6, <2>2
<1>8. ASSUME NEW x \in S PROVE x <= s[1] /\ n # 0
  <2>1. PICK k \in 1 .. n : s[k] = x
    BY <1>6
  <2>2. k = 1 \/ 1 < k
    BY <1>6
  <2>3. 1 \in 1 .. n /\ x \in Nat
    BY <1>6
  <2>4. s[1] \in S
    BY <1>6, <2>3
  <2>5. 1 < k => s[1] > s[k]
    BY <1>6, <2>3
  <2>6. n # 0
    BY <2>1
  <2>7. s[1] \in Nat /\ (s[k] = s[1] \/ s[k] < s[1])
    BY <2>2, <2>3, <2>4, <2>5
  <2> QED BY <2>1, <2>3, <2>6, <2>7
<1>9. s = <<>> <=> S = {}
  <2>1. n = 0 => S = {}
    BY <1>8, Zenon
  <2>2. S = {} => n = 0
    BY <1>6
  <2>3. s = <<>> <=> Len(s) = 0
    BY <1>7
  <2> QED BY <1>7, <2>1, <2>2, <2>3
<1> QED BY <1>6, <1>7, <1>8, <1>9 DEF s, n

\* Only keeps what is at the places, in its order.
\* What Only leaves are the elements at these places, in their order.
Selects(seq, places) ==
  /\ \A k \in 1 .. Len(Only(seq, places)) :
       Ascending(places)[k] \in places /\ Only(seq, places)[k] = seq[Ascending(places)[k]]
  /\ \A j, k \in 1 .. Len(Only(seq, places)) :
       j < k => Ascending(places)[j] < Ascending(places)[k]
  /\ \A i \in places : \E k \in 1 .. Len(Only(seq, places)) : Ascending(places)[k] = i

LEMMA OnlyIs ==
  ASSUME NEW T, NEW seq \in Seq(T), NEW places \in SUBSET (1 .. Len(seq))
  PROVE  Only(seq, places) \in Seq(T) /\ Selects(seq, places)
<1> DEFINE n == Cardinality(places)
           at == Ascending(places)
           t == Only(seq, places)
<1>1. Len(seq) \in Nat /\ places \in SUBSET Nat /\ IsFiniteSet(places)
  <2>1. Len(seq) \in Nat
    OBVIOUS
  <2>2. IsFiniteSet(1 .. Len(seq))
    BY <2>1, FS_Interval
  <2>3. places \in SUBSET (1 .. Len(seq)) /\ places \in SUBSET Nat
    BY <2>1
  <2> QED BY <2>1, <2>2, <2>3, FS_Subset
<1>2. /\ n \in Nat /\ DOMAIN at = 1 .. n
      /\ \A k \in 1 .. n : at[k] \in places
      /\ \A i \in places : \E k \in 1 .. n : at[k] = i
      /\ \A j, k \in 1 .. n : j < k => at[j] < at[k]
  BY <1>1, AscendingIs
<1>3. at = [k \in 1 .. n |-> at[k]]
  BY <1>2 DEF Ascending, Ranked
<1>4. t = [k \in 1 .. n |-> seq[at[k]]]
  BY <1>2 DEF Only
<1> HIDE DEF n, at, t
<1>5. ASSUME NEW k \in 1 .. n PROVE seq[at[k]] \in T
  <2>1. at[k] \in 1 .. Len(seq)
    BY <1>2
  <2> QED BY <2>1
<1>6. t \in Seq(T) /\ Len(t) = n
  BY <1>2, <1>4, <1>5
<1> QED BY <1>2, <1>4, <1>6 DEF t, at, Selects

-----------------------------------------------------------------------------
(* The boot loader.                                                        *)

Rds == [prefix : {"initrd", "initramfs", "none"}, kver : Nat]
Entries == [kver : Nat, rd : Rds]
Early == {"plan", "size", "format", "mounted", "rpm", "fstab", "bootstrap", "installed"}

\* A kernel that suits the image, and whether a is at least as good a default as b.
Suits(k) == (k \in root.xen) = domU
AsGood(a, b) == IF Suse /\ ~(Suits(a) <=> Suits(b)) THEN Suits(a) ELSE a >= b

BootTyped ==
  /\ root \in Roots /\ domU \in BOOLEAN /\ conf \in Seq(Entries) /\ initrds \subseteq Rds

\* What the entries name is there.
Known ==
  \A n \in DOMAIN conf : conf[n].kver # template =>
    conf[n].kver \in root.kernels /\ (conf[n].rd # NoRd => conf[n].rd \in initrds)

BestFirst ==
  Populated => /\ conf[1].kver # template
               /\ \A n \in DOMAIN conf : conf[n].kver # template =>
                    AsGood(conf[1].kver, conf[n].kver)

BootInv ==
  /\ BootTyped /\ Known
  /\ stage \in Early => conf = <<>>
  /\ stage = "tag" => \A n \in DOMAIN conf : conf[n].kver = template
  /\ stage \in {"grubby", "refresh"} => loader = "grub"
  /\ stage \in {"grubby", "refresh", "mbr", "built"} /\ loader # "dummy"
       /\ root.kernels \cap root.old # {} => Populated
  /\ loader = "grub" => BestFirst
  /\ stage # "failed" => (losetup = "own" <=> unseen = {})

LEMMA KernelsAre ==
  ASSUME BootTyped
  PROVE  /\ IsFiniteSet(root.kernels) /\ root.kernels \in SUBSET (Nat \ {0})
         /\ root.initrds \subseteq Rds
         /\ Suse => "grubby" \notin root.has /\ "bootman" \notin root.has
         /\ \A k \in Nat : RdName(k) \in Rds /\ RdName(k).kver = k
         /\ \A k \in root.kernels : RdName(k) # NoRd
         /\ NoRd \in Rds
<1>1. root \in Roots
  BY DEF BootTyped
<1>2. /\ IsFiniteSet(root.kernels) /\ root.kernels \subseteq Nat \ {0}
      /\ root.initrds \subseteq [prefix : {"initrd", "initramfs"}, kver : Nat]
      /\ root.distro \in {"suse10", "suse11"} => root.has \cap {"grubby", "bootman"} = {}
  BY <1>1, RootAssumption DEF RootAssumption
<1>3. Prefix \in {"initrd", "initramfs", "none"}
  <2> DEFINE some == CHOOSE i \in initrds : TRUE
  <2>1. initrds # {} => some \in initrds
    OBVIOUS
  <2>2. Prefix = IF initrds = {} THEN "initrd" ELSE some.prefix
    BY DEF Prefix
  <2> HIDE DEF some
  <2>3. initrds # {} => some.prefix \in {"initrd", "initramfs", "none"}
    BY <2>1 DEF BootTyped, Rds
  <2> QED BY <2>2, <2>3
<1>4. ASSUME NEW k \in Nat PROVE RdName(k) \in Rds /\ RdName(k).kver = k
  BY <1>3 DEF RdName, Rds
<1>5. NoRd \in Rds /\ NoRd.kver = 0
  <2>1. NoRd = [prefix |-> "none", kver |-> 0]
    BY DEF NoRd, template
  <2> QED BY <2>1 DEF Rds
<1>6. \A k \in root.kernels : RdName(k) # NoRd
  BY <1>2, <1>4, <1>5
<1> QED BY <1>2, <1>4, <1>5, <1>6 DEF Suse, Rds

\* The entries of the kernels in S, from the newest down.
LEMMA ListedIs ==
  ASSUME BootTyped, NEW S \in SUBSET root.kernels, NEW r \in [root.kernels -> Rds], NEW c,
         c = [n \in DOMAIN Descending(S) |->
                [kver |-> Descending(S)[n], rd |-> r[Descending(S)[n]]]]
  PROVE  /\ c \in Seq(Entries)
         /\ \A n \in DOMAIN c : c[n].kver \in S /\ c[n].rd = r[c[n].kver]
         /\ S # {} => c # <<>> /\ \A n \in DOMAIN c : c[n].kver <= c[1].kver
         /\ \A k \in S : \E n \in DOMAIN c : c[n].kver = k
         /\ S = {} => c = <<>>
<1> DEFINE d == Descending(S)
           m == Cardinality(S)
<1>1. S \in SUBSET Nat /\ IsFiniteSet(S)
  BY KernelsAre, FS_Subset
<1>2. /\ d \in Seq(S) /\ Len(d) = m /\ m \in Nat
      /\ \A x \in S : \E k \in 1 .. m : d[k] = x
      /\ S # {} => \A x \in S : x <= d[1]
      /\ d = <<>> <=> S = {}
  BY <1>1, DescendingIs
<1> HIDE DEF d, m
<1>3. DOMAIN d = 1 .. m /\ \A n \in 1 .. m : d[n] \in S
  BY <1>2
<1>4. c = [n \in 1 .. m |-> [kver |-> d[n], rd |-> r[d[n]]]]
  BY <1>3 DEF d
<1>5. ASSUME NEW n \in 1 .. m
      PROVE  c[n] \in Entries /\ c[n].kver = d[n] /\ c[n].rd = r[d[n]] /\ d[n] \in S
  <2>1. d[n] \in S /\ d[n] \in Nat /\ r[d[n]] \in Rds
    BY <1>1, <1>3
  <2> QED BY <1>4, <2>1 DEF Entries
<1>6. c \in Seq(Entries) /\ DOMAIN c = 1 .. m
  <2>1. c \in [1 .. m -> Entries]
    BY <1>4, <1>5
  <2> QED BY <1>2, <2>1
<1>7. S # {} => m # 0
  BY <1>2
<1>8. S = {} => c = <<>>
  <2>1. S = {} => m = 0
    BY <1>2
  <2>2. m = 0 => c = <<>>
    BY <1>4
  <2> QED BY <2>1, <2>2
<1>9. ASSUME S # {} PROVE c # <<>> /\ \A n \in DOMAIN c : c[n].kver <= c[1].kver
  <2>1. 1 \in 1 .. m
    BY <1>2, <1>7, <1>9
  <2>2. \A n \in 1 .. m : c[n].kver <= c[1].kver
    BY <1>2, <1>5, <1>9, <2>1
  <2>3. c # <<>>
    <3>1. DOMAIN c # {}
      BY <1>6, <2>1
    <3> QED BY <3>1
  <2> QED BY <1>6, <2>2, <2>3
<1>10. ASSUME NEW k \in S PROVE \E n \in DOMAIN c : c[n].kver = k
  <2>1. PICK n \in 1 .. m : d[n] = k
    BY <1>2
  <2> QED BY <1>5, <1>6, <2>1
<1> QED BY <1>5, <1>6, <1>8, <1>9, <1>10

\* On SUSE the kernel that is entered last, and becomes the default, is the best.
LEMMA SuseOrderIs ==
  ASSUME BootTyped, Suse, NEW S \in SUBSET root.kernels, S # {}
  PROVE  /\ Reverse(SuseOrder(S)) \in Seq(S)
         /\ Len(Reverse(SuseOrder(S))) \in Nat \ {0}
         /\ \A k \in S : \E n \in 1 .. Len(Reverse(SuseOrder(S))) : Reverse(SuseOrder(S))[n] = k
         /\ \A k \in S : AsGood(Reverse(SuseOrder(S))[1], k)
<1> DEFINE suits == {k \in S : Suits(k)}
           R == {p \in S \X S : IF p[1] \in suits <=> p[2] \in suits THEN p[1] < p[2]
                                ELSE p[2] \in suits}
           o == SuseOrder(S)
           n == Cardinality(S)
           s == Reverse(o)
<1>1. S \in SUBSET Nat /\ IsFiniteSet(S)
  BY KernelsAre, FS_Subset
<1>2. o = Ranked(S, R)
  BY DEF SuseOrder, Suits
<1>3. suits \in SUBSET S
  OBVIOUS
<1>4. Orders(R, S)
  <2> HIDE DEF suits
  <2> QED BY <1>1, <1>3 DEF Orders
<1>5. ASSUME NEW x, NEW y, <<x, y>> \in R PROVE AsGood(y, x) /\ x \in S /\ y \in S
  <2>1. x \in S /\ y \in S /\ x \in Nat /\ y \in Nat
    BY <1>1, <1>5
  <2>2. IF x \in suits <=> y \in suits THEN x < y ELSE y \in suits
    BY <1>5
  <2>3. (x \in suits <=> Suits(x)) /\ (y \in suits <=> Suits(y))
    BY <2>1
  <2> HIDE DEF suits, R
  <2> QED BY <2>1, <2>2, <2>3 DEF AsGood
<1>6. ASSUME NEW x \in S PROVE AsGood(x, x)
  BY <1>1, <1>6 DEF AsGood
<1> HIDE DEF suits, R
<1>7. /\ n \in Nat /\ DOMAIN Ranked(S, R) = 1 .. n
      /\ \A k \in 1 .. n : Ranked(S, R)[k] \in S
      /\ \A x \in S : \E k \in 1 .. n : Ranked(S, R)[k] = x
      /\ \A j, k \in 1 .. n : j < k => <<Ranked(S, R)[j], Ranked(S, R)[k]>> \in R
  BY <1>1, <1>4, RankedIs
<1>8. o = [k \in 1 .. n |-> o[k]]
  <2> DEFINE f(k) == CHOOSE x \in S : Cardinality({y \in S : <<y, x>> \in R}) = k - 1
  <2>1. Ranked(S, R) = [k \in 1 .. n |-> f(k)]
    BY DEF Ranked
  <2> HIDE DEF f, n, o
  <2> QED BY <1>2, <2>1
<1> HIDE DEF n, o
<1>9. /\ \A k \in 1 .. n : o[k] \in S
      /\ \A x \in S : \E k \in 1 .. n : o[k] = x
      /\ \A j, k \in 1 .. n : j < k => <<o[j], o[k]>> \in R
  BY <1>2, <1>7
<1>10. o \in Seq(S) /\ Len(o) = n /\ n \in Nat \ {0}
  <2>1. o \in [1 .. n -> S]
    BY <1>8, <1>9
  <2>2. n # 0
    <3>1. PICK x \in S : TRUE
      OBVIOUS
    <3>2. PICK k \in 1 .. n : o[k] = x
      BY <1>9
    <3> QED BY <3>2
  <2> QED BY <1>7, <2>1, <2>2
<1>11. s = [k \in 1 .. n |-> o[(n - k) + 1]]
  BY <1>10 DEF Reverse
<1> HIDE DEF s
<1>12. \A k \in 1 .. n : (n - k) + 1 \in 1 .. n /\ (n - ((n - k) + 1)) + 1 = k
  BY <1>10
<1>13. s \in Seq(S) /\ Len(s) = n
  <2>1. s \in [1 .. n -> S]
    BY <1>9, <1>11, <1>12
  <2> QED BY <1>10, <2>1
<1>14. ASSUME NEW x \in S PROVE \E k \in 1 .. n : s[k] = x
  <2>1. PICK k \in 1 .. n : o[k] = x
    BY <1>9
  <2>2. s[(n - k) + 1] = x
    BY <1>11, <1>12, <2>1
  <2> QED BY <1>12, <2>2
<1>15. ASSUME NEW x \in S PROVE AsGood(s[1], x)
  <2>1. PICK k \in 1 .. n : o[k] = x
    BY <1>9
  <2>2. 1 \in 1 .. n /\ n \in 1 .. n /\ s[1] = o[n] /\ (k = n \/ k < n)
    BY <1>10, <1>11
  <2>3. k < n => <<o[k], o[n]>> \in R
    BY <1>9, <2>2
  <2> QED BY <1>5, <1>6, <2>1, <2>2, <2>3
<1> QED BY <1>10, <1>13, <1>14, <1>15 DEF s, o

\* The kernels in S, newest first, are the only entries: the best is the first.
LEMMA OnlyListed ==
  ASSUME BootTyped, UNCHANGED <<root, domU>>, ~Suse, conf' \in Seq(Entries),
         \A n \in DOMAIN conf' : conf'[n].kver \in root.kernels /\ conf'[n].kver <= conf'[1].kver
  PROVE  BestFirst'
<1> SUFFICES ASSUME Populated'
             PROVE  /\ conf'[1].kver # template
                    /\ \A n \in DOMAIN conf' : AsGood(conf[1].kver, conf[n].kver)'
  BY DEF BestFirst, template
<1>1. PICK n \in DOMAIN conf' : TRUE
  BY DEF Populated, Range
<1>2. 1 \in DOMAIN conf' /\ DOMAIN conf' = 1 .. Len(conf')
  BY <1>1
<1>3. conf'[1].kver \in root.kernels /\ root.kernels \subseteq Nat \ {0}
  BY <1>2, KernelsAre
<1>4. ASSUME NEW k \in DOMAIN conf' PROVE AsGood(conf[1].kver, conf[k].kver)'
  <2>1. conf'[k].kver \in Nat /\ conf'[1].kver >= conf'[k].kver
    BY <1>3, <1>4
  <2>2. ~Suse'
    BY DEF Suse
  <2> QED BY <2>1, <2>2 DEF AsGood
<1> QED BY <1>3, <1>4 DEF template

\* A step that has nothing to do with the boot loader.
LEMMA QuietStep ==
  ASSUME BootInv, UNCHANGED <<planVars, bootVars>>, stage # "failed",
         stage' \in Early => stage \in Early,
         stage' \notin {"tag", "grubby", "refresh"},
         stage' \in {"mbr", "built"} => stage = "mbr" \/ loader = "dummy"
  PROVE  BootInv'
<1>1. UNCHANGED <<root, domU, loader, conf, initrds, losetup, unseen>>
  BY DEF planVars, bootVars
<1>2. BootTyped' /\ Known' /\ (loader' = "grub" => BestFirst')
  BY <1>1 DEF BootInv, BootTyped, Known, BestFirst, Populated, AsGood, Suits, Suse, NoRd, template
<1>3. /\ stage' \in Early => conf' = <<>>
      /\ stage' # "failed" => (losetup' = "own" <=> unseen' = {})
  BY <1>1 DEF BootInv
<1>4. stage' \in {"mbr", "built"} /\ loader' # "dummy" /\ root'.kernels \cap root'.old # {}
        => Populated'
  BY <1>1 DEF BootInv, Populated, template
<1> QED BY <1>2, <1>3, <1>4 DEF BootInv

LEMMA QuietSteps ==
  ASSUME BootInv,
         \/ getFilesystems \/ Plan \/ getImageSize \/ Format \/ loadRPM \/ preInstallScripts
         \/ installBootstrapTroves \/ postTagScripts \/ InstallDummy
  PROVE  BootInv'
<1>1. UNCHANGED <<planVars, bootVars>>
  BY DEF getFilesystems, Plan, getImageSize, Format, loadRPM, preInstallScripts,
         installBootstrapTroves, postTagScripts, InstallDummy, Passes
<1>2. \/ stage \in Early /\ stage' \in Early \cup {"failed"}
      \/ stage = "passwords" /\ stage' \in {"loader", "failed"}
      \/ stage = "loader" /\ loader = "dummy" /\ stage' \in {"mbr", "built"}
  BY DEF getFilesystems, Plan, getImageSize, Format, loadRPM, preInstallScripts,
         installBootstrapTroves, postTagScripts, InstallDummy, Passes, Raise, Finished, Early
<1> QED BY <1>1, <1>2, QuietStep DEF Early

LEMMA InstallTrovesStep == BootInv /\ InstallTroves => BootInv'
<1> SUFFICES ASSUME BootInv, InstallTroves PROVE BootInv'
  OBVIOUS
<1>1. /\ UNCHANGED <<root, domU, conf, losetup, unseen>> /\ conf = <<>>
      /\ stage' \in {"installed", "failed"} /\ (losetup = "own" <=> unseen = {})
      /\ initrds' \in {initrds, root.initrds}
  BY DEF InstallTroves, planVars, BootInv, Early, Raise
<1>2. BootTyped'
  BY <1>1, KernelsAre DEF BootInv, BootTyped
<1>3. Known' /\ BestFirst'
  BY <1>1 DEF Known, BestFirst, Populated, Range
<1> QED BY <1>1, <1>2, <1>3 DEF BootInv, Early

LEMMA PreTagStep == BootInv /\ preTagScripts => BootInv'
<1> SUFFICES ASSUME BootInv, preTagScripts PROVE BootInv'
  OBVIOUS
<1>1. /\ UNCHANGED <<root, domU, loader, initrds, losetup, unseen>> /\ conf = <<>>
      /\ stage' \in {"tag", "failed"} /\ (losetup = "own" <=> unseen = {})
      /\ conf' \in {conf, writeConf(<<>>)}
  BY DEF preTagScripts, planVars, BootInv, Early, Raise, setup
<1>2. conf' \in Seq(Entries) /\ \A n \in DOMAIN conf' : conf'[n].kver = template
  <2>1. CASE conf' = conf
    BY <1>1, <2>1
  <2>2. CASE conf' = writeConf(<<>>)
    <3> DEFINE rd == IF initrds = {} THEN NoRd ELSE RdName(template)
               e == [kver |-> template, rd |-> rd]
    <3>1. rd \in Rds
      BY KernelsAre DEF BootInv, template
    <3>2. e \in Entries /\ e.kver = template
      BY <3>1 DEF Entries, template
    <3>3. writeConf(<<>>) \in {<<>>, <<e>>}
      <4> DEFINE Entry(k) == [kver |-> k, rd |-> IF initrds = {} THEN NoRd ELSE RdName(k)]
                 listed == IF root.distro # "suse11" THEN <<template>> ELSE <<>>
      <4>1. writeConf(<<>>) = [n \in DOMAIN listed |-> Entry(listed[n])]
        BY DEF writeConf
      <4>2. CASE root.distro # "suse11"
        <5>1. listed = <<template>> /\ DOMAIN <<template>> = {1} /\ <<template>>[1] = template
          BY <4>2
        <5>2. writeConf(<<>>) = [n \in {1} |-> e]
          <6> HIDE DEF listed
          <6>1. writeConf(<<>>) = [n \in {1} |-> Entry(listed[n])]
            BY <4>1, <5>1
          <6>2. \A n \in {1} : Entry(listed[n]) = e
            BY <5>1
          <6> HIDE DEF Entry, e
          <6> QED BY <6>1, <6>2
        <5>3. [n \in {1} |-> e] = <<e>>
          <6> HIDE DEF e
          <6> QED OBVIOUS
        <5> QED BY <5>2, <5>3
      <4>3. CASE root.distro = "suse11"
        <5>1. listed = <<>> /\ DOMAIN <<>> = {}
          BY <4>3
        <5>2. writeConf(<<>>) = [n \in {} |-> Entry(listed[n])]
          BY <4>1, <5>1
        <5> HIDE DEF Entry
        <5> QED BY <5>2
      <4> QED BY <4>2, <4>3
    <3> HIDE DEF e
    <3>4. CASE writeConf(<<>>) = <<>>
      <4>1. conf' = <<>>
        BY <2>2, <3>4
      <4> QED BY <4>1
    <3>5. CASE writeConf(<<>>) = <<e>>
      <4>1. conf' = <<e>>
        BY <2>2, <3>5
      <4>2. <<e>> \in Seq(Entries) /\ DOMAIN <<e>> = {1} /\ <<e>>[1] = e
        BY <3>2
      <4> QED BY <3>2, <4>1, <4>2
    <3> QED BY <3>3, <3>4, <3>5
  <2> QED BY <1>1, <2>1, <2>2
<1>3. BootTyped' /\ Known' /\ BestFirst'
  BY <1>1, <1>2 DEF BootInv, BootTyped, Known, BestFirst, Populated, Range
<1> QED BY <1>1, <1>2, <1>3 DEF BootInv, Early

\* As ListedIs, when each entry names the initrd of its kernel.
LEMMA NamedIs ==
  ASSUME BootTyped, NEW S \in SUBSET root.kernels, NEW c,
         c = [n \in DOMAIN Descending(S) |->
                [kver |-> Descending(S)[n], rd |-> RdName(Descending(S)[n])]]
  PROVE  /\ c \in Seq(Entries)
         /\ \A n \in DOMAIN c : c[n].kver \in S /\ c[n].rd = RdName(c[n].kver)
         /\ S # {} => c # <<>> /\ \A n \in DOMAIN c : c[n].kver <= c[1].kver
         /\ S = {} => c = <<>>
<1> DEFINE r == [k \in root.kernels |-> RdName(k)]
           d == Descending(S)
<1>1. r \in [root.kernels -> Rds]
  BY KernelsAre
<1>2. \A n \in DOMAIN d : d[n] \in root.kernels
  <2>1. S \in SUBSET Nat /\ IsFiniteSet(S)
    BY KernelsAre, FS_Subset
  <2>2. d \in Seq(S)
    BY <2>1, DescendingIs
  <2> HIDE DEF d
  <2> QED BY <2>2
<1>3. \A k \in root.kernels : r[k] = RdName(k)
  OBVIOUS
<1> HIDE DEF r
<1>4. c = [n \in DOMAIN d |-> [kver |-> d[n], rd |-> r[d[n]]]]
  <2>1. \A n \in DOMAIN d : r[d[n]] = RdName(d[n])
    <3> HIDE DEF d
    <3> QED BY <1>2, <1>3
  <2> QED BY <2>1
<1>5. /\ c \in Seq(Entries)
      /\ \A n \in DOMAIN c : c[n].kver \in S /\ c[n].rd = r[c[n].kver]
      /\ S # {} => c # <<>> /\ \A n \in DOMAIN c : c[n].kver <= c[1].kver
      /\ S = {} => c = <<>>
  <2> HIDE DEF d
  <2> QED BY <1>1, <1>4, ListedIs DEF d
<1>6. \A n \in DOMAIN c : c[n].rd = RdName(c[n].kver)
  BY <1>3, <1>5
<1> QED BY <1>5, <1>6

LEMMA RunTagStep == BootInv /\ runTagScripts => BootInv'
<1> SUFFICES ASSUME BootInv, runTagScripts PROVE BootInv'
  OBVIOUS
<1>1. /\ UNCHANGED <<root, domU, loader, losetup, unseen>> /\ stage = "tag"
      /\ stage' \in {"passwords", "failed"} /\ BootTyped /\ Known
      /\ (losetup = "own" <=> unseen = {})
      /\ \A n \in DOMAIN conf : conf[n].kver = template
      /\ loader = "grub" => BestFirst
  BY DEF runTagScripts, planVars, BootInv, Raise
<1>2. CASE UNCHANGED <<conf, initrds>>
  <2>1. BootTyped' /\ Known' /\ (loader' = "grub" => BestFirst')
    BY <1>1, <1>2
       DEF BootTyped, Known, BestFirst, Populated, AsGood, Suits, Suse, NoRd, template
  <2> QED BY <1>1, <2>1 DEF BootInv, Early
<1> DEFINE new == Descending(root.kernels)
           c == [n \in DOMAIN new |-> [kver |-> new[n], rd |-> RdName(new[n])]]
<1>3. CASE /\ "grubby" \in root.has /\ conf' = c \o conf
           /\ initrds' = initrds \cup {RdName(k) : k \in root.kernels}
  <2>1. /\ c \in Seq(Entries)
        /\ \A n \in DOMAIN c : c[n].kver \in root.kernels /\ c[n].rd = RdName(c[n].kver)
        /\ root.kernels # {} => c # <<>> /\ \A n \in DOMAIN c : c[n].kver <= c[1].kver
        /\ root.kernels = {} => c = <<>>
    BY <1>1, NamedIs
  <2> HIDE DEF c
  <2>2. conf \in Seq(Entries)
    BY <1>1 DEF BootTyped
  <2>3. /\ conf' \in Seq(Entries) /\ Len(conf') = Len(c) + Len(conf)
        /\ Len(c) \in Nat /\ Len(conf) \in Nat
        /\ DOMAIN c = 1 .. Len(c) /\ DOMAIN conf = 1 .. Len(conf)
        /\ DOMAIN conf' = 1 .. Len(c) + Len(conf)
        /\ \A n \in 1 .. Len(c) : conf'[n] = c[n]
    BY <1>3, <2>1, <2>2
  <2>4. ASSUME NEW n \in DOMAIN conf', ~(n \in DOMAIN c) PROVE conf'[n].kver = template
    <3>1. n - Len(c) \in DOMAIN conf /\ conf'[n] = conf[n - Len(c)]
      BY <1>3, <2>1, <2>2, <2>3, <2>4
    <3> QED BY <1>1, <3>1
  <2>5. BootTyped'
    BY <1>1, <1>3, <2>3, KernelsAre DEF BootTyped
  <2>6. Known'
    <3> SUFFICES ASSUME NEW n \in DOMAIN conf', conf'[n].kver # template
                 PROVE  conf'[n].kver \in root.kernels /\ conf'[n].rd \in initrds'
      BY <1>1 DEF Known, template, NoRd
    <3>1. n \in DOMAIN c
      BY <2>4
    <3> QED BY <1>3, <2>1, <2>3, <3>1
  <2>7. BestFirst'
    <3> SUFFICES ASSUME Populated'
                 PROVE  /\ conf'[1].kver # template
                        /\ \A n \in DOMAIN conf' : conf'[n].kver # template =>
                             AsGood(conf[1].kver, conf[n].kver)'
      BY DEF BestFirst, template
    <3>1. PICK n \in DOMAIN conf' : conf'[n].kver # template
      BY DEF Populated, Range, template
    <3>2. n \in DOMAIN c
      BY <2>4, <3>1
    <3>3. root.kernels # {} /\ 1 \in DOMAIN c /\ conf'[1] = c[1]
      BY <2>1, <2>3, <3>2
    <3>4. root.kernels \subseteq Nat \ {0} /\ ~Suse'
      BY <1>1, <1>3, KernelsAre DEF Suse
    <3>5. conf'[1].kver # template
      BY <2>1, <3>3, <3>4 DEF template
    <3>6. ASSUME NEW k \in DOMAIN conf', conf'[k].kver # template
          PROVE  AsGood(conf[1].kver, conf[k].kver)'
      <4>1. k \in DOMAIN c
        BY <2>4, <3>6
      <4>2. conf'[k].kver <= conf'[1].kver /\ conf'[k].kver \in Nat /\ conf'[1].kver \in Nat
        BY <2>1, <2>3, <3>3, <3>4, <4>1
      <4> QED BY <3>4, <4>2 DEF AsGood
    <3> QED BY <3>5, <3>6
  <2> QED BY <1>1, <2>5, <2>6, <2>7 DEF BootInv, Early
<1>4. \/ UNCHANGED <<conf, initrds>>
      \/ /\ "grubby" \in root.has /\ conf' = c \o conf
         /\ initrds' = initrds \cup {RdName(k) : k \in root.kernels}
  BY DEF runTagScripts
<1> QED BY <1>2, <1>3, <1>4

\* What Bootman writes.
LEMMA BootmanIs ==
  ASSUME BootTyped, Bootman, UNCHANGED <<root, domU>>
  PROVE  /\ BootTyped' /\ Known' /\ (root.kernels # {} => Populated')
         /\ ~Suse => BestFirst'
<1> DEFINE all == Descending(root.kernels)
           c == [n \in DOMAIN all |-> [kver |-> all[n], rd |-> RdName(all[n])]]
<1>1. conf' = c /\ initrds' = initrds \cup {RdName(k) : k \in root.kernels}
  BY DEF Bootman
<1>2. /\ c \in Seq(Entries)
      /\ \A n \in DOMAIN c : c[n].kver \in root.kernels /\ c[n].rd = RdName(c[n].kver)
      /\ root.kernels # {} => c # <<>> /\ \A n \in DOMAIN c : c[n].kver <= c[1].kver
      /\ root.kernels = {} => c = <<>>
  BY NamedIs
<1> HIDE DEF c
<1>3. BootTyped'
  BY <1>1, <1>2, KernelsAre DEF BootTyped
<1>4. Known'
  <2> SUFFICES ASSUME NEW n \in DOMAIN conf'
               PROVE  conf'[n].kver \in root.kernels /\ conf'[n].rd \in initrds'
    BY DEF Known, template, NoRd
  <2> QED BY <1>1, <1>2
<1>5. ASSUME root.kernels # {} PROVE Populated'
  <2>1. 1 \in DOMAIN c
    BY <1>2, <1>5
  <2>2. c[1].kver # template
    BY <1>2, <2>1, KernelsAre DEF template
  <2> QED BY <1>1, <2>1, <2>2 DEF Populated, Range, template
<1>6. ~Suse => BestFirst'
  <2>1. \A n \in DOMAIN c : c[n].kver \in root.kernels /\ c[n].kver <= c[1].kver
    BY <1>2
  <2> QED BY <1>1, <1>2, <2>1, OnlyListed
<1> QED BY <1>3, <1>4, <1>5, <1>6

\* What add_kernels leaves, when nothing had entered a kernel before it.
LEMMA AddKernelsIs ==
  ASSUME BootTyped, ~Populated, AddKernels, UNCHANGED <<root, domU>>
  PROVE  /\ BootTyped' /\ Known' /\ BestFirst'
         /\ root.kernels \cap root.old # {} => Populated'
<1> DEFINE kernels == root.kernels \cap root.old
<1>1. kernels \in SUBSET root.kernels /\ kernels \in SUBSET (Nat \ {0})
  BY KernelsAre
<1>2. CASE kernels = {}
  <2>1. UNCHANGED <<conf, initrds>>
    BY <1>2 DEF AddKernels
  <2>2. ~Populated'
    BY <2>1 DEF Populated, template
  <2>3. Known'
    BY <2>2 DEF Known, Populated, Range, template
  <2> QED BY <1>2, <2>1, <2>2, <2>3 DEF BootTyped, BestFirst
<1>3. CASE kernels # {} /\ Suse
  <2> DEFINE added == Reverse(SuseOrder(kernels))
             rd(k) == [prefix |-> "initrd", kver |-> k]
             c == [n \in DOMAIN added |-> [kver |-> added[n], rd |-> rd(added[n])]]
  <2>1. conf' = c /\ initrds' = initrds \cup {rd(k) : k \in kernels}
    BY <1>3 DEF AddKernels
  <2> HIDE DEF kernels
  <2>2. /\ added \in Seq(kernels) /\ Len(added) \in Nat \ {0}
        /\ \A k \in kernels : AsGood(added[1], k)
    BY <1>1, <1>3, SuseOrderIs
  <2> HIDE DEF added
  <2>3. DOMAIN added = 1 .. Len(added) /\ \A n \in 1 .. Len(added) : added[n] \in kernels
    BY <2>2
  <2>4. \A k \in Nat : rd(k) \in Rds
    BY DEF Rds
  <2>5. ASSUME NEW n \in 1 .. Len(added)
        PROVE  /\ c[n] \in Entries /\ c[n].kver = added[n] /\ c[n].rd = rd(added[n])
               /\ added[n] \in kernels
    <3>1. added[n] \in kernels /\ added[n] \in Nat /\ rd(added[n]) \in Rds
      BY <1>1, <2>3, <2>4
    <3> HIDE DEF rd
    <3> QED BY <2>3, <3>1 DEF Entries
  <2> HIDE DEF rd
  <2>6. c \in Seq(Entries) /\ DOMAIN c = 1 .. Len(added)
    <3>1. c \in [1 .. Len(added) -> Entries]
      BY <2>3, <2>5
    <3> QED BY <2>2, <3>1
  <2> HIDE DEF c
  <2>7. BootTyped'
    BY <1>1, <2>1, <2>4, <2>6 DEF BootTyped
  <2>8. Known'
    <3> SUFFICES ASSUME NEW n \in DOMAIN conf'
                 PROVE  conf'[n].kver \in root.kernels /\ conf'[n].rd \in initrds'
      BY DEF Known, template, NoRd
    <3> QED BY <1>1, <2>1, <2>5, <2>6
  <2>9. 1 \in DOMAIN c /\ c[1].kver \in kernels
    BY <2>2, <2>5, <2>6
  <2>10. c[1].kver # template
    BY <1>1, <2>9 DEF template
  <2>11. Populated'
    BY <2>1, <2>9, <2>10 DEF Populated, Range, template
  <2>12. ASSUME NEW n \in DOMAIN conf' PROVE AsGood(conf[1].kver, conf[n].kver)'
    <3>1. c[n].kver \in kernels /\ c[1].kver = added[1]
      BY <2>1, <2>5, <2>6, <2>9, <2>12
    <3>2. AsGood(c[1].kver, c[n].kver)
      BY <2>2, <3>1
    <3> QED BY <2>1, <3>2 DEF AsGood, Suits, Suse
  <2> QED BY <2>1, <2>7, <2>8, <2>10, <2>11, <2>12 DEF BestFirst, template
<1>4. CASE kernels # {} /\ ~Suse
  <2> DEFINE new == Descending(kernels)
             r == [k \in root.kernels |-> IF initrds = {} THEN NoRd ELSE RdName(k)]
             rd(k) == IF initrds = {} THEN NoRd ELSE RdName(k)
             c == [n \in DOMAIN new |-> [kver |-> new[n], rd |-> r[new[n]]]]
  <2>1. conf' = writeConf(new) /\ initrds' = initrds \cup {RdName(k) : k \in kernels}
    BY <1>4 DEF AddKernels, RdMade, RdName
  <2>2. r \in [root.kernels -> Rds]
    BY KernelsAre
  <2>3. \A k \in root.kernels : r[k] = rd(k)
    OBVIOUS
  <2>4. IsFiniteSet(kernels) /\ kernels \in SUBSET Nat
    BY <1>1, KernelsAre, FS_Subset
  <2> HIDE DEF kernels
  <2>5. new # <<>> /\ \A n \in DOMAIN new : new[n] \in root.kernels
    <3>1. new \in Seq(kernels) /\ (new = <<>> <=> kernels = {})
      BY <2>4, DescendingIs
    <3> HIDE DEF new
    <3>2. \A n \in DOMAIN new : new[n] \in kernels
      BY <3>1
    <3>3. kernels \in SUBSET root.kernels /\ kernels # {}
      BY <1>1, <1>4
    <3> QED BY <3>1, <3>2, <3>3
  <2>6. writeConf(new) = [n \in DOMAIN new |-> [kver |-> new[n], rd |-> rd(new[n])]]
    <3> HIDE DEF new
    <3> QED BY <2>5 DEF writeConf
  <2>7. conf' = c
    <3> HIDE DEF new, r, rd
    <3>1. \A n \in DOMAIN new : rd(new[n]) = r[new[n]]
      BY <2>3, <2>5
    <3> QED BY <2>1, <2>6, <3>1
  <2>8. /\ c \in Seq(Entries)
        /\ \A n \in DOMAIN c : c[n].kver \in kernels /\ c[n].rd = r[c[n].kver]
        /\ c # <<>> /\ \A n \in DOMAIN c : c[n].kver <= c[1].kver
    <3>1. c = [n \in DOMAIN Descending(kernels) |->
                [kver |-> Descending(kernels)[n], rd |-> r[Descending(kernels)[n]]]]
      OBVIOUS
    <3> HIDE DEF r, c, new
    <3>2. kernels \in SUBSET root.kernels /\ kernels # {}
      BY <1>1, <1>4
    <3> QED BY <2>2, <3>1, <3>2, ListedIs
  <2> HIDE DEF c, r, new
  <2>9. BootTyped'
    BY <1>1, <2>1, <2>7, <2>8, KernelsAre DEF BootTyped
  <2>10. ASSUME NEW n \in DOMAIN conf'
         PROVE  conf'[n].kver \in root.kernels /\ (conf'[n].rd # NoRd => conf'[n].rd \in initrds')
    <3>1. conf'[n].kver \in kernels /\ conf'[n].rd = rd(conf'[n].kver)
      BY <1>1, <2>3, <2>7, <2>8, <2>10
    <3> QED BY <1>1, <2>1, <3>1
  <2>11. Known'
    BY <2>10 DEF Known, template, NoRd
  <2>12. 1 \in DOMAIN c /\ c[1].kver \in kernels
    BY <2>8
  <2>13. Populated'
    BY <1>1, <2>7, <2>12 DEF Populated, Range, template
  <2>14. BestFirst'
    BY <1>1, <1>4, <2>7, <2>8, OnlyListed
  <2> QED BY <2>9, <2>11, <2>13, <2>14
<1> QED BY <1>2, <1>3, <1>4

LEMMA PopulateGrubStep == BootInv /\ PopulateGrub => BootInv'
<1> SUFFICES ASSUME BootInv, PopulateGrub PROVE BootInv'
  OBVIOUS
<1>1. /\ UNCHANGED <<root, domU, loader, losetup, unseen>> /\ loader = "grub"
      /\ (losetup = "own" <=> unseen = {})
      /\ stage' \in {"grubby", "refresh", "failed"} /\ BootTyped /\ Known /\ BestFirst
  BY DEF PopulateGrub, planVars, BootInv, Raise
<1>2. \/ ~Populated /\ AddKernels
      \/ UNCHANGED <<conf, initrds>> /\ (Populated \/ stage' = "failed")
  BY DEF PopulateGrub, Raise
<1>3. CASE ~Populated /\ AddKernels
  <2>1. BootTyped' /\ Known' /\ BestFirst' /\ (root.kernels \cap root.old # {} => Populated')
    BY <1>1, <1>3, AddKernelsIs
  <2> QED BY <1>1, <2>1 DEF BootInv, Early
<1>4. CASE UNCHANGED <<conf, initrds>> /\ (Populated \/ stage' = "failed")
  <2>1. BootTyped' /\ Known' /\ BestFirst' /\ (Populated => Populated')
    BY <1>1, <1>4
       DEF BootTyped, Known, BestFirst, Populated, AsGood, Suits, Suse, NoRd, template
  <2> QED BY <1>1, <1>4, <2>1 DEF BootInv, Early
<1> QED BY <1>2, <1>3, <1>4

\* Without the template the entries are as good as with it.
LEMMA WithoutTemplate ==
  ASSUME BootTyped, Known, BestFirst, UNCHANGED <<root, domU>>,
         initrds \subseteq initrds', initrds' \subseteq Rds,
         conf' = Only(conf, {n \in DOMAIN conf : conf[n].kver # template})
  PROVE  BootTyped' /\ Known' /\ BestFirst' /\ (Populated => Populated')
<1> DEFINE places == {n \in DOMAIN conf : conf[n].kver # template}
           at == Ascending(places)
<1>1. conf \in Seq(Entries)
  BY DEF BootTyped
<1>2. places \in SUBSET (1 .. Len(conf)) /\ Len(conf) \in Nat /\ DOMAIN conf = 1 .. Len(conf)
  BY <1>1
<1>3. \A n \in places : n \in DOMAIN conf /\ conf[n].kver # template
  OBVIOUS
<1>4. \A n \in DOMAIN conf : conf[n].kver # template => n \in places
  OBVIOUS
<1>5. conf' = Only(conf, places)
  OBVIOUS
<1> HIDE DEF places
<1>6. conf' \in Seq(Entries)
  <2>1. places \in SUBSET (1 .. Len(conf))
    BY <1>2
  <2>2. Only(conf, places) \in Seq(Entries)
    BY <1>1, <2>1, OnlyIs
  <2> QED BY <1>5, <2>2
<1>7. /\ \A k \in 1 .. Len(conf') : at[k] \in places /\ conf'[k] = conf[at[k]]
      /\ \A j, k \in 1 .. Len(conf') : j < k => at[j] < at[k]
      /\ \A i \in places : \E k \in 1 .. Len(conf') : at[k] = i
  <2> DEFINE t == Only(conf, places)
  <2>1. /\ \A k \in 1 .. Len(t) : at[k] \in places /\ t[k] = conf[at[k]]
        /\ \A j, k \in 1 .. Len(t) : j < k => at[j] < at[k]
        /\ \A i \in places : \E k \in 1 .. Len(t) : at[k] = i
    <3>1. places \in SUBSET (1 .. Len(conf))
      BY <1>2
    <3>2. Selects(conf, places)
      BY <1>1, <3>1, OnlyIs
    <3> QED BY <3>2 DEF Selects
  <2>2. conf' = t
    BY <1>5
  <2> HIDE DEF t, at
  <2> QED BY <2>1, <2>2
<1> HIDE DEF at
<1>8. Len(conf') \in Nat /\ DOMAIN conf' = 1 .. Len(conf')
  BY <1>6
<1>9. \A k \in DOMAIN conf' : at[k] \in DOMAIN conf /\ conf'[k] = conf[at[k]]
                              /\ conf'[k].kver # template
  BY <1>3, <1>7, <1>8
<1>10. BootTyped'
  BY <1>6 DEF BootTyped
<1>11. Known'
  <2> SUFFICES ASSUME NEW n \in DOMAIN conf'
               PROVE  /\ conf'[n].kver \in root.kernels
                      /\ conf'[n].rd # NoRd => conf'[n].rd \in initrds'
    BY DEF Known, template, NoRd
  <2>1. at[n] \in DOMAIN conf /\ conf'[n] = conf[at[n]] /\ conf[at[n]].kver # template
    BY <1>9
  <2> QED BY <2>1 DEF Known
<1>12. ASSUME Populated PROVE Populated'
  <2>1. PICK n \in DOMAIN conf : conf[n].kver # template
    BY <1>12 DEF Populated, Range
  <2>2. PICK k \in DOMAIN conf' : at[k] = n
    BY <1>4, <1>7, <1>8, <2>1
  <2>3. conf'[k].kver # template
    BY <1>9
  <2> QED BY <2>3 DEF Populated, Range, template
<1>13. BestFirst'
  <2> SUFFICES ASSUME Populated'
               PROVE  /\ conf'[1].kver # template
                      /\ \A n \in DOMAIN conf' : AsGood(conf[1].kver, conf[n].kver)'
    BY DEF BestFirst, template
  <2>1. PICK n \in DOMAIN conf' : TRUE
    BY DEF Populated, Range
  <2>2. Populated
    BY <1>9 DEF Populated, Range
  <2>3. conf[1].kver # template /\ 1 \in DOMAIN conf /\ 1 \in DOMAIN conf'
    <3>1. conf[1].kver # template
      BY <2>2 DEF BestFirst
    <3>2. 1 \in DOMAIN conf'
      BY <1>8, <2>1
    <3>3. Len(conf) # 0
      BY <1>2, <1>9, <2>1
    <3> QED BY <1>2, <3>1, <3>2, <3>3
  <2>4. PICK k \in 1 .. Len(conf') : at[k] = 1
    BY <1>4, <1>7, <2>3
  <2>5. at[1] \in 1 .. Len(conf) /\ (k = 1 \/ 1 < k)
    <3>1. at[1] \in DOMAIN conf
      BY <1>9, <2>3
    <3> QED BY <1>2, <3>1
  <2>6. 1 < k => at[1] < at[k]
    BY <1>7, <1>8, <2>3
  <2>7. conf'[1] = conf[1]
    BY <1>9, <2>3, <2>4, <2>5, <2>6
  <2>8. ASSUME NEW j \in DOMAIN conf' PROVE AsGood(conf[1].kver, conf[j].kver)'
    <3>1. at[j] \in DOMAIN conf /\ conf'[j] = conf[at[j]] /\ conf[at[j]].kver # template
      BY <1>9
    <3>2. AsGood(conf[1].kver, conf[at[j]].kver)
      BY <2>2, <3>1 DEF BestFirst
    <3> QED BY <2>7, <3>1, <3>2 DEF AsGood, Suits, Suse
  <2> QED BY <2>3, <2>7, <2>8
<1> QED BY <1>10, <1>11, <1>12, <1>13

\* As WithoutTemplate, when it is left where it is.
LEMMA WithTemplate ==
  ASSUME BootTyped, Known, BestFirst, UNCHANGED <<root, domU, conf>>,
         initrds \subseteq initrds', initrds' \subseteq Rds
  PROVE  BootTyped' /\ Known' /\ BestFirst' /\ (Populated => Populated')
<1>1. BootTyped' /\ Known'
  BY DEF BootTyped, Known, NoRd, template
<1>2. BestFirst' /\ (Populated => Populated')
  BY DEF BestFirst, Populated, AsGood, Suits, Suse, template
<1> QED BY <1>1, <1>2

LEMMA InstallGrubStep == BootInv /\ InstallGrub => BootInv'
<1> SUFFICES ASSUME BootInv, InstallGrub PROVE BootInv'
  OBVIOUS
<1> DEFINE places == {n \in DOMAIN conf : conf[n].kver # template}
           left == IF "grubby" \in root.has THEN Only(conf, places) ELSE conf
           again == stage = "refresh" /\ ~Suse /\ "bootman" \notin root.has
           entered == {e \in Range(left) : e.kver # template}
<1>1. /\ UNCHANGED <<root, domU, loader, losetup, unseen>> /\ loader = "grub"
      /\ (losetup = "own" <=> unseen = {})
      /\ BootTyped /\ Known /\ BestFirst
      /\ root.kernels \cap root.old # {} => Populated
  BY DEF InstallGrub, planVars, BootInv
<1>2. \/ "bootman" \in root.has /\ Bootman /\ Finished
      \/ /\ conf' = left
         /\ initrds' = initrds \cup IF again THEN {e.rd : e \in entered} \ {NoRd} ELSE {}
         /\ stage' \in {"mbr", "built", "failed"}
      \/ stage' = "failed" /\ UNCHANGED <<conf, initrds>>
  BY DEF InstallGrub, Raise, Finished
<1>3. CASE "bootman" \in root.has /\ Bootman /\ Finished
  <2>1. stage' \in {"mbr", "built"} /\ ~Suse
    BY <1>1, <1>3, KernelsAre DEF Finished
  <2>2. BootTyped' /\ Known' /\ BestFirst' /\ (root.kernels # {} => Populated')
    BY <1>1, <1>3, <2>1, BootmanIs
  <2> QED BY <1>1, <2>1, <2>2 DEF BootInv, Early
<1>4. CASE /\ conf' = left
           /\ initrds' = initrds \cup IF again THEN {e.rd : e \in entered} \ {NoRd} ELSE {}
           /\ stage' \in {"mbr", "built", "failed"}
  <2>1. left \in Seq(Entries)
    <3>1. conf \in Seq(Entries) /\ places \in SUBSET (1 .. Len(conf))
      BY <1>1 DEF BootTyped
    <3> HIDE DEF places
    <3>2. Only(conf, places) \in Seq(Entries)
      BY <3>1, OnlyIs
    <3> QED BY <3>1, <3>2
  <2>2. initrds \subseteq initrds' /\ initrds' \subseteq Rds
    <3>1. \A e \in entered : e \in Entries
      <4> HIDE DEF left
      <4> QED BY <2>1 DEF Range
    <3> HIDE DEF entered, left, again
    <3>2. {e.rd : e \in entered} \subseteq Rds
      BY <3>1 DEF Entries
    <3> QED BY <1>1, <1>4, <3>2 DEF BootTyped
  <2>3. BootTyped' /\ Known' /\ BestFirst' /\ (Populated => Populated')
    <3>1. CASE "grubby" \in root.has
      BY <1>1, <1>4, <2>2, <3>1, WithoutTemplate
    <3>2. CASE "grubby" \notin root.has
      BY <1>1, <1>4, <2>2, <3>2, WithTemplate
    <3> QED BY <3>1, <3>2
  <2> HIDE DEF left, again, entered
  <2> QED BY <1>1, <1>4, <2>3 DEF BootInv, Early
<1>5. CASE stage' = "failed" /\ UNCHANGED <<conf, initrds>>
  <2>1. BootTyped' /\ Known' /\ BestFirst'
    BY <1>1, <1>5, WithTemplate DEF BootTyped
  <2> QED BY <1>1, <1>5, <2>1 DEF BootInv, Early
<1> HIDE DEF left, again, entered
<1> QED BY <1>2, <1>3, <1>4, <1>5

LEMMA InstallExtLinuxStep == BootInv /\ InstallExtLinux => BootInv'
<1> SUFFICES ASSUME BootInv, InstallExtLinux PROVE BootInv'
  OBVIOUS
<1>1. /\ UNCHANGED <<root, domU, loader, losetup, unseen>> /\ loader = "extlinux"
      /\ (losetup = "own" <=> unseen = {})
      /\ BootTyped /\ Known
  BY DEF InstallExtLinux, planVars, BootInv
<1>2. \/ Bootman /\ stage' \in {"mbr", "built"}
      \/ stage' = "failed" /\ UNCHANGED <<conf, initrds>>
  BY DEF InstallExtLinux, Raise, Finished
<1>3. CASE Bootman /\ stage' \in {"mbr", "built"}
  <2>1. BootTyped' /\ Known' /\ (root.kernels # {} => Populated')
    BY <1>1, <1>3, BootmanIs
  <2> QED BY <1>1, <1>3, <2>1 DEF BootInv, Early
<1>4. CASE stage' = "failed" /\ UNCHANGED <<conf, initrds>>
  <2>1. BootTyped' /\ Known'
    BY <1>1, <1>4 DEF BootTyped, Known, template, NoRd
  <2> QED BY <1>1, <1>4, <2>1 DEF BootInv, Early
<1> QED BY <1>2, <1>3, <1>4

\* What happens while losetup is a stub ends with what there was, unless that fails unseen,
\* or the job fails.
LEMMA InstallGrub2Step == BootInv /\ InstallGrub2 => BootInv'
<1> SUFFICES ASSUME BootInv, InstallGrub2 PROVE BootInv'
  OBVIOUS
<1> DEFINE all == Descending(root.kernels)
           Rd(k) == IF RdName(k) \in initrds THEN RdName(k) ELSE NoRd
           c == [n \in DOMAIN all |-> [kver |-> all[n], rd |-> Rd(all[n])]]
<1>1. /\ UNCHANGED <<root, domU, loader, initrds>> /\ loader = "grub2"
      /\ BootTyped /\ Known /\ (losetup = "own" <=> unseen = {})
  BY DEF InstallGrub2, planVars, BootInv
<1>2. \/ conf' = c /\ stage' \in {"mbr", "built"} /\ (losetup' = "own" <=> unseen' = {})
      \/ stage' = "failed" /\ UNCHANGED conf
  <2>1. MountDev(conf' = c /\ Finished, UNCHANGED conf)
    BY DEF InstallGrub2
  <2> HIDE DEF c
  <2>2. \/ (losetup' = "own" <=> unseen' = {}) /\ conf' = c /\ Finished
        \/ Raise /\ UNCHANGED conf
    BY <1>1, <2>1 DEF MountDev, Unstub
  <2> QED BY <2>2 DEF Finished, Raise
<1>3. CASE conf' = c /\ stage' \in {"mbr", "built"} /\ (losetup' = "own" <=> unseen' = {})
  <2> DEFINE r == [k \in root.kernels |-> IF RdName(k) \in initrds THEN RdName(k) ELSE NoRd]
  <2>1. r \in [root.kernels -> Rds]
    BY <1>1, KernelsAre
  <2>2. \A k \in root.kernels : r[k] = Rd(k)
    OBVIOUS
  <2>3. IsFiniteSet(root.kernels) /\ root.kernels \in SUBSET Nat
    BY <1>1, KernelsAre
  <2>4. \A n \in DOMAIN all : all[n] \in root.kernels
    <3>1. all \in Seq(root.kernels)
      BY <2>3, DescendingIs
    <3> HIDE DEF all
    <3> QED BY <3>1
  <2>5. c = [n \in DOMAIN all |-> [kver |-> all[n], rd |-> r[all[n]]]]
    <3> HIDE DEF all, r, Rd
    <3>1. \A n \in DOMAIN all : Rd(all[n]) = r[all[n]]
      BY <2>2, <2>4
    <3> QED BY <3>1
  <2>6. /\ c \in Seq(Entries)
        /\ \A n \in DOMAIN c : c[n].kver \in root.kernels /\ c[n].rd = r[c[n].kver]
        /\ root.kernels # {} => c # <<>>
    <3> HIDE DEF r, c
    <3> QED BY <1>1, <2>1, <2>5, ListedIs DEF all
  <2> HIDE DEF c, r, all
  <2>7. BootTyped'
    BY <1>1, <1>3, <2>6 DEF BootTyped
  <2>8. ASSUME NEW n \in DOMAIN conf'
        PROVE  conf'[n].kver \in root.kernels /\ (conf'[n].rd # NoRd => conf'[n].rd \in initrds')
    <3>1. conf'[n].kver \in root.kernels /\ conf'[n].rd = Rd(conf'[n].kver)
      BY <1>3, <2>2, <2>6, <2>8
    <3> QED BY <1>1, <3>1
  <2>9. Known'
    BY <1>1, <2>8 DEF Known, template, NoRd
  <2>10. ASSUME root.kernels # {} PROVE Populated'
    <3>1. 1 \in DOMAIN c
      BY <2>6, <2>10
    <3>2. c[1].kver # template
      BY <1>1, <2>6, <3>1, KernelsAre DEF template
    <3> QED BY <1>3, <3>1, <3>2 DEF Populated, Range, template
  <2> QED BY <1>1, <1>3, <2>7, <2>9, <2>10 DEF BootInv, Early
<1>4. CASE stage' = "failed" /\ UNCHANGED conf
  <2>1. BootTyped' /\ Known'
    BY <1>1, <1>4 DEF BootTyped, Known, template, NoRd
  <2> QED BY <1>1, <1>4, <2>1 DEF BootInv, Early
<1> HIDE DEF c
<1> QED BY <1>2, <1>3, <1>4

LEMMA InstallMbrStep == BootInv /\ InstallMbr => BootInv'
<1> SUFFICES ASSUME BootInv, InstallMbr PROVE BootInv'
  OBVIOUS
<1>1. /\ UNCHANGED <<root, domU, loader, conf, initrds>> /\ stage = "mbr"
      /\ (losetup = "own" <=> unseen = {})
      /\ BootTyped /\ Known /\ (loader = "grub" => BestFirst)
      /\ loader # "dummy" /\ root.kernels \cap root.old # {} => Populated
  BY DEF InstallMbr, planVars, BootInv
<1>2. stage' = "failed" \/ (stage' = "built" /\ (losetup' = "own" <=> unseen' = {}))
  BY <1>1 DEF InstallMbr, MountDev, Unstub, Raise
<1>3. BootTyped' /\ Known' /\ (loader = "grub" => BestFirst') /\ (Populated => Populated')
  BY <1>1 DEF BootTyped, Known, BestFirst, Populated, AsGood, Suits, Suse, NoRd, template
<1> QED BY <1>1, <1>2, <1>3 DEF BootInv, Early

-----------------------------------------------------------------------------

\* BootInv is what a step of the job keeps, a step of write() among them.
THEOREM BootInvHolds == SpecJob => []BootInv
<1>1. InitJob => BootInv
  <2> SUFFICES ASSUME InitJob PROVE BootInv
    OBVIOUS
  <2>1. /\ stage = "plan" /\ root \in Roots /\ domU \in BOOLEAN /\ loader = "none"
        /\ conf = <<>> /\ initrds = {} /\ losetup = "own" /\ unseen = {}
    BY DEF InitJob, InitRoot
  <2>2. ~Populated /\ BootTyped /\ Known
    BY <2>1 DEF Populated, Range, BootTyped, Known
  <2> QED BY <2>1, <2>2 DEF BootInv, Early
<1>2. BootInv /\ [BuildRoot \/ PackIt \/ (EndedJob /\ UNCHANGED jobVars)]_jobVars => BootInv'
  <2> SUFFICES ASSUME BootInv,
                      [BuildRoot \/ PackIt \/ (EndedJob /\ UNCHANGED jobVars)]_jobVars
               PROVE  BootInv'
    OBVIOUS
  <2>1. CASE NextRoot
    BY <2>1, QuietSteps, InstallTrovesStep, PreTagStep, RunTagStep, PopulateGrubStep,
       InstallGrubStep, InstallExtLinuxStep, InstallGrub2Step, InstallMbrStep DEF NextRoot
  <2>2. CASE UNCHANGED rootVars
    <3>1. UNCHANGED <<stage, root, domU, loader, conf, initrds, losetup, unseen>>
      BY <2>2 DEF rootVars
    <3>2. BootTyped' /\ Known' /\ (BestFirst => BestFirst') /\ (Populated => Populated')
      BY <3>1
         DEF BootInv, BootTyped, Known, BestFirst, Populated, AsGood, Suits, Suse, NoRd, template
    <3> QED BY <3>1, <3>2 DEF BootInv
  <2>3. NextRoot \/ UNCHANGED rootVars
    BY DEF BuildRoot, PackIt, jobVars
  <2> QED BY <2>1, <2>2, <2>3
<1> QED BY <1>1, <1>2, PTL DEF SpecJob

LEMMA MaxIs ==
  ASSUME NEW S \in SUBSET Nat, NEW b \in S, \A x \in S : b >= x
  PROVE  Max(S) = b
<1>1. \A m \in S : (\A x \in S : m >= x) => m = b
  OBVIOUS
<1> QED BY <1>1 DEF Max

LEMMA BestIsDesired == BootInv => DefaultIsDesired
<1> SUFFICES ASSUME BootInv, stage = "built", loader = "grub", Populated
             PROVE  DefaultIsDesired
  BY DEF DefaultIsDesired
<1> DEFINE b == conf[1].kver
           entered == {e.kver : e \in Range(conf)} \ {template}
           wanted == {k \in entered : (k \in root.xen) = domU}
           X == IF Suse /\ wanted # {} THEN wanted ELSE entered
<1>1. conf \in Seq(Entries) /\ b # template
      /\ \A n \in DOMAIN conf : conf[n].kver # template => AsGood(b, conf[n].kver)
  BY DEF BootInv, BootTyped, BestFirst
<1>2. 1 \in DOMAIN conf
  BY <1>1 DEF Populated, Range
<1>3. \A k : k \in entered <=> k # template /\ \E n \in DOMAIN conf : conf[n].kver = k
  BY DEF Range
<1>4. b \in entered
  BY <1>1, <1>2, <1>3
<1>5. entered \in SUBSET Nat
  <2>1. ASSUME NEW n \in DOMAIN conf PROVE conf[n].kver \in Nat
    <3>1. conf[n] \in Entries
      BY <1>1
    <3> QED BY <3>1 DEF Entries
  <2> HIDE DEF entered
  <2> QED BY <1>3, <2>1
<1>6. \A k \in entered : AsGood(b, k)
  BY <1>1, <1>3
<1>7. \A k : k \in wanted <=> k \in entered /\ Suits(k)
  BY DEF Suits
<1>8. b \in X /\ (\A x \in X : b >= x) /\ X \in SUBSET Nat
  <2> HIDE DEF b, entered, wanted
  <2>1. CASE ~Suse
    BY <1>4, <1>5, <1>6, <2>1 DEF AsGood
  <2>2. CASE Suse /\ wanted # {}
    <3>1. PICK k \in entered : Suits(k)
      BY <1>7, <2>2
    <3>2. Suits(b)
      BY <1>6, <2>2, <3>1 DEF AsGood
    <3> QED BY <1>4, <1>5, <1>6, <1>7, <2>2, <3>2 DEF AsGood
  <2>3. CASE Suse /\ wanted = {}
    <3>1. \A k \in entered : ~Suits(k)
      BY <1>7, <2>3
    <3> QED BY <1>4, <1>5, <1>6, <2>3, <3>1 DEF AsGood
  <2> QED BY <2>1, <2>2, <2>3
<1>9. Max(X) = b
  <2> HIDE DEF b, X
  <2> QED BY <1>8, MaxIs
<1> QED BY <1>9 DEF DefaultIsDesired

\* BootloaderInstaller.install: whichever loader is installed, over whatever the packages and
\* their scripts left, the entries of a finished image name kernels and initrds that are in
\* /boot, there is one if there are kernels the loader knows, the default is the kernel it
\* should be, and losetup is the image's own.
THEOREM BootsAsPlannedHolds == SpecJob => []BootsAsPlanned
<1>1. BootInv => BootsAsPlanned
  <2> SUFFICES ASSUME BootInv PROVE EntriesExist /\ LosetupRestored
    BY BestIsDesired DEF BootsAsPlanned
  <2>1. LosetupRestored
    BY DEF LosetupRestored, BootInv
  <2>2. EntriesExist
    BY DEF EntriesExist, BootInv, Known, Range
  <2> QED BY <2>1, <2>2
<1> QED BY <1>1, BootInvHolds, PTL

-----------------------------------------------------------------------------
(* Mount points.                                                           *)

Tokens == STRING \cup {"/", "_", "None", "swap", "root", "boot", "var"}
FsTypes == STRING \cup {"ext3", "ext4"}
Names == {n \in Seq(Tokens) : n # <<>> /\ n[1] # "/" /\ "/" \notin Range(n)}
Paths == {m \in Seq(Tokens) : m # <<>> /\ m[1] = "/"}

\* A file system is mounted on a path, or goes by its name.
Wanted ==
  {r \in [name : Names, mount : Paths \cup Names, fstype : FsTypes,
           minSize : Nat, freeSpace : Nat] :
     r.mount \in Paths \/ (r.mount = r.name /\ r.fstype \in NoFs)}

Apart ==
  \A j, k \in DOMAIN mountDict :
    j # k => mountDict[j].name # mountDict[k].name /\ mountDict[j].mount # mountDict[k].mount

\* What fstab may name: mount points of the plan, by labels that differ.
Labelled ==
  /\ DOMAIN filesystems \subseteq {mountDict[k].mount : k \in DOMAIN mountDict}
  /\ \A m \in DOMAIN filesystems :
       /\ filesystems[m].label \in Names
       /\ filesystems[m].fsType \notin NoFs => m \in Paths
  /\ \A l, m \in DOMAIN filesystems :
       l # m => filesystems[l].label # filesystems[m].label

MountInv ==
  /\ scheme \in Schemes /\ mountDict \in Seq(Wanted) /\ Apart
  /\ stage \in {"size", "format"} => \E k \in DOMAIN mountDict : mountDict[k].mount = Root
  /\ stage \in {"plan", "size", "format"} =>
       fstab = <<>> /\ filesystems = [m \in {Root} |-> [label |-> <<"root">>, fsType |-> "ext4"]]
  /\ stage \in {"mounted", "rpm"} => fstab = <<>> /\ Labelled
  /\ FstabMounts

LEMMA DepthIs ==
  ASSUME NEW m \in Seq(Tokens)
  PROVE  Depth(m) \in Int /\ (m # Root => Depth(m) \in Nat)
<1> DEFINE S == {k \in DOMAIN m : m[k] = "/"}
<1>1. IsFiniteSet(1 .. Len(m)) /\ DOMAIN m = 1 .. Len(m)
  BY FS_Interval
<1>2. IsFiniteSet(S)
  <2>1. S \in SUBSET (1 .. Len(m))
    BY <1>1
  <2> QED BY <1>1, <2>1, FS_Subset
<1>3. Cardinality(S) \in Nat
  BY <1>2, FS_CardinalityType
<1> QED BY <1>3 DEF Depth

LEMMA WithSeparator ==
  ASSUME NEW m \in Seq(Tokens), NEW a, a = m \o <<"/">>
  PROVE  /\ a \in Seq(Tokens) /\ Len(a) = Len(m) + 1 /\ a[Len(m) + 1] = "/"
         /\ \A k \in 1 .. Len(m) : a[k] = m[k]
<1>1. <<"/">> \in Seq(Tokens) /\ Len(<<"/">>) = 1 /\ <<"/">>[1] = "/"
  <2>1. "/" \in Tokens
    BY DEF Tokens
  <2> QED BY <2>1
<1> QED BY <1>1

\* What is mounted below another lies deeper.
LEMMA BelowIsDeeper ==
  ASSUME NEW m \in Paths, NEW q \in Paths \cup Names, m # q, Below(m, q)
  PROVE  Depth(q) < Depth(m)
<1> DEFINE S(p) == {k \in DOMAIN p : p[k] = "/"}
<1>1. m \in Seq(Tokens) /\ q \in Seq(Tokens) /\ m # <<>> /\ q # <<>> /\ m[1] = "/"
  BY DEF Paths, Names
<1>2. Len(m) \in Nat \ {0} /\ Len(q) \in Nat \ {0}
      /\ DOMAIN m = 1 .. Len(m) /\ DOMAIN q = 1 .. Len(q)
  BY <1>1
<1>3. Depth(m) \in Int /\ Depth(q) \in Int /\ (m # Root => Depth(m) \in Nat)
  BY <1>1, DepthIs
<1>4. CASE q = Root
  <2>1. Depth(q) = -1
    BY <1>4 DEF Depth
  <2> QED BY <1>3, <1>4, <2>1
<1>5. CASE q # Root
  <2> DEFINE a == q \o <<"/">>
             b == m \o <<"/">>
  <2>1. IsPrefix(a, b)
    BY <1>5 DEF Below
  <2>2. /\ a \in Seq(Tokens) /\ Len(a) = Len(q) + 1 /\ a[Len(q) + 1] = "/"
        /\ \A k \in 1 .. Len(q) : a[k] = q[k]
    BY <1>1, <1>2, WithSeparator
  <2>3. b \in Seq(Tokens) /\ Len(b) = Len(m) + 1 /\ \A k \in 1 .. Len(m) : b[k] = m[k]
    BY <1>1, <1>2, WithSeparator
  <2> HIDE DEF a, b
  <2>4. Len(a) <= Len(b) /\ \A k \in 1 .. Len(a) : a[k] = b[k]
    <3>1. Len(a) <= Len(b) /\ SubSeq(a, 1, Len(a)) = SubSeq(b, 1, Len(a))
      BY <2>1 DEF IsPrefix
    <3>2. \A k \in 1 .. Len(a) : SubSeq(a, 1, Len(a))[k] = a[k] /\ SubSeq(b, 1, Len(a))[k] = b[k]
      BY <2>2, <2>3, <3>1
    <3> QED BY <3>1, <3>2
  <2>5. Len(q) <= Len(m) /\ \A k \in 1 .. Len(q) : q[k] = m[k]
    BY <1>2, <2>2, <2>3, <2>4
  <2>6. Len(q) # Len(m)
    <3>1. Len(q) = Len(m) => q = m
      BY <1>1, <2>5, SeqEqual
    <3> QED BY <3>1
  <2>7. Len(q) + 1 \in 1 .. Len(m) /\ m[Len(q) + 1] = "/"
    <3>1. Len(q) + 1 \in 1 .. Len(m) /\ Len(q) + 1 \in 1 .. Len(a)
      <4>1. Len(q) <= Len(m) /\ Len(q) # Len(m) /\ Len(a) = Len(q) + 1
        BY <2>2, <2>5, <2>6
      <4>2. Len(m) \in Nat /\ Len(q) \in Nat
        BY <1>2
      <4> QED BY <4>1, <4>2
    <3> QED BY <2>2, <2>3, <2>4, <3>1
  <2>8. m # Root
    BY <1>2, <2>7 DEF Root
  <2>9. IsFiniteSet(S(m)) /\ IsFiniteSet(S(q))
    <3>1. IsFiniteSet(1 .. Len(m)) /\ IsFiniteSet(1 .. Len(q))
      BY <1>2, FS_Interval
    <3>2. S(m) \in SUBSET (1 .. Len(m)) /\ S(q) \in SUBSET (1 .. Len(q))
      BY <1>2
    <3> HIDE DEF S
    <3> QED BY <3>1, <3>2, FS_Subset
  <2>10. S(q) \cup {Len(q) + 1} \in SUBSET S(m) /\ Len(q) + 1 \notin S(q)
    <3>1. \A k \in S(q) : k \in 1 .. Len(m) /\ m[k] = "/"
      BY <1>2, <2>5
    <3> QED BY <1>2, <2>7, <3>1
  <2>11. Cardinality(S(q) \cup {Len(q) + 1}) = Cardinality(S(q)) + 1
    <3> HIDE DEF S
    <3> QED BY <2>9, <2>10, FS_AddElement
  <2>12. Cardinality(S(q) \cup {Len(q) + 1}) <= Cardinality(S(m))
    <3> HIDE DEF S
    <3> QED BY <2>9, <2>10, FS_Subset
  <2>13. Depth(m) = Cardinality(S(m)) /\ Depth(q) = Cardinality(S(q))
    BY <1>5, <2>8 DEF Depth
  <2> HIDE DEF S
  <2> QED BY <1>3, <2>11, <2>12, <2>13
<1> QED BY <1>4, <1>5

\* s lists the mount points in S, each once.
Enumerates(s, S) ==
  /\ s \in Seq(S) /\ Len(s) \in Nat
  /\ \A j, k \in 1 .. Len(s) : s[j] = s[k] => j = k
  /\ \A m \in S : \E k \in 1 .. Len(s) : s[k] = m

Rising(s) == \A j, k \in 1 .. Len(s) : j < k => Depth(s[j]) <= Depth(s[k])

\* Selecting from a list leaves a list, in the same order.
LEMMA OnlyLists ==
  ASSUME NEW S, NEW s, Enumerates(s, S), NEW T \in SUBSET S,
         NEW t, t = Only(s, {k \in DOMAIN s : s[k] \in T})
  PROVE  Enumerates(t, T) /\ (Rising(s) => Rising(t))
<1> DEFINE places == {k \in DOMAIN s : s[k] \in T}
           at == Ascending(places)
<1>1. s \in Seq(S) /\ DOMAIN s = 1 .. Len(s)
  BY DEF Enumerates
<1>2. places \in SUBSET (1 .. Len(s))
  BY <1>1
<1>3. \A k : k \in places <=> k \in 1 .. Len(s) /\ s[k] \in T
  BY <1>1
<1> HIDE DEF places
<1>4. t \in Seq(S)
  <2>1. Only(s, places) \in Seq(S)
    <3>1. s \in Seq(S)
      BY <1>1
    <3> QED BY <1>2, <3>1, OnlyIs
  <2> QED BY <2>1 DEF places
<1>5. /\ \A k \in 1 .. Len(t) : at[k] \in places /\ t[k] = s[at[k]]
      /\ \A j, k \in 1 .. Len(t) : j < k => at[j] < at[k]
      /\ \A i \in places : \E k \in 1 .. Len(t) : at[k] = i
  <2> DEFINE u == Only(s, places)
  <2>1. /\ \A k \in 1 .. Len(u) : at[k] \in places /\ u[k] = s[at[k]]
        /\ \A j, k \in 1 .. Len(u) : j < k => at[j] < at[k]
        /\ \A i \in places : \E k \in 1 .. Len(u) : at[k] = i
    <3>1. s \in Seq(S)
      BY <1>1
    <3>2. Selects(s, places)
      BY <1>2, <3>1, OnlyIs
    <3> QED BY <3>2 DEF Selects
  <2>2. t = u
    BY DEF places
  <2> HIDE DEF u, at
  <2> QED BY <2>1, <2>2
<1> HIDE DEF at
<1>6. Len(t) \in Nat /\ t \in Seq(T)
  <2>1. Len(t) \in Nat /\ t \in [1 .. Len(t) -> S]
    BY <1>4, LenProperties
  <2>2. \A k \in 1 .. Len(t) : t[k] \in T
    BY <1>3, <1>5
  <2>3. t \in [1 .. Len(t) -> T]
    BY <2>1, <2>2
  <2> QED BY <2>1, <2>3
<1>7. ASSUME NEW j \in 1 .. Len(t), NEW k \in 1 .. Len(t), t[j] = t[k] PROVE j = k
  <2>1. at[j] = at[k] /\ at[j] \in 1 .. Len(s)
    <3>1. \A a, b \in 1 .. Len(s) : s[a] = s[b] => a = b
      BY DEF Enumerates
    <3>2. /\ at[j] \in 1 .. Len(s) /\ at[k] \in 1 .. Len(s)
          /\ t[j] = s[at[j]] /\ t[k] = s[at[k]]
      BY <1>3, <1>5
    <3>3. s[at[j]] = s[at[k]]
      BY <1>7, <3>2
    <3> QED BY <3>1, <3>2, <3>3, Zenon
  <2>2. (j < k => at[j] < at[k]) /\ (k < j => at[k] < at[j])
    BY <1>5
  <2>3. Len(s) \in Nat
    BY <1>1
  <2> QED BY <1>6, <2>1, <2>2, <2>3
<1>8. ASSUME NEW m \in T PROVE \E k \in 1 .. Len(t) : t[k] = m
  <2>1. PICK i \in 1 .. Len(s) : s[i] = m
    BY DEF Enumerates
  <2>2. i \in places
    BY <1>3, <2>1
  <2>3. PICK k \in 1 .. Len(t) : at[k] = i
    BY <1>5, <2>2
  <2> QED BY <1>5, <2>1, <2>3
<1>9. ASSUME Rising(s), NEW j \in 1 .. Len(t), NEW k \in 1 .. Len(t), j < k
      PROVE  Depth(t[j]) <= Depth(t[k])
  <2>1. at[j] < at[k]
    BY <1>5, <1>9
  <2>2. at[j] \in 1 .. Len(s) /\ at[k] \in 1 .. Len(s) /\ t[j] = s[at[j]] /\ t[k] = s[at[k]]
    BY <1>3, <1>5
  <2> QED BY <1>9, <2>1, <2>2 DEF Rising
<1> QED BY <1>6, <1>7, <1>8, <1>9 DEF Enumerates, Rising

LEMMA MountsAre ==
  ASSUME mountDict \in Seq(Wanted), Apart
  PROVE  /\ mountDict \in Seq(Wanted) /\ Len(mountDict) \in Nat
         /\ Enumerates(Mounts, {mountDict[k].mount : k \in DOMAIN mountDict})
         /\ {mountDict[k].mount : k \in DOMAIN mountDict} \subseteq Paths \cup Names
<1> DEFINE n == Len(mountDict)
           S == {mountDict[k].mount : k \in DOMAIN mountDict}
<1>1. n \in Nat /\ DOMAIN mountDict = 1 .. n
  OBVIOUS
<1>2. ASSUME NEW k \in 1 .. n
      PROVE  mountDict[k] \in Wanted /\ mountDict[k].mount \in S /\ Mounts[k] = mountDict[k].mount
             /\ mountDict[k].mount \in Paths \cup Names
  <2>1. mountDict[k] \in Wanted
    BY <1>1
  <2> QED BY <1>1, <2>1 DEF Wanted, Mounts
<1>3. Mounts = [k \in 1 .. n |-> Mounts[k]] /\ DOMAIN Mounts = 1 .. n
  BY <1>1 DEF Mounts
<1> HIDE DEF n
<1>4. \A m \in S : m \in Paths \cup Names /\ \E k \in 1 .. n : Mounts[k] = m
  BY <1>1, <1>2
<1> HIDE DEF S
<1>5. Mounts \in [1 .. n -> S]
  BY <1>2, <1>3
<1>6. Mounts \in Seq(S) /\ Len(Mounts) = n
  BY <1>1, <1>3, <1>5
<1>7. \A j, k \in 1 .. n : Mounts[j] = Mounts[k] => j = k
  BY <1>1, <1>2 DEF Apart
<1>8. Enumerates(Mounts, S)
  BY <1>1, <1>4, <1>6, <1>7 DEF Enumerates
<1> QED BY <1>1, <1>4, <1>8 DEF S, n

\* Among mount points of which no two are alike, sortMountPoints is a list from the deepest on.
LEMMA SortedIs ==
  ASSUME NEW S \in SUBSET (Paths \cup Names), NEW s, Enumerates(s, S)
  PROVE  /\ Enumerates(sortMountPoints(s), S)
         /\ \A j, k \in 1 .. Len(sortMountPoints(s)) :
              j < k => Depth(sortMountPoints(s)[j]) >= Depth(sortMountPoints(s)[k])
<1> DEFINE n == Len(s)
           R == {p \in (1 .. n) \X (1 .. n) : Sooner(s, p[1], p[2])}
           o == Ranked(1 .. n, R)
           t == sortMountPoints(s)
<1>1. n \in Nat /\ DOMAIN s = 1 .. n /\ s \in Seq(S)
  BY DEF Enumerates
<1>2. ASSUME NEW k \in 1 .. n PROVE Depth(s[k]) \in Int /\ s[k] \in S
  <2>1. s[k] \in S
    BY <1>1
  <2>2. s[k] \in Seq(Tokens)
    BY <2>1 DEF Paths, Names
  <2> QED BY <2>1, <2>2, DepthIs
<1>3. Orders(R, 1 .. n)
  <2> HIDE DEF n
  <2> QED BY <1>1, <1>2 DEF Orders, Sooner
<1>4. \A j, k : <<j, k>> \in R => Depth(s[j]) >= Depth(s[k])
  <2>1. \A j, k : <<j, k>> \in R => j \in 1 .. n /\ k \in 1 .. n /\ Sooner(s, j, k)
    OBVIOUS
  <2> HIDE DEF R, n
  <2> QED BY <1>2, <2>1 DEF Sooner
<1>5. IsFiniteSet(1 .. n) /\ Cardinality(1 .. n) = n
  <2> HIDE DEF n
  <2>1. IsFiniteSet(1 .. n) /\ Cardinality(1 .. n) = IF 1 > n THEN 0 ELSE n - 1 + 1
    BY <1>1, FS_Interval
  <2> QED BY <1>1, <2>1
<1>6. t = [k \in 1 .. n |-> s[o[k]]]
  BY <1>1 DEF sortMountPoints
<1> HIDE DEF R, t
<1>7. /\ \A k \in 1 .. n : o[k] \in 1 .. n
      /\ \A x \in 1 .. n : \E k \in 1 .. n : o[k] = x
      /\ \A j, k \in 1 .. n : j < k => <<o[j], o[k]>> \in R
      /\ \A j, k \in 1 .. n : o[j] = o[k] => j = k
  <2> HIDE DEF n
  <2> QED BY <1>3, <1>5, RankedIs
<1> HIDE DEF n, o
<1>8. t \in Seq(S) /\ Len(t) = n
  <2>1. t \in [1 .. n -> S]
    BY <1>2, <1>6, <1>7
  <2> QED BY <1>1, <2>1
<1>9. ASSUME NEW j \in 1 .. n, NEW k \in 1 .. n, t[j] = t[k] PROVE j = k
  <2>1. s[o[j]] = s[o[k]] /\ o[j] \in 1 .. n /\ o[k] \in 1 .. n
    BY <1>6, <1>7, <1>9
  <2>2. o[j] = o[k]
    BY <2>1 DEF Enumerates, n
  <2> QED BY <1>7, <2>2
<1>10. ASSUME NEW m \in S PROVE \E k \in 1 .. n : t[k] = m
  <2>1. PICK x \in 1 .. n : s[x] = m
    BY DEF Enumerates, n
  <2>2. PICK k \in 1 .. n : o[k] = x
    BY <1>7
  <2> QED BY <1>6, <2>1, <2>2
<1>11. Enumerates(t, S)
  BY <1>1, <1>8, <1>9, <1>10 DEF Enumerates
<1>12. \A j, k \in 1 .. n : j < k => Depth(t[j]) >= Depth(t[k])
  BY <1>4, <1>6, <1>7
<1> QED BY <1>8, <1>11, <1>12 DEF t

LEMMA FstabOrderIs ==
  ASSUME NEW S \in SUBSET (Paths \cup Names), NEW s, Enumerates(s, S)
  PROVE  Enumerates(FstabOrder(s), S) /\ Rising(FstabOrder(s))
<1> DEFINE t == sortMountPoints(s)
           n == Len(t)
           r == FstabOrder(s)
<1>1. /\ Enumerates(t, S)
      /\ \A j, k \in 1 .. n : j < k => Depth(t[j]) >= Depth(t[k])
  BY SortedIs
<1>2. r = [k \in 1 .. n |-> t[(n - k) + 1]]
  BY DEF FstabOrder, Reverse
<1> HIDE DEF t, n, r
<1>3. n \in Nat /\ t \in Seq(S) /\ DOMAIN t = 1 .. n
  BY <1>1 DEF Enumerates, n
<1>4. ASSUME NEW k \in 1 .. n
      PROVE  (n - k) + 1 \in 1 .. n /\ r[k] = t[(n - k) + 1] /\ t[k] \in S
             /\ (n - ((n - k) + 1)) + 1 = k
  BY <1>2, <1>3
<1>5. r \in Seq(S) /\ Len(r) = n
  <2>1. r \in [1 .. n -> S]
    BY <1>2, <1>4
  <2> QED BY <1>3, <2>1
<1>6. ASSUME NEW j \in 1 .. n, NEW k \in 1 .. n, r[j] = r[k] PROVE j = k
  <2>1. (n - j) + 1 = (n - k) + 1
    BY <1>1, <1>4, <1>6 DEF Enumerates, n
  <2> QED BY <1>3, <2>1
<1>7. ASSUME NEW m \in S PROVE \E k \in 1 .. n : r[k] = m
  <2>1. PICK x \in 1 .. n : t[x] = m
    BY <1>1 DEF Enumerates, n
  <2>2. (n - x) + 1 \in 1 .. n /\ r[(n - x) + 1] = t[x]
    BY <1>4
  <2> QED BY <2>1, <2>2
<1>8. ASSUME NEW j \in 1 .. n, NEW k \in 1 .. n, j < k PROVE Depth(r[j]) <= Depth(r[k])
  <2>1. (n - k) + 1 < (n - j) + 1 /\ (n - k) + 1 \in 1 .. n /\ (n - j) + 1 \in 1 .. n
    BY <1>3, <1>4, <1>8
  <2>2. Depth(t[(n - k) + 1]) >= Depth(t[(n - j) + 1])
    BY <1>1, <2>1
  <2>3. Depth(r[j]) \in Int /\ Depth(r[k]) \in Int
    <3>1. r[j] \in Seq(Tokens) /\ r[k] \in Seq(Tokens)
      BY <1>5 DEF Paths, Names
    <3> QED BY <3>1, DepthIs
  <2>4. r[j] = t[(n - j) + 1] /\ r[k] = t[(n - k) + 1]
    BY <1>4
  <2> QED BY <2>2, <2>3, <2>4
<1> QED BY <1>3, <1>5, <1>6, <1>7, <1>8 DEF Enumerates, Rising, r

\* What preInstallScripts writes, when the file systems are labelled as planned.
LEMMA FstabIs ==
  ASSUME mountDict \in Seq(Wanted), Apart, Labelled, fstab' = Fstab, UNCHANGED filesystems
  PROVE  FstabMounts'
<1> DEFINE D == DOMAIN filesystems
           S == {mountDict[k].mount : k \in DOMAIN mountDict}
           Mounted(m) == filesystems[m].fsType \notin {"none", "unallocated"}
           M == {m \in D : Mounted(m)}
           all == FstabOrder(Keys)
           order == Only(all, {k \in DOMAIN all : Mounted(all[k])})
           n == Len(order)
           Entry(m) == [what |-> filesystems[m].label, fsType |-> filesystems[m].fsType,
                        mount |-> IF filesystems[m].fsType = "swap" THEN <<"swap">> ELSE m]
           swapLine == [what |-> SwapPath, fsType |-> "swap", mount |-> <<"swap">>]
           lines == [k \in DOMAIN order |-> Entry(order[k])]
           more == IF swapSize # 0 THEN <<swapLine>> ELSE <<>>
<1>1. Enumerates(Mounts, S) /\ S \subseteq Paths \cup Names
  BY MountsAre
<1>2. D \subseteq S /\ D \subseteq Paths \cup Names
  BY <1>1 DEF Labelled
<1>3. Enumerates(Keys, D)
  <2>1. DOMAIN Mounts = DOMAIN mountDict
    BY DEF Mounts
  <2>2. Keys = Only(Mounts, {k \in DOMAIN Mounts : Mounts[k] \in D})
    BY DEF Keys
  <2> HIDE DEF S, D
  <2> QED BY <1>1, <1>2, <2>2, OnlyLists
<1>4. Enumerates(all, D) /\ Rising(all)
  <2> HIDE DEF S, D
  <2> QED BY <1>2, <1>3, FstabOrderIs
<1>5. Enumerates(order, M) /\ Rising(order)
  <2>1. \A k \in DOMAIN all : all[k] \in M <=> Mounted(all[k])
    <3>1. \A k \in DOMAIN all : all[k] \in D
      <4> HIDE DEF all, D
      <4> QED BY <1>4 DEF Enumerates
    <3> HIDE DEF all
    <3> QED BY <3>1
  <2>2. order = Only(all, {k \in DOMAIN all : all[k] \in M})
    <3> HIDE DEF all, M, Mounted
    <3>1. {k \in DOMAIN all : all[k] \in M} = {k \in DOMAIN all : Mounted(all[k])}
      BY <2>1
    <3> QED BY <3>1
  <2>3. M \in SUBSET D
    OBVIOUS
  <2> HIDE DEF all, M, D, order
  <2> QED BY <1>4, <2>2, <2>3, OnlyLists
<1>6. /\ \A m \in M : /\ m \in D /\ Entry(m).what = filesystems[m].label
                      /\ filesystems[m].label \in Names
                      /\ Entry(m).fsType = filesystems[m].fsType
                      /\ Entry(m).fsType # "swap" => Entry(m).mount = m
                      /\ Entry(m).fsType = "swap" => Entry(m).mount = <<"swap">>
      /\ \A m \in D : filesystems[m].fsType \notin NoFs =>
           m \in M /\ m \in Paths /\ Entry(m).fsType # "swap"
      /\ \A l, m \in M : l # m => filesystems[l].label # filesystems[m].label
  BY DEF Labelled, NoFs
<1>7. fstab' = lines \o more
  BY DEF Fstab
<1> HIDE DEF order
<1>8. n \in Nat /\ DOMAIN order = 1 .. n /\ \A k \in 1 .. n : order[k] \in M
  BY <1>5 DEF Enumerates
<1>9. lines = [k \in 1 .. n |-> Entry(order[k])]
  BY <1>8
<1> HIDE DEF M, D, S, Entry, all, lines, n
<1>10. /\ DOMAIN fstab' \in {1 .. n, 1 .. n + 1}
       /\ \A k \in 1 .. n : fstab'[k] = Entry(order[k])
       /\ \A k \in DOMAIN fstab' : ~(k \in 1 .. n) => fstab'[k] = swapLine
  <2> DEFINE T == {Entry(m) : m \in M} \cup {swapLine}
  <2>1. lines \in Seq(T) /\ Len(lines) = n
    <3>1. lines \in [1 .. n -> T]
      BY <1>8, <1>9
    <3> HIDE DEF T
    <3> QED BY <1>8, <3>1
  <2>2. more \in Seq(T) /\ Len(more) \in {0, 1} /\ (Len(more) = 1 => more[1] = swapLine)
    <3>1. swapLine \in T
      OBVIOUS
    <3>2. CASE swapSize # 0
      <4> HIDE DEF T, swapLine
      <4>1. more = <<swapLine>>
        BY <3>2
      <4> QED BY <3>1, <4>1
    <3>3. CASE swapSize = 0
      <4> HIDE DEF T, swapLine
      <4>1. more = <<>>
        BY <3>3
      <4> QED BY <4>1
    <3> QED BY <3>2, <3>3
  <2> HIDE DEF T, swapLine, more
  <2>3. /\ DOMAIN fstab' = 1 .. n + Len(more)
        /\ \A k \in 1 .. n : fstab'[k] = lines[k]
        /\ \A k \in n + 1 .. n + Len(more) : fstab'[k] = more[k - n]
    <3> HIDE DEF lines
    <3>1. /\ lines \o more \in Seq(T) /\ Len(lines \o more) = n + Len(more)
          /\ \A k \in 1 .. n + Len(more) :
               (lines \o more)[k] = IF k <= n THEN lines[k] ELSE more[k - n]
      BY <2>1, <2>2, ConcatProperties
    <3>2. Len(more) \in Nat
      BY <2>2
    <3> QED BY <1>7, <1>8, <3>1, <3>2
  <2>4. \A k \in 1 .. n : fstab'[k] = Entry(order[k])
    BY <1>9, <2>3
  <2>5. ASSUME NEW k \in DOMAIN fstab', ~(k \in 1 .. n) PROVE fstab'[k] = swapLine
    <3>1. k = n + 1 /\ Len(more) = 1
      BY <1>8, <2>2, <2>3, <2>5
    <3> QED BY <1>8, <2>2, <2>3, <3>1
  <2>6. DOMAIN fstab' \in {1 .. n, 1 .. n + 1}
    BY <1>8, <2>2, <2>3
  <2> QED BY <2>4, <2>5, <2>6
<1>11. swapLine.what \notin Names /\ swapLine.fsType = "swap"
  BY DEF Names, SwapPath
<1>12. \A k \in DOMAIN fstab' : k \in 1 .. n \/ (k = n + 1 /\ fstab'[k] = swapLine)
  BY <1>8, <1>10
<1> HIDE DEF swapLine, more
<1>13. IsInjective([k \in DOMAIN fstab |-> fstab[k].what])'
  <2> SUFFICES ASSUME NEW j \in DOMAIN fstab', NEW k \in DOMAIN fstab',
                      fstab'[j].what = fstab'[k].what
               PROVE  j = k
    BY DEF IsInjective
  <2>1. ASSUME NEW i \in 1 .. n
        PROVE  fstab'[i].what \in Names /\ fstab'[i].what = filesystems[order[i]].label
    BY <1>6, <1>8, <1>10
  <2>2. CASE j \in 1 .. n /\ k \in 1 .. n
    <3>1. order[j] = order[k]
      BY <1>6, <1>8, <2>1, <2>2
    <3> QED BY <1>5, <2>2, <3>1 DEF Enumerates, n
  <2> QED BY <1>11, <1>12, <2>1, <2>2
<1>14. ASSUME NEW m \in D, filesystems[m].fsType \notin NoFs
       PROVE  \E k \in DOMAIN fstab' :
                /\ fstab'[k].mount = m /\ fstab'[k].what = filesystems[m].label
                /\ \A j \in 1 .. k - 1 : fstab'[j].mount # m
                /\ \A j \in DOMAIN fstab' :
                     j > k /\ fstab'[j].fsType # "swap" => ~Below(m, fstab'[j].mount)
  <2>1. m \in M /\ m \in Paths /\ Entry(m).fsType # "swap"
    BY <1>6, <1>14
  <2>2. PICK k \in 1 .. n : order[k] = m
    BY <1>5, <2>1 DEF Enumerates, n
  <2>3. k \in DOMAIN fstab' /\ fstab'[k].mount = m /\ fstab'[k].what = filesystems[m].label
    BY <1>6, <1>8, <1>10, <2>1, <2>2
  <2>4. ASSUME NEW j \in 1 .. k - 1 PROVE fstab'[j].mount # m
    <3>1. j \in 1 .. n /\ j # k
      BY <1>8, <2>4
    <3>2. order[j] # m /\ order[j] \in M
      BY <1>5, <1>8, <2>2, <3>1 DEF Enumerates, n
    <3>3. m # <<"swap">>
      BY <2>1 DEF Paths
    <3>4. fstab'[j].mount \in {order[j], <<"swap">>}
      <4>1. Entry(order[j]).mount \in {order[j], <<"swap">>}
        BY <1>6, <3>2
      <4> QED BY <1>10, <3>1, <4>1
    <3> QED BY <3>2, <3>3, <3>4
  <2>5. ASSUME NEW j \in DOMAIN fstab', j > k, fstab'[j].fsType # "swap"
        PROVE  ~Below(m, fstab'[j].mount)
    <3>1. j \in 1 .. n
      BY <1>11, <1>12, <2>5
    <3>2. order[j] \in M /\ order[j] # m /\ fstab'[j].mount = order[j]
      <4>1. order[j] \in M /\ order[j] # m
        BY <1>5, <1>8, <2>2, <2>5, <3>1 DEF Enumerates, n
      <4> QED BY <1>6, <1>10, <2>5, <3>1, <4>1
    <3>3. Depth(m) <= Depth(order[j])
      BY <1>5, <1>8, <2>2, <2>5, <3>1 DEF Rising, n
    <3>4. order[j] \in Paths \cup Names
      BY <1>2, <1>6, <3>2
    <3>5. Depth(m) \in Int /\ Depth(order[j]) \in Int
      BY <2>1, <3>4, DepthIs DEF Paths, Names
    <3> QED BY <2>1, <3>2, <3>3, <3>4, <3>5, BelowIsDeeper
  <2> QED BY <2>3, <2>4, <2>5
<1> QED BY <1>13, <1>14 DEF FstabMounts, D, NoFs

LEMMA SchemeIs ==
  ASSUME scheme \in Schemes, NEW k \in 1 .. Len(scheme), NEW p, p = scheme[k]
  PROVE  /\ p \in [name : Seq(Tokens), mount : Seq(Tokens), fstype : FsTypes,
                   minSize : Nat, freeSpace : Nat]
         /\ p.name # <<>> => p.name \in Names
         /\ p.mount # <<>> => p.mount \in Paths
         /\ Len(scheme) \in Nat /\ Len(scheme) <= Len(Numerals)
<1>1. /\ scheme \in Seq(FsRequest) /\ Len(scheme) <= Len(Numerals)
      /\ "/" \notin Range(p.name)
      /\ p.mount # <<>> => p.mount[1] = "/"
  BY RootAssumption DEF RootAssumption
<1>2. scheme[k] \in FsRequest /\ Len(scheme) \in Nat
  BY <1>1
<1>3. STRING \subseteq Tokens /\ STRING \subseteq FsTypes
  BY DEF Tokens, FsTypes
<1>4. p.name \in Seq(STRING) /\ p.mount \in Seq(STRING)
  BY <1>2 DEF FsRequest
<1>5. p.name \in Seq(Tokens) /\ p.mount \in Seq(Tokens)
  BY <1>3, <1>4, SeqMonotonic
<1>6. p \in [name : Seq(Tokens), mount : Seq(Tokens), fstype : FsTypes,
             minSize : Nat, freeSpace : Nat]
  BY <1>2, <1>3, <1>5 DEF FsRequest
<1>7. p.name # <<>> => p.name[1] \in Range(p.name)
  BY <1>5 DEF Range
<1> QED BY <1>1, <1>2, <1>5, <1>6, <1>7 DEF Names, Paths

LEMMA BaseNameIs ==
  ASSUME NEW p, p.name # <<>> => p.name \in Names, p.mount # <<>> => p.mount \in Paths
  PROVE  BaseName(p) \in Names
<1>1. \A t \in Tokens : t # "/" => <<t>> \in Names
  <2> SUFFICES ASSUME NEW t \in Tokens, t # "/" PROVE <<t>> \in Names
    OBVIOUS
  <2>1. <<t>> \in Seq(Tokens) /\ <<t>> # <<>> /\ <<t>>[1] = t /\ DOMAIN <<t>> = {1}
    OBVIOUS
  <2>2. "/" \notin Range(<<t>>)
    BY <2>1 DEF Range
  <2> QED BY <2>1, <2>2 DEF Names
<1>2. CASE p.name # <<>>
  BY <1>2 DEF BaseName
<1>3. CASE p.name = <<>> /\ p.mount = Root
  BY <1>1, <1>3 DEF BaseName, Tokens
<1>4. CASE p.name = <<>> /\ p.mount # Root /\ p.fstype = "swap"
  BY <1>1, <1>4 DEF BaseName, Tokens
<1>5. CASE p.name = <<>> /\ p.mount = <<>> /\ p.fstype # "swap"
  <2>1. p.mount # Root
    BY <1>5 DEF Root
  <2> QED BY <1>1, <1>5, <2>1 DEF BaseName, Tokens
<1>6. CASE p.name = <<>> /\ p.mount # Root /\ p.mount # <<>> /\ p.fstype # "swap"
  <2> DEFINE path == Tail(p.mount)
             q == [k \in DOMAIN path |-> IF path[k] = "/" THEN "_" ELSE path[k]]
  <2>1. BaseName(p) = q
    BY <1>6 DEF BaseName
  <2>2. p.mount \in Seq(Tokens) /\ p.mount # <<>> /\ p.mount[1] = "/"
    BY <1>6 DEF Paths
  <2>3. Len(p.mount) \in Nat \ {0}
    BY <2>2
  <2>4. Len(p.mount) # 1
    <3>1. Root \in Seq(Tokens) /\ Len(Root) = 1 /\ Root[1] = "/"
      <4>1. "/" \in Tokens
        BY DEF Tokens
      <4> QED BY <4>1 DEF Root
    <3>2. Len(p.mount) = 1 => p.mount = Root
      BY <2>2, <3>1, SeqEqual
    <3> QED BY <1>6, <3>2
  <2>5. path \in Seq(Tokens) /\ Len(path) = Len(p.mount) - 1
    BY <2>2
  <2> HIDE DEF path
  <2>6. Len(path) \in Nat \ {0} /\ DOMAIN path = 1 .. Len(path)
    BY <2>3, <2>4, <2>5
  <2>7. \A k \in 1 .. Len(path) : q[k] \in Tokens /\ q[k] # "/"
    <3>1. \A k \in 1 .. Len(path) : path[k] \in Tokens
      BY <2>5
    <3> QED BY <2>6, <3>1 DEF Tokens
  <2>8. q = [k \in 1 .. Len(path) |-> q[k]]
    BY <2>6
  <2> HIDE DEF q
  <2>9. q \in Seq(Tokens) /\ Len(q) = Len(path)
    <3>1. q \in [1 .. Len(path) -> Tokens]
      BY <2>7, <2>8
    <3> QED BY <2>6, <3>1
  <2>10. q # <<>> /\ q[1] # "/"
    BY <2>6, <2>7, <2>9
  <2>11. "/" \notin Range(q)
    BY <2>7, <2>9 DEF Range
  <2> QED BY <2>1, <2>9, <2>10, <2>11 DEF Names
<1> QED BY <1>2, <1>3, <1>4, <1>5, <1>6

\* The loop finds a number before the numerals are out.
LEMMA UnusedIs ==
  ASSUME NEW base \in Names, NEW names, IsFiniteSet(names), Cardinality(names) < Len(Numerals)
  PROVE  Unused(base, names) \in Names /\ Unused(base, names) \notin names
<1> DEFINE m == Len(Numerals)
           Numbered(k) == base \o <<Numerals[k]>>
           free == {k \in DOMAIN Numerals : Numbered(k) \notin names}
<1>1. /\ Numerals \in Seq(STRING \ {"/"}) /\ m \in Nat /\ DOMAIN Numerals = 1 .. m
      /\ \A j, k \in 1 .. m : Numerals[j] = Numerals[k] => j = k
  BY RootAssumption DEF RootAssumption, IsInjective
<1>2. base \in Seq(Tokens) /\ Len(base) \in Nat \ {0} /\ base[1] # "/"
  BY DEF Names
<1> HIDE DEF m
<1>3. ASSUME NEW k \in 1 .. m
      PROVE  Numbered(k) \in Names /\ Numbered(k)[Len(base) + 1] = Numerals[k]
  <2>1. Numerals[k] \in Tokens
    <3>1. Numerals[k] \in STRING
      BY <1>1 DEF m
    <3> QED BY <3>1 DEF Tokens
  <2> DEFINE t == Numerals[k]
  <2> HIDE DEF t
  <2>2. <<t>> \in Seq(Tokens) /\ Len(<<t>>) = 1 /\ <<t>>[1] = t
    BY <2>1 DEF t
  <2>3. base \o <<t>> \in Seq(Tokens) /\ Len(base \o <<t>>) = Len(base) + 1
        /\ (base \o <<t>>)[1] = base[1] /\ (base \o <<t>>)[Len(base) + 1] = t
    BY <1>2, <2>2
  <2>4. base \o <<t>> # <<>>
    BY <1>2, <2>3
  <2>5. "/" \notin Range(base \o <<t>>)
    <3>1. \A j \in DOMAIN base : base[j] # "/"
      BY DEF Names, Range
    <3>2. t # "/"
      BY <1>1 DEF t, m
    <3> SUFFICES ASSUME NEW j \in DOMAIN (base \o <<t>>) PROVE (base \o <<t>>)[j] # "/"
      BY DEF Range
    <3>3. CASE j \in 1 .. Len(base)
      BY <1>2, <2>2, <3>1, <3>3
    <3>4. CASE j = Len(base) + 1
      BY <2>3, <3>2, <3>4
    <3> QED BY <1>2, <2>3, <3>3, <3>4
  <2> QED BY <1>2, <2>3, <2>4, <2>5 DEF Names, t
<1>4. \A j, k \in 1 .. m : Numbered(j) = Numbered(k) => j = k
  <2> HIDE DEF Numbered
  <2> QED BY <1>1, <1>3
<1>5. free # {}
  <2> SUFFICES ASSUME free = {} PROVE FALSE
    OBVIOUS
  <2> DEFINE g == [k \in 1 .. m |-> Numbered(k)]
  <2>1. \A k \in 1 .. m : Numbered(k) \in names
    BY <1>1
  <2>2. g \in [1 .. m -> names]
    BY <2>1
  <2>3. \A k \in 1 .. m : g[k] = Numbered(k)
    OBVIOUS
  <2>4. IsFiniteSet(1 .. m) /\ Cardinality(1 .. m) = m
    <3>1. IsFiniteSet(1 .. m) /\ Cardinality(1 .. m) = IF 1 > m THEN 0 ELSE m - 1 + 1
      BY <1>1, FS_Interval
    <3> QED BY <1>1, <3>1
  <2>5. Cardinality(names) < Cardinality(1 .. m)
    BY <2>4 DEF m
  <2> HIDE DEF g, Numbered
  <2>6. g \in Injection(1 .. m, names)
    BY <1>4, <2>2, <2>3 DEF Injection, IsInjective
  <2>7. Cardinality(1 .. m) <= Cardinality(names)
    BY <2>6, FS_Injection
  <2>8. Cardinality(names) \in Nat
    BY FS_CardinalityType
  <2> QED BY <1>1, <2>4, <2>5, <2>7, <2>8
<1>6. free \in SUBSET Nat /\ free \in SUBSET (1 .. m) /\ \A k \in free : Numbered(k) \notin names
  BY <1>1
<1>7. Min(free) \in free
  <2> HIDE DEF free
  <2>1. \E i \in free : \A j \in free : i <= j
    BY <1>5, <1>6, LeastOf
  <2> QED BY <2>1 DEF Min
<1>8. Unused(base, names) = IF base \notin names THEN base ELSE Numbered(Min(free))
  BY DEF Unused
<1> HIDE DEF free, Numbered
<1> QED BY <1>3, <1>6, <1>7, <1>8

LEMMA GetFilesystemsStep == MountInv /\ getFilesystems => MountInv'
<1> SUFFICES ASSUME MountInv, getFilesystems PROVE MountInv'
  OBVIOUS
<1> DEFINE n == Len(mountDict)
           p == scheme[n + 1]
           names == {r.name : r \in Requests}
           name == Unused(BaseName(p), names)
           valid == /\ p.mount \notin {r.mount : r \in Requests}
                    /\ p.mount # <<>> \/ p.fstype \in NoFs
           q == [p EXCEPT !.name = name, !.mount = IF p.mount = <<>> THEN name ELSE p.mount]
<1>1. /\ UNCHANGED <<scheme, fstab, filesystems>> /\ stage = "plan" /\ n < Len(scheme)
      /\ stage' \in {"plan", "failed"}
      /\ mountDict' = mountDict \/ (valid /\ mountDict' = Append(mountDict, q))
  BY DEF getFilesystems, planVars, Raise
<1>2. scheme \in Schemes /\ mountDict \in Seq(Wanted) /\ Apart /\ n \in Nat
      /\ DOMAIN mountDict = 1 .. n /\ fstab = <<>> /\ Len(scheme) \in Nat
  <2>1. Len(scheme) \in Nat
    BY RootAssumption DEF RootAssumption, MountInv
  <2> QED BY <1>1, <2>1 DEF MountInv
<1>3. FstabMounts'
  BY <1>1, <1>2 DEF FstabMounts
<1>4. CASE mountDict' = mountDict
  BY <1>1, <1>2, <1>3, <1>4 DEF MountInv, Apart
<1>5. CASE valid /\ mountDict' = Append(mountDict, q)
  <2>1. n + 1 \in 1 .. Len(scheme)
    BY <1>1, <1>2
  <2>2. /\ p \in [name : Seq(Tokens), mount : Seq(Tokens), fstype : FsTypes,
                  minSize : Nat, freeSpace : Nat]
        /\ p.name # <<>> => p.name \in Names
        /\ p.mount # <<>> => p.mount \in Paths
        /\ n < Len(Numerals)
    <3> HIDE DEF n
    <3>1. /\ p \in [name : Seq(Tokens), mount : Seq(Tokens), fstype : FsTypes,
                    minSize : Nat, freeSpace : Nat]
          /\ p.name # <<>> => p.name \in Names
          /\ p.mount # <<>> => p.mount \in Paths
          /\ Len(scheme) <= Len(Numerals)
      BY <1>2, <2>1, SchemeIs
    <3>2. Len(Numerals) \in Nat
      BY RootAssumption DEF RootAssumption
    <3> QED BY <1>1, <1>2, <3>1, <3>2
  <2>3. \A k \in 1 .. n : mountDict[k] \in Wanted
    BY <1>2
  <2>4. names = {mountDict[k].name : k \in 1 .. n}
        /\ {r.mount : r \in Requests} = {mountDict[k].mount : k \in 1 .. n}
    BY <1>2 DEF Requests, Range
  <2>5. IsFiniteSet(names) /\ Cardinality(names) < Len(Numerals)
    <3> DEFINE f == [k \in 1 .. n |-> mountDict[k].name]
    <3>1. f \in Surjection(1 .. n, names)
      BY <2>4 DEF Surjection
    <3>2. IsFiniteSet(1 .. n) /\ Cardinality(1 .. n) = n
      <4> HIDE DEF n
      <4>1. IsFiniteSet(1 .. n) /\ Cardinality(1 .. n) = IF 1 > n THEN 0 ELSE n - 1 + 1
        BY <1>2, FS_Interval
      <4> QED BY <1>2, <4>1
    <3> HIDE DEF f, names, n
    <3>3. IsFiniteSet(names) /\ Cardinality(names) <= n
      BY <3>1, <3>2, FS_Surjection
    <3>4. Cardinality(names) \in Nat /\ Len(Numerals) \in Nat
      BY <3>3, FS_CardinalityType, RootAssumption DEF RootAssumption
    <3> QED BY <1>2, <2>2, <3>3, <3>4
  <2>6. name \in Names /\ name \notin names
    <3>1. BaseName(p) \in Names
      <4> HIDE DEF p
      <4> QED BY <2>2, BaseNameIs
    <3> HIDE DEF p, names
    <3> QED BY <2>5, <3>1, UnusedIs
  <2> HIDE DEF name
  <2>7. q \in Wanted /\ q.name = name /\ q.mount = IF p.mount = <<>> THEN name ELSE p.mount
    <3> DEFINE w == IF p.mount = <<>> THEN name ELSE p.mount
    <3> HIDE DEF p
    <3>1. q = [name |-> name, mount |-> IF p.mount = <<>> THEN name ELSE p.mount,
               fstype |-> p.fstype, minSize |-> p.minSize, freeSpace |-> p.freeSpace]
      <4>1. q = [p EXCEPT !.name = name, !.mount = w]
        BY DEF p
      <4> HIDE DEF q, w
      <4>2. q = [name |-> name, mount |-> w,
                 fstype |-> p.fstype, minSize |-> p.minSize, freeSpace |-> p.freeSpace]
        BY <2>2, <4>1
      <4> QED BY <4>2 DEF w
    <3>2. p.mount = <<>> => p.fstype \in NoFs
      BY <1>5
    <3> HIDE DEF q
    <3> QED BY <2>2, <2>6, <3>1, <3>2 DEF Wanted
  <2> HIDE DEF p, q
  <2>8. ASSUME NEW k \in 1 .. n PROVE mountDict[k].name # q.name /\ mountDict[k].mount # q.mount
    <3>1. mountDict[k].name # q.name
      BY <2>4, <2>6, <2>7
    <3>2. p.mount # mountDict[k].mount
      BY <1>5, <2>4
    <3>3. mountDict[k].mount \in Paths \/ mountDict[k].mount = mountDict[k].name
      BY <2>3 DEF Wanted
    <3>4. name \notin Paths
      BY <2>6 DEF Names, Paths
    <3> QED BY <2>7, <3>1, <3>2, <3>3, <3>4
  <2> HIDE DEF n
  <2>9. /\ mountDict' \in Seq(Wanted) /\ DOMAIN mountDict' = 1 .. n + 1
        /\ mountDict'[n + 1] = q /\ \A k \in 1 .. n : mountDict'[k] = mountDict[k]
    <3> USE DEF n
    <3> QED BY <1>2, <1>5, <2>7
  <2>10. \A k \in 1 .. n + 1 : k \in 1 .. n \/ k = n + 1
    BY <1>2
  <2>11. Apart'
    <3> SUFFICES ASSUME NEW j \in 1 .. n + 1, NEW k \in 1 .. n + 1, j # k
                 PROVE  /\ mountDict'[j].name # mountDict'[k].name
                        /\ mountDict'[j].mount # mountDict'[k].mount
      BY <2>9 DEF Apart
    <3> QED BY <1>2, <2>8, <2>9, <2>10 DEF Apart
  <2> QED BY <1>1, <1>2, <1>3, <2>9, <2>11 DEF MountInv
<1> QED BY <1>1, <1>4, <1>5

LEMMA DefaultIs ==
  ASSUME NEW d, d = Default
  PROVE  /\ d \in Seq(Wanted)
         /\ \A j, k \in DOMAIN d : j # k => d[j].name # d[k].name /\ d[j].mount # d[k].mount
<1> DEFINE a == [name |-> <<"boot">>, mount |-> Boot, fstype |-> "ext4", minSize |-> 1,
                 freeSpace |-> 200]
           b == [name |-> <<"root">>, mount |-> Root, fstype |-> "ext4", minSize |-> 1,
                 freeSpace |-> FreeSpace]
           c == [name |-> <<"root">>, mount |-> Root, fstype |-> "ext3", minSize |-> 0,
                 freeSpace |-> FreeSpace]
<1>1. d \in {<<a, b>>, <<c>>}
  BY DEF Default, AMIFilesystems, F
<1>2. <<"boot">> \in Names /\ <<"root">> \in Names
  <2>1. "boot" \in Tokens /\ "root" \in Tokens
    BY DEF Tokens
  <2>2. <<"boot">> \in Seq(Tokens) /\ <<"root">> \in Seq(Tokens)
    BY <2>1
  <2>3. "/" \notin Range(<<"boot">>) /\ "/" \notin Range(<<"root">>)
    BY DEF Range
  <2> QED BY <2>2, <2>3 DEF Names
<1>3. Boot \in Paths /\ Root \in Paths /\ Boot # Root
  <2>1. "/" \in Tokens /\ "boot" \in Tokens
    BY DEF Tokens
  <2>2. Boot \in Seq(Tokens) /\ Root \in Seq(Tokens) /\ Len(Boot) = 2 /\ Len(Root) = 1
        /\ Boot[1] = "/" /\ Root[1] = "/"
    <3>1. Boot \in Seq(Tokens) /\ Len(Boot) = 2 /\ Boot[1] = "/"
      BY <2>1 DEF Boot
    <3>2. Root \in Seq(Tokens) /\ Len(Root) = 1 /\ Root[1] = "/"
      BY <2>1 DEF Root
    <3> QED BY <3>1, <3>2
  <2>3. Boot # <<>> /\ Root # <<>> /\ Boot # Root
    <3>1. Boot # <<>> /\ Root # <<>>
      BY DEF Boot, Root
    <3>2. Len(Boot) # Len(Root)
      BY <2>2
    <3> QED BY <3>1, <3>2
  <2> QED BY <2>2, <2>3 DEF Paths
<1>4. <<"boot">> # <<"root">>
  OBVIOUS
<1>5. FreeSpace \in Nat
  BY RootAssumption DEF RootAssumption
<1>6. "ext3" \in FsTypes /\ "ext4" \in FsTypes
  BY DEF FsTypes
<1>7. a \in Wanted /\ b \in Wanted /\ c \in Wanted
  BY <1>2, <1>3, <1>5, <1>6 DEF Wanted
<1>8. a.name # b.name /\ a.mount # b.mount
  BY <1>3, <1>4
<1> HIDE DEF a, b, c
<1>9. CASE d = <<a, b>>
  <2>1. d \in Seq(Wanted) /\ DOMAIN d = {1, 2} /\ d[1] = a /\ d[2] = b
    BY <1>7, <1>9
  <2> QED BY <1>8, <2>1
<1>10. CASE d = <<c>>
  <2>1. d \in Seq(Wanted) /\ DOMAIN d = {1}
    BY <1>7, <1>10
  <2> QED BY <2>1
<1> QED BY <1>1, <1>9, <1>10

\* A file system on its own, as it is before anything is formatted.
LEMMA LabelledRoot ==
  ASSUME filesystems' = [m \in {Root} |-> [label |-> <<"root">>, fsType |-> "ext4"]],
         NEW k \in DOMAIN mountDict', mountDict'[k].mount = Root
  PROVE  Labelled'
<1>1. "root" \in Tokens /\ "/" \in Tokens
  BY DEF Tokens
<1>2. <<"root">> \in Seq(Tokens) /\ Root \in Seq(Tokens) /\ Root[1] = "/" /\ Root # <<>>
  BY <1>1 DEF Root
<1>3. <<"root">> \in Names /\ Root \in Paths
  <2>1. "/" \notin Range(<<"root">>)
    BY DEF Range
  <2> QED BY <1>2, <2>1 DEF Names, Paths
<1>4. DOMAIN filesystems' = {Root} /\ filesystems'[Root].label = <<"root">>
  OBVIOUS
<1> QED BY <1>3, <1>4 DEF Labelled, NoFs

LEMMA PlanStep == MountInv /\ Plan => MountInv'
<1> SUFFICES ASSUME MountInv, Plan PROVE MountInv'
  OBVIOUS
<1>1. /\ UNCHANGED <<scheme, fstab, filesystems>> /\ stage = "plan" /\ fstab = <<>>
      /\ filesystems = [m \in {Root} |-> [label |-> <<"root">>, fsType |-> "ext4"]]
      /\ mountDict' \in {Default, mountDict} /\ scheme \in Schemes
      /\ stage' \in {"failed", "mounted", "size"}
      /\ stage' # "failed" => Root \in {r.mount : r \in Range(mountDict')}
  BY DEF Plan, planVars, MountInv
<1>2. mountDict' \in Seq(Wanted) /\ Apart'
  BY <1>1, DefaultIs DEF MountInv, Apart
<1>3. stage' # "failed" => \E k \in DOMAIN mountDict' : mountDict'[k].mount = Root
  BY <1>1 DEF Range
<1>4. ASSUME stage' # "failed" PROVE Labelled'
  <2>1. PICK k \in DOMAIN mountDict' : mountDict'[k].mount = Root
    BY <1>3, <1>4
  <2>2. filesystems' = [m \in {Root} |-> [label |-> <<"root">>, fsType |-> "ext4"]]
    BY <1>1
  <2> QED BY <2>1, <2>2, LabelledRoot
<1>5. FstabMounts'
  BY <1>1 DEF FstabMounts
<1> QED BY <1>1, <1>2, <1>3, <1>4, <1>5 DEF MountInv

LEMMA FormatStep == MountInv /\ Format => MountInv'
<1> SUFFICES ASSUME MountInv, Format PROVE MountInv'
  OBVIOUS
<1> DEFINE formatted == {r \in Requests : disk = "fs" \/ r.fstype # "unallocated" \/ r.mount = Root}
           ms == {r.mount : r \in formatted}
           Of(m) == CHOOSE q \in formatted : q.mount = m
           new == [m \in ms \cup DOMAIN filesystems |->
                     LET r == CHOOSE q \in formatted : q.mount = m
                     IN  [label |-> Label(r.name), fsType |-> r.fstype]]
<1>1. /\ UNCHANGED <<scheme, mountDict, fstab>> /\ stage = "format" /\ fstab = <<>>
      /\ scheme \in Schemes /\ mountDict \in Seq(Wanted) /\ Apart
      /\ \/ stage' = "failed" /\ filesystems' = filesystems
         \/ stage' = "mounted" /\ filesystems' = new
  BY DEF Format, planVars, MountInv, Raise
<1>2. FstabMounts'
  BY <1>1 DEF FstabMounts
<1>3. ASSUME filesystems' = new PROVE Labelled'
  <2>1. DOMAIN mountDict = 1 .. Len(mountDict)
        /\ \A k \in DOMAIN mountDict : mountDict[k] \in Wanted
    BY <1>1
  <2>2. formatted \subseteq {mountDict[k] : k \in DOMAIN mountDict}
    BY DEF Requests, Range
  <2>3. DOMAIN filesystems = {Root} /\ Root \in ms
    <3>1. DOMAIN filesystems = {Root}
      BY <1>1 DEF MountInv
    <3>2. PICK k \in DOMAIN mountDict : mountDict[k].mount = Root
      BY <1>1 DEF MountInv
    <3>3. mountDict[k] \in formatted
      BY <3>2 DEF Requests, Range
    <3> QED BY <3>1, <3>2, <3>3
  <2>4. DOMAIN filesystems' = ms
    BY <1>3, <2>3
  <2>5. \A m \in ms : Of(m) \in formatted /\ Of(m).mount = m
    OBVIOUS
  <2>6. \A m \in ms : /\ filesystems'[m].label = Label(Of(m).name)
                      /\ filesystems'[m].fsType = Of(m).fstype
    BY <1>3
  <2> HIDE DEF formatted, ms, Of, new
  <2>7. ASSUME NEW m \in ms
        PROVE  \E k \in DOMAIN mountDict : /\ mountDict[k] \in Wanted
                                           /\ mountDict[k].mount = m
                                           /\ mountDict[k].name = filesystems'[m].label
                                           /\ mountDict[k].fstype = filesystems'[m].fsType
    <3>1. PICK k \in DOMAIN mountDict : mountDict[k] = Of(m)
      BY <2>2, <2>5
    <3>2. Of(m).name \in Names
      BY <2>1, <3>1 DEF Wanted
    <3>3. Label(Of(m).name) = Of(m).name
      BY <3>2 DEF Label, Names
    <3> QED BY <2>1, <2>5, <2>6, <3>1, <3>3
  <2>8. DOMAIN filesystems' \subseteq {mountDict'[k].mount : k \in DOMAIN mountDict'}
    BY <1>1, <2>4, <2>7
  <2>9. ASSUME NEW m \in ms
        PROVE  /\ filesystems'[m].label \in Names
               /\ filesystems'[m].fsType \notin NoFs => m \in Paths
    BY <2>7, <2>9 DEF Wanted
  <2>10. ASSUME NEW l \in ms, NEW m \in ms, l # m
         PROVE  filesystems'[l].label # filesystems'[m].label
    <3>1. PICK j \in DOMAIN mountDict : mountDict[j].mount = l
                                        /\ mountDict[j].name = filesystems'[l].label
      BY <2>7
    <3>2. PICK k \in DOMAIN mountDict : mountDict[k].mount = m
                                        /\ mountDict[k].name = filesystems'[m].label
      BY <2>7
    <3> QED BY <1>1, <2>10, <3>1, <3>2 DEF Apart
  <2> QED BY <2>4, <2>8, <2>9, <2>10 DEF Labelled, NoFs
<1>4. Apart'
  BY <1>1 DEF Apart
<1>5. CASE stage' = "failed" /\ filesystems' = filesystems
  BY <1>1, <1>2, <1>4, <1>5 DEF MountInv
<1>6. CASE stage' = "mounted" /\ filesystems' = new
  <2>1. Labelled'
    BY <1>3, <1>6
  <2> QED BY <1>1, <1>2, <1>4, <1>6, <2>1 DEF MountInv
<1> HIDE DEF new
<1> QED BY <1>1, <1>5, <1>6

LEMMA PreInstallStep == MountInv /\ preInstallScripts => MountInv'
<1> SUFFICES ASSUME MountInv, preInstallScripts PROVE MountInv'
  OBVIOUS
<1>1. /\ UNCHANGED <<scheme, mountDict, filesystems>> /\ stage = "rpm" /\ fstab = <<>> /\ Labelled
      /\ scheme \in Schemes /\ mountDict \in Seq(Wanted) /\ Apart
      /\ stage' \in {"fstab", "failed"} /\ fstab' \in {fstab, Fstab}
  BY DEF preInstallScripts, planVars, sizeVars, MountInv, Raise
<1>2. Apart'
  BY <1>1 DEF Apart
<1>3. FstabMounts'
  <2>1. CASE fstab' = fstab
    BY <1>1, <2>1 DEF FstabMounts
  <2>2. CASE fstab' = Fstab
    BY <1>1, <2>2, FstabIs
  <2> QED BY <1>1, <2>1, <2>2
<1> QED BY <1>1, <1>2, <1>3 DEF MountInv

\* A step that has nothing to do with the file systems.
LEMMA OtherSteps ==
  ASSUME MountInv, UNCHANGED <<scheme, mountDict, filesystems, fstab>>,
         stage' \in {"plan", "size"} => stage' = stage,
         stage' = "format" => stage \in {"size", "format"},
         stage' \in {"mounted", "rpm"} => stage \in {"mounted", "rpm"}
  PROVE  MountInv'
<1>1. Apart'
  BY DEF Apart, MountInv
<1>2. FstabMounts'
  BY DEF MountInv, FstabMounts, NoFs
<1>3. Labelled => Labelled'
  BY DEF Labelled, NoFs
<1> QED BY <1>1, <1>2, <1>3 DEF MountInv, Root

-----------------------------------------------------------------------------

\* MountInv is what every step keeps, whatever the scheme of a job asks for.
THEOREM MountInvHolds == SpecJob => []MountInv
<1>1. InitJob => MountInv
  <2> SUFFICES ASSUME InitJob PROVE MountInv
    OBVIOUS
  <2>1. /\ stage = "plan" /\ scheme \in Schemes /\ mountDict = <<>> /\ fstab = <<>>
        /\ filesystems = [m \in {Root} |-> [label |-> <<"root">>, fsType |-> "ext4"]]
    BY DEF InitJob, InitRoot
  <2>2. Apart /\ FstabMounts
    BY <2>1 DEF Apart, FstabMounts
  <2> QED BY <2>1, <2>2 DEF MountInv
<1>2. MountInv /\ [BuildRoot \/ PackIt \/ (EndedJob /\ UNCHANGED jobVars)]_jobVars => MountInv'
  <2> SUFFICES ASSUME MountInv,
                      [BuildRoot \/ PackIt \/ (EndedJob /\ UNCHANGED jobVars)]_jobVars
               PROVE  MountInv'
    OBVIOUS
  <2>1. CASE getFilesystems \/ Plan \/ Format \/ preInstallScripts
    BY <2>1, GetFilesystemsStep, PlanStep, FormatStep, PreInstallStep
  <2>2. CASE getImageSize
    <3>1. /\ UNCHANGED <<scheme, mountDict, filesystems, fstab>>
          /\ stage = "size" /\ stage' = "format"
      BY <2>2 DEF getImageSize, planVars
    <3> QED BY <3>1, OtherSteps
  <2>3. CASE \/ loadRPM \/ installBootstrapTroves \/ InstallTroves \/ preTagScripts
             \/ runTagScripts \/ postTagScripts
    <3>1. /\ UNCHANGED <<scheme, mountDict, filesystems, fstab>>
          /\ \/ stage = "mounted" /\ stage' \in {"rpm", "failed"}
             \/ stage' \in {"bootstrap", "installed", "tag", "passwords", "loader", "failed"}
      BY <2>3 DEF loadRPM, installBootstrapTroves, InstallTroves, preTagScripts, runTagScripts,
                  postTagScripts, Passes, Raise, planVars, sizeVars
    <3> QED BY <3>1, OtherSteps
  <2>4. CASE \/ PopulateGrub \/ InstallGrub \/ InstallExtLinux \/ InstallGrub2 \/ InstallDummy
             \/ InstallMbr
    <3>1. UNCHANGED <<scheme, mountDict, filesystems, fstab>>
      BY <2>4 DEF PopulateGrub, InstallGrub, InstallExtLinux, InstallGrub2, InstallDummy,
                  InstallMbr, planVars, sizeVars
    <3>2. stage' \in {"grubby", "refresh", "mbr", "built", "failed"}
      BY <2>4 DEF PopulateGrub, InstallGrub, InstallExtLinux, InstallGrub2, InstallDummy,
                  InstallMbr, MountDev, Finished, Raise
    <3> QED BY <3>1, <3>2, OtherSteps
  <2>5. CASE UNCHANGED rootVars
    <3>1. UNCHANGED <<stage, scheme, mountDict, filesystems, fstab>>
      BY <2>5 DEF rootVars
    <3> QED BY <3>1, OtherSteps
  <2>6. NextRoot \/ UNCHANGED rootVars
    BY DEF BuildRoot, PackIt, jobVars
  <2> QED BY <2>1, <2>2, <2>3, <2>4, <2>5, <2>6 DEF NextRoot
<1> QED BY <1>1, <1>2, PTL DEF SpecJob

\* preInstallScripts: whatever file systems a scheme asks for, by whatever names and in
\* whatever order, fstab mounts each of them by a label of its own, after its parents.
THEOREM FstabMountsHolds == SpecJob => []FstabMounts
<1>1. MountInv => FstabMounts
  BY DEF MountInv
<1> QED BY <1>1, MountInvHolds, PTL

-----------------------------------------------------------------------------
(* The sizes of the file systems.                                          *)

\* How MapThenSumSet goes through a set of files.
Sum(S) == CHOOSE g : g = [s \in SUBSET S |->
  IF s = {} THEN 0 ELSE (CHOOSE f \in s : TRUE).size + g[s \ {CHOOSE f \in s : TRUE}]]

LEMMA SumIs ==
  ASSUME NEW S, IsFiniteSet(S), \A f \in S : f.size \in Nat
  PROVE  Sum(S)[S] \in Nat
<1> DEFINE one(s) == CHOOSE f \in s : TRUE
           Turn(g, s) == IF s = {} THEN 0 ELSE one(s).size + g[s \ {one(s)}]
           All(g) == [s \in SUBSET S |-> Turn(g, s)]
           upTo(n) == {s \in SUBSET S : Cardinality(s) <= n}
           Works(g, n) == \A s \in upTo(n) : g[s] = Turn(g, s)
           M == {n \in Nat : \E g \in [upTo(n) -> Nat] : Works(g, n)}
<1>1. ASSUME NEW s \in SUBSET S
      PROVE  /\ IsFiniteSet(s) /\ Cardinality(s) \in Nat
             /\ s # {} => /\ one(s) \in s /\ one(s).size \in Nat /\ Cardinality(s) > 0
                          /\ s \ {one(s)} \in SUBSET S
                          /\ Cardinality(s \ {one(s)}) = Cardinality(s) - 1
  <2>1. IsFiniteSet(s) /\ Cardinality(s) \in Nat
    BY FS_Subset, FS_CardinalityType
  <2>2. ASSUME s # {}
        PROVE  /\ one(s) \in s /\ one(s).size \in Nat /\ Cardinality(s) > 0
               /\ s \ {one(s)} \in SUBSET S
               /\ Cardinality(s \ {one(s)}) = Cardinality(s) - 1
    <3>1. one(s) \in s
      BY <2>2
    <3>2. Cardinality(s \ {one(s)}) = Cardinality(s) - 1
      BY <2>1, <3>1, FS_RemoveElement
    <3>3. Cardinality(s) # 0
      BY <2>1, <2>2, FS_EmptySet
    <3> HIDE DEF one
    <3> QED BY <2>1, <3>1, <3>2, <3>3
  <2> QED BY <2>1, <2>2
<1> HIDE DEF one
<1>a. \A s \in SUBSET S : s # {} => Cardinality(s) \in Nat /\ Cardinality(s) > 0
  BY <1>1
<1>b. ASSUME NEW s \in upTo(0) PROVE s = {}
  <2>1. s \in SUBSET S /\ Cardinality(s) <= 0
    OBVIOUS
  <2> HIDE DEF upTo
  <2> QED BY <1>a, <2>1
<1>2. 0 \in M
  <2> DEFINE g == [s \in upTo(0) |-> 0]
  <2>2. g \in [upTo(0) -> Nat] /\ Works(g, 0)
    BY <1>b
  <2> HIDE DEF g
  <2> QED BY <2>2
<1>3. ASSUME NEW n \in Nat, n \in M PROVE n + 1 \in M
  <2>1. PICK g \in [upTo(n) -> Nat] : Works(g, n)
    BY <1>3
  <2> DEFINE h == [s \in upTo(n + 1) |-> IF s \in upTo(n) THEN g[s] ELSE Turn(g, s)]
  <2>2. ASSUME NEW s \in upTo(n + 1), s # {} PROVE s \ {one(s)} \in upTo(n) /\ one(s).size \in Nat
    <3>1. s \in SUBSET S /\ Cardinality(s) <= n + 1
      OBVIOUS
    <3>2. /\ s \ {one(s)} \in SUBSET S /\ one(s).size \in Nat /\ Cardinality(s) \in Nat
          /\ Cardinality(s \ {one(s)}) = Cardinality(s) - 1
      BY <1>1, <2>2, <3>1
    <3>3. Cardinality(s) - 1 <= n
      BY <3>1, <3>2
    <3> QED BY <3>2, <3>3
  <2>3. \A s \in upTo(n) : s \in upTo(n + 1)
    <3>1. \A s \in SUBSET S : Cardinality(s) \in Nat
      BY <1>1
    <3> QED BY <3>1
  <2>4. ASSUME NEW s \in upTo(n + 1) PROVE h[s] \in Nat
    <3> HIDE DEF upTo
    <3>1. CASE s = {}
      BY <2>1, <3>1
    <3>2. CASE s # {}
      BY <2>1, <2>2, <3>2
    <3> QED BY <3>1, <3>2
  <2>5. ASSUME NEW s \in upTo(n + 1) PROVE h[s] = Turn(h, s)
    <3> HIDE DEF upTo
    <3>1. CASE s = {}
      BY <2>1, <3>1
    <3>2. CASE s # {}
      <4>1. h[s \ {one(s)}] = g[s \ {one(s)}]
        BY <2>2, <2>3, <3>2
      <4>2. h[s] = Turn(g, s)
        BY <2>1
      <4> QED BY <4>1, <4>2, <3>2
    <3> QED BY <3>1, <3>2
  <2>6. h \in [upTo(n + 1) -> Nat]
    <3> HIDE DEF Turn, upTo
    <3> QED BY <2>4
  <2> HIDE DEF h
  <2>7. Works(h, n + 1)
    BY <2>5
  <2> HIDE DEF Works, upTo
  <2> QED BY <2>6, <2>7
<1> DEFINE N == Cardinality(S)
<1>4. N \in M /\ N \in Nat
  <2>1. N \in Nat
    BY FS_CardinalityType
  <2> HIDE DEF M, N
  <2> QED BY <1>2, <1>3, <2>1, SetInduction
<1>5. upTo(N) = SUBSET S
  BY FS_Subset
<1>6. PICK g \in [upTo(N) -> Nat] : Works(g, N)
  BY <1>4
<1>7. g = All(g)
  <2>1. \A s \in SUBSET S : g[s] = Turn(g, s)
    BY <1>5, <1>6
  <2>2. g = [s \in SUBSET S |-> g[s]]
    BY <1>5, <1>6
  <2> HIDE DEF Turn, upTo
  <2> QED BY <2>1, <2>2
<1>8. Sum(S) = All(Sum(S))
  <2>1. Sum(S) = CHOOSE f : f = All(f)
    BY DEF Sum, one
  <2> HIDE DEF All
  <2> QED BY <1>7, <2>1
<1> DEFINE f == Sum(S)
           K == {n \in Nat : \A s \in upTo(n) : f[s] \in Nat}
<1>9. ASSUME NEW s \in SUBSET S PROVE f[s] = Turn(f, s)
  <2> HIDE DEF f, Turn
  <2> QED BY <1>8 DEF f
<1> HIDE DEF f
<1>10. 0 \in K
  <2>1. {} \in SUBSET S
    OBVIOUS
  <2>2. f[{}] = Turn(f, {})
    BY <1>9, <2>1
  <2> QED BY <1>b, <2>2
<1>11. ASSUME NEW n \in Nat, n \in K PROVE n + 1 \in K
  <2> SUFFICES ASSUME NEW s \in upTo(n + 1) PROVE f[s] \in Nat
    OBVIOUS
  <2>0. s \in SUBSET S /\ Cardinality(s) <= n + 1
    OBVIOUS
  <2>1. CASE s = {}
    <3>1. f[s] = Turn(f, s)
      BY <1>9, <2>0
    <3> HIDE DEF upTo
    <3> QED BY <2>1, <3>1
  <2>2. CASE s # {}
    <3>1. s \ {one(s)} \in upTo(n) /\ one(s).size \in Nat
      <4>1. /\ s \ {one(s)} \in SUBSET S /\ one(s).size \in Nat /\ Cardinality(s) \in Nat
            /\ Cardinality(s \ {one(s)}) = Cardinality(s) - 1
        BY <1>1, <2>0, <2>2
      <4>2. Cardinality(s) - 1 <= n
        BY <2>0, <4>1
      <4> QED BY <4>1, <4>2
    <3>2. f[s \ {one(s)}] \in Nat
      <4> HIDE DEF upTo
      <4> QED BY <1>11, <3>1
    <3>3. f[s] = Turn(f, s)
      BY <1>9, <2>0
    <3> HIDE DEF upTo
    <3> QED BY <2>2, <3>1, <3>2, <3>3
  <2> QED BY <2>1, <2>2
<1>12. N \in K
  <2> HIDE DEF K, N
  <2> QED BY <1>4, <1>10, <1>11, SetInduction
<1>13. S \in upTo(N)
  BY <1>5
<1> QED BY <1>12, <1>13 DEF f

LEMMA SizeOfIs ==
  ASSUME NEW S \in SUBSET Contents
  PROVE  SizeOf(S) \in Nat
<1>1. IsFiniteSet(S) /\ \A f \in S : f.size \in Nat
  BY RootAssumption, FS_Subset
<1>2. SizeOf(S) = Sum(S)[S]
  BY DEF SizeOf, MapThenSumSet, MapThenFoldSet, Sum
<1> QED BY <1>1, <1>2, SumIs

\* A file system has room for what find_mount puts on it.
HasRoom(r, mounts, sizes, swap) ==
  /\ sizes[r.mount] \in Nat
  /\ Usable(sizes[r.mount]) >=
       SizeOf({f \in Contents : find_mount(f.path, mounts) = r.mount}) + r.freeSpace
       + IF find_mount(SwapPath, mounts) = r.mount THEN swap ELSE 0

\* Each file is counted for the file system it comes to lie on, and so is the swap file.
CountedFor(mounts, swap) ==
  /\ \A f \in Contents : Charged(f, mounts) = find_mount(f.path, mounts)
  /\ swap # 0 => find_mount(SwapPath, mounts) = Root
Counted == CountedFor(Mounts, swapSize)

Roomy(reqs, mounts, sizes, swap) ==
  \A r \in reqs : r.fstype \notin NoFs => HasRoom(r, mounts, sizes, swap)

RoomInv ==
  /\ swapSize \in Nat /\ swapFile \in {0, swapSize}
  /\ stage \in {"plan", "size"} => realSizes = <<>> /\ swapFile = 0
  /\ realSizes # <<>> =>
       /\ swapSize # 0 => \A r \in Requests : r.fstype # "swap"
       /\ CountedFor(Mounts, swapSize) => Roomy(Requests, Mounts, realSizes, swapSize)

\* What getImageSize adds for a file system is enough for what it will hold.
LEMMA PaddingIs ==
  ASSUME NEW n \in Nat, NEW s \in Int, s >= Padded(n)
  PROVE  Padded(n) \in Nat /\ Usable(s) >= n
<1>1. Padded(n) \in Nat /\ Padded(n) * 87 >= (n + 20) * 100
  BY DEF Padded
<1>2. s * 87 >= (n + 20) * 100
  BY <1>1
<1>3. (s * 87) \div 100 >= n + 20
  BY <1>2
<1> QED BY <1>1, <1>3 DEF Usable

LEMMA LargerOf ==
  ASSUME NEW a \in Nat, NEW b \in Nat
  PROVE  Max({a, b}) \in Nat /\ Max({a, b}) >= b
<1>1. CASE a >= b
  <2>1. Max({a, b}) = a
    BY <1>1, MaxIs
  <2> QED BY <1>1, <2>1
<1>2. CASE ~(a >= b)
  <2>1. Max({a, b}) = b
    BY <1>2, MaxIs
  <2> QED BY <2>1
<1> QED BY <1>1, <1>2

\* Only the root is there before the file systems are made.
LEMMA OnlyRootFound ==
  ASSUME MountInv, stage = "size"
  PROVE  find_mount(SwapPath, Keys) = Root
<1>1. DOMAIN filesystems = {Root}
  BY DEF MountInv
<1> DEFINE places == {k \in DOMAIN Mounts : Mounts[k] \in DOMAIN filesystems}
<1>2. Mounts \in Seq(Paths \cup Names) /\ DOMAIN Mounts = 1 .. Len(Mounts)
  BY MountsAre DEF MountInv, Enumerates
<1>3. \A k \in places : Mounts[k] = Root
  BY <1>1
<1>4. Keys \in Seq(Paths \cup Names) /\ Selects(Mounts, places)
  BY <1>2, OnlyIs DEF Keys
<1>5. ASSUME NEW k \in DOMAIN Keys PROVE Keys[k] = Root
  <2>1. k \in 1 .. Len(Keys)
    BY <1>4
  <2> HIDE DEF places
  <2>2. Keys = Only(Mounts, places)
    BY DEF Keys, places
  <2> QED BY <1>3, <1>4, <2>1, <2>2 DEF Selects
<1> DEFINE hits == {k \in DOMAIN Keys : Below(SwapPath, Keys[k])}
           best == CHOOSE k \in hits : \A j \in hits \ {k} : Sooner(Keys, k, j)
<1>6. find_mount(SwapPath, Keys) = IF hits = {} THEN Root ELSE Keys[best]
  BY DEF find_mount, First
<1>7. CASE hits = {}
  BY <1>6, <1>7
<1>8. CASE hits # {}
  <2>1. hits \in SUBSET Nat
    BY <1>4
  <2>2. PICK k \in hits : \A j \in hits : k <= j
    <3> HIDE DEF hits
    <3> QED BY <1>8, <2>1, LeastOf
  <2>3. ASSUME NEW j \in hits \ {k} PROVE Sooner(Keys, k, j)
    <3>1. Keys[j] = Keys[k] /\ k < j
      BY <1>5, <2>1, <2>2
    <3> QED BY <3>1 DEF Sooner
  <2>4. best \in hits
    BY <2>2, <2>3
  <2> HIDE DEF best
  <2> QED BY <1>5, <1>6, <1>8, <2>4
<1> QED BY <1>7, <1>8

LEMMA GetImageSizeStep ==
  ASSUME RoomInv, MountInv, getImageSize
  PROVE  RoomInv'
<1> DEFINE swap == IF \E r \in Requests : r.fstype = "swap" THEN 0 ELSE swapSize
           swapMount == find_mount(SwapPath, Keys)
           Needed(r) == SizeOn(r.mount, Mounts) + r.freeSpace
                        + IF r.mount = swapMount THEN swap ELSE 0
           Size(r) == Max({r.minSize, IF r.fstype \in NoFs THEN Needed(r) ELSE Padded(Needed(r))})
           sizes == [m \in Range(Mounts) |-> Size(CHOOSE r \in Requests : r.mount = m)]
           extra(r) == IF r.mount = Root THEN swap ELSE 0
<1>1. /\ stage = "size" /\ stage' = "format" /\ swapSize' = swap /\ realSizes' = sizes
      /\ mountDict' = mountDict /\ swapFile' = swapFile
  BY DEF getImageSize
<1>2. swap \in Nat /\ swapFile = 0 /\ (swap # 0 => \A r \in Requests : r.fstype # "swap")
  BY <1>1 DEF RoomInv
<1>3. swapMount = Root
  BY <1>1, OnlyRootFound
<1>4. mountDict \in Seq(Wanted) /\ Apart
  BY DEF MountInv
<1>5. Mounts' = Mounts /\ Requests' = Requests
  BY <1>1 DEF Mounts, Requests
<1> HIDE DEF swap, swapMount
<1>6. ASSUME CountedFor(Mounts, swap), NEW r \in Requests, r.fstype \notin NoFs
      PROVE  HasRoom(r, Mounts, sizes, swap)
  <2>1. PICK k \in DOMAIN mountDict : mountDict[k] = r
    BY DEF Requests, Range
  <2>2. r \in Wanted /\ r.minSize \in Nat /\ r.freeSpace \in Nat
    <3>1. r \in Wanted
      BY <1>4, <2>1
    <3> QED BY <3>1 DEF Wanted
  <2>3. ASSUME NEW q \in Requests, q.mount = r.mount PROVE q = r
    <3>1. PICK j \in DOMAIN mountDict : mountDict[j] = q
      BY DEF Requests, Range
    <3> QED BY <1>4, <2>1, <2>3, <3>1 DEF Apart
  <2>4. r.mount \in Range(Mounts)
    BY <2>1 DEF Mounts, Range
  <2>5. (CHOOSE q \in Requests : q.mount = r.mount) = r
    BY <2>3
  <2>6. sizes[r.mount] = Size(r)
    <3> HIDE DEF Size
    <3> QED BY <2>4, <2>5
  <2> DEFINE on == SizeOf({f \in Contents : find_mount(f.path, Mounts) = r.mount})
             n == on + r.freeSpace + extra(r)
  <2>7. on = SizeOn(r.mount, Mounts)
    <3>1. {f \in Contents : find_mount(f.path, Mounts) = r.mount}
          = {f \in Contents : Charged(f, Mounts) = r.mount}
      BY <1>6 DEF CountedFor
    <3> QED BY <3>1 DEF SizeOn
  <2>8. on \in Nat
    BY SizeOfIs
  <2>9. Needed(r) = n
    <3> HIDE DEF on
    <3> QED BY <1>3, <2>7
  <2>10. n \in Nat
    <3> HIDE DEF on
    <3> QED BY <1>2, <2>2, <2>8
  <2>11. sizes[r.mount] = Max({r.minSize, Padded(n)})
    <3> HIDE DEF Needed, n, sizes
    <3> QED BY <1>6, <2>6, <2>9
  <2> HIDE DEF n, sizes
  <2>12. Padded(n) \in Nat
    BY <2>10 DEF Padded
  <2>13. sizes[r.mount] \in Nat /\ sizes[r.mount] >= Padded(n)
    BY <2>2, <2>11, <2>12, LargerOf
  <2>14. Usable(sizes[r.mount]) >= n
    BY <2>10, <2>13, PaddingIs
  <2>15. extra(r) = IF find_mount(SwapPath, Mounts) = r.mount THEN swap ELSE 0
    BY <1>6 DEF CountedFor
  <2> HIDE DEF extra, on
  <2> QED BY <2>13, <2>14, <2>15 DEF HasRoom, n, on
<1>8. /\ swapSize' \in Nat /\ swapFile' \in {0, swapSize'} /\ stage' = "format"
      /\ swapSize' # 0 => \A r \in Requests' : r.fstype # "swap"
  <2> HIDE DEF sizes
  <2> QED BY <1>1, <1>2, <1>5
<1> HIDE DEF sizes
<1>7. CountedFor(Mounts, swap) => Roomy(Requests, Mounts, sizes, swap)
  BY <1>6 DEF Roomy
<1> QED BY <1>1, <1>5, <1>7, <1>8 DEF RoomInv

\* A step that has nothing to do with sizes.
LEMMA UnsizedStep ==
  ASSUME RoomInv, UNCHANGED <<swapSize, realSizes>>, swapFile' \in {swapFile, swapSize},
         \/ mountDict' = mountDict /\ (stage' \in {"plan", "size"} => stage' = stage)
         \/ stage = "plan",
         stage' \in {"plan", "size"} \/ stage = "plan" => swapFile' = swapFile
  PROVE  RoomInv'
<1>1. CASE stage = "plan"
  BY <1>1 DEF RoomInv
<1>2. CASE mountDict' = mountDict /\ (stage' \in {"plan", "size"} => stage' = stage)
  <2>1. Mounts' = Mounts /\ Requests' = Requests
    BY <1>2 DEF Mounts, Requests
  <2> QED BY <1>2, <2>1 DEF RoomInv
<1> QED BY <1>1, <1>2

\* RoomInv is what every step keeps.
THEOREM RoomInvHolds == SpecJob => []RoomInv
<1>1. InitJob => RoomInv
  <2> SUFFICES ASSUME InitJob PROVE RoomInv
    OBVIOUS
  <2>1. stage = "plan" /\ swapSize \in SwapSizes /\ realSizes = <<>> /\ swapFile = 0
    BY DEF InitJob, InitRoot
  <2> QED BY <2>1, RootAssumption DEF RoomInv
<1>2. RoomInv /\ MountInv /\ [BuildRoot \/ PackIt \/ (EndedJob /\ UNCHANGED jobVars)]_jobVars
      => RoomInv'
  <2> SUFFICES ASSUME RoomInv, MountInv,
                      [BuildRoot \/ PackIt \/ (EndedJob /\ UNCHANGED jobVars)]_jobVars
               PROVE  RoomInv'
    OBVIOUS
  <2>1. CASE getImageSize
    BY <2>1, GetImageSizeStep
  <2>2. CASE getFilesystems \/ Plan
    <3>1. stage = "plan" /\ UNCHANGED <<swapSize, realSizes, swapFile>>
      BY <2>2 DEF getFilesystems, Plan
    <3> QED BY <3>1, UnsizedStep
  <2>3. CASE \/ Format \/ loadRPM \/ preInstallScripts \/ installBootstrapTroves \/ InstallTroves
             \/ runTagScripts \/ postTagScripts
    <3>1. UNCHANGED <<mountDict, swapSize, realSizes, swapFile>>
      BY <2>3 DEF Format, loadRPM, preInstallScripts, installBootstrapTroves, InstallTroves,
                  runTagScripts, postTagScripts, Passes, sizeVars
    <3>2. stage' \notin {"plan", "size"}
      BY <2>3 DEF Format, loadRPM, preInstallScripts, installBootstrapTroves, InstallTroves,
                  runTagScripts, postTagScripts, Passes, Raise
    <3> QED BY <3>1, <3>2, UnsizedStep
  <2>4. CASE preTagScripts
    <3>1. /\ UNCHANGED <<mountDict, swapSize, realSizes>> /\ swapFile' \in {swapFile, swapSize}
          /\ stage = "installed" /\ stage' \in {"tag", "failed"}
      BY <2>4 DEF preTagScripts, sizeVars, Raise
    <3> QED BY <3>1, UnsizedStep
  <2>5. CASE \/ PopulateGrub \/ InstallGrub \/ InstallExtLinux \/ InstallGrub2 \/ InstallDummy
             \/ InstallMbr
    <3>1. UNCHANGED <<mountDict, swapSize, realSizes, swapFile>>
      BY <2>5 DEF PopulateGrub, InstallGrub, InstallExtLinux, InstallGrub2, InstallDummy,
                  InstallMbr, sizeVars
    <3>2. stage' \in {"grubby", "refresh", "mbr", "built", "failed"}
      BY <2>5 DEF PopulateGrub, InstallGrub, InstallExtLinux, InstallGrub2, InstallDummy,
                  InstallMbr, MountDev, Finished, Raise
    <3> QED BY <3>1, <3>2, UnsizedStep
  <2>6. CASE UNCHANGED rootVars
    <3>1. UNCHANGED <<stage, mountDict, swapSize, realSizes, swapFile>>
      BY <2>6 DEF rootVars
    <3> QED BY <3>1, UnsizedStep
  <2>7. NextRoot \/ UNCHANGED rootVars
    BY DEF BuildRoot, PackIt, jobVars
  <2> QED BY <2>1, <2>2, <2>3, <2>4, <2>5, <2>6, <2>7 DEF NextRoot
<1> QED BY <1>1, <1>2, MountInvHolds, PTL DEF SpecJob

\* getImageSize: whatever file systems and contents a job has, there is room on each for what
\* comes to lie on it, unless a file or the swap file was counted for another one.
THEOREM RoomIfCounted == SpecJob => [](Counted => RoomForContents)
<1>1. RoomInv /\ MountInv /\ Counted => RoomForContents
  <2> SUFFICES ASSUME RoomInv, MountInv, Counted, realSizes # <<>> PROVE RoomForContents
    BY DEF RoomForContents
  <2> DEFINE paths == {f.path : f \in Contents} \cup {SwapPath}
             found == [path \in paths |-> find_mount(path, Mounts)]
  <2>1. Roomy(Requests, Mounts, realSizes, swapSize)
    BY DEF RoomInv, Counted
  <2>2. ASSUME NEW r \in Requests, r.fstype \notin NoFs
        PROVE  Usable(realSizes[r.mount]) >= Load(r, found)
    <3>1. HasRoom(r, Mounts, realSizes, swapSize)
      BY <2>1, <2>2 DEF Roomy
    <3>2. {f \in Contents : found[f.path] = r.mount}
          = {f \in Contents : find_mount(f.path, Mounts) = r.mount}
      OBVIOUS
    <3>3. found[SwapPath] = find_mount(SwapPath, Mounts)
      OBVIOUS
    <3> DEFINE on == SizeOf({f \in Contents : find_mount(f.path, Mounts) = r.mount})
               x == IF find_mount(SwapPath, Mounts) = r.mount THEN swapSize ELSE 0
               y == IF find_mount(SwapPath, Mounts) = r.mount THEN swapFile ELSE 0
    <3>4. on \in Nat /\ Usable(realSizes[r.mount]) \in Int
      BY <3>1, SizeOfIs DEF HasRoom, Usable
    <3>5. r.freeSpace \in Nat
      <4>1. PICK k \in DOMAIN mountDict : mountDict[k] = r
        BY DEF Requests, Range
      <4>2. r \in Wanted
        BY <4>1 DEF MountInv
      <4> QED BY <4>2 DEF Wanted
    <3>6. x \in Nat /\ y \in Nat /\ y <= x
      BY DEF RoomInv
    <3>7. Load(r, found) = on + r.freeSpace + y
      BY <3>2, <3>3 DEF Load
    <3>8. Usable(realSizes[r.mount]) >= on + r.freeSpace + x
      BY <3>1 DEF HasRoom
    <3> HIDE DEF on, x, y, found
    <3> QED BY <3>4, <3>5, <3>6, <3>7, <3>8
  <2>3. swapFile # 0 => \A r \in Requests : r.fstype # "swap"
    BY DEF RoomInv
  <2> HIDE DEF found
  <2> QED BY <2>2, <2>3 DEF RoomForContents, found
<1> QED BY <1>1, RoomInvHolds, MountInvHolds, PTL

-----------------------------------------------------------------------------
(* The operations of write().                                              *)

OpNames ==
  {"disk", "sparse", "stream", "vhd", "gzip", "copy", "difference", "createVMX", "createVMC",
   "createXVA", "remove", "rmtree", "zip", "tar", "chunk", "xva", "createOvf", "wrongArguments",
   "writeOvf", "createManifest", "createOva", "append", "list", "post"}
Dirs == {"work", "working", "output", "base", "tree", "none"}
FileNames ==
  {"hdd", "hdd.gz", "vmdk", "vmdk.gz", "vmx", "zip", "vhd", "base.vhd", "vmc", "vpc.tar.gz",
   "root.fs", "root.gz", "fs.tar.gz", "xvda", "ova.xml", "xva", "files", "tar.gz",
   "ovf", "mf", "ova", "*", "none"}
Ops == [op : OpNames, in : Dirs \X FileNames, out : Dirs \X FileNames]

\* A sequence of n elements; the first m elements of w are those of a and the next n those of b.
Long(seq, n) == Len(seq) = n
Joins(w, a, m, b, n) ==
  /\ \A k \in 1 .. m : w[k] = a[k]
  /\ \A k \in 1 .. n : w[m + k] = b[k]

LEMMA LongIs ==
  ASSUME NEW S, NEW a \in Seq(S), NEW n \in Nat, Long(a, n)
  PROVE  Len(a) \in Nat /\ Len(a) <= n /\ n <= Len(a)
BY DEF Long

LEMMA Joined ==
  ASSUME NEW S, NEW a \in Seq(S), NEW b \in Seq(S), NEW m \in Nat, NEW n \in Nat,
         Long(a, m), Long(b, n)
  PROVE  a \o b \in Seq(S) /\ Long(a \o b, m + n) /\ Joins(a \o b, a, m, b, n)
<1>1. Joins(a \o b, a, m, b, n)
  BY LongIs DEF Joins
<1> QED BY <1>1 DEF Long

LEMMA PathIs ==
  /\ NoPath \in Dirs \X FileNames
  /\ \A n \in FileNames : /\ Work(n) \in Dirs \X FileNames /\ Working(n) \in Dirs \X FileNames
                          /\ Output(n) \in Dirs \X FileNames
  /\ \A dir \in Dirs, n \in FileNames : <<dir, n>> \in Dirs \X FileNames
<1>1. "none" \in Dirs /\ "work" \in Dirs /\ "working" \in Dirs /\ "output" \in Dirs
  BY DEF Dirs
<1>2. "none" \in FileNames
  BY DEF FileNames
<1>3. \A dir \in Dirs, n \in FileNames : <<dir, n>> \in Dirs \X FileNames
  OBVIOUS
<1> QED BY <1>1, <1>2, <1>3 DEF NoPath, Work, Working, Output

\* What compressDiskImage, createOvf and createOva do of an OVA, in their order.
LEMMA OvaIs ==
  ASSUME NEW d \in Dirs \X FileNames
  PROVE  /\ Ova(d) \in Seq(Ops) /\ Long(Ova(d), 6)
         /\ Ova(d)[1] = Op("createOvf", d, NoPath)
         /\ Ova(d)[2] = Op("writeOvf", NoPath, Working("ovf"))
         /\ Ova(d)[3] = Op("createManifest", d, Working("mf"))
         /\ Ova(d)[4] = Op("createOva", Working("ovf"), Output("ova"))
         /\ Ova(d)[5] = Op("append", Working("mf"), Output("ova"))
         /\ Ova(d)[6] = Op("append", d, Output("ova"))
BY DEF Long, Ova, Op, NoPath, Working, Output, Ops, OpNames, Dirs, FileNames

\* The plan begins with a, goes on with the OVA of d and ends with e, which only delivers.
Consists(a, d, e) == Write = (a \o Ova(d)) \o e
Starting(a, n) == \A k \in 1 .. n : Write[k] = a[k]
Ending(e, m) == \A k \in 1 .. m : e[k].op \in {"list", "post"}

\* The operations of a format that packs an OVA: those of Ova come after the first n.
PacksAfter(n, d) ==
  /\ Write[n + 1] = Op("createOvf", d, NoPath)
  /\ Write[n + 2] = Op("writeOvf", NoPath, Working("ovf"))
  /\ Write[n + 3] = Op("createManifest", d, Working("mf"))
  /\ Write[n + 4] = Op("createOva", Working("ovf"), Output("ova"))
  /\ Write[n + 5] = Op("append", Working("mf"), Output("ova"))
  /\ Write[n + 6] = Op("append", d, Output("ova"))
  /\ n + 6 < Len(Write)
  /\ \A k \in n + 7 .. Len(Write) : Write[k].op \in {"list", "post"}

Associated(a, b, c) == (a \o b) \o c = a \o (b \o c)

LEMMA Associate ==
  ASSUME NEW S, NEW a \in Seq(S), NEW b \in Seq(S), NEW c \in Seq(S)
  PROVE  Associated(a, b, c)
BY ConcatAssociative, SMTT(30) DEF Associated

Regrouped(a, b, c, d) == (a \o (b \o c)) \o d = (a \o b) \o (c \o d)

LEMMA Regroup ==
  ASSUME NEW S, NEW a \in Seq(S), NEW b \in Seq(S), NEW c \in Seq(S), NEW d \in Seq(S)
  PROVE  Regrouped(a, b, c, d)
<1>1. a \o b \in Seq(S)
  OBVIOUS
<1>2. Associated(a, b, c)
  BY Associate
<1>3. Associated(a \o b, c, d)
  BY <1>1, Associate, Zenon
<1> QED BY <1>2, <1>3, Zenon DEF Associated, Regrouped

LEMMA Packing ==
  ASSUME NEW n \in Nat, NEW m \in Nat, NEW d \in Dirs \X FileNames,
         NEW a \in Seq(Ops), Long(a, n), NEW e \in Seq(Ops), Long(e, m), m > 0,
         Ending(e, m),
         Consists(a, d, e)
  PROVE  /\ Write \in Seq(Ops) /\ Long(Write, n + 6 + m) /\ PacksAfter(n, d)
         /\ Starting(a, n)
<1> DEFINE b == Ova(d)
           u == a \o b
<1>1. b \in Seq(Ops) /\ Long(b, 6)
  BY OvaIs
<1>2. /\ b[1] = Op("createOvf", d, NoPath) /\ b[2] = Op("writeOvf", NoPath, Working("ovf"))
      /\ b[3] = Op("createManifest", d, Working("mf"))
      /\ b[4] = Op("createOva", Working("ovf"), Output("ova"))
      /\ b[5] = Op("append", Working("mf"), Output("ova"))
      /\ b[6] = Op("append", d, Output("ova"))
  BY OvaIs
<1>3. Write = u \o e
  BY DEF Consists
<1> HIDE DEF b
<1>4. u \in Seq(Ops) /\ Long(u, n + 6) /\ Joins(u, a, n, b, 6)
  BY <1>1, Joined
<1> HIDE DEF u
<1>5. Write \in Seq(Ops) /\ Long(Write, n + 6 + m) /\ Joins(Write, u, n + 6, e, m)
  BY <1>3, <1>4, Joined
<1>6. \A k \in 1 .. n : Write[k] = a[k]
  <2>1. ASSUME NEW k \in 1 .. n PROVE Write[k] = a[k]
    <3>1. u[k] = a[k]
      BY <1>4 DEF Joins
    <3>2. k \in 1 .. n + 6
      OBVIOUS
    <3>3. Write[k] = u[k]
      BY <1>5, <3>2 DEF Joins
    <3> QED BY <3>1, <3>3
  <2> QED BY <2>1
<1>7. /\ Write[n + 1] = b[1] /\ Write[n + 2] = b[2] /\ Write[n + 3] = b[3]
      /\ Write[n + 4] = b[4] /\ Write[n + 5] = b[5] /\ Write[n + 6] = b[6]
  <2>1. /\ u[n + 1] = b[1] /\ u[n + 2] = b[2] /\ u[n + 3] = b[3]
        /\ u[n + 4] = b[4] /\ u[n + 5] = b[5] /\ u[n + 6] = b[6]
    BY <1>4 DEF Joins
  <2>2. \A k \in 1 .. n + 6 : Write[k] = u[k]
    BY <1>5 DEF Joins
  <2>3. /\ n + 1 \in 1 .. n + 6 /\ n + 2 \in 1 .. n + 6 /\ n + 3 \in 1 .. n + 6
        /\ n + 4 \in 1 .. n + 6 /\ n + 5 \in 1 .. n + 6 /\ n + 6 \in 1 .. n + 6
    OBVIOUS
  <2>4. /\ Write[n + 1] = u[n + 1] /\ Write[n + 2] = u[n + 2] /\ Write[n + 3] = u[n + 3]
        /\ Write[n + 4] = u[n + 4] /\ Write[n + 5] = u[n + 5] /\ Write[n + 6] = u[n + 6]
    BY <2>2, <2>3
  <2> QED BY <2>1, <2>4
<1>8. Len(Write) \in Nat /\ Len(Write) <= n + 6 + m /\ n + 6 + m <= Len(Write)
  <2>1. n + 6 + m \in Nat
    OBVIOUS
  <2> QED BY <2>1, <1>5, LongIs
<1>9. \A k \in n + 7 .. Len(Write) : Write[k].op \in {"list", "post"}
  <2> SUFFICES ASSUME NEW k \in n + 7 .. Len(Write) PROVE Write[k].op \in {"list", "post"}
    OBVIOUS
  <2>1. k - (n + 6) \in 1 .. m
    BY <1>8
  <2>2. Write[(n + 6) + (k - (n + 6))] = e[k - (n + 6)]
    BY <2>1, <1>5 DEF Joins
  <2>3. (n + 6) + (k - (n + 6)) = k
    BY <1>8
  <2> QED BY <2>1, <2>2, <2>3 DEF Ending
<1>10. n + 6 < Len(Write)
  BY <1>8
<1>11. PacksAfter(n, d)
  BY <1>2, <1>7, <1>9, <1>10 DEF PacksAfter
<1> QED BY <1>5, <1>6, <1>11 DEF Starting

\* The three formats of which there can be an OVA.
LEMMA RawHdIs ==
  ASSUME format = "raw_hd", buildOVF10
  PROVE  /\ Write \in Seq(Ops) /\ Long(Write, 11) /\ PacksAfter(2, Output("hdd.gz"))
         /\ Write[1] = Op("disk", NoPath, Work("hdd"))
         /\ Write[2] = Op("gzip", Work("hdd"), Output("hdd.gz"))
<1> DEFINE d == Output("hdd.gz")
           a == <<Op("disk", NoPath, Work("hdd")), Op("gzip", Work("hdd"), d)>>
           c == <<List(Output("ova"))>>
           f == <<List(d), Post>>
           e == c \o f
<1>1. /\ a \in Seq(Ops) /\ Long(a, 2) /\ a[1] = Op("disk", NoPath, Work("hdd"))
      /\ a[2] = Op("gzip", Work("hdd"), d)
  BY DEF Long, Op, NoPath, Work, Output, Ops, OpNames, Dirs, FileNames
<1>2. d \in Dirs \X FileNames
  BY PathIs DEF FileNames
<1>3. c \in Seq(Ops) /\ Long(c, 1) /\ c[1].op = "list"
  BY DEF Long, Op, NoPath, Output, Ops, OpNames, Dirs, FileNames, List
<1>4. f \in Seq(Ops) /\ Long(f, 2) /\ f[1].op = "list" /\ f[2].op = "post"
  BY DEF Long, Op, NoPath, Output, Ops, OpNames, Dirs, FileNames, List, Post
<1>5. Write = (a \o (Ova(d) \o c)) \o f
  BY DEF Write, RawHdImage, If
<1>6. Ova(d) \in Seq(Ops)
  BY <1>2, OvaIs
<1> HIDE DEF a, c, d, f
<1>7. Consists(a, d, e)
  <2> DEFINE b == Ova(d)
  <2>1. b \in Seq(Ops)
    BY <1>6
  <2>2. Write = (a \o (b \o c)) \o f
    BY <1>5
  <2> HIDE DEF b
  <2>3. Regrouped(a, b, c, f)
    BY <1>1, <1>3, <1>4, <2>1, Regroup
  <2>4. Write = (a \o b) \o e
    BY <2>2, <2>3 DEF e, Regrouped
  <2> QED BY <2>4 DEF b, Consists
<1>8. e \in Seq(Ops) /\ Long(e, 3) /\ Joins(e, c, 1, f, 2)
  BY <1>3, <1>4, Joined
<1> HIDE DEF e
<1>9. e[1] = c[1] /\ e[2] = f[1] /\ e[3] = f[2]
  <2>1. e[1] = c[1] /\ e[1 + 1] = f[1] /\ e[1 + 2] = f[2]
    BY <1>8 DEF Joins
  <2> QED BY <2>1
<1>10. Ending(e, 3)
  BY <1>3, <1>4, <1>9 DEF Ending
<1>11. /\ Write \in Seq(Ops) /\ Long(Write, 2 + 6 + 3) /\ PacksAfter(2, d)
       /\ Starting(a, 2)
  BY <1>1, <1>2, <1>7, <1>8, <1>10, Packing
<1> QED BY <1>1, <1>11 DEF d, Starting

LEMMA VMwareIs ==
  ASSUME format = "vmware", buildOVF10
  PROVE  /\ Write \in Seq(Ops) /\ Long(Write, 16) /\ PacksAfter(8, Output("vmdk.gz"))
         /\ Write[1] = Op("disk", NoPath, Work("hdd"))
         /\ Write[2] = Op("sparse", Work("hdd"), Working("vmdk"))
         /\ Write[3] = Op("remove", Work("hdd"), NoPath)
         /\ Write[4] = Op("createVMX", Working("vmdk"), Working("vmx"))
         /\ Write[5] = Op("zip", <<"working", "*">>, Output("zip"))
         /\ Write[6] = List(Output("zip"))
         /\ Write[7] = Op("gzip", Working("vmdk"), Output("vmdk.gz"))
         /\ Write[8] = Op("remove", Working("vmdk"), NoPath)
<1> DEFINE d == Output("vmdk.gz")
           p == <<Op("disk", NoPath, Work("hdd")), Op("sparse", Work("hdd"), Working("vmdk")),
                  Op("remove", Work("hdd"), NoPath),
                  Op("createVMX", Working("vmdk"), Working("vmx")),
                  Op("zip", <<"working", "*">>, Output("zip")), List(Output("zip"))>>
           x == <<Op("gzip", Working("vmdk"), d), Op("remove", Working("vmdk"), NoPath)>>
           c == <<List(Output("ova"))>>
           f == <<Post>>
           a == p \o x
           e == c \o f
<1>1. /\ p \in Seq(Ops) /\ Long(p, 6) /\ p[1] = Op("disk", NoPath, Work("hdd"))
      /\ p[2] = Op("sparse", Work("hdd"), Working("vmdk"))
      /\ p[3] = Op("remove", Work("hdd"), NoPath)
      /\ p[4] = Op("createVMX", Working("vmdk"), Working("vmx"))
      /\ p[5] = Op("zip", <<"working", "*">>, Output("zip"))
      /\ p[6] = List(Output("zip"))
  BY DEF Long, Op, NoPath, Work, Working, Output, Ops, OpNames, Dirs, FileNames, List
<1>2. /\ x \in Seq(Ops) /\ Long(x, 2) /\ x[1] = Op("gzip", Working("vmdk"), d)
      /\ x[2] = Op("remove", Working("vmdk"), NoPath)
  BY DEF Long, Op, NoPath, Working, Output, Ops, OpNames, Dirs, FileNames
<1>3. d \in Dirs \X FileNames
  BY PathIs DEF FileNames
<1>4. c \in Seq(Ops) /\ Long(c, 1) /\ c[1].op = "list"
  BY DEF Long, Op, NoPath, Output, Ops, OpNames, Dirs, FileNames, List
<1>5. f \in Seq(Ops) /\ Long(f, 1) /\ f[1].op = "post"
  BY DEF Long, Op, NoPath, Ops, OpNames, Dirs, FileNames, Post
<1>6. Write = (p \o ((x \o Ova(d)) \o c)) \o f
  BY DEF Write, VMwareImage, compressDiskImage, If
<1>7. Ova(d) \in Seq(Ops) /\ Long(Ova(d), 6)
  BY <1>3, OvaIs
<1> HIDE DEF p, x, c, d, f
<1>8. a \in Seq(Ops) /\ Long(a, 8) /\ Joins(a, p, 6, x, 2)
  BY <1>1, <1>2, Joined
<1>9. e \in Seq(Ops) /\ Long(e, 2) /\ Joins(e, c, 1, f, 1)
  BY <1>4, <1>5, Joined
<1>10. Consists(a, d, e)
  <2> DEFINE b == Ova(d)
             y == x \o b
  <2>1. b \in Seq(Ops)
    BY <1>7
  <2>2. Write = (p \o (y \o c)) \o f
    BY <1>6
  <2> HIDE DEF b
  <2>3. y \in Seq(Ops) /\ Associated(p, x, b)
    BY <1>1, <1>2, <2>1, Associate
  <2>4. a \o b = p \o y
    BY <2>3 DEF Associated
  <2> HIDE DEF y, a
  <2>5. Regrouped(p, y, c, f)
    BY <1>1, <1>4, <1>5, <2>3, Regroup
  <2>6. Write = (a \o b) \o e
    BY <2>2, <2>4, <2>5 DEF e, Regrouped
  <2> QED BY <2>6 DEF b, Consists
<1> HIDE DEF a, e
<1>11. e[1] = c[1] /\ e[2] = f[1]
  <2>1. e[1] = c[1] /\ e[1 + 1] = f[1]
    BY <1>9 DEF Joins
  <2> QED BY <2>1
<1>12. Ending(e, 2)
  BY <1>4, <1>5, <1>11 DEF Ending
<1>13. /\ Write \in Seq(Ops) /\ Long(Write, 8 + 6 + 2) /\ PacksAfter(8, d)
       /\ Starting(a, 8)
  BY <1>3, <1>8, <1>9, <1>10, <1>12, Packing
<1>14. /\ a[1] = p[1] /\ a[2] = p[2] /\ a[3] = p[3] /\ a[4] = p[4] /\ a[5] = p[5]
       /\ a[6] = p[6] /\ a[7] = x[1] /\ a[8] = x[2]
  <2>1. /\ a[1] = p[1] /\ a[2] = p[2] /\ a[3] = p[3] /\ a[4] = p[4] /\ a[5] = p[5]
        /\ a[6] = p[6] /\ a[6 + 1] = x[1] /\ a[6 + 2] = x[2]
    BY <1>8 DEF Joins
  <2> QED BY <2>1
<1>15. /\ Write[1] = a[1] /\ Write[2] = a[2] /\ Write[3] = a[3] /\ Write[4] = a[4]
       /\ Write[5] = a[5] /\ Write[6] = a[6] /\ Write[7] = a[7] /\ Write[8] = a[8]
  BY <1>13 DEF Starting
<1> QED BY <1>1, <1>2, <1>13, <1>14, <1>15 DEF d

LEMMA EsxIs ==
  ASSUME format = "esx"
  PROVE  /\ Write \in Seq(Ops) /\ Long(Write, 12) /\ PacksAfter(4, Output("vmdk"))
         /\ Write[1] = Op("disk", NoPath, Work("hdd"))
         /\ Write[2] = Op("stream", Work("hdd"), Working("vmdk"))
         /\ Write[3] = Op("remove", Work("hdd"), NoPath)
         /\ Write[4] = Op("copy", Working("vmdk"), Output("vmdk"))
<1> DEFINE d == Output("vmdk")
           a == <<Op("disk", NoPath, Work("hdd")), Op("stream", Work("hdd"), Working("vmdk")),
                  Op("remove", Work("hdd"), NoPath), Op("copy", Working("vmdk"), d)>>
           e == <<List(Output("ova")), Post>>
<1>1. /\ a \in Seq(Ops) /\ Long(a, 4) /\ a[1] = Op("disk", NoPath, Work("hdd"))
      /\ a[2] = Op("stream", Work("hdd"), Working("vmdk"))
      /\ a[3] = Op("remove", Work("hdd"), NoPath) /\ a[4] = Op("copy", Working("vmdk"), d)
  BY DEF Long, Op, NoPath, Work, Working, Output, Ops, OpNames, Dirs, FileNames
<1>2. d \in Dirs \X FileNames
  BY PathIs DEF FileNames
<1>3. e \in Seq(Ops) /\ Long(e, 2) /\ e[1].op = "list" /\ e[2].op = "post"
  BY DEF Long, Op, NoPath, Output, Ops, OpNames, Dirs, FileNames, List, Post
<1>4. Write = (a \o Ova(d)) \o e
  BY DEF Write, VMwareESXImage
<1>5. Consists(a, d, e)
  BY <1>4 DEF Consists
<1> HIDE DEF a, d, e
<1>6. Ending(e, 2)
  BY <1>3 DEF Ending
<1>7. /\ Write \in Seq(Ops) /\ Long(Write, 4 + 6 + 2) /\ PacksAfter(4, d)
      /\ Starting(a, 4)
  BY <1>1, <1>2, <1>3, <1>5, <1>6, Packing
<1> QED BY <1>1, <1>7 DEF d, Starting

\* The formats of which a job gets an OVA.
Packed == format \in {"raw_hd", "vmware", "esx"} /\ buildOVF10

\* No OVA is delivered.
Plain(w) ==
  w \in Seq(Ops) /\ \A k \in 1 .. Len(w) : w[k].op = "list" => w[k].in # Output("ova")

LEMMA PlainJoin ==
  ASSUME NEW a, NEW b, Plain(a), Plain(b)
  PROVE  Plain(a \o b)
<1>1. a \o b \in Seq(Ops)
  BY DEF Plain
<1>2. ASSUME NEW k \in 1 .. Len(a \o b)
      PROVE  (a \o b)[k].op = "list" => (a \o b)[k].in # Output("ova")
  BY DEF Plain
<1> QED BY <1>1, <1>2 DEF Plain

LEMMA PlainIf ==
  ASSUME NEW condition \in BOOLEAN, NEW a, condition => Plain(a)
  PROVE  Plain(If(condition, a))
<1>1. Plain(<<>>)
  BY DEF Plain
<1> QED BY <1>1 DEF If

\* The other formats deliver none.
LEMMA WriteIs ==
  ASSUME format \in Formats, buildOVF10 \in BOOLEAN, format = "esx" => buildOVF10
  PROVE  Write \in Seq(Ops) /\ (~Packed => Plain(Write))
<1> USE DEF Op, NoPath, Work, Working, Output, Ops, OpNames, Dirs, FileNames, List, Post,
            WrongArguments
<1>1. CASE Packed
  BY <1>1, RawHdIs, VMwareIs, EsxIs DEF Packed
<1>2. CASE format = "raw_hd" /\ ~buildOVF10
  <2> DEFINE a == <<Op("disk", NoPath, Work("hdd")), Op("gzip", Work("hdd"), Output("hdd.gz"))>>
             i == If(buildOVF10, Ova(Output("hdd.gz")) \o <<List(Output("ova"))>>)
             e == <<List(Output("hdd.gz")), Post>>
  <2>1. Plain(a) /\ Plain(e)
    BY DEF Plain
  <2>2. Plain(i)
    BY <1>2, PlainIf
  <2>3. Write = (a \o i) \o e
    BY <1>2 DEF Write, RawHdImage
  <2> HIDE DEF a, i, e
  <2>4. Plain(Write)
    BY <2>1, <2>2, <2>3, PlainJoin
  <2> QED BY <2>4 DEF Plain
<1>3. CASE format = "raw_fs"
  <2> DEFINE a == <<Op("disk", NoPath, Working("root.fs")),
                    Op("tar", <<"working", "*">>, Output("fs.tar.gz"))>>
             b == <<Op("gzip", Working("root.fs"), Output("root.gz")),
                    Op("rmtree", <<"working", "*">>, NoPath), WrongArguments>>
             i == If(buildOVF10, b)
             e == <<List(Output("fs.tar.gz")), Post>>
  <2>1. Plain(a) /\ Plain(e) /\ Plain(b)
    BY DEF Plain
  <2> HIDE DEF b
  <2>2. Plain(i)
    BY <2>1, PlainIf
  <2>3. Write = (a \o i) \o e
    BY <1>3 DEF Write, RawFsImage, b
  <2> HIDE DEF a, i, e
  <2>4. Plain(Write)
    BY <2>1, <2>2, <2>3, PlainJoin
  <2> QED BY <2>4 DEF Plain
<1>4. CASE format = "vmware" /\ ~buildOVF10
  <2> DEFINE a == <<Op("disk", NoPath, Work("hdd")), Op("sparse", Work("hdd"), Working("vmdk")),
                    Op("remove", Work("hdd"), NoPath),
                    Op("createVMX", Working("vmdk"), Working("vmx")),
                    Op("zip", <<"working", "*">>, Output("zip")), List(Output("zip"))>>
             i == If(buildOVF10, compressDiskImage \o <<List(Output("ova"))>>)
             e == <<Post>>
  <2>1. Plain(a) /\ Plain(e)
    BY DEF Plain
  <2>2. Plain(i)
    BY <1>4, PlainIf
  <2>3. Write = (a \o i) \o e
    BY <1>4 DEF Write, VMwareImage
  <2> HIDE DEF a, i, e
  <2>4. Plain(Write)
    BY <2>1, <2>2, <2>3, PlainJoin
  <2> QED BY <2>4 DEF Plain
<1>5. CASE format \in {"vpc", "virtual_iron"}
  <2> DEFINE a == <<Op("disk", NoPath, Work("hdd"))>>
             b == <<Op("createVMC", Working("vhd"), Working("vmc"))>>
             i == If(format = "vpc", b)
             c == <<Op("tar", <<"working", "*">>, Output("vpc.tar.gz")),
                    List(Output("vpc.tar.gz"))>>
             d == <<WrongArguments>>
             j == If(buildOVF10, d)
             e == <<Post>>
  <2>1. Plain(a) /\ Plain(b) /\ Plain(c) /\ Plain(d) /\ Plain(e)
    BY DEF Plain
  <2>2. Plain(createVHD)
    <3>1. CASE vhdDiskType = "fixed"
      BY <3>1 DEF Plain, createVHD
    <3>2. CASE vhdDiskType = "dynamic"
      BY <3>2 DEF Plain, createVHD
    <3>3. CASE vhdDiskType \notin {"fixed", "dynamic"}
      <4>1. createVHD = <<Op("vhd", Work("hdd"), Working("base.vhd")),
                          Op("difference", Working("base.vhd"), Working("vhd"))>>
        BY <3>3 DEF createVHD
      <4> QED BY <4>1 DEF Plain
    <3> QED BY <3>1, <3>2, <3>3
  <2> HIDE DEF b, d
  <2>3. Plain(i) /\ Plain(j)
    BY <2>1, PlainIf
  <2>4. Write = ((((a \o createVHD) \o i) \o c) \o j) \o e
    BY <1>5 DEF Write, VirtualPCImage, b, d
  <2> HIDE DEF a, i, c, j, e
  <2> DEFINE s == a \o createVHD
             t == s \o i
             u == t \o c
             v == u \o j
  <2>5. Plain(s)
    BY <2>1, <2>2, PlainJoin
  <2>6. Plain(t)
    BY <2>3, <2>5, PlainJoin
  <2>7. Plain(u)
    BY <2>1, <2>6, PlainJoin
  <2>8. Plain(v)
    BY <2>3, <2>7, PlainJoin
  <2>9. Write = v \o e
    BY <2>4
  <2> HIDE DEF v
  <2>10. Plain(Write)
    BY <2>1, <2>8, <2>9, PlainJoin
  <2> QED BY <2>10 DEF Plain
<1>6. CASE format = "xen_ova"
  <2>1. Write = XenOVA
    BY <1>6 DEF Write
  <2> QED BY <2>1 DEF XenOVA, Plain
<1>7. CASE format = "ami"
  <2>1. Write = AMIImage
    BY <1>7 DEF Write
  <2> QED BY <2>1 DEF AMIImage, Plain
<1>8. CASE format \in {"tarball", "ami_s3"}
  <2>1. Write = Tarball
    BY <1>8 DEF Write
  <2> QED BY <2>1 DEF Tarball, Plain
<1> QED BY <1>1, <1>2, <1>3, <1>4, <1>5, <1>6, <1>7, <1>8,
           PackagesAssumption DEF Packed, PackagesAssumption

\* The number of operations made, and that what is left of the plan are the others.
Done == Len(Write) - Len(plan)
Follows ==
  /\ Write \in Seq(Ops) /\ plan \in Seq(Ops) /\ Len(plan) <= Len(Write)
  /\ \A k \in 1 .. Len(plan) : plan[k] = Write[Done + k]

Kept(p) == p \in DOMAIN files => p \in DOMAIN files' /\ files'[p] = files[p]
Written(p, content) == p \in DOMAIN files' /\ files'[p] = content

\* What an operation does.
Effect(o) ==
  /\ o.op \in {"remove", "rmtree", "post"} \/ \A p : p # o.out => Kept(p)
  /\ o.op = "remove" => \A p : p # o.in => Kept(p)
  /\ o.op = "disk" => Written(o.out, Hdd)
  /\ o.op \in {"sparse", "stream", "vhd", "gzip"} =>
       o.in \in DOMAIN files /\ Written(o.out, Wrap(o.op, files[o.in]))
  /\ o.op = "copy" => o.in \in DOMAIN files /\ Written(o.out, files[o.in])
  /\ o.op = "writeOvf" => Written(o.out, {<<"names", ovf.href>>})
  /\ o.op = "createManifest" =>
       Written(o.out, Wrap("digest", files[Working("ovf")]) \cup Wrap("digest", files[o.in]))
  /\ o.op = "createOvf" =>
       ovf' = [href |-> o.in[2], fileSize |-> files[o.in], diskCompressed |-> format # "esx"]
  /\ o.op # "createOvf" => ovf' = ovf
  /\ o.op = "createOva" => inOva' = Append(<<>>, <<o.in[2], files[o.in]>>)
  /\ o.op = "append" => inOva' = Append(inOva, <<o.in[2], files[o.in]>>)
  /\ o.op \notin {"createOva", "append"} => inOva' = inOva
  /\ o.op # "tar" => hidden' = hidden
  /\ o.op = "list" => files' = files /\ outputFileList' = Append(outputFileList, o.in)
  /\ o.op # "list" => outputFileList' = outputFileList
  /\ o.op # "chunk" => chunks' = chunks

\* Each step is the next operation of write(), or the last.
Makes(o) ==
  /\ verdict = "none" /\ plan # <<>> /\ o = Head(plan)
  /\ \/ verdict' = "failed" /\ plan' = <<>> /\ UNCHANGED <<choices, made>>
     \/ /\ o.op = "post" /\ verdict' = "posted" /\ plan' = <<>>
        /\ UNCHANGED <<choices, made>>
     \/ /\ o.op = "chunk" /\ UNCHANGED <<choices, verdict>> /\ plan' \in {plan, Tail(plan)}
        /\ UNCHANGED <<files, ovf, inOva, outputFileList, hidden>>
     \/ /\ o.op \notin {"post", "chunk"} /\ UNCHANGED <<choices, verdict>> /\ plan' = Tail(plan)
        /\ Effect(o)

LEMMA MakesIs ==
  ASSUME NextPackages
  PROVE  \E o : Makes(o)
<1> DEFINE o == Head(plan)
<1> USE DEF Next1, Fails, Makes, Effect, Kept, Written, Put, Reads
<1>1. CASE MakeImage
  BY <1>1 DEF MakeImage
<1>2. CASE Convert
  BY <1>2 DEF Convert
<1>3. CASE Describe
  BY <1>3 DEF Describe
<1>4. CASE RemoveFiles
  BY <1>4 DEF RemoveFiles, Drop
<1>5. CASE Pack
  BY <1>5 DEF Pack
<1>6. CASE WriteChunk
  BY <1>6 DEF WriteChunk
<1>7. CASE Xva
  BY <1>7 DEF Xva
<1>8. CASE CreateOvf
  BY <1>8 DEF CreateOvf
<1>9. CASE RaiseTypeError
  BY <1>9 DEF RaiseTypeError
<1>10. CASE WriteOvf
  BY <1>10 DEF WriteOvf
<1>11. CASE CreateManifest
  BY <1>11 DEF CreateManifest
<1>12. CASE CreateOva
  BY <1>12 DEF CreateOva
<1>13. CASE Listing
  BY <1>13 DEF Listing
<1>14. CASE PostOutput
  BY <1>14 DEF PostOutput
<1> QED BY <1>1, <1>2, <1>3, <1>4, <1>5, <1>6, <1>7, <1>8, <1>9, <1>10, <1>11,
           <1>12, <1>13, <1>14 DEF NextPackages

\* write() depends on what the job asks for only.
LEMMA OnlyChoices ==
  ASSUME UNCHANGED choices
  PROVE  Write' = Write
BY DEF choices, Write, RawHdImage, RawFsImage, VMwareImage, VMwareESXImage, VirtualPCImage,
           XenOVA, AMIImage, Tarball, createVHD, compressDiskImage, If, Ova, Op, List, Post,
           NoPath, Work, Working, Output, WrongArguments

LEMMA NextIs ==
  ASSUME Follows, NEW o, Makes(o)
  PROVE  /\ Len(Write) \in Nat /\ Done \in Nat /\ Done + 1 <= Len(Write) /\ o = Write[Done + 1]
         /\ verdict' = "none" => /\ Follows' /\ Done' \in {Done, Done + 1}
                                 /\ o.op # "chunk" => Done' = Done + 1
<1>1. /\ Len(Write) \in Nat /\ Len(plan) \in Nat /\ Len(plan) > 0 /\ Done \in Nat
      /\ Done + 1 <= Len(Write) /\ o = plan[1] /\ plan[1] = Write[Done + 1]
  BY DEF Follows, Makes, Done
<1>2. ASSUME verdict' = "none"
      PROVE  /\ Follows' /\ Done' \in {Done, Done + 1}
             /\ o.op # "chunk" => Done' = Done + 1
  <2>1. Write' = Write
    BY <1>2, OnlyChoices DEF Makes
  <2>2. plan' \in {plan, Tail(plan)} /\ (o.op # "chunk" => plan' = Tail(plan))
    BY <1>2 DEF Makes
  <2>3. CASE plan' = plan
    <3>1. Done' = Done
      BY <2>1, <2>3 DEF Done
    <3>2. o.op = "chunk" \/ plan = Tail(plan)
      BY <2>2, <2>3
    <3>3. plan # Tail(plan)
      <4>1. Len(Tail(plan)) = Len(plan) - 1
        BY <1>1 DEF Follows
      <4> QED BY <4>1, <1>1
    <3>4. Follows'
      BY <2>1, <2>3, <3>1 DEF Follows
    <3> QED BY <3>1, <3>2, <3>3, <3>4
  <2>4. CASE plan' = Tail(plan)
    <3> DEFINE p == Tail(plan)
    <3>1. /\ p \in Seq(Ops) /\ Len(p) = Len(plan) - 1
          /\ \A k \in 1 .. Len(p) : p[k] = plan[k + 1]
      BY <1>1 DEF Follows
    <3> HIDE DEF p
    <3>2. \A k \in 1 .. Len(p) : p[k] = Write[Done + 1 + k]
      <4> SUFFICES ASSUME NEW k \in 1 .. Len(p) PROVE p[k] = Write[Done + 1 + k]
        OBVIOUS
      <4>1. k + 1 \in 1 .. Len(plan)
        BY <1>1, <3>1
      <4>2. plan[k + 1] = Write[Done + (k + 1)]
        BY <4>1 DEF Follows
      <4>3. Done + (k + 1) = Done + 1 + k
        BY <1>1, <4>1
      <4> QED BY <3>1, <4>2, <4>3
    <3>3. plan' = p /\ Len(plan') = Len(plan) - 1
      BY <2>4, <3>1 DEF p
    <3>4. Done' = Done + 1
      BY <1>1, <2>1, <3>3 DEF Done
    <3>5. Follows'
      <4>1. Write' \in Seq(Ops) /\ plan' \in Seq(Ops) /\ Len(plan') <= Len(Write')
        BY <1>1, <2>1, <3>1, <3>3 DEF Follows
      <4>2. \A k \in 1 .. Len(plan') : plan'[k] = Write'[Done' + k]
        BY <2>1, <3>2, <3>3, <3>4
      <4> QED BY <4>1, <4>2 DEF Follows
    <3> QED BY <3>4, <3>5
  <2> QED BY <2>2, <2>3, <2>4
<1> QED BY <1>1, <1>2

-----------------------------------------------------------------------------
(* The package of a job that gets an OVA.                                  *)

\* Where Ova begins, the disk it is made of and what is in that.
Start == CASE format = "raw_hd" -> 2 [] format = "vmware" -> 8 [] OTHER -> 4
DiskName ==
  CASE format = "raw_hd" -> "hdd.gz" [] format = "vmware" -> "vmdk.gz" [] OTHER -> "vmdk"
Image ==
  CASE format = "raw_hd" -> Wrap("gzip", Hdd)
    [] format = "vmware" -> Wrap("gzip", Wrap("sparse", Hdd))
    [] OTHER -> Wrap("stream", Hdd)

Holds(p, content) == p \in DOMAIN files /\ files[p] = content
OvfText == {<<"names", DiskName>>}
Digests == Wrap("digest", OvfText) \cup Wrap("digest", Image)
Members == {<<"ovf", OvfText>>, <<"mf", Digests>>, <<DiskName, Image>>}

\* After n operations.
Drawn(n) ==
  /\ format = "raw_hd" => (n = 1 => Holds(Work("hdd"), Hdd))
  /\ format = "vmware" =>
       /\ n = 1 => Holds(Work("hdd"), Hdd)
       /\ n \in 2 .. 6 => Holds(Working("vmdk"), Wrap("sparse", Hdd))
       /\ n = 7 => Holds(Output("vmdk.gz"), Image)
  /\ format = "esx" =>
       /\ n = 1 => Holds(Work("hdd"), Hdd)
       /\ n \in 2 .. 3 => Holds(Working("vmdk"), Wrap("stream", Hdd))
  /\ n = Start => Holds(Output(DiskName), Image)

Assembled(n) ==
  /\ n >= Start => Holds(Output(DiskName), Image)
  /\ n >= Start + 1 =>
       ovf = [href |-> DiskName, fileSize |-> Image, diskCompressed |-> format # "esx"]
  /\ n >= Start + 2 => Holds(Working("ovf"), OvfText)
  /\ n >= Start + 3 => Holds(Working("mf"), Digests)
  /\ n >= Start + 4 => inOva \in Seq(Members) /\ inOva[1] = <<"ovf", OvfText>>
  /\ n = Start + 4 => Long(inOva, 1)
  /\ n = Start + 5 => Long(inOva, 2)
  /\ n >= Start + 5 => inOva[2] = <<"mf", Digests>>
  /\ n >= Start + 6 => Long(inOva, 3) /\ inOva[3] = <<DiskName, Image>>

LEMMA PackingIs ==
  ASSUME Packed
  PROVE  /\ PacksAfter(Start, Output(DiskName)) /\ Write \in Seq(Ops) /\ Start \in Nat
         /\ DiskName \in FileNames
BY RawHdIs, VMwareIs, EsxIs DEF Packed, Start, DiskName, FileNames

LEMMA FormatIs ==
  ASSUME format' = format
  PROVE  /\ Start' = Start /\ DiskName' = DiskName /\ Image' = Image /\ OvfText' = OvfText
         /\ Digests' = Digests /\ Members' = Members
BY DEF Start, DiskName, Image, OvfText, Digests, Members, Wrap, Hdd

LEMMA AppendIs ==
  ASSUME NEW S, NEW s \in Seq(S), NEW x \in S, NEW n \in Nat, Long(s, n)
  PROVE  /\ Append(s, x) \in Seq(S) /\ Long(Append(s, x), n + 1) /\ Append(s, x)[n + 1] = x
         /\ \A k \in 1 .. n : Append(s, x)[k] = s[k]
<1>1. Append(s, x) \in Seq(S) /\ Long(Append(s, x), n + 1)
  BY DEF Long
<1>2. Append(s, x)[n + 1] = x
  BY LongIs
<1>3. \A k \in 1 .. n : Append(s, x)[k] = s[k]
  BY LongIs
<1> QED BY <1>1, <1>2, <1>3

LEMMA PathsDiffer ==
  ASSUME Packed
  PROVE  /\ Output(DiskName) # NoPath /\ Output(DiskName) # Output("ova")
         /\ \A n : Output(DiskName) # Working(n) /\ Output("ova") # Working(n)
                   /\ NoPath # Working(n) /\ Work("hdd") # Working(n)
                   /\ NoPath # Work(n) /\ Output(n) # Work("hdd") /\ Output(n) # Working("vmdk")
         /\ Working("ovf") # Working("mf") /\ Output("ova") # NoPath
         /\ Working("vmdk") # Working("vmx") /\ Output("zip") # NoPath
BY DEF Packed, DiskName, Output, Working, Work, NoPath

\* Until Ova begins.
LEMMA DrawStep ==
  ASSUME Packed, format' = format, NEW n \in Nat, n < Start, Drawn(n),
         Write[n + 1].op \notin {"post", "chunk"} => Effect(Write[n + 1])
  PROVE  Drawn(n + 1)' /\ Write[n + 1].op \notin {"post", "tar", "chunk"}
<1> USE DEF Op
<1>1. CASE format = "raw_hd"
  <2>1. /\ Write[1] = Op("disk", NoPath, Work("hdd"))
        /\ Write[2] = Op("gzip", Work("hdd"), Output("hdd.gz"))
        /\ Start = 2 /\ DiskName = "hdd.gz" /\ Image = Wrap("gzip", Hdd)
    BY <1>1, RawHdIs DEF Packed, Start, DiskName, Image
  <2>2. CASE n = 0
    BY <1>1, <2>1, <2>2, FormatIs DEF Drawn, Effect, Written, Holds
  <2>3. CASE n = 1
    BY <1>1, <2>1, <2>3, FormatIs DEF Drawn, Effect, Written, Holds
  <2> QED BY <2>1, <2>2, <2>3
<1>2. CASE format = "vmware"
  <2>1. /\ Write[1] = Op("disk", NoPath, Work("hdd"))
        /\ Write[2] = Op("sparse", Work("hdd"), Working("vmdk"))
        /\ Write[3] = Op("remove", Work("hdd"), NoPath)
        /\ Write[4] = Op("createVMX", Working("vmdk"), Working("vmx"))
        /\ Write[5] = Op("zip", <<"working", "*">>, Output("zip"))
        /\ Write[6] = List(Output("zip"))
        /\ Write[7] = Op("gzip", Working("vmdk"), Output("vmdk.gz"))
        /\ Write[8] = Op("remove", Working("vmdk"), NoPath)
    BY <1>2, VMwareIs DEF Packed
  <2>2. /\ Start = 8 /\ DiskName = "vmdk.gz" /\ Image = Wrap("gzip", Wrap("sparse", Hdd))
    BY <1>2 DEF Start, DiskName, Image
  <2>3. /\ Wrap("sparse", Hdd)' = Wrap("sparse", Hdd) /\ Hdd' = Hdd
    BY DEF Wrap, Hdd
  <2>4. CASE n = 0
    BY <1>2, <2>1, <2>2, <2>3, <2>4, FormatIs DEF Drawn, Effect, Written, Holds
  <2>5. CASE n = 1
    BY <1>2, <2>1, <2>2, <2>3, <2>5, FormatIs DEF Drawn, Effect, Written, Holds
  <2>6. CASE n \in 2 .. 5
    <3>1. /\ Write[n + 1].op \notin {"rmtree", "post", "tar", "chunk"}
          /\ IF n = 2 THEN Write[n + 1].op = "remove" /\ Write[n + 1].in # Working("vmdk")
             ELSE Write[n + 1].op # "remove" /\ Write[n + 1].out # Working("vmdk")
      <4>1. CASE n = 2
        BY <2>1, <4>1, PathsDiffer
      <4>2. CASE n = 3
        BY <2>1, <4>2, PathsDiffer
      <4>3. CASE n = 4
        BY <2>1, <4>3, PathsDiffer
      <4>4. CASE n = 5
        BY <2>1, <4>4, PathsDiffer DEF List
      <4> QED BY <2>6, <4>1, <4>2, <4>3, <4>4
    <3>2. Kept(Working("vmdk"))
      BY <3>1 DEF Effect
    <3> QED BY <1>2, <2>2, <2>3, <2>6, <3>1, <3>2, FormatIs DEF Drawn, Kept, Holds
  <2>7. CASE n = 6
    BY <1>2, <2>1, <2>2, <2>3, <2>7, FormatIs DEF Drawn, Effect, Written, Holds
  <2>8. CASE n = 7
    <3>1. Kept(Output("vmdk.gz"))
      BY <2>1, <2>2, <2>8, PathsDiffer DEF Effect
    <3> QED BY <1>2, <2>1, <2>2, <2>3, <2>8, <3>1, FormatIs DEF Drawn, Kept, Holds
  <2> QED BY <2>2, <2>4, <2>5, <2>6, <2>7, <2>8
<1>3. CASE format = "esx"
  <2>1. /\ Write[1] = Op("disk", NoPath, Work("hdd"))
        /\ Write[2] = Op("stream", Work("hdd"), Working("vmdk"))
        /\ Write[3] = Op("remove", Work("hdd"), NoPath)
        /\ Write[4] = Op("copy", Working("vmdk"), Output("vmdk"))
    BY <1>3, EsxIs
  <2>2. /\ Start = 4 /\ DiskName = "vmdk" /\ Image = Wrap("stream", Hdd)
    BY <1>3 DEF Start, DiskName, Image
  <2>3. /\ Wrap("stream", Hdd)' = Wrap("stream", Hdd) /\ Hdd' = Hdd
    BY DEF Wrap, Hdd
  <2>4. CASE n = 0
    BY <1>3, <2>1, <2>2, <2>3, <2>4, FormatIs DEF Drawn, Effect, Written, Holds
  <2>5. CASE n = 1
    BY <1>3, <2>1, <2>2, <2>3, <2>5, FormatIs DEF Drawn, Effect, Written, Holds
  <2>6. CASE n = 2
    <3>1. Kept(Working("vmdk"))
      BY <2>1, <2>6, PathsDiffer DEF Effect
    <3> QED BY <1>3, <2>1, <2>2, <2>3, <2>6, <3>1, FormatIs DEF Drawn, Kept, Holds
  <2>7. CASE n = 3
    BY <1>3, <2>1, <2>2, <2>3, <2>7, FormatIs DEF Drawn, Effect, Written, Holds
  <2> QED BY <2>2, <2>4, <2>5, <2>6, <2>7
<1> QED BY <1>1, <1>2, <1>3 DEF Packed

\* From there to its end.
LEMMA AssembleStep ==
  ASSUME Packed, format' = format, NEW n \in Nat, n >= Start, n < Start + 6, Assembled(n),
         Write[n + 1].op \notin {"post", "chunk"} => Effect(Write[n + 1])
  PROVE  Assembled(n + 1)' /\ Write[n + 1].op \notin {"post", "tar", "chunk"}
<1> DEFINE o == Write[n + 1]
           image == Output(DiskName)
<1>1. /\ Start \in Nat /\ Write[Start + 1] = Op("createOvf", Output(DiskName), NoPath)
      /\ Write[Start + 2] = Op("writeOvf", NoPath, Working("ovf"))
      /\ Write[Start + 3] = Op("createManifest", Output(DiskName), Working("mf"))
      /\ Write[Start + 4] = Op("createOva", Working("ovf"), Output("ova"))
      /\ Write[Start + 5] = Op("append", Working("mf"), Output("ova"))
      /\ Write[Start + 6] = Op("append", Output(DiskName), Output("ova"))
  BY PackingIs DEF PacksAfter
<1>2. n \in {Start, Start + 1, Start + 2, Start + 3, Start + 4, Start + 5}
  BY <1>1
<1>3. /\ o.op \notin {"post", "tar", "chunk", "remove", "rmtree"}
      /\ n \in {Start, Start + 1, Start + 2, Start + 3, Start + 4, Start + 5}
      /\ n = Start => o = Op("createOvf", Output(DiskName), NoPath)
      /\ n = Start + 1 => o = Op("writeOvf", NoPath, Working("ovf"))
      /\ n = Start + 2 => o = Op("createManifest", Output(DiskName), Working("mf"))
      /\ n = Start + 3 => o = Op("createOva", Working("ovf"), Output("ova"))
      /\ n = Start + 4 => o = Op("append", Working("mf"), Output("ova"))
      /\ n = Start + 5 => o = Op("append", Output(DiskName), Output("ova"))
  <2>1. CASE n = Start
    BY <1>1, <2>1 DEF Op
  <2>2. CASE n = Start + 1
    BY <1>1, <2>2 DEF Op
  <2>3. CASE n = Start + 2
    BY <1>1, <2>3 DEF Op
  <2>4. CASE n = Start + 3
    BY <1>1, <2>4 DEF Op
  <2>5. CASE n = Start + 4
    BY <1>1, <2>5 DEF Op
  <2>6. CASE n = Start + 5
    BY <1>1, <2>6 DEF Op
  <2> QED BY <1>1, <1>2, <2>1, <2>2, <2>3, <2>4, <2>5, <2>6
<1>4. Effect(o)
  BY <1>3
<1> SUFFICES Assembled(n + 1)'
  BY <1>3
<1> HIDE DEF o
<1>5. Holds(image, Image)' /\ Holds(image, Image)
  <2>1. o.out # image
    BY <1>3, PathsDiffer DEF Op
  <2>2. Kept(image)
    BY <1>3, <1>4, <2>1 DEF Effect
  <2> QED BY <2>2, FormatIs DEF Assembled, Holds, Kept
<1>6. Holds(Working("ovf"), OvfText) => Holds(Working("ovf"), OvfText)' \/ n = Start + 1
  <2>1. n # Start + 1 => o.out # Working("ovf")
    BY <1>3, PathsDiffer DEF Op
  <2>2. n # Start + 1 => Kept(Working("ovf"))
    BY <1>3, <1>4, <2>1 DEF Effect
  <2> QED BY <2>2, FormatIs DEF Holds, Kept
<1>7. Holds(Working("mf"), Digests) => Holds(Working("mf"), Digests)' \/ n = Start + 2
  <2>1. n # Start + 2 => o.out # Working("mf")
    BY <1>3, PathsDiffer DEF Op
  <2>2. n # Start + 2 => Kept(Working("mf"))
    BY <1>3, <1>4, <2>1 DEF Effect
  <2> QED BY <2>2, FormatIs DEF Holds, Kept
<1>8. /\ n # Start => ovf' = ovf
      /\ n \notin {Start + 3, Start + 4, Start + 5} => inOva' = inOva
  BY <1>1, <1>3, <1>4 DEF Effect, Op
<1>9. CASE n = Start
  <2>1. ovf' = [href |-> DiskName, fileSize |-> Image, diskCompressed |-> format # "esx"]
    BY <1>3, <1>4, <1>5, <1>9 DEF Effect, Op, Output, Holds
  <2> QED BY <1>1, <1>3, <1>5, <1>9, <2>1, FormatIs DEF Assembled
<1>10. CASE n = Start + 1
  <2>1. Holds(Working("ovf"), OvfText)'
    BY <1>1, <1>3, <1>4, <1>10, FormatIs DEF Effect, Op, Written, Assembled, Holds, OvfText
  <2> QED BY <1>1, <1>3, <1>5, <1>8, <1>10, <2>1, FormatIs DEF Assembled
<1>11. CASE n = Start + 2
  <2>1. Holds(Working("mf"), Digests)'
    BY <1>1, <1>3, <1>4, <1>5, <1>11, FormatIs
    DEF Effect, Op, Written, Assembled, Holds, Digests
  <2> QED BY <1>1, <1>3, <1>5, <1>6, <1>8, <1>11, <2>1, FormatIs DEF Assembled
<1>12. /\ <<"ovf", OvfText>> \in Members /\ <<"mf", Digests>> \in Members
       /\ <<DiskName, Image>> \in Members
  BY DEF Members
<1>13. /\ format' = format /\ Start' = Start /\ DiskName' = DiskName /\ Image' = Image
       /\ OvfText' = OvfText /\ Digests' = Digests /\ Members' = Members
  BY <1>1, FormatIs
<1>14. ASSUME n \in {Start + 3, Start + 4, Start + 5}
       PROVE  /\ ovf' = [href |-> DiskName, fileSize |-> Image, diskCompressed |-> format # "esx"]
              /\ Holds(Working("ovf"), OvfText)' /\ Holds(Working("mf"), Digests)'
  <2>1. /\ n >= Start + 1 /\ n >= Start + 2 /\ n >= Start + 3
        /\ n # Start /\ n # Start + 1 /\ n # Start + 2
    BY <1>1, <1>14
  <2>2. /\ ovf = [href |-> DiskName, fileSize |-> Image, diskCompressed |-> format # "esx"]
        /\ Holds(Working("ovf"), OvfText) /\ Holds(Working("mf"), Digests)
    BY <1>1, <2>1 DEF Assembled
  <2> QED BY <1>6, <1>7, <1>8, <2>1, <2>2
<1>15. CASE n = Start + 3
  <2>1. inOva' = Append(<<>>, <<"ovf", OvfText>>)
    BY <1>1, <1>3, <1>4, <1>15 DEF Effect, Op, Assembled, Holds, Working
  <2>2. inOva' \in Seq(Members) /\ Long(inOva', 1) /\ inOva'[1] = <<"ovf", OvfText>>
    <3>1. <<>> \in Seq(Members) /\ Long(<<>>, 0)
      BY DEF Long
    <3> DEFINE e == <<>>
               x == <<"ovf", OvfText>>
    <3>2. inOva' = Append(e, x) /\ x \in Members
      BY <1>12, <2>1
    <3> HIDE DEF e, x
    <3>3. e \in Seq(Members) /\ Long(e, 0)
      BY <3>1 DEF e
    <3>4. /\ Append(e, x) \in Seq(Members) /\ Long(Append(e, x), 0 + 1)
          /\ Append(e, x)[0 + 1] = x
      BY <3>2, <3>3, AppendIs
    <3> QED BY <3>2, <3>4 DEF x
  <2> QED BY <1>1, <1>5, <1>13, <1>14, <1>15, <2>2 DEF Assembled
<1>16. CASE n = Start + 4
  <2>1. inOva' = Append(inOva, <<"mf", Digests>>)
    <3>1. o.op = "append" /\ o.in = Working("mf") /\ Holds(Working("mf"), Digests)
      BY <1>1, <1>3, <1>16 DEF Op, Assembled
    <3>2. o.in[2] = "mf" /\ files[o.in] = Digests
      BY <3>1 DEF Holds, Working
    <3>3. inOva' = Append(inOva, <<o.in[2], files[o.in]>>)
      BY <1>4, <3>1 DEF Effect
    <3> QED BY <3>2, <3>3
  <2>2. inOva \in Seq(Members) /\ Long(inOva, 1) /\ inOva[1] = <<"ovf", OvfText>>
    BY <1>1, <1>16 DEF Assembled
  <2>3. /\ inOva' \in Seq(Members) /\ Long(inOva', 2) /\ inOva'[1] = <<"ovf", OvfText>>
        /\ inOva'[2] = <<"mf", Digests>>
    BY <1>12, <2>1, <2>2, AppendIs
  <2> QED BY <1>1, <1>5, <1>13, <1>14, <1>16, <2>3 DEF Assembled
<1>17. CASE n = Start + 5
  <2>1. inOva' = Append(inOva, <<DiskName, Image>>)
    <3>1. o.op = "append" /\ o.in = Output(DiskName)
      BY <1>1, <1>3, <1>17 DEF Op
    <3>2. o.in[2] = DiskName /\ files[o.in] = Image
      BY <1>5, <3>1 DEF Holds, Output
    <3>3. inOva' = Append(inOva, <<o.in[2], files[o.in]>>)
      BY <1>4, <3>1 DEF Effect
    <3> QED BY <3>2, <3>3
  <2>2. /\ inOva \in Seq(Members) /\ Long(inOva, 2) /\ inOva[1] = <<"ovf", OvfText>>
        /\ inOva[2] = <<"mf", Digests>>
    BY <1>1, <1>17 DEF Assembled
  <2>3. /\ inOva' \in Seq(Members) /\ Long(inOva', 3) /\ inOva'[1] = <<"ovf", OvfText>>
        /\ inOva'[2] = <<"mf", Digests>> /\ inOva'[3] = <<DiskName, Image>>
    BY <1>12, <2>1, <2>2, AppendIs
  <2> QED BY <1>1, <1>5, <1>13, <1>14, <1>17, <2>3 DEF Assembled
<1> QED BY <1>2, <1>9, <1>10, <1>11, <1>15, <1>16, <1>17

\* After it what it made stays.
LEMMA TailStep ==
  ASSUME Packed, format' = format, NEW n \in Nat, n >= Start + 6, n < Len(Write), Assembled(n),
         Write[n + 1].op \notin {"post", "chunk"} => Effect(Write[n + 1])
  PROVE  /\ Write[n + 1].op \in {"list", "post"}
         /\ Write[n + 1].op # "post" => Assembled(n + 1)'
<1> DEFINE o == Write[n + 1]
<1>1. o.op \in {"list", "post"} /\ Start \in Nat
  <2>1. n + 1 \in Start + 7 .. Len(Write)
    BY PackingIs
  <2> QED BY <2>1, PackingIs DEF PacksAfter
<1>2. ASSUME o.op # "post" PROVE Assembled(n + 1)'
  <2>1. o.op = "list" /\ Effect(o)
    BY <1>1, <1>2
  <2> HIDE DEF o
  <2>2. files' = files /\ ovf' = ovf /\ inOva' = inOva
    BY <2>1 DEF Effect
  <2>3. UNCHANGED <<Start, DiskName, Image, OvfText, Digests, Members>>
    BY FormatIs
  <2> QED BY <1>1, <2>2, <2>3 DEF Assembled, Holds
<1> QED BY <1>1, <1>2 DEF o

\* What holds of the plan, the package and the list of what is delivered.
PackInv ==
  /\ format \in Formats /\ buildOVF10 \in BOOLEAN /\ (format = "esx" => buildOVF10)
  /\ verdict \in {"none", "posted", "failed"}
  /\ verdict = "none" => Follows
  /\ Packed => /\ ~hidden
               /\ verdict = "none" => Assembled(Done) /\ (Done < Start => Drawn(Done))
               /\ verdict = "posted" => Assembled(Start + 6)
  /\ ~Packed => outputFileList \in Seq({o.in : o \in Ops} \ {Output("ova")})

LEMMA ComesAfter ==
  ASSUME NEW n \in Nat, n >= Start + 6, Assembled(n), Start \in Nat
  PROVE  Assembled(Start + 6)
<1>1. /\ n >= Start /\ n >= Start + 1 /\ n >= Start + 2 /\ n >= Start + 3 /\ n >= Start + 4
      /\ n >= Start + 5
  OBVIOUS
<1>2. /\ Holds(Output(DiskName), Image)
      /\ ovf = [href |-> DiskName, fileSize |-> Image, diskCompressed |-> format # "esx"]
      /\ Holds(Working("ovf"), OvfText) /\ Holds(Working("mf"), Digests)
      /\ inOva \in Seq(Members) /\ inOva[1] = <<"ovf", OvfText>> /\ inOva[2] = <<"mf", Digests>>
      /\ Long(inOva, 3) /\ inOva[3] = <<DiskName, Image>>
  BY <1>1 DEF Assembled
<1>3. Start + 6 # Start + 4 /\ Start + 6 # Start + 5
  OBVIOUS
<1> QED BY <1>2, <1>3 DEF Assembled

LEMMA PackStep ==
  ASSUME PackInv, NextPackages
  PROVE  PackInv'
<1>1. PICK o : Makes(o)
  BY MakesIs
<1>2. /\ UNCHANGED <<format, buildOVF10, vhdDiskType>> /\ verdict = "none" /\ Follows
      /\ verdict' \in {"none", "posted", "failed"}
  BY <1>1 DEF Makes, PackInv, choices, Effect
<1>3. /\ Len(Write) \in Nat /\ Done \in Nat /\ Done + 1 <= Len(Write) /\ o = Write[Done + 1]
      /\ verdict' = "none" => /\ Follows' /\ Done' \in {Done, Done + 1}
                              /\ o.op # "chunk" => Done' = Done + 1
  BY <1>1, <1>2, NextIs
<1>4. Packed' = Packed
  BY <1>2 DEF Packed
<1>5. ASSUME Packed
      PROVE  /\ ~hidden'
             /\ verdict' = "none" => Assembled(Done)' /\ (Done' < Start' => Drawn(Done)')
             /\ verdict' = "posted" => Assembled(Start + 6)'
  <2> SUFFICES ASSUME NEW n \in Nat, n = Done
               PROVE  /\ ~hidden'
                      /\ verdict' = "none" => Assembled(Done)' /\ (Done' < Start' => Drawn(Done)')
                      /\ verdict' = "posted" => Assembled(Start + 6)'
    BY <1>3
  <2>1. Assembled(n) /\ (n < Start => Drawn(n)) /\ ~hidden /\ o = Write[n + 1] /\ n < Len(Write)
    BY <1>2, <1>3, <1>5 DEF PackInv
  <2>2. Start \in Nat /\ Start' = Start /\ format' = format
    BY <1>2, <1>5, PackingIs, FormatIs
  <2>3. CASE verdict' = "failed"
    <3>1. hidden' = hidden
      BY <1>1, <2>3 DEF Makes, made
    <3> QED BY <2>1, <2>3, <3>1
  <2>4. CASE verdict' = "posted"
    <3>1. o.op = "post" /\ UNCHANGED made
      BY <1>1, <1>2, <2>4 DEF Makes, Effect
    <3>2. n >= Start + 6
      <4>1. CASE n < Start
        BY <1>5, <2>1, <2>2, <3>1, <4>1, DrawStep
      <4>2. CASE n >= Start /\ n < Start + 6
        BY <1>5, <2>1, <2>2, <3>1, <4>2, AssembleStep
      <4> QED BY <2>2, <4>1, <4>2
    <3>3. Assembled(Start + 6)
      BY <2>1, <2>2, <3>2, ComesAfter
    <3>4. UNCHANGED <<files, ovf, inOva, hidden>>
      BY <3>1 DEF made
    <3>5. Assembled(Start + 6)'
      BY <2>2, <3>3, <3>4, FormatIs DEF Assembled, Holds
    <3> QED BY <2>1, <2>4, <3>4, <3>5
  <2>5. CASE verdict' = "none"
    <3>1. o.op # "post" /\ (o.op # "chunk" => Effect(o))
      BY <1>1, <1>2, <2>5 DEF Makes
    <3>2. CASE n < Start
      <4>1. Drawn(n + 1)' /\ o.op \notin {"tar", "chunk"}
        BY <1>5, <2>1, <2>2, <3>1, <3>2, DrawStep
      <4>2. Done' = n + 1 /\ hidden' = hidden
        BY <1>3, <2>5, <3>1, <4>1 DEF Effect
      <4>3. Drawn(Done)'
        BY <4>1, <4>2
      <4>4. Assembled(Done)'
        BY <2>2, <3>2, <4>2, <4>3 DEF Drawn, Assembled
      <4> QED BY <2>1, <2>5, <4>2, <4>3, <4>4
    <3>3. CASE n >= Start /\ n < Start + 6
      <4>1. Assembled(n + 1)' /\ o.op \notin {"tar", "chunk"}
        BY <1>5, <2>1, <2>2, <3>1, <3>3, AssembleStep
      <4>2. Done' = n + 1 /\ hidden' = hidden
        BY <1>3, <2>5, <3>1, <4>1 DEF Effect
      <4>3. Assembled(Done)'
        BY <4>1, <4>2
      <4> QED BY <2>1, <2>2, <2>5, <3>3, <4>2, <4>3
    <3>4. CASE n >= Start + 6
      <4>1. Assembled(n + 1)' /\ o.op = "list"
        BY <1>5, <2>1, <2>2, <3>1, <3>4, TailStep
      <4>2. Done' = n + 1 /\ hidden' = hidden
        BY <1>3, <2>5, <3>1, <4>1 DEF Effect
      <4>3. Assembled(Done)'
        BY <4>1, <4>2
      <4> QED BY <2>1, <2>2, <2>5, <3>4, <4>2, <4>3
    <3> QED BY <2>2, <3>2, <3>3, <3>4
  <2> QED BY <1>2, <2>3, <2>4, <2>5
<1>6. ASSUME ~Packed
      PROVE  outputFileList' \in Seq({u.in : u \in Ops} \ {Output("ova")})
  <2> DEFINE Listed == {u.in : u \in Ops} \ {Output("ova")}
  <2>1. outputFileList \in Seq(Listed)
    BY <1>6 DEF PackInv
  <2>2. o \in Ops /\ (o.op = "list" => o.in # Output("ova"))
    <3>1. Plain(Write)
      BY <1>6, WriteIs DEF PackInv
    <3>2. Done + 1 \in 1 .. Len(Write)
      BY <1>3
    <3> QED BY <1>3, <3>1, <3>2 DEF Plain
  <2>3. o.op = "list" => o.in \in Listed
    BY <2>2
  <2> HIDE DEF Listed
  <2>4. \/ outputFileList' = outputFileList
        \/ o.op = "list" /\ outputFileList' = Append(outputFileList, o.in)
    <3>1. CASE UNCHANGED made
      BY <3>1 DEF made
    <3>2. CASE UNCHANGED outputFileList
      BY <3>2
    <3>3. CASE Effect(o)
      BY <3>3 DEF Effect
    <3> QED BY <1>1, <3>1, <3>2, <3>3 DEF Makes
  <2> QED BY <2>1, <2>3, <2>4 DEF Listed
<1>7. verdict' = "none" => Follows'
  BY <1>3
<1> QED BY <1>2, <1>4, <1>5, <1>6, <1>7 DEF PackInv

LEMMA PackInit ==
  ASSUME InitPackages
  PROVE  PackInv
<1>1. /\ format \in Formats /\ buildOVF10 \in BOOLEAN /\ (format = "esx" => buildOVF10)
      /\ verdict = "none" /\ ~hidden /\ outputFileList = <<>> /\ plan = Write
  BY PackagesAssumption DEF PackagesAssumption, InitPackages
<1>2. Write \in Seq(Ops)
  BY <1>1, WriteIs
<1>3. Follows /\ Done = 0
  BY <1>1, <1>2 DEF Follows, Done
<1>4. ASSUME Packed PROVE Assembled(0) /\ Drawn(0)
  <2>1. Start \in Nat /\ Start > 0
    BY DEF Start
  <2> QED BY <2>1 DEF Assembled, Drawn
<1>5. outputFileList \in Seq({u.in : u \in Ops} \ {Output("ova")})
  BY <1>1
<1> QED BY <1>1, <1>3, <1>4, <1>5 DEF PackInv

\* The links of the chains of which a package says what its disk is.
Forms == {"gzip", "sparse", "stream", "hdd"}

LEMMA WrapIs ==
  ASSUME NEW w \in Forms, NEW content \in SUBSET Seq(Forms), content # {}
  PROVE  /\ Wrap(w, content) # {} /\ Wrap(w, content) \subseteq Seq(Forms)
         /\ \A c \in Wrap(w, content) : Head(c) = w
<1>1. ASSUME NEW c \in Seq(Forms) PROVE <<w>> \o c \in Seq(Forms) /\ Head(<<w>> \o c) = w
  <2>1. <<w>> \in Seq(Forms) /\ Len(<<w>>) = 1
    OBVIOUS
  <2> QED BY <2>1
<1> QED BY <1>1 DEF Wrap

\* write(): the operations are made one after the other, a failure ends them, and of the three
\* formats that pack an OVA all that it is made of is where the next operation reads it.
THEOREM PackInvHolds == SpecJob => []PackInv
<1>1. InitJob => PackInv
  BY PackInit DEF InitJob
<1>2. PackInv /\ [BuildRoot \/ PackIt \/ (EndedJob /\ UNCHANGED jobVars)]_jobVars => PackInv'
  <2> SUFFICES ASSUME PackInv,
                      [BuildRoot \/ PackIt \/ (EndedJob /\ UNCHANGED jobVars)]_jobVars
               PROVE  PackInv'
    OBVIOUS
  <2>1. CASE NextPackages
    BY <2>1, PackStep
  <2>2. CASE UNCHANGED pkgVars
    <3>1. UNCHANGED <<format, buildOVF10, vhdDiskType, plan, files, ovf, inOva, outputFileList,
                      hidden, verdict>>
      BY <2>2 DEF pkgVars, choices, made
    <3>2. Write' = Write
      BY <2>2, OnlyChoices DEF pkgVars
    <3>3. Done' = Done
      BY <3>1, <3>2 DEF Done
    <3>4. verdict = "none" => Follows'
      BY <3>1, <3>2, <3>3 DEF Follows, PackInv
    <3>5. Packed' = Packed
      BY <3>1 DEF Packed
    <3>6. UNCHANGED <<Start, DiskName, Image, OvfText, Digests, Members>>
      BY <3>1, FormatIs
    <3>7. Hdd' = Hdd /\ Wrap("sparse", Hdd)' = Wrap("sparse", Hdd)
          /\ Wrap("stream", Hdd)' = Wrap("stream", Hdd)
      BY DEF Hdd, Wrap
    <3>8. Assembled(Done) => Assembled(Done)'
      BY <3>1, <3>3, <3>6 DEF Assembled, Holds
    <3>9. Assembled(Start + 6) => Assembled(Start + 6)'
      BY <3>1, <3>6 DEF Assembled, Holds
    <3>10. Drawn(Done) => Drawn(Done)'
      BY <3>1, <3>3, <3>6, <3>7 DEF Drawn, Holds
    <3> QED BY <3>1, <3>4, <3>5, <3>6, <3>3, <3>8, <3>9, <3>10 DEF PackInv
  <2> QED BY <2>1, <2>2 DEF BuildRoot, PackIt, jobVars
<1> QED BY <1>1, <1>2, PTL DEF SpecJob

\* createOvf, createManifest, createOva: whatever a job asks for and whichever operation fails,
\* an OVA that is delivered consists of its descriptor, its manifest and its disk; the
\* manifest has the digests of the two others, and the descriptor the name and the size of the
\* disk as packed, and says it is compressed exactly when it is.
THEOREM OvaIsConsistentHolds == SpecJob => []OvaIsConsistent
<1>1. PackInv => OvaIsConsistent
  <2> SUFFICES ASSUME PackInv, verdict = "posted", Output("ova") \in Range(outputFileList)
               PROVE  /\ Len(inOva) = 3 /\ inOva[1][1] = "ovf" /\ inOva[2][1] = "mf"
                      /\ inOva[2][2] = Wrap("digest", inOva[1][2]) \cup Wrap("digest", inOva[3][2])
                      /\ ovf.href = inOva[3][1] /\ ovf.fileSize = inOva[3][2]
                      /\ inOva[1][2] = {<<"names", ovf.href>>}
                      /\ (\E c \in inOva[3][2] : Head(c) \in {"gzip", "tar"})
                           <=> (ovf.diskCompressed /\ ~hidden)
    BY DEF OvaIsConsistent
  <2>1. Packed
    <3> DEFINE Listed == {u.in : u \in Ops} \ {Output("ova")}
    <3>1. Output("ova") \notin Listed
      OBVIOUS
    <3> HIDE DEF Listed
    <3>2. outputFileList \in Seq(Listed) => Range(outputFileList) \subseteq Listed
      BY DEF Range
    <3>3. ~Packed => outputFileList \in Seq(Listed)
      BY DEF PackInv, Listed
    <3> QED BY <3>1, <3>2, <3>3
  <2>2. Assembled(Start + 6) /\ ~hidden /\ Start \in Nat
    BY <2>1, PackingIs DEF PackInv
  <2>3. /\ ovf = [href |-> DiskName, fileSize |-> Image, diskCompressed |-> format # "esx"]
        /\ inOva[1] = <<"ovf", OvfText>> /\ inOva[2] = <<"mf", Digests>>
        /\ inOva[3] = <<DiskName, Image>> /\ Long(inOva, 3)
    BY <2>2 DEF Assembled
  <2>4. (\E c \in Image : Head(c) \in {"gzip", "tar"}) <=> format # "esx"
    <3>1. Hdd # {} /\ Hdd \subseteq Seq(Forms)
      BY DEF Hdd, Forms
    <3>2. "gzip" \in Forms /\ "sparse" \in Forms /\ "stream" \in Forms
      BY DEF Forms
    <3>3. Wrap("sparse", Hdd) # {} /\ Wrap("sparse", Hdd) \subseteq Seq(Forms)
      BY <3>1, <3>2, WrapIs
    <3>4. Image # {} /\ \A c \in Image : Head(c) = IF format = "esx" THEN "stream" ELSE "gzip"
      <4>1. CASE format = "raw_hd"
        BY <3>1, <3>2, <4>1, WrapIs DEF Image
      <4>2. CASE format = "vmware"
        BY <3>2, <3>3, <4>2, WrapIs DEF Image
      <4>3. CASE format = "esx"
        BY <3>1, <3>2, <4>3, WrapIs DEF Image
      <4> QED BY <2>1, <4>1, <4>2, <4>3 DEF Packed
    <3> QED BY <3>4
  <2>5. Len(inOva) = 3
    BY <2>3 DEF Long
  <2>6. /\ inOva[1][1] = "ovf" /\ inOva[1][2] = OvfText /\ inOva[2][1] = "mf"
        /\ inOva[2][2] = Digests /\ inOva[3][1] = DiskName /\ inOva[3][2] = Image
    BY <2>3
  <2>7. ovf.href = DiskName /\ ovf.fileSize = Image /\ ovf.diskCompressed = (format # "esx")
    BY <2>3
  <2> QED BY <2>2, <2>4, <2>5, <2>6, <2>7 DEF OvfText, Digests
<1> QED BY <1>1, PackInvHolds, PTL

-----------------------------------------------------------------------------
(* The chunks of a XenServer image.                                        *)

\* How much of the disk has been cut.
Taken == IF chunks = <<>> THEN 0 ELSE chunks[Len(chunks)][2]

\* Chunks one after the other, all of which but the last are full.
Cut ==
  /\ chunks \in Seq(Nat \X Nat)
  /\ chunks # <<>> => chunks[1][1] = 0
  /\ \A k \in 1 .. Len(chunks) : chunks[k][1] < chunks[k][2]
  /\ \A k \in 1 .. Len(chunks) - 1 :
       chunks[k][2] = chunks[k + 1][1] /\ chunks[k][2] = k * ChunkLimit

\* createXVA and split write nothing before the disk is there, and leave none of it out.
ChunkInv ==
  format = "xen_ova" =>
    /\ size \in Nat \ {0} /\ Cut
    /\ verdict = "none" => /\ Done < 2 => chunks = <<>>
                           /\ Done = 2 => Taken = Len(chunks) * ChunkLimit /\ Taken < size
                           /\ Done > 2 => chunks # <<>> /\ Taken = size
    /\ verdict = "posted" => chunks # <<>> /\ Taken = size

LEMMA XenIs ==
  ASSUME format = "xen_ova"
  PROVE  /\ Long(Write, 7) /\ Write[3].op = "chunk"
         /\ \A k \in {1, 2, 4, 5, 6} : Write[k].op \notin {"chunk", "post"}
         /\ Write[7].op = "post"
<1>1. Write = XenOVA
  BY DEF Write
<1> QED BY <1>1 DEF XenOVA, Long, Op, List, Post

LEMMA LesserOf ==
  ASSUME NEW a \in Nat, NEW b \in Nat
  PROVE  Min({a, b}) = IF a <= b THEN a ELSE b
<1> DEFINE m == IF a <= b THEN a ELSE b
<1>1. m \in {a, b} /\ \A y \in {a, b} : m <= y
  OBVIOUS
<1>2. \A x \in {a, b} : (\A y \in {a, b} : x <= y) => x = m
  OBVIOUS
<1> QED BY <1>1, <1>2 DEF Min

\* A turn of the loop.
LEMMA ChunkStep ==
  ASSUME Cut, size \in Nat \ {0}, Taken = Len(chunks) * ChunkLimit, Taken < size,
         NEW end, end = Min({size, Taken + ChunkLimit}), chunks' = Append(chunks, <<Taken, end>>)
  PROVE  /\ Cut' /\ chunks' # <<>> /\ Taken' = end
         /\ IF size - Taken <= ChunkLimit THEN end = size
            ELSE end < size /\ end = Len(chunks') * ChunkLimit
<1> DEFINE n == Len(chunks)
           c == <<Taken, end>>
<1>1. ChunkLimit \in Nat /\ ChunkLimit > 0
  BY PackagesAssumption DEF PackagesAssumption
<1>2. chunks \in Seq(Nat \X Nat) /\ n \in Nat
  BY DEF Cut
<1>3. Taken \in Nat
  <2>1. CASE chunks = <<>>
    BY <2>1 DEF Taken
  <2>2. CASE chunks # <<>>
    <3>1. n \in 1 .. Len(chunks)
      BY <1>2, <2>2
    <3>2. chunks[n] \in Nat \X Nat
      BY <1>2, <3>1
    <3> QED BY <2>2, <3>2 DEF Taken
  <2> QED BY <2>1, <2>2
<1>4. end \in Nat /\ Taken < end
      /\ IF size - Taken <= ChunkLimit THEN end = size ELSE end < size /\ end = Taken + ChunkLimit
  BY <1>1, <1>3, LesserOf
<1>5. c \in Nat \X Nat /\ c[1] = Taken /\ c[2] = end
  BY <1>3, <1>4
<1>6. /\ chunks' \in Seq(Nat \X Nat) /\ Len(chunks') = n + 1 /\ chunks'[n + 1] = c
      /\ \A k \in 1 .. n : chunks'[k] = chunks[k]
  <2>1. chunks' = Append(chunks, c)
    OBVIOUS
  <2> HIDE DEF c
  <2>2. chunks' \in Seq(Nat \X Nat) /\ Len(chunks') = n + 1
    BY <1>2, <1>5, <2>1
  <2>3. chunks'[n + 1] = c
    BY <1>2, <1>5, <2>1
  <2>4. \A k \in 1 .. n : chunks'[k] = chunks[k]
    BY <1>2, <1>5, <2>1
  <2> QED BY <2>2, <2>3, <2>4
<1>7. chunks' # <<>>
  <2>1. Len(chunks') # 0
    BY <1>2, <1>6
  <2> QED BY <2>1
<1>8. Taken' = end
  BY <1>5, <1>6, <1>7 DEF Taken
<1>9. n = 0 => chunks = <<>>
  BY <1>2
<1> HIDE DEF c
<1>10. (n + 1) * ChunkLimit = n * ChunkLimit + ChunkLimit /\ 0 * ChunkLimit = 0
  BY <1>1, <1>2
<1>11. Cut'
  <2>1. chunks'[1][1] = 0
    <3>1. CASE n = 0
      BY <1>5, <1>6, <1>9, <3>1 DEF Taken
    <3>2. CASE n > 0
      BY <1>2, <1>6, <3>2 DEF Cut
    <3> QED BY <1>2, <3>1, <3>2
  <2>2. \A k \in 1 .. n + 1 : chunks'[k][1] < chunks'[k][2]
    BY <1>2, <1>4, <1>5, <1>6 DEF Cut
  <2>3. ASSUME NEW k \in 1 .. n
        PROVE  chunks'[k][2] = chunks'[k + 1][1] /\ chunks'[k][2] = k * ChunkLimit
    <3>1. CASE k < n
      BY <1>2, <1>6, <3>1 DEF Cut
    <3>2. CASE k = n
      <4>1. chunks # <<>> /\ chunks[n][2] = Taken
        BY <1>2, <3>2 DEF Taken
      <4> QED BY <1>2, <1>5, <1>6, <3>2, <4>1
    <3>3. k < n \/ k = n
      BY <1>2
    <3> QED BY <3>1, <3>2, <3>3
  <2>4. Len(chunks') - 1 = n
    BY <1>2, <1>6
  <2> QED BY <1>6, <2>1, <2>2, <2>3, <2>4 DEF Cut
<1>12. size - Taken > ChunkLimit => end = Len(chunks') * ChunkLimit
  BY <1>1, <1>3, <1>4, <1>6, <1>10
<1> QED BY <1>3, <1>4, <1>7, <1>8, <1>11, <1>12, <1>1

LEMMA OnlyTurns ==
  ASSUME NextPackages, Head(plan).op = "chunk"
  PROVE  WriteChunk
<1> USE DEF Next1
<1>1. ~MakeImage /\ ~Convert /\ ~Describe /\ ~RemoveFiles /\ ~Pack /\ ~Xva /\ ~CreateOvf
  BY DEF MakeImage, Convert, Describe, RemoveFiles, Pack, Xva, CreateOvf
<1>2. ~RaiseTypeError
  BY DEF RaiseTypeError, WrongArguments, Op
<1>3. ~WriteOvf /\ ~CreateManifest /\ ~CreateOva /\ ~Listing /\ ~PostOutput
  BY DEF WriteOvf, CreateManifest, CreateOva, Listing, PostOutput
<1> QED BY <1>1, <1>2, <1>3 DEF NextPackages

LEMMA ChunkKept ==
  ASSUME PackInv, ChunkInv, NextPackages
  PROVE  ChunkInv'
<1>1. PICK o : Makes(o)
  BY MakesIs
<1>2. UNCHANGED <<format, size>> /\ verdict = "none" /\ Follows /\ o = Head(plan)
      /\ verdict' \in {"none", "posted", "failed"}
  BY <1>1 DEF Makes, PackInv, choices
<1> SUFFICES ASSUME format = "xen_ova"
             PROVE  /\ size \in Nat \ {0} /\ Cut'
                    /\ verdict' = "none" =>
                         /\ Done' < 2 => chunks' = <<>>
                         /\ Done' = 2 => Taken' = Len(chunks') * ChunkLimit /\ Taken' < size
                         /\ Done' > 2 => chunks' # <<>> /\ Taken' = size
                    /\ verdict' = "posted" => chunks' # <<>> /\ Taken' = size
  BY <1>2 DEF ChunkInv
<1>3. /\ Len(Write) \in Nat /\ Done \in Nat /\ Done + 1 <= Len(Write) /\ o = Write[Done + 1]
      /\ verdict' = "none" => /\ Follows' /\ Done' \in {Done, Done + 1}
                              /\ o.op # "chunk" => Done' = Done + 1
  BY <1>1, <1>2, NextIs
<1>4. Done \in 0 .. 6 /\ (o.op = "chunk" <=> Done = 2) /\ (o.op = "post" => Done = 6)
  <2>1. Len(Write) <= 7
    BY <1>2, XenIs, LongIs DEF Follows
  <2>2. Done \in {0, 1, 2, 3, 4, 5, 6}
    BY <1>3, <2>1
  <2>3. CASE Done = 2
    BY <1>3, <2>3, XenIs
  <2>4. CASE Done \in {0, 1, 3, 4, 5}
    <3>1. Done + 1 \in {1, 2, 4, 5, 6}
      BY <2>4
    <3> QED BY <1>3, <2>4, <3>1, XenIs
  <2>5. CASE Done = 6
    BY <1>3, <2>5, XenIs
  <2> QED BY <2>2, <2>3, <2>4, <2>5
<1>5. /\ size \in Nat \ {0} /\ Cut
      /\ Done < 2 => chunks = <<>>
      /\ Done = 2 => Taken = Len(chunks) * ChunkLimit /\ Taken < size
      /\ Done > 2 => chunks # <<>> /\ Taken = size
  BY <1>2 DEF ChunkInv
<1>6. CASE UNCHANGED chunks /\ o.op # "chunk"
  <2>1. Cut' /\ Taken' = Taken
    BY <1>6, <1>5 DEF Cut, Taken
  <2>2. CASE verdict' = "posted"
    <3>1. o.op = "post"
      BY <1>1, <2>2, <1>2 DEF Makes
    <3> QED BY <1>4, <1>5, <1>6, <2>1, <2>2, <3>1
  <2>3. CASE verdict' = "none"
    <3>1. Done' = Done + 1 /\ Done # 2
      BY <1>3, <1>4, <1>6, <2>3
    <3>2. Done' = 2 => Taken' = Len(chunks') * ChunkLimit /\ Taken' < size
      <4> SUFFICES ASSUME Done' = 2 PROVE Taken' = Len(chunks') * ChunkLimit /\ Taken' < size
        OBVIOUS
      <4>1. chunks' = <<>>
        BY <1>3, <1>5, <1>6, <3>1
      <4>2. Taken' = 0 /\ Len(chunks') = 0 /\ 0 * ChunkLimit = 0
        BY <4>1, PackagesAssumption DEF Taken, PackagesAssumption
      <4> QED BY <1>5, <4>2
    <3> QED BY <1>3, <1>4, <1>5, <1>6, <2>1, <2>3, <3>1, <3>2
  <2>4. CASE verdict' = "failed"
    BY <1>5, <2>1, <2>4
  <2> QED BY <1>2, <2>2, <2>3, <2>4
<1>7. CASE o.op = "chunk"
  <2>1. Done = 2 /\ Taken = Len(chunks) * ChunkLimit /\ Taken < size
    BY <1>4, <1>5, <1>7
  <2>2. WriteChunk
    BY <1>2, <1>7, OnlyTurns
  <2>3. CASE Fails
    <3>1. UNCHANGED chunks /\ verdict' = "failed"
      BY <2>3 DEF Fails, made
    <3> QED BY <1>5, <3>1 DEF Cut
  <2>4. CASE ~Fails
    <3> DEFINE end == Min({size, Taken + ChunkLimit})
    <3>1. Last(chunks) = chunks[Len(chunks)]
      BY DEF Last
    <3>2. /\ chunks' = Append(chunks, <<Taken, end>>) /\ verdict' = "none"
          /\ plan' = IF size - Taken <= ChunkLimit THEN Tail(plan) ELSE plan
      BY <1>2, <2>2, <2>4, <3>1 DEF WriteChunk, Taken, Split
    <3> HIDE DEF end
    <3>3. /\ Cut' /\ chunks' # <<>> /\ Taken' = end
          /\ IF size - Taken <= ChunkLimit THEN end = size
             ELSE end < size /\ end = Len(chunks') * ChunkLimit
      BY <1>5, <2>1, <3>2, ChunkStep DEF end
    <3>4. CASE size - Taken <= ChunkLimit
      <4>1. Done' = 3
        <5>1. Write' = Write
          BY <1>1, <3>2, OnlyChoices DEF Makes
        <5>2. plan # <<>> /\ plan \in Seq(Ops) /\ Len(Write) \in Nat
          BY <1>1, <1>2, <1>3 DEF Makes, Follows
        <5>3. Len(plan') = Len(plan) - 1
          BY <3>2, <3>4, <5>2
        <5> QED BY <2>1, <5>1, <5>2, <5>3 DEF Done
      <4> QED BY <1>5, <3>2, <3>3, <3>4, <4>1
    <3>5. CASE ~(size - Taken <= ChunkLimit)
      <4>1. Done' = 2
        <5>1. Write' = Write
          BY <1>1, <3>2, OnlyChoices DEF Makes
        <5> QED BY <2>1, <3>2, <3>5, <5>1 DEF Done
      <4> QED BY <1>5, <3>2, <3>3, <3>5, <4>1
    <3> QED BY <3>4, <3>5
  <2> QED BY <2>3, <2>4
<1>8. o.op # "chunk" => UNCHANGED chunks
  <2>1. CASE UNCHANGED made
    BY <2>1 DEF made
  <2>2. CASE Effect(o)
    BY <2>2 DEF Effect
  <2> QED BY <1>1, <2>1, <2>2 DEF Makes
<1> QED BY <1>6, <1>7, <1>8

\* createXVA: whatever the size of the disk and the limit of a chunk, the chunks of a posted
\* package are the disk from its first byte to its last, without a gap or an overlap, each but
\* the last full.
THEOREM ChunksAreTheDiskHolds == SpecJob => []ChunksAreTheDisk
<1>1. InitJob => ChunkInv
  <2> SUFFICES ASSUME InitJob PROVE ChunkInv
    OBVIOUS
  <2>1. size \in Nat \ {0} /\ chunks = <<>> /\ verdict = "none" /\ plan = Write
    BY PackagesAssumption DEF InitJob, InitPackages, PackagesAssumption
  <2>2. Write \in Seq(Ops)
    BY PackInit DEF InitJob, PackInv, Follows, InitPackages
  <2>3. Done = 0
    BY <2>1, <2>2 DEF Done
  <2>4. Cut
    BY <2>1 DEF Cut
  <2> QED BY <2>1, <2>3, <2>4 DEF ChunkInv
<1>2. PackInv /\ ChunkInv /\ [BuildRoot \/ PackIt \/ (EndedJob /\ UNCHANGED jobVars)]_jobVars
        => ChunkInv'
  <2> SUFFICES ASSUME PackInv, ChunkInv,
                      [BuildRoot \/ PackIt \/ (EndedJob /\ UNCHANGED jobVars)]_jobVars
               PROVE  ChunkInv'
    OBVIOUS
  <2>1. CASE NextPackages
    BY <2>1, ChunkKept
  <2>2. CASE UNCHANGED pkgVars
    <3>1. UNCHANGED <<format, size, plan, chunks, verdict>>
      BY <2>2 DEF pkgVars, choices, made
    <3>2. Write' = Write
      BY <2>2, OnlyChoices DEF pkgVars
    <3>3. Done' = Done
      BY <3>1, <3>2 DEF Done
    <3>4. Taken' = Taken
      BY <3>1 DEF Taken
    <3>5. Cut => Cut'
      BY <3>1 DEF Cut
    <3> QED BY <3>1, <3>3, <3>4, <3>5 DEF ChunkInv
  <2> QED BY <2>1, <2>2 DEF BuildRoot, PackIt, jobVars
<1>3. ChunkInv => ChunksAreTheDisk
  <2> SUFFICES ASSUME ChunkInv, verdict = "posted", format = "xen_ova"
               PROVE  /\ chunks[1][1] = 0 /\ Last(chunks)[2] = size
                      /\ \A k \in DOMAIN chunks : chunks[k][1] < chunks[k][2]
                      /\ \A k \in 1 .. Len(chunks) - 1 :
                           chunks[k][2] = chunks[k + 1][1] /\ chunks[k][2] = k * ChunkLimit
    BY DEF ChunksAreTheDisk
  <2>1. Cut /\ chunks # <<>> /\ chunks[Len(chunks)][2] = size
    BY DEF ChunkInv, Taken
  <2>2. Last(chunks) = chunks[Len(chunks)] /\ DOMAIN chunks = 1 .. Len(chunks)
    BY <2>1 DEF Last, Cut
  <2> QED BY <2>1, <2>2 DEF Cut
<1> QED BY <1>1, <1>2, <1>3, PackInvHolds, PTL DEF SpecJob

-----------------------------------------------------------------------------
(* What a package leads to: the chains in the files.                       *)

\* The links of a chain: names of files and of forms, and the directories of an XVA.
Texts == FileNames \cup OpNames \cup {"names", "digest", "tmp", "uuid", "ova_base", "chunk"}

\* A chain that leads to the disk and names nothing on the way.
Link(c) ==
  /\ c \in Seq(Texts) /\ c # <<>> /\ c[Len(c)] = "hdd"
  /\ \A i \in 1 .. Len(c) : c[i] # "names"
Data(C) == C # {} /\ \A c \in C : Link(c)

\* What a deliverable shall be.
Sound(C) == (\E c \in C : Last(c) = "hdd") /\ NamedIsThere(C)

\* Where a chain has "names", if it ends with a name.
Naming(c) == Len(c) > 3 /\ c[Len(c) - 1] = "names"

\* Only such a chain can refer to something that is not there.
LEMMA NamesAreThere ==
  ASSUME NEW C,
         \A c \in C : Len(c) \in Nat
                      /\ (Naming(c) /\ "digest" \notin Range(c) /\ Last(c) # "xvda" =>
                            \E d \in C : IsPrefix(SubSeq(c, 1, Len(c) - 3) \o <<Last(c)>>, d))
  PROVE  NamedIsThere(C)
<1> SUFFICES ASSUME NEW c \in C, Len(c) - 3 > 0, c[(Len(c) - 3) + 2] = "names",
                    "digest" \notin Range(c), Last(c) # "xvda"
             PROVE  \E d \in C : IsPrefix(SubSeq(c, 1, Len(c) - 3) \o <<Last(c)>>, d)
  BY DEF NamedIsThere
<1>1. Len(c) \in Nat
  OBVIOUS
<1>2. (Len(c) - 3) + 2 = Len(c) - 1 /\ Len(c) > 3
  BY <1>1
<1>3. Naming(c)
  BY <1>2 DEF Naming
<1> QED BY <1>3

LEMMA DataIsSound ==
  ASSUME NEW C, Data(C)
  PROVE  Sound(C)
<1>1. ASSUME NEW c \in C PROVE Len(c) \in Nat /\ Last(c) = "hdd" /\ ~Naming(c)
  <2>1. Link(c)
    BY DEF Data
  <2>2. Len(c) \in Nat /\ Last(c) = "hdd"
    BY <2>1 DEF Link, Last
  <2>3. Len(c) > 3 => Len(c) - 1 \in 1 .. Len(c)
    BY <2>2
  <2> QED BY <2>1, <2>2, <2>3 DEF Link, Naming
<1>2. NamedIsThere(C)
  BY <1>1, NamesAreThere
<1> QED BY <1>1, <1>2 DEF Sound, Data

\* What is made of a disk leads to its data as the disk does.
LEMMA WrapOfData ==
  ASSUME NEW C, Data(C), NEW form \in OpNames
  PROVE  Data(Wrap(form, C))
<1>1. form \in Texts /\ form # "names"
  BY DEF Texts, OpNames
<1>2. ASSUME NEW c \in C PROVE Link(<<form>> \o c)
  <2>1. Link(c)
    BY DEF Data
  <2>2. c \in Seq(Texts) /\ Len(c) \in Nat /\ Len(c) > 0 /\ c[Len(c)] = "hdd"
    BY <2>1 DEF Link
  <2> DEFINE d == <<form>> \o c
  <2>3. d \in Seq(Texts) /\ Len(d) = Len(c) + 1 /\ d[1] = form
        /\ \A i \in 1 .. Len(c) : d[i + 1] = c[i]
    BY <1>1, <2>2
  <2> HIDE DEF d
  <2>4. d[Len(d)] = "hdd"
    BY <2>2, <2>3
  <2>5. ASSUME NEW i \in 1 .. Len(d) PROVE d[i] # "names"
    <3>1. CASE i = 1
      BY <1>1, <2>3, <3>1
    <3>2. CASE i # 1
      <4>1. i - 1 \in 1 .. Len(c) /\ (i - 1) + 1 = i
        BY <2>2, <2>3, <3>2
      <4>2. d[(i - 1) + 1] = c[i - 1] /\ c[i - 1] # "names"
        BY <2>1, <2>3, <4>1 DEF Link
      <4> QED BY <4>1, <4>2
    <3> QED BY <3>1, <3>2
  <2>6. d # <<>>
    BY <2>2, <2>3
  <2> QED BY <2>3, <2>4, <2>5, <2>6 DEF Link, d
<1> QED BY <1>2 DEF Data, Wrap

-----------------------------------------------------------------------------
(* What is packed together.                                                *)

Chains(C) == C # {} /\ \A c \in C : c \in Seq(Texts)
Digested(C) == \A c \in C : c \in Seq(Texts) /\ \E i \in 1 .. Len(c) : c[i] = "digest"

\* M is a set of names and contents: data, files that name one of the others, digests.
Sealed(M) ==
  /\ \A m \in M : \/ Data(m[2])
                  \/ \E q \in M : m[2] = {<<"names", q[1]>>} /\ Chains(q[2])
                  \/ Digested(m[2])
  /\ \E m \in M : Data(m[2])

\* An archive of M.
PackOf(form, M) == UNION {{<<form, m[1]>> \o c : c \in m[2]} : m \in M}

LEMMA PrefixOfMember ==
  ASSUME NEW form, NEW n, NEW d \in Seq(Texts)
  PROVE  IsPrefix(<<form, n>>, <<form, n>> \o d)
BY DEF IsPrefix

LEMMA PairIs ==
  ASSUME NEW S, NEW e \in Seq(S), NEW a, NEW b, Len(e) = 2, e[1] = a, e[2] = b
  PROVE  e = <<a, b>>
OBVIOUS

LEMMA FourIs ==
  ASSUME NEW S, NEW e \in Seq(S), NEW a, NEW b, NEW c, NEW d,
         Len(e) = 4, e[1] = a, e[2] = b, e[3] = c, e[4] = d
  PROVE  e = <<a, b, c, d>>
OBVIOUS

\* What an archive makes of the chain of a file that names another, and where that would be.
Foursome(a, b, c, d) ==
  /\ <<a, b>> \o <<c, d>> = <<a, b, c, d>>
  /\ SubSeq(<<a, b, c, d>>, 1, 1) \o <<d>> = <<a, d>>

LEMMA FourOf ==
  ASSUME NEW a, NEW b, NEW c, NEW d
  PROVE  Foursome(a, b, c, d)
<1> DEFINE S == {a, b, c, d}
  u == <<a, b>>
  v == <<c, d>>
  w == <<a, b, c, d>>
  s == SubSeq(w, 1, 1)
  t == <<d>>
  z == s \o t
  y == u \o v
<1>1. /\ u \in Seq(S) /\ Len(u) = 2 /\ u[1] = a /\ u[2] = b
      /\ v \in Seq(S) /\ Len(v) = 2 /\ v[1] = c /\ v[2] = d
  OBVIOUS
<1>2. y = w
  <2> HIDE DEF u, v
  <2>1. /\ y \in Seq(S) /\ Len(y) = 4 /\ y[1] = u[1] /\ y[2] = u[2]
        /\ y[2 + 1] = v[1] /\ y[2 + 2] = v[2]
    <3> HIDE DEF S
    <3>1. Long(u, 2) /\ Long(v, 2)
      BY <1>1 DEF Long
    <3>2. y \in Seq(S) /\ Long(y, 2 + 2) /\ Joins(y, u, 2, v, 2)
      BY <1>1, <3>1, Joined
    <3> HIDE DEF y
    <3> QED BY <3>2 DEF Long, Joins
  <2> HIDE DEF y, S
  <2> QED BY <1>1, <2>1, FourIs
<1>3. w \in Seq(S) /\ Len(w) = 4 /\ w[1] = a
  OBVIOUS
<1>4. t \in Seq(S) /\ Len(t) = 1 /\ t[1] = d
  OBVIOUS
<1>5. z = <<a, d>>
  <2> HIDE DEF w, t, S
  <2>1. s \in Seq(S) /\ Len(s) = 1 /\ s[1] = a
    BY <1>3
  <2> HIDE DEF s
  <2>2. z \in Seq(S) /\ Len(z) = 2 /\ z[1] = s[1] /\ z[1 + 1] = t[1]
    <3>1. Long(s, 1) /\ Long(t, 1)
      BY <1>4, <2>1 DEF Long
    <3>2. z \in Seq(S) /\ Long(z, 1 + 1) /\ Joins(z, s, 1, t, 1)
      BY <1>4, <2>1, <3>1, Joined
    <3> HIDE DEF z
    <3> QED BY <3>2 DEF Long, Joins
  <2> HIDE DEF z
  <2> QED BY <1>4, <2>1, <2>2, PairIs
<1> QED BY <1>2, <1>5 DEF Foursome

LEMMA MemberOf ==
  ASSUME NEW form, NEW M, NEW m \in M, NEW c \in m[2]
  PROVE  <<form, m[1]>> \o c \in PackOf(form, M)
BY DEF PackOf

\* A chain with a name leads to a file in the archive, whose chains begin with that name.
LEMMA SealedIsSound ==
  ASSUME NEW form, NEW M, Sealed(M)
  PROVE  Sound(PackOf(form, M))
<1> DEFINE C == PackOf(form, M)
<1>1. ASSUME NEW m \in M, NEW c \in m[2], c \in Seq(Texts)
      PROVE  /\ <<form, m[1]>> \o c \in C
             /\ Len(<<form, m[1]>> \o c) = Len(c) + 2 /\ Len(c) \in Nat
             /\ \A i \in 1 .. Len(c) : (<<form, m[1]>> \o c)[i + 2] = c[i]
  <2>1. <<form, m[1]>> \o c \in C
    BY DEF PackOf
  <2> QED BY <2>1
<1>2. \E c \in C : Last(c) = "hdd"
  <2>1. PICK m \in M : Data(m[2])
    BY DEF Sealed
  <2>2. PICK c \in m[2] : Link(c)
    BY <2>1 DEF Data
  <2>3. c \in Seq(Texts) /\ Len(c) \in Nat /\ Len(c) > 0 /\ c[Len(c)] = "hdd"
    BY <2>2 DEF Link
  <2> DEFINE d == <<form, m[1]>> \o c
  <2>4. d \in C /\ Len(d) = Len(c) + 2 /\ d[Len(c) + 2] = c[Len(c)]
    BY <1>1, <2>3
  <2> HIDE DEF d, C
  <2> QED BY <2>3, <2>4 DEF Last
<1>3. ASSUME NEW e \in C, Naming(e), "digest" \notin Range(e)
      PROVE  \E d \in C : IsPrefix(SubSeq(e, 1, Len(e) - 3) \o <<Last(e)>>, d)
  <2>1. PICK m \in M : \E c \in m[2] : e = <<form, m[1]>> \o c
    BY DEF PackOf
  <2>0. PICK c \in m[2] : e = <<form, m[1]>> \o c
    BY <2>1
  <2>2. CASE Data(m[2])
    <3>1. c \in Seq(Texts) /\ Len(c) \in Nat /\ \A i \in 1 .. Len(c) : c[i] # "names"
      BY <2>2 DEF Data, Link
    <3>2. Len(e) = Len(c) + 2 /\ \A i \in 1 .. Len(c) : e[i + 2] = c[i]
      BY <1>1, <2>0, <3>1
    <3>3. Len(e) > 3 /\ e[Len(e) - 1] = "names"
      BY <1>3 DEF Naming
    <3>4. Len(e) - 3 \in 1 .. Len(c) /\ (Len(e) - 3) + 2 = Len(e) - 1
      BY <3>1, <3>2, <3>3
    <3> QED BY <3>1, <3>2, <3>3, <3>4
  <2>3. CASE \E q \in M : m[2] = {<<"names", q[1]>>} /\ Chains(q[2])
    <3>1. PICK q \in M : m[2] = {<<"names", q[1]>>} /\ Chains(q[2])
      BY <2>3
    <3>2. PICK d \in q[2] : d \in Seq(Texts)
      BY <3>1 DEF Chains
    <3>6. c = <<"names", q[1]>>
      BY <3>1
    <3> DEFINE name == m[1]
               other == q[1]
    <3>10. Foursome(form, name, "names", other)
      BY FourOf
    <3>8. <<form, m[1]>> \o <<"names", q[1]>> = <<form, m[1], "names", q[1]>>
      BY <3>10, Zenon DEF Foursome
    <3>3. e = <<form, m[1], "names", q[1]>> /\ Len(e) = 4
      BY <2>0, <3>6, <3>8
    <3>7. Last(e) = q[1] /\ Len(e) - 3 = 1
      BY <3>3 DEF Last
    <3>9. SubSeq(<<form, m[1], "names", q[1]>>, 1, 1) \o <<q[1]>> = <<form, q[1]>>
      BY <3>10, Zenon DEF Foursome
    <3>4. SubSeq(e, 1, Len(e) - 3) \o <<Last(e)>> = <<form, q[1]>>
      BY <3>3, <3>7, <3>9, Zenon
    <3>5. <<form, q[1]>> \o d \in C
      BY MemberOf
    <3> HIDE DEF C
    <3> QED BY <3>2, <3>4, <3>5, PrefixOfMember
  <2>4. CASE Digested(m[2])
    <3>1. PICK i \in 1 .. Len(c) : c[i] = "digest"
      BY <2>4 DEF Digested
    <3>2. c \in Seq(Texts)
      BY <2>4 DEF Digested
    <3>3. e[i + 2] = "digest" /\ Len(e) = Len(c) + 2 /\ Len(c) \in Nat
      BY <1>1, <2>0, <3>1, <3>2
    <3>4. i + 2 \in DOMAIN e
      BY <2>0, <3>2, <3>3
    <3> QED BY <1>3, <3>3, <3>4 DEF Range
  <2> QED BY <2>2, <2>3, <2>4 DEF Sealed
<1>4. ASSUME NEW e \in C PROVE Len(e) \in Nat
  <2>1. PICK m \in M : \E c \in m[2] : e = <<form, m[1]>> \o c
    BY DEF PackOf
  <2>0. PICK c \in m[2] : e = <<form, m[1]>> \o c
    BY <2>1
  <2>2. Data(m[2]) => c \in Seq(Texts)
    BY DEF Data, Link
  <2>3. Digested(m[2]) => c \in Seq(Texts)
    BY DEF Digested
  <2>4. ASSUME NEW q \in M, m[2] = {<<"names", q[1]>>} PROVE Len(e) \in Nat
    BY <2>0, <2>4
  <2> QED BY <1>1, <2>0, <2>2, <2>3, <2>4 DEF Sealed
<1>5. NamedIsThere(C)
  <2> HIDE DEF C
  <2> QED BY <1>3, <1>4, NamesAreThere
<1> QED BY <1>2, <1>5 DEF Sound

-----------------------------------------------------------------------------
(* What write() makes of the files.                                        *)

Describers == {"difference", "createVMX", "createVMC", "createXVA"}
Converters == {"sparse", "stream", "vhd", "gzip", "copy"}
Writers ==
  {"disk", "zip", "tar", "xva", "writeOvf", "createManifest", "createOva", "append"}
  \cup Describers \cup Converters
XvaOf(o) == Archive("tar", {o.in}) \cup {<<"tar">> \o Member("xvda") \o <<"chunk">>}
OvaOf(members) == UNION {Wrap("ova", Wrap(m[1], m[2])) : m \in Range(members)}

\* What an operation does to the files, when it does not fail.
Leaves(o) ==
  /\ \A p \in DOMAIN files' :
       (p = o.out /\ o.op \in Writers) \/ (p \in DOMAIN files /\ files'[p] = files[p])
  /\ o.op \in Writers => o.out \in DOMAIN files' /\ \A p \in DOMAIN files : p \in DOMAIN files'
  /\ o.op = "remove" => \A p \in DOMAIN files : p # o.in => p \in DOMAIN files'
  /\ o.op = "rmtree" => \A p \in DOMAIN files : p[1] # o.in[1] => p \in DOMAIN files'
  /\ o.op \notin Writers \cup {"remove", "rmtree"} => files' = files
Puts(o) ==
  /\ o.op = "disk" => files'[o.out] = Hdd
  /\ o.op \in Converters =>
       o.in \in DOMAIN files /\ files'[o.out] \in {Wrap(o.op, files[o.in]), files[o.in]}
  /\ o.op \in Describers => files'[o.out] = {<<"names", o.in[2]>>}
  /\ o.op \in {"zip", "tar"} => hidden' \/ files'[o.out] = Archive(o.op, InDir(o.in[1]))
  /\ hidden => hidden'
  /\ o.op = "xva" => o.in \in DOMAIN files /\ files'[o.out] = XvaOf(o)
  /\ o.op \in {"createOva", "append"} => files'[o.out] = OvaOf(inOva')
  /\ o.op \notin {"createOva", "append"} => inOva' = inOva
Lists(o) ==
  /\ o.op = "list" => outputFileList' = Append(outputFileList, o.in)
  /\ o.op # "list" => outputFileList' = outputFileList
  /\ o.op = "post" => Range(outputFileList) \subseteq DOMAIN files

LEMMA LeavesIs ==
  ASSUME NextPackages
  PROVE  \/ verdict' = "failed" /\ UNCHANGED made
         \/ Leaves(Head(plan)) /\ Puts(Head(plan)) /\ Lists(Head(plan))
<1> DEFINE o == Head(plan)
           fails == verdict' = "failed" /\ UNCHANGED made
<1> USE DEF Next1, Fails, Leaves, Puts, Lists, Put, Reads, Writers, Describers, Converters, made
<1>1. CASE MakeImage
  BY <1>1 DEF MakeImage
<1>2. CASE Convert
  BY <1>2 DEF Convert
<1>3. CASE Describe
  BY <1>3 DEF Describe
<1>4. CASE RemoveFiles
  BY <1>4 DEF RemoveFiles, Drop, InDir
<1>5. CASE Pack
  BY <1>5 DEF Pack
<1>6. CASE WriteChunk
  BY <1>6 DEF WriteChunk
<1>7. CASE Xva
  BY <1>7 DEF Xva, XvaOf
<1>8. CASE CreateOvf
  BY <1>8 DEF CreateOvf
<1>9. CASE RaiseTypeError
  BY <1>9 DEF RaiseTypeError
<1>10. CASE WriteOvf
  BY <1>10 DEF WriteOvf
<1>11. CASE CreateManifest
  BY <1>11 DEF CreateManifest
<1>12. CASE CreateOva
  BY <1>12 DEF CreateOva, OvaOf
<1>13. CASE Listing
  BY <1>13 DEF Listing
<1>14. CASE PostOutput
  BY <1>14 DEF PostOutput
<1> QED BY <1>1, <1>2, <1>3, <1>4, <1>5, <1>6, <1>7, <1>8, <1>9, <1>10, <1>11,
           <1>12, <1>13, <1>14 DEF NextPackages

-----------------------------------------------------------------------------
(* What the names of the files tell, and the operations of write().        *)

Whole == vhdDiskType \in {"fixed", "dynamic"}
DiskNames ==
  {"hdd", "root.fs", "files", "vmdk", "hdd.gz", "vmdk.gz", "root.gz", "base.vhd"}
  \cup IF Whole THEN {"vhd"} ELSE {}
NamingNames == {"vmx", "vmc", "ova.xml"} \cup IF Whole THEN {} ELSE {"vhd"}
NameOf(n) ==
  CASE n = "vmx" -> "vmdk" [] n = "vmc" -> "vhd" [] n = "vhd" -> "base.vhd" [] OTHER -> "xvda"
ArchiveNames == {"zip", "fs.tar.gz", "vpc.tar.gz", "tar.gz"}
PackDirs == {"working", "tree"}
PackOps == {"zip", "tar"}

\* An operation reads and writes what its kind of operation does.
Fits(o) ==
  /\ o.op = "disk" \/ o.op \in Converters => o.out[2] \in DiskNames
  /\ o.op \in Converters => o.in[2] \in DiskNames
  /\ o.op \in Describers => o.out[2] \in NamingNames /\ o.in[2] = NameOf(o.out[2])
  /\ o.op \in PackOps => o.out[2] \in ArchiveNames /\ o.in[1] \in PackDirs
  /\ o.op = "xva" => o.in = <<"base", "ova.xml">> /\ o.out = Output("xva")
  /\ o.op \in {"writeOvf", "createManifest"} => o.out \in {Working("ovf"), Working("mf")}
  /\ o.op \in {"createOva", "append"} => o.out = Output("ova")
  /\ o.op \in {"remove", "rmtree"} => o.in[1] # "output"
  /\ o.op = "list" => o.in = Output("ova") \/ o.in[2] \in DiskNames \cup ArchiveNames \cup {"xva"}
  /\ o.out[1] \in PackDirs => o.op \in Writers

\* The first n operations leave in dir what can be packed.
Ready(w, n, dir) ==
  /\ \E j \in 1 .. n : w[j].out[1] = dir /\ w[j].out[2] \in DiskNames
  /\ \A j \in 1 .. n :
       /\ w[j].out[1] = dir =>
            \/ w[j].out[2] \in DiskNames
            \/ /\ w[j].out[2] \in NamingNames
               /\ \E i \in 1 .. n : w[i].out = <<dir, NameOf(w[j].out[2])>>
       /\ w[j].op \in {"remove", "rmtree"} => w[j].in[1] # dir

\* Of a plan: its operations are what their kinds are, it posts what it has listed, it packs what
\* is there; one that packs nothing can come after any other.
Sane(w) == w \in Seq(Ops) /\ \A k \in 1 .. Len(w) : Fits(w[k])
ListsAny(w, n) == \E j \in 1 .. n : w[j].op = "list"
PostsList(w) == \A k \in 1 .. Len(w) : w[k].op = "post" => ListsAny(w, k - 1)
Packs(w) == \A k \in 1 .. Len(w) : w[k].op \in PackOps => Ready(w, k - 1, w[k].in[1])
Good(w) == Sane(w) /\ PostsList(w) /\ Packs(w)
NoPack(w) == \A k \in 1 .. Len(w) : w[k].op \notin PackOps
Later(w) == Sane(w) /\ PostsList(w) /\ NoPack(w)

LEMMA ReadyAs ==
  ASSUME NEW a, NEW w, NEW n, NEW dir, \A j \in 1 .. n : w[j] = a[j], Ready(a, n, dir)
  PROVE  Ready(w, n, dir)
<1>1. /\ \E j \in 1 .. n : a[j].out[1] = dir /\ a[j].out[2] \in DiskNames
      /\ \A j \in 1 .. n :
           /\ a[j].out[1] = dir =>
                \/ a[j].out[2] \in DiskNames
                \/ /\ a[j].out[2] \in NamingNames
                   /\ \E i \in 1 .. n : a[i].out = <<dir, NameOf(a[j].out[2])>>
           /\ a[j].op \in {"remove", "rmtree"} => a[j].in[1] # dir
  BY DEF Ready
<1>2. \E j \in 1 .. n : w[j].out[1] = dir /\ w[j].out[2] \in DiskNames
  BY <1>1
<1>3. ASSUME NEW j \in 1 .. n
      PROVE  /\ w[j].out[1] = dir =>
                \/ w[j].out[2] \in DiskNames
                \/ /\ w[j].out[2] \in NamingNames
                   /\ \E i \in 1 .. n : w[i].out = <<dir, NameOf(w[j].out[2])>>
             /\ w[j].op \in {"remove", "rmtree"} => w[j].in[1] # dir
  <2>1. w[j] = a[j]
    OBVIOUS
  <2> QED BY <1>1, <2>1
<1> QED BY <1>2, <1>3 DEF Ready

\* Operations that pack nothing can follow: whatever they remove is not packed any more.
LEMMA GoodJoin ==
  ASSUME NEW a, NEW b, Good(a), Sane(b), NoPack(b), PostsList(b) \/ ListsAny(a, Len(a))
  PROVE  /\ Good(a \o b)
         /\ ListsAny(a, Len(a)) \/ ListsAny(b, Len(b)) => ListsAny(a \o b, Len(a \o b))
         /\ NoPack(a) => NoPack(a \o b)
<1> DEFINE m == Len(a)
           n == Len(b)
           w == a \o b
<1>1. /\ a \in Seq(Ops) /\ b \in Seq(Ops) /\ m \in Nat /\ n \in Nat
      /\ \A k \in 1 .. m : Fits(a[k])
      /\ \A k \in 1 .. n : Fits(b[k])
  BY DEF Good, Sane
<1>2. /\ w \in Seq(Ops) /\ Len(w) = m + n
      /\ \A k \in 1 .. m : w[k] = a[k]
      /\ \A k \in 1 .. n : w[m + k] = b[k]
  <2>1. Long(a, m) /\ Long(b, n)
    BY DEF Long
  <2> HIDE DEF m, n
  <2>2. w \in Seq(Ops) /\ Long(w, m + n) /\ Joins(w, a, m, b, n)
    BY <1>1, <2>1, Joined
  <2> HIDE DEF w
  <2> QED BY <2>2 DEF Long, Joins
<1> HIDE DEF w
<1>3. ASSUME NEW k \in 1 .. m + n
      PROVE  \/ k \in 1 .. m /\ w[k] = a[k]
             \/ k - m \in 1 .. n /\ w[k] = b[k - m] /\ k - 1 >= m
  <2> HIDE DEF m, n
  <2>1. CASE k <= m
    BY <1>1, <1>2, <2>1
  <2>2. CASE ~(k <= m)
    <3>1. k - m \in 1 .. n /\ m + (k - m) = k /\ k - 1 >= m
      BY <1>1, <2>2
    <3>2. w[m + (k - m)] = b[k - m]
      BY <1>2, <3>1
    <3> QED BY <3>1, <3>2
  <2> QED BY <2>1, <2>2
<1>4. Sane(w)
  <2> HIDE DEF m, n
  <2> QED BY <1>1, <1>2, <1>3 DEF Sane
<1>5. ASSUME NEW l \in Nat, l >= m, ListsAny(a, m) PROVE ListsAny(w, l)
  <2> HIDE DEF m, n
  <2> QED BY <1>1, <1>2, <1>5 DEF ListsAny
<1>6. ASSUME NEW l \in 1 .. n, ListsAny(b, l) PROVE ListsAny(w, m + l)
  <2> HIDE DEF m, n
  <2>1. PICK j \in 1 .. l : b[j].op = "list"
    BY <1>6 DEF ListsAny
  <2>2. j \in 1 .. n /\ m + j \in 1 .. m + l
    BY <1>1, <2>1
  <2> QED BY <1>2, <2>1, <2>2 DEF ListsAny
<1>7. ASSUME NEW k \in 1 .. m + n, w[k].op = "post" PROVE ListsAny(w, k - 1)
  <2>1. CASE k \in 1 .. m /\ w[k] = a[k]
    <3>1. ListsAny(a, k - 1)
      BY <1>7, <2>1 DEF Good, PostsList
    <3> HIDE DEF m, n
    <3> QED BY <1>1, <1>2, <2>1, <3>1 DEF ListsAny
  <2>2. CASE k - m \in 1 .. n /\ w[k] = b[k - m] /\ k - 1 >= m
    <3>1. CASE ListsAny(a, m)
      <4> HIDE DEF m, n
      <4>1. k - 1 \in Nat
        BY <1>1
      <4> QED BY <1>5, <2>2, <3>1, <4>1
    <3>2. CASE PostsList(b)
      <4>1. ListsAny(b, k - m - 1)
        BY <1>7, <2>2, <3>2 DEF PostsList
      <4> HIDE DEF m, n
      <4>2. PICK j \in 1 .. k - m - 1 : b[j].op = "list"
        BY <4>1 DEF ListsAny
      <4>3. j \in 1 .. n /\ m + j \in 1 .. k - 1
        BY <1>1, <2>2, <4>2
      <4> QED BY <1>2, <4>2, <4>3 DEF ListsAny
    <3> QED BY <3>1, <3>2
  <2> QED BY <1>3, <2>1, <2>2
<1>8. ASSUME NEW k \in 1 .. m + n, w[k].op \in PackOps PROVE Ready(w, k - 1, w[k].in[1])
  <2>1. CASE k \in 1 .. m /\ w[k] = a[k]
    <3>1. Ready(a, k - 1, a[k].in[1])
      BY <1>8, <2>1 DEF Good, Packs
    <3>2. \A j \in 1 .. k - 1 : w[j] = a[j]
      BY <1>1, <1>2, <2>1
    <3> DEFINE dir == w[k].in[1]
    <3>3. Ready(a, k - 1, dir)
      BY <2>1, <3>1
    <3> HIDE DEF m, n, dir, w
    <3>4. Ready(w, k - 1, dir)
      BY <3>2, <3>3, ReadyAs
    <3> QED BY <3>4 DEF dir
  <2>2. CASE k - m \in 1 .. n /\ w[k] = b[k - m] /\ k - 1 >= m
    BY <1>8, <2>2 DEF NoPack
  <2> QED BY <1>3, <2>1, <2>2
<1>9. Good(w)
  <2> HIDE DEF m, n
  <2> QED BY <1>2, <1>4, <1>7, <1>8 DEF Good, PostsList, Packs
<1>10. ListsAny(a, m) \/ ListsAny(b, n) => ListsAny(w, Len(w))
  <2> HIDE DEF m, n
  <2>1. ASSUME ListsAny(b, n) PROVE n \in 1 .. n
    BY <1>1, <2>1 DEF ListsAny
  <2> QED BY <1>1, <1>2, <1>5, <1>6, <2>1
<1>11. ASSUME NoPack(a) PROVE NoPack(w)
  <2>1. ASSUME NEW k \in 1 .. m + n PROVE w[k].op \notin PackOps
    BY <1>3, <1>11 DEF NoPack
  <2> HIDE DEF m, n
  <2> QED BY <1>2, <2>1 DEF NoPack
<1> QED BY <1>9, <1>10, <1>11 DEF w

LEMMA LaterIsGood ==
  ASSUME NEW a, Later(a)
  PROVE  Good(a) /\ Sane(a) /\ NoPack(a) /\ PostsList(a)
BY DEF Later, Good, Packs, NoPack

LEMMA LaterJoin ==
  ASSUME NEW a, NEW b, Later(a), Later(b)
  PROVE  Later(a \o b)
<1>1. Good(a) /\ NoPack(a) /\ Sane(b) /\ NoPack(b) /\ PostsList(b)
  BY LaterIsGood
<1>2. Good(a \o b) /\ NoPack(a \o b)
  BY <1>1, GoodJoin
<1> QED BY <1>2 DEF Good, Later

LEMMA GoodLater ==
  ASSUME NEW a, NEW b, Good(a), Later(b)
  PROVE  Good(a \o b) /\ (ListsAny(a, Len(a)) => ListsAny(a \o b, Len(a \o b)))
BY GoodJoin, LaterIsGood

LEMMA LaterIf ==
  ASSUME NEW condition \in BOOLEAN, NEW a, condition => Later(a)
  PROVE  Later(If(condition, a))
<1>1. Later(<<>>)
  BY DEF Later, Sane, PostsList, NoPack
<1> QED BY <1>1 DEF If

\* A pack and the listing of it.
LEMMA GoodPack ==
  ASSUME NEW a, NEW p \in Ops, NEW l \in Ops, Good(a), Fits(p), Fits(l), p.op \in PackOps,
         l.op = "list", Ready(a, Len(a), p.in[1])
  PROVE  Good(a \o <<p, l>>) /\ ListsAny(a \o <<p, l>>, Len(a \o <<p, l>>))
<1> DEFINE m == Len(a)
           b == <<p, l>>
           w == a \o b
<1>1. /\ a \in Seq(Ops) /\ m \in Nat /\ \A k \in 1 .. m : Fits(a[k])
  BY DEF Good, Sane
<1>2. b \in Seq(Ops) /\ Len(b) = 2 /\ b[1] = p /\ b[2] = l
  OBVIOUS
<1>3. /\ w \in Seq(Ops) /\ Len(w) = m + 2 /\ w[m + 1] = p /\ w[m + 2] = l
      /\ Joins(w, a, m, b, 2)
  <2>1. Long(a, m) /\ Long(b, 2)
    BY <1>2 DEF Long
  <2> HIDE DEF m, b
  <2>2. w \in Seq(Ops) /\ Long(w, m + 2) /\ Joins(w, a, m, b, 2)
    BY <1>1, <1>2, <2>1, Joined
  <2> HIDE DEF w
  <2>3. w[m + 1] = b[1] /\ w[m + 2] = b[2] /\ Len(w) = m + 2
    BY <1>1, <2>2 DEF Long, Joins
  <2> QED BY <1>2, <2>2, <2>3
<1> HIDE DEF w, b
<1>11. \A k \in 1 .. m : w[k] = a[k]
  BY <1>3 DEF Joins
<1>4. Ready(a, m, p.in[1])
  OBVIOUS
<1> HIDE DEF m
<1>5. ASSUME NEW k \in 1 .. m + 2
      PROVE  \/ k \in 1 .. m /\ w[k] = a[k]
             \/ k = m + 1 /\ w[k] = p
             \/ k = m + 2 /\ w[k] = l
  <2>1. k \in 1 .. m \/ k = m + 1 \/ k = m + 2
    BY <1>1
  <2>2. CASE k \in 1 .. m
    BY <1>11, <2>2
  <2>3. CASE k = m + 1
    BY <1>3, <2>3
  <2>4. CASE k = m + 2
    BY <1>3, <2>4
  <2> QED BY <2>1, <2>2, <2>3, <2>4
<1>6. Sane(w)
  BY <1>1, <1>3, <1>5 DEF Sane
<1>7. ASSUME NEW k \in 1 .. m + 2, w[k].op = "post" PROVE ListsAny(w, k - 1)
  <2>1. k \in 1 .. m /\ w[k] = a[k]
    BY <1>5, <1>7 DEF PackOps
  <2>2. ListsAny(a, k - 1)
    BY <1>7, <2>1 DEF Good, PostsList, m
  <2> QED BY <1>1, <1>11, <2>1, <2>2 DEF ListsAny
<1>8. ASSUME NEW k \in 1 .. m + 2, w[k].op \in PackOps PROVE Ready(w, k - 1, w[k].in[1])
  <2>1. (k \in 1 .. m /\ w[k] = a[k]) \/ (k = m + 1 /\ w[k] = p)
    BY <1>5, <1>8 DEF PackOps
  <2>2. k \in 1 .. m => Ready(a, k - 1, a[k].in[1])
    BY <1>8, <2>1, <1>3 DEF Good, Packs, m
  <2> DEFINE dir == w[k].in[1]
  <2>3. Ready(a, k - 1, dir)
    BY <1>1, <1>4, <2>1, <2>2
  <2>4. k - 1 \in Nat /\ \A j \in 1 .. k - 1 : w[j] = a[j]
    BY <1>1, <1>11, <2>1
  <2> HIDE DEF dir
  <2>5. Ready(w, k - 1, dir)
    BY <2>3, <2>4, ReadyAs
  <2> QED BY <2>5 DEF dir
<1>9. ListsAny(w, Len(w))
  <2>1. m + 2 \in 1 .. Len(w)
    BY <1>1, <1>3
  <2> QED BY <1>3, <2>1 DEF ListsAny
<1>10. Good(w)
  BY <1>3, <1>6, <1>7, <1>8 DEF Good, PostsList, Packs
<1> QED BY <1>9, <1>10 DEF w, b

\* Nothing of Ova is posted before it is listed, and it packs no directory.
LEMMA OvaIsLater ==
  ASSUME NEW d \in Dirs \X FileNames
  PROVE  Later(Ova(d))
<1> DEFINE w == Ova(d)
<1>1. /\ w \in Seq(Ops) /\ Long(w, 6)
      /\ w[1] = Op("createOvf", d, NoPath)
      /\ w[2] = Op("writeOvf", NoPath, Working("ovf"))
      /\ w[3] = Op("createManifest", d, Working("mf"))
      /\ w[4] = Op("createOva", Working("ovf"), Output("ova"))
      /\ w[5] = Op("append", Working("mf"), Output("ova"))
      /\ w[6] = Op("append", d, Output("ova"))
  BY OvaIs
<1> HIDE DEF w
<1>2. Len(w) = 6
  BY <1>1 DEF Long
<1>3. ASSUME NEW k \in 1 .. 6
      PROVE  Fits(w[k]) /\ w[k].op \notin PackOps \cup {"post"}
  <2> USE DEF Fits, Op, NoPath, Working, Output, Converters, Describers, PackOps, Writers,
              PackDirs
  <2>1. k \in {1, 2, 3, 4, 5, 6}
    OBVIOUS
  <2>2. Fits(w[1]) /\ w[1].op \notin PackOps \cup {"post"}
    BY <1>1
  <2>3. Fits(w[2]) /\ w[2].op \notin PackOps \cup {"post"}
    BY <1>1
  <2>4. Fits(w[3]) /\ w[3].op \notin PackOps \cup {"post"}
    BY <1>1
  <2>5. Fits(w[4]) /\ w[4].op \notin PackOps \cup {"post"}
    BY <1>1
  <2>6. Fits(w[5]) /\ w[5].op \notin PackOps \cup {"post"}
    BY <1>1
  <2>7. Fits(w[6]) /\ w[6].op \notin PackOps \cup {"post"}
    BY <1>1
  <2> QED BY <2>1, <2>2, <2>3, <2>4, <2>5, <2>6, <2>7
<1>4. Later(w)
  BY <1>1, <1>2, <1>3 DEF Later, Sane, PostsList, NoPack
<1> QED BY <1>4 DEF w

-----------------------------------------------------------------------------
(* write() of each generator.                                              *)

LEMMA RawHdGood ==
  ASSUME format = "raw_hd", buildOVF10 \in BOOLEAN
  PROVE  Good(Write)
<1> DEFINE d == Output("hdd.gz")
           a == <<Op("disk", NoPath, Work("hdd")), Op("gzip", Work("hdd"), d)>>
           b == <<List(Output("ova"))>>
           e == <<List(d), Post>>
           i == If(buildOVF10, Ova(d) \o b)
<1>1. Later(a) /\ Later(b) /\ Later(e)
  BY DEF Later, Sane, PostsList, NoPack, ListsAny, List, Post, Op, NoPath, Work, Output, Ops,
         OpNames, Dirs, FileNames, Fits, Converters, Describers, PackOps, Writers, PackDirs,
         DiskNames, ArchiveNames
<1>2. Write = (a \o i) \o e
  BY DEF Write, RawHdImage
<1>3. Later(Ova(d))
  <2>1. d \in Dirs \X FileNames
    BY PathIs DEF FileNames
  <2> QED BY <2>1, OvaIsLater
<1> HIDE DEF a, b, d, e
<1>4. Later(i)
  BY <1>1, <1>3, LaterJoin, LaterIf
<1> HIDE DEF i
<1>5. Later((a \o i) \o e)
  BY <1>1, <1>4, LaterJoin
<1> QED BY <1>2, <1>5, LaterIsGood

LEMMA RawFsGood ==
  ASSUME format = "raw_fs", buildOVF10 \in BOOLEAN
  PROVE  Good(Write)
<1> DEFINE a == <<Op("disk", NoPath, Working("root.fs")),
                  Op("tar", <<"working", "*">>, Output("fs.tar.gz"))>>
           b == <<Op("gzip", Working("root.fs"), Output("root.gz")),
                  Op("rmtree", <<"working", "*">>, NoPath), WrongArguments>>
           i == If(buildOVF10, b)
           e == <<List(Output("fs.tar.gz")), Post>>
<1>1. Later(b) /\ Later(e)
  BY DEF Later, Sane, PostsList, NoPack, ListsAny, List, Post, WrongArguments, Op, NoPath,
         Working, Output, Ops, OpNames, Dirs, FileNames, Fits, Converters, Describers, PackOps,
         Writers, PackDirs, DiskNames, ArchiveNames
<1>2. Good(a)
  BY DEF Good, Packs, Ready, Sane, PostsList, Op, NoPath,
         Working, Output, Ops, OpNames, Dirs, FileNames, Fits, Converters, Describers, PackOps,
         Writers, PackDirs, DiskNames, ArchiveNames
<1>3. Write = (a \o i) \o e
  BY DEF Write, RawFsImage
<1> HIDE DEF a, b, e
<1>4. Later(i)
  BY <1>1, LaterIf
<1> HIDE DEF i
<1>5. Good((a \o i) \o e)
  BY <1>1, <1>2, <1>4, GoodLater
<1> QED BY <1>3, <1>5

LEMMA VMwareGood ==
  ASSUME format = "vmware", buildOVF10 \in BOOLEAN
  PROVE  Good(Write)
<1> DEFINE d == Output("vmdk.gz")
           a == <<Op("disk", NoPath, Work("hdd")), Op("sparse", Work("hdd"), Working("vmdk")),
                  Op("remove", Work("hdd"), NoPath),
                  Op("createVMX", Working("vmdk"), Working("vmx")),
                  Op("zip", <<"working", "*">>, Output("zip")), List(Output("zip"))>>
           x == <<Op("gzip", Working("vmdk"), d), Op("remove", Working("vmdk"), NoPath)>>
           b == <<List(Output("ova"))>>
           i == If(buildOVF10, (x \o Ova(d)) \o b)
           e == <<Post>>
<1>1. Later(x) /\ Later(b) /\ Sane(e) /\ NoPack(e)
  BY DEF Later, Sane, PostsList, NoPack, ListsAny, List, Post, Op, NoPath,
         Working, Output, Ops, OpNames, Dirs, FileNames, Fits, Converters, Describers, PackOps,
         Writers, PackDirs, DiskNames, ArchiveNames
<1>2. Good(a) /\ ListsAny(a, Len(a))
  <2>1. Len(a) = 6
    OBVIOUS
  <2>2. Sane(a)
    BY DEF Sane, List, Op, NoPath, Work,
         Working, Output, Ops, OpNames, Dirs, FileNames, Fits, Converters, Describers, PackOps,
         Writers, PackDirs, DiskNames, NamingNames, NameOf, ArchiveNames
  <2>3. Ready(a, 4, "working")
    BY DEF Ready, Op, NoPath, Work, Working, DiskNames, NamingNames, NameOf
  <2>4. a[5].op = "zip" /\ a[5].in[1] = "working" /\ a[6].op = "list"
        /\ a[1].op = "disk" /\ a[2].op = "sparse" /\ a[3].op = "remove" /\ a[4].op = "createVMX"
    BY DEF Op, List
  <2> HIDE DEF a
  <2>5. \A k \in 1 .. 6 : a[k].op # "post" /\ (k # 5 => a[k].op \notin PackOps)
    BY <2>4 DEF PackOps
  <2>6. Packs(a) /\ PostsList(a)
    BY <2>1, <2>3, <2>4, <2>5 DEF Packs, PostsList
  <2>7. 6 \in 1 .. 6
    OBVIOUS
  <2> QED BY <2>1, <2>2, <2>4, <2>6, <2>7 DEF Good, ListsAny
<1>3. Write = (a \o i) \o e
  BY DEF Write, VMwareImage, compressDiskImage
<1>4. Later(Ova(d))
  <2>1. d \in Dirs \X FileNames
    BY PathIs DEF FileNames
  <2> QED BY <2>1, OvaIsLater
<1> HIDE DEF a, b, d, e, x
<1>5. Later(i)
  BY <1>1, <1>4, LaterJoin, LaterIf
<1> HIDE DEF i
<1>6. Good(a \o i) /\ ListsAny(a \o i, Len(a \o i))
  BY <1>2, <1>5, GoodLater
<1>7. Good((a \o i) \o e)
  BY <1>1, <1>6, GoodJoin
<1> QED BY <1>3, <1>7

LEMMA EsxGood ==
  ASSUME format = "esx"
  PROVE  Good(Write)
<1> DEFINE d == Output("vmdk")
           a == <<Op("disk", NoPath, Work("hdd")), Op("stream", Work("hdd"), Working("vmdk")),
                  Op("remove", Work("hdd"), NoPath), Op("copy", Working("vmdk"), d)>>
           e == <<List(Output("ova")), Post>>
<1>1. Later(a) /\ Later(e)
  BY DEF Later, Sane, PostsList, NoPack, ListsAny, List, Post, Op, NoPath, Work, Working, Output,
         Ops, OpNames, Dirs, FileNames, Fits, Converters, Describers, PackOps, Writers, PackDirs,
         DiskNames, ArchiveNames
<1>2. Write = (a \o Ova(d)) \o e
  BY DEF Write, VMwareESXImage
<1>3. Later(Ova(d))
  <2>1. d \in Dirs \X FileNames
    BY PathIs DEF FileNames
  <2> QED BY <2>1, OvaIsLater
<1> HIDE DEF a, d, e
<1>4. Later((a \o Ova(d)) \o e)
  BY <1>1, <1>3, LaterJoin
<1> QED BY <1>2, <1>4, LaterIsGood

LEMMA XenGood ==
  ASSUME format = "xen_ova"
  PROVE  Good(Write)
<1>1. Write = XenOVA
  BY DEF Write
<1>2. Later(XenOVA)
  BY DEF XenOVA, Later, Sane, PostsList, NoPack, ListsAny, List, Post, Op, NoPath, Work, Output,
         Ops, OpNames, Dirs, FileNames, Fits, Converters, Describers, PackOps, Writers, PackDirs,
         DiskNames, NamingNames, NameOf, ArchiveNames
<1> QED BY <1>1, <1>2, LaterIsGood

LEMMA AmiGood ==
  ASSUME format = "ami"
  PROVE  Good(Write)
<1>1. Write = AMIImage
  BY DEF Write
<1>2. Later(AMIImage)
  BY DEF AMIImage, Later, Sane, PostsList, NoPack, ListsAny, List, Post, Op, NoPath, Work,
         Ops, OpNames, Dirs, FileNames, Fits, Converters, Describers, PackOps, Writers, PackDirs,
         DiskNames, ArchiveNames
<1> QED BY <1>1, <1>2, LaterIsGood

LEMMA TarballGood ==
  ASSUME format \in {"tarball", "ami_s3"}
  PROVE  Good(Write)
<1> DEFINE a == Tarball
<1>1. Write = a
  BY DEF Write
<1>2. /\ Len(a) = 4 /\ a[1] = Op("disk", NoPath, <<"tree", "files">>)
      /\ a[2] = Op("tar", <<"tree", "*">>, Output("tar.gz"))
      /\ a[3] = List(Output("tar.gz")) /\ a[4] = Post
  BY DEF Tarball
<1>3. Sane(a)
  BY DEF Sane, Tarball, List, Post, Op, NoPath, Output, Ops, OpNames, Dirs, FileNames, Fits,
         Converters, Describers, PackOps, Writers, PackDirs, DiskNames, ArchiveNames
<1> HIDE DEF a
<1>4. Ready(a, 1, "tree")
  BY <1>2 DEF Ready, Op, DiskNames
<1>5. Packs(a) /\ PostsList(a)
  BY <1>2, <1>4 DEF Packs, PackOps, PostsList, ListsAny, Op, List, Post
<1> QED BY <1>1, <1>3, <1>5 DEF Good

\* The paths that are written, and what of them can be packed.
Outs(w) == {w[k].out : k \in 1 .. Len(w)}
Leaving(w, dir) == \A k \in 1 .. Len(w) : w[k].op \in {"remove", "rmtree"} => w[k].in[1] # dir
Complete(S, dir) ==
  /\ \E p \in S : p[1] = dir /\ p[2] \in DiskNames
  /\ \A p \in S : p[1] = dir =>
       \/ p[2] \in DiskNames
       \/ p[2] \in NamingNames /\ <<dir, NameOf(p[2])>> \in S

LEMMA OutsJoin ==
  ASSUME NEW a \in Seq(Ops), NEW b \in Seq(Ops), NEW dir, Leaving(a, dir), Leaving(b, dir)
  PROVE  Outs(a \o b) = Outs(a) \cup Outs(b) /\ Leaving(a \o b, dir)
<1> DEFINE m == Len(a)
           n == Len(b)
           w == a \o b
<1>1. /\ m \in Nat /\ n \in Nat /\ Len(w) = m + n
      /\ \A k \in 1 .. m : w[k] = a[k]
      /\ \A k \in 1 .. n : w[m + k] = b[k]
  <2>1. Long(a, m) /\ Long(b, n) /\ m \in Nat /\ n \in Nat
    BY DEF Long
  <2> HIDE DEF m, n
  <2>2. w \in Seq(Ops) /\ Long(w, m + n) /\ Joins(w, a, m, b, n)
    BY <2>1, Joined
  <2> HIDE DEF w
  <2> QED BY <2>1, <2>2 DEF Long, Joins
<1> HIDE DEF w, m, n
<1>2. ASSUME NEW k \in 1 .. m + n
      PROVE  (k \in 1 .. m /\ w[k] = a[k]) \/ (k - m \in 1 .. n /\ w[k] = b[k - m])
  <2>1. CASE k <= m
    BY <1>1, <2>1
  <2>2. CASE ~(k <= m)
    <3>1. k - m \in 1 .. n /\ m + (k - m) = k
      BY <1>1, <2>2
    <3>2. w[m + (k - m)] = b[k - m]
      BY <1>1, <3>1
    <3> QED BY <3>1, <3>2
  <2> QED BY <2>1, <2>2
<1>3. ASSUME NEW k \in 1 .. m PROVE k \in 1 .. m + n /\ w[k] = a[k]
  BY <1>1
<1>4. ASSUME NEW k \in 1 .. n PROVE m + k \in 1 .. m + n /\ w[m + k] = b[k]
  BY <1>1
<1>5. Outs(w) = {w[k].out : k \in 1 .. m + n}
  BY <1>1 DEF Outs
<1>6. Outs(a) = {a[k].out : k \in 1 .. m} /\ Outs(b) = {b[k].out : k \in 1 .. n}
  BY DEF Outs, m, n
<1>7. Outs(w) = Outs(a) \cup Outs(b)
  <2>1. ASSUME NEW p \in Outs(w) PROVE p \in Outs(a) \cup Outs(b)
    <3>1. PICK k \in 1 .. m + n : p = w[k].out
      BY <1>5
    <3> QED BY <1>2, <1>6, <3>1
  <2>2. ASSUME NEW p \in Outs(a) PROVE p \in Outs(w)
    <3>1. PICK k \in 1 .. m : p = a[k].out
      BY <1>6
    <3> QED BY <1>3, <1>5, <3>1
  <2>3. ASSUME NEW p \in Outs(b) PROVE p \in Outs(w)
    <3>1. PICK k \in 1 .. n : p = b[k].out
      BY <1>6
    <3> QED BY <1>4, <1>5, <3>1
  <2> QED BY <2>1, <2>2, <2>3
<1>8. Leaving(w, dir)
  <2>1. ASSUME NEW k \in 1 .. m + n
        PROVE  w[k].op \in {"remove", "rmtree"} => w[k].in[1] # dir
    BY <1>2 DEF Leaving, m, n
  <2> QED BY <1>1, <2>1 DEF Leaving
<1> QED BY <1>7, <1>8 DEF w

LEMMA CompleteIsReady ==
  ASSUME NEW w, NEW dir, Complete(Outs(w), dir), Leaving(w, dir)
  PROVE  Ready(w, Len(w), dir)
<1>1. \E j \in 1 .. Len(w) : w[j].out[1] = dir /\ w[j].out[2] \in DiskNames
  BY DEF Complete, Outs
<1>2. ASSUME NEW j \in 1 .. Len(w), w[j].out[1] = dir
      PROVE  \/ w[j].out[2] \in DiskNames
             \/ /\ w[j].out[2] \in NamingNames
                /\ \E i \in 1 .. Len(w) : w[i].out = <<dir, NameOf(w[j].out[2])>>
  <2> DEFINE p == w[j].out
  <2>1. p \in Outs(w)
    BY DEF Outs
  <2>2. p[2] \in DiskNames \/ (p[2] \in NamingNames /\ <<dir, NameOf(p[2])>> \in Outs(w))
    BY <1>2, <2>1 DEF Complete
  <2> QED BY <2>2 DEF Outs
<1> QED BY <1>1, <1>2 DEF Ready, Leaving

\* What makeBootable and writeMachine make of the disk, of whatever type it is.
LEMMA VhdIs ==
  LET v == createVHD
  IN  /\ Later(v) /\ Leaving(v, "working") /\ Working("vhd") \in Outs(v)
      /\ Outs(v) \subseteq {Working("vhd"), NoPath, Working("base.vhd")}
      /\ ~Whole => Working("base.vhd") \in Outs(v)
<1> USE DEF Op, NoPath, Work, Working
<1>1. CASE vhdDiskType = "fixed"
  <2> DEFINE v == <<Op("vhd", Work("hdd"), Working("vhd")), Op("remove", Work("hdd"), NoPath)>>
  <2>1. createVHD = v
    BY <1>1 DEF createVHD
  <2>2. Later(v)
    BY <1>1 DEF Later, Sane, PostsList, NoPack, ListsAny, Ops, OpNames, Dirs, FileNames, Fits,
                Converters, Describers, PackOps, Writers, PackDirs, DiskNames, Whole
  <2>3. Leaving(v, "working")
    BY DEF Leaving
  <2>4. Outs(v) = {Working("vhd"), NoPath}
    BY DEF Outs
  <2> QED BY <1>1, <2>1, <2>2, <2>3, <2>4 DEF Whole
<1>2. CASE vhdDiskType = "dynamic"
  <2> DEFINE v == <<Op("vhd", Work("hdd"), Working("vhd"))>>
  <2>1. createVHD = v
    BY <1>2 DEF createVHD
  <2>2. Later(v)
    BY <1>2 DEF Later, Sane, PostsList, NoPack, ListsAny, Ops, OpNames, Dirs, FileNames, Fits,
                Converters, Describers, PackOps, Writers, PackDirs, DiskNames, Whole
  <2>3. Leaving(v, "working")
    BY DEF Leaving
  <2>4. Outs(v) = {Working("vhd")}
    BY DEF Outs
  <2> QED BY <1>2, <2>1, <2>2, <2>3, <2>4 DEF Whole
<1>3. CASE ~Whole
  <2> DEFINE v == <<Op("vhd", Work("hdd"), Working("base.vhd")),
                    Op("difference", Working("base.vhd"), Working("vhd"))>>
  <2>1. createVHD = v
    BY <1>3 DEF createVHD, Whole
  <2>2. Later(v)
    BY <1>3 DEF Later, Sane, PostsList, NoPack, ListsAny, Ops, OpNames, Dirs, FileNames, Fits,
                Converters, Describers, PackOps, Writers, PackDirs, DiskNames, NamingNames, NameOf
  <2>3. Leaving(v, "working")
    BY DEF Leaving
  <2>4. Outs(v) = {Working("vhd"), Working("base.vhd")}
    BY DEF Outs
  <2> QED BY <1>3, <2>1, <2>2, <2>3, <2>4
<1> QED BY <1>1, <1>2, <1>3 DEF Whole

LEMMA VpcGood ==
  ASSUME format \in {"vpc", "virtual_iron"}, buildOVF10 \in BOOLEAN
  PROVE  Good(Write)
<1> DEFINE a == <<Op("disk", NoPath, Work("hdd"))>>
           b == <<Op("createVMC", Working("vhd"), Working("vmc"))>>
           i == If(format = "vpc", b)
           p == Op("tar", <<"working", "*">>, Output("vpc.tar.gz"))
           l == List(Output("vpc.tar.gz"))
           c == <<p, l>>
           d == <<WrongArguments>>
           j == If(buildOVF10, d)
           e == <<Post>>
           v == createVHD
           s == a \o v
           t == s \o i
           u == t \o c
           x == u \o j
<1>1. /\ Later(a) /\ Later(b) /\ Later(d) /\ Sane(e) /\ NoPack(e)
      /\ p \in Ops /\ l \in Ops /\ Fits(p) /\ Fits(l) /\ p.op \in PackOps /\ l.op = "list"
      /\ p.in[1] = "working"
  <2> USE DEF Op, NoPath, Work, Working, Output, Ops, OpNames, Dirs, FileNames, Fits,
              Converters, Describers, PackOps, Writers, PackDirs
  <2>1. Later(a)
    BY DEF Later, Sane, PostsList, NoPack, DiskNames
  <2>2. Later(b)
    BY DEF Later, Sane, PostsList, NoPack, NamingNames, NameOf
  <2>3. Later(d)
    BY DEF Later, Sane, PostsList, NoPack, WrongArguments
  <2>4. Sane(e) /\ NoPack(e)
    BY DEF Sane, NoPack, Post
  <2>5. p \in Ops /\ Fits(p) /\ p.op \in PackOps /\ p.in[1] = "working"
    BY DEF ArchiveNames
  <2>6. l \in Ops /\ Fits(l) /\ l.op = "list"
    BY DEF List, ArchiveNames
  <2> QED BY <2>1, <2>2, <2>3, <2>4, <2>5, <2>6
<1>2. Outs(a) = {Work("hdd")} /\ Leaving(a, "working")
  BY DEF Outs, Leaving, Op
<1>3. Outs(b) = {Working("vmc")} /\ Leaving(b, "working")
  BY DEF Outs, Leaving, Op
<1>4. Outs(<<>>) = {} /\ Leaving(<<>>, "working")
  BY DEF Outs, Leaving
<1>5. Write = ((((a \o v) \o i) \o c) \o j) \o e
  BY DEF Write, VirtualPCImage
<1> HIDE DEF a, b, d, e, p, l
<1>6. /\ Later(v) /\ Leaving(v, "working") /\ Working("vhd") \in Outs(v)
      /\ Outs(v) \subseteq {Working("vhd"), NoPath, Working("base.vhd")}
      /\ ~Whole => Working("base.vhd") \in Outs(v)
  BY VhdIs
<1>7. /\ Later(i) /\ Later(j) /\ Leaving(i, "working")
      /\ Outs(i) \subseteq {Working("vmc")}
  <2>1. Later(i) /\ Later(j)
    BY <1>1, LaterIf
  <2> QED BY <2>1, <1>3, <1>4 DEF If
<1> HIDE DEF i, j, v
<1>8. Later(s) /\ Outs(s) = Outs(a) \cup Outs(v) /\ Leaving(s, "working")
  BY <1>1, <1>2, <1>6, LaterJoin, OutsJoin DEF Later, Sane
<1> HIDE DEF s
<1>9. Later(t) /\ Outs(t) = Outs(s) \cup Outs(i) /\ Leaving(t, "working")
  BY <1>7, <1>8, LaterJoin, OutsJoin DEF Later, Sane
<1>10. Complete(Outs(t), "working")
  BY <1>2, <1>6, <1>7, <1>8, <1>9
     DEF Complete, Work, Working, NoPath, DiskNames, NamingNames, NameOf
<1> HIDE DEF t
<1>11. Ready(t, Len(t), p.in[1]) /\ Good(t)
  BY <1>1, <1>9, <1>10, CompleteIsReady, LaterIsGood
<1>12. Good(u) /\ ListsAny(u, Len(u))
  BY <1>1, <1>11, GoodPack
<1> HIDE DEF u
<1>13. Good(x) /\ ListsAny(x, Len(x))
  BY <1>7, <1>12, GoodLater
<1>14. Write = x \o e
  BY <1>5 DEF x, u, t, s
<1> HIDE DEF x
<1> QED BY <1>1, <1>13, <1>14, GoodJoin

\* Every format.
LEMMA WriteGood ==
  ASSUME format \in Formats, buildOVF10 \in BOOLEAN
  PROVE  Good(Write)
BY RawHdGood, RawFsGood, VMwareGood, EsxGood, VpcGood, XenGood, AmiGood, TarballGood,
   PackagesAssumption DEF PackagesAssumption

-----------------------------------------------------------------------------
(* What is in the files.                                                   *)

ChunkPath == <<"tar">> \o Member("xvda") \o <<"chunk">>
XvaIs == {<<"tar", "ova.xml">> \o <<"names", "xvda">>, ChunkPath}

\* What the name of a file tells of what is in it.
Kind(n, C, packed) ==
  /\ n \in DiskNames => Data(C)
  /\ n \in NamingNames => C = {<<"names", NameOf(n)>>}
  /\ n \in ArchiveNames => packed \/ Sound(C)
  /\ n = "xva" => C = XvaIs
Kinds ==
  /\ \A p \in DOMAIN files : Kind(p[2], files[p], hidden)
  /\ Output("ova") \in DOMAIN files => files[Output("ova")] = OvaOf(inOva)

Deliverables ==
  {Output("ova")} \cup {p \in Dirs \X FileNames : p[2] \in DiskNames \cup ArchiveNames \cup {"xva"}}

\* After n operations: what is packed later stays, each file is written by one of them, and what
\* is listed is not forgotten.
Stay(n) ==
  \A k \in n + 1 .. Len(Write) : Write[k].op \in PackOps =>
    \A j \in 1 .. n : Write[j].out[1] = Write[k].in[1] => Write[j].out \in DOMAIN files
Come(n) == \A p \in DOMAIN files : \E j \in 1 .. n : Write[j].out = p
Listed(n) == ListsAny(Write, n) => outputFileList # <<>>
CarryInv ==
  /\ Kinds
  /\ outputFileList \in Seq(Deliverables)
  /\ verdict = "none" => Stay(Done) /\ Come(Done) /\ Listed(Done)
  /\ verdict = "posted" => outputFileList # <<>> /\ Range(outputFileList) \subseteq DOMAIN files

LEMMA NamesDiffer ==
  /\ \A n \in DiskNames : n \notin NamingNames \cup ArchiveNames \cup {"xva", "ova", "ovf", "mf"}
  /\ \A n \in NamingNames : n \notin ArchiveNames \cup {"xva", "ova", "ovf", "mf"}
  /\ \A n \in ArchiveNames : n \notin {"xva", "ova", "ovf", "mf"}
  /\ \A n \in {"xva", "ova", "ovf", "mf"} : n \notin DiskNames \cup NamingNames \cup ArchiveNames
BY DEF DiskNames, NamingNames, ArchiveNames

LEMMA RigidNames ==
  ASSUME vhdDiskType' = vhdDiskType
  PROVE  DiskNames' = DiskNames /\ NamingNames' = NamingNames /\ Deliverables' = Deliverables
BY DEF DiskNames, NamingNames, Deliverables, Whole

LEMMA HddIsData == Data(Hdd)
<1>1. <<"hdd">> \in Seq(Texts) /\ <<"hdd">> # <<>> /\ Len(<<"hdd">>) = 1 /\ <<"hdd">>[1] = "hdd"
  BY DEF Texts, FileNames
<1>2. Link(<<"hdd">>)
  BY <1>1 DEF Link
<1> QED BY <1>2 DEF Data, Hdd

\* What is in a directory that can be packed.
LEMMA SealedDir ==
  ASSUME Kinds, NEW n \in Nat, NEW dir, Write \in Seq(Ops), n <= Len(Write),
         Ready(Write, n, dir), Come(n),
         \A j \in 1 .. n : Write[j].out[1] = dir => Write[j].out \in DOMAIN files, NEW form
  PROVE  Sound(Archive(form, InDir(dir)))
<1> DEFINE M == {<<p[2], files[p]>> : p \in InDir(dir)}
           w == Write
<1>1. ASSUME NEW j \in 1 .. n PROVE w[j].out \in Dirs \X FileNames
  <2>1. j \in 1 .. Len(w)
    OBVIOUS
  <2>2. w[j] \in Ops
    BY <2>1
  <2> QED BY <2>2 DEF Ops
<1>2. ASSUME NEW p \in InDir(dir)
      PROVE  /\ p \in DOMAIN files /\ <<p[2], files[p]>> \in M
             /\ p = <<dir, p[2]>> /\ p[2] \in FileNames
             /\ p[2] \in DiskNames \/ (p[2] \in NamingNames /\ <<dir, NameOf(p[2])>> \in InDir(dir))
  <2>1. p \in DOMAIN files /\ p[1] = dir /\ <<p[2], files[p]>> \in M
    BY DEF InDir
  <2>2. PICK j \in 1 .. n : w[j].out = p
    BY <2>1 DEF Come
  <2>3. p[2] \in DiskNames
        \/ (p[2] \in NamingNames /\ \E i \in 1 .. n : w[i].out = <<dir, NameOf(p[2])>>)
    BY <2>1, <2>2 DEF Ready
  <2>4. ASSUME NEW i \in 1 .. n, w[i].out = <<dir, NameOf(p[2])>>
        PROVE  <<dir, NameOf(p[2])>> \in InDir(dir)
    BY <2>4 DEF InDir
  <2>5. p = <<dir, p[2]>> /\ p[2] \in FileNames
    BY <1>1, <2>1, <2>2
  <2> QED BY <2>1, <2>3, <2>4, <2>5
<1>3. ASSUME NEW p \in InDir(dir)
      PROVE  /\ p[2] \in DiskNames => Data(files[p])
             /\ p[2] \in NamingNames => files[p] = {<<"names", NameOf(p[2])>>}
             /\ Chains(files[p])
  <2>1. /\ p[2] \in DiskNames => Data(files[p])
        /\ p[2] \in NamingNames => files[p] = {<<"names", NameOf(p[2])>>}
    BY <1>2 DEF Kinds, Kind
  <2>2. Data(files[p]) => Chains(files[p])
    BY DEF Data, Link, Chains
  <2>3. ASSUME p[2] \in NamingNames PROVE Chains(files[p])
    <3>1. NameOf(p[2]) \in Texts /\ "names" \in Texts
      BY <2>3 DEF NameOf, Texts, FileNames, NamingNames
    <3>2. <<"names", NameOf(p[2])>> \in Seq(Texts)
      BY <3>1
    <3> QED BY <2>1, <2>3, <3>2 DEF Chains
  <2> QED BY <1>2, <2>1, <2>2, <2>3
<1>4. ASSUME NEW m \in M
      PROVE  \/ Data(m[2])
             \/ \E q \in M : m[2] = {<<"names", q[1]>>} /\ Chains(q[2])
  <2>1. PICK p \in InDir(dir) : m = <<p[2], files[p]>>
    OBVIOUS
  <2>2. CASE p[2] \in DiskNames
    BY <1>3, <2>1, <2>2
  <2>3. CASE p[2] \in NamingNames /\ <<dir, NameOf(p[2])>> \in InDir(dir)
    <3> DEFINE r == <<dir, NameOf(p[2])>>
               q == <<r[2], files[r]>>
    <3>1. q \in M /\ Chains(q[2]) /\ q[1] = NameOf(p[2])
      BY <1>3, <2>3
    <3>2. m[2] = {<<"names", NameOf(p[2])>>}
      BY <1>3, <2>1, <2>3
    <3> HIDE DEF q
    <3> QED BY <3>1, <3>2
  <2> QED BY <1>2, <2>2, <2>3
<1>5. \E m \in M : Data(m[2])
  <2>1. PICK j \in 1 .. n : w[j].out[1] = dir /\ w[j].out[2] \in DiskNames
    BY DEF Ready
  <2> DEFINE p == w[j].out
  <2>2. p \in InDir(dir) /\ p[2] \in DiskNames
    BY <2>1 DEF InDir
  <2> HIDE DEF p
  <2>3. Data(files[p]) /\ <<p[2], files[p]>> \in M
    BY <1>3, <2>2
  <2> HIDE DEF M
  <2> QED BY <2>3
<1>6. Sealed(M)
  BY <1>4, <1>5 DEF Sealed
<1>7. Archive(form, InDir(dir)) = PackOf(form, M)
  <2>1. ASSUME NEW c \in Archive(form, InDir(dir)) PROVE c \in PackOf(form, M)
    <3>1. PICK p \in InDir(dir) : c \in {<<form, p[2]>> \o d : d \in files[p]}
      BY DEF Archive
    <3>2. PICK d \in files[p] : c = <<form, p[2]>> \o d
      BY <3>1
    <3> DEFINE m == <<p[2], files[p]>>
    <3>3. m \in M /\ m[1] = p[2] /\ m[2] = files[p]
      BY <1>2
    <3> HIDE DEF m, M
    <3>4. <<form, m[1]>> \o d \in PackOf(form, M)
      BY <3>2, <3>3, MemberOf
    <3> QED BY <3>2, <3>3, <3>4
  <2>2. ASSUME NEW c \in PackOf(form, M) PROVE c \in Archive(form, InDir(dir))
    <3>1. PICK m \in M : c \in {<<form, m[1]>> \o d : d \in m[2]}
      BY DEF PackOf
    <3>2. PICK p \in InDir(dir) : m = <<p[2], files[p]>>
      OBVIOUS
    <3>3. c \in {<<form, p[2]>> \o d : d \in files[p]}
      BY <3>1, <3>2
    <3> QED BY <3>3 DEF Archive
  <2> QED BY <2>1, <2>2
<1> QED BY <1>6, <1>7, SealedIsSound

\* An operation leaves what the names tell.
LEMMA KindsStep ==
  ASSUME Kinds, NEW o \in Ops, Fits(o), Leaves(o), Puts(o), vhdDiskType' = vhdDiskType,
         o.op \in PackOps => Sound(Archive(o.op, InDir(o.in[1])))
  PROVE  Kinds'
<1>1. DiskNames' = DiskNames /\ NamingNames' = NamingNames
  BY RigidNames
<1>2. ASSUME NEW p \in DOMAIN files, NEW C, C = files[p]
      PROVE  Kind(p[2], C, hidden) /\ Kind(p[2], C, hidden')
  <2>1. Kind(p[2], C, hidden)
    BY <1>2 DEF Kinds
  <2>2. hidden => hidden'
    BY DEF Puts
  <2> QED BY <2>1, <2>2 DEF Kind
<1>3. ASSUME o.op \in Writers, NEW C, C = files'[o.out]
      PROVE  Kind(o.out[2], C, hidden')
  <2>1. CASE o.op = "disk"
    <3>1. Data(C) /\ o.out[2] \in DiskNames
      BY <1>3, <2>1, HddIsData DEF Puts, Fits
    <3> QED BY <3>1, NamesDiffer DEF Kind
  <2>2. CASE o.op \in Converters
    <3>1. o.in \in DOMAIN files /\ C \in {Wrap(o.op, files[o.in]), files[o.in]}
      BY <1>3, <2>2 DEF Puts
    <3>2. o.out[2] \in DiskNames /\ o.in[2] \in DiskNames /\ o.op \in OpNames
      BY <2>2 DEF Fits, Ops
    <3>3. Data(files[o.in])
      BY <1>2, <3>1, <3>2 DEF Kind
    <3>4. Data(C)
      BY <3>1, <3>2, <3>3, WrapOfData
    <3> QED BY <3>2, <3>4, NamesDiffer DEF Kind
  <2>3. CASE o.op \in Describers
    <3>1. C = {<<"names", NameOf(o.out[2])>>} /\ o.out[2] \in NamingNames
      BY <1>3, <2>3 DEF Puts, Fits
    <3> QED BY <3>1, NamesDiffer DEF Kind
  <2>4. CASE o.op \in PackOps
    <3>1. o.out[2] \in ArchiveNames /\ (hidden' \/ Sound(C))
      BY <1>3, <2>4 DEF Puts, Fits, PackOps
    <3> QED BY <3>1, NamesDiffer DEF Kind
  <2>5. CASE o.op = "xva"
    <3>1. /\ o.in = <<"base", "ova.xml">> /\ o.out = Output("xva")
          /\ o.in \in DOMAIN files /\ C = XvaOf(o)
      BY <1>3, <2>5 DEF Puts, Fits
    <3>2. o.in[2] = "ova.xml" /\ "ova.xml" \in NamingNames /\ NameOf("ova.xml") = "xvda"
      BY <3>1 DEF NamingNames, NameOf
    <3>3. files[o.in] = {<<"names", "xvda">>}
      BY <1>2, <3>1, <3>2 DEF Kind
    <3>4. Archive("tar", {o.in}) = {<<"tar", "ova.xml">> \o <<"names", "xvda">>}
      BY <3>2, <3>3 DEF Archive
    <3>5. C = XvaIs
      BY <3>1, <3>4 DEF XvaOf, XvaIs, ChunkPath
    <3>6. o.out[2] = "xva"
      BY <3>1 DEF Output
    <3> QED BY <3>5, <3>6, NamesDiffer DEF Kind
  <2>6. CASE o.op \in {"writeOvf", "createManifest", "createOva", "append"}
    <3>1. o.out[2] \in {"ova", "ovf", "mf"}
      BY <2>6 DEF Fits, Output, Working
    <3>2. o.out[2] # "xva" /\ o.out[2] \in {"xva", "ova", "ovf", "mf"}
      BY <3>1
    <3> QED BY <3>2, NamesDiffer DEF Kind
  <2> QED BY <1>3, <2>1, <2>2, <2>3, <2>4, <2>5, <2>6 DEF Writers, PackOps
<1>4. ASSUME NEW p \in DOMAIN files'
      PROVE  Kind(p[2], files'[p], hidden')
  BY <1>2, <1>3 DEF Leaves
<1>5. ASSUME Output("ova") \in DOMAIN files'
      PROVE  files'[Output("ova")] = OvaOf(inOva')
  <2> DEFINE p == Output("ova")
  <2>1. CASE o.op \in {"createOva", "append"}
    BY <2>1 DEF Fits, Puts
  <2>2. CASE o.op \notin {"createOva", "append"}
    <3>1. inOva' = inOva
      BY <2>2 DEF Puts
    <3>2. o.op \in Writers => o.out[2] # "ova"
      <4>1. CASE o.op \in Converters \cup {"disk"}
        BY <4>1, NamesDiffer DEF Fits
      <4>2. CASE o.op \in Describers
        BY <4>2, NamesDiffer DEF Fits
      <4>3. CASE o.op \in PackOps
        BY <4>3, NamesDiffer DEF Fits
      <4>4. CASE o.op \in {"xva", "writeOvf", "createManifest"}
        BY <4>4 DEF Fits, Output, Working
      <4> QED BY <2>2, <4>1, <4>2, <4>3, <4>4 DEF Writers, PackOps
    <3>3. p \in DOMAIN files /\ files'[p] = files[p]
      BY <1>5, <3>2 DEF Leaves, Output
    <3> QED BY <3>1, <3>3 DEF Kinds, OvaOf
  <2> QED BY <2>1, <2>2
<1>6. \A p \in DOMAIN files' : Kind(p[2], files[p], hidden)'
  <2> SUFFICES ASSUME NEW p \in DOMAIN files' PROVE Kind(p[2], files[p], hidden)'
    OBVIOUS
  <2>1. Kind(p[2], files'[p], hidden')
    BY <1>4
  <2> QED BY <1>1, <2>1 DEF Kind
<1>7. OvaOf(inOva)' = OvaOf(inOva')
  BY DEF OvaOf
<1> QED BY <1>5, <1>6, <1>7 DEF Kinds

\* Every operation keeps it.
LEMMA CarryStep ==
  ASSUME PackInv, CarryInv, NextPackages
  PROVE  CarryInv'
<1>1. PICK o : Makes(o)
  BY MakesIs
<1>2. /\ UNCHANGED <<format, buildOVF10, vhdDiskType>> /\ verdict = "none" /\ Follows
      /\ verdict' \in {"none", "posted", "failed"} /\ o = Head(plan) /\ Write' = Write
  BY <1>1, OnlyChoices DEF Makes, PackInv, choices
<1>3. /\ Len(Write) \in Nat /\ Done \in Nat /\ Done + 1 <= Len(Write) /\ o = Write[Done + 1]
      /\ verdict' = "none" => /\ Done' \in {Done, Done + 1}
                              /\ o.op # "chunk" => Done' = Done + 1
  BY <1>1, <1>2, NextIs
<1>4. Good(Write)
  BY WriteGood DEF PackInv
<1> DEFINE w == Write
<1>5. PICK n \in Nat : n = Done
  BY <1>3
<1>6. n + 1 \in 1 .. Len(w) /\ o = w[n + 1] /\ o \in Ops /\ Fits(o)
  <2>1. n + 1 \in 1 .. Len(w) /\ o = w[n + 1]
    BY <1>3, <1>5
  <2> QED BY <1>4, <2>1 DEF Good, Sane
<1>7. Kinds /\ outputFileList \in Seq(Deliverables) /\ Stay(n) /\ Come(n) /\ Listed(n)
  BY <1>2, <1>5 DEF CarryInv
<1>8. DiskNames' = DiskNames /\ NamingNames' = NamingNames /\ Deliverables' = Deliverables
  BY <1>2, RigidNames
<1>9. ASSUME UNCHANGED <<files, hidden, inOva>> PROVE Kinds'
  <2>1. ASSUME NEW p \in DOMAIN files PROVE Kind(p[2], files[p], hidden)'
    <3>1. Kind(p[2], files[p], hidden)
      BY <1>7 DEF Kinds
    <3> QED BY <1>8, <1>9, <3>1 DEF Kind
  <2>2. OvaOf(inOva)' = OvaOf(inOva)
    BY <1>9 DEF OvaOf
  <2> QED BY <1>7, <1>9, <2>1, <2>2 DEF Kinds
<1>10. CASE verdict' = "failed"
  <2>1. UNCHANGED made
    BY <1>1, <1>10 DEF Makes, Effect
  <2>2. UNCHANGED <<files, hidden, inOva, outputFileList>>
    BY <2>1 DEF made
  <2> QED BY <1>7, <1>8, <1>9, <1>10, <2>2 DEF CarryInv
<1>11. CASE verdict' # "failed"
  <2>1. Leaves(o) /\ Puts(o) /\ Lists(o)
    BY <1>2, <1>11, LeavesIs
  <2>2. ASSUME o.op \in PackOps PROVE Sound(Archive(o.op, InDir(o.in[1])))
    <3> DEFINE dir == o.in[1]
    <3>1. Ready(w, n, dir)
      BY <1>4, <1>6, <2>2 DEF Good, Packs
    <3>2. n <= Len(w) /\ w \in Seq(Ops) /\ n + 1 \in n + 1 .. Len(w)
      BY <1>3, <1>4, <1>5 DEF Good, Sane
    <3>3. \A j \in 1 .. n : w[j].out[1] = dir => w[j].out \in DOMAIN files
      BY <1>6, <1>7, <2>2, <3>2 DEF Stay
    <3> HIDE DEF dir
    <3>4. \A form : Sound(Archive(form, InDir(dir)))
      BY <1>7, <3>1, <3>2, <3>3, SealedDir
    <3> QED BY <3>4 DEF dir
  <2>3. Kinds'
    BY <1>2, <1>6, <1>7, <2>1, <2>2, KindsStep
  <2>4. outputFileList' \in Seq(Deliverables')
    <3>1. CASE o.op = "list"
      <4>1. o.in \in Dirs \X FileNames
        BY <1>6 DEF Ops
      <4>2. o.in \in Deliverables
        BY <1>6, <3>1, <4>1 DEF Fits, Deliverables
      <4> QED BY <1>7, <1>8, <2>1, <3>1, <4>2 DEF Lists
    <3>2. CASE o.op # "list"
      BY <1>7, <1>8, <2>1, <3>2 DEF Lists
    <3> QED BY <3>1, <3>2
  <2>5. CASE verdict' = "posted"
    <3>1. o.op = "post" /\ UNCHANGED made
      BY <1>1, <1>2, <2>5 DEF Makes, Effect
    <3>2. ListsAny(w, n)
      BY <1>4, <1>6, <3>1 DEF Good, PostsList
    <3>3. outputFileList # <<>> /\ Range(outputFileList) \subseteq DOMAIN files
      BY <1>7, <2>1, <3>1, <3>2 DEF Listed, Lists
    <3>4. UNCHANGED <<files, outputFileList>>
      BY <3>1 DEF made
    <3> QED BY <2>3, <2>4, <2>5, <3>3, <3>4 DEF CarryInv
  <2>6. CASE verdict' = "none"
    <3>1. Come(n + 1)'
      <4> SUFFICES ASSUME NEW p \in DOMAIN files' PROVE \E j \in 1 .. n + 1 : w[j].out = p
        BY <1>2 DEF Come
      <4>1. CASE p = o.out
        <5>1. n + 1 \in 1 .. n + 1
          BY <1>5
        <5> QED BY <1>6, <4>1, <5>1
      <4>2. CASE p \in DOMAIN files
        <5>1. PICK j \in 1 .. n : w[j].out = p
          BY <1>7, <4>2 DEF Come
        <5>2. j \in 1 .. n + 1
          BY <1>5
        <5> QED BY <5>1, <5>2
      <4> QED BY <2>1, <4>1, <4>2 DEF Leaves
    <3>2. Stay(n + 1)'
      <4> SUFFICES ASSUME NEW k \in n + 2 .. Len(w), w[k].op \in PackOps,
                          NEW j \in 1 .. n + 1, w[j].out[1] = w[k].in[1]
                   PROVE  w[j].out \in DOMAIN files'
        BY <1>2 DEF Stay
      <4> DEFINE dir == w[k].in[1]
      <4>1. k \in 1 .. Len(w) /\ k \in n + 1 .. Len(w) /\ n + 1 \in 1 .. k - 1
        BY <1>3, <1>5
      <4>2. Ready(w, k - 1, dir) /\ Fits(w[k]) /\ dir \in PackDirs
        BY <1>4, <4>1 DEF Good, Packs, Sane, Fits
      <4>3. CASE j = n + 1
        BY <1>6, <2>1, <4>2, <4>3 DEF Fits, Leaves
      <4>4. CASE j \in 1 .. n
        <5>1. w[j].out \in DOMAIN files /\ w[j].out[1] = dir
          BY <1>7, <4>1, <4>4 DEF Stay
        <5>2. o.op \in {"remove", "rmtree"} => o.in[1] # dir
          BY <1>6, <4>1, <4>2 DEF Ready
        <5> HIDE DEF dir
        <5> QED BY <2>1, <5>1, <5>2 DEF Leaves, Writers, Describers, Converters
      <4>5. j = n + 1 \/ j \in 1 .. n
        BY <1>5
      <4> QED BY <4>3, <4>4, <4>5
    <3>3. Listed(n + 1)'
      <4>1. CASE o.op = "list"
        <5>1. outputFileList' # <<>>
          BY <1>7, <2>1, <4>1 DEF Lists
        <5> QED BY <5>1 DEF Listed
      <4>2. CASE o.op # "list"
        <5>1. outputFileList' = outputFileList
          BY <2>1, <4>2 DEF Lists
        <5>2. ListsAny(w, n + 1) => ListsAny(w, n)
          <6> SUFFICES ASSUME NEW j \in 1 .. n + 1, w[j].op = "list" PROVE ListsAny(w, n)
            BY DEF ListsAny
          <6>1. j # n + 1
            BY <1>6, <4>2
          <6>2. j \in 1 .. n
            BY <6>1
          <6> QED BY <6>2 DEF ListsAny
        <5> QED BY <1>2, <1>7, <5>1, <5>2 DEF Listed, ListsAny
      <4> QED BY <4>1, <4>2
    <3>4. CASE Done' = n + 1
      BY <2>3, <2>4, <2>6, <3>1, <3>2, <3>3, <3>4 DEF CarryInv
    <3>5. CASE Done' = n
      <4>1. o.op = "chunk" \/ n = n + 1
        BY <1>3, <1>5, <2>6, <3>5
      <4>2. o.op = "chunk"
        BY <4>1
      <4>3. UNCHANGED <<files, outputFileList>>
        BY <1>1, <1>2, <2>6, <4>2 DEF Makes
      <4>4. Stay(n)' /\ Come(n)' /\ Listed(n)'
        BY <1>2, <1>7, <4>3 DEF Stay, Come, Listed, ListsAny
      <4> QED BY <2>3, <2>4, <2>6, <3>5, <4>4 DEF CarryInv
    <3> QED BY <1>3, <1>5, <2>6, <3>4, <3>5
  <2> QED BY <1>2, <1>11, <2>5, <2>6
<1> QED BY <1>10, <1>11

LEMMA CarryInit ==
  ASSUME InitPackages
  PROVE  CarryInv
<1>1. /\ files = [p \in {} |-> {}] /\ outputFileList = <<>> /\ verdict = "none" /\ plan = Write
  BY DEF InitPackages
<1>2. Write \in Seq(Ops)
  BY PackInit DEF PackInv, Follows, InitPackages
<1>3. Done = 0
  BY <1>1, <1>2 DEF Done
<1>4. DOMAIN files = {}
  BY <1>1
<1>5. Kinds
  BY <1>4 DEF Kinds
<1>6. Stay(0) /\ Come(0) /\ Listed(0)
  BY <1>4 DEF Stay, Come, Listed, ListsAny
<1> QED BY <1>1, <1>3, <1>5, <1>6 DEF CarryInv

-----------------------------------------------------------------------------
(* What is posted.                                                         *)

\* An XVA: its chunks, which ova.xml names as a directory that is not asked for here.
LEMMA XvaIsWhole ==
  /\ \E c \in XvaIs : Last(c) = "chunk"
  /\ NamedIsThere(XvaIs)
<1> DEFINE S == {"tar", "tmp", "uuid", "ova_base", "xvda", "chunk", "ova.xml", "names"}
           a == <<"tar">>
           b == Member("xvda")
           c == <<"chunk">>
           d == a \o b
           y == <<"tar", "ova.xml">> \o <<"names", "xvda">>
<1>1. /\ a \in Seq(S) /\ Long(a, 1) /\ c \in Seq(S) /\ Long(c, 1) /\ c[1] = "chunk"
      /\ b \in Seq(S) /\ Long(b, 4) /\ b[4] = "xvda"
  BY DEF Member, Long
<1>2. y = <<"tar", "ova.xml", "names", "xvda">>
  <2>1. Foursome("tar", "ova.xml", "names", "xvda")
    BY FourOf
  <2> QED BY <2>1, Zenon DEF Foursome
<1>3. Len(y) = 4 /\ Last(y) = "xvda"
  BY <1>2 DEF Last
<1> HIDE DEF a, b, c, y, S
<1>4. d \in Seq(S) /\ Long(d, 1 + 4) /\ Joins(d, a, 1, b, 4)
  BY <1>1, Joined
<1>5. ChunkPath = d \o c
  BY DEF ChunkPath, a, b, c
<1> HIDE DEF d
<1>6. ChunkPath \in Seq(S) /\ Long(ChunkPath, 5 + 1) /\ Joins(ChunkPath, d, 5, c, 1)
  <2>1. Long(d, 5)
    BY <1>4
  <2> QED BY <1>1, <1>4, <1>5, <2>1, Joined
<1>7. Len(ChunkPath) = 6 /\ ChunkPath[6] = "chunk" /\ ChunkPath[5] = "xvda"
  <2>1. /\ d[1 + 4] = "xvda" /\ ChunkPath[5 + 1] = "chunk" /\ ChunkPath[5] = d[5]
        /\ Len(ChunkPath) = 5 + 1
    BY <1>1, <1>4, <1>6 DEF Joins, Long
  <2> QED BY <2>1
<1>8. Last(ChunkPath) = "chunk"
  BY <1>7 DEF Last
<1>9. \E e \in XvaIs : Last(e) = "chunk"
  BY <1>8 DEF XvaIs
<1>10. ~Naming(ChunkPath)
  BY <1>7 DEF Naming
<1>11. ASSUME NEW e \in XvaIs
       PROVE  Len(e) \in Nat /\ ~(Naming(e) /\ Last(e) # "xvda")
  <2>1. e = y \/ e = ChunkPath
    BY DEF XvaIs, y
  <2> QED BY <1>3, <1>7, <1>10, <2>1
<1>12. NamedIsThere(XvaIs)
  BY <1>11, NamesAreThere
<1> QED BY <1>9, <1>12

\* Two wraps are a name in an archive.
Couple(a, b) == <<a>> \o <<b>> = <<a, b>>

LEMMA CoupleOf ==
  ASSUME NEW a, NEW b
  PROVE  Couple(a, b)
<1> DEFINE S == {a, b}
           u == <<a>>
           v == <<b>>
           w == u \o v
<1>1. u \in Seq(S) /\ Len(u) = 1 /\ u[1] = a /\ v \in Seq(S) /\ Len(v) = 1 /\ v[1] = b
  OBVIOUS
<1> HIDE DEF u, v, S
<1>2. Long(u, 1) /\ Long(v, 1)
  BY <1>1 DEF Long
<1>3. w \in Seq(S) /\ Long(w, 1 + 1) /\ Joins(w, u, 1, v, 1)
  BY <1>1, <1>2, Joined
<1> HIDE DEF w
<1>4. w \in Seq(S) /\ Len(w) = 2 /\ w[1] = a /\ w[2] = b
  <2>1. w[1 + 1] = v[1] /\ w[1] = u[1] /\ Len(w) = 1 + 1
    BY <1>3 DEF Long, Joins
  <2> QED BY <1>1, <1>3, <2>1
<1>5. w = <<a, b>>
  BY <1>4, PairIs
<1> QED BY <1>5 DEF w, u, v, Couple

Twice(form, n, C) == Wrap(form, Wrap(n, C)) = {<<form, n>> \o c : c \in C}

LEMMA WrapTwice ==
  ASSUME NEW form, NEW n, NEW C, C \subseteq Seq(Texts)
  PROVE  Twice(form, n, C)
<1>1. ASSUME NEW c \in C PROVE <<form>> \o (<<n>> \o c) = <<form, n>> \o c
  <2> DEFINE S == Texts \cup {form, n}
             u == <<form>>
             v == <<n>>
  <2>1. u \in Seq(S) /\ v \in Seq(S) /\ c \in Seq(S)
    OBVIOUS
  <2>2. u \o v = <<form, n>>
    BY CoupleOf DEF Couple
  <2> HIDE DEF u, v, S
  <2>3. Associated(u, v, c)
    BY <2>1, Associate
  <2>4. u \o (v \o c) = <<form, n>> \o c
    BY <2>2, <2>3, Zenon DEF Associated
  <2> QED BY <2>4 DEF u, v
<1>2. Wrap(form, Wrap(n, C)) = {<<form>> \o (<<n>> \o c) : c \in C}
  BY DEF Wrap
<1> QED BY <1>1, <1>2 DEF Twice

\* An OVA of the three formats.
LEMMA OvaIsSound ==
  ASSUME PackInv, Kinds, verdict = "posted", Output("ova") \in DOMAIN files,
         Output("ova") \in Range(outputFileList)
  PROVE  Sound(files[Output("ova")])
<1>1. Packed
  <2> DEFINE Others == {u.in : u \in Ops} \ {Output("ova")}
  <2>1. Output("ova") \notin Others
    OBVIOUS
  <2> HIDE DEF Others
  <2>2. outputFileList \in Seq(Others) => Range(outputFileList) \subseteq Others
    BY DEF Range
  <2>3. ~Packed => outputFileList \in Seq(Others)
    BY DEF PackInv, Others
  <2> QED BY <2>1, <2>2, <2>3
<1>2. Assembled(Start + 6) /\ Start \in Nat /\ DiskName \in FileNames
  BY <1>1, PackingIs DEF PackInv
<1>3. /\ inOva[1] = <<"ovf", OvfText>> /\ inOva[2] = <<"mf", Digests>>
      /\ inOva[3] = <<DiskName, Image>> /\ Long(inOva, 3) /\ inOva \in Seq(Members)
  BY <1>2 DEF Assembled
<1>4. Range(inOva) = Members
  <2>1. Len(inOva) = 3
    BY <1>3 DEF Long
  <2>2. inOva[1] \in Range(inOva) /\ inOva[2] \in Range(inOva) /\ inOva[3] \in Range(inOva)
    <3>1. 1 \in DOMAIN inOva /\ 2 \in DOMAIN inOva /\ 3 \in DOMAIN inOva
      BY <1>3, <2>1
    <3> QED BY <3>1 DEF Range
  <2>3. Members \subseteq Range(inOva)
    BY <1>3, <2>2 DEF Members
  <2>4. Range(inOva) \subseteq Members
    BY <1>3 DEF Range
  <2> QED BY <2>3, <2>4
<1>5. Data(Image)
  <2>1. "gzip" \in OpNames /\ "sparse" \in OpNames /\ "stream" \in OpNames
    BY DEF OpNames
  <2> QED BY <2>1, HddIsData, WrapOfData DEF Image
<1>6. Chains(Image)
  BY <1>5 DEF Data, Link, Chains
<1>7. OvfText \subseteq Seq(Texts)
  <2>1. "names" \in Texts /\ DiskName \in Texts
    BY <1>2 DEF Texts
  <2> QED BY <2>1 DEF OvfText
<1>8. Digested(Digests)
  <2>1. ASSUME NEW c \in Seq(Texts)
        PROVE  /\ <<"digest">> \o c \in Seq(Texts)
               /\ \E i \in 1 .. Len(<<"digest">> \o c) : (<<"digest">> \o c)[i] = "digest"
    <3>1. "digest" \in Texts
      BY DEF Texts
    <3> DEFINE d == <<"digest">> \o c
    <3>2. d \in Seq(Texts) /\ Len(d) = Len(c) + 1 /\ d[1] = "digest"
      BY <3>1
    <3> HIDE DEF d
    <3>3. 1 \in 1 .. Len(d)
      BY <3>2
    <3>4. d \in Seq(Texts) /\ \E i \in 1 .. Len(d) : d[i] = "digest"
      BY <3>2, <3>3
    <3> QED BY <3>4 DEF d
  <2>2. Image \subseteq Seq(Texts)
    BY <1>6 DEF Chains
  <2>3. ASSUME NEW C, C \subseteq Seq(Texts) PROVE Digested(Wrap("digest", C))
    BY <2>1, <2>3 DEF Digested, Wrap
  <2>4. Digested(Wrap("digest", OvfText)) /\ Digested(Wrap("digest", Image))
    BY <1>7, <2>2, <2>3
  <2> QED BY <2>4 DEF Digests, Digested
<1>9. Sealed(Members)
  <2> DEFINE ovfIs == <<"ovf", OvfText>>
             mfIs == <<"mf", Digests>>
             diskIs == <<DiskName, Image>>
  <2>1. /\ ovfIs[2] = {<<"names", diskIs[1]>>} /\ Chains(diskIs[2])
        /\ Digested(mfIs[2]) /\ Data(diskIs[2])
    BY <1>5, <1>6, <1>8 DEF OvfText
  <2>2. Members = {ovfIs, mfIs, diskIs}
    BY DEF Members
  <2> HIDE DEF ovfIs, mfIs, diskIs
  <2> QED BY <2>1, <2>2 DEF Sealed
<1>10. OvaOf(inOva) = PackOf("ova", Members)
  <2>1. ASSUME NEW m \in Members
        PROVE  Twice("ova", m[1], m[2])
    <3>1. m[2] \subseteq Seq(Texts)
      BY <1>6, <1>7, <1>8 DEF Members, Chains, Digested
    <3> QED BY <3>1, WrapTwice
  <2>2. OvaOf(inOva) = UNION {Wrap("ova", Wrap(m[1], m[2])) : m \in Members}
    BY <1>4 DEF OvaOf
  <2>4. PackOf("ova", Members) = UNION {{<<"ova", m[1]>> \o d : d \in m[2]} : m \in Members}
    BY DEF PackOf
  <2> DEFINE W(m) == Wrap("ova", Wrap(m[1], m[2]))
             D(m) == {<<"ova", m[1]>> \o d : d \in m[2]}
  <2>5. \A m \in Members : W(m) = D(m)
    BY <2>1 DEF Twice
  <2>6. OvaOf(inOva) = UNION {W(m) : m \in Members}
    BY <2>2
  <2>7. PackOf("ova", Members) = UNION {D(m) : m \in Members}
    BY <2>4
  <2> HIDE DEF W, D
  <2> QED BY <2>5, <2>6, <2>7
<1> QED BY <1>9, <1>10, SealedIsSound DEF Kinds

\* write(): whatever fails, the name of a file tells what is in it: a disk leads to the data, a
\* VMX, VMC, difference or ova.xml names the disk it goes with, an archive is sound unless a tar
\* failed in a pipe, an OVA is what was appended to it; what is packed later is still there, and
\* only what was listed and is there is posted.
THEOREM CarryInvHolds == SpecJob => []CarryInv
<1>1. InitJob => CarryInv
  BY CarryInit DEF InitJob
<1>2. PackInv /\ CarryInv /\ [BuildRoot \/ PackIt \/ (EndedJob /\ UNCHANGED jobVars)]_jobVars
        => CarryInv'
  <2> SUFFICES ASSUME PackInv, CarryInv,
                      [BuildRoot \/ PackIt \/ (EndedJob /\ UNCHANGED jobVars)]_jobVars
               PROVE  CarryInv'
    OBVIOUS
  <2>1. CASE NextPackages
    BY <2>1, CarryStep
  <2>2. CASE UNCHANGED pkgVars
    <3>1. UNCHANGED <<vhdDiskType, plan, files, inOva, outputFileList, hidden, verdict>>
      BY <2>2 DEF pkgVars, choices, made
    <3>2. Write' = Write
      BY <2>2, OnlyChoices DEF pkgVars
    <3>3. Done' = Done
      BY <3>1, <3>2 DEF Done
    <3>4. DiskNames' = DiskNames /\ NamingNames' = NamingNames /\ Deliverables' = Deliverables
      BY <3>1, RigidNames
    <3>5. Kinds'
      <4>1. ASSUME NEW p \in DOMAIN files PROVE Kind(p[2], files[p], hidden)'
        <5>1. Kind(p[2], files[p], hidden)
          BY DEF CarryInv, Kinds
        <5> QED BY <3>1, <3>4, <5>1 DEF Kind
      <4>2. OvaOf(inOva)' = OvaOf(inOva)
        BY <3>1 DEF OvaOf
      <4> QED BY <3>1, <4>1, <4>2 DEF CarryInv, Kinds
    <3>6. Stay(Done) /\ Come(Done) /\ Listed(Done) => (Stay(Done) /\ Come(Done) /\ Listed(Done))'
      BY <3>1, <3>2, <3>3 DEF Stay, Come, Listed, ListsAny
    <3> QED BY <3>1, <3>4, <3>5, <3>6 DEF CarryInv
  <2> QED BY <2>1, <2>2 DEF BuildRoot, PackIt, jobVars
<1> QED BY <1>1, <1>2, PackInvHolds, PTL DEF SpecJob

\* write() of every generator: for every format, type of VHD, size and limit of a chunk, and
\* whichever operation fails, what is posted leads to the disk and has in it what it refers to,
\* unless a tar failed in a pipe, and the chunks of an XVA are the disk.
THEOREM PackageIsWholeHolds == SpecJob => []PackageIsWhole
<1>1. PackInv /\ CarryInv /\ ChunksAreTheDisk => PackageIsWhole
  <2> SUFFICES ASSUME PackInv, CarryInv, ChunksAreTheDisk, verdict = "posted"
               PROVE  /\ outputFileList # <<>>
                      /\ ~hidden =>
                           \A p \in Range(outputFileList) : Delivers(p) /\ NamedIsThere(files[p])
    BY DEF PackageIsWhole
  <2>1. /\ outputFileList # <<>> /\ Range(outputFileList) \subseteq DOMAIN files
        /\ Kinds /\ outputFileList \in Seq(Deliverables)
    BY DEF CarryInv
  <2>2. ASSUME ~hidden, NEW p \in Range(outputFileList)
        PROVE  Delivers(p) /\ NamedIsThere(files[p])
    <3>1. p \in Deliverables /\ p \in DOMAIN files
      BY <2>1 DEF Range
    <3>2. Kind(p[2], files[p], hidden)
      BY <2>1, <3>1 DEF Kinds
    <3>3. CASE p[2] = "xva"
      <4>1. files[p] = XvaIs
        BY <3>2, <3>3 DEF Kind
      <4> QED BY <3>3, <4>1, XvaIsWhole DEF Delivers
    <3>4. CASE p[2] # "xva"
      <4>1. Sound(files[p])
        <5>1. CASE p = Output("ova")
          BY <2>1, <3>1, <5>1, OvaIsSound
        <5>2. CASE p[2] \in DiskNames
          BY <3>2, <5>2, DataIsSound DEF Kind
        <5>3. CASE p[2] \in ArchiveNames
          BY <2>2, <3>2, <5>3 DEF Kind
        <5> QED BY <3>1, <3>4, <5>1, <5>2, <5>3 DEF Deliverables
      <4> QED BY <3>4, <4>1 DEF Sound, Delivers
    <3> QED BY <3>3, <3>4
  <2> QED BY <2>1, <2>2
<1> QED BY <1>1, PackInvHolds, CarryInvHolds, ChunksAreTheDiskHolds, PTL
=============================================================================
