------------------------- MODULE DockerLayersProofs -------------------------
(***************************************************************************)
(* In every tree of images, of any size, the layers are sound, overlays    *)
(* are taken down from the top and what is below an overlay does not       *)
(* change; and in a shallow tree each image is installed on the layers of  *)
(* its ancestors, and on no others.                                        *)
(*                                                                         *)
(* The argument: images are numbered depth first, so the stack of images   *)
(* to visit makes the builds follow the numbers (Queued), and an image is  *)
(* built in a directory nothing was written to before (Layered).  What a   *)
(* place holds is what has been extracted on it; a last child is extracted *)
(* on its parent when the first of its children is built, and from then on *)
(* no image is left that does not need it (Extracted).                     *)
(***************************************************************************)
EXTENDS DockerLayers, FiniteSetTheorems, SequenceTheorems, TLAPS

Up == Lineage(tree)
LastChildren == {i \in 2 .. N : \A j \in Children(tree[i]) : j <= i}

\* An image on which one that was begun is built.
HasChild(i) ==
  \E j \in 2 .. N :
    tree[j] = i /\ (j < img \/ (j = img /\ pc \notin {"base", "parent"}))

-----------------------------------------------------------------------------
(* The invariant of every tree.                                            *)

Skipped == IF rootBuilt THEN 0 ELSE 1

Descending(s) == \A k, l \in DOMAIN s : k < l => s[k] > s[l]

\* What is still to visit after v images, and what is to be built.
Waiting(v) == IF v = 0 THEN {1} ELSE {j \in v + 1 .. N : tree[j] <= v}

Visiting(v) ==
  /\ Descending(visit)
  /\ Range(visit) = Waiting(v)
  /\ lastChild = {i \in LastChildren : tree[i] <= v}
  /\ Len(toBuild) = IF v = 0 THEN 0 ELSE v - Skipped
  /\ \A k \in DOMAIN toBuild : toBuild[k] = Skipped + k

Queued ==
  /\ lastChild = LastChildren
  /\ Len(toBuild) <= N - Skipped
  /\ \A k \in DOMAIN toBuild : toBuild[k] = (N - Len(toBuild)) + k
  /\ img = IF Len(toBuild) = N - Skipped THEN 0 ELSE N - Len(toBuild)

\* An image whose layer is there.
Made(i) ==
  IF i = 1 /\ ~rootBuilt THEN img > 2 \/ (img = 2 /\ pc # "parent")
  ELSE i < img \/ (i = img /\ pc \in {"next", "done"})

\* A place that belongs to the images before i.
Before(place, i) == place = Dir(1) \/ \E m \in 2 .. i - 1 : place = Ovl(m)

\* An image in whose directory nothing has been written.
Empty(i) ==
  /\ i > img \/ (i = img /\ pc \notin {"next", "done", "umount", "layer"})
  /\ i # 1 \/ rootBuilt

Layered ==
  /\ \A i \in Images : tar[i] = IF Made(i) THEN {i} ELSE {}
  /\ \A i \in Images : Empty(i) => files[Dir(i)] = {}
  /\ pc \in {"umount", "layer"} => files[Dir(img)] = {img}

Unpacked ==
  /\ unpackDir[1] = IF Made(1) THEN Dir(1) ELSE NoPlace
  /\ \A i \in 2 .. N : unpackDir[i] # NoPlace =>
       i \in LastChildren /\ HasChild(i) /\ Before(unpackDir[i], i)

Stacking ==
  /\ stack # <<>> => stack[1] = img
  /\ Descending(stack)
  /\ \A x \in Range(stack) : x \in Up[img] \ {1} /\ Before(prevMount, x)
  /\ stack # <<>> => Len(mounts) <= 1
  /\ \A x \in Range(stack) : \A m \in DOMAIN mounts : mounts[m].image < x
  /\ mounts # <<>> => prevMount = Ovl(Last(mounts).image)
  /\ stack = <<>> => mounts # <<>> /\ Last(mounts).image = img

Mounted ==
  /\ \A k \in DOMAIN mounts : mounts[k].image \in 2 .. img
  /\ mounts # <<>> => Before(mounts[1].lower, mounts[1].image)
  /\ Len(mounts) = 2 => /\ mounts[2] = [image |-> img, lower |-> Ovl(mounts[1].image)]
                        /\ mounts[1].image < img
  /\ pc \in {"next", "base", "parent", "layer", "done"} => mounts = <<>>
  /\ pc = "install" => stack = <<>> /\ mounts # <<>> /\ Last(mounts).image = img

Turn ==
  /\ pc \in {"base"} => img = 1
  /\ pc \in {"parent", "stack", "install", "umount", "layer"} => img >= 2
  /\ pc \notin {"next", "done"} => img # 0
  /\ pc = "done" => toBuild = <<>>

Building == Queued /\ Layered /\ Unpacked /\ Mounted /\ Turn /\ (pc = "stack" => Stacking)

LayersInv ==
  /\ TypeOK /\ LayerIsOwn
  /\ pc = "visit" => \E v \in 0 .. N : Visiting(v)
  /\ pc = "visit" =>
       /\ img = 0 /\ mounts = <<>> /\ files = [p \in Places |-> {}]
       /\ tar = [i \in Images |-> {}] /\ unpackDir = [i \in Images |-> NoPlace]
  /\ pc \notin {"visit", "failed"} => Building

-----------------------------------------------------------------------------
(* The invariant of shallow trees.                                         *)

Spine == {i \in Images : Up[i] \ {1} \subseteq LastChildren}
Branches == {i \in Images \ Spine : tree[i] \in Spine}

Extracted ==
  /\ files[Dir(1)] = {i \in Images : unpackDir[i] = Dir(1)}
  /\ \A b \in Branches : Made(b) => files[Dir(b)] = {b} \cup {i \in Images : unpackDir[i] = Ovl(b)}
  /\ \A i \in Spine \ {1} :
       unpackDir[i] = IF HasChild(i) /\ ~(pc = "stack" /\ i \in Range(stack))
                      THEN Dir(1) ELSE NoPlace
  /\ \A i \in Images \ Spine :
       unpackDir[i] # NoPlace => tree[i] \in Branches /\ unpackDir[i] = Ovl(tree[i])

Assembling ==
  /\ mounts = <<>> => prevMount = Dir(1)
  /\ mounts # <<>> => mounts[1].lower = Dir(1)
  /\ mounts # <<>> /\ mounts[1].image # img => mounts[1].image \in Branches \cap Up[img]
  /\ \A i \in Up[img] \ Spine : i \in Range(stack) \/ (\E k \in DOMAIN mounts : mounts[k].image = i)
                                 \/ unpackDir[i] = Ovl(tree[i])

OnParents == \A i \in Images \ {1} : tar[i] # {} => builtOn[i] = Up[i] \ {i}

ShallowInv ==
  Shallow =>
    /\ OnParents
    /\ pc \notin {"visit", "failed"} => Extracted
    /\ pc \in {"stack", "install"} => Assembling
    /\ pc \in {"umount", "layer"} => builtOn[img] = Up[img] \ {img}

-----------------------------------------------------------------------------
(* Proofs: induction, and the paths in a tree.                             *)

LEMMA LeastOf ==
  ASSUME NEW S \in SUBSET Nat, S # {}
  PROVE  \E i \in S : \A j \in S : i <= j
<1>1. PICK i \in S : \A j \in S : <<j, i>> \notin OpToRel(<, Nat)
  BY NatLessThanWellFounded, WFMin, Zenon
<1>2. ASSUME NEW j \in S PROVE i <= j
  <2>1. i \in Nat /\ j \in Nat
    BY <1>1
  <2>2. ~(j < i)
    BY <1>1, <2>1 DEF OpToRel
  <2> QED BY <2>1, <2>2
<1> QED BY <1>2

LEMMA SetInduction ==
  ASSUME NEW M, 0 \in M, \A n \in Nat : n \in M => n + 1 \in M
  PROVE  \A n \in Nat : n \in M
<1> SUFFICES ASSUME Nat \ M # {} PROVE FALSE
  OBVIOUS
<1>1. PICK i \in Nat \ M : \A j \in Nat \ M : i <= j
  BY LeastOf
<1>2. i # 0 /\ i - 1 \in Nat /\ i - 1 \in M
  BY <1>1
<1>3. (i - 1) + 1 = i
  BY <1>1
<1> QED BY <1>1, <1>2, <1>3

LEMMA NIs == N \in Nat /\ N >= 2
BY LayersAssumption DEF LayersAssumption

\* Parents are numbered before their children.
Parents == {p \in [2 .. N -> 1 .. N - 1] : \A i \in 2 .. N : p[i] < i}

LEMMA ParentIs ==
  ASSUME NEW p \in Parents, NEW i \in Images, i # 1
  PROVE  p[i] \in Images /\ p[i] \in Nat /\ p[i] <= i - 1
BY NIs DEF Parents, Images

\* A function from images is defined by what it is for an image and its parent.
LEMMA PathIs ==
  ASSUME NEW p \in Parents, NEW found
  PROVE  \A i \in Images :
           Path(p, found)[i] = IF i \in found \cup {1} THEN <<i>>
                               ELSE <<i>> \o Path(p, found)[p[i]]
<1> DEFINE Step(f, i) == IF i \in found \cup {1} THEN <<i>> ELSE <<i>> \o f[p[i]]
           All(f) == [i \in Images |-> IF i \in found \cup {1} THEN <<i>> ELSE <<i>> \o f[p[i]]]
           path == CHOOSE f : f = All(f)
           First(f, m) == \A n \in 1 .. m : f[n] = Step(f, n)
           M == {m \in Nat : m <= N => \E f : First(f, m)}
<1>1. Path(p, found) = path
  BY DEF Path
<1>2. ASSUME NEW f PROVE \A i \in Images : All(f)[i] = Step(f, i)
  OBVIOUS
<1>3. 0 \in M
  <2>1. First(<<>>, 0)
    OBVIOUS
  <2> QED BY <2>1
<1>4. ASSUME NEW m \in Nat, m \in M PROVE m + 1 \in M
  <2> SUFFICES ASSUME m + 1 <= N PROVE \E f : First(f, m + 1)
    OBVIOUS
  <2>1. PICK f : First(f, m)
    BY <1>4, NIs
  <2> DEFINE h == [n \in 1 .. m + 1 |-> IF n = m + 1 THEN Step(f, m + 1) ELSE f[n]]
  <2>2. \A n \in 1 .. m : h[n] = f[n]
    OBVIOUS
  <2>3. h[m + 1] = Step(f, m + 1)
    <3> HIDE DEF Step
    <3> QED OBVIOUS
  <2> HIDE DEF h
  <2>4. ASSUME NEW n \in 1 .. m + 1 PROVE h[n] = Step(h, n)
    <3>1. n \in Images
      BY NIs DEF Images
    <3>2. n # 1 => p[n] \in 1 .. m
      BY <3>1, ParentIs DEF Images
    <3>3. n # 1 => h[p[n]] = f[p[n]]
      BY <2>2, <3>2
    <3>4. Step(h, n) = Step(f, n)
      BY <3>3
    <3>5. n \in 1 .. m \/ n = m + 1
      OBVIOUS
    <3> HIDE DEF Step
    <3> QED BY <2>1, <2>2, <2>3, <3>4, <3>5
  <2>5. First(h, m + 1)
    BY <2>4
  <2> QED BY <2>5
<1>5. N \in M
  <2> HIDE DEF M
  <2> QED BY <1>3, <1>4, NIs, SetInduction
<1>6. PICK f : First(f, N)
  BY <1>5, NIs
<1>7. \A i \in Images : All(f)[i] = f[i]
  BY <1>2, <1>6 DEF Images
<1>8. All(All(f)) = All(f)
  <2>1. ASSUME NEW i \in Images PROVE Step(All(f), i) = Step(f, i)
    <3>1. i # 1 => All(f)[p[i]] = f[p[i]]
      BY <1>7, ParentIs
    <3> HIDE DEF All
    <3> QED BY <3>1
  <2> QED BY <2>1
<1>9. path = All(path)
  <2> HIDE DEF All
  <2> QED BY <1>8
<1> HIDE DEF path
<1> QED BY <1>1, <1>2, <1>9

LEMMA Single ==
  ASSUME NEW S, NEW e \in S
  PROVE  <<e>> \in Seq(S) /\ Len(<<e>>) = 1 /\ <<e>>[1] = e /\ Range(<<e>>) = {e}
<1>1. <<e>> \in Seq(S) /\ Len(<<e>>) = 1 /\ <<e>>[1] = e
  OBVIOUS
<1>2. Range(<<e>>) = {<<e>>[i] : i \in 1 .. Len(<<e>>)}
  BY <1>1, RangeEquality
<1>3. 1 .. Len(<<e>>) = {1}
  BY <1>1
<1> QED BY <1>1, <1>2, <1>3

LEMMA Prepend ==
  ASSUME NEW S, NEW e \in S, NEW s \in Seq(S)
  PROVE  /\ <<e>> \o s \in Seq(S) /\ Len(<<e>> \o s) = Len(s) + 1
         /\ (<<e>> \o s)[1] = e
         /\ \A k \in 1 .. Len(s) : (<<e>> \o s)[k + 1] = s[k]
         /\ \A k \in 2 .. Len(s) + 1 : (<<e>> \o s)[k] = s[k - 1]
         /\ Range(<<e>> \o s) = {e} \cup Range(s)
<1>1. <<e>> \in Seq(S) /\ Len(<<e>>) = 1 /\ <<e>>[1] = e /\ Len(s) \in Nat
  OBVIOUS
<1>2. /\ <<e>> \o s \in Seq(S) /\ Len(<<e>> \o s) = 1 + Len(s)
      /\ \A k \in 1 .. 1 + Len(s) : (<<e>> \o s)[k] = IF k <= 1 THEN <<e>>[k] ELSE s[k - 1]
  BY <1>1, ConcatProperties
<1>3. Range(<<e>> \o s) = Range(<<e>>) \cup Range(s)
  <2> DEFINE t == <<e>>
  <2>1. t \in Seq(S) /\ s \in Seq(S)
    BY <1>1
  <2> HIDE DEF t
  <2>2. Range(t \o s) = Range(t) \cup Range(s)
    BY <2>1, RangeConcatenation
  <2> QED BY <2>2 DEF t
<1>4. Range(<<e>>) = {e}
  BY Single
<1>5. \A k \in 1 .. Len(s) : k + 1 \in 1 .. 1 + Len(s) /\ ~(k + 1 <= 1) /\ (k + 1) - 1 = k
  BY <1>1
<1>6. \A k \in 2 .. Len(s) + 1 : k \in 1 .. 1 + Len(s) /\ ~(k <= 1)
  BY <1>1
<1>7. 1 \in 1 .. 1 + Len(s)
  BY <1>1
<1> QED BY <1>1, <1>2, <1>3, <1>4, <1>5, <1>6, <1>7

-----------------------------------------------------------------------------
(* Lineages.                                                               *)

LEMMA LineageIs ==
  ASSUME NEW p \in Parents
  PROVE  /\ \A i \in Images : /\ Path(p, {})[i] \in Seq(Images)
                              /\ Lineage(p)[i] \subseteq 1 .. i
                              /\ i \in Lineage(p)[i] /\ 1 \in Lineage(p)[i]
         /\ Lineage(p)[1] = {1}
         /\ \A i \in Images \ {1} : Lineage(p)[i] = {i} \cup Lineage(p)[p[i]]
<1> DEFINE path == Path(p, {})
           up == Lineage(p)
           Good(i) == /\ path[i] \in Seq(Images)
                      /\ Range(path[i]) \subseteq 1 .. i /\ i \in Range(path[i])
                      /\ 1 \in Range(path[i])
           G == {n \in Nat : \A i \in Images : i <= n => Good(i)}
<1>1. \A i \in Images : path[i] = IF i = 1 THEN <<i>> ELSE <<i>> \o path[p[i]]
  <2> SUFFICES ASSUME NEW i \in Images
               PROVE  path[i] = IF i = 1 THEN <<i>> ELSE <<i>> \o path[p[i]]
    OBVIOUS
  <2>1. Path(p, {})[i] = IF i \in {} \cup {1} THEN <<i>> ELSE <<i>> \o Path(p, {})[p[i]]
    BY PathIs
  <2> QED BY <2>1
<1> HIDE DEF path
<1>2. 1 \in Images
  BY NIs DEF Images
<1>4. Range(path[1]) = {1} /\ path[1] \in Seq(Images)
  BY <1>1, <1>2, Single
<1>5. 0 \in G
  BY DEF Images
<1>6. ASSUME NEW n \in Nat, n \in G PROVE n + 1 \in G
  <2> SUFFICES ASSUME NEW i \in Images, i <= n + 1 PROVE Good(i)
    OBVIOUS
  <2>1. CASE i = 1
    <3>1. Range(path[i]) = {1}
      BY <1>4, <2>1
    <3> QED BY <1>4, <2>1, <3>1
  <2>2. CASE i # 1
    <3>1. /\ p[i] \in Images /\ p[i] <= n /\ i \in Nat
          /\ \A x \in 1 .. p[i] : x \in 1 .. i
          /\ i \in 1 .. i
      BY <2>2, ParentIs DEF Images
    <3>2. Good(p[i])
      BY <1>6, <3>1
    <3>3. path[i] = <<i>> \o path[p[i]]
      BY <1>1, <2>2
    <3>4. path[i] \in Seq(Images) /\ Range(path[i]) = {i} \cup Range(path[p[i]])
      BY <3>2, <3>3, Prepend
    <3> QED BY <3>1, <3>2, <3>4
  <2> QED BY <2>1, <2>2
<1>7. \A i \in Images : Good(i)
  <2>1. \A n \in Nat : n \in G
    <3> HIDE DEF G
    <3> QED BY <1>5, <1>6, SetInduction
  <2>2. \A i \in Images : i \in Nat
    BY NIs DEF Images
  <2> HIDE DEF Good
  <2> QED BY <2>1, <2>2
<1>8. \A i \in Images : up[i] = Range(path[i])
  BY DEF Lineage, path
<1>9. ASSUME NEW i \in Images, i # 1 PROVE up[i] = {i} \cup up[p[i]]
  <2>1. p[i] \in Images
    BY <1>9, ParentIs
  <2>2. path[i] = <<i>> \o path[p[i]] /\ path[p[i]] \in Seq(Images)
    BY <1>1, <1>7, <1>9, <2>1
  <2>3. Range(path[i]) = {i} \cup Range(path[p[i]])
    BY <2>2, <1>9, Prepend
  <2> HIDE DEF up
  <2> QED BY <1>8, <1>9, <2>1, <2>3
<1> HIDE DEF up
<1> QED BY <1>2, <1>4, <1>7, <1>8, <1>9 DEF path, up

\* A lineage is a chain: a's is the part of b's up to a.
LEMMA LineageChain ==
  ASSUME NEW p \in Parents
  PROVE  \A b \in Images : \A a \in Lineage(p)[b] :
           /\ a \in Images
           /\ Lineage(p)[a] \subseteq Lineage(p)[b]
           /\ \A x \in Lineage(p)[b] : x <= a => x \in Lineage(p)[a]
<1> DEFINE up == Lineage(p)
           Good(b) == \A a \in up[b] :
             up[a] \subseteq up[b] /\ \A x \in up[b] : x <= a => x \in up[a]
           G == {n \in Nat : \A b \in Images : b <= n => Good(b)}
<1>1. /\ \A i \in Images : up[i] \subseteq 1 .. i /\ i \in up[i]
      /\ up[1] = {1}
      /\ \A i \in Images \ {1} : up[i] = {i} \cup up[p[i]]
  BY LineageIs
<1> HIDE DEF up
<1>2. 0 \in G
  BY DEF Images
<1>3. ASSUME NEW n \in Nat, n \in G PROVE n + 1 \in G
  <2> SUFFICES ASSUME NEW b \in Images, b <= n + 1 PROVE Good(b)
    OBVIOUS
  <2>1. CASE b = 1
    BY <1>1, <2>1
  <2>2. CASE b # 1
    <3>1. p[b] \in Images /\ p[b] <= n /\ p[b] < b /\ p[b] \in Nat /\ b \in Nat
      BY <2>2, ParentIs DEF Images
    <3>2. Good(p[b])
      BY <1>3, <3>1
    <3>3. up[b] = {b} \cup up[p[b]] /\ up[p[b]] \subseteq 1 .. p[b]
      BY <1>1, <2>2, <3>1
    <3>4. ASSUME NEW a \in up[b]
          PROVE  up[a] \subseteq up[b] /\ \A x \in up[b] : x <= a => x \in up[a]
      <4>1. CASE a = b
        BY <4>1
      <4>2. CASE a # b
        <5>1. a \in up[p[b]] /\ a <= p[b] /\ a \in Nat
          BY <3>3, <4>2, <3>4
        <5>2. b \notin {x \in up[b] : x <= a}
          BY <3>1, <5>1
        <5> QED BY <3>2, <3>3, <5>1, <5>2
      <4> QED BY <4>1, <4>2
    <3> QED BY <3>4
  <2> QED BY <2>1, <2>2
<1>4. \A b \in Images : Good(b)
  <2>1. \A n \in Nat : n \in G
    <3> HIDE DEF G
    <3> QED BY <1>2, <1>3, SetInduction
  <2>2. \A b \in Images : b \in Nat
    BY NIs DEF Images
  <2> HIDE DEF Good
  <2> QED BY <2>1, <2>2
<1>5. \A b \in Images : up[b] \subseteq Images
  BY <1>1, NIs DEF Images
<1> QED BY <1>4, <1>5 DEF up

\* The trees are numbered depth first.
LEMMA TreeIs ==
  ASSUME NEW p \in Trees
  PROVE  p \in Parents /\ p[2] = 1 /\ \A i \in 3 .. N : p[i] \in Lineage(p)[i - 1]
<1>1. p \in Parents /\ \A i \in 3 .. N : p[i] \in Lineage(p)[i - 1]
  BY DEF Trees, Parents
<1>2. p[2] = 1
  BY <1>1, NIs, ParentIs DEF Images
<1> QED BY <1>1, <1>2

\* The descendants of an image have numbers without a gap, its own first.
LEMMA Contiguous ==
  ASSUME NEW p \in Trees, NEW a \in Images, NEW b \in Images, a \in Lineage(p)[b]
  PROVE  \A x \in a .. b : a \in Lineage(p)[x]
<1> DEFINE up == Lineage(p)
           G == {n \in Nat : \A x \in a .. b : x >= b - n => a \in up[x]}
<1>1. /\ p \in Parents
      /\ \A i \in Images : up[i] \subseteq 1 .. i
      /\ \A i \in Images \ {1} : up[i] = {i} \cup up[p[i]]
      /\ \A i \in 3 .. N : p[i] \in up[i - 1]
      /\ p[2] = 1 /\ up[1] = {1}
  BY TreeIs, LineageIs
<1> HIDE DEF up
<1>2. a \in Nat /\ b \in Nat /\ 1 <= a /\ b <= N /\ a \in up[b]
  BY NIs DEF Images, up
<1>3. 0 \in G
  BY <1>2
<1>4. ASSUME NEW n \in Nat, n \in G PROVE n + 1 \in G
  <2> SUFFICES ASSUME NEW x \in a .. b, x >= b - (n + 1), ~(x >= b - n) PROVE a \in up[x]
    BY <1>4
  <2>1. x + 1 \in a .. b /\ x + 1 >= b - n /\ x + 1 \in Images \ {1} /\ x + 1 # a /\ x \in Images
    BY <1>2, NIs DEF Images
  <2>2. a \in up[x + 1]
    BY <1>4, <2>1
  <2>3. a \in up[p[x + 1]]
    BY <1>1, <2>1, <2>2
  <2>4. CASE x = 1
    <3>1. x + 1 = 2
      BY <2>4
    <3> QED BY <1>1, <2>3, <2>4, <3>1
  <2>5. CASE x # 1
    <3>1. x + 1 \in 3 .. N /\ (x + 1) - 1 = x
      BY <2>1, <2>5, NIs DEF Images
    <3>2. p[x + 1] \in up[x]
      BY <1>1, <3>1
    <3>3. up[p[x + 1]] \subseteq up[x]
      BY <1>1, <2>1, <3>2, LineageChain DEF up
    <3> QED BY <2>3, <3>3
  <2> QED BY <2>4, <2>5
<1>5. ASSUME NEW x \in a .. b PROVE a \in up[x]
  <2>1. b - x \in Nat /\ x >= b - (b - x)
    BY <1>2
  <2>2. b - x \in G
    <3> HIDE DEF G
    <3> QED BY <1>3, <1>4, <2>1, SetInduction
  <2> QED BY <2>1, <2>2
<1> QED BY <1>5 DEF up

\* What the loop of writeChild collects: the ancestors up to the first that is found.
LEMMA PathFacts ==
  ASSUME NEW p \in Parents, NEW found, NEW i \in Images
  PROVE  LET h == Path(p, found)[i]
         IN  /\ h \in Seq(Images) /\ Len(h) >= 1 /\ h[1] = i
             /\ \A k \in 1 .. Len(h) - 1 : h[k] \notin found \cup {1}
             /\ h[Len(h)] \in found \cup {1}
             /\ \A k, l \in 1 .. Len(h) : k < l => h[k] > h[l]
             /\ \A k \in 1 .. Len(h) : h[k] \in Lineage(p)[i]
             /\ \A x \in Lineage(p)[i] : x >= h[Len(h)] => \E k \in 1 .. Len(h) : h[k] = x
<1> DEFINE path == Path(p, found)
           up == Lineage(p)
           Good(j) == LET h == path[j]
                      IN  /\ h \in Seq(Images) /\ Len(h) >= 1 /\ h[1] = j
                          /\ \A k \in 1 .. Len(h) - 1 : h[k] \notin found \cup {1}
                          /\ h[Len(h)] \in found \cup {1}
                          /\ \A k, l \in 1 .. Len(h) : k < l => h[k] > h[l]
                          /\ \A k \in 1 .. Len(h) : h[k] \in up[j]
                          /\ \A x \in up[j] : x >= h[Len(h)] => \E k \in 1 .. Len(h) : h[k] = x
           G == {n \in Nat : \A j \in Images : j <= n => Good(j)}
<1>1. ASSUME NEW j \in Images
      PROVE  path[j] = IF j \in found \cup {1} THEN <<j>> ELSE <<j>> \o path[p[j]]
  BY PathIs
<1>2. /\ \A j \in Images : up[j] \subseteq 1 .. j /\ j \in up[j] /\ j \in Nat
      /\ \A j \in Images \ {1} : up[j] = {j} \cup up[p[j]]
  BY LineageIs, NIs DEF Images
<1> HIDE DEF path, up
<1>3. 0 \in G
  BY DEF Images
<1>4. ASSUME NEW n \in Nat, n \in G PROVE n + 1 \in G
  <2> SUFFICES ASSUME NEW j \in Images, j <= n + 1 PROVE Good(j)
    <3> HIDE DEF Good
    <3> QED OBVIOUS
  <2>1. CASE j \in found \cup {1}
    <3>1. path[j] = <<j>> /\ path[j] \in Seq(Images) /\ Len(path[j]) = 1 /\ path[j][1] = j
      <4>1. path[j] = <<j>>
        BY <1>1, <2>1
      <4>2. <<j>> \in Seq(Images) /\ Len(<<j>>) = 1 /\ <<j>>[1] = j
        BY Single
      <4> QED BY <4>1, <4>2
    <3>2. \A x \in up[j] : x >= j => x = j
      BY <1>2
    <3> QED BY <1>2, <2>1, <3>1, <3>2
  <2>2. CASE j \notin found \cup {1}
    <3> DEFINE s == path[p[j]]
               h == path[j]
    <3>1. p[j] \in Images /\ p[j] <= n /\ p[j] < j /\ p[j] \in Nat /\ j \in Nat
      BY <1>2, <2>2, ParentIs
    <3>2. /\ s \in Seq(Images) /\ Len(s) >= 1 /\ Len(s) \in Nat /\ s[1] = p[j]
          /\ \A k \in 1 .. Len(s) - 1 : s[k] \notin found \cup {1}
          /\ s[Len(s)] \in found \cup {1}
          /\ \A k, l \in 1 .. Len(s) : k < l => s[k] > s[l]
          /\ \A k \in 1 .. Len(s) : s[k] \in up[p[j]]
          /\ \A x \in up[p[j]] : x >= s[Len(s)] => \E k \in 1 .. Len(s) : s[k] = x
      <4>1. Good(p[j])
        <5> HIDE DEF Good
        <5> QED BY <1>4, <3>1
      <4>2. s \in Seq(Images) => Len(s) \in Nat
        BY LenProperties
      <4> QED BY <4>1, <4>2
    <3>3. h = <<j>> \o s
      BY <1>1, <2>2
    <3> HIDE DEF s, h
    <3>4. /\ h \in Seq(Images) /\ Len(h) = Len(s) + 1 /\ h[1] = j
          /\ \A k \in 1 .. Len(s) : h[k + 1] = s[k]
          /\ \A k \in 2 .. Len(s) + 1 : h[k] = s[k - 1]
      BY <3>2, <3>3, Prepend
    <3>5. up[j] = {j} \cup up[p[j]]
      BY <1>2, <2>2
    <3>6. \A k \in 1 .. Len(h) : k = 1 \/ (k \in 2 .. Len(s) + 1 /\ k - 1 \in 1 .. Len(s))
      BY <3>2, <3>4
    <3>7. \A k \in 1 .. Len(h) - 1 : h[k] \notin found \cup {1}
      <4> SUFFICES ASSUME NEW k \in 1 .. Len(h) - 1 PROVE h[k] \notin found \cup {1}
        OBVIOUS
      <4>1. k = 1 \/ (k \in 2 .. Len(s) + 1 /\ k - 1 \in 1 .. Len(s) - 1)
        BY <3>2, <3>4
      <4> QED BY <2>2, <3>2, <3>4, <4>1
    <3>8. h[Len(h)] = s[Len(s)]
      BY <3>2, <3>4
    <3>9. \A k \in 1 .. Len(s) : s[k] < j /\ s[k] \in Nat
      <4>1. up[p[j]] \subseteq 1 .. p[j]
        BY <1>2, <3>1
      <4>2. \A x \in 1 .. p[j] : x < j /\ x \in Nat
        BY <3>1
      <4> QED BY <3>2, <4>1, <4>2
    <3>10. ASSUME NEW k \in 1 .. Len(h), NEW l \in 1 .. Len(h), k < l PROVE h[k] > h[l]
      <4>1. l \in 2 .. Len(s) + 1 /\ l - 1 \in 1 .. Len(s) /\ h[l] = s[l - 1]
        BY <3>2, <3>4, <3>10
      <4>2. CASE k = 1
        BY <3>1, <3>4, <3>9, <4>1, <4>2
      <4>3. CASE k # 1
        <5>1. k - 1 \in 1 .. Len(s) /\ h[k] = s[k - 1] /\ k - 1 < l - 1
          BY <3>4, <3>6, <3>10, <4>3
        <5> QED BY <3>2, <4>1, <5>1
      <4> QED BY <4>2, <4>3
    <3>11. \A k \in 1 .. Len(h) : h[k] \in up[j]
      BY <3>2, <3>4, <3>5, <3>6
    <3>12. ASSUME NEW x \in up[j], x >= h[Len(h)] PROVE \E k \in 1 .. Len(h) : h[k] = x
      <4>1. CASE x = j
        BY <3>2, <3>4, <4>1
      <4>2. CASE x # j
        <5>1. PICK k \in 1 .. Len(s) : s[k] = x
          BY <3>2, <3>5, <3>8, <3>12, <4>2
        <5>2. k + 1 \in 1 .. Len(h) /\ h[k + 1] = x
          BY <3>2, <3>4, <5>1
        <5> QED BY <5>2
      <4> QED BY <4>1, <4>2
    <3> QED BY <3>2, <3>4, <3>7, <3>8, <3>10, <3>11, <3>12 DEF h
  <2> QED BY <2>1, <2>2
<1>5. Good(i)
  <2>1. \A n \in Nat : n \in G
    <3> HIDE DEF G
    <3> QED BY <1>3, <1>4, SetInduction
  <2> HIDE DEF Good
  <2> QED BY <1>2, <2>1
<1> QED BY <1>5 DEF path, up

-----------------------------------------------------------------------------
(* Children.                                                               *)

LEMMA ChildrenAre ==
  ASSUME NEW i \in Images, tree \in Parents
  PROVE  /\ Children(i) \subseteq 2 .. N /\ IsFiniteSet(Children(i))
         /\ \A j \in Children(i) : j > i /\ j \in Images \ {1}
<1>1. Children(i) \subseteq 2 .. N
  BY DEF Children
<1>2. IsFiniteSet(2 .. N)
  BY NIs, FS_Interval
<1>3. IsFiniteSet(Children(i))
  BY <1>1, <1>2, FS_Subset
<1>4. \A j \in Children(i) : j > i /\ j \in Images \ {1}
  BY NIs DEF Children, Parents, Images
<1> QED BY <1>1, <1>3, <1>4

\* The children in their order: by rank, the number of those up to a child.
LEMMA ChildSeqIs ==
  ASSUME NEW i \in Images, tree \in Parents
  PROVE  LET s == ChildSeq(i)
         IN  /\ s \in Seq(Images) /\ Len(s) \in Nat
             /\ \A k \in 1 .. Len(s) : s[k] \in Children(i)
             /\ \A j \in Children(i) : \E k \in 1 .. Len(s) : s[k] = j
             /\ \A k, l \in 1 .. Len(s) : k < l => s[k] < s[l]
<1> DEFINE C == Children(i)
           n == Cardinality(C)
           Upto(j) == {c \in C : c <= j}
           Rank(j) == Cardinality(Upto(j))
           f == [j \in C |-> Rank(j)]
           s == ChildSeq(i)
<1>1. C \subseteq 2 .. N /\ IsFiniteSet(C) /\ n \in Nat /\ \A j \in C : j \in Nat /\ j \in Images
  <2>1. C \subseteq 2 .. N /\ IsFiniteSet(C)
    BY ChildrenAre
  <2>2. n \in Nat
    BY <2>1, FS_CardinalityType
  <2>3. \A j \in C : j \in Nat /\ j \in Images
    BY <2>1, NIs DEF Images
  <2> HIDE DEF C
  <2> QED BY <2>1, <2>2, <2>3
<1>2. s = [k \in 1 .. n |-> CHOOSE j \in C : Rank(j) = k]
  BY DEF ChildSeq
<1> HIDE DEF C, s
<1>3. \A j \in C : IsFiniteSet(Upto(j)) /\ Rank(j) \in Nat /\ Rank(j) <= n
  BY <1>1, FS_Subset, FS_CardinalityType
<1>4. ASSUME NEW j \in C PROVE Rank(j) >= 1
  <2>1. {j} \in SUBSET Upto(j)
    BY <1>1
  <2>2. Cardinality({j}) = 1
    BY FS_Singleton
  <2>3. IsFiniteSet(Upto(j))
    BY <1>3
  <2>4. Cardinality({j}) <= Cardinality(Upto(j))
    <3> HIDE DEF Upto
    <3> QED BY <2>1, <2>3, FS_Subset
  <2>5. Cardinality(Upto(j)) \in Nat
    BY <1>3
  <2> QED BY <2>2, <2>4, <2>5
<1>5. ASSUME NEW j \in C, NEW l \in C, j < l PROVE Rank(j) < Rank(l)
  <2>1. Upto(j) \in SUBSET Upto(l) /\ l \in Upto(l) /\ l \notin Upto(j)
    <3>1. j \in Nat /\ l \in Nat
      BY <1>1
    <3>2. \A c \in C : c <= j => c <= l
      BY <1>1, <1>5, <3>1
    <3>3. l <= l /\ ~(l <= j)
      BY <1>5, <3>1
    <3> QED BY <3>2, <3>3
  <2>2. IsFiniteSet(Upto(l)) /\ Rank(l) \in Nat /\ Rank(j) \in Nat
    BY <1>3
  <2> HIDE DEF Upto
  <2>3. Cardinality(Upto(j)) <= Cardinality(Upto(l))
        /\ (Cardinality(Upto(l)) = Cardinality(Upto(j)) => Upto(l) = Upto(j))
    BY <2>1, <2>2, FS_Subset
  <2> QED BY <2>1, <2>2, <2>3
<1> HIDE DEF Upto
<1>6. IsFiniteSet(1 .. n) /\ Cardinality(1 .. n) = n
  <2>1. IsFiniteSet(1 .. n) /\ Cardinality(1 .. n) = IF 1 > n THEN 0 ELSE n - 1 + 1
    BY <1>1, FS_Interval
  <2> HIDE DEF n
  <2> QED BY <1>1, <2>1
<1>7. f \in Injection(C, 1 .. n)
  <2>1. \A j \in C : f[j] \in 1 .. n
    <3> HIDE DEF n
    <3> QED BY <1>1, <1>3, <1>4
  <2>2. \A j, l \in C : f[j] = f[l] => j = l
    <3> SUFFICES ASSUME NEW j \in C, NEW l \in C, f[j] = f[l] PROVE j = l
      OBVIOUS
    <3>1. Rank(j) = Rank(l) /\ Rank(j) \in Nat /\ j \in Nat /\ l \in Nat
      BY <1>1, <1>3
    <3>2. j < l \/ l < j \/ j = l
      BY <3>1
    <3> HIDE DEF Rank
    <3> QED BY <1>5, <3>1, <3>2
  <2>3. f \in [C -> 1 .. n]
    BY <2>1
  <2> HIDE DEF f
  <2> QED BY <2>2, <2>3 DEF Injection, IsInjective
<1>8. f \in Surjection(C, 1 .. n)
  <2> HIDE DEF f, n
  <2> QED BY <1>6, <1>7, FS_Injection DEF n
<1>9. \A k \in 1 .. n : \E j \in C : Rank(j) = k
  <2>1. \A k \in 1 .. n : \E j \in C : f[j] = k
    <3> HIDE DEF f, n
    <3> QED BY <1>8 DEF Surjection
  <2> QED BY <2>1
<1>10. /\ DOMAIN s = 1 .. n
       /\ \A k \in 1 .. n : s[k] = CHOOSE j \in C : Rank(j) = k
  <2> HIDE DEF Rank, n
  <2> QED BY <1>2
<1>11. \A k \in 1 .. n : s[k] \in C /\ Rank(s[k]) = k
  <2> HIDE DEF Rank, n
  <2> QED BY <1>9, <1>10
<1>12. s \in Seq(Images) /\ Len(s) = n
  <2> HIDE DEF Rank, n
  <2>1. s = [k \in 1 .. n |-> s[k]]
    BY <1>2
  <2>2. \A k \in 1 .. n : s[k] \in Images
    BY <1>1, <1>11
  <2> QED BY <1>1, <2>1, <2>2
<1>13. ASSUME NEW j \in C PROVE \E k \in 1 .. n : s[k] = j
  <2>1. Rank(j) \in 1 .. n
    <3> HIDE DEF n
    <3> QED BY <1>1, <1>3, <1>4
  <2>2. s[Rank(j)] \in C /\ Rank(s[Rank(j)]) = Rank(j)
    BY <1>11, <2>1
  <2>3. s[Rank(j)] = j
    <3>1. j \in Nat /\ s[Rank(j)] \in Nat /\ Rank(j) \in Nat
      BY <1>1, <1>3, <2>2
    <3>2. j < s[Rank(j)] \/ s[Rank(j)] < j \/ s[Rank(j)] = j
      BY <3>1
    <3> HIDE DEF Rank
    <3> QED BY <1>5, <2>2, <3>1, <3>2
  <2> QED BY <2>1, <2>3
<1>14. ASSUME NEW k \in 1 .. n, NEW l \in 1 .. n, k < l PROVE s[k] < s[l]
  <2>1. s[k] \in C /\ s[l] \in C /\ Rank(s[k]) = k /\ Rank(s[l]) = l
    BY <1>11
  <2>2. s[k] \in Nat /\ s[l] \in Nat
    BY <1>1, <2>1
  <2>3. s[k] < s[l] \/ s[l] < s[k] \/ s[k] = s[l]
    BY <2>2
  <2>4. s[l] < s[k] => Rank(s[l]) < Rank(s[k])
    BY <1>5, <2>1
  <2> HIDE DEF Rank, n
  <2> QED BY <1>14, <1>1, <2>1, <2>3, <2>4
<1> HIDE DEF n
<1> QED BY <1>1, <1>11, <1>12, <1>13, <1>14 DEF s, C

LEMMA LastIs ==
  ASSUME NEW i \in Images, tree \in Parents, Children(i) # {}
  PROVE  /\ Last(ChildSeq(i)) \in Children(i)
         /\ \A j \in Children(i) : j <= Last(ChildSeq(i))
<1> DEFINE s == ChildSeq(i)
<1>1. /\ Len(s) \in Nat
      /\ \A k \in 1 .. Len(s) : s[k] \in Children(i)
      /\ \A j \in Children(i) : \E k \in 1 .. Len(s) : s[k] = j
      /\ \A k, l \in 1 .. Len(s) : k < l => s[k] < s[l]
  BY ChildSeqIs
<1>2. \A j \in Children(i) : j \in Nat
  BY ChildrenAre
<1> HIDE DEF s
<1>3. Len(s) \in 1 .. Len(s)
  BY <1>1
<1>4. ASSUME NEW j \in Children(i) PROVE j <= s[Len(s)]
  <2>1. PICK k \in 1 .. Len(s) : s[k] = j
    BY <1>1
  <2>2. k < Len(s) \/ k = Len(s)
    BY <1>1
  <2>3. s[k] \in Nat /\ s[Len(s)] \in Nat
    BY <1>1, <1>2, <1>3
  <2> QED BY <1>1, <1>3, <2>1, <2>2, <2>3
<1> QED BY <1>1, <1>3, <1>4 DEF Last, s

-----------------------------------------------------------------------------
(* The spine of last children, and the branches off it.                    *)

\* What is known of the lineages of the tree of the job.
LEMMA UpIs ==
  ASSUME tree \in Trees
  PROVE  /\ tree \in Parents
         /\ \A i \in Images : Up[i] \subseteq 1 .. i /\ i \in Up[i] /\ 1 \in Up[i] /\ i \in Nat
         /\ Up[1] = {1}
         /\ \A i \in Images \ {1} : /\ Up[i] = {i} \cup Up[tree[i]] /\ tree[i] \in Images
                                    /\ tree[i] < i /\ tree[i] \in Nat /\ i \in 2 .. N
         /\ \A b \in Images : \A a \in Up[b] :
              /\ a \in Images /\ a \in Nat /\ a <= b /\ Up[a] \subseteq Up[b]
              /\ \A x \in Up[b] : x <= a => x \in Up[a]
<1>1. tree \in Parents
  BY TreeIs
<1>2. \A i \in Images : Up[i] \subseteq 1 .. i /\ i \in Up[i] /\ 1 \in Up[i] /\ i \in Nat
  BY <1>1, LineageIs, NIs DEF Up, Images
<1>3. Up[1] = {1} /\ \A i \in Images \ {1} : Up[i] = {i} \cup Up[tree[i]]
  BY <1>1, LineageIs DEF Up
<1>4. \A i \in Images \ {1} : /\ tree[i] \in Images /\ tree[i] < i /\ tree[i] \in Nat
                              /\ i \in 2 .. N
  BY <1>1, ParentIs, NIs DEF Images
<1>5. \A b \in Images : \A a \in Up[b] :
        a \in Images /\ Up[a] \subseteq Up[b] /\ \A x \in Up[b] : x <= a => x \in Up[a]
  BY <1>1, LineageChain DEF Up
<1>6. \A b \in Images : \A a \in Up[b] : a \in Nat /\ a <= b
  BY <1>2
<1> QED BY <1>1, <1>2, <1>3, <1>4, <1>5, <1>6

LEMMA OnTheWay ==
  ASSUME tree \in Trees
  PROVE  \A b \in Images : \A a \in Up[b] \ {b} : \E c \in Up[b] \ {1} : tree[c] = a
<1> DEFINE Good(b) == \A a \in Up[b] \ {b} : \E c \in Up[b] \ {1} : tree[c] = a
           G == {n \in Nat : \A b \in Images : b <= n => Good(b)}
<1> USE UpIs
<1> HIDE DEF Up
<1>1. 0 \in G
  BY DEF Images
<1>2. ASSUME NEW n \in Nat, n \in G PROVE n + 1 \in G
  <2> SUFFICES ASSUME NEW b \in Images, b <= n + 1, NEW a \in Up[b] \ {b}
               PROVE  \E c \in Up[b] \ {1} : tree[c] = a
    OBVIOUS
  <2>1. b # 1
    OBVIOUS
  <2>2. Up[b] = {b} \cup Up[tree[b]] /\ tree[b] \in Images /\ tree[b] < b /\ tree[b] \in Nat
    BY <2>1
  <2>3. CASE a = tree[b]
    BY <2>1, <2>2, <2>3
  <2>4. CASE a # tree[b]
    <3>1. tree[b] <= n /\ a \in Up[tree[b]] \ {tree[b]}
      BY <2>2, <2>4
    <3>2. Good(tree[b])
      BY <1>2, <2>2, <3>1
    <3> QED BY <2>2, <3>1, <3>2
  <2> QED BY <2>3, <2>4
<1>3. \A n \in Nat : n \in G
  <2> HIDE DEF G
  <2> QED BY <1>1, <1>2, SetInduction
<1>4. \A b \in Images : b \in Nat
  OBVIOUS
<1> HIDE DEF Good
<1> QED BY <1>3, <1>4 DEF Good

\* No image comes after an image of the spine that is not built on it.
LEMMA SpineAbove ==
  ASSUME tree \in Trees, NEW s \in Spine
  PROVE  \A i \in Images : s <= i => s \in Up[i]
<1> DEFINE G == {n \in Nat : \A i \in Images : s <= i /\ i <= s + n => s \in Up[i]}
<1>1. s \in Images /\ Up[s] \ {1} \subseteq LastChildren /\ s \in Nat /\ s >= 1
  BY UpIs DEF Spine, Images
<1> USE UpIs
<1> HIDE DEF Up
<1>2. 0 \in G
  <2> SUFFICES ASSUME NEW i \in Images, s <= i, i <= s + 0 PROVE s \in Up[i]
    OBVIOUS
  <2>1. i = s
    BY <1>1
  <2> QED BY <1>1, <2>1
<1>3. ASSUME NEW n \in Nat, n \in G PROVE n + 1 \in G
  <2> SUFFICES ASSUME NEW i \in Images, s <= i, i <= s + (n + 1), s # i PROVE s \in Up[i]
    BY <1>1
  <2>1. i \in Nat /\ i # 1 /\ i - 1 \in Images /\ s <= i - 1 /\ i - 1 <= s + n /\ s < i
    <3>1. i \in Nat /\ i \in 1 .. N /\ s \in Nat /\ s >= 1
      BY <1>1 DEF Images
    <3>2. s < i
      BY <3>1
    <3>3. i - 1 \in 1 .. N /\ s <= i - 1 /\ i - 1 <= s + n
      BY <3>1, <3>2, NIs
    <3> QED BY <3>1, <3>2, <3>3 DEF Images
  <2>2. s \in Up[i - 1]
    BY <1>3, <2>1
  <2>3. CASE i = 2
    <3>1. s = 1
      BY <1>1, <2>1, <2>3
    <3> QED BY <3>1
  <2>4. CASE i # 2
    <3>1. i \in 3 .. N
      BY <2>1, <2>4 DEF Images
    <3>2. tree[i] \in Up[i - 1]
      BY <3>1, TreeIs DEF Up
    <3>3. tree[i] \in Nat /\ Up[i] = {i} \cup Up[tree[i]] /\ tree[i] \in Images
      BY <2>1
    <3>4. CASE s <= tree[i]
      BY <2>1, <2>2, <3>2, <3>3, <3>4
    <3>5. CASE ~(s <= tree[i])
      <4>1. tree[i] \in Up[s] \ {s}
        BY <1>1, <2>1, <2>2, <3>2, <3>3, <3>5
      <4>2. PICK c \in Up[s] \ {1} : tree[c] = tree[i]
        BY <1>1, <4>1, OnTheWay
      <4>3. c \in LastChildren /\ c \in Nat /\ c <= s
        BY <1>1, <4>2
      <4>4. i \in Children(tree[c])
        BY <3>1, <4>2 DEF Children
      <4>5. i <= c
        BY <4>3, <4>4 DEF LastChildren
      <4> QED BY <1>1, <2>1, <4>3, <4>5
    <3> QED BY <3>4, <3>5
  <2> QED BY <2>3, <2>4
<1>4. \A n \in Nat : n \in G
  <2> HIDE DEF G
  <2> QED BY <1>2, <1>3, SetInduction
<1>5. ASSUME NEW i \in Images, s <= i PROVE s \in Up[i]
  <2>1. i - s \in Nat /\ i <= s + (i - s)
    BY <1>1, <1>5
  <2> QED BY <1>4, <1>5, <2>1
<1> QED BY <1>5

LEMMA SpineDown ==
  ASSUME tree \in Trees, NEW i \in Spine, NEW a \in Up[i]
  PROVE  a \in Spine
BY UpIs DEF Spine

LEMMA SpineIs ==
  ASSUME tree \in Trees
  PROVE  /\ 1 \in Spine
         /\ Spine \subseteq Images /\ Branches \subseteq Images \ Spine
         /\ \A i \in Spine \ {1} : i \in LastChildren /\ tree[i] \in Spine
         /\ \A b \in Branches : b # 1 /\ b \notin LastChildren /\ tree[b] \in Spine
<1>1. 1 \in Spine
  BY UpIs, NIs DEF Spine, Images
<1>2. Spine \subseteq Images /\ Branches \subseteq Images \ Spine
  BY DEF Spine, Branches
<1>3. ASSUME NEW i \in Spine \ {1} PROVE i \in LastChildren /\ tree[i] \in Spine
  <2>1. i \in Images /\ i \in Up[i] /\ tree[i] \in Up[i] /\ Up[i] \ {1} \subseteq LastChildren
    <3>1. i \in Images \ {1} /\ Up[i] \ {1} \subseteq LastChildren
      BY DEF Spine
    <3>2. Up[i] = {i} \cup Up[tree[i]] /\ tree[i] \in Up[tree[i]]
      BY <3>1, UpIs
    <3> QED BY <3>1, <3>2
  <2> QED BY <2>1, SpineDown
<1>4. ASSUME NEW b \in Branches PROVE b # 1 /\ b \notin LastChildren /\ tree[b] \in Spine
  <2>1. b # 1 /\ tree[b] \in Spine /\ b \in Images /\ b \notin Spine
    BY <1>1 DEF Branches
  <2>2. Up[b] = {b} \cup Up[tree[b]]
    BY <2>1, UpIs
  <2>3. Up[tree[b]] \ {1} \subseteq LastChildren
    BY <2>1 DEF Spine
  <2> QED BY <2>1, <2>2, <2>3 DEF Spine
<1> QED BY <1>1, <1>2, <1>3, <1>4

LEMMA BranchOf ==
  ASSUME tree \in Trees, NEW i \in Images \ Spine
  PROVE  \E b \in Branches : b \in Up[i]
<1> DEFINE S == Up[i] \ Spine
<1> USE UpIs
<1> HIDE DEF Up
<1>1. S \in SUBSET Nat /\ i \in S
  OBVIOUS
<1>2. PICK b \in S : \A j \in S : b <= j
  <2> HIDE DEF S
  <2> QED BY <1>1, LeastOf
<1>3. b \in Images /\ b \notin Spine /\ b # 1 /\ b \in Nat /\ b \in Up[i]
  BY <1>2, SpineIs
<1>4. tree[b] \in Up[b] /\ tree[b] < b /\ tree[b] \in Nat
  BY <1>3
<1>5. tree[b] \in Spine
  BY <1>2, <1>3, <1>4
<1> QED BY <1>3, <1>5 DEF Branches

LEMMA OneBranch ==
  ASSUME tree \in Trees, NEW i \in Images, NEW b \in Branches, NEW c \in Branches,
         b \in Up[i], c \in Up[i]
  PROVE  b = c
<1> USE UpIs
<1> HIDE DEF Up
<1>1. ASSUME NEW x \in Branches, NEW y \in Branches, x \in Up[i], y \in Up[i], x < y PROVE FALSE
  <2>1. x \in Up[y] /\ y # 1 /\ y \in Images /\ tree[y] \in Spine /\ x \notin Spine /\ x \in Nat
        /\ y \in Nat
    BY <1>1, SpineIs
  <2>2. x \in Up[tree[y]]
    BY <1>1, <2>1
  <2> QED BY <2>1, <2>2, SpineDown
<1>2. b \in Nat /\ c \in Nat
  OBVIOUS
<1>3. b < c \/ c < b \/ b = c
  BY <1>2
<1> QED BY <1>1, <1>3

LEMMA LastOfChildren ==
  ASSUME tree \in Trees, NEW i \in Images, Children(i) # {}
  PROVE  Last(ChildSeq(i)) \in LastChildren /\ tree[Last(ChildSeq(i))] = i
<1>1. /\ Last(ChildSeq(i)) \in Children(i)
      /\ \A j \in Children(i) : j <= Last(ChildSeq(i))
  BY LastIs, UpIs
<1> DEFINE c == Last(ChildSeq(i))
<1> HIDE DEF c
<1>2. c \in 2 .. N /\ tree[c] = i /\ \A j \in Children(i) : j <= c
  BY <1>1 DEF Children, c
<1> QED BY <1>2 DEF LastChildren, c

\* In a shallow tree a branch has children, of which the last may have one child.
LEMMA ShallowIs ==
  ASSUME tree \in Trees, Shallow, NEW b \in Branches,
         NEW k \in Images, b \in Up[k], k # b, tree[k] # b
  PROVE  /\ tree[k] \in LastChildren /\ tree[tree[k]] = b
         /\ \A j \in Images : b \in Up[j] /\ j # b /\ tree[j] # b => j = k
<1>1. /\ b \in 2 .. N /\ b \in Images /\ b # 1 /\ b \notin LastChildren
  BY SpineIs, UpIs
<1>2. \E j \in Children(tree[b]) : j > b
  <2>1. \E j \in Children(tree[b]) : ~(j <= b)
    BY <1>1 DEF LastChildren
  <2>2. \A j \in Children(tree[b]) : j \in Nat
    BY NIs DEF Children
  <2> QED BY <1>1, <2>1, <2>2
<1>3. \A j \in Images : b \in Up[j] /\ j # b /\ tree[j] # b => j \in Below(b)
  BY DEF Below, Ancestors, Up
<1>4. k \in Below(b) /\ Below(b) = {k} /\ tree[k] = Last(ChildSeq(b))
  BY <1>1, <1>2, <1>3 DEF Shallow
<1>5. Children(b) # {}
  <2>1. PICK c \in Up[k] \ {1} : tree[c] = b
    BY OnTheWay
  <2>2. c \in 2 .. N
    BY <2>1, UpIs
  <2> QED BY <2>1, <2>2 DEF Children
<1>6. tree[k] \in LastChildren /\ tree[tree[k]] = b
  BY <1>1, <1>4, <1>5, LastOfChildren
<1> QED BY <1>3, <1>4, <1>6

\* The ancestors of an image off the spine: a branch, and perhaps its last child.
LEMMA OffTheSpine ==
  ASSUME tree \in Trees, Shallow, NEW i \in Images, NEW x \in Up[i] \ {i}, x \notin Spine
  PROVE  \/ x \in Branches
         \/ /\ tree[x] \in Branches /\ tree[x] \in Up[i] /\ x \in LastChildren
            /\ tree[i] = x /\ Children(x) = {i}
<1> USE UpIs
<1> HIDE DEF Up
<1>1. x \in Images /\ x < i /\ Up[x] \subseteq Up[i] /\ x \in Nat /\ i \in Nat
  OBVIOUS
<1>2. PICK b \in Branches : b \in Up[x]
  BY <1>1, BranchOf
<1>3. b \in Up[i] /\ b \in Images /\ b <= x /\ b # i /\ b \in Nat
  BY <1>1, <1>2
<1>4. SUFFICES ASSUME x # b
               PROVE  /\ tree[x] \in Branches /\ tree[x] \in Up[i] /\ x \in LastChildren
                      /\ tree[i] = x /\ Children(x) = {i}
  BY <1>2
<1>5. i # 1 /\ x # 1 /\ x \in Up[tree[i]] /\ tree[i] \in Images
  <2>1. x \in 1 .. x /\ i # 1
    BY <1>1
  <2>2. x # 1
    BY <1>2, <1>4
  <2> QED BY <2>1, <2>2
<1>6. tree[i] # b
  <2>1. \A y \in Up[b] : y <= b
    BY <1>3
  <2> QED BY <1>1, <1>3, <1>4, <1>5, <2>1
<1>7. /\ tree[i] \in LastChildren /\ tree[tree[i]] = b
      /\ \A j \in Images : b \in Up[j] /\ j # b /\ tree[j] # b => j = i
  BY <1>3, <1>6, ShallowIs
<1>8. tree[x] = b
  BY <1>1, <1>2, <1>4, <1>7
<1>9. tree[i] = x
  <2>1. tree[i] # 1
    BY <1>1, <1>5
  <2>2. Up[tree[i]] = {tree[i]} \cup Up[b]
    BY <1>5, <1>7, <2>1
  <2>3. x \notin Up[b]
    BY <1>1, <1>3, <1>4
  <2> QED BY <1>5, <2>2, <2>3
<1>10. Children(x) = {i}
  <2>1. ASSUME NEW j \in Children(x) PROVE j = i
    <3>1. j \in 2 .. N /\ tree[j] = x /\ j \in Images /\ j # 1
      BY NIs DEF Children, Images
    <3>2. b \in Up[j] /\ x < j /\ j # b
      BY <1>1, <1>2, <1>3, <3>1
    <3> QED BY <1>4, <1>7, <3>1, <3>2
  <2>2. i \in Children(x)
    BY <1>5, <1>9 DEF Children
  <2> QED BY <2>1, <2>2
<1> QED BY <1>3, <1>7, <1>8, <1>9, <1>10

\* The images that the depth first search still has on its stack come after the children of
\* the image it visits.
LEMMA ChildrenFirst ==
  ASSUME tree \in Trees, NEW i \in Images, NEW c \in Children(i),
         NEW j \in Images, j > i, tree[j] < i
  PROVE  c < j
<1> USE UpIs
<1>1. c \in Images /\ c # 1 /\ tree[c] = i /\ c \in Nat /\ j \in Nat /\ i \in Nat /\ j # 1
  BY NIs DEF Children, Images
<1>2. SUFFICES ASSUME j <= c PROVE FALSE
  BY <1>1
<1>3. i \in Up[c]
  BY <1>1
<1>4. j \in i .. c
  BY <1>1, <1>2
<1>5. i \in Up[j]
  BY <1>1, <1>3, <1>4, Contiguous DEF Up
<1> HIDE DEF Up
<1>6. i \in Up[tree[j]] /\ tree[j] \in Images
  BY <1>1, <1>5
<1>7. i <= tree[j]
  BY <1>6
<1> QED BY <1>1, <1>6, <1>7

-----------------------------------------------------------------------------
(* Places, and what is seen at them.                                       *)

LEMMA PlacesAre ==
  /\ \A i, j \in Images : /\ Dir(i) # Ovl(j) /\ Dir(i) # NoPlace /\ Ovl(i) # NoPlace
                          /\ (Dir(i) = Dir(j) => i = j) /\ (Ovl(i) = Ovl(j) => i = j)
  /\ \A i \in Images : Dir(i) \in Places /\ Ovl(i) \in Places
  /\ \A i \in Images : Ovl(i)[2] = i
  /\ \A place \in Places : place # NoPlace
BY DEF Dir, Ovl, NoPlace, Places

\* An overlay shows its own directory over what is below it; there are two at most.
Overlaid ==
  /\ mounts = <<>> => \A place : Target(place) = place /\ View(place) = files[place]
  /\ \A k \in DOMAIN mounts : Target(Ovl(mounts[k].image)) = Dir(mounts[k].image)
  /\ mounts # <<>> =>
       /\ View(mounts[1].lower) = files[mounts[1].lower]
       /\ View(Ovl(mounts[1].image)) = files[Dir(mounts[1].image)] \cup files[mounts[1].lower]
  /\ Len(mounts) = 2 =>
       View(Ovl(mounts[2].image)) = files[Dir(mounts[2].image)] \cup files[Dir(mounts[1].image)]
                                      \cup files[mounts[1].lower]

LEMMA Views == TypeOK /\ Mounted => Overlaid
<1> SUFFICES ASSUME TypeOK, Mounted PROVE Overlaid
  OBVIOUS
<1>1. /\ mounts \in Seq([image : Images, lower : Places]) /\ Len(mounts) \in 0 .. 2
      /\ DOMAIN mounts = 1 .. Len(mounts)
      /\ \A k \in DOMAIN mounts : mounts[k].image \in Images /\ mounts[k].image \in 2 .. img
      /\ img \in Nat
  <2>1. mounts \in Seq([image : Images, lower : Places]) /\ Len(mounts) <= 2 /\ img \in Nat
    BY NIs DEF TypeOK
  <2>2. Len(mounts) \in Nat /\ DOMAIN mounts = 1 .. Len(mounts)
    BY <2>1, LenProperties
  <2>3. \A k \in DOMAIN mounts : mounts[k] \in [image : Images, lower : Places]
    BY <2>1, <2>2, ElementOfSeq
  <2>4. \A k \in DOMAIN mounts : mounts[k].image \in 2 .. img
    BY DEF Mounted
  <2> QED BY <2>1, <2>2, <2>3, <2>4
<1>2. CASE mounts = <<>>
  <2>1. \A place : MountsOn(place) = {}
    BY <1>2 DEF MountsOn
  <2>2. DOMAIN mounts = {} /\ Len(mounts) # 2
    BY <1>2, EmptySeq
  <2> QED BY <1>2, <2>1, <2>2 DEF Target, View, Overlaid
<1>3. CASE mounts # <<>>
  <2> DEFINE a == mounts[1].image
             low == mounts[1].lower
  <2>1. 1 \in DOMAIN mounts /\ (Len(mounts) = 1 \/ Len(mounts) = 2)
    BY <1>1, <1>3
  <2>2. a \in Images /\ a \in 2 .. img
    BY <1>1, <2>1
  <2>3. Before(low, a)
    BY <1>3 DEF Mounted
  <2>4. Len(mounts) = 2 =>
          mounts[2].image = img /\ mounts[2].lower = Ovl(a) /\ a < img /\ img \in Images
    BY <1>1 DEF Mounted
  <2> HIDE DEF a, low
  <2>5. low = Dir(1) \/ \E m \in Images : low = Ovl(m) /\ m < a
    <3>1. \A m \in 2 .. a - 1 : m \in Images /\ m < a
      BY <2>2, NIs DEF Images
    <3> QED BY <2>3, <3>1 DEF Before
  <2>6. MountsOn(low) = {}
    <3>1. \A k \in DOMAIN mounts : mounts[k].image >= a
      BY <1>1, <2>1, <2>2, <2>4 DEF a
    <3>2. 1 \in Images
      BY NIs DEF Images
    <3>3. ASSUME NEW k \in DOMAIN mounts PROVE Ovl(mounts[k].image) # low
      <4>1. /\ mounts[k].image \in Images /\ mounts[k].image >= a
            /\ mounts[k].image \in Nat /\ a \in Nat
        BY <1>1, <2>2, <3>1, <3>3
      <4>2. CASE low = Dir(1)
        BY <3>2, <4>1, <4>2, PlacesAre
      <4>3. CASE \E m \in Images : low = Ovl(m) /\ m < a
        <5>1. PICK m \in Images : low = Ovl(m) /\ m < a
          BY <4>3
        <5>2. m # mounts[k].image
          BY <4>1, <5>1 DEF Images
        <5> QED BY <4>1, <5>1, <5>2, PlacesAre
      <4> QED BY <2>5, <4>2, <4>3
    <3> QED BY <3>3 DEF MountsOn
  <2>7. MountsOn(Ovl(a)) = {1}
    <3>1. ASSUME NEW k \in DOMAIN mounts, k # 1 PROVE Ovl(mounts[k].image) # Ovl(a)
      <4>1. k = 2 /\ Len(mounts) = 2
        BY <1>1, <2>1, <3>1
      <4>2. mounts[k].image # a /\ mounts[k].image \in Images
        BY <1>1, <2>2, <2>4, <4>1
      <4> QED BY <2>2, <4>2, PlacesAre
    <3> QED BY <2>1, <3>1 DEF MountsOn, a
  <2>8. Len(mounts) = 2 => MountsOn(Ovl(mounts[2].image)) = {2}
    <3> SUFFICES ASSUME Len(mounts) = 2 PROVE MountsOn(Ovl(mounts[2].image)) = {2}
      OBVIOUS
    <3>1. 2 \in DOMAIN mounts
      BY <1>1
    <3>2. ASSUME NEW k \in DOMAIN mounts, k # 2 PROVE Ovl(mounts[k].image) # Ovl(mounts[2].image)
      <4>1. k = 1
        BY <1>1, <3>2
      <4>2. mounts[k].image # mounts[2].image /\ mounts[k].image \in Images /\ img \in Images
        BY <1>1, <2>2, <2>4, <3>1, <4>1 DEF a
      <4> QED BY <1>1, <3>1, <4>2, PlacesAre
    <3> QED BY <3>1, <3>2 DEF MountsOn
  <2>9. \A k \in DOMAIN mounts : Target(Ovl(mounts[k].image)) = Dir(mounts[k].image)
    <3> SUFFICES ASSUME NEW k \in DOMAIN mounts
                 PROVE  Target(Ovl(mounts[k].image)) = Dir(mounts[k].image)
      OBVIOUS
    <3>1. MountsOn(Ovl(mounts[k].image)) # {}
      BY DEF MountsOn
    <3>2. Ovl(mounts[k].image)[2] = mounts[k].image
      BY <1>1, PlacesAre
    <3> QED BY <3>1, <3>2 DEF Target, Dir
  <2> DEFINE All(f) == [k \in DOMAIN mounts |->
                          files[Dir(mounts[k].image)] \cup
                            (IF MountsOn(mounts[k].lower) = {} THEN files[mounts[k].lower]
                             ELSE UNION {f[j] : j \in MountsOn(mounts[k].lower)})]
             first == files[Dir(a)] \cup files[low]
             second == files[Dir(mounts[2].image)] \cup first
             g == [k \in 1 .. Len(mounts) |-> IF k = 1 THEN first ELSE second]
             shown == CHOOSE f : f = All(f)
  <2>10. Shown = shown
    BY DEF Shown
  <2>11. ASSUME NEW f
         PROVE  /\ DOMAIN All(f) = DOMAIN mounts
                /\ All(f)[1] = first
                /\ Len(mounts) = 2 => All(f)[2] = files[Dir(mounts[2].image)] \cup f[1]
    <3>1. All(f)[1] = first
      BY <2>1, <2>6 DEF a, low
    <3>2. ASSUME Len(mounts) = 2 PROVE All(f)[2] = files[Dir(mounts[2].image)] \cup f[1]
      <4>1. 2 \in DOMAIN mounts /\ MountsOn(mounts[2].lower) = {1}
        BY <1>1, <2>4, <2>7, <3>2
      <4>2. UNION {f[j] : j \in {1}} = f[1]
        OBVIOUS
      <4>3. All(f)[2] = files[Dir(mounts[2].image)] \cup
              (IF MountsOn(mounts[2].lower) = {} THEN files[mounts[2].lower]
               ELSE UNION {f[j] : j \in MountsOn(mounts[2].lower)})
        BY <4>1
      <4> HIDE DEF All
      <4> QED BY <4>1, <4>2, <4>3
    <3> QED BY <3>1, <3>2
  <2> HIDE DEF All
  <2>12. g = All(g)
    <3>0. 1 \in 1 .. Len(mounts) /\ (Len(mounts) = 2 => 2 \in 1 .. Len(mounts))
      BY <1>1, <2>1
    <3>1. g[1] = first /\ (Len(mounts) = 2 => g[2] = second) /\ DOMAIN g = 1 .. Len(mounts)
      <4> HIDE DEF first, second
      <4> QED BY <3>0
    <3>2. All(g)[1] = first /\ (Len(mounts) = 2 => All(g)[2] = second)
          /\ DOMAIN All(g) = 1 .. Len(mounts)
      BY <1>1, <2>11, <3>1
    <3>3. \A k \in 1 .. Len(mounts) : k = 1 \/ (k = 2 /\ Len(mounts) = 2)
      <4> HIDE DEF first, second
      <4> QED BY <1>1, <2>1
    <3>4. /\ g = [k \in 1 .. Len(mounts) |-> g[k]]
          /\ All(g) = [k \in 1 .. Len(mounts) |-> All(g)[k]]
      <4>1. g = [k \in 1 .. Len(mounts) |-> g[k]]
        OBVIOUS
      <4> HIDE DEF g
      <4>2. All(g) = [k \in 1 .. Len(mounts) |-> All(g)[k]]
        BY <1>1 DEF All
      <4> QED BY <4>1, <4>2
    <3>5. \A k \in 1 .. Len(mounts) : g[k] = All(g)[k]
      BY <3>1, <3>2, <3>3
    <3> HIDE DEF g
    <3> QED BY <3>4, <3>5
  <2>13. shown = All(shown)
    <3> HIDE DEF g
    <3> QED BY <2>12
  <2> HIDE DEF shown
  <2>14. shown[1] = first /\ (Len(mounts) = 2 => shown[2] = second)
    BY <2>11, <2>13
  <2>15. View(low) = files[low]
    BY <2>6 DEF View
  <2>16. View(Ovl(a)) = first
    <3>1. View(Ovl(a)) = UNION {Shown[k] : k \in {1}}
      BY <2>7 DEF View
    <3> HIDE DEF first
    <3> QED BY <2>10, <2>14, <3>1
  <2>17. ASSUME Len(mounts) = 2 PROVE View(Ovl(mounts[2].image)) = second
    <3>1. View(Ovl(mounts[2].image)) = UNION {Shown[k] : k \in {2}}
      BY <2>8, <2>17 DEF View
    <3> HIDE DEF first, second
    <3> QED BY <2>10, <2>14, <2>17, <3>1
  <2> QED BY <1>3, <2>9, <2>15, <2>16, <2>17 DEF a, low, Overlaid
<1> QED BY <1>2, <1>3

-----------------------------------------------------------------------------
(* Stacks.                                                                 *)

LEMMA FrontIs ==
  ASSUME NEW S, NEW s \in Seq(S), s # <<>>
  PROVE  /\ Len(s) \in Nat /\ Len(s) >= 1 /\ DOMAIN s = 1 .. Len(s)
         /\ Last(s) = s[Len(s)] /\ Last(s) \in S
         /\ Front(s) \in Seq(S) /\ Len(Front(s)) = Len(s) - 1
         /\ DOMAIN Front(s) = 1 .. Len(s) - 1
         /\ \A k \in 1 .. Len(s) - 1 : Front(s)[k] = s[k] /\ k \in 1 .. Len(s)
<1>1. Len(s) \in Nat /\ Len(s) >= 1 /\ DOMAIN s = 1 .. Len(s)
  BY LenProperties, EmptySeq
<1>2. \A k \in 1 .. Len(s) : s[k] \in S
  BY ElementOfSeq
<1>3. Last(s) = s[Len(s)] /\ Last(s) \in S
  BY <1>1, <1>2 DEF Last
<1>4. \A k \in 1 .. Len(s) - 1 : s[k] \in S /\ k \in 1 .. Len(s)
  BY <1>1, <1>2
<1>5. /\ SubSeq(s, 1, Len(s) - 1) \in Seq(S)
      /\ Len(SubSeq(s, 1, Len(s) - 1)) = IF 1 <= Len(s) - 1 THEN Len(s) - 1 - 1 + 1 ELSE 0
      /\ \A k \in 1 .. Len(s) - 1 - 1 + 1 : SubSeq(s, 1, Len(s) - 1)[k] = s[1 + k - 1]
  BY <1>1, <1>4, SubSeqProperties
<1>6. Front(s) \in Seq(S) /\ Len(Front(s)) = Len(s) - 1
  BY <1>1, <1>5 DEF Front
<1>7. \A k \in 1 .. Len(s) - 1 : Front(s)[k] = s[k]
  BY <1>1, <1>5 DEF Front
<1>8. DOMAIN Front(s) = 1 .. Len(s) - 1
  BY <1>6, LenProperties
<1> QED BY <1>1, <1>3, <1>4, <1>6, <1>7, <1>8

\* The last of a descending sequence is its least element.
LEMMA DescendingFront ==
  ASSUME NEW S \in SUBSET Nat, NEW s \in Seq(S), s # <<>>, Descending(s)
  PROVE  /\ Last(s) \in Range(s) /\ \A x \in Range(s) : x >= Last(s)
         /\ Range(Front(s)) = Range(s) \ {Last(s)}
         /\ Descending(Front(s))
<1>1. /\ Len(s) \in Nat /\ Len(s) >= 1 /\ DOMAIN s = 1 .. Len(s)
      /\ Last(s) = s[Len(s)] /\ DOMAIN Front(s) = 1 .. Len(s) - 1
      /\ \A k \in 1 .. Len(s) - 1 : Front(s)[k] = s[k] /\ k \in 1 .. Len(s)
  BY FrontIs
<1>2. \A k \in 1 .. Len(s) : s[k] \in Nat
  BY ElementOfSeq
<1>3. \A k \in 1 .. Len(s) - 1 : s[k] > Last(s)
  BY <1>1 DEF Descending
<1>4. Len(s) \in 1 .. Len(s) /\ \A k \in 1 .. Len(s) : k = Len(s) \/ k \in 1 .. Len(s) - 1
  <2>1. Len(s) \in Nat /\ Len(s) >= 1
    BY <1>1
  <2> QED BY <2>1
<1>5. Last(s) \in Range(s)
  BY <1>1, <1>4 DEF Range
<1>6. \A k \in 1 .. Len(s) : s[k] >= Last(s)
  <2> SUFFICES ASSUME NEW k \in 1 .. Len(s) PROVE s[k] >= Last(s)
    OBVIOUS
  <2>1. s[k] \in Nat /\ Last(s) \in Nat /\ Last(s) = s[Len(s)]
    BY <1>1, <1>2, <1>4
  <2> QED BY <1>3, <1>4, <2>1
<1>7. \A x \in Range(s) : x >= Last(s)
  BY <1>1, <1>6 DEF Range
<1>8. Range(Front(s)) = Range(s) \ {Last(s)}
  <2>1. \A k \in 1 .. Len(s) - 1 : s[k] # Last(s)
    <3> SUFFICES ASSUME NEW k \in 1 .. Len(s) - 1 PROVE s[k] # Last(s)
      OBVIOUS
    <3>1. s[k] \in Nat /\ Last(s) \in Nat
      BY <1>1, <1>2, <1>4
    <3> QED BY <1>3, <3>1
  <2> QED BY <1>1, <1>4, <2>1 DEF Range
<1>9. Descending(Front(s))
  BY <1>1 DEF Descending
<1> QED BY <1>5, <1>7, <1>8, <1>9

LEMMA PushedIs ==
  ASSUME NEW i \in Images, tree \in Parents
  PROVE  /\ Pushed(i) \in Seq(Images) /\ Descending(Pushed(i))
         /\ Range(Pushed(i)) = Children(i)
<1> DEFINE s == ChildSeq(i)
           r == Pushed(i)
<1>1. /\ s \in Seq(Images) /\ Len(s) \in Nat
      /\ \A k \in 1 .. Len(s) : s[k] \in Children(i)
      /\ \A j \in Children(i) : \E k \in 1 .. Len(s) : s[k] = j
      /\ \A k, l \in 1 .. Len(s) : k < l => s[k] < s[l]
  BY ChildSeqIs
<1>2. \A j \in Children(i) : j \in Nat /\ j \in Images
  <2>1. \A j \in Children(i) : j \in Images \ {1}
    BY ChildrenAre
  <2> QED BY <2>1, NIs DEF Images
<1>3. r = [k \in 1 .. Len(s) |-> s[(Len(s) - k) + 1]]
  BY DEF Pushed, Reverse
<1> HIDE DEF s, r
<1>4. \A k \in 1 .. Len(s) : (Len(s) - k) + 1 \in 1 .. Len(s)
  BY <1>1
<1>5. \A k \in 1 .. Len(s) : r[k] = s[(Len(s) - k) + 1] /\ r[k] \in Images
  BY <1>1, <1>2, <1>3, <1>4
<1>6. DOMAIN r = 1 .. Len(s)
  BY <1>3
<1>7. r \in Seq(Images)
  <2>1. r = [k \in 1 .. Len(s) |-> r[k]]
    BY <1>3
  <2> QED BY <1>1, <1>5, <2>1
<1>8. Descending(r)
  <2> SUFFICES ASSUME NEW k \in 1 .. Len(s), NEW l \in 1 .. Len(s), k < l PROVE r[k] > r[l]
    BY <1>6 DEF Descending
  <2> DEFINE a == (Len(s) - l) + 1
             b == (Len(s) - k) + 1
  <2>1. a \in 1 .. Len(s) /\ b \in 1 .. Len(s) /\ a < b /\ r[k] = s[b] /\ r[l] = s[a]
    BY <1>1, <1>4, <1>5
  <2> HIDE DEF a, b
  <2>2. s[a] < s[b] /\ s[a] \in Nat /\ s[b] \in Nat
    BY <1>1, <1>2, <2>1
  <2> QED BY <2>1, <2>2
<1>9. Range(r) = Children(i)
  <2>1. \A k \in 1 .. Len(s) : r[k] \in Children(i)
    BY <1>1, <1>4, <1>5
  <2>2. ASSUME NEW j \in Children(i) PROVE \E k \in 1 .. Len(s) : r[k] = j
    <3>1. PICK k \in 1 .. Len(s) : s[k] = j
      BY <1>1
    <3>2. (Len(s) - k) + 1 \in 1 .. Len(s) /\ (Len(s) - ((Len(s) - k) + 1)) + 1 = k
      BY <1>1
    <3> QED BY <1>5, <3>1, <3>2
  <2> QED BY <1>6, <2>1, <2>2 DEF Range
<1> QED BY <1>7, <1>8, <1>9 DEF r

\* Depth first, the images are visited in the order of their numbers.
LEMMA VisitOrder ==
  ASSUME tree \in Trees, NEW v \in 0 .. N, NEW s \in Seq(Images), s # <<>>,
         Descending(s), Range(s) = Waiting(v)
  PROVE  /\ Last(s) = v + 1 /\ v + 1 \in Images
         /\ Front(s) \o Pushed(v + 1) \in Seq(Images)
         /\ Descending(Front(s) \o Pushed(v + 1))
         /\ Range(Front(s) \o Pushed(v + 1)) = Waiting(v + 1)
<1>1. Images \in SUBSET Nat /\ 1 \in Images
  BY NIs DEF Images
<1>2. s \in Seq(Nat)
  BY <1>1, SeqMonotonic
<1>3. /\ Last(s) \in Range(s) /\ \A x \in Range(s) : x >= Last(s)
      /\ Range(Front(s)) = Range(s) \ {Last(s)} /\ Descending(Front(s))
  BY <1>1, DescendingFront
<1>4. Front(s) \in Seq(Images)
  BY FrontIs
<1>5. Last(s) = v + 1 /\ v + 1 \in Images
  <2>1. CASE v = 0
    BY <1>1, <1>3, <2>1 DEF Waiting
  <2>2. CASE v # 0
    <3>1. Last(s) \in v + 1 .. N
      BY <1>3, <2>2 DEF Waiting
    <3>2. v + 1 \in Images \ {1} /\ v + 1 \in v + 1 .. N
      BY <2>2, <3>1, NIs DEF Images
    <3>3. tree[v + 1] <= v
      BY <3>2, UpIs
    <3>4. v + 1 \in Range(s)
      BY <2>2, <3>2, <3>3 DEF Waiting
    <3>5. v + 1 >= Last(s)
      BY <1>3, <3>4
    <3> QED BY <3>1, <3>2, <3>5
  <2> QED BY <2>1, <2>2
<1>6. /\ Pushed(v + 1) \in Seq(Images) /\ Descending(Pushed(v + 1))
      /\ Range(Pushed(v + 1)) = Children(v + 1)
  BY <1>5, PushedIs, UpIs
<1> DEFINE f == Front(s)
           q == Pushed(v + 1)
<1>7. ASSUME NEW x \in Range(f), NEW c \in Children(v + 1) PROVE c < x
  <2>1. x \in Waiting(v) /\ x # v + 1
    BY <1>3, <1>5
  <2>2. v # 0 /\ x \in v + 1 .. N /\ tree[x] <= v
    BY <2>1 DEF Waiting
  <2>3. x \in Images /\ x > v + 1 /\ x \in Images \ {1}
    BY <2>1, <2>2, NIs DEF Images
  <2>4. tree[x] \in Nat
    BY <2>3, UpIs
  <2>5. tree[x] < v + 1
    BY <2>2, <2>4
  <2> QED BY <1>5, <2>3, <2>5, ChildrenFirst
<1>8. Range(f \o q) = Waiting(v + 1)
  <2>1. Range(f \o q) = (Waiting(v) \ {v + 1}) \cup Children(v + 1)
    <3>1. Range(f \o q) = Range(f) \cup Range(q)
      BY <1>4, <1>6, RangeConcatenation
    <3> QED BY <1>3, <1>5, <1>6, <3>1
  <2>2. \A j \in 2 .. N : j \in Nat /\ tree[j] \in Nat /\ tree[j] >= 1 /\ tree[j] < j
    BY NIs, UpIs DEF Images
  <2>3. \A j \in Children(v + 1) : j \in 2 .. N /\ tree[j] = v + 1
    BY DEF Children
  <2>4. ASSUME NEW j \in Waiting(v + 1) PROVE j \in (Waiting(v) \ {v + 1}) \cup Children(v + 1)
    <3>1. j \in v + 2 .. N /\ tree[j] <= v + 1
      BY <2>4 DEF Waiting
    <3>2. j \in 2 .. N /\ j # v + 1
      BY <3>1
    <3>3. CASE tree[j] = v + 1
      BY <3>2, <3>3 DEF Children
    <3>4. CASE tree[j] # v + 1
      <4>1. tree[j] <= v /\ v # 0 /\ j \in v + 1 .. N
        BY <2>2, <3>1, <3>2, <3>4
      <4> QED BY <3>2, <4>1 DEF Waiting
    <3> QED BY <3>3, <3>4
  <2>5. ASSUME NEW j \in Children(v + 1) PROVE j \in Waiting(v + 1)
    <3>1. j \in v + 2 .. N /\ tree[j] <= v + 1
      BY <2>2, <2>3
    <3> QED BY <3>1 DEF Waiting
  <2>6. ASSUME NEW j \in Waiting(v) \ {v + 1} PROVE j \in Waiting(v + 1)
    <3>1. v # 0 /\ j \in v + 1 .. N /\ tree[j] <= v
      BY <2>6 DEF Waiting
    <3>2. j \in v + 2 .. N /\ j \in 2 .. N
      BY <2>6, <3>1
    <3>3. tree[j] <= v + 1
      BY <2>2, <3>1, <3>2
    <3> QED BY <3>2, <3>3 DEF Waiting
  <2> QED BY <2>1, <2>4, <2>5, <2>6
<1>9. Descending(f \o q)
  <2> HIDE DEF f, q
  <2>1. /\ f \in Seq(Images) /\ q \in Seq(Images) /\ Len(f) \in Nat /\ Len(q) \in Nat
        /\ DOMAIN f = 1 .. Len(f) /\ DOMAIN q = 1 .. Len(q)
    BY <1>4, <1>6, LenProperties DEF f, q
  <2>2. /\ f \o q \in Seq(Images) /\ Len(f \o q) = Len(f) + Len(q)
        /\ \A k \in 1 .. Len(f) + Len(q) :
             (f \o q)[k] = IF k <= Len(f) THEN f[k] ELSE q[k - Len(f)]
    BY <2>1, ConcatProperties
  <2>3. DOMAIN (f \o q) = 1 .. Len(f) + Len(q)
    BY <2>2, LenProperties
  <2> SUFFICES ASSUME NEW k \in 1 .. Len(f) + Len(q), NEW l \in 1 .. Len(f) + Len(q), k < l
               PROVE  (f \o q)[k] > (f \o q)[l]
    BY <2>3 DEF Descending
  <2>4. CASE l <= Len(f)
    <3>1. k \in 1 .. Len(f) /\ l \in 1 .. Len(f)
      BY <2>1, <2>4
    <3>2. f[k] > f[l]
      BY <1>3, <2>1, <3>1 DEF Descending, f
    <3> QED BY <2>1, <2>2, <3>1, <3>2
  <2>5. CASE k > Len(f)
    <3>1. k - Len(f) \in 1 .. Len(q) /\ l - Len(f) \in 1 .. Len(q) /\ k - Len(f) < l - Len(f)
      BY <2>1, <2>5
    <3>2. q[k - Len(f)] > q[l - Len(f)]
      BY <1>6, <2>1, <3>1 DEF Descending, q
    <3>3. ~(k <= Len(f)) /\ ~(l <= Len(f))
      BY <2>1, <2>5
    <3> QED BY <2>2, <3>2, <3>3
  <2>6. CASE k <= Len(f) /\ l > Len(f)
    <3>1. k \in 1 .. Len(f) /\ l - Len(f) \in 1 .. Len(q)
      BY <2>1, <2>6
    <3>2. f[k] \in Range(f) /\ q[l - Len(f)] \in Range(q)
      BY <2>1, <3>1 DEF Range
    <3>3. q[l - Len(f)] < f[k]
      BY <1>6, <1>7, <3>2 DEF q
    <3>4. q[l - Len(f)] \in Nat /\ f[k] \in Nat
      BY <1>1, <2>1, <3>1, ElementOfSeq
    <3>5. (f \o q)[k] = f[k] /\ (f \o q)[l] = q[l - Len(f)]
      BY <2>1, <2>2, <2>6
    <3> QED BY <3>3, <3>4, <3>5
  <2> QED BY <2>1, <2>4, <2>5, <2>6
<1>10. f \o q \in Seq(Images)
  BY <1>4, <1>6, ConcatProperties
<1> QED BY <1>5, <1>8, <1>9, <1>10

-----------------------------------------------------------------------------
(* The invariant of every tree holds: the visit.                           *)

LEMMA InitLayers == Init => LayersInv
<1> SUFFICES ASSUME Init PROVE LayersInv
  OBVIOUS
<1> USE DEF Init
<1>1. 1 \in Images /\ NoPlace \in Places \cup {NoPlace}
  BY NIs DEF Images
<1>2. <<1>> \in Seq(Images) /\ Len(<<1>>) = 1 /\ <<1>>[1] = 1 /\ Range(<<1>>) = {1}
  BY <1>1, Single
<1>3. TypeOK
  <2>1. <<>> \in Seq(Images) /\ <<>> \in Seq([image : Images, lower : Places]) /\ Len(<<>>) = 0
    BY EmptySeq
  <2>2. visit \in Seq(Images)
    BY <1>2
  <2> QED BY <1>1, <2>1, <2>2, NIs DEF TypeOK
<1>4. LayerIsOwn
  BY DEF LayerIsOwn
<1>5. Visiting(0)
  <2>1. DOMAIN visit = 1 .. 1
    BY <1>2, LenProperties
  <2>2. Descending(visit)
    BY <2>1 DEF Descending
  <2>3. lastChild = {i \in LastChildren : tree[i] <= 0}
    <3>1. \A i \in LastChildren : i \in Images \ {1}
      BY NIs DEF LastChildren, Images
    <3>2. \A i \in LastChildren : tree[i] \in Images
      BY <3>1, UpIs
    <3>3. \A i \in Images : ~(i <= 0)
      BY NIs DEF Images
    <3> QED BY <3>2, <3>3
  <2>4. Len(toBuild) = 0 /\ DOMAIN toBuild = {}
    BY EmptySeq
  <2> QED BY <1>2, <2>2, <2>3, <2>4 DEF Visiting, Waiting
<1>6. 0 \in 0 .. N
  BY NIs
<1> QED BY <1>3, <1>4, <1>5, <1>6 DEF LayersInv

LEMMA VisitStep == LayersInv /\ Visit => LayersInv'
<1> SUFFICES ASSUME LayersInv, Visit PROVE LayersInv'
  OBVIOUS
<1>1. /\ TypeOK /\ LayerIsOwn /\ tree \in Trees /\ visit \in Seq(Images)
      /\ toBuild \in Seq(Images) /\ rootBuilt \in BOOLEAN /\ lastChild \subseteq Images
      /\ tree \in Parents
  BY UpIs DEF LayersInv, TypeOK
<1>2. /\ pc = "visit" /\ visit # <<>>
      /\ visit' = Front(visit) \o Pushed(Last(visit))
      /\ toBuild' = IF Last(visit) = 1 /\ ~rootBuilt THEN toBuild ELSE Append(toBuild, Last(visit))
      /\ lastChild' = IF Children(Last(visit)) = {} THEN lastChild
                      ELSE lastChild \cup {Last(ChildSeq(Last(visit)))}
      /\ UNCHANGED <<shape, pc, img, stack, prevMount, mounts, files, tar, unpackDir, builtOn>>
  BY DEF Visit
<1>3. PICK v \in 0 .. N : Visiting(v)
  BY <1>2 DEF LayersInv
<1> DEFINE i == Last(visit)
<1>4. /\ i = v + 1 /\ v + 1 \in Images
      /\ visit' \in Seq(Images) /\ Descending(visit') /\ Range(visit') = Waiting(v + 1)
  <2>1. /\ Last(visit) = v + 1 /\ v + 1 \in Images
        /\ Front(visit) \o Pushed(v + 1) \in Seq(Images)
        /\ Descending(Front(visit) \o Pushed(v + 1))
        /\ Range(Front(visit) \o Pushed(v + 1)) = Waiting(v + 1)
    BY <1>1, <1>2, <1>3, VisitOrder DEF Visiting
  <2>2. visit' = Front(visit) \o Pushed(v + 1)
    BY <1>2, <2>1
  <2> QED BY <2>1, <2>2
<1>5. /\ lastChild' \subseteq Images
      /\ lastChild' = {c \in LastChildren : tree[c] <= v + 1}
  <2>1. lastChild = {c \in LastChildren : tree[c] <= v}
    BY <1>3 DEF Visiting
  <2>2. \A c \in LastChildren : c \in Images /\ tree[c] \in Nat /\ c \in 2 .. N
    BY <1>1, UpIs, NIs DEF LastChildren, Images
  <2>3. CASE Children(i) = {}
    <3>1. \A c \in LastChildren : tree[c] # v + 1
      BY <1>4, <2>2, <2>3 DEF Children
    <3>2. lastChild' = lastChild
      BY <1>2, <2>3
    <3> QED BY <2>1, <2>2, <3>1, <3>2
  <2>4. CASE Children(i) # {}
    <3> DEFINE l == Last(ChildSeq(i))
    <3>1. /\ l \in LastChildren /\ tree[l] = v + 1
          /\ l \in Children(i) /\ \A c \in Children(i) : c <= l
      BY <1>1, <1>4, <2>4, LastOfChildren, LastIs
    <3>2. lastChild' = lastChild \cup {l}
      BY <1>2, <2>4
    <3> HIDE DEF l
    <3>3. ASSUME NEW c \in LastChildren, tree[c] = v + 1 PROVE c = l
      <4>1. c \in Children(i) /\ l \in Children(tree[c])
        BY <1>4, <2>2, <3>1, <3>3 DEF Children
      <4>2. l <= c /\ c <= l
        BY <3>1, <4>1 DEF LastChildren
      <4>3. l \in Nat /\ c \in Nat
        BY <2>2, <3>1 DEF Images
      <4> QED BY <4>2, <4>3
    <3>4. \A c \in LastChildren : tree[c] <= v + 1 <=> tree[c] <= v \/ tree[c] = v + 1
      BY <2>2
    <3> QED BY <2>1, <2>2, <3>1, <3>2, <3>3, <3>4
  <2> QED BY <2>3, <2>4
<1>6. /\ toBuild' \in Seq(Images)
      /\ Len(toBuild') = (v + 1) - Skipped
      /\ \A k \in DOMAIN toBuild' : toBuild'[k] = Skipped + k
  <2>1. /\ Len(toBuild) = IF v = 0 THEN 0 ELSE v - Skipped
        /\ \A k \in 1 .. Len(toBuild) : toBuild[k] = Skipped + k
        /\ Len(toBuild) \in Nat /\ Skipped \in {0, 1} /\ DOMAIN toBuild = 1 .. Len(toBuild)
    BY <1>1, <1>3, LenProperties DEF Visiting, Skipped
  <2>2. CASE i = 1 /\ ~rootBuilt
    <3>1. toBuild' = toBuild /\ v = 0 /\ Skipped = 1
      BY <1>2, <1>4, <2>2 DEF Skipped
    <3> QED BY <1>1, <2>1, <3>1
  <2>3. CASE ~(i = 1 /\ ~rootBuilt)
    <3>1. toBuild' = Append(toBuild, v + 1) /\ (v = 0 => Skipped = 0)
      BY <1>2, <1>4, <2>3 DEF Skipped
    <3>2. /\ toBuild' \in Seq(Images) /\ Len(toBuild') = Len(toBuild) + 1
          /\ \A k \in 1 .. Len(toBuild) : toBuild'[k] = toBuild[k]
          /\ toBuild'[Len(toBuild) + 1] = v + 1
      BY <1>1, <1>4, <3>1, AppendProperties
    <3>3. Len(toBuild) = v - Skipped
      BY <2>1, <3>1
    <3>4. DOMAIN toBuild' = 1 .. Len(toBuild) + 1
      BY <3>2, LenProperties
    <3>5. ASSUME NEW k \in 1 .. Len(toBuild) + 1 PROVE toBuild'[k] = Skipped + k
      <4>1. k \in 1 .. Len(toBuild) \/ k = Len(toBuild) + 1
        BY <2>1
      <4> QED BY <2>1, <3>2, <3>3, <4>1
    <3> QED BY <2>1, <3>2, <3>3, <3>4, <3>5
  <2> QED BY <2>2, <2>3
<1>7. Visiting(v + 1)' /\ v + 1 \in 0 .. N
  <2>1. v + 1 \in 0 .. N /\ v + 1 # 0
    BY <1>4 DEF Images
  <2>2. Waiting(v + 1)' = Waiting(v + 1) /\ LastChildren' = LastChildren /\ Skipped' = Skipped
        /\ tree' = tree
    BY <1>2 DEF shape, Waiting, LastChildren, Children, Skipped
  <2> QED BY <1>4, <1>5, <1>6, <2>1, <2>2 DEF Visiting
<1>8. TypeOK'
  BY <1>1, <1>2, <1>4, <1>5, <1>6 DEF TypeOK, shape
<1>9. LayerIsOwn'
  BY <1>1, <1>2 DEF LayerIsOwn
<1> QED BY <1>2, <1>7, <1>8, <1>9 DEF LayersInv

LEMMA VisitedStep == LayersInv /\ Visited => LayersInv'
<1> SUFFICES ASSUME LayersInv, Visited PROVE LayersInv'
  OBVIOUS
<1>1. /\ TypeOK /\ LayerIsOwn /\ tree \in Trees /\ toBuild \in Seq(Images) /\ rootBuilt \in BOOLEAN
  BY DEF LayersInv, TypeOK
<1>2. /\ pc = "visit" /\ visit = <<>> /\ pc' = "next"
      /\ UNCHANGED <<shape, plan, toBuild, img, stack, prevMount, mounts, files, tar, unpackDir,
                     builtOn>>
  BY DEF Visited
<1>3. /\ img = 0 /\ mounts = <<>> /\ files = [p \in Places |-> {}]
      /\ tar = [i \in Images |-> {}] /\ unpackDir = [i \in Images |-> NoPlace]
  BY <1>2 DEF LayersInv
<1>4. PICK v \in 0 .. N : Visiting(v)
  BY <1>2 DEF LayersInv
<1>5. v = N
  <2>1. Range(visit) = {}
    BY <1>2 DEF Range
  <2>2. Waiting(v) = {} /\ v # 0
    BY <1>4, <2>1 DEF Visiting, Waiting
  <2>3. SUFFICES ASSUME v # N PROVE FALSE
    OBVIOUS
  <2>4. v + 1 \in Images \ {1} /\ v + 1 \in v + 1 .. N
    BY <2>2, <2>3, NIs DEF Images
  <2>5. tree[v + 1] <= v
    BY <1>1, <2>4, UpIs
  <2> QED BY <2>2, <2>4, <2>5 DEF Waiting
<1>6. /\ lastChild = LastChildren
      /\ Len(toBuild) = N - Skipped /\ Skipped \in {0, 1}
      /\ \A k \in DOMAIN toBuild : toBuild[k] = (N - Len(toBuild)) + k
  <2>1. \A i \in LastChildren : tree[i] <= N
    <3>1. \A i \in LastChildren : i \in Images \ {1}
      BY NIs DEF LastChildren, Images
    <3>2. \A i \in LastChildren : tree[i] \in Images
      BY <1>1, <3>1, UpIs
    <3> QED BY <3>2, NIs DEF Images
  <2>2. lastChild = LastChildren
    BY <1>4, <1>5, <2>1 DEF Visiting
  <2>3. Len(toBuild) = N - Skipped /\ Skipped \in {0, 1}
    BY <1>4, <1>5, NIs DEF Visiting, Skipped
  <2>4. N - (N - Skipped) = Skipped
    BY <2>3, NIs
  <2> QED BY <1>4, <2>2, <2>3, <2>4 DEF Visiting
<1>7. TypeOK' /\ LayerIsOwn'
  BY <1>1, <1>2 DEF TypeOK, LayerIsOwn, shape, plan
<1>8. Queued'
  <2>1. LastChildren' = LastChildren /\ Skipped' = Skipped
    BY <1>2 DEF shape, LastChildren, Children, Skipped
  <2>2. lastChild' = lastChild /\ toBuild' = toBuild /\ img' = 0
    BY <1>2, <1>3 DEF plan
  <2>3. Len(toBuild) <= N - Skipped
    BY <1>6, NIs
  <2> QED BY <1>6, <2>1, <2>2, <2>3 DEF Queued
<1>9. Layered'
  <2>1. img' = 0 /\ tar' = [i \in Images |-> {}] /\ files' = [p \in Places |-> {}] /\ pc' = "next"
    BY <1>2, <1>3
  <2>2. \A i \in Images : ~Made(i)'
    BY <2>1, NIs DEF Made, Images
  <2>3. \A i \in Images : files'[Dir(i)] = {}
    BY <2>1, PlacesAre
  <2> QED BY <2>1, <2>2, <2>3 DEF Layered
<1>10. Unpacked'
  <2>1. img' = 0 /\ unpackDir' = [i \in Images |-> NoPlace] /\ pc' = "next"
    BY <1>2, <1>3
  <2>2. 1 \in Images /\ \A i \in 2 .. N : i \in Images
    BY NIs DEF Images
  <2>3. ~Made(1)'
    BY <2>1, <2>2, NIs DEF Made
  <2> QED BY <2>1, <2>2, <2>3 DEF Unpacked
<1>11. Mounted'
  <2>1. mounts' = <<>> /\ Len(mounts') = 0 /\ DOMAIN mounts' = {} /\ pc' = "next"
    BY <1>2, <1>3, EmptySeq
  <2> QED BY <2>1 DEF Mounted
<1>12. Turn'
  BY <1>2 DEF Turn
<1> QED BY <1>2, <1>7, <1>8, <1>9, <1>10, <1>11, <1>12 DEF LayersInv, Building

-----------------------------------------------------------------------------
(* The invariant of every tree holds: the builds.                          *)

LEMMA BuildFacts ==
  ASSUME LayersInv, pc \notin {"visit", "failed"}
  PROVE  /\ TypeOK /\ LayerIsOwn /\ Building
         /\ Queued /\ Layered /\ Unpacked /\ Mounted /\ Turn
         /\ tree \in Trees /\ tree \in Parents /\ rootBuilt \in BOOLEAN
         /\ img \in Nat /\ img <= N /\ (img # 0 => img \in Images)
         /\ (img # 0 => img > Skipped) /\ Skipped \in {0, 1}
         /\ (~rootBuilt => img # 1)
         /\ Len(toBuild) \in Nat /\ DOMAIN toBuild = 1 .. Len(toBuild)
         /\ \A i \in Images : i \in Nat
<1>1. TypeOK /\ LayerIsOwn /\ Building
  BY DEF LayersInv
<1>2. Queued /\ Layered /\ Unpacked /\ Mounted /\ Turn
  BY <1>1 DEF Building
<1>3. tree \in Trees /\ tree \in Parents /\ rootBuilt \in BOOLEAN
  BY <1>1, UpIs DEF TypeOK
<1>4. img \in Nat /\ img <= N /\ (img # 0 => img \in Images)
  BY <1>1, NIs DEF TypeOK, Images
<1>5. Len(toBuild) \in Nat /\ DOMAIN toBuild = 1 .. Len(toBuild)
  BY <1>1, LenProperties DEF TypeOK
<1>6. Skipped \in {0, 1} /\ (~rootBuilt => Skipped = 1)
  BY DEF Skipped
<1>7. img # 0 => img > Skipped
  <2>1. /\ Len(toBuild) <= N - Skipped
        /\ img = IF Len(toBuild) = N - Skipped THEN 0 ELSE N - Len(toBuild)
    BY <1>2 DEF Queued
  <2>2. ASSUME Len(toBuild) # N - Skipped PROVE N - Len(toBuild) > Skipped
    BY <1>5, <1>6, <2>1, <2>2, NIs
  <2> QED BY <2>1, <2>2
<1>8. ~rootBuilt => img # 1
  BY <1>6, <1>7
<1>9. \A i \in Images : i \in Nat
  BY NIs DEF Images
<1> QED BY <1>1, <1>2, <1>3, <1>4, <1>5, <1>6, <1>7, <1>8, <1>9

LEMMA TakeIs ==
  ASSUME LayersInv, Take
  PROVE  /\ img' \in Images /\ img' = (IF img = 0 THEN Skipped + 1 ELSE img + 1)
         /\ img' = (N - Len(toBuild)) + 1
         /\ toBuild \in Seq(Images) /\ Len(toBuild) >= 1
         /\ toBuild' \in Seq(Images) /\ Len(toBuild') = Len(toBuild) - 1
         /\ \A k \in 1 .. Len(toBuild') : toBuild'[k] = toBuild[k + 1]
         /\ DOMAIN toBuild' = 1 .. Len(toBuild')
         /\ tree' = tree /\ rootBuilt' = rootBuilt /\ Skipped' = Skipped
         /\ LastChildren' = LastChildren
         /\ pc = "next" /\ pc' \in {"base", "parent"} /\ (pc' = "base" <=> img' = 1)
         /\ img' \in Nat /\ (img' = 1 => Skipped = 0 /\ img = 0)
         /\ \A i \in Images : (Made(i)' <=> Made(i))
         /\ \A i : (HasChild(i)' <=> HasChild(i))
<1>1. /\ pc = "next" /\ toBuild # <<>> /\ img' = Head(toBuild) /\ toBuild' = Tail(toBuild)
      /\ pc' = IF Head(toBuild) = 1 THEN "base" ELSE "parent"
      /\ UNCHANGED <<shape, plan, stack, prevMount, mounts, files, tar, unpackDir, builtOn>>
  BY DEF Take
<1>2. /\ TypeOK /\ LayerIsOwn /\ Queued /\ Layered /\ Unpacked /\ Mounted /\ Turn
      /\ tree \in Trees /\ rootBuilt \in BOOLEAN
      /\ img \in Nat /\ img <= N /\ Skipped \in {0, 1} /\ (img # 0 => img > Skipped)
      /\ (~rootBuilt => img # 1)
      /\ Len(toBuild) \in Nat /\ DOMAIN toBuild = 1 .. Len(toBuild)
      /\ \A i \in Images : i \in Nat
  BY <1>1, BuildFacts
<1>3. toBuild \in Seq(Images) /\ Len(toBuild) >= 1
  BY <1>1, <1>2, EmptySeq DEF TypeOK
<1>4. /\ img' \in Images /\ toBuild' \in Seq(Images) /\ Len(toBuild') = Len(toBuild) - 1
      /\ \A k \in 1 .. Len(toBuild') : toBuild'[k] = toBuild[k + 1]
      /\ DOMAIN toBuild' = 1 .. Len(toBuild')
  BY <1>1, <1>3, HeadTailProperties, LenProperties
<1>5. img' = (N - Len(toBuild)) + 1 /\ img' = IF img = 0 THEN Skipped + 1 ELSE img + 1
  <2>1. 1 \in DOMAIN toBuild
    BY <1>2, <1>3
  <2>2. img' = toBuild[1]
    BY <1>1, <1>3
  <2>3. toBuild[1] = (N - Len(toBuild)) + 1
    BY <1>2, <2>1 DEF Queued
  <2>4. /\ img = IF Len(toBuild) = N - Skipped THEN 0 ELSE N - Len(toBuild)
        /\ Len(toBuild) <= N - Skipped
    BY <1>2 DEF Queued
  <2>5. (N - Len(toBuild)) + 1 = IF img = 0 THEN Skipped + 1 ELSE img + 1
    <3>1. CASE Len(toBuild) = N - Skipped
      BY <1>2, <2>4, <3>1, NIs
    <3>2. CASE Len(toBuild) # N - Skipped
      <4>1. img = N - Len(toBuild)
        BY <2>4, <3>2
      <4>2. Len(toBuild) \in Nat /\ Skipped \in Nat /\ N \in Nat
        BY <1>2, NIs
      <4>3. Len(toBuild) < N - Skipped
        BY <2>4, <3>2, <4>2
      <4>4. N - Len(toBuild) # 0
        BY <4>2, <4>3
      <4> QED BY <4>1, <4>4
    <3> QED BY <3>1, <3>2
  <2> QED BY <2>2, <2>3, <2>5
<1>6. tree' = tree /\ rootBuilt' = rootBuilt /\ Skipped' = Skipped /\ LastChildren' = LastChildren
  BY <1>1 DEF shape, Skipped, LastChildren, Children
<1>7. img' \in Nat /\ (rootBuilt <=> Skipped = 0) /\ (img' = 1 => Skipped = 0 /\ img = 0)
  BY <1>2, <1>4, <1>5 DEF Skipped
<1>8. pc' \in {"base", "parent"} /\ (pc' = "base" <=> img' = 1)
  BY <1>1
<1>9. ASSUME NEW i \in Images PROVE Made(i)' <=> Made(i)
  <2>1. i \in Nat
    BY <1>2
  <2>2. CASE i = 1 /\ ~rootBuilt
    <3>1. img' = (IF img = 0 THEN 2 ELSE img + 1) /\ img' # 1
      BY <1>2, <1>5, <1>7, <2>2
    <3>2. pc' = "parent" /\ pc = "next"
      BY <1>1, <1>8, <3>1
    <3>3. (img' > 2) <=> (img > 2 \/ img = 2)
      BY <1>2, <2>2, <3>1
    <3> QED BY <1>6, <2>2, <3>2, <3>3 DEF Made
  <2>3. CASE ~(i = 1 /\ ~rootBuilt)
    <3>1. (i < img' <=> i <= img)
      <4>1. img = 0 => img' <= i
        BY <1>2, <1>5, <1>7, <2>1, <2>3 DEF Images
      <4> QED BY <1>2, <1>5, <2>1, <4>1, NIs DEF Images
    <3>2. Made(i)' <=> i < img'
      BY <1>6, <1>8, <2>3 DEF Made
    <3>3. Made(i) <=> i < img \/ i = img
      BY <1>1, <2>3 DEF Made
    <3>4. i <= img <=> i < img \/ i = img
      BY <1>2, <2>1
    <3> QED BY <3>1, <3>2, <3>3, <3>4
  <2> QED BY <2>2, <2>3
<1>10. ASSUME NEW i PROVE HasChild(i)' <=> HasChild(i)
  <2>1. \A j \in 2 .. N : j < img' <=> (j < img \/ j = img)
    BY <1>2, <1>5
  <2>2. HasChild(i)' <=> \E j \in 2 .. N : tree[j] = i /\ j < img'
    BY <1>6, <1>8 DEF HasChild
  <2>3. HasChild(i) <=> \E j \in 2 .. N : tree[j] = i /\ (j < img \/ j = img)
    BY <1>1 DEF HasChild
  <2> QED BY <2>1, <2>2, <2>3
<1> QED BY <1>1, <1>3, <1>4, <1>5, <1>6, <1>7, <1>8, <1>9, <1>10

LEMMA TakeStep == LayersInv /\ Take => LayersInv'
<1> SUFFICES ASSUME LayersInv, Take PROVE LayersInv'
  OBVIOUS
<1>1. /\ pc = "next"
      /\ UNCHANGED <<shape, plan, stack, prevMount, mounts, files, tar, unpackDir, builtOn>>
  BY DEF Take
<1>2. /\ TypeOK /\ LayerIsOwn /\ Queued /\ Layered /\ Unpacked /\ Mounted /\ Turn
      /\ tree \in Trees /\ rootBuilt \in BOOLEAN
      /\ img \in Nat /\ img <= N /\ Skipped \in {0, 1} /\ (img # 0 => img > Skipped)
      /\ Len(toBuild) \in Nat /\ DOMAIN toBuild = 1 .. Len(toBuild)
      /\ \A i \in Images : i \in Nat
  BY <1>1, BuildFacts
<1>3. toBuild \in Seq(Images) /\ Len(toBuild) >= 1
  BY TakeIs
<1>4. /\ img' \in Images /\ toBuild' \in Seq(Images) /\ Len(toBuild') = Len(toBuild) - 1
      /\ \A k \in 1 .. Len(toBuild') : toBuild'[k] = toBuild[k + 1]
      /\ DOMAIN toBuild' = 1 .. Len(toBuild')
  BY TakeIs
<1>5. img' = (N - Len(toBuild)) + 1 /\ img' = IF img = 0 THEN Skipped + 1 ELSE img + 1
  BY TakeIs
<1>6. tree' = tree /\ rootBuilt' = rootBuilt /\ Skipped' = Skipped /\ LastChildren' = LastChildren
  BY TakeIs
<1>7. img' \in Nat /\ (img' = 1 => Skipped = 0 /\ img = 0)
  BY TakeIs
<1>8. pc' \in {"base", "parent"} /\ (pc' = "base" <=> img' = 1)
  BY TakeIs
<1>9. \A i \in Images : Made(i)' <=> Made(i)
  BY TakeIs
<1>10. \A i : HasChild(i) => HasChild(i)'
  BY TakeIs
<1>11. TypeOK'
  BY <1>1, <1>2, <1>4, <1>8 DEF TypeOK, shape, plan, Images
<1>12. LayerIsOwn'
  BY <1>1, <1>2 DEF LayerIsOwn
<1>13. Queued'
  <2>1. lastChild' = LastChildren
    BY <1>1, <1>2 DEF Queued, plan
  <2>2. Len(toBuild') < N - Skipped
    <3>1. Len(toBuild) <= N - Skipped
      BY <1>2 DEF Queued
    <3> QED BY <1>2, <1>3, <1>4, <3>1, NIs
  <2>3. img' = N - Len(toBuild')
    BY <1>2, <1>4, <1>5, NIs
  <2>4. ASSUME NEW k \in 1 .. Len(toBuild') PROVE toBuild'[k] = (N - Len(toBuild')) + k
    <3>1. k + 1 \in DOMAIN toBuild /\ toBuild'[k] = toBuild[k + 1]
      BY <1>2, <1>4
    <3>2. toBuild[k + 1] = (N - Len(toBuild)) + (k + 1)
      BY <1>2, <3>1 DEF Queued
    <3> QED BY <1>2, <1>4, <3>1, <3>2, NIs
  <2>5. Len(toBuild') <= N - Skipped /\ Len(toBuild') # N - Skipped
    BY <1>2, <1>4, <2>2, NIs
  <2> QED BY <1>4, <1>6, <2>1, <2>3, <2>4, <2>5 DEF Queued
<1>14. Layered'
  <2>1. tar' = tar /\ files' = files
    BY <1>1
  <2>2. ASSUME NEW i \in Images, Empty(i)' PROVE Empty(i)
    <3>1. i >= img'
      BY <1>2, <1>7, <2>2 DEF Empty
    <3>2. i > img
      BY <1>2, <1>5, <1>7, <3>1
    <3> QED BY <1>6, <2>2, <3>2 DEF Empty
  <2>3. \A i \in Images : Dir(i)' = Dir(i)
    BY DEF Dir
  <2> QED BY <1>2, <1>8, <1>9, <2>1, <2>2, <2>3 DEF Layered
<1>15. Unpacked'
  <2>1. unpackDir' = unpackDir /\ 1 \in Images
    BY <1>1, NIs DEF Images
  <2>2. \A i \in Images : Before(unpackDir[i], i) => Before(unpackDir[i], i)'
    BY <2>1 DEF Before
  <2>3. \A i \in 2 .. N : i \in Images
    BY NIs DEF Images
  <2>4. unpackDir'[1] = IF Made(1)' THEN Dir(1) ELSE NoPlace
    BY <1>2, <1>9, <2>1 DEF Unpacked
  <2>5. ASSUME NEW i \in 2 .. N, unpackDir'[i] # NoPlace
        PROVE  i \in LastChildren' /\ HasChild(i)' /\ Before(unpackDir[i], i)'
    BY <1>2, <1>6, <1>10, <2>1, <2>2, <2>3, <2>5 DEF Unpacked
  <2> QED BY <2>1, <2>4, <2>5 DEF Unpacked
<1>16. Mounted'
  <2>1. mounts' = <<>> /\ Len(mounts') = 0 /\ DOMAIN mounts' = {}
    BY <1>1, <1>2, EmptySeq DEF Mounted
  <2> QED BY <1>8, <2>1 DEF Mounted
<1>17. Turn'
  BY <1>4, <1>7, <1>8, NIs DEF Turn, Images
<1> QED BY <1>8, <1>11, <1>12, <1>13, <1>14, <1>15, <1>16, <1>17 DEF LayersInv, Building

\* A step within one phase of a build changes neither what is there nor what is empty.
LEMMA SamePhase ==
  ASSUME UNCHANGED <<shape, img>>,
         pc' = "parent" <=> pc = "parent",
         pc' \in {"base", "parent"} <=> pc \in {"base", "parent"},
         pc' \in {"next", "done"} <=> pc \in {"next", "done"}
  PROVE  /\ \A i : (Made(i)' <=> Made(i)) /\ (HasChild(i)' <=> HasChild(i))
         /\ LastChildren' = LastChildren /\ Up' = Up /\ Skipped' = Skipped
         /\ tree' = tree /\ rootBuilt' = rootBuilt
<1>1. tree' = tree /\ rootBuilt' = rootBuilt /\ img' = img
  BY DEF shape
<1>2. LastChildren' = LastChildren /\ Up' = Up /\ Skipped' = Skipped
  BY <1>1 DEF LastChildren, Children, Up, Skipped
<1>3. \A i : Made(i)' <=> Made(i)
  BY <1>1 DEF Made
<1>4. \A i : HasChild(i)' <=> HasChild(i)
  BY <1>1 DEF HasChild
<1> QED BY <1>1, <1>2, <1>3, <1>4

LEMMA DoneStep == LayersInv /\ Done => LayersInv'
<1> SUFFICES ASSUME LayersInv, Done PROVE LayersInv'
  OBVIOUS
<1>1. /\ pc = "next" /\ toBuild = <<>> /\ pc' = "done"
      /\ UNCHANGED <<shape, plan, toBuild, img, stack, prevMount, mounts, files, tar, unpackDir,
                     builtOn>>
  BY DEF Done
<1>2. TypeOK /\ LayerIsOwn /\ Queued /\ Layered /\ Unpacked /\ Mounted /\ Turn
  BY <1>1, BuildFacts
<1>3. /\ \A i : (Made(i)' <=> Made(i)) /\ (HasChild(i)' <=> HasChild(i))
      /\ LastChildren' = LastChildren /\ Up' = Up /\ Skipped' = Skipped
      /\ tree' = tree /\ rootBuilt' = rootBuilt
  BY <1>1, SamePhase
<1>4. TypeOK' /\ LayerIsOwn'
  BY <1>1, <1>2 DEF TypeOK, LayerIsOwn, shape, plan
<1>5. Queued'
  BY <1>1, <1>2, <1>3 DEF Queued, plan
<1>6. Layered'
  <2>1. \A i : Empty(i)' => Empty(i)
    BY <1>1, <1>3 DEF Empty
  <2> QED BY <1>1, <1>2, <1>3, <2>1 DEF Layered, Dir
<1>7. Unpacked'
  BY <1>1, <1>2, <1>3 DEF Unpacked, Before
<1>8. Mounted'
  BY <1>1, <1>2 DEF Mounted
<1>9. Turn'
  BY <1>1, <1>2 DEF Turn
<1> QED BY <1>1, <1>4, <1>5, <1>6, <1>7, <1>8, <1>9 DEF LayersInv, Building

LEMMA FailStep == LayersInv /\ Fail => LayersInv'
<1> SUFFICES ASSUME LayersInv, Fail PROVE LayersInv'
  OBVIOUS
<1>1. TypeOK /\ LayerIsOwn
  BY DEF LayersInv
<1>2. TypeOK' /\ LayerIsOwn' /\ pc' = "failed"
  BY <1>1 DEF Fail, TypeOK, LayerIsOwn, shape, plan
<1> QED BY <1>2 DEF LayersInv

LEMMA StillStep == LayersInv /\ UNCHANGED vars => LayersInv'
<1> SUFFICES ASSUME LayersInv, UNCHANGED vars PROVE LayersInv'
  OBVIOUS
<1>1. UNCHANGED <<tree, rootBuilt, pc, visit, toBuild, lastChild, img, stack, prevMount, mounts,
                  files, tar, unpackDir, builtOn>>
  BY DEF vars
<1>2. TypeOK' = TypeOK /\ LayerIsOwn' = LayerIsOwn
  BY <1>1 DEF TypeOK, LayerIsOwn
<1>3. \A v : Visiting(v)' = Visiting(v)
  BY <1>1 DEF Visiting, Waiting, Skipped, LastChildren, Children
<1>4. Building' = Building
  BY <1>1 DEF Building, Queued, Layered, Unpacked, Mounted, Turn, Stacking, LastChildren, Children,
              Skipped, Made, HasChild, Empty, Before, Up
<1> QED BY <1>1, <1>2, <1>3, <1>4 DEF LayersInv

LEMMA WriteBaseStep == LayersInv /\ WriteBase => LayersInv'
<1> SUFFICES ASSUME LayersInv, WriteBase PROVE LayersInv'
  OBVIOUS
<1>1. /\ pc = "base" /\ pc' = "next"
      /\ files' = [files EXCEPT ![Dir(1)] = @ \cup {1}]
      /\ tar' = [tar EXCEPT ![1] = files'[Dir(1)]]
      /\ unpackDir' = [unpackDir EXCEPT ![1] = Dir(1)]
      /\ UNCHANGED <<shape, plan, toBuild, img, stack, prevMount, mounts, builtOn>>
  BY DEF WriteBase
<1>2. /\ TypeOK /\ LayerIsOwn /\ Queued /\ Layered /\ Unpacked /\ Mounted /\ Turn
      /\ (~rootBuilt => img # 1) /\ (\A i \in Images : i \in Nat)
  BY <1>1, BuildFacts
<1>3. img = 1 /\ img' = 1 /\ rootBuilt /\ 1 \in Images /\ tree' = tree /\ rootBuilt' = rootBuilt
  BY <1>1, <1>2, NIs DEF Turn, Images, shape
<1>4. /\ files \in [Places -> SUBSET Images] /\ tar \in [Images -> SUBSET Images]
      /\ unpackDir \in [Images -> Places \cup {NoPlace}] /\ Dir(1) \in Places
  BY <1>2, <1>3, PlacesAre DEF TypeOK
<1>5. files[Dir(1)] = {} /\ files'[Dir(1)] = {1}
  <2>1. Empty(1)
    BY <1>1, <1>3 DEF Empty
  <2> QED BY <1>1, <1>2, <1>3, <1>4, <2>1 DEF Layered
<1>6. \A i \in Images \ {1} : files'[Dir(i)] = files[Dir(i)] /\ tar'[i] = tar[i]
                              /\ unpackDir'[i] = unpackDir[i]
  <2>1. \A i \in Images \ {1} : Dir(i) # Dir(1) /\ Dir(i) \in Places
    BY <1>3, PlacesAre
  <2> QED BY <1>1, <1>4, <2>1
<1>7. tar'[1] = {1} /\ unpackDir'[1] = Dir(1)
  BY <1>1, <1>3, <1>4, <1>5
<1>8. LastChildren' = LastChildren /\ Skipped' = Skipped
  BY <1>3 DEF LastChildren, Children, Skipped
<1>9. TypeOK'
  <2>1. files' \in [Places -> SUBSET Images]
    BY <1>1, <1>3, <1>4
  <2>2. tar' \in [Images -> SUBSET Images]
    BY <1>1, <1>3, <1>4, <1>5
  <2>3. unpackDir' \in [Images -> Places \cup {NoPlace}]
    BY <1>1, <1>3, <1>4
  <2> QED BY <1>1, <1>2, <2>1, <2>2, <2>3 DEF TypeOK, shape, plan
<1>10. LayerIsOwn'
  BY <1>2, <1>6, <1>7 DEF LayerIsOwn
<1>11. Queued'
  BY <1>1, <1>2, <1>8 DEF Queued, plan
<1>12. Layered'
  <2>1. Made(1)' /\ \A i \in Images \ {1} : ~Made(i) /\ ~Made(i)'
    BY <1>1, <1>2, <1>3, NIs DEF Made, Images
  <2>2. \A i \in Images : Empty(i)' => i # 1 /\ Empty(i)
    BY <1>1, <1>2, <1>3 DEF Empty
  <2>3. \A i : Dir(i)' = Dir(i)
    BY DEF Dir
  <2> QED BY <1>1, <1>2, <1>6, <1>7, <2>1, <2>2, <2>3 DEF Layered
<1>13. Unpacked'
  <2>1. \A i : ~HasChild(i)
    BY <1>3, NIs DEF HasChild
  <2>2. \A i \in 2 .. N : i \in Images \ {1}
    BY NIs DEF Images
  <2>3. \A i \in 2 .. N : unpackDir'[i] = NoPlace
    BY <1>2, <1>6, <2>1, <2>2 DEF Unpacked
  <2>4. Made(1)'
    BY <1>1, <1>3 DEF Made
  <2>5. Dir(1)' = Dir(1) /\ NoPlace' = NoPlace
    BY DEF Dir, NoPlace
  <2> QED BY <1>7, <2>3, <2>4, <2>5 DEF Unpacked
<1>14. Mounted'
  BY <1>1, <1>2 DEF Mounted
<1>15. Turn'
  BY <1>1, <1>2 DEF Turn
<1> QED BY <1>1, <1>9, <1>10, <1>11, <1>12, <1>13, <1>14, <1>15 DEF LayersInv, Building

\* What is still to be stacked for an image: itself and those above it, down to one that is
\* unpacked.
LEMMA HierarchyIs ==
  ASSUME tree \in Trees, img \in Images, img # 1, NEW unpacked, unpacked[1] # NoPlace
  PROVE  LET h == Hierarchy(unpacked)
         IN  /\ Front(h) \in Seq(Images) /\ Len(Front(h)) >= 1 /\ Front(h)[1] = img
             /\ Descending(Front(h))
             /\ Last(h) \in Up[img] \ {img} /\ unpacked[Last(h)] # NoPlace
             /\ \A x \in Range(Front(h)) : x \in Up[img] \ {1} /\ x > Last(h)
             /\ \A x \in Range(Front(h)) \ {img} : unpacked[x] = NoPlace
             /\ \A x \in Up[img] : x > Last(h) => x \in Range(Front(h))
<1> DEFINE found == {i \in Images : unpacked[i] # NoPlace}
           p == Path(tree, found)[tree[img]]
           h == <<img>> \o p
           f == Front(h)
           n == Len(p)
<1>1. /\ tree \in Parents /\ tree[img] \in Images /\ tree[img] < img /\ img \in Nat
      /\ Up[img] = {img} \cup Up[tree[img]] /\ 1 \in Images
      /\ \A x \in Up[tree[img]] : x <= tree[img] /\ x \in Nat /\ x \in Images
      /\ tree[img] \in Nat
  BY UpIs, NIs DEF Images
<1>2. Hierarchy(unpacked) = h
  BY DEF Hierarchy
<1>3. /\ p \in Seq(Images) /\ n >= 1 /\ p[1] = tree[img]
      /\ \A k \in 1 .. n - 1 : p[k] \notin found \cup {1}
      /\ p[n] \in found \cup {1}
      /\ \A k, l \in 1 .. n : k < l => p[k] > p[l]
      /\ \A k \in 1 .. n : p[k] \in Up[tree[img]]
      /\ \A x \in Up[tree[img]] : x >= p[n] => \E k \in 1 .. n : p[k] = x
  <2>1. tree \in Parents /\ tree[img] \in Images /\ Lineage(tree)[tree[img]] = Up[tree[img]]
    BY <1>1 DEF Up
  <2> HIDE DEF found
  <2> QED BY <2>1, PathFacts
<1>4. 1 \in found /\ \A x \in Images : x \in found <=> unpacked[x] # NoPlace
  BY <1>1
<1> HIDE DEF p, found
<1>5. n \in Nat
  BY <1>3, LenProperties
<1>6. /\ h \in Seq(Images) /\ Len(h) = n + 1 /\ h[1] = img
      /\ \A k \in 2 .. n + 1 : h[k] = p[k - 1]
  BY <1>3, Prepend
<1> HIDE DEF h
<1>7. h # <<>>
  BY <1>5, <1>6, EmptySeq
<1>8. /\ f \in Seq(Images) /\ Len(f) = n /\ DOMAIN f = 1 .. n
      /\ \A k \in 1 .. n : f[k] = h[k]
      /\ Last(h) = h[n + 1]
  <2>1. (n + 1) - 1 = n
    BY <1>5
  <2>2. /\ Len(h) - 1 = n /\ Last(h) = h[Len(h)]
        /\ f \in Seq(Images) /\ Len(f) = Len(h) - 1 /\ DOMAIN f = 1 .. Len(h) - 1
        /\ \A k \in 1 .. Len(h) - 1 : f[k] = h[k]
    BY <1>6, <1>7, <2>1, FrontIs
  <2> QED BY <1>6, <2>2
<1> HIDE DEF f
<1>9. Last(h) = p[n] /\ 1 \in 1 .. n /\ n \in 1 .. n
  <2>1. n + 1 \in 2 .. n + 1 /\ (n + 1) - 1 = n
    BY <1>3, <1>5
  <2>2. 1 \in 1 .. n /\ n \in 1 .. n
    BY <1>3, <1>5
  <2> QED BY <1>6, <1>8, <2>1, <2>2
<1>10. f[1] = img /\ \A k \in 2 .. n : f[k] = p[k - 1] /\ k - 1 \in 1 .. n - 1 /\ k - 1 \in 1 .. n
  <2>1. \A k \in 2 .. n : /\ k \in 1 .. n /\ k \in 2 .. n + 1
                          /\ k - 1 \in 1 .. n - 1 /\ k - 1 \in 1 .. n
    BY <1>5
  <2> QED BY <1>6, <1>8, <1>9, <2>1
<1>11. \A k \in 1 .. n : k = 1 \/ k \in 2 .. n
  BY <1>5
<1>12. \A k \in 1 .. n : p[k] < img /\ p[k] \in Nat /\ p[k] \in Images
  <2> SUFFICES ASSUME NEW k \in 1 .. n PROVE p[k] < img /\ p[k] \in Nat /\ p[k] \in Images
    OBVIOUS
  <2>1. p[k] <= tree[img] /\ p[k] \in Nat /\ p[k] \in Images
    BY <1>1, <1>3
  <2> QED BY <1>1, <2>1
<1>13. \A k \in 1 .. n - 1 : p[k] > p[n]
  <2>1. \A k \in 1 .. n - 1 : k \in 1 .. n /\ k < n
    BY <1>5
  <2> QED BY <1>3, <1>9, <2>1
<1>14. ASSUME NEW k \in 1 .. n
       PROVE  f[k] \in Up[img] \ {1} /\ f[k] > p[n] /\ (f[k] # img => unpacked[f[k]] = NoPlace)
  <2>1. CASE k = 1
    <3>1. p[n] < img /\ p[n] \in Nat
      BY <1>9, <1>12
    <3> QED BY <1>1, <1>10, <2>1, <3>1
  <2>2. CASE k \in 2 .. n
    <3>1. f[k] = p[k - 1] /\ k - 1 \in 1 .. n - 1 /\ k - 1 \in 1 .. n
      BY <1>10, <2>2
    <3>2. p[k - 1] \in Up[tree[img]] /\ p[k - 1] \notin found \cup {1} /\ p[k - 1] > p[n]
          /\ p[k - 1] \in Images
      BY <1>3, <1>12, <1>13, <3>1
    <3> QED BY <1>1, <1>4, <3>1, <3>2
  <2> QED BY <1>11, <2>1, <2>2
<1>15. Descending(f)
  <2> SUFFICES ASSUME NEW k \in 1 .. n, NEW l \in 1 .. n, k < l PROVE f[k] > f[l]
    BY <1>8 DEF Descending
  <2>1. l \in 2 .. n
    BY <1>5
  <2>2. f[l] = p[l - 1] /\ l - 1 \in 1 .. n
    BY <1>10, <2>1
  <2>3. CASE k = 1
    <3>1. p[l - 1] < img /\ p[l - 1] \in Nat
      BY <1>12, <2>2
    <3> QED BY <1>1, <1>10, <2>2, <2>3, <3>1
  <2>4. CASE k \in 2 .. n
    <3>1. f[k] = p[k - 1] /\ k - 1 \in 1 .. n
      BY <1>10, <2>4
    <3>2. k - 1 < l - 1
      OBVIOUS
    <3> QED BY <1>3, <2>2, <3>1, <3>2
  <2> QED BY <1>11, <2>3, <2>4
<1>16. Last(h) \in Up[img] \ {img} /\ unpacked[Last(h)] # NoPlace
  <2>1. p[n] \in Up[tree[img]] /\ p[n] < img /\ p[n] \in Nat /\ p[n] \in Images
        /\ p[n] \in found \cup {1}
    BY <1>3, <1>9, <1>12
  <2>2. p[n] # img
    BY <1>1, <2>1
  <2> QED BY <1>1, <1>4, <1>9, <2>1, <2>2
<1>17. ASSUME NEW x \in Up[img], x > Last(h) PROVE \E k \in 1 .. n : f[k] = x
  <2>1. CASE x = img
    BY <1>9, <1>10, <2>1
  <2>2. CASE x # img
    <3>1. x \in Up[tree[img]] /\ x \in Nat /\ p[n] \in Nat
      BY <1>1, <1>9, <1>12, <2>2
    <3>2. x >= p[n] /\ x # p[n]
      BY <1>9, <1>17, <3>1
    <3>3. PICK k \in 1 .. n : p[k] = x
      BY <1>3, <3>1, <3>2
    <3>4. k + 1 \in 2 .. n /\ (k + 1) - 1 = k
      <4>1. k # n
        BY <3>2, <3>3
      <4> QED BY <1>5, <4>1
    <3>5. k + 1 \in 1 .. n
      BY <1>5, <3>4
    <3> QED BY <1>10, <3>3, <3>4, <3>5
  <2> QED BY <2>1, <2>2
<1>18. Range(f) = {f[k] : k \in 1 .. n}
  BY <1>8 DEF Range
<1> QED BY <1>2, <1>3, <1>8, <1>9, <1>10, <1>14, <1>15, <1>16, <1>17, <1>18 DEF f

LEMMA ParentIsThere ==
  ASSUME LayersInv, Parent
  PROVE  /\ pc = "parent" /\ pc' = "stack" /\ mounts = <<>>
         /\ img >= 2 /\ img \in Images /\ tree' = tree /\ rootBuilt' = rootBuilt
         /\ unpackDir'[1] = Dir(1) /\ unpackDir' \in [Images -> Places \cup {NoPlace}]
         /\ \A i \in Images \ {1} : unpackDir'[i] = unpackDir[i] /\ tar'[i] = tar[i]
         /\ tar'[1] = {1} /\ tar' \in [Images -> SUBSET Images]
         /\ files' \in [Places -> SUBSET Images]
         /\ files'[Dir(1)] = IF Made(1) THEN files[Dir(1)] ELSE files[Dir(1)] \cup {1}
         /\ \A place \in Places \ {Dir(1)} : files'[place] = files[place]
         /\ Made(1)'
         /\ \A i \in Images \ {1} : Made(i)' <=> Made(i)
         /\ UNCHANGED <<shape, plan, toBuild, img, mounts, builtOn>>
         /\ stack' = Front(Hierarchy(unpackDir'))
         /\ prevMount' = unpackDir'[Last(Hierarchy(unpackDir'))]
<1> DEFINE fetched == tree[img] = 1 /\ ~rootBuilt
<1>1. /\ pc = "parent" /\ pc' = "stack"
      /\ unpackDir' = IF fetched THEN [unpackDir EXCEPT ![1] = Dir(1)] ELSE unpackDir
      /\ IF fetched /\ tar[1] = {} THEN downloadParentImage ELSE UNCHANGED <<tar, files>>
      /\ stack' = Front(Hierarchy(unpackDir'))
      /\ prevMount' = unpackDir'[Last(Hierarchy(unpackDir'))]
      /\ UNCHANGED <<shape, plan, toBuild, img, mounts, builtOn>>
  BY DEF Parent
<1>2. /\ TypeOK /\ Layered /\ Unpacked /\ Mounted /\ Turn
      /\ tree \in Trees /\ img \in Nat /\ (img # 0 => img \in Images)
      /\ (\A i \in Images : i \in Nat)
  BY <1>1, BuildFacts
<1>3. /\ img >= 2 /\ img \in Images /\ mounts = <<>> /\ 1 \in Images
      /\ tree' = tree /\ rootBuilt' = rootBuilt /\ img' = img
  BY <1>1, <1>2, NIs DEF Turn, Mounted, Images, shape
<1>4. /\ files \in [Places -> SUBSET Images] /\ tar \in [Images -> SUBSET Images]
      /\ unpackDir \in [Images -> Places \cup {NoPlace}] /\ Dir(1) \in Places
  BY <1>2, <1>3, PlacesAre DEF TypeOK
<1>5. Made(1) \/ fetched
  <2>1. img = 2 => tree[img] = 1
    BY <1>2, TreeIs
  <2> QED BY <1>1, <1>2, <1>3, <2>1 DEF Made
<1>6. /\ Made(1) => unpackDir[1] = Dir(1) /\ tar[1] = {1}
      /\ ~Made(1) => tar[1] = {}
  BY <1>2, <1>3 DEF Layered, Unpacked
<1>7. /\ unpackDir'[1] = Dir(1) /\ unpackDir' \in [Images -> Places \cup {NoPlace}]
      /\ \A i \in Images \ {1} : unpackDir'[i] = unpackDir[i]
  BY <1>1, <1>3, <1>4, <1>5, <1>6
<1>8. /\ tar'[1] = {1} /\ tar' \in [Images -> SUBSET Images]
      /\ files' \in [Places -> SUBSET Images]
      /\ files'[Dir(1)] = (IF Made(1) THEN files[Dir(1)] ELSE files[Dir(1)] \cup {1})
      /\ \A i \in Images \ {1} : tar'[i] = tar[i]
      /\ \A place \in Places \ {Dir(1)} : files'[place] = files[place]
  <2>1. CASE fetched /\ tar[1] = {}
    <3>1. /\ tar' = [tar EXCEPT ![1] = {1}] /\ files' = [files EXCEPT ![Dir(1)] = @ \cup {1}]
          /\ ~Made(1)
      BY <1>1, <1>6, <2>1 DEF downloadParentImage
    <3> QED BY <1>3, <1>4, <3>1
  <2>2. CASE ~(fetched /\ tar[1] = {})
    <3>1. tar' = tar /\ files' = files /\ Made(1)
      BY <1>1, <1>5, <1>6, <2>2
    <3> QED BY <1>4, <1>6, <3>1
  <2> QED BY <2>1, <2>2
<1>9. Made(1)'
  BY <1>1, <1>2, <1>3 DEF Made
<1>10. \A i \in Images \ {1} : Made(i)' <=> Made(i)
  BY <1>1, <1>3 DEF Made
<1> QED BY <1>1, <1>3, <1>7, <1>8, <1>9, <1>10

LEMMA ParentStep == LayersInv /\ Parent => LayersInv'
<1> SUFFICES ASSUME LayersInv, Parent PROVE LayersInv'
  OBVIOUS
<1>1. /\ pc = "parent" /\ pc' = "stack" /\ mounts = <<>>
      /\ img >= 2 /\ img \in Images /\ tree' = tree /\ rootBuilt' = rootBuilt
      /\ unpackDir'[1] = Dir(1) /\ unpackDir' \in [Images -> Places \cup {NoPlace}]
      /\ \A i \in Images \ {1} : unpackDir'[i] = unpackDir[i] /\ tar'[i] = tar[i]
      /\ tar'[1] = {1} /\ tar' \in [Images -> SUBSET Images]
      /\ files' \in [Places -> SUBSET Images]
      /\ \A place \in Places \ {Dir(1)} : files'[place] = files[place]
      /\ Made(1)'
      /\ \A i \in Images \ {1} : Made(i)' <=> Made(i)
      /\ UNCHANGED <<shape, plan, toBuild, img, mounts, builtOn>>
      /\ stack' = Front(Hierarchy(unpackDir'))
      /\ prevMount' = unpackDir'[Last(Hierarchy(unpackDir'))]
  BY ParentIsThere
<1>2. /\ TypeOK /\ LayerIsOwn /\ Queued /\ Layered /\ Unpacked /\ Mounted /\ Turn
      /\ tree \in Trees /\ (\A i \in Images : i \in Nat)
  BY <1>1, BuildFacts
<1> DEFINE low == Last(Hierarchy(unpackDir'))
<1>3. /\ stack' \in Seq(Images) /\ Len(stack') >= 1 /\ stack'[1] = img
      /\ Descending(stack')
      /\ low \in Up[img] \ {img} /\ unpackDir'[low] # NoPlace
      /\ \A x \in Range(stack') : x \in Up[img] \ {1} /\ x > low
  <2>1. img # 1 /\ unpackDir'[1] # NoPlace /\ 1 \in Images
    BY <1>1, PlacesAre, NIs DEF Images
  <2> QED BY <1>1, <1>2, <2>1, HierarchyIs
<1> HIDE DEF low
<1>4. low \in Images /\ low \in Nat /\ prevMount' = unpackDir'[low]
  <2>1. low \in Images /\ low \in Nat
    BY <1>1, <1>2, <1>3, UpIs
  <2> QED BY <1>1, <2>1 DEF low
<1>5. prevMount' \in Places
  BY <1>1, <1>3, <1>4
<1>6. LastChildren' = LastChildren /\ Up' = Up /\ Skipped' = Skipped
  BY <1>1 DEF LastChildren, Children, Up, Skipped
<1>7. \A i : HasChild(i) => HasChild(i)'
  BY <1>1 DEF HasChild
<1>8. TypeOK'
  BY <1>1, <1>2, <1>3, <1>5 DEF TypeOK, shape, plan
<1>9. LayerIsOwn'
  BY <1>1, <1>2 DEF LayerIsOwn
<1>10. Queued'
  BY <1>1, <1>2, <1>6 DEF Queued, plan
<1>11. Layered'
  <2>1. ASSUME NEW i \in Images, Empty(i)' PROVE Empty(i) /\ i # 1
    <3>1. (i > img \/ i = img) /\ (i # 1 \/ rootBuilt)
      BY <1>1, <2>1 DEF Empty
    <3> QED BY <1>1, <1>2, <3>1 DEF Empty
  <2>2. \A i \in Images \ {1} : Dir(i) \in Places \ {Dir(1)}
    <3>1. 1 \in Images
      BY NIs DEF Images
    <3> QED BY <3>1, PlacesAre
  <2>3. ASSUME NEW i \in Images PROVE tar'[i] = IF Made(i)' THEN {i} ELSE {}
    BY <1>1, <1>2 DEF Layered
  <2>4. ASSUME NEW i \in Images, Empty(i)' PROVE files'[Dir(i)] = {}
    <3>1. Empty(i) /\ i # 1
      BY <2>1, <2>4
    <3> QED BY <1>1, <1>2, <2>2, <3>1 DEF Layered
  <2>5. \A i : Dir(i)' = Dir(i)
    BY DEF Dir
  <2> QED BY <1>1, <2>3, <2>4, <2>5 DEF Layered
<1>12. Unpacked'
  <2>1. \A i \in 2 .. N : i \in Images \ {1}
    BY NIs DEF Images
  <2>2. ASSUME NEW i \in 2 .. N, unpackDir'[i] # NoPlace
        PROVE  i \in LastChildren /\ HasChild(i)' /\ Before(unpackDir'[i], i)
    BY <1>1, <1>2, <1>7, <2>1, <2>2 DEF Unpacked
  <2>3. Dir(1)' = Dir(1) /\ NoPlace' = NoPlace /\ \A i, q : Before(q, i)' = Before(q, i)
    BY DEF Dir, NoPlace, Before
  <2> QED BY <1>1, <1>6, <2>2, <2>3 DEF Unpacked, Before
<1>13. Mounted'
  <2>1. Len(<<>>) = 0 /\ DOMAIN <<>> = {}
    BY EmptySeq
  <2> QED BY <1>1, <2>1 DEF Mounted
<1>14. Turn'
  BY <1>1 DEF Turn
<1>15. Stacking'
  <2>1. DOMAIN stack' = 1 .. Len(stack') /\ stack' # <<>>
    BY <1>3, LenProperties, EmptySeq
  <2>2. Before(prevMount', low)
    <3>1. CASE low = 1
      BY <1>1, <1>4, <3>1 DEF Before
    <3>2. CASE low # 1
      <4>1. low \in 2 .. N
        BY <1>4, <3>2, NIs DEF Images
      <4>2. unpackDir[low] # NoPlace /\ unpackDir'[low] = unpackDir[low]
        BY <1>1, <1>3, <1>4, <3>2
      <4> QED BY <1>2, <1>4, <4>1, <4>2 DEF Unpacked
    <3> QED BY <3>1, <3>2
  <2>3. ASSUME NEW x \in Range(stack')
        PROVE  x \in Up[img] \ {1} /\ Before(prevMount', x)
    <3>1. x \in Up[img] \ {1} /\ x > low
      BY <1>3
    <3>2. x \in Nat
      BY <1>1, <1>2, <3>1, UpIs
    <3>3. \A m \in 2 .. low - 1 : m \in 2 .. x - 1
      BY <1>4, <3>1, <3>2
    <3> QED BY <2>2, <3>1, <3>3 DEF Before
  <2>4. Len(<<>>) = 0 /\ DOMAIN <<>> = {}
    BY EmptySeq
  <2>5. mounts' = <<>> /\ img' = img
    BY <1>1
  <2> QED BY <1>3, <1>6, <2>1, <2>3, <2>4, <2>5 DEF Stacking, Before, Descending, Range
<1> QED BY <1>1, <1>8, <1>9, <1>10, <1>11, <1>12, <1>13, <1>14, <1>15 DEF LayersInv, Building

LEMMA StackTop ==
  ASSUME LayersInv, pc = "stack", stack # <<>>
  PROVE  LET i == Last(stack)
             f == Front(stack)
         IN  /\ i \in Images \ {1} /\ i \in Up[img] /\ i >= 2 /\ i <= img /\ i \in Nat
             /\ f \in Seq(Images) /\ Descending(f) /\ Range(f) = Range(stack) \ {i}
             /\ i \in Range(stack) /\ \A x \in Range(f) : x > i
             /\ (f # <<>> => f[1] = img) /\ (f = <<>> <=> i = img)
             /\ Before(prevMount, i) /\ prevMount \in Places
             /\ \A m \in DOMAIN mounts : mounts[m].image < i
             /\ Len(mounts) <= 1 /\ (mounts # <<>> => prevMount = Ovl(mounts[1].image))
<1> DEFINE i == Last(stack)
           f == Front(stack)
<1>1. /\ TypeOK /\ Building /\ tree \in Trees /\ img \in Nat /\ Turn
  BY BuildFacts
<1>2. Stacking /\ stack \in Seq(Images) /\ img >= 2 /\ img \in Images
  BY <1>1, NIs DEF Building, Turn, TypeOK, Images
<1>3. Images \in SUBSET Nat /\ stack \in Seq(Nat)
  <2>1. Images \in SUBSET Nat
    BY NIs DEF Images
  <2> QED BY <1>2, <2>1, SeqMonotonic
<1>4. /\ i \in Range(stack) /\ (\A x \in Range(stack) : x >= i)
      /\ Range(f) = Range(stack) \ {i} /\ Descending(f)
  BY <1>2, <1>3, DescendingFront DEF Stacking
<1>5. /\ Len(stack) \in Nat /\ Len(stack) >= 1 /\ i = stack[Len(stack)]
      /\ f \in Seq(Images) /\ Len(f) = Len(stack) - 1
      /\ \A k \in 1 .. Len(stack) - 1 : f[k] = stack[k]
      /\ DOMAIN stack = 1 .. Len(stack)
  BY <1>2, FrontIs
<1> HIDE DEF i, f
<1>6. i \in Up[img] \ {1} /\ Before(prevMount, i)
  BY <1>2, <1>4 DEF Stacking
<1>7. i \in Images \ {1} /\ i >= 2 /\ i <= img /\ i \in Nat
  <2>1. i \in Images /\ i <= img /\ i \in Nat
    BY <1>1, <1>2, <1>6, UpIs
  <2> QED BY <1>6, <2>1 DEF Images
<1>8. \A x \in Range(f) : x > i
  <2> SUFFICES ASSUME NEW x \in Range(f) PROVE x > i
    OBVIOUS
  <2>1. x \in Range(stack) /\ x # i /\ x >= i
    BY <1>4
  <2>2. x \in Nat
    BY <1>1, <1>2, <2>1, UpIs DEF Stacking
  <2> QED BY <1>7, <2>1, <2>2
<1>9. stack[1] = img /\ (Len(stack) # 1 => i < img /\ f # <<>> /\ f[1] = img)
  <2>1. stack[1] = img
    BY <1>2 DEF Stacking
  <2>2. ASSUME Len(stack) # 1 PROVE i < img /\ f # <<>> /\ f[1] = img
    <3>1. 1 \in 1 .. Len(stack) /\ Len(stack) \in 1 .. Len(stack) /\ 1 < Len(stack)
          /\ 1 \in 1 .. Len(stack) - 1
      BY <1>5, <2>2
    <3>2. stack[1] > stack[Len(stack)]
      BY <1>2, <1>5, <3>1 DEF Stacking, Descending
    <3>3. f[1] = img
      BY <1>5, <2>1, <3>1
    <3>4. f # <<>>
      <4>1. Len(f) # 0
        BY <1>5, <2>2
      <4> QED BY <4>1, EmptySeq
    <3> QED BY <1>1, <1>5, <1>7, <2>1, <3>2, <3>3, <3>4
  <2> QED BY <2>1, <2>2
<1>10. Len(stack) = 1 => f = <<>> /\ i = img
  <2>1. Len(stack) = 1 => Len(f) = 0
    BY <1>5
  <2>2. Len(f) = 0 => f = <<>>
    BY <1>5, EmptySeq
  <2> QED BY <1>5, <1>9, <2>1, <2>2
<1>11. prevMount \in Places
  <2>1. 1 \in Images /\ \A m \in 2 .. i - 1 : m \in Images
    BY <1>7, NIs DEF Images
  <2> QED BY <1>6, <2>1, PlacesAre DEF Before
<1>12. /\ \A m \in DOMAIN mounts : mounts[m].image < i
       /\ Len(mounts) <= 1 /\ (mounts # <<>> => prevMount = Ovl(mounts[1].image))
  <2>1. \A m \in DOMAIN mounts : mounts[m].image < i
    BY <1>2, <1>4 DEF Stacking
  <2>2. Len(mounts) <= 1 /\ (mounts # <<>> => prevMount = Ovl(Last(mounts).image))
    BY <1>2, <1>5, EmptySeq DEF Stacking
  <2>3. mounts # <<>> => Last(mounts) = mounts[1]
    <3>1. mounts # <<>> =>
            Last(mounts) = mounts[Len(mounts)] /\ Len(mounts) \in Nat /\ Len(mounts) >= 1
      BY <1>1, FrontIs DEF TypeOK
    <3> QED BY <2>2, <3>1
  <2> QED BY <2>1, <2>2, <2>3
<1>13. (f # <<>> => f[1] = img) /\ (f = <<>> <=> i = img)
  <2>1. CASE Len(stack) = 1
    BY <1>10, <2>1
  <2>2. CASE Len(stack) # 1
    <3>1. i # img
      BY <1>1, <1>7, <1>9, <2>2
    <3> QED BY <1>9, <2>2, <3>1
  <2> QED BY <2>1, <2>2
<1> QED BY <1>4, <1>5, <1>6, <1>7, <1>8, <1>11, <1>12, <1>13 DEF i, f

\* What a layer on the way is extracted on is not the directory of an image still to be built.
LEMMA ExtractTarget ==
  ASSUME LayersInv, pc = "stack", stack # <<>>
  PROVE  /\ mounts = <<>> => Target(prevMount) = prevMount
         /\ mounts # <<>> => Target(prevMount) = Dir(mounts[1].image) /\ mounts[1].image \in Images
         /\ Target(prevMount) \in Places
         /\ \A x \in Images : x >= img => Target(prevMount) # Dir(x)
<1>1. /\ TypeOK /\ Mounted /\ tree \in Trees /\ Turn /\ (\A x \in Images : x \in Nat)
      /\ img \in Nat /\ (img # 0 => img \in Images)
  BY BuildFacts
<1> DEFINE i == Last(stack)
<1>2. /\ i \in Images /\ i >= 2 /\ i <= img /\ i \in Nat
      /\ Before(prevMount, i) /\ prevMount \in Places
      /\ \A m \in DOMAIN mounts : mounts[m].image < i
      /\ Len(mounts) <= 1 /\ (mounts # <<>> => prevMount = Ovl(mounts[1].image))
  BY StackTop
<1> HIDE DEF i
<1>3. 1 \in Images /\ img >= 2
  BY <1>1, NIs DEF Images, Turn
<1>4. CASE mounts = <<>>
  <2>1. Target(prevMount) = prevMount
    BY <1>1, <1>4, Views DEF Overlaid
  <2>2. ASSUME NEW x \in Images, x >= img PROVE prevMount # Dir(x)
    <3>1. x # 1
      BY <1>1, <1>3, <2>2
    <3>2. CASE prevMount = Dir(1)
      BY <1>3, <3>1, <3>2, PlacesAre
    <3>3. CASE \E m \in 2 .. i - 1 : prevMount = Ovl(m)
      <4>1. PICK m \in 2 .. i - 1 : prevMount = Ovl(m)
        BY <3>3
      <4>2. m \in Images
        BY <1>2, NIs DEF Images
      <4> QED BY <4>1, <4>2, PlacesAre
    <3> QED BY <1>2, <3>2, <3>3 DEF Before
  <2> QED BY <1>2, <1>4, <2>1, <2>2
<1>5. CASE mounts # <<>>
  <2>1. 1 \in DOMAIN mounts
    <3>1. Len(mounts) \in Nat /\ Len(mounts) >= 1 /\ DOMAIN mounts = 1 .. Len(mounts)
      BY <1>1, <1>5, FrontIs DEF TypeOK
    <3> QED BY <3>1
  <2>2. mounts[1].image < i /\ mounts[1].image \in 2 .. img
    BY <1>1, <1>2, <2>1 DEF Mounted
  <2>3. mounts[1].image \in Images /\ mounts[1].image < img /\ mounts[1].image \in Nat
    <3>1. mounts[1].image \in 2 .. N
      BY <1>1, <1>3, <2>2, NIs DEF Images
    <3> QED BY <1>1, <1>2, <2>2, <3>1 DEF Images
  <2>4. Target(prevMount) = Dir(mounts[1].image)
    BY <1>1, <1>2, <1>5, <2>1, Views DEF Overlaid
  <2>5. ASSUME NEW x \in Images, x >= img PROVE Dir(mounts[1].image) # Dir(x)
    <3>1. x # mounts[1].image
      BY <1>1, <2>3, <2>5
    <3> QED BY <2>3, <3>1, PlacesAre
  <2> QED BY <1>5, <2>3, <2>4, <2>5, PlacesAre
<1> QED BY <1>4, <1>5

\* Extracting the layer on top of the stack, as a last child or on the overlay, keeps the invariant.
LEMMA ExtractStep ==
  ASSUME LayersInv, pc = "stack", stack # <<>>, Last(stack) # img,
         Write(prevMount, tar[Last(stack)]), stack' = Front(stack), prevMount' = prevMount,
         \/ unpackDir' = unpackDir
         \/ /\ Last(stack) \in LastChildren
            /\ unpackDir' = [unpackDir EXCEPT ![Last(stack)] = prevMount],
         UNCHANGED <<shape, plan, pc, toBuild, img, mounts, tar, builtOn>>
  PROVE  LayersInv'
<1>1. /\ TypeOK /\ LayerIsOwn /\ Queued /\ Layered /\ Unpacked /\ Mounted /\ Turn /\ Building
      /\ tree \in Trees /\ img \in Nat /\ (\A x \in Images : x \in Nat)
  BY BuildFacts
<1>2. Stacking /\ img >= 2 /\ img \in Images
  BY <1>1, BuildFacts DEF Building, Turn
<1> DEFINE i == Last(stack)
           place == Target(prevMount)
<1>3. /\ i \in Images \ {1} /\ i \in Up[img] /\ i >= 2 /\ i <= img /\ i \in Nat
      /\ stack' \in Seq(Images) /\ Descending(stack') /\ Range(stack') = Range(stack) \ {i}
      /\ stack' # <<>> /\ stack'[1] = img
      /\ Before(prevMount, i) /\ prevMount \in Places
      /\ Len(mounts) <= 1
  BY StackTop
<1>4. place \in Places /\ \A x \in Images : x >= img => place # Dir(x)
  BY ExtractTarget
<1>5. files' = [files EXCEPT ![place] = @ \cup tar[i]]
  BY DEF Write
<1> HIDE DEF i, place
<1>6. /\ files \in [Places -> SUBSET Images] /\ tar \in [Images -> SUBSET Images]
      /\ unpackDir \in [Images -> Places \cup {NoPlace}]
  BY <1>1 DEF TypeOK
<1>7. files' \in [Places -> SUBSET Images]
  BY <1>3, <1>4, <1>5, <1>6
<1>8. /\ \A x : (Made(x)' <=> Made(x)) /\ (HasChild(x)' <=> HasChild(x))
      /\ LastChildren' = LastChildren /\ Up' = Up /\ Skipped' = Skipped
      /\ tree' = tree /\ rootBuilt' = rootBuilt
  BY SamePhase
<1>9. unpackDir' \in [Images -> Places \cup {NoPlace}]
  BY <1>3, <1>6 DEF i
<1>10. TypeOK'
  BY <1>1, <1>3, <1>7, <1>9 DEF TypeOK, shape, plan
<1>11. LayerIsOwn'
  BY <1>1 DEF LayerIsOwn
<1>12. Queued'
  BY <1>1, <1>8 DEF Queued, plan
<1>13. Layered'
  <2>1. ASSUME NEW x \in Images, Empty(x)' PROVE files'[Dir(x)] = {}
    <3>1. Empty(x) /\ x >= img
      BY <1>1, <1>8, <2>1 DEF Empty
    <3>2. Dir(x) # place /\ Dir(x) \in Places
      BY <1>4, <3>1, PlacesAre
    <3> QED BY <1>1, <1>5, <1>6, <3>1, <3>2 DEF Layered
  <2>2. \A x : Dir(x)' = Dir(x)
    BY DEF Dir
  <2> QED BY <1>1, <1>8, <2>1, <2>2 DEF Layered
<1>14. Unpacked'
  <2>1. HasChild(i)
    <3>1. PICK c \in Up[img] \ {1} : tree[c] = i
      BY <1>1, <1>2, <1>3, OnTheWay DEF i
    <3>2. c \in 2 .. N /\ c <= img /\ c \in Nat
      BY <1>1, <1>2, <3>1, UpIs
    <3> QED BY <1>1, <3>1, <3>2 DEF HasChild
  <2>2. \A x \in 2 .. N : x \in Images
    BY NIs DEF Images
  <2>3. unpackDir'[1] = unpackDir[1]
    <3>1. 1 \in Images /\ 1 # i
      BY <1>3, NIs DEF Images
    <3> QED BY <1>6, <3>1 DEF i
  <2>4. ASSUME NEW x \in 2 .. N, unpackDir'[x] # NoPlace
        PROVE  x \in LastChildren /\ HasChild(x) /\ Before(unpackDir'[x], x)
    <3>1. CASE x = i /\ unpackDir' # unpackDir
      <4>1. unpackDir'[x] = prevMount /\ i \in LastChildren
        BY <1>3, <1>6, <3>1 DEF i
      <4> QED BY <1>3, <2>1, <3>1, <4>1
    <3>2. CASE ~(x = i /\ unpackDir' # unpackDir)
      <4>1. unpackDir'[x] = unpackDir[x]
        BY <1>6, <2>2, <3>2 DEF i
      <4> QED BY <1>1, <2>4, <4>1 DEF Unpacked
    <3> QED BY <3>1, <3>2
  <2>5. Dir(1)' = Dir(1) /\ NoPlace' = NoPlace
    BY DEF Dir, NoPlace
  <2>6. unpackDir'[1] = IF Made(1)' THEN Dir(1)' ELSE NoPlace'
    BY <1>1, <1>8, <2>3, <2>5 DEF Unpacked
  <2> QED BY <1>8, <2>4, <2>5, <2>6 DEF Unpacked, Before
<1>15. Mounted'
  BY <1>1 DEF Mounted, Before
<1>16. Turn'
  BY <1>1 DEF Turn
<1>17. Stacking'
  <2>1. Range(stack') \subseteq Range(stack)
    BY <1>3
  <2>2. \A x \in Range(stack') : x \in Up[img] \ {1} /\ Before(prevMount, x)
    BY <1>2, <2>1 DEF Stacking
  <2>3. \A x \in Range(stack') : \A m \in DOMAIN mounts : mounts[m].image < x
    BY <1>2, <2>1 DEF Stacking
  <2>4. mounts # <<>> => prevMount = Ovl(Last(mounts).image)
    BY <1>2 DEF Stacking
  <2> QED BY <1>3, <1>8, <2>2, <2>3, <2>4 DEF Stacking, Descending, Range, Before, Ovl
<1> QED BY <1>10, <1>11, <1>12, <1>13, <1>14, <1>15, <1>16, <1>17 DEF LayersInv, Building

LEMMA ExtractLastStep == LayersInv /\ ExtractLast => LayersInv'
<1> SUFFICES ASSUME LayersInv, ExtractLast PROVE LayersInv'
  OBVIOUS
<1>1. /\ pc = "stack" /\ stack # <<>> /\ Last(stack) # img /\ Last(stack) \in lastChild
      /\ Write(prevMount, tar[Last(stack)])
      /\ unpackDir' = [unpackDir EXCEPT ![Last(stack)] = prevMount]
      /\ stack' = Front(stack)
      /\ UNCHANGED <<shape, plan, pc, toBuild, img, prevMount, mounts, tar, builtOn>>
  BY DEF ExtractLast
<1>2. lastChild = LastChildren
  BY <1>1, BuildFacts DEF Queued
<1> QED BY <1>1, <1>2, ExtractStep

LEMMA ExtractOnOverlayStep == LayersInv /\ ExtractOnOverlay => LayersInv'
<1> SUFFICES ASSUME LayersInv, ExtractOnOverlay PROVE LayersInv'
  OBVIOUS
<1>1. /\ pc = "stack" /\ stack # <<>> /\ Last(stack) # img /\ mounts # <<>>
      /\ prevMount' = OverlayToExtend
      /\ Write(prevMount', tar[Last(stack)])
      /\ stack' = Front(stack)
      /\ UNCHANGED <<shape, plan, pc, toBuild, img, mounts, tar, unpackDir, builtOn>>
  BY DEF ExtractOnOverlay
<1>2. prevMount = Ovl(mounts[1].image)
  BY <1>1, StackTop
<1>3. prevMount' = prevMount
  BY <1>1, <1>2 DEF OverlayToExtend
<1>4. Write(prevMount, tar[Last(stack)])
  BY <1>1, <1>3
<1> QED BY <1>1, <1>3, <1>4, ExtractStep

LEMMA MountOverlayStep == LayersInv /\ MountOverlay => LayersInv'
<1> SUFFICES ASSUME LayersInv, MountOverlay PROVE LayersInv'
  OBVIOUS
<1> DEFINE i == Last(stack)
           overlay == [image |-> i, lower |-> prevMount]
<1>1. /\ pc = "stack" /\ stack # <<>>
      /\ i = img \/ mounts = <<>>
      /\ mounts' = Append(mounts, overlay)
      /\ prevMount' = Ovl(i) /\ stack' = Front(stack)
      /\ UNCHANGED <<shape, plan, pc, toBuild, img, files, tar, unpackDir, builtOn>>
  BY DEF MountOverlay
<1>2. /\ TypeOK /\ LayerIsOwn /\ Queued /\ Layered /\ Unpacked /\ Mounted /\ Turn /\ Building
      /\ tree \in Trees /\ img \in Nat /\ (\A x \in Images : x \in Nat)
  BY <1>1, BuildFacts
<1>3. Stacking /\ img >= 2 /\ img \in Images
  BY <1>1, <1>2, BuildFacts DEF Building, Turn
<1>4. /\ i \in Images \ {1} /\ i \in Up[img] /\ i >= 2 /\ i <= img /\ i \in Nat
      /\ stack' \in Seq(Images) /\ Descending(stack') /\ Range(stack') = Range(stack) \ {i}
      /\ (\A x \in Range(stack') : x > i)
      /\ (stack' # <<>> => stack'[1] = img) /\ (stack' = <<>> <=> i = img)
      /\ Before(prevMount, i) /\ prevMount \in Places
      /\ (\A m \in DOMAIN mounts : mounts[m].image < i)
      /\ Len(mounts) <= 1 /\ (mounts # <<>> => prevMount = Ovl(mounts[1].image))
  BY <1>1, StackTop
<1> HIDE DEF i
<1>5. overlay \in [image : Images, lower : Places] /\ overlay.image = i /\ overlay.lower = prevMount
  BY <1>4
<1> HIDE DEF overlay
<1> DEFINE n == Len(mounts)
<1>6. /\ n \in {0, 1} /\ DOMAIN mounts = 1 .. n /\ (n = 0 <=> mounts = <<>>)
      /\ mounts' \in Seq([image : Images, lower : Places]) /\ mounts' # <<>>
      /\ Len(mounts') = n + 1 /\ DOMAIN mounts' = 1 .. n + 1
      /\ \A k \in 1 .. n : mounts'[k] = mounts[k]
      /\ mounts'[n + 1] = overlay /\ Last(mounts') = overlay
  <2>1. mounts \in Seq([image : Images, lower : Places])
    BY <1>2 DEF TypeOK
  <2>2. n \in Nat /\ DOMAIN mounts = 1 .. n /\ (n = 0 <=> mounts = <<>>)
    BY <2>1, LenProperties, EmptySeq
  <2>3. n \in {0, 1}
    BY <1>4, <2>2
  <2>4. /\ mounts' \in Seq([image : Images, lower : Places]) /\ mounts' # <<>>
        /\ Len(mounts') = n + 1
        /\ \A k \in 1 .. n : mounts'[k] = mounts[k]
        /\ mounts'[n + 1] = overlay
    BY <1>1, <1>5, <2>1, AppendProperties
  <2>5. DOMAIN mounts' = 1 .. n + 1
    BY <2>4, LenProperties
  <2> QED BY <2>2, <2>3, <2>4, <2>5 DEF Last
<1> HIDE DEF n
<1>7. /\ \A x : (Made(x)' <=> Made(x)) /\ (HasChild(x)' <=> HasChild(x))
      /\ LastChildren' = LastChildren /\ Up' = Up /\ Skipped' = Skipped
      /\ tree' = tree /\ rootBuilt' = rootBuilt
  BY <1>1, SamePhase
<1>8. TypeOK'
  <2>1. prevMount' \in Places
    BY <1>1, <1>4, PlacesAre
  <2>2. Len(mounts') <= 2
    BY <1>6
  <2> QED BY <1>1, <1>2, <1>4, <1>6, <2>1, <2>2 DEF TypeOK, shape, plan
<1>9. LayerIsOwn'
  BY <1>1, <1>2 DEF LayerIsOwn
<1>10. Queued'
  BY <1>1, <1>2, <1>7 DEF Queued, plan
<1>11. Layered'
  <2>1. \A x : Empty(x)' => Empty(x)
    BY <1>1, <1>7 DEF Empty
  <2> QED BY <1>1, <1>2, <1>7, <2>1 DEF Layered, Dir
<1>12. Unpacked'
  BY <1>1, <1>2, <1>7 DEF Unpacked, Before
<1>13. \A k \in 1 .. n : mounts[k].image < i /\ mounts[k].image \in 2 .. img
  BY <1>2, <1>4, <1>6 DEF Mounted
<1>14. Mounted'
  <2>1. ASSUME NEW k \in 1 .. n + 1 PROVE mounts'[k].image \in 2 .. img
    <3>1. k \in 1 .. n \/ k = n + 1
      BY <1>6
    <3>2. i \in 2 .. img
      BY <1>2, <1>4
    <3> QED BY <1>5, <1>6, <1>13, <3>1, <3>2
  <2>2. Before(mounts'[1].lower, mounts'[1].image)
    <3>1. CASE n = 0
      <4>1. mounts'[1] = overlay
        BY <1>6, <3>1
      <4> QED BY <1>4, <1>5, <4>1
    <3>2. CASE n = 1
      <4>1. mounts'[1] = mounts[1] /\ mounts # <<>>
        <5>1. 1 \in 1 .. n
          BY <3>2
        <5> QED BY <1>6, <3>2, <5>1
      <4> QED BY <1>2, <4>1 DEF Mounted
    <3> QED BY <1>6, <3>1, <3>2
  <2>3. ASSUME Len(mounts') = 2
        PROVE  /\ mounts'[2] = [image |-> img, lower |-> Ovl(mounts'[1].image)]
               /\ mounts'[1].image < img
    <3>1. n = 1 /\ 1 \in 1 .. n /\ n + 1 = 2
      BY <1>6, <2>3
    <3>2. mounts # <<>> /\ mounts'[1] = mounts[1] /\ mounts'[2] = overlay
      BY <1>6, <3>1
    <3>3. i = img /\ prevMount = Ovl(mounts[1].image)
      BY <1>1, <1>4, <3>2
    <3>4. mounts[1].image < img
      BY <1>13, <3>1, <3>3
    <3> QED BY <3>2, <3>3, <3>4 DEF overlay
  <2> QED BY <1>1, <1>6, <2>1, <2>2, <2>3 DEF Mounted, Before, Ovl
<1>15. Turn'
  BY <1>1, <1>2 DEF Turn
<1>16. Stacking'
  <2>1. ASSUME NEW x \in Range(stack') PROVE x \in Up[img] \ {1} /\ Before(Ovl(i), x) /\ x > i
    <3>1. x \in Up[img] \ {1} /\ x > i
      BY <1>3, <1>4, <2>1 DEF Stacking
    <3>2. x \in Nat
      BY <1>2, <1>3, <3>1, UpIs
    <3>3. i \in 2 .. x - 1
      BY <1>4, <3>1, <3>2
    <3> QED BY <3>1, <3>3 DEF Before
  <2>2. ASSUME stack' # <<>> PROVE Len(mounts') <= 1
    <3>1. n = 0
      BY <1>1, <1>4, <1>6, <2>2
    <3> QED BY <1>6, <3>1
  <2>3. ASSUME NEW x \in Range(stack'), NEW m \in DOMAIN mounts' PROVE mounts'[m].image < x
    <3>1. n = 0
      <4>1. stack' # <<>>
        BY <2>3 DEF Range
      <4> QED BY <1>1, <1>4, <1>6, <4>1
    <3>2. mounts'[m] = overlay
      <4>1. m = n + 1
        BY <1>6, <3>1
      <4> QED BY <1>6, <4>1
    <3> QED BY <1>4, <1>5, <2>1, <3>2
  <2>4. Descending(stack)' /\ Range(stack)' = Range(stack')
    BY <1>4 DEF Descending, Range
  <2>5. prevMount' = Ovl(Last(mounts').image)
    BY <1>1, <1>5, <1>6
  <2> QED BY <1>1, <1>4, <1>5, <1>6, <1>7, <2>1, <2>2, <2>3, <2>4, <2>5
          DEF Stacking, Before, Ovl, Last, Range
<1> QED BY <1>1, <1>8, <1>9, <1>10, <1>11, <1>12, <1>14, <1>15, <1>16 DEF LayersInv, Building

LEMMA StackedStep == LayersInv /\ Stacked => LayersInv'
<1> SUFFICES ASSUME LayersInv, Stacked PROVE LayersInv'
  OBVIOUS
<1>1. /\ pc = "stack" /\ stack = <<>> /\ pc' = "install"
      /\ UNCHANGED <<shape, plan, toBuild, img, stack, prevMount, mounts, files, tar, unpackDir,
                     builtOn>>
  BY DEF Stacked
<1>2. /\ TypeOK /\ LayerIsOwn /\ Queued /\ Layered /\ Unpacked /\ Mounted /\ Turn /\ Building
  BY <1>1, BuildFacts
<1>3. mounts # <<>> /\ Last(mounts).image = img
  BY <1>1, <1>2 DEF Building, Stacking
<1>4. /\ \A x : (Made(x)' <=> Made(x)) /\ (HasChild(x)' <=> HasChild(x))
      /\ LastChildren' = LastChildren /\ Up' = Up /\ Skipped' = Skipped
      /\ tree' = tree /\ rootBuilt' = rootBuilt
  BY <1>1, SamePhase
<1>5. TypeOK' /\ LayerIsOwn'
  BY <1>1, <1>2 DEF TypeOK, LayerIsOwn, shape, plan
<1>6. Queued'
  BY <1>1, <1>2, <1>4 DEF Queued, plan
<1>7. Layered'
  <2>1. \A x : Empty(x)' => Empty(x)
    BY <1>1, <1>4 DEF Empty
  <2> QED BY <1>1, <1>2, <1>4, <2>1 DEF Layered, Dir
<1>8. Unpacked'
  BY <1>1, <1>2, <1>4 DEF Unpacked, Before
<1>9. Mounted'
  BY <1>1, <1>2, <1>3 DEF Mounted
<1>10. Turn'
  BY <1>1, <1>2 DEF Turn
<1> QED BY <1>1, <1>5, <1>6, <1>7, <1>8, <1>9, <1>10 DEF LayersInv, Building

\* An image is installed on its overlay, so its files go to its own directory.
LEMMA InstalledOn ==
  ASSUME LayersInv, Install
  PROVE  /\ pc = "install" /\ pc' = "umount" /\ img >= 2 /\ img \in Images
         /\ mounts # <<>> /\ Last(mounts).image = img /\ Last(mounts) = mounts[Len(mounts)]
         /\ Len(mounts) \in {1, 2}
         /\ builtOn' = [builtOn EXCEPT ![img] = View(Ovl(img))]
         /\ files' = [files EXCEPT ![Dir(img)] = @ \cup {img}] /\ files[Dir(img)] = {}
         /\ UNCHANGED <<shape, plan, toBuild, img, stack, prevMount, mounts, tar, unpackDir>>
<1>1. /\ pc = "install" /\ pc' = "umount"
      /\ builtOn' = [builtOn EXCEPT ![img] = View(Ovl(Last(mounts).image))]
      /\ Write(Ovl(Last(mounts).image), {img})
      /\ UNCHANGED <<shape, plan, toBuild, img, stack, prevMount, mounts, tar, unpackDir>>
  BY DEF Install
<1>2. /\ TypeOK /\ Layered /\ Mounted /\ Turn /\ img \in Nat
      /\ (img # 0 => img \in Images)
  BY <1>1, BuildFacts
<1>3. img >= 2 /\ img \in Images /\ mounts # <<>> /\ Last(mounts).image = img
  BY <1>1, <1>2 DEF Turn, Mounted
<1>4. /\ Len(mounts) \in Nat /\ Len(mounts) >= 1 /\ Len(mounts) <= 2
      /\ DOMAIN mounts = 1 .. Len(mounts) /\ Last(mounts) = mounts[Len(mounts)]
  BY <1>2, <1>3, FrontIs DEF TypeOK
<1>5. Target(Ovl(img)) = Dir(img)
  <2>1. Len(mounts) \in DOMAIN mounts
    BY <1>4
  <2> QED BY <1>2, <1>3, <1>4, <2>1, Views DEF Overlaid
<1>6. files[Dir(img)] = {}
  <2>1. Empty(img)
    BY <1>1, <1>3 DEF Empty
  <2> QED BY <1>2, <1>3, <2>1 DEF Layered
<1>7. files' = [files EXCEPT ![Dir(img)] = @ \cup {img}]
  BY <1>1, <1>3, <1>5 DEF Write
<1> QED BY <1>1, <1>3, <1>4, <1>6, <1>7

LEMMA InstallStep == LayersInv /\ Install => LayersInv'
<1> SUFFICES ASSUME LayersInv, Install PROVE LayersInv'
  OBVIOUS
<1>1. /\ pc = "install" /\ pc' = "umount" /\ img >= 2 /\ img \in Images
      /\ mounts # <<>> /\ Last(mounts).image = img /\ Last(mounts) = mounts[Len(mounts)]
      /\ Len(mounts) \in {1, 2}
      /\ builtOn' = [builtOn EXCEPT ![img] = View(Ovl(img))]
      /\ files' = [files EXCEPT ![Dir(img)] = @ \cup {img}] /\ files[Dir(img)] = {}
      /\ UNCHANGED <<shape, plan, toBuild, img, stack, prevMount, mounts, tar, unpackDir>>
  BY InstalledOn
<1>2. /\ TypeOK /\ LayerIsOwn /\ Queued /\ Layered /\ Unpacked /\ Mounted /\ Turn
      /\ (\A x \in Images : x \in Nat)
  BY <1>1, BuildFacts
<1>3. /\ \A x : (Made(x)' <=> Made(x)) /\ (HasChild(x)' <=> HasChild(x))
      /\ LastChildren' = LastChildren /\ Up' = Up /\ Skipped' = Skipped
      /\ tree' = tree /\ rootBuilt' = rootBuilt
  BY <1>1, SamePhase
<1>4. files \in [Places -> SUBSET Images] /\ \A x \in Images : Dir(x) \in Places
  BY <1>2, PlacesAre DEF TypeOK
<1>5. View(Ovl(img)) \subseteq Images
  <2>1. Len(mounts) \in DOMAIN mounts /\ 1 \in DOMAIN mounts
    BY <1>1, <1>2, LenProperties DEF TypeOK
  <2>2. \A k \in DOMAIN mounts : mounts[k].image \in Images /\ mounts[k].lower \in Places
    <3>1. mounts \in Seq([image : Images, lower : Places])
      BY <1>2 DEF TypeOK
    <3>2. DOMAIN mounts = 1 .. Len(mounts)
      BY <3>1, LenProperties
    <3>3. \A k \in DOMAIN mounts : mounts[k] \in [image : Images, lower : Places]
      BY <3>1, <3>2, ElementOfSeq
    <3> QED BY <3>3
  <2>3. /\ mounts[1].image \in Images /\ mounts[1].lower \in Places
        /\ mounts[Len(mounts)].image = img
    BY <1>1, <2>1, <2>2
  <2>4. CASE Len(mounts) = 1
    <3>1. View(Ovl(img)) = files[Dir(mounts[1].image)] \cup files[mounts[1].lower]
      BY <1>1, <1>2, <2>3, <2>4, Views DEF Overlaid
    <3> QED BY <1>4, <2>3, <3>1
  <2>5. CASE Len(mounts) = 2
    <3>1. View(Ovl(img)) = files[Dir(img)] \cup files[Dir(mounts[1].image)]
                             \cup files[mounts[1].lower]
      BY <1>1, <1>2, <2>3, <2>5, Views DEF Overlaid
    <3> QED BY <1>1, <1>4, <2>3, <3>1
  <2> QED BY <1>1, <2>4, <2>5
<1>6. TypeOK'
  <2>1. files' \in [Places -> SUBSET Images]
    BY <1>1, <1>4
  <2>2. builtOn' \in [Images -> SUBSET Images]
    BY <1>1, <1>2, <1>5 DEF TypeOK
  <2> QED BY <1>1, <1>2, <2>1, <2>2 DEF TypeOK, shape, plan
<1>7. LayerIsOwn'
  BY <1>1, <1>2 DEF LayerIsOwn
<1>8. Queued'
  BY <1>1, <1>2, <1>3 DEF Queued, plan
<1>9. Layered'
  <2>1. ASSUME NEW x \in Images, Empty(x)' PROVE Empty(x) /\ x # img
    BY <1>1, <1>2, <1>3, <2>1 DEF Empty
  <2>2. \A x \in Images \ {img} : files'[Dir(x)] = files[Dir(x)]
    BY <1>1, <1>4, PlacesAre
  <2>3. files'[Dir(img)] = {img}
    BY <1>1, <1>4
  <2>4. \A x : Dir(x)' = Dir(x)
    BY DEF Dir
  <2> QED BY <1>1, <1>2, <1>3, <2>1, <2>2, <2>3, <2>4 DEF Layered
<1>10. Unpacked'
  BY <1>1, <1>2, <1>3 DEF Unpacked, Before
<1>11. Mounted'
  BY <1>1, <1>2 DEF Mounted, Before
<1>12. Turn'
  BY <1>1, <1>2 DEF Turn
<1> QED BY <1>1, <1>6, <1>7, <1>8, <1>9, <1>10, <1>11, <1>12 DEF LayersInv, Building

LEMMA UmountStep == LayersInv /\ Umount => LayersInv'
<1> SUFFICES ASSUME LayersInv, Umount PROVE LayersInv'
  OBVIOUS
<1>1. /\ pc = "umount" /\ mounts # <<>> /\ mounts' = Front(mounts)
      /\ UNCHANGED <<shape, plan, pc, toBuild, img, stack, prevMount, files, tar, unpackDir,
                     builtOn>>
  BY DEF Umount
<1>2. TypeOK /\ LayerIsOwn /\ Queued /\ Layered /\ Unpacked /\ Mounted /\ Turn
  BY <1>1, BuildFacts
<1>3. /\ Len(mounts) \in Nat /\ Len(mounts) >= 1 /\ Len(mounts) <= 2
      /\ DOMAIN mounts = 1 .. Len(mounts)
      /\ mounts' \in Seq([image : Images, lower : Places]) /\ Len(mounts') = Len(mounts) - 1
      /\ DOMAIN mounts' = 1 .. Len(mounts) - 1
      /\ \A k \in 1 .. Len(mounts) - 1 : mounts'[k] = mounts[k] /\ k \in 1 .. Len(mounts)
  BY <1>1, <1>2, FrontIs DEF TypeOK
<1>4. /\ \A x : (Made(x)' <=> Made(x)) /\ (HasChild(x)' <=> HasChild(x))
      /\ LastChildren' = LastChildren /\ Up' = Up /\ Skipped' = Skipped
      /\ tree' = tree /\ rootBuilt' = rootBuilt
  BY <1>1, SamePhase
<1>5. TypeOK' /\ LayerIsOwn'
  BY <1>1, <1>2, <1>3 DEF TypeOK, LayerIsOwn, shape, plan
<1>6. Queued'
  BY <1>1, <1>2, <1>4 DEF Queued, plan
<1>7. Layered'
  <2>1. \A x : Empty(x)' => Empty(x)
    BY <1>1, <1>4 DEF Empty
  <2> QED BY <1>1, <1>2, <1>4, <2>1 DEF Layered, Dir
<1>8. Unpacked'
  BY <1>1, <1>2, <1>4 DEF Unpacked, Before
<1>9. Mounted'
  <2>1. \A k \in DOMAIN mounts' : mounts'[k].image \in 2 .. img
    BY <1>2, <1>3 DEF Mounted
  <2>2. ASSUME mounts' # <<>> PROVE Before(mounts'[1].lower, mounts'[1].image)
    <3>1. Len(mounts') # 0
      BY <1>3, <2>2, EmptySeq
    <3>2. 1 \in 1 .. Len(mounts) - 1
      BY <1>3, <3>1
    <3> QED BY <1>1, <1>2, <1>3, <3>2 DEF Mounted
  <2>3. Len(mounts') # 2
    BY <1>3
  <2>4. pc' = "umount" /\ img' = img
    BY <1>1
  <2> QED BY <2>1, <2>2, <2>3, <2>4 DEF Mounted, Before, Ovl
<1>10. Turn'
  BY <1>1, <1>2 DEF Turn
<1> QED BY <1>1, <1>5, <1>6, <1>7, <1>8, <1>9, <1>10 DEF LayersInv, Building

LEMMA UnmountedStep == LayersInv /\ Unmounted => LayersInv'
<1> SUFFICES ASSUME LayersInv, Unmounted PROVE LayersInv'
  OBVIOUS
<1>1. /\ pc = "umount" /\ mounts = <<>> /\ pc' = "layer"
      /\ UNCHANGED <<shape, plan, toBuild, img, stack, prevMount, mounts, files, tar, unpackDir,
                     builtOn>>
  BY DEF Unmounted
<1>2. TypeOK /\ LayerIsOwn /\ Queued /\ Layered /\ Unpacked /\ Mounted /\ Turn
  BY <1>1, BuildFacts
<1>3. /\ \A x : (Made(x)' <=> Made(x)) /\ (HasChild(x)' <=> HasChild(x))
      /\ LastChildren' = LastChildren /\ Up' = Up /\ Skipped' = Skipped
      /\ tree' = tree /\ rootBuilt' = rootBuilt
  BY <1>1, SamePhase
<1>4. TypeOK' /\ LayerIsOwn'
  BY <1>1, <1>2 DEF TypeOK, LayerIsOwn, shape, plan
<1>5. Queued'
  BY <1>1, <1>2, <1>3 DEF Queued, plan
<1>6. Layered'
  <2>1. \A x : Empty(x)' => Empty(x)
    BY <1>1, <1>3 DEF Empty
  <2> QED BY <1>1, <1>2, <1>3, <2>1 DEF Layered, Dir
<1>7. Unpacked'
  BY <1>1, <1>2, <1>3 DEF Unpacked, Before
<1>8. Mounted'
  BY <1>1, <1>2 DEF Mounted, Before
<1>9. Turn'
  BY <1>1, <1>2 DEF Turn
<1> QED BY <1>1, <1>4, <1>5, <1>6, <1>7, <1>8, <1>9 DEF LayersInv, Building

LEMMA WriteLayerStep == LayersInv /\ WriteLayer => LayersInv'
<1> SUFFICES ASSUME LayersInv, WriteLayer PROVE LayersInv'
  OBVIOUS
<1>1. /\ pc = "layer" /\ pc' = "next"
      /\ tar' = [tar EXCEPT ![img] = files[Dir(img)]]
      /\ UNCHANGED <<shape, plan, toBuild, img, stack, prevMount, mounts, files, unpackDir,
                     builtOn>>
  BY DEF WriteLayer
<1>2. /\ TypeOK /\ LayerIsOwn /\ Queued /\ Layered /\ Unpacked /\ Mounted /\ Turn
      /\ (img # 0 => img \in Images) /\ (\A x \in Images : x \in Nat)
  BY <1>1, BuildFacts
<1>3. img >= 2 /\ img \in Images /\ tree' = tree /\ rootBuilt' = rootBuilt /\ img' = img
  BY <1>1, <1>2 DEF Turn, shape
<1>4. tar \in [Images -> SUBSET Images] /\ files[Dir(img)] = {img}
  BY <1>1, <1>2 DEF TypeOK, Layered
<1>5. tar' \in [Images -> SUBSET Images] /\ tar'[img] = {img}
      /\ \A x \in Images \ {img} : tar'[x] = tar[x]
  BY <1>1, <1>3, <1>4
<1>6. Made(img)' /\ \A x \in Images \ {img} : Made(x)' <=> Made(x)
  BY <1>1, <1>3 DEF Made
<1>7. \A x : HasChild(x)' <=> HasChild(x)
  BY <1>1, <1>3 DEF HasChild
<1>8. LastChildren' = LastChildren /\ Skipped' = Skipped
  BY <1>3 DEF LastChildren, Children, Skipped
<1>9. TypeOK'
  BY <1>1, <1>2, <1>5 DEF TypeOK, shape, plan
<1>10. LayerIsOwn'
  BY <1>2, <1>5 DEF LayerIsOwn
<1>11. Queued'
  BY <1>1, <1>2, <1>8 DEF Queued, plan
<1>12. Layered'
  <2>1. \A x : Empty(x)' => Empty(x)
    BY <1>1, <1>3 DEF Empty
  <2>2. \A x : Dir(x)' = Dir(x)
    BY DEF Dir
  <2> QED BY <1>1, <1>2, <1>5, <1>6, <2>1, <2>2 DEF Layered
<1>13. Unpacked'
  <2>1. Made(1)' <=> Made(1)
    <3>1. 1 \in Images \ {img}
      BY <1>3, NIs DEF Images
    <3> QED BY <1>6, <3>1
  <2> QED BY <1>1, <1>2, <1>7, <1>8, <2>1 DEF Unpacked, Before
<1>14. Mounted'
  BY <1>1, <1>2 DEF Mounted, Before
<1>15. Turn'
  BY <1>1, <1>2 DEF Turn
<1> QED BY <1>1, <1>9, <1>10, <1>11, <1>12, <1>13, <1>14, <1>15 DEF LayersInv, Building

LEMMA LayersStep == LayersInv /\ [Next]_vars => LayersInv'
BY VisitStep, VisitedStep, TakeStep, DoneStep, FailStep, WriteBaseStep, ParentStep,
   ExtractLastStep, ExtractOnOverlayStep, MountOverlayStep, StackedStep, InstallStep, UmountStep,
   UnmountedStep, WriteLayerStep, StillStep DEF Next, Ended

\* The invariant is inductive.
THEOREM LayersInvHolds == Spec => []LayersInv
BY InitLayers, LayersStep, PTL DEF Spec

-----------------------------------------------------------------------------
(* What it says of every tree.                                             *)

\* In every tree no more overlays are stacked than overlayfs allows, each layer is its own, and
\* when all is built no layer is missing.
LEMMA LayersAreSound == LayersInv => LayersSound
<1> SUFFICES ASSUME LayersInv PROVE LayersSound
  OBVIOUS
<1>1. TypeOK /\ LayerIsOwn
  BY DEF LayersInv
<1>2. AllBuilt
  <2>1. ASSUME pc = "next" PROVE mounts = <<>>
    BY <2>1, BuildFacts DEF Mounted
  <2>2. ASSUME pc = "done", NEW i \in Images PROVE tar[i] # {}
    <3>1. /\ Queued /\ Layered /\ Turn /\ Skipped \in {0, 1} /\ img \in Nat
          /\ i \in Nat /\ i <= N
      BY <2>2, BuildFacts, NIs DEF Images
    <3>2. Len(toBuild) = 0
      BY <2>2, <3>1, EmptySeq DEF Turn
    <3>3. img = N
      BY <3>1, <3>2, NIs DEF Queued
    <3>4. Made(i)
      BY <2>2, <3>1, <3>3, NIs DEF Made
    <3> QED BY <3>1, <3>4 DEF Layered
  <2> QED BY <2>1, <2>2 DEF AllBuilt
<1> QED BY <1>1, <1>2 DEF LayersSound

\* DockerImage.write, in every tree: the layers are sound.
THEOREM LayersSoundHolds == Spec => []LayersSound
BY LayersInvHolds, LayersAreSound, PTL

LEMMA OverlaidThen == TypeOK' /\ Mounted' => Overlaid'
BY Views, PTL

\* An overlay is mounted on top of the others, or the one on top is unmounted.
LEMMA MountsThen ==
  ASSUME LayersInv, [Next]_vars, mounts' # mounts
  PROVE  \/ /\ MountOverlay /\ Len(mounts) \in {0, 1} /\ Len(mounts') = Len(mounts) + 1
            /\ files' = files
            /\ \A k \in 1 .. Len(mounts) : mounts'[k] = mounts[k]
         \/ /\ Umount /\ Len(mounts) \in {1, 2} /\ Len(mounts') = Len(mounts) - 1
            /\ files' = files
            /\ \A k \in 1 .. Len(mounts') : mounts'[k] = mounts[k]
<1>1. MountOverlay \/ Umount
  BY DEF Next, vars, Visit, Visited, Take, Done, Fail, WriteBase, Parent, ExtractLast,
         ExtractOnOverlay, Stacked, Install, Unmounted, WriteLayer, Ended
<1>2. mounts \in Seq([image : Images, lower : Places]) /\ Len(mounts) <= 2
  BY DEF LayersInv, TypeOK
<1>3. CASE MountOverlay
  <2>1. /\ pc = "stack" /\ stack # <<>> /\ files' = files
        /\ mounts' = Append(mounts, [image |-> Last(stack), lower |-> prevMount])
    BY <1>3 DEF MountOverlay
  <2>2. Last(stack) \in Images /\ prevMount \in Places /\ Len(mounts) <= 1
    BY <2>1, StackTop
  <2>3. [image |-> Last(stack), lower |-> prevMount] \in [image : Images, lower : Places]
    BY <2>2
  <2>4. /\ Len(mounts') = Len(mounts) + 1
        /\ \A k \in 1 .. Len(mounts) : mounts'[k] = mounts[k]
    BY <1>2, <2>1, <2>3, AppendProperties
  <2>5. Len(mounts) \in {0, 1}
    <3>1. Len(mounts) \in Nat
      BY <1>2, LenProperties
    <3> QED BY <2>2, <3>1
  <2> QED BY <1>3, <2>1, <2>4, <2>5
<1>4. CASE Umount
  <2>1. mounts # <<>> /\ mounts' = Front(mounts) /\ files' = files
    BY <1>4 DEF Umount
  <2>2. /\ Len(mounts) \in Nat /\ Len(mounts) >= 1 /\ Len(mounts') = Len(mounts) - 1
        /\ \A k \in 1 .. Len(mounts) - 1 : mounts'[k] = mounts[k]
    BY <1>2, <2>1, FrontIs
  <2> QED BY <1>2, <1>4, <2>1, <2>2
<1> QED BY <1>1, <1>3, <1>4

\* An overlay is mounted on one of an image before, never on its own.
LEMMA LowerIs ==
  ASSUME LayersInv, pc \notin {"visit", "failed"}, mounts # <<>>
  PROVE  /\ mounts[1].image \in Images /\ mounts[1].lower \in Places
         /\ \A k \in Images : k >= mounts[1].image =>
              mounts[1].lower # Ovl(k) /\ (k # 1 => mounts[1].lower # Dir(k))
         /\ mounts[1].image \in 2 .. img /\ img \in Images
<1> DEFINE a == mounts[1].image
           low == mounts[1].lower
<1>1. /\ TypeOK /\ Mounted /\ img \in Nat /\ (img # 0 => img \in Images)
      /\ \A x \in Images : x \in Nat
  BY BuildFacts
<1>2. 1 \in DOMAIN mounts /\ mounts[1] \in [image : Images, lower : Places]
  <2>1. mounts \in Seq([image : Images, lower : Places])
    BY <1>1 DEF TypeOK
  <2>2. Len(mounts) \in Nat /\ Len(mounts) >= 1 /\ DOMAIN mounts = 1 .. Len(mounts)
    BY <2>1, FrontIs
  <2>3. 1 \in 1 .. Len(mounts)
    BY <2>2
  <2> QED BY <2>1, <2>2, <2>3, ElementOfSeq
<1>3. a \in Images /\ low \in Places /\ a \in 2 .. img /\ Before(low, a)
  BY <1>1, <1>2 DEF Mounted
<1> HIDE DEF a, low
<1>4. img \in Images
  BY <1>1, <1>3
<1>5. 1 \in Images /\ \A m \in 2 .. a - 1 : m \in Images /\ m < a /\ m \in Nat
  BY <1>3, NIs DEF Images
<1>6. ASSUME NEW k \in Images, k >= a PROVE low # Ovl(k) /\ (k # 1 => low # Dir(k))
  <2>1. CASE low = Dir(1)
    BY <1>5, <2>1, PlacesAre
  <2>2. CASE \E m \in 2 .. a - 1 : low = Ovl(m)
    <3>1. PICK m \in 2 .. a - 1 : low = Ovl(m)
      BY <2>2
    <3>2. m # k /\ m \in Images
      BY <1>1, <1>3, <1>5, <1>6, <3>1
    <3> QED BY <3>1, <3>2, PlacesAre
  <2> QED BY <1>3, <2>1, <2>2 DEF Before
<1> QED BY <1>3, <1>4, <1>6 DEF a, low

\* mountOverlayFs and its counterpart, in every tree: no overlay is unmounted below another.
THEOREM TopUnmountedFirstHolds == Spec => TopUnmountedFirst
<1>1. LayersInv /\ [Next]_vars =>
        [\A k \in DOMAIN mounts :
           Ovl(mounts[k].image) \notin {Ovl(mounts'[j].image) : j \in DOMAIN mounts'} =>
             \A j \in DOMAIN mounts' : mounts'[j].lower # Ovl(mounts[k].image)]_vars
  <2> SUFFICES ASSUME LayersInv, [Next]_vars, NEW k \in DOMAIN mounts,
                      Ovl(mounts[k].image) \notin {Ovl(mounts'[i].image) : i \in DOMAIN mounts'},
                      NEW j \in DOMAIN mounts'
               PROVE  mounts'[j].lower # Ovl(mounts[k].image)
    OBVIOUS
  <2>1. mounts' # mounts
    OBVIOUS
  <2>2. /\ mounts \in Seq([image : Images, lower : Places])
        /\ DOMAIN mounts = 1 .. Len(mounts) /\ Len(mounts) \in Nat
    BY LenProperties DEF LayersInv, TypeOK
  <2>3. DOMAIN mounts' = 1 .. Len(mounts')
    <3>1. LayersInv'
      BY LayersStep
    <3> QED BY <3>1, LenProperties DEF LayersInv, TypeOK
  <2>4. CASE Umount /\ Len(mounts) \in {1, 2} /\ Len(mounts') = Len(mounts) - 1
             /\ \A m \in 1 .. Len(mounts') : mounts'[m] = mounts[m]
    <3>1. Len(mounts) = 2 /\ j = 1 /\ mounts'[1] = mounts[1]
      BY <2>3, <2>4
    <3>2. k = 2
      <4>1. k = 1 \/ k = 2
        BY <2>2, <3>1
      <4> QED BY <3>1, <4>1
    <3>3. pc = "umount" /\ mounts # <<>>
      BY <2>4 DEF Umount
    <3>4. mounts[2].image = img
      BY <3>1, <3>3, BuildFacts DEF Mounted
    <3>5. mounts[1].lower # Ovl(img)
      <4>1. img >= mounts[1].image
        BY <3>3, LowerIs DEF Images
      <4> QED BY <3>3, <4>1, LowerIs
    <3> QED BY <3>1, <3>2, <3>4, <3>5
  <2>5. CASE Len(mounts') = Len(mounts) + 1 /\ \A m \in 1 .. Len(mounts) : mounts'[m] = mounts[m]
    <3>1. k \in DOMAIN mounts' /\ mounts'[k] = mounts[k]
      BY <2>2, <2>3, <2>5
    <3> QED BY <3>1
  <2> QED BY <2>1, <2>4, <2>5, MountsThen
<1> QED BY <1>1, LayersInvHolds, PTL DEF Spec, TopUnmountedFirst

\* The files that change while an overlay is mounted are those of the overlay on top.
LEMMA FilesThen ==
  ASSUME LayersInv, [Next]_vars, mounts' = mounts, mounts # <<>>
  PROVE  LET a == mounts[1].image
             low == mounts[1].lower
         IN  /\ files'[low] = files[low]
             /\ Len(mounts) = 2 => files'[Dir(a)] = files[Dir(a)]
<1> DEFINE a == mounts[1].image
           low == mounts[1].lower
<1>1. CASE files' = files
  BY <1>1
<1>2. CASE files' # files
  <2>1. \/ /\ pc = "stack" /\ stack # <<>> /\ Write(prevMount, tar[Last(stack)])
        \/ Install
    <3>1. WriteBase \/ Parent \/ ExtractLast \/ ExtractOnOverlay \/ Install
      BY <1>2 DEF Next, vars, Visit, Visited, Take, Done, Fail, MountOverlay, Stacked, Umount,
                  Unmounted, WriteLayer, Ended
    <3>2. ~WriteBase /\ ~Parent
      <4>1. pc \in {"base", "parent"} => mounts = <<>>
        BY BuildFacts DEF Mounted
      <4> QED BY <4>1 DEF WriteBase, Parent
    <3>3. CASE ExtractLast
      BY <3>3 DEF ExtractLast
    <3>4. CASE ExtractOnOverlay
      <4>1. pc = "stack" /\ stack # <<>> /\ prevMount' = Ovl(mounts[1].image)
            /\ Write(prevMount', tar[Last(stack)])
        BY <3>4 DEF ExtractOnOverlay, OverlayToExtend
      <4>2. prevMount' = prevMount
        BY <4>1, StackTop
      <4> QED BY <4>1, <4>2
    <3> QED BY <3>1, <3>2, <3>3, <3>4
  <2>2. pc \notin {"visit", "failed"}
    BY <2>1 DEF Install
  <2>3. /\ a \in Images /\ low \in Places /\ a \in 2 .. img /\ img \in Images
        /\ \A k \in Images : k >= a => low # Ovl(k) /\ (k # 1 => low # Dir(k))
    BY <2>2, LowerIs
  <2>4. TypeOK /\ Mounted /\ files \in [Places -> SUBSET Images]
    BY <2>2, BuildFacts DEF TypeOK
  <2> HIDE DEF a, low
  <2>5. a \in Nat /\ img \in Nat /\ a # 1 /\ img # 1 /\ a >= a /\ img >= a
    BY <2>3, NIs DEF Images
  <2>6. low # Dir(a) /\ low # Dir(img)
    BY <2>3, <2>5
  <2>7. CASE pc = "stack" /\ stack # <<>> /\ Write(prevMount, tar[Last(stack)])
    <3>1. Target(prevMount) = Dir(a) /\ Len(mounts) <= 1
      BY <2>7, ExtractTarget, StackTop DEF a
    <3>2. files'[low] = files[low]
      BY <2>3, <2>4, <2>6, <2>7, <3>1 DEF Write
    <3>3. Len(mounts) # 2
      BY <3>1
    <3> QED BY <3>2, <3>3 DEF a, low
  <2>8. CASE Install
    <3>1. files' = [files EXCEPT ![Dir(img)] = @ \cup {img}]
      BY <2>8, InstalledOn
    <3>2. files'[low] = files[low]
      BY <2>3, <2>4, <2>6, <3>1
    <3>3. ASSUME Len(mounts) = 2 PROVE files'[Dir(a)] = files[Dir(a)]
      <4>1. a < img
        BY <2>4, <3>3 DEF Mounted, a
      <4>2. Dir(a) # Dir(img) /\ Dir(a) \in Places
        BY <2>3, <2>5, <4>1, PlacesAre
      <4> QED BY <2>4, <3>1, <4>2
    <3> QED BY <3>2, <3>3 DEF a, low
  <2> QED BY <2>1, <2>7, <2>8
<1> QED BY <1>1, <1>2

\* What the lower directory of each overlay shows.
LEMMA LowerViews ==
  TypeOK /\ Mounted =>
    \A k \in DOMAIN mounts :
      View(mounts[k].lower) =
        IF k = 1 THEN files[mounts[1].lower]
        ELSE files[Dir(mounts[1].image)] \cup files[mounts[1].lower]
<1> SUFFICES ASSUME TypeOK, Mounted, NEW k \in DOMAIN mounts
             PROVE  View(mounts[k].lower) =
                      IF k = 1 THEN files[mounts[1].lower]
                      ELSE files[Dir(mounts[1].image)] \cup files[mounts[1].lower]
  OBVIOUS
<1>1. Len(mounts) \in Nat /\ Len(mounts) <= 2 /\ DOMAIN mounts = 1 .. Len(mounts)
  BY LenProperties DEF TypeOK
<1>2. mounts # <<>>
  <2>1. Len(mounts) # 0
    BY <1>1
  <2> QED BY <2>1, EmptySeq
<1>3. CASE k = 1
  BY <1>2, <1>3, Views DEF Overlaid
<1>4. CASE k # 1
  <2>1. k = 2 /\ Len(mounts) = 2
    BY <1>1, <1>4
  <2>2. mounts[2].lower = Ovl(mounts[1].image)
    BY <2>1 DEF Mounted
  <2> QED BY <1>2, <1>4, <2>1, <2>2, Views DEF Overlaid
<1> QED BY <1>3, <1>4

\* mountOverlayFs, in every tree: the files below a mounted overlay do not change.
THEOREM LowerUntouchedHolds == Spec => LowerUntouched
<1> DEFINE Shows == \A k \in DOMAIN mounts :
                      View(mounts[k].lower) =
                        IF k = 1 THEN files[mounts[1].lower]
                        ELSE files[Dir(mounts[1].image)] \cup files[mounts[1].lower]
<1>1. TypeOK /\ Mounted => Shows
  BY LowerViews
<1>2. TypeOK' /\ Mounted' => Shows'
  BY <1>1, PTL
<1>3. LayersInv /\ [Next]_vars =>
        [\A k \in DOMAIN mounts \cap DOMAIN mounts' :
           LET lower == mounts[k].lower IN View(lower)' = View(lower)]_vars
  <2> SUFFICES ASSUME LayersInv, [Next]_vars, NEW k \in DOMAIN mounts \cap DOMAIN mounts'
               PROVE  View(mounts[k].lower)' = View(mounts[k].lower)
    OBVIOUS
  <2> HIDE DEF Shows
  <2>1. /\ mounts \in Seq([image : Images, lower : Places])
        /\ DOMAIN mounts = 1 .. Len(mounts) /\ Len(mounts) \in Nat /\ Len(mounts) <= 2
        /\ mounts # <<>>
    <3>1. mounts \in Seq([image : Images, lower : Places]) /\ Len(mounts) <= 2
      BY DEF LayersInv, TypeOK
    <3>2. DOMAIN mounts = 1 .. Len(mounts) /\ Len(mounts) \in Nat
      BY <3>1, LenProperties
    <3> QED BY <3>1, <3>2
  <2>2. LayersInv' /\ DOMAIN mounts' = 1 .. Len(mounts')
    <3>1. LayersInv'
      BY LayersStep
    <3> QED BY <3>1, LenProperties DEF LayersInv, TypeOK
  <2>3. CASE pc \in {"visit", "failed"}
    <3>1. UNCHANGED <<mounts, files>>
      BY <2>3 DEF Next, vars, Visit, Visited, Take, Done, Fail, WriteBase, Parent, ExtractLast,
           ExtractOnOverlay, MountOverlay, Stacked, Install, Umount, Unmounted, WriteLayer, Ended
    <3> QED BY <3>1 DEF View, MountsOn, Shown
  <2>4. CASE pc' = "failed"
    <3>1. UNCHANGED <<mounts, files>>
      BY <2>4 DEF Next, vars, Visit, Visited, Take, Done, Fail, WriteBase, Parent, ExtractLast,
           ExtractOnOverlay, MountOverlay, Stacked, Install, Umount, Unmounted, WriteLayer, Ended
    <3> QED BY <3>1 DEF View, MountsOn, Shown
  <2>5. CASE pc \notin {"visit", "failed"} /\ pc' # "failed"
    <3>1. pc' # "visit"
      BY <2>5 DEF Next, vars, Visit, Visited, Take, Done, Fail, WriteBase, Parent, ExtractLast,
           ExtractOnOverlay, MountOverlay, Stacked, Install, Umount, Unmounted, WriteLayer, Ended
    <3>2. Shows /\ Shows'
      <4>1. TypeOK /\ Mounted
        BY <2>5, BuildFacts
      <4>2. TypeOK' /\ Mounted'
        BY <2>2, <2>5, <3>1 DEF LayersInv, Building
      <4> QED BY <1>1, <1>2, <4>1, <4>2
    <3>3. /\ mounts'[1] = mounts[1]
          /\ files'[mounts[1].lower] = files[mounts[1].lower]
          /\ k # 1 => files'[Dir(mounts[1].image)] = files[Dir(mounts[1].image)]
      <4>1. CASE mounts' = mounts
        <5>1. k # 1 => Len(mounts) = 2
          BY <2>1
        <5> QED BY <2>1, <4>1, <5>1, FilesThen
      <4>2. CASE mounts' # mounts
        <5>1. 1 \in 1 .. Len(mounts) /\ 1 \in 1 .. Len(mounts')
          BY <2>1, <2>2
        <5> QED BY <4>2, <5>1, MountsThen
      <4> QED BY <4>1, <4>2
    <3>4. View(mounts[k].lower) =
            IF k = 1 THEN files[mounts[1].lower]
            ELSE files[Dir(mounts[1].image)] \cup files[mounts[1].lower]
      BY <3>2 DEF Shows
    <3>5. View(mounts[k].lower)' =
            IF k = 1 THEN files'[mounts'[1].lower]
            ELSE files'[Dir(mounts'[1].image)] \cup files'[mounts'[1].lower]
      BY <3>2 DEF Shows, Dir
    <3>6. mounts'[1].lower = mounts[1].lower /\ Dir(mounts'[1].image) = Dir(mounts[1].image)
      BY <3>3
    <3>7. files'[mounts'[1].lower] = files[mounts[1].lower]
      BY <3>3, <3>6
    <3>8. CASE k = 1
      BY <3>4, <3>5, <3>7, <3>8
    <3>9. CASE k # 1
      <4>1. files'[Dir(mounts'[1].image)] = files[Dir(mounts[1].image)]
        BY <3>3, <3>6, <3>9
      <4> QED BY <3>4, <3>5, <3>7, <3>9, <4>1
    <3> QED BY <3>8, <3>9
  <2> QED BY <2>3, <2>4, <2>5
<1> QED BY <1>3, LayersInvHolds, PTL DEF Spec, LowerUntouched

-----------------------------------------------------------------------------
(* The invariant of shallow trees holds.                                   *)

LEMMA SameTree ==
  ASSUME tree' = tree
  PROVE  /\ Up' = Up /\ LastChildren' = LastChildren /\ Spine' = Spine /\ Branches' = Branches
         /\ Shallow' <=> Shallow
<1>1. Up' = Up /\ LastChildren' = LastChildren
  BY DEF Up, LastChildren, Children
<1>2. Spine' = Spine
  BY <1>1 DEF Spine
<1>3. Branches' = Branches
  BY <1>2 DEF Branches
<1>4. Shallow' <=> Shallow
  BY DEF Shallow, Below, Ancestors, Children, ChildSeq
<1> QED BY <1>1, <1>2, <1>3, <1>4

\* What is extracted stays so in a step that extracts nothing.
LEMMA ExtractedThen ==
  ASSUME Extracted, UNCHANGED <<tree, unpackDir>>,
         files'[Dir(1)] = files[Dir(1)],
         \A b \in Branches : Made(b)' => Made(b) /\ files'[Dir(b)] = files[Dir(b)],
         \A i \in Spine \ {1} :
           (HasChild(i)' /\ ~(pc' = "stack" /\ i \in Range(stack'))) <=>
             (HasChild(i) /\ ~(pc = "stack" /\ i \in Range(stack)))
  PROVE  Extracted'
<1>1. Spine' = Spine /\ Branches' = Branches
  BY SameTree
<1>2. /\ \A i : Dir(i)' = Dir(i) /\ Ovl(i)' = Ovl(i)
      /\ NoPlace' = NoPlace /\ Range(stack)' = Range(stack')
  BY DEF Dir, Ovl, NoPlace, Range
<1>3. files'[Dir(1)] = {i \in Images : unpackDir'[i] = Dir(1)}
  BY DEF Extracted
<1>4. \A b \in Branches : Made(b)' =>
        files'[Dir(b)] = {b} \cup {i \in Images : unpackDir'[i] = Ovl(b)}
  BY DEF Extracted
<1>5. \A i \in Spine \ {1} :
        unpackDir'[i] = IF HasChild(i)' /\ ~(pc' = "stack" /\ i \in Range(stack'))
                        THEN Dir(1) ELSE NoPlace
  BY DEF Extracted
<1>6. \A i \in Images \ Spine :
        unpackDir'[i] # NoPlace => tree'[i] \in Branches /\ unpackDir'[i] = Ovl(tree'[i])
  BY DEF Extracted
<1> QED BY <1>1, <1>2, <1>3, <1>4, <1>5, <1>6 DEF Extracted

LEMMA OnParentsThen ==
  ASSUME OnParents, UNCHANGED <<tree, tar, builtOn>>
  PROVE  OnParents'
BY SameTree DEF OnParents

LEMMA InitShallow == Init => ShallowInv
BY DEF Init, ShallowInv, OnParents

\* The steps that build nothing.
LEMMA VisitShallow == LayersInv /\ ShallowInv /\ (Visit \/ Visited) => ShallowInv'
<1> SUFFICES ASSUME LayersInv, ShallowInv, Visit \/ Visited PROVE ShallowInv'
  OBVIOUS
<1>1. /\ pc = "visit" /\ pc' \in {"visit", "next"}
      /\ UNCHANGED <<tree, img, files, tar, unpackDir, builtOn>>
      /\ (pc' = "next" => Visited)
  BY DEF Visit, Visited, shape
<1>2. /\ img = 0 /\ files = [p \in Places |-> {}]
      /\ tar = [i \in Images |-> {}] /\ unpackDir = [i \in Images |-> NoPlace]
  BY <1>1 DEF LayersInv
<1>3. OnParents'
  BY <1>1, <1>2 DEF OnParents
<1>4. Extracted'
  <2>1. tree \in Trees /\ 1 \in Images
    BY NIs DEF LayersInv, TypeOK, Images
  <2>2. /\ Spine' = Spine /\ Branches' = Branches
        /\ Spine \subseteq Images /\ Branches \subseteq Images /\ 1 \in Spine
    BY <1>1, <2>1, SameTree, SpineIs
  <2>3. \A i \in Images : files'[Dir(i)] = {} /\ unpackDir'[i] = NoPlace
                          /\ unpackDir'[i] # Dir(1) /\ unpackDir'[i] # Ovl(i)
    BY <1>1, <1>2, <2>1, PlacesAre
  <2>4. ASSUME NEW i \in Spine \ {1} PROVE ~HasChild(i)'
    BY <1>1, <1>2, NIs DEF HasChild
  <2>5. ASSUME NEW b \in Branches, pc' = "next" PROVE ~Made(b)'
    <3>1. b \in Images /\ b # 1 /\ b >= 1 /\ b \in Nat
      BY <2>2, NIs DEF Images, Branches
    <3> QED BY <1>1, <1>2, <3>1 DEF Made
  <2>6. \A b \in Branches : ~Made(b)'
    BY <1>1, <1>2, <2>2, <2>5, NIs DEF Made, Images, Branches
  <2> QED BY <2>1, <2>2, <2>3, <2>4, <2>6 DEF Extracted, Dir, NoPlace
<1> QED BY <1>1, <1>3, <1>4 DEF ShallowInv

LEMMA TakeShallow == LayersInv /\ ShallowInv /\ Take => ShallowInv'
<1> SUFFICES ASSUME LayersInv, ShallowInv, Take, Shallow PROVE ShallowInv'
  <2>1. Take => (Shallow' <=> Shallow)
    BY SameTree DEF Take, shape
  <2> QED BY <2>1 DEF ShallowInv
<1>1. /\ pc = "next" /\ pc' \in {"base", "parent"}
      /\ UNCHANGED <<tree, files, tar, unpackDir, builtOn>>
      /\ \A i \in Images : (Made(i)' <=> Made(i))
      /\ \A i : (HasChild(i)' <=> HasChild(i))
  BY TakeIs DEF Take
<1>2. OnParents' /\ Extracted
  BY <1>1, OnParentsThen DEF ShallowInv
<1>3. Extracted'
  <2>1. Branches \subseteq Images
    BY DEF Branches
  <2> QED BY <1>1, <1>2, <2>1, ExtractedThen
<1> QED BY <1>1, <1>2, <1>3 DEF ShallowInv

LEMMA QuietShallow ==
  LayersInv /\ ShallowInv /\ (Done \/ Fail \/ Stacked \/ Umount \/ Unmounted) => ShallowInv'
<1> SUFFICES ASSUME LayersInv, ShallowInv, Done \/ Fail \/ Stacked \/ Umount \/ Unmounted, Shallow
             PROVE  ShallowInv'
  <2>1. Done \/ Fail \/ Stacked \/ Umount \/ Unmounted => (Shallow' <=> Shallow)
    BY SameTree DEF Done, Fail, Stacked, Umount, Unmounted, shape
  <2> QED BY <2>1 DEF ShallowInv
<1>1. UNCHANGED <<shape, img, stack, prevMount, files, tar, unpackDir, builtOn>>
  BY DEF Done, Fail, Stacked, Umount, Unmounted
<1>2. OnParents'
  BY <1>1, OnParentsThen DEF ShallowInv, shape
<1>3. CASE Fail
  BY <1>2, <1>3 DEF Fail, ShallowInv
<1>4. CASE ~Fail
  <2>1. /\ pc \notin {"visit", "failed", "base", "parent"}
        /\ pc' \notin {"visit", "failed", "base", "parent"}
        /\ (pc' \in {"next", "done"} <=> pc \in {"next", "done"})
        /\ pc' \in {"umount", "layer"} => pc = "umount"
        /\ pc' # "stack" /\ (pc = "stack" => stack = <<>>)
        /\ (pc' = "install" => pc = "stack" /\ mounts' = mounts /\ stack' = <<>>)
    BY <1>4 DEF Done, Stacked, Umount, Unmounted
  <2>2. \A x : (Made(x)' <=> Made(x)) /\ (HasChild(x)' <=> HasChild(x))
    BY <1>1, <2>1, SamePhase
  <2>3. Extracted'
    <3>1. pc = "stack" => Range(stack) = {}
      BY <2>1 DEF Range
    <3>2. Extracted
      BY <2>1 DEF ShallowInv
    <3> QED BY <1>1, <2>1, <2>2, <3>1, <3>2, ExtractedThen DEF shape
  <2>4. ASSUME pc' = "install" PROVE Assembling'
    <3>1. Assembling
      BY <2>1, <2>4 DEF ShallowInv
    <3>2. /\ Up' = Up /\ Spine' = Spine /\ Branches' = Branches /\ Range(stack)' = Range(stack)
          /\ UNCHANGED <<tree, img, prevMount, mounts, unpackDir>>
      BY <1>1, <2>1, <2>4, SameTree DEF shape, Range
    <3> QED BY <3>1, <3>2 DEF Assembling, Dir, Ovl
  <2>5. ASSUME pc' \in {"umount", "layer"} PROVE builtOn'[img'] = Up'[img'] \ {img'}
    BY <1>1, <2>1, <2>5, SameTree DEF ShallowInv, shape
  <2> QED BY <1>2, <2>1, <2>3, <2>4, <2>5 DEF ShallowInv
<1> QED BY <1>3, <1>4

LEMMA StillShallow == ShallowInv /\ UNCHANGED vars => ShallowInv'
<1> SUFFICES ASSUME ShallowInv, UNCHANGED vars, Shallow PROVE ShallowInv'
  <2>1. UNCHANGED vars => (Shallow' <=> Shallow)
    BY SameTree DEF vars
  <2> QED BY <2>1 DEF ShallowInv
<1>1. UNCHANGED <<tree, rootBuilt, pc, img, stack, prevMount, mounts, files, tar, unpackDir,
                  builtOn>>
  BY DEF vars
<1>2. Up' = Up /\ Spine' = Spine /\ Branches' = Branches
  BY <1>1, SameTree
<1>3. OnParents' = OnParents /\ Assembling' = Assembling
  BY <1>1, <1>2 DEF OnParents, Assembling
<1>4. Extracted' = Extracted
  BY <1>1, <1>2 DEF Extracted, Made, HasChild
<1> QED BY <1>1, <1>2, <1>3, <1>4 DEF ShallowInv

LEMMA WriteBaseShallow == LayersInv /\ ShallowInv /\ WriteBase => ShallowInv'
<1> SUFFICES ASSUME LayersInv, ShallowInv, WriteBase, Shallow PROVE ShallowInv'
  <2>1. WriteBase => (Shallow' <=> Shallow)
    BY SameTree DEF WriteBase, shape
  <2> QED BY <2>1 DEF ShallowInv
<1>1. /\ pc = "base" /\ pc' = "next"
      /\ tar' = [tar EXCEPT ![1] = files'[Dir(1)]]
      /\ UNCHANGED <<tree, img, builtOn>>
  BY DEF WriteBase, shape
<1>2. /\ TypeOK /\ Unpacked /\ Turn /\ tree \in Trees /\ Layered
  BY <1>1, BuildFacts
<1>3. img = 1 /\ 1 \in Images
  BY <1>1, <1>2, NIs DEF Turn, Images
<1>4. LayersInv'
  BY WriteBaseStep
<1>5. TypeOK' /\ Unpacked' /\ Layered'
  BY <1>1, <1>4 DEF LayersInv, Building
<1>6. OnParents'
  <2>1. Up' = Up
    BY <1>1, SameTree
  <2>2. \A i \in Images \ {1} : tar'[i] = tar[i]
    BY <1>1, <1>2 DEF TypeOK
  <2> QED BY <1>1, <2>1, <2>2 DEF ShallowInv, OnParents
<1>7. Extracted'
  <2>1. /\ Spine' = Spine /\ Branches' = Branches /\ Spine \subseteq Images
        /\ Branches \subseteq Images /\ 1 \in Spine /\ 1 \notin Branches
    BY <1>1, <1>2, SameTree, SpineIs
  <2>2. \A i : ~HasChild(i)'
    BY <1>1, <1>3, NIs DEF HasChild
  <2>3. \A i \in Images \ {1} : unpackDir'[i] = NoPlace
    <3>1. \A i \in Images \ {1} : i \in 2 .. N
      BY NIs DEF Images
    <3> QED BY <2>2, <3>1, <1>5 DEF Unpacked, NoPlace
  <2>4. files'[Dir(1)] = {1} /\ unpackDir'[1] = Dir(1)
    <3>1. Empty(1)
      <4>1. rootBuilt
        BY <1>1, <1>3, BuildFacts
      <4> QED BY <1>1, <1>3, <4>1 DEF Empty
    <3>2. files[Dir(1)] = {} /\ Dir(1) \in Places
      BY <1>2, <1>3, <3>1, PlacesAre DEF Layered
    <3> QED BY <1>2, <1>3, <3>2 DEF WriteBase, TypeOK
  <2>5. files'[Dir(1)] = {i \in Images : unpackDir'[i] = Dir(1)}
    BY <1>3, <2>3, <2>4, PlacesAre
  <2>6. \A b \in Branches : ~Made(b)'
    BY <1>1, <1>3, <2>1, NIs DEF Made, Images
  <2> QED BY <1>1, <2>1, <2>2, <2>3, <2>5, <2>6 DEF Extracted, Dir, NoPlace
<1> QED BY <1>1, <1>6, <1>7 DEF ShallowInv

\* A parent is assembled from the root or an image of the spine; what is stacked is not unpacked.
LEMMA ParentShallow == LayersInv /\ ShallowInv /\ Parent => ShallowInv'
<1> SUFFICES ASSUME LayersInv, ShallowInv, Parent, Shallow PROVE ShallowInv'
  <2>1. Parent => (Shallow' <=> Shallow)
    BY SameTree DEF Parent, shape
  <2> QED BY <2>1 DEF ShallowInv
<1>1. /\ pc = "parent" /\ pc' = "stack" /\ mounts = <<>> /\ mounts' = <<>>
      /\ img >= 2 /\ img \in Images /\ tree' = tree /\ rootBuilt' = rootBuilt
      /\ unpackDir'[1] = Dir(1) /\ unpackDir' \in [Images -> Places \cup {NoPlace}]
      /\ \A i \in Images \ {1} : unpackDir'[i] = unpackDir[i] /\ tar'[i] = tar[i]
      /\ files'[Dir(1)] = IF Made(1) THEN files[Dir(1)] ELSE files[Dir(1)] \cup {1}
      /\ \A place \in Places \ {Dir(1)} : files'[place] = files[place]
      /\ \A i \in Images \ {1} : Made(i)' <=> Made(i)
      /\ img' = img /\ builtOn' = builtOn
      /\ stack' = Front(Hierarchy(unpackDir'))
      /\ prevMount' = unpackDir'[Last(Hierarchy(unpackDir'))]
  BY ParentIsThere
<1>2. /\ TypeOK /\ Layered /\ Unpacked /\ Turn /\ tree \in Trees
      /\ (\A i \in Images : i \in Nat)
  BY <1>1, BuildFacts
<1>3. Extracted /\ OnParents
  BY <1>1 DEF ShallowInv
<1> DEFINE low == Last(Hierarchy(unpackDir'))
<1>4. /\ low \in Up[img] \ {img} /\ unpackDir'[low] # NoPlace
      /\ \A x \in Range(stack') \ {img} : unpackDir'[x] = NoPlace
      /\ \A x \in Range(stack') : x \in Up[img] \ {1}
      /\ \A x \in Up[img] : x > low => x \in Range(stack')
  <2>1. img # 1 /\ unpackDir'[1] # NoPlace /\ 1 \in Images
    BY <1>1, PlacesAre, NIs DEF Images
  <2> QED BY <1>1, <1>2, <2>1, HierarchyIs
<1>5. prevMount' = unpackDir'[low]
  BY <1>1
<1> HIDE DEF low
<1>6. /\ Up' = Up /\ Spine' = Spine /\ Branches' = Branches /\ LastChildren' = LastChildren
      /\ Spine \subseteq Images /\ Branches \subseteq Images \ Spine /\ 1 \in Spine /\ 1 \in Images
      /\ Range(stack)' = Range(stack')
  BY <1>1, <1>2, SameTree, SpineIs, NIs DEF Images, Range
<1>7. low \in Images /\ low \in Nat /\ low < img /\ img \in Nat
  <2>1. low \in Images /\ low \in Nat /\ low <= img /\ low # img /\ img \in Nat
    BY <1>1, <1>2, <1>4, UpIs
  <2> QED BY <2>1
<1>8. \A i : HasChild(i)' <=> HasChild(i) \/ i = tree[img]
  <2>1. \A i : HasChild(i) <=> \E j \in 2 .. N : tree[j] = i /\ j < img
    BY <1>1 DEF HasChild
  <2>2. \A i : HasChild(i)' <=> \E j \in 2 .. N : tree[j] = i /\ (j < img \/ j = img)
    BY <1>1 DEF HasChild
  <2>3. img \in 2 .. N
    BY <1>1, <1>2, NIs DEF Images
  <2> QED BY <2>1, <2>2, <2>3
<1>9. OnParents'
  BY <1>1, <1>3, <1>6 DEF OnParents
<1>10. Extracted'
  <2>1. files'[Dir(1)] = {i \in Images : unpackDir'[i] = Dir(1)}
    <3>1. files[Dir(1)] = {i \in Images : unpackDir[i] = Dir(1)}
      BY <1>3 DEF Extracted
    <3>2. unpackDir[1] = IF Made(1) THEN Dir(1) ELSE NoPlace
      BY <1>2 DEF Unpacked
    <3>3. {i \in Images : unpackDir'[i] = Dir(1)} = {i \in Images : unpackDir[i] = Dir(1)} \cup {1}
      BY <1>1, <1>6
    <3> QED BY <1>1, <1>6, <3>1, <3>2, <3>3
  <2>2. ASSUME NEW b \in Branches, Made(b)'
        PROVE  files'[Dir(b)] = {b} \cup {i \in Images : unpackDir'[i] = Ovl(b)}
    <3>1. b \in Images \ {1} /\ Made(b)
      BY <1>1, <1>6, <2>2
    <3>2. files'[Dir(b)] = files[Dir(b)]
      BY <1>1, <1>6, <3>1, PlacesAre
    <3>3. files[Dir(b)] = {b} \cup {i \in Images : unpackDir[i] = Ovl(b)}
      BY <1>3, <3>1 DEF Extracted
    <3>4. unpackDir'[1] # Ovl(b) /\ unpackDir[1] # Ovl(b)
      BY <1>1, <1>2, <1>6, <3>1, PlacesAre DEF Unpacked
    <3>5. \A i \in Images : unpackDir'[i] = Ovl(b) <=> unpackDir[i] = Ovl(b)
      BY <1>1, <3>4
    <3> QED BY <3>2, <3>3, <3>5
  <2>3. ASSUME NEW i \in Spine \ {1}
        PROVE  unpackDir'[i] = IF HasChild(i)' /\ ~(pc' = "stack" /\ i \in Range(stack'))
                               THEN Dir(1) ELSE NoPlace
    <3>1. /\ i \in Images \ {1} /\ unpackDir'[i] = unpackDir[i]
          /\ unpackDir[i] = IF HasChild(i) THEN Dir(1) ELSE NoPlace
      BY <1>1, <1>3, <1>6 DEF Extracted
    <3>2. CASE HasChild(i)
      <4>1. i # img
        <5>1. PICK j \in 2 .. N : tree[j] = i /\ j < img
          BY <1>1, <3>2 DEF HasChild
        <5>2. j \in Images \ {1}
          BY NIs DEF Images
        <5>3. tree[j] < j /\ j \in Nat /\ tree[j] \in Nat
          BY <1>2, <5>2, UpIs
        <5> QED BY <1>7, <5>1, <5>3
      <4>2. unpackDir'[i] = Dir(1) /\ unpackDir'[i] # NoPlace
        BY <1>6, <3>1, <3>2, PlacesAre
      <4>3. i \notin Range(stack')
        BY <1>4, <4>1, <4>2
      <4> QED BY <1>8, <3>2, <4>2, <4>3
    <3>3. CASE ~HasChild(i) /\ i = tree[img]
      <4>1. unpackDir'[i] = NoPlace /\ i # low
        BY <1>4, <3>1, <3>3
      <4>2. Up[img] = {img} \cup Up[i] /\ i \in Up[img] /\ i \in Nat
        BY <1>1, <1>2, <3>1, <3>3, UpIs
      <4>3. low \in Up[i]
        BY <1>4, <4>2
      <4>4. low <= i
        BY <1>2, <3>1, <4>3, UpIs
      <4>5. i > low
        BY <1>7, <4>1, <4>2, <4>4
      <4> QED BY <1>1, <1>4, <4>1, <4>2, <4>5
    <3>4. CASE ~HasChild(i) /\ i # tree[img]
      BY <1>8, <3>1, <3>4
    <3> QED BY <3>2, <3>3, <3>4
  <2>4. ASSUME NEW i \in Images \ Spine, unpackDir'[i] # NoPlace
        PROVE  tree[i] \in Branches /\ unpackDir'[i] = Ovl(tree[i])
    BY <1>1, <1>3, <1>6, <2>4 DEF Extracted
  <2> QED BY <1>1, <1>6, <2>1, <2>2, <2>3, <2>4 DEF Extracted, Dir, Ovl, NoPlace
<1>11. low \in Spine
  <2> SUFFICES ASSUME low \notin Spine PROVE FALSE
    OBVIOUS
  <2>1. low \in Images \ {1} /\ unpackDir[low] # NoPlace /\ low \in 2 .. N
    BY <1>1, <1>4, <1>6, <1>7, NIs DEF Images
  <2>2. HasChild(low) /\ tree[low] \in Branches /\ tree[low] \notin Spine
    BY <1>2, <1>3, <1>6, <2>1 DEF Unpacked, Extracted
  <2>3. low \in Branches \/ Children(low) = {img}
    BY <1>1, <1>2, <1>4, OffTheSpine
  <2>4. low \notin Branches
    BY <1>2, <2>2, SpineIs
  <2>5. PICK j \in 2 .. N : tree[j] = low /\ j < img
    BY <1>1, <2>2 DEF HasChild
  <2>6. j \in Children(low) /\ j # img
    BY <1>7, <2>5 DEF Children
  <2> QED BY <2>3, <2>4, <2>6
<1>12. Assembling'
  <2>1. prevMount' = Dir(1)
    <3>1. CASE low = 1
      BY <1>1, <1>5, <3>1
    <3>2. CASE low # 1
      <4>1. unpackDir'[low] = unpackDir[low] /\ unpackDir[low] \in {Dir(1), NoPlace}
        BY <1>1, <1>3, <1>7, <1>11, <3>2 DEF Extracted
      <4> QED BY <1>4, <1>5, <4>1
    <3> QED BY <3>1, <3>2
  <2>2. ASSUME NEW i \in Up[img] \ Spine PROVE i \in Range(stack')
    <3>1. i \in Nat
      BY <1>1, <1>2, UpIs
    <3>2. CASE i <= low
      <4>1. i \in Up[low]
        BY <1>1, <1>2, <1>4, <3>2, UpIs
      <4> QED BY <1>2, <1>11, <4>1, SpineDown
    <3>3. CASE i > low
      BY <1>4, <3>3
    <3> QED BY <1>7, <3>1, <3>2, <3>3
  <2> QED BY <1>1, <1>6, <2>1, <2>2 DEF Assembling, Dir
<1> QED BY <1>1, <1>9, <1>10, <1>12 DEF ShallowInv

\* An image on the way: without an overlay it is of the spine, or the branch to mount; with one
\* it is the last child of the branch that is mounted.
LEMMA OnTheStack ==
  ASSUME LayersInv, ShallowInv, Shallow, pc = "stack", stack # <<>>, Last(stack) # img
  PROVE  LET i == Last(stack)
             a == mounts[1].image
         IN  /\ i \in Up[img] \ {img} /\ i \in Images \ {1} /\ i < img
             /\ tar[i] = {i} /\ HasChild(i)
             /\ mounts = <<>> => prevMount = Dir(1) /\ (i \in Spine \/ i \in Branches)
             /\ mounts # <<>> => /\ a \in Branches /\ a # img /\ a # i /\ Made(a)
                                 /\ i \notin Spine /\ i \in LastChildren /\ tree[i] = a
                                 /\ prevMount = Ovl(a)
<1> DEFINE i == Last(stack)
           a == mounts[1].image
<1>1. /\ TypeOK /\ Layered /\ Unpacked /\ Mounted /\ Turn /\ tree \in Trees /\ Building
      /\ (\A x \in Images : x \in Nat) /\ img \in Nat /\ img \in Images
  BY BuildFacts DEF Turn
<1>2. Assembling
  BY DEF ShallowInv
<1>3. /\ i \in Images \ {1} /\ i \in Up[img] /\ i >= 2 /\ i <= img /\ i \in Nat
      /\ i \in Range(stack) /\ Range(Front(stack)) = Range(stack) \ {i}
      /\ \A x \in Range(Front(stack)) : x > i
      /\ \A m \in DOMAIN mounts : mounts[m].image < i
      /\ Len(mounts) <= 1 /\ (mounts # <<>> => prevMount = Ovl(mounts[1].image))
  BY StackTop
<1>4. i # img
  OBVIOUS
<1> HIDE DEF i
<1>5. i < img /\ i \in Up[img] \ {img}
  BY <1>1, <1>3, <1>4
<1>6. Made(i) /\ tar[i] = {i}
  <2>1. Made(i)
    BY <1>3, <1>5 DEF Made
  <2> QED BY <1>1, <1>3, <2>1 DEF Layered
<1>7. HasChild(i)
  <2>1. PICK c \in Up[img] \ {1} : tree[c] = i
    BY <1>1, <1>5, OnTheWay
  <2>2. c \in 2 .. N /\ c <= img /\ c \in Nat
    BY <1>1, <2>1, UpIs
  <2> QED BY <1>1, <2>1, <2>2 DEF HasChild
<1>8. \A x \in Range(stack) : x = i \/ x > i
  BY <1>3
<1>9. i \notin Spine =>
        \/ i \in Branches
        \/ tree[i] \in Branches /\ tree[i] \in Up[img] /\ i \in LastChildren
  BY <1>1, <1>5, OffTheSpine
<1>10. tree[i] < i /\ tree[i] \in Nat /\ tree[i] \in Images
  BY <1>1, <1>3, UpIs
<1>11. ASSUME mounts = <<>> PROVE prevMount = Dir(1) /\ (i \in Spine \/ i \in Branches)
  <2>1. prevMount = Dir(1)
    BY <1>2, <1>11 DEF Assembling
  <2>2. ASSUME i \notin Spine, i \notin Branches PROVE FALSE
    <3> DEFINE b == tree[i]
    <3>1. b \in Branches /\ b \in Up[img] /\ b \notin Spine
      BY <1>9, <2>2 DEF Branches
    <3>2. b \notin Range(stack)
      BY <1>3, <1>8, <1>10
    <3>3. \A k : k \notin DOMAIN mounts
      BY <1>11
    <3>4. unpackDir[b] = Ovl(tree[b])
      BY <1>2, <3>1, <3>2, <3>3 DEF Assembling
    <3>5. b \in Images \ {1} /\ b \notin LastChildren /\ b \in 2 .. N
      BY <1>1, <3>1, SpineIs, UpIs
    <3>6. tree[b] \in Images
      BY <1>1, <3>5, UpIs
    <3>7. unpackDir[b] # NoPlace
      BY <3>4, <3>6, PlacesAre
    <3> QED BY <1>1, <3>5, <3>7 DEF Unpacked
  <2> QED BY <2>1, <2>2
<1>12. ASSUME mounts # <<>>
       PROVE  /\ a \in Branches /\ a # img /\ a # i /\ Made(a)
              /\ i \notin Spine /\ i \in LastChildren /\ tree[i] = a
              /\ prevMount = Ovl(a)
  <2>1. 1 \in DOMAIN mounts
    <3>1. Len(mounts) \in Nat /\ Len(mounts) >= 1 /\ DOMAIN mounts = 1 .. Len(mounts)
      BY <1>1, <1>12, FrontIs DEF TypeOK
    <3> QED BY <3>1
  <2>2. a < i /\ a \in Images /\ a \in Nat /\ a # img
    <3>1. a < i /\ a \in Images
      BY <1>3, <1>12, <2>1, LowerIs
    <3>2. a \in Nat
      BY <1>1, <3>1
    <3> HIDE DEF a
    <3>3. a # img
      BY <1>1, <1>3, <1>5, <3>1, <3>2
    <3> QED BY <3>1, <3>2, <3>3
  <2>3. a \in Branches /\ a \in Up[img] /\ a \notin Spine
    BY <1>2, <1>12, <2>2 DEF Assembling, Branches
  <2>4. a \in Up[i]
    BY <1>1, <1>3, <2>2, <2>3, UpIs
  <2>5. i \notin Spine
    BY <1>1, <2>3, <2>4, SpineDown
  <2>6. i \notin Branches
    BY <1>1, <1>3, <2>2, <2>3, OneBranch
  <2>7. tree[i] \in Branches /\ tree[i] \in Up[img] /\ i \in LastChildren
    BY <1>9, <2>5, <2>6
  <2>8. tree[i] = a
    BY <1>1, <2>3, <2>7, OneBranch
  <2>9. Made(a)
    <3>1. a # 1 /\ a < img
      BY <1>1, <1>3, <1>5, <2>2, <2>3, SpineIs
    <3> QED BY <3>1 DEF Made
  <2> QED BY <1>3, <1>12, <2>2, <2>3, <2>5, <2>7, <2>8, <2>9
<1> QED BY <1>3, <1>5, <1>6, <1>7, <1>11, <1>12 DEF i, a

\* A last child is extracted on the root, or on the branch it belongs to.
LEMMA ExtractLastShallow == LayersInv /\ ShallowInv /\ ExtractLast => ShallowInv'
<1> SUFFICES ASSUME LayersInv, ShallowInv, ExtractLast, Shallow PROVE ShallowInv'
  <2>1. ExtractLast => (Shallow' <=> Shallow)
    BY SameTree DEF ExtractLast, shape
  <2> QED BY <2>1 DEF ShallowInv
<1> DEFINE i == Last(stack)
           a == mounts[1].image
<1>1. /\ pc = "stack" /\ stack # <<>> /\ i # img /\ i \in lastChild
      /\ Write(prevMount, tar[i])
      /\ unpackDir' = [unpackDir EXCEPT ![i] = prevMount]
      /\ stack' = Front(stack)
      /\ UNCHANGED <<shape, pc, img, prevMount, mounts, tar, builtOn>>
  BY DEF ExtractLast
<1>2. /\ TypeOK /\ Layered /\ Unpacked /\ Mounted /\ Turn /\ tree \in Trees
      /\ (\A x \in Images : x \in Nat) /\ i \in LastChildren /\ img \in Images
  BY <1>1, BuildFacts DEF Queued, Turn
<1>3. Extracted /\ Assembling /\ OnParents
  BY <1>1 DEF ShallowInv
<1>4. /\ i \in Up[img] \ {img} /\ i \in Images \ {1} /\ i < img
      /\ tar[i] = {i} /\ HasChild(i)
      /\ mounts = <<>> => prevMount = Dir(1) /\ (i \in Spine \/ i \in Branches)
      /\ mounts # <<>> => /\ a \in Branches /\ a # img /\ a # i /\ Made(a)
                          /\ i \notin Spine /\ i \in LastChildren /\ tree[i] = a
                          /\ prevMount = Ovl(a)
  BY <1>1, OnTheStack
<1>5. /\ mounts = <<>> => Target(prevMount) = prevMount
      /\ mounts # <<>> => Target(prevMount) = Dir(a)
  BY <1>1, ExtractTarget
<1>6. i \in Range(stack) /\ Range(stack') = Range(stack) \ {i} /\ prevMount \in Places
  BY <1>1, StackTop
<1>7. /\ files \in [Places -> SUBSET Images] /\ unpackDir \in [Images -> Places \cup {NoPlace}]
      /\ files' = [files EXCEPT ![Target(prevMount)] = @ \cup {i}]
  BY <1>1, <1>2, <1>4 DEF TypeOK, Write
<1> HIDE DEF i, a
<1>8. /\ Up' = Up /\ Spine' = Spine /\ Branches' = Branches /\ tree' = tree
      /\ Spine \subseteq Images /\ Branches \subseteq Images \ Spine /\ 1 \in Spine /\ 1 \in Images
      /\ Range(stack)' = Range(stack')
      /\ (\A b \in Branches : b # 1 /\ b \notin LastChildren)
  BY <1>1, <1>2, SameTree, SpineIs, NIs DEF Images, Range, shape
<1>9. unpackDir'[i] = prevMount /\ \A x \in Images \ {i} : unpackDir'[x] = unpackDir[x]
  BY <1>1, <1>4, <1>7
<1>10. \A x : (Made(x)' <=> Made(x)) /\ (HasChild(x)' <=> HasChild(x))
  BY <1>1, SamePhase
<1>11. OnParents'
  BY <1>1, <1>3, <1>8, OnParentsThen
<1>12. ASSUME NEW x \in Spine \ {1, i}
       PROVE  unpackDir'[x] = IF HasChild(x)' /\ ~(pc' = "stack" /\ x \in Range(stack'))
                              THEN Dir(1) ELSE NoPlace
  <2>1. x \in Range(stack') <=> x \in Range(stack)
    BY <1>6
  <2> QED BY <1>1, <1>3, <1>8, <1>9, <1>10, <2>1 DEF Extracted
<1>13. CASE mounts = <<>>
  <2>1. i \in Spine /\ prevMount = Dir(1) /\ Target(prevMount) = Dir(1)
    BY <1>2, <1>4, <1>5, <1>8, <1>13
  <2>2. unpackDir[i] = NoPlace
    BY <1>1, <1>3, <1>4, <1>6, <2>1 DEF Extracted
  <2>3. files'[Dir(1)] = {x \in Images : unpackDir'[x] = Dir(1)}
    <3>1. files'[Dir(1)] = files[Dir(1)] \cup {i}
      BY <1>7, <1>8, <2>1, PlacesAre
    <3> QED BY <1>3, <1>4, <1>9, <2>1, <3>1 DEF Extracted
  <2>4. ASSUME NEW b \in Branches, Made(b)'
        PROVE  files'[Dir(b)] = {b} \cup {x \in Images : unpackDir'[x] = Ovl(b)}
    <3>1. Dir(b) # Dir(1) /\ Dir(b) \in Places /\ Dir(1) # Ovl(b) /\ NoPlace # Ovl(b)
      BY <1>8, PlacesAre
    <3>2. files'[Dir(b)] = files[Dir(b)]
      BY <1>7, <2>1, <3>1
    <3>3. \A x \in Images : unpackDir'[x] = Ovl(b) <=> unpackDir[x] = Ovl(b)
      BY <1>9, <2>1, <2>2, <3>1
    <3>4. files[Dir(b)] = {b} \cup {x \in Images : unpackDir[x] = Ovl(b)}
      BY <1>3, <1>10, <2>4 DEF Extracted
    <3> QED BY <3>2, <3>3, <3>4
  <2>5. ASSUME NEW x \in Spine \ {1}
        PROVE  unpackDir'[x] = IF HasChild(x)' /\ ~(pc' = "stack" /\ x \in Range(stack'))
                               THEN Dir(1) ELSE NoPlace
    BY <1>4, <1>6, <1>9, <1>10, <1>12, <2>1
  <2>6. ASSUME NEW x \in Images \ Spine, unpackDir'[x] # NoPlace
        PROVE  tree[x] \in Branches /\ unpackDir'[x] = Ovl(tree[x])
    BY <1>3, <1>9, <2>1, <2>6 DEF Extracted
  <2>7. Extracted'
    BY <1>8, <2>3, <2>4, <2>5, <2>6 DEF Extracted, Dir, Ovl, NoPlace
  <2>8. Assembling'
    <3>1. ASSUME NEW x \in Up[img] \ Spine
          PROVE  \/ x \in Range(stack') \/ \E k \in DOMAIN mounts : mounts[k].image = x
                 \/ unpackDir'[x] = Ovl(tree[x])
      <4>1. x # i /\ x \in Images
        BY <1>2, <2>1, UpIs
      <4> QED BY <1>3, <1>6, <1>9, <4>1 DEF Assembling
    <3> QED BY <1>1, <1>8, <1>13, <2>1, <3>1 DEF Assembling, Dir, Ovl
  <2> QED BY <1>1, <1>11, <2>7, <2>8 DEF ShallowInv
<1>14. CASE mounts # <<>>
  <2>1. /\ a \in Branches /\ a # img /\ a # i /\ Made(a) /\ a \in Images /\ a # 1
        /\ i \notin Spine /\ tree[i] = a /\ prevMount = Ovl(a) /\ Target(prevMount) = Dir(a)
    BY <1>4, <1>5, <1>8, <1>14
  <2>2. unpackDir[i] \in {NoPlace, Ovl(a)}
    BY <1>3, <1>4, <2>1 DEF Extracted
  <2>3. files'[Dir(1)] = {x \in Images : unpackDir'[x] = Dir(1)}
    <3>1. Dir(a) # Dir(1) /\ Dir(1) \in Places /\ Dir(1) # Ovl(a) /\ Dir(1) # NoPlace
      BY <1>8, <2>1, PlacesAre
    <3>2. files'[Dir(1)] = files[Dir(1)]
      BY <1>7, <2>1, <3>1
    <3>3. \A x \in Images : unpackDir'[x] = Dir(1) <=> unpackDir[x] = Dir(1)
      BY <1>9, <2>1, <2>2, <3>1
    <3> QED BY <1>3, <3>2, <3>3 DEF Extracted
  <2>4. ASSUME NEW b \in Branches, Made(b)'
        PROVE  files'[Dir(b)] = {b} \cup {x \in Images : unpackDir'[x] = Ovl(b)}
    <3>1. b \in Images /\ Dir(b) \in Places /\ NoPlace # Ovl(b)
      BY <1>8, PlacesAre
    <3>2. files[Dir(b)] = {b} \cup {x \in Images : unpackDir[x] = Ovl(b)}
      BY <1>3, <1>10, <2>4 DEF Extracted
    <3>3. CASE b = a
      <4>1. files'[Dir(b)] = files[Dir(b)] \cup {i}
        BY <1>7, <2>1, <3>1, <3>3
      <4>2. {x \in Images : unpackDir'[x] = Ovl(b)} =
              {x \in Images : unpackDir[x] = Ovl(b)} \cup {i}
        BY <1>4, <1>9, <2>1, <3>3
      <4> QED BY <3>2, <4>1, <4>2
    <3>4. CASE b # a
      <4>1. Dir(b) # Dir(a) /\ Ovl(b) # Ovl(a)
        BY <2>1, <3>1, <3>4, PlacesAre
      <4>2. files'[Dir(b)] = files[Dir(b)]
        BY <1>7, <2>1, <3>1, <4>1
      <4>3. \A x \in Images : unpackDir'[x] = Ovl(b) <=> unpackDir[x] = Ovl(b)
        BY <1>9, <2>1, <2>2, <3>1, <4>1
      <4> QED BY <3>2, <4>2, <4>3
    <3> QED BY <3>3, <3>4
  <2>5. ASSUME NEW x \in Spine \ {1}
        PROVE  unpackDir'[x] = IF HasChild(x)' /\ ~(pc' = "stack" /\ x \in Range(stack'))
                               THEN Dir(1) ELSE NoPlace
    BY <1>12, <2>1
  <2>6. ASSUME NEW x \in Images \ Spine, unpackDir'[x] # NoPlace
        PROVE  tree[x] \in Branches /\ unpackDir'[x] = Ovl(tree[x])
    BY <1>3, <1>9, <2>1, <2>6 DEF Extracted
  <2>7. Extracted'
    BY <1>8, <2>3, <2>4, <2>5, <2>6 DEF Extracted, Dir, Ovl, NoPlace
  <2>8. Assembling'
    <3>1. ASSUME NEW x \in Up[img] \ Spine
          PROVE  \/ x \in Range(stack') \/ \E k \in DOMAIN mounts : mounts[k].image = x
                 \/ unpackDir'[x] = Ovl(tree[x])
      <4>1. x \in Images
        BY <1>2, UpIs
      <4>2. CASE x = i
        BY <1>9, <2>1, <4>2
      <4>3. CASE x # i
        BY <1>3, <1>6, <1>9, <4>1, <4>3 DEF Assembling
      <4> QED BY <4>2, <4>3
    <3>2. mounts[1].lower = Dir(1) /\ (a # img => a \in Branches \cap Up[img])
      BY <1>3, <1>14 DEF Assembling, a
    <3> QED BY <1>1, <1>8, <1>14, <3>1, <3>2 DEF Assembling, Dir, Ovl, a
  <2> QED BY <1>1, <1>11, <2>7, <2>8 DEF ShallowInv
<1> QED BY <1>13, <1>14

\* In a shallow tree no layer is extracted on an overlay but that of a last child.
LEMMA ExtractOnOverlayShallow == LayersInv /\ ShallowInv /\ ExtractOnOverlay => ShallowInv'
<1> SUFFICES ASSUME LayersInv, ShallowInv, ExtractOnOverlay, Shallow PROVE FALSE
  <2>1. ExtractOnOverlay => (Shallow' <=> Shallow)
    BY SameTree DEF ExtractOnOverlay, shape
  <2> QED BY <2>1 DEF ShallowInv
<1>1. /\ pc = "stack" /\ stack # <<>> /\ mounts # <<>>
      /\ Last(stack) # img /\ Last(stack) \notin lastChild
  BY DEF ExtractOnOverlay
<1>2. lastChild = LastChildren
  BY <1>1, BuildFacts DEF Queued
<1> QED BY <1>1, <1>2, OnTheStack

\* What is mounted after an overlay was.
LEMMA MountedOne ==
  ASSUME LayersInv, MountOverlay
  PROVE  LET i == Last(stack)
         IN  /\ mounts' # <<>> /\ Len(mounts') = Len(mounts) + 1 /\ Len(mounts) \in {0, 1}
             /\ \E k \in DOMAIN mounts' : mounts'[k].image = i
             /\ \A m \in DOMAIN mounts : \E k \in DOMAIN mounts' : mounts'[k] = mounts[m]
             /\ mounts = <<>> => mounts'[1] = [image |-> i, lower |-> prevMount]
             /\ mounts # <<>> => mounts'[1] = mounts[1]
<1> DEFINE i == Last(stack)
           overlay == [image |-> i, lower |-> prevMount]
<1>1. /\ pc = "stack" /\ stack # <<>> /\ mounts' = Append(mounts, overlay)
  BY DEF MountOverlay
<1>2. /\ mounts \in Seq([image : Images, lower : Places])
      /\ Len(mounts) <= 1 /\ i \in Images /\ prevMount \in Places
  BY <1>1, StackTop DEF LayersInv, TypeOK
<1> HIDE DEF i
<1>3. overlay \in [image : Images, lower : Places] /\ overlay.image = i
  BY <1>2
<1> HIDE DEF overlay
<1> DEFINE n == Len(mounts)
<1>4. /\ mounts' \in Seq([image : Images, lower : Places])
      /\ Len(mounts') = n + 1
      /\ \A k \in 1 .. n : mounts'[k] = mounts[k]
      /\ mounts'[n + 1] = overlay
  BY <1>1, <1>2, <1>3, AppendProperties
<1>5. /\ n \in Nat /\ DOMAIN mounts = 1 .. n /\ (n = 0 <=> mounts = <<>>)
      /\ DOMAIN mounts' = 1 .. n + 1 /\ (mounts' = <<>> <=> n + 1 = 0)
  BY <1>2, <1>4, LenProperties, EmptySeq
<1>6. n \in {0, 1}
  BY <1>2, <1>5
<1> HIDE DEF n
<1>7. n + 1 \in DOMAIN mounts' /\ mounts' # <<>> /\ (DOMAIN mounts \subseteq DOMAIN mounts')
  BY <1>5, <1>6
<1>8. mounts = <<>> => mounts'[1] = overlay
  BY <1>4, <1>5
<1>9. mounts # <<>> => mounts'[1] = mounts[1]
  <2>1. mounts # <<>> => 1 \in 1 .. n
    BY <1>5, <1>6
  <2> QED BY <1>4, <2>1
<1>10. \A m \in DOMAIN mounts : \E k \in DOMAIN mounts' : mounts'[k] = mounts[m]
  BY <1>4, <1>5, <1>7
<1>11. \E k \in DOMAIN mounts' : mounts'[k].image = i
  BY <1>3, <1>4, <1>7
<1> QED BY <1>4, <1>6, <1>7, <1>8, <1>9, <1>10, <1>11 DEF i, n, overlay

\* An overlay is mounted for the image itself, or for the branch it is on.
LEMMA MountOverlayShallow == LayersInv /\ ShallowInv /\ MountOverlay => ShallowInv'
<1> SUFFICES ASSUME LayersInv, ShallowInv, MountOverlay, Shallow PROVE ShallowInv'
  <2>1. MountOverlay => (Shallow' <=> Shallow)
    BY SameTree DEF MountOverlay, shape
  <2> QED BY <2>1 DEF ShallowInv
<1> DEFINE i == Last(stack)
<1>1. /\ pc = "stack" /\ stack # <<>>
      /\ i = img \/ (i \notin lastChild /\ mounts = <<>>)
      /\ prevMount' = Ovl(i) /\ stack' = Front(stack)
      /\ UNCHANGED <<shape, pc, img, files, tar, unpackDir, builtOn>>
  BY DEF MountOverlay
<1>2. /\ TypeOK /\ Unpacked /\ Turn /\ tree \in Trees /\ img \in Images
      /\ (\A x \in Images : x \in Nat) /\ lastChild = LastChildren
  BY <1>1, BuildFacts DEF Queued, Turn
<1>3. Extracted /\ Assembling /\ OnParents
  BY <1>1 DEF ShallowInv
<1>4. i \in Range(stack) /\ Range(stack') = Range(stack) \ {i} /\ i \in Images
  BY <1>1, StackTop
<1>5. /\ mounts' # <<>>
      /\ \E k \in DOMAIN mounts' : mounts'[k].image = i
      /\ \A m \in DOMAIN mounts : \E k \in DOMAIN mounts' : mounts'[k] = mounts[m]
      /\ mounts = <<>> => mounts'[1].image = i /\ mounts'[1].lower = prevMount
      /\ mounts # <<>> => mounts'[1] = mounts[1]
  BY MountedOne
<1>6. /\ Up' = Up /\ Spine' = Spine /\ Branches' = Branches /\ tree' = tree
      /\ Spine \subseteq Images /\ Branches \subseteq Images \ Spine
      /\ Range(stack)' = Range(stack')
  BY <1>1, <1>2, SameTree, SpineIs DEF Range, shape
<1>7. \A x : (Made(x)' <=> Made(x)) /\ (HasChild(x)' <=> HasChild(x))
  BY <1>1, SamePhase
<1>8. OnParents'
  BY <1>1, <1>3, <1>6, OnParentsThen
<1>9. i # img => i \in Up[img] \ {img} /\ i \in Branches
  BY <1>1, <1>2, OnTheStack, SpineIs
<1> HIDE DEF i
<1>10. ~HasChild(img)
  <2> SUFFICES ASSUME NEW j \in 2 .. N, tree[j] = img, j < img \/ j = img PROVE FALSE
    BY DEF HasChild
  <2>1. j \in Images \ {1}
    BY NIs DEF Images
  <2>2. tree[j] < j /\ j \in Nat /\ tree[j] \in Nat /\ img \in Nat
    BY <1>2, <2>1, UpIs
  <2> QED BY <2>2
<1>11. Extracted'
  <2>1. ASSUME NEW x \in Spine \ {1}
        PROVE  (HasChild(x)' /\ ~(pc' = "stack" /\ x \in Range(stack'))) <=>
                 (HasChild(x) /\ ~(pc = "stack" /\ x \in Range(stack)))
    <3>1. CASE x = i
      <4>1. i = img
        BY <1>6, <1>9, <3>1
      <4> QED BY <1>7, <1>10, <3>1, <4>1
    <3>2. CASE x # i
      BY <1>1, <1>4, <1>7, <3>2
    <3> QED BY <3>1, <3>2
  <2> QED BY <1>1, <1>3, <1>6, <1>7, <2>1, ExtractedThen
<1>12. Assembling'
  <2>1. mounts'[1].lower = Dir(1)
    BY <1>3, <1>5 DEF Assembling
  <2>2. mounts'[1].image # img => mounts'[1].image \in Branches \cap Up[img]
    BY <1>3, <1>5, <1>9 DEF Assembling
  <2>3. ASSUME NEW x \in Up[img] \ Spine
        PROVE  \/ x \in Range(stack') \/ \E k \in DOMAIN mounts' : mounts'[k].image = x
               \/ unpackDir'[x] = Ovl(tree[x])
    <3>1. CASE x = i
      BY <1>5, <3>1
    <3>2. CASE x # i
      <4>1. \/ x \in Range(stack) \/ (\E m \in DOMAIN mounts : mounts[m].image = x)
            \/ unpackDir[x] = Ovl(tree[x])
        BY <1>3 DEF Assembling
      <4> QED BY <1>1, <1>4, <1>5, <3>2, <4>1
    <3> QED BY <3>1, <3>2
  <2> QED BY <1>1, <1>5, <1>6, <2>1, <2>2, <2>3 DEF Assembling, Dir, Ovl
<1> QED BY <1>1, <1>8, <1>11, <1>12 DEF ShallowInv

\* What is extracted on the root: the ancestors of the image being built that are of the spine.
LEMMA SpineUnpacked ==
  ASSUME LayersInv, Extracted, pc = "install"
  PROVE  files[Dir(1)] = (Spine \cap Up[img]) \ {img}
<1>1. /\ Unpacked /\ Turn /\ tree \in Trees /\ img \in Images /\ img >= 2 /\ img \in Nat
      /\ (\A x \in Images : x \in Nat) /\ rootBuilt \in BOOLEAN
  BY BuildFacts DEF Turn
<1>2. 1 \in Spine /\ Spine \subseteq Images /\ 1 \in Images /\ 1 \in Up[img]
  BY <1>1, SpineIs, UpIs
<1>3. unpackDir[1] = Dir(1)
  <2>1. Made(1)
    BY <1>1 DEF Made
  <2> QED BY <1>1, <2>1 DEF Unpacked
<1>4. ASSUME NEW x \in Images, unpackDir[x] = Dir(1) PROVE x \in Spine /\ x \in Up[img] /\ x # img
  <2>1. CASE x = 1
    BY <1>1, <1>2, <2>1
  <2>2. CASE x # 1
    <3>1. x \in Spine
      <4> SUFFICES ASSUME x \notin Spine PROVE FALSE
        OBVIOUS
      <4>1. unpackDir[x] # NoPlace
        BY <1>2, <1>4, PlacesAre
      <4>2. unpackDir[x] = Ovl(tree[x]) /\ tree[x] \in Images
        BY <1>1, <2>2, <4>1, UpIs DEF Extracted
      <4> QED BY <1>2, <1>4, <4>2, PlacesAre
    <3>2. HasChild(x)
      <4>1. Dir(1) # NoPlace
        BY <1>2, PlacesAre
      <4> QED BY <1>4, <2>2, <3>1, <4>1 DEF Extracted
    <3>3. x < img
      <4>1. PICK j \in 2 .. N : tree[j] = x /\ j <= img
        BY <1>1, <3>2 DEF HasChild
      <4>2. j \in Images \ {1} /\ j \in Nat
        BY NIs DEF Images
      <4>3. x < j
        BY <1>1, <4>1, <4>2, UpIs
      <4>4. x \in Nat
        BY <1>1
      <4> QED BY <1>1, <4>1, <4>2, <4>3, <4>4
    <3>4. x \in Nat /\ x <= img
      BY <1>1, <3>3
    <3> QED BY <1>1, <3>1, <3>3, <3>4, SpineAbove
  <2> QED BY <2>1, <2>2
<1>5. ASSUME NEW x \in Spine \cap Up[img], x # img PROVE unpackDir[x] = Dir(1)
  <2>1. CASE x = 1
    BY <1>3, <2>1
  <2>2. CASE x # 1
    <3>1. PICK c \in Up[img] \ {1} : tree[c] = x
      BY <1>1, <1>5, OnTheWay
    <3>2. c \in 2 .. N /\ c <= img /\ c \in Nat
      BY <1>1, <3>1, UpIs
    <3>3. HasChild(x)
      BY <1>1, <3>1, <3>2 DEF HasChild
    <3> QED BY <2>2, <3>3 DEF Extracted
  <2> QED BY <2>1, <2>2
<1> QED BY <1>2, <1>4, <1>5 DEF Extracted

\* What is extracted on the branch: the other ancestors.
LEMMA BranchUnpacked ==
  ASSUME LayersInv, Extracted, Assembling, Shallow, pc = "install", Len(mounts) = 2
  PROVE  files[Dir(mounts[1].image)] = Up[img] \ (Spine \cup {img})
<1> DEFINE a == mounts[1].image
<1>1. /\ Unpacked /\ Mounted /\ tree \in Trees /\ img \in Images /\ img >= 2 /\ img \in Nat
      /\ \A x \in Images : x \in Nat
  BY BuildFacts DEF Turn
<1>2. /\ mounts # <<>> /\ mounts[2].image = img /\ DOMAIN mounts = {1, 2} /\ stack = <<>>
      /\ a < img
  <2>1. mounts \in Seq([image : Images, lower : Places])
    BY DEF LayersInv, TypeOK
  <2>2. DOMAIN mounts = 1 .. 2 /\ mounts # <<>>
    BY <2>1, LenProperties, EmptySeq
  <2> QED BY <1>1, <2>2 DEF Mounted
<1>3. a \in Images /\ a # img
  <2>1. a \in Images
    BY <1>2, LowerIs
  <2>2. a \in Nat
    BY <1>1, <2>1
  <2> HIDE DEF a
  <2> QED BY <1>1, <1>2, <2>1, <2>2
<1>4. a \in Branches /\ a \in Up[img] /\ a \notin Spine /\ a # 1
  BY <1>1, <1>2, <1>3, SpineIs DEF Assembling
<1>5. \A x : (\E k \in DOMAIN mounts : mounts[k].image = x) <=> x \in {a, img}
  BY <1>2
<1>6. \A x \in Up[img] \ Spine : x \in {a, img} \/ unpackDir[x] = Ovl(tree[x])
  BY <1>2, <1>5 DEF Assembling, Range
<1> HIDE DEF a
<1>7. files[Dir(a)] = {a} \cup {x \in Images : unpackDir[x] = Ovl(a)}
  <2>1. Made(a)
    BY <1>2, <1>4 DEF Made
  <2> QED BY <1>4, <2>1 DEF Extracted
<1>8. ASSUME NEW x \in Images, unpackDir[x] = Ovl(a)
      PROVE  x \in Up[img] /\ x \notin Spine /\ x # img
  <2>1. unpackDir[x] # NoPlace /\ unpackDir[x] # Dir(1)
    BY <1>1, <1>3, <1>8, PlacesAre, NIs DEF Images
  <2>2. x # 1 /\ x \notin Spine
    BY <1>1, <2>1 DEF Unpacked, Extracted
  <2>3. x \in 2 .. N /\ x \in Nat /\ tree[x] \in Images
    BY <1>1, <2>2, UpIs
  <2>4. tree[x] = a /\ x \in LastChildren /\ HasChild(x)
    <3>1. unpackDir[x] = Ovl(tree[x])
      BY <2>1, <2>2 DEF Extracted
    <3>2. tree[x] = a
      BY <1>3, <1>8, <2>3, <3>1, PlacesAre
    <3> QED BY <1>1, <2>1, <2>3, <3>2 DEF Unpacked
  <2>5. PICK j \in 2 .. N : tree[j] = x /\ j <= img
    BY <1>1, <2>4 DEF HasChild
  <2>6. j \in Images \ {1} /\ j \in Nat
    BY NIs DEF Images
  <2>7. x < j /\ a < x /\ a \in Up[x] /\ Up[x] \subseteq Up[j] /\ a \in Nat
    BY <1>1, <1>3, <2>2, <2>4, <2>5, <2>6, UpIs
  <2>8. x < img
    BY <1>1, <2>3, <2>5, <2>6, <2>7
  <2>9. x \in Up[img]
    <3>1. CASE tree[img] = a
      <4>1. img \in Children(tree[x])
        BY <1>1, <2>4, <3>1, NIs DEF Children, Images
      <4>2. img <= x
        BY <2>4, <4>1 DEF LastChildren
      <4> QED BY <1>1, <2>3, <2>8, <4>2
    <3>2. CASE tree[img] # a
      <4>1. a \in Up[j] /\ j # a /\ tree[j] # a
        BY <2>3, <2>5, <2>6, <2>7
      <4>2. img = j
        BY <1>1, <1>3, <1>4, <2>6, <3>2, <4>1, ShallowIs
      <4> QED BY <1>1, <2>5, <2>6, <4>2, UpIs
    <3> QED BY <3>1, <3>2
  <2> QED BY <1>1, <2>2, <2>3, <2>8, <2>9
<1>9. ASSUME NEW x \in Up[img] \ (Spine \cup {img}), x # a PROVE unpackDir[x] = Ovl(a)
  <2>1. x \in Images \ Spine /\ x # 1
    BY <1>1, SpineIs, UpIs
  <2>2. unpackDir[x] = Ovl(tree[x]) /\ tree[x] \in Images /\ tree[x] \in Up[img]
    BY <1>1, <1>6, <1>9, <2>1, UpIs
  <2>3. tree[x] \in Branches
    BY <2>1, <2>2, PlacesAre DEF Extracted
  <2> QED BY <1>1, <1>4, <2>2, <2>3, OneBranch
<1>10. Up[img] \subseteq Images
  BY <1>1, UpIs
<1>11. files[Dir(a)] = Up[img] \ (Spine \cup {img})
  BY <1>3, <1>4, <1>7, <1>8, <1>9, <1>10
<1> QED BY <1>11 DEF a

\* So an image is installed on the layers of its ancestors.
LEMMA OnItsAncestors ==
  ASSUME LayersInv, ShallowInv, Shallow, pc = "install"
  PROVE  View(Ovl(img)) = Up[img] \ {img}
<1>1. /\ TypeOK /\ Unpacked /\ Mounted /\ tree \in Trees /\ img \in Images /\ img >= 2
      /\ img \in Nat /\ (\A x \in Images : x \in Nat) /\ Layered
  BY BuildFacts DEF Turn
<1>2. Extracted /\ Assembling
  BY DEF ShallowInv
<1>3. /\ mounts # <<>> /\ stack = <<>> /\ Last(mounts).image = img
      /\ Len(mounts) \in {1, 2} /\ DOMAIN mounts = 1 .. Len(mounts)
  <2>1. mounts # <<>> /\ stack = <<>> /\ Last(mounts).image = img
    BY <1>1 DEF Mounted
  <2>2. mounts \in Seq([image : Images, lower : Places]) /\ Len(mounts) <= 2
    BY <1>1 DEF TypeOK
  <2>3. Len(mounts) \in Nat /\ DOMAIN mounts = 1 .. Len(mounts) /\ Len(mounts) # 0
    BY <2>1, <2>2, LenProperties, EmptySeq
  <2> QED BY <2>1, <2>2, <2>3
<1>4. files[Dir(img)] = {}
  <2>1. Empty(img)
    BY <1>1 DEF Empty
  <2> QED BY <1>1, <2>1 DEF Layered
<1>5. mounts[1].lower = Dir(1) /\ files[Dir(1)] = (Spine \cap Up[img]) \ {img}
  BY <1>2, <1>3, SpineUnpacked DEF Assembling
<1>6. Overlaid
  BY <1>1, Views
<1>7. CASE Len(mounts) = 1
  <2>1. mounts[1].image = img
    BY <1>3, <1>7 DEF Last
  <2>2. View(Ovl(img)) = (Spine \cap Up[img]) \ {img}
    BY <1>3, <1>4, <1>5, <1>6, <2>1 DEF Overlaid
  <2>3. ASSUME NEW x \in Up[img] \ {img}, x \notin Spine PROVE FALSE
    <3>1. PICK b \in Branches : b \in Up[x]
      <4>1. x \in Images \ Spine
        BY <1>1, <2>3, UpIs
      <4> QED BY <1>1, <4>1, BranchOf
    <3>2. b \in Up[img] /\ b # img /\ b \in Images \ {1}
      <4>1. x \in Images /\ x <= img /\ x \in Nat /\ x # img /\ Up[x] \subseteq Up[img]
        BY <1>1, UpIs
      <4>2. b \in Images /\ b <= x /\ b \in Nat
        BY <1>1, <3>1, <4>1, UpIs
      <4>3. b # img
        BY <1>1, <4>1, <4>2
      <4> QED BY <1>1, <3>1, <4>1, <4>2, <4>3, SpineIs
    <3>3. b \notin Spine /\ b \notin LastChildren
      BY <1>1, <3>1, SpineIs
    <3>4. \A k \in DOMAIN mounts : mounts[k].image = img
      <4>1. \A k \in DOMAIN mounts : k = 1
        BY <1>3, <1>7
      <4> QED BY <2>1, <4>1
    <3>5. unpackDir[b] = Ovl(tree[b])
      BY <1>2, <1>3, <3>2, <3>3, <3>4 DEF Assembling, Range
    <3>6. unpackDir[b] # NoPlace /\ b \in 2 .. N
      BY <1>1, <3>2, <3>5, UpIs, PlacesAre
    <3> QED BY <1>1, <3>3, <3>6 DEF Unpacked
  <2> QED BY <2>2, <2>3
<1>8. CASE Len(mounts) = 2
  <2>1. mounts[2].image = img
    BY <1>3, <1>8 DEF Last
  <2>2. View(Ovl(img)) = files[Dir(img)] \cup files[Dir(mounts[1].image)] \cup files[Dir(1)]
    BY <1>5, <1>6, <1>8, <2>1 DEF Overlaid
  <2>3. files[Dir(mounts[1].image)] = Up[img] \ (Spine \cup {img})
    BY <1>2, <1>8, BranchUnpacked
  <2> QED BY <1>4, <1>5, <2>2, <2>3
<1> QED BY <1>3, <1>7, <1>8

LEMMA InstallShallow == LayersInv /\ ShallowInv /\ Install => ShallowInv'
<1> SUFFICES ASSUME LayersInv, ShallowInv, Install, Shallow PROVE ShallowInv'
  <2>1. Install => (Shallow' <=> Shallow)
    BY SameTree DEF Install, shape
  <2> QED BY <2>1 DEF ShallowInv
<1>1. /\ pc = "install" /\ pc' = "umount" /\ img >= 2 /\ img \in Images
      /\ builtOn' = [builtOn EXCEPT ![img] = View(Ovl(img))]
      /\ files' = [files EXCEPT ![Dir(img)] = @ \cup {img}]
      /\ UNCHANGED <<shape, img, stack, prevMount, mounts, tar, unpackDir>>
      /\ tree' = tree
  BY InstalledOn DEF shape
<1>2. /\ TypeOK /\ Layered /\ tree \in Trees /\ \A x \in Images : x \in Nat
  BY <1>1, BuildFacts
<1>3. Extracted /\ OnParents
  BY <1>1 DEF ShallowInv
<1>4. /\ Up' = Up /\ Spine' = Spine /\ Branches' = Branches
      /\ Branches \subseteq Images /\ 1 \notin Branches /\ 1 \in Images /\ img # 1
  BY <1>1, <1>2, SameTree, SpineIs, NIs DEF Images
<1>5. /\ \A x : (Made(x)' <=> Made(x)) /\ (HasChild(x)' <=> HasChild(x))
  BY <1>1, SamePhase
<1>6. builtOn'[img] = Up[img] \ {img} /\ \A x \in Images \ {img} : builtOn'[x] = builtOn[x]
  BY <1>1, <1>2, OnItsAncestors DEF TypeOK
<1>7. ~Made(img)
  <2>1. img \in Nat
    BY <1>1, <1>2
  <2> QED BY <1>1, <1>4, <2>1 DEF Made
<1>8. OnParents'
  <2>1. tar[img] = {}
    BY <1>1, <1>2, <1>7 DEF Layered
  <2> QED BY <1>1, <1>3, <1>4, <1>6, <2>1 DEF OnParents
<1>9. Extracted'
  <2>1. \A x \in Images \ {img} : files'[Dir(x)] = files[Dir(x)]
    <3>1. \A x \in Images \ {img} : Dir(x) # Dir(img) /\ Dir(x) \in Places
      BY <1>1, PlacesAre
    <3>2. files \in [Places -> SUBSET Images]
      BY <1>2 DEF TypeOK
    <3> QED BY <1>1, <3>1, <3>2
  <2>2. files'[Dir(1)] = files[Dir(1)]
    BY <1>4, <2>1
  <2>3. \A b \in Branches : Made(b)' => Made(b) /\ files'[Dir(b)] = files[Dir(b)]
    BY <1>4, <1>5, <1>7, <2>1
  <2> QED BY <1>1, <1>3, <1>5, <2>2, <2>3, ExtractedThen
<1> QED BY <1>1, <1>4, <1>6, <1>8, <1>9 DEF ShallowInv

\* Nothing is extracted on an image before another is built on it.
LEMMA WriteLayerShallow == LayersInv /\ ShallowInv /\ WriteLayer => ShallowInv'
<1> SUFFICES ASSUME LayersInv, ShallowInv, WriteLayer, Shallow PROVE ShallowInv'
  <2>1. WriteLayer => (Shallow' <=> Shallow)
    BY SameTree DEF WriteLayer, shape
  <2> QED BY <2>1 DEF ShallowInv
<1>1. /\ pc = "layer" /\ pc' = "next"
      /\ tar' = [tar EXCEPT ![img] = files[Dir(img)]]
      /\ UNCHANGED <<tree, rootBuilt, img, stack, files, unpackDir, builtOn>>
  BY DEF WriteLayer, shape
<1>2. /\ TypeOK /\ Layered /\ Unpacked /\ tree \in Trees /\ img \in Images /\ img >= 2
      /\ img \in Nat /\ \A x \in Images : x \in Nat
  BY <1>1, BuildFacts DEF Turn
<1>3. Extracted /\ OnParents /\ builtOn[img] = Up[img] \ {img}
  BY <1>1 DEF ShallowInv
<1>4. /\ Up' = Up /\ Spine' = Spine /\ Branches' = Branches
      /\ Branches \subseteq Images /\ 1 \notin Branches /\ 1 \in Images
  BY <1>1, <1>2, SameTree, SpineIs, NIs DEF Images
<1>5. files[Dir(img)] = {img}
  BY <1>1, <1>2 DEF Layered
<1>6. OnParents'
  <2>1. \A x \in Images \ {img} : tar'[x] = tar[x]
    BY <1>1, <1>2 DEF TypeOK
  <2> QED BY <1>1, <1>3, <1>4, <2>1 DEF OnParents
<1>7. \A x : HasChild(x)' <=> HasChild(x)
  BY <1>1 DEF HasChild
<1>8. ASSUME NEW x \in Images, unpackDir[x] = Ovl(img) PROVE FALSE
  <2>1. unpackDir[x] # NoPlace /\ unpackDir[x] # Dir(1)
    BY <1>2, <1>4, <1>8, PlacesAre
  <2>2. x # 1 /\ x \notin Spine
    BY <1>2, <1>3, <2>1 DEF Unpacked, Extracted
  <2>3. x \in 2 .. N /\ x \in Nat /\ tree[x] \in Images /\ tree[x] < x
    BY <1>2, <2>2, UpIs
  <2>4. tree[x] = img /\ HasChild(x)
    <3>1. unpackDir[x] = Ovl(tree[x])
      BY <1>3, <2>1, <2>2 DEF Extracted
    <3>2. tree[x] = img
      BY <1>2, <1>8, <2>3, <3>1, PlacesAre
    <3> QED BY <1>2, <2>1, <2>3, <3>2 DEF Unpacked
  <2>5. PICK j \in 2 .. N : tree[j] = x /\ j <= img
    BY <1>1, <1>2, <2>4 DEF HasChild
  <2>6. j \in Images \ {1} /\ j \in Nat
    BY NIs DEF Images
  <2>7. x < j
    BY <1>2, <2>5, <2>6, UpIs
  <2> QED BY <1>2, <2>3, <2>4, <2>5, <2>6, <2>7
<1>9. Extracted'
  <2>1. ASSUME NEW b \in Branches, Made(b)'
        PROVE  files'[Dir(b)] = {b} \cup {x \in Images : unpackDir'[x] = Ovl(b)}
    <3>1. CASE b = img
      BY <1>1, <1>5, <1>8, <3>1
    <3>2. CASE b # img
      <4>1. Made(b)
        BY <1>1, <1>4, <2>1, <3>2 DEF Made
      <4> QED BY <1>1, <1>3, <4>1 DEF Extracted
    <3> QED BY <3>1, <3>2
  <2>2. \A x \in Spine \ {1} :
          unpackDir'[x] = IF HasChild(x)' /\ ~(pc' = "stack" /\ x \in Range(stack'))
                          THEN Dir(1) ELSE NoPlace
    BY <1>1, <1>3, <1>7 DEF Extracted
  <2>3. files'[Dir(1)] = {x \in Images : unpackDir'[x] = Dir(1)}
    BY <1>1, <1>3 DEF Extracted
  <2>4. \A x \in Images \ Spine :
          unpackDir'[x] # NoPlace => tree'[x] \in Branches /\ unpackDir'[x] = Ovl(tree'[x])
    BY <1>1, <1>3 DEF Extracted
  <2>5. Range(stack)' = Range(stack')
    BY DEF Range
  <2> QED BY <1>4, <2>1, <2>2, <2>3, <2>4, <2>5 DEF Extracted, Dir, Ovl, NoPlace
<1> QED BY <1>1, <1>6, <1>9 DEF ShallowInv

LEMMA ShallowStep == LayersInv /\ ShallowInv /\ [Next]_vars => ShallowInv'
BY VisitShallow, TakeShallow, QuietShallow, WriteBaseShallow, ParentShallow, ExtractLastShallow,
   ExtractOnOverlayShallow, MountOverlayShallow, InstallShallow, WriteLayerShallow, StillShallow
   DEF Next, Ended

\* DockerImage.writeChild: what has been extracted where, in a shallow tree; inductive together
\* with the invariant of every tree.
THEOREM ShallowInvHolds == Spec => []ShallowInv
BY LayersInvHolds, InitShallow, ShallowStep, PTL DEF Spec

\* DockerImage.writeChild: in a shallow tree of any size an image is installed on the layers of
\* all its ancestors and on no others, whatever was extracted for the images before it.
THEOREM BuiltOnParentHolds == Spec => []BuiltOnParent
<1>1. ShallowInv => BuiltOnParent
  BY DEF ShallowInv, OnParents, BuiltOnParent, Ancestors, Up
<1> QED BY <1>1, ShallowInvHolds, PTL
=============================================================================
