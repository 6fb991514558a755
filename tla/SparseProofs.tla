---------------------------- MODULE SparseProofs ----------------------------
(***************************************************************************)
(* What raw2vmdk.c writes is a sound file, and its reader restores the     *)
(* whole disk from it: for every geometry, every size and every pattern of *)
(* zero grains.                                                            *)
(***************************************************************************)
EXTENDS SparseExtent, FiniteSetTheorems, SequenceTheorems, NaturalsInduction,
        WellFoundedInduction, TLAPS

----------------------------------------------------------------------------
(* The inductive invariant.                                                *)

\* A sequence of values of any kind.
Listed(s) == Len(s) \in Nat /\ s = [n \in 1..Len(s) |-> s[n]]

Copying == pc \in {"copy", "table", "finish"}

\* The plan of the extents, and where main() is in it.
Planned ==
  \/ /\ vmdkType \in {Mono, Stream}
     /\ outsizes = <<PAD(size, SECTORSIZE)>>
  \/ /\ vmdkType = TwoGb
     /\ outsizes = ExtentSizes(PAD(size, SECTORSIZE))

TypeInv ==
  /\ size \in Sizes
  /\ disk \in Seq(BOOLEAN)
  /\ Listed(files)
  /\ lba \in Nat
  /\ pos \in Nat
  /\ pc \in {"open", "header", "copy", "table", "finish", "exit0", "exit1"}
  /\ IF pc = "open"
     THEN vmdkType \in {Mono, Stream} /\ outsizes = <<>> /\ files = <<>>
          /\ disk = <<>> /\ faults = {}
     ELSE Planned
  /\ fileNo <= Len(outsizes)
  /\ Copying => fileNo >= 1 /\ 0 \in DOMAIN Current
  /\ pc \in {"table", "finish", "exit1"} => vmdkType = Stream
  /\ pc = "exit0" => fileNo = Len(outsizes)

H(n) == Header(vmdkType, outsizes[n])

Packed(f) == \A s, t \in DOMAIN f : s < t => s + Length(f[s]) <= t

NoGaps(f, from) ==
  \A t \in DOMAIN f : t > from => \E s \in DOMAIN f : s + Length(f[s]) = t

IsFile(f) == \A s \in DOMAIN f : s \in Nat /\ Length(f[s]) \in Nat \ {0}

EndsBy(f, p) == \A s \in DOMAIN f : s + Length(f[s]) <= p

FileInv(n) ==
  LET f == files[n]
  IN  /\ IsFile(f) /\ Packed(f)
      /\ 0 \in DOMAIN f => f[0] = HeaderObj(H(n))
      /\ faults = {} => 0 \in DOMAIN f
      /\ vmdkType = Stream => 0 \in DOMAIN f \/ f = <<>>
      /\ vmdkType = Stream => NoGaps(f, GRAINSECTORS)

FilesInv == \A n \in 1..fileNo : FileInv(n)

\* No object lies where the tables of a sparse extent will.
RoomForTables(f, h, outsize) ==
  LET gt0 == GT0Offset(numGTs(outsize))
  IN  \A s \in DOMAIN f :
        /\ s + Length(f[s]) <= h.rgdOffset + gt0 \/ s >= h.gdOffset
        /\ s + Length(f[s]) <= h.gdOffset + gt0 \/ s >= h.overHead

\* The bytes of grain g of the raw disk.
InGrain(z, g) == Min({z - g * GRAINSIZE, GRAINSIZE})

\* The entries set so far lead to the grains with data.
Entered(t, d, z, f, first, last, from) ==
  /\ DOMAIN t = {g \in 0..(last - 1) : d[first + g + 1]}
  /\ \A g \in DOMAIN t :
       /\ t[g] \in Nat /\ t[g] >= from /\ t[g] \in DOMAIN f
       /\ f[t[g]].src = first + g /\ f[t[g]].bytes = InGrain(z, first + g)

SparseInv ==
  vmdkType # Stream /\ pc = "copy" =>
    LET f == Current
        h == H(fileNo)
    IN  /\ lba <= numGrains(Outsize)
        /\ pos >= h.overHead
        /\ EndsBy(f, pos)
        /\ RoomForTables(f, h, Outsize)
        /\ {h.rgdOffset, h.gdOffset} \subseteq DOMAIN f
        /\ f[h.rgdOffset] = Directory(h.rgdOffset, Outsize)
        /\ f[h.gdOffset] = Directory(h.gdOffset, Outsize)
        /\ faults = {} => /\ Len(disk) = Before(fileNo) + lba
                          /\ Entered(table, disk, size, f, Before(fileNo), lba, h.overHead)

\* What the reader makes of m grains of the raw disk behind the first ones.
Restores(first, m) ==
  [p \in 0..(m - 1) |-> IF ~disk[first + p + 1] THEN Blank
                        ELSE IF InGrain(size, first + p) = GRAINSIZE THEN first + p ELSE Aborted]

SparseDone(n) ==
  /\ Restored(files[n], H(n)) = Restores(Before(n), numGrains(outsizes[n]))
  /\ Consistent(files[n], H(n))

SparseDoneInv ==
  vmdkType # Stream /\ faults = {} =>
    /\ pc \in {"header", "exit0"} =>
         /\ Len(disk) = IF fileNo = 0 THEN 0 ELSE Before(fileNo) + numGrains(outsizes[fileNo])
         /\ \A n \in 1..fileNo : SparseDone(n)
    /\ pc = "copy" => \A n \in 1..(fileNo - 1) : SparseDone(n)

\* The grains with data that were read.
Used == {g \in 0..(Len(disk) - 1) : disk[g + 1]}

\* The table that is being filled.
CurrentTable == IF pc = "table" THEN (lba - 1) \div GTEPERGT ELSE lba \div GTEPERGT

Filled(t, first, n) == [e \in 0..(n - 1) |-> IF first + e \in DOMAIN t THEN t[first + e] ELSE 0]

\* What the reader has built: the table, its number, the directory and the disk.
Built(gt, l, d, u) == [gt |-> gt, lba |-> l, gd |-> d, disk |-> u, ok |-> TRUE, end |-> ""]

IsLast(l, d) == l \in DOMAIN d /\ \A i \in DOMAIN d : i <= l

Mirrored(d) ==
  IF DOMAIN d = {} THEN <<>>
  ELSE LET l == CHOOSE l \in DOMAIN d : IsLast(l, d)
       IN  Filled(d, 0, GRAINSECTORS * ((l \div GRAINSECTORS) + 1))

MarkersPaired(f) == \A s \in DOMAIN f : f[s].kind = "marker" => s + 1 \in DOMAIN f

\* The file: nothing but the header lies before its first grain, nothing behind pos.
StreamFile ==
  LET f == Current
  IN  /\ fileNo = 1 /\ pos >= GRAINSECTORS /\ EndsBy(f, pos) /\ MarkersPaired(f)
      /\ pos > GRAINSECTORS => \E s \in DOMAIN f : s + Length(f[s]) = pos

\* The loops, and how far the raw disk was read.
StreamLoop ==
  /\ pc = "copy" => MoreGrains(lba)
  /\ pc = "table" => lba >= 1 /\ (TableFull(lba) \/ ~MoreGrains(lba))
  /\ pc = "finish" => ~MoreGrains(lba) /\ DOMAIN table = {}
  /\ \/ lba <= numGrains(size) /\ Len(disk) = lba
     \/ lba >= numGrains(size) /\ Len(disk) = numGrains(size)

\* The table and the directory have the grains with data.
StreamTables ==
  /\ pc # "finish" => DOMAIN table = {g \in Used : g \div GTEPERGT = CurrentTable}
  /\ \A g \in DOMAIN table : table[g] \in Nat /\ table[g] > 0
  /\ DOMAIN gd = {g \div GTEPERGT : g \in Used \ DOMAIN table}
  /\ \A i \in DOMAIN gd : gd[i] \in Nat /\ gd[i] > 0

\* Behind the last table there is nothing but the grains of the next.
StreamLast ==
  DOMAIN gd # {} /\ DOMAIN table = {} =>
    \E l \in DOMAIN gd : /\ IsLast(l, gd) /\ gd[l] + TableSectors = pos
                         /\ gd[l] - 1 \in DOMAIN Current /\ Current[gd[l] - 1].type = "GT"

\* The reader, when it comes to pos, has built what the writer has.
StreamRead ==
  LET r == Reading(Current)[pos - GRAINSECTORS]
  IN  /\ r = Built(Filled(table, CurrentTable * GTEPERGT, GTEPERGT), r.lba,
                   Mirrored(gd), [p \in Used |-> p])
      /\ DOMAIN table # {} => r.lba = CurrentTable

StreamInv ==
  vmdkType = Stream /\ Copying =>
    StreamFile /\ StreamLoop /\ StreamTables /\ StreamLast /\ StreamRead

StreamDone ==
  LET f == files[1]
      blocks(n) == DivCeil(n, GRAINSECTORS * GTEPERGT)
      used == {q \in 1..Len(disk) : disk[q]}
  IN  /\ Len(disk) = numGrains(size)
      /\ inspect(f).disk = [p \in Used |-> p]
      /\ used # {} => /\ CorrectlyBuilt(f)
                      /\ blocks(Max(used)) = blocks(Len(disk)) =>
                           inspect(f).ok /\ inspect(f).end = "EOS"

StreamDoneInv ==
  vmdkType = Stream =>
    /\ pc = "header" /\ fileNo = 0 => disk = <<>> /\ faults = {}
    /\ pc \in {"header", "exit0"} /\ fileNo = 1 /\ faults = {} => StreamDone

ExtentInv ==
  TypeInv /\ FilesInv /\ SparseInv /\ SparseDoneInv /\ StreamInv /\ StreamDoneInv

----------------------------------------------------------------------------
(* Arithmetic.                                                             *)

\* The sets of smaller numbers tell two numbers apart.
LEMMA SameBelow ==
  ASSUME NEW a \in Nat, NEW b \in Nat, \A k \in Nat : k < a <=> k < b
  PROVE  a = b
<1>1. ~(a < b) /\ ~(b < a)
  OBVIOUS
<1> QED BY <1>1

\* A rounded up quotient counts the units that begin before the end.
LEMMA Rounded ==
  ASSUME NEW x \in Nat, NEW y \in Nat \ {0}
  PROVE  /\ DivCeil(x, y) \in Nat
         /\ \A k \in Nat : k * y < x <=> k < DivCeil(x, y)
         /\ DivCeil(x, y) * y >= x /\ DivCeil(x, y) * y < x + y
<1> DEFINE q == (x + y - 1) \div y
           r == (x + y - 1) % y
<1>1. q \in Int /\ r \in 0..(y - 1) /\ x + y - 1 = y * q + r
  OBVIOUS
<1>2. DivCeil(x, y) = q
  BY DEF DivCeil
<1> HIDE DEF q, r
<1>3. ASSUME NEW k \in Nat PROVE k * y < x <=> k < q
  <2>1. ASSUME k < q PROVE k * y < x
    <3>1. y * (k + 1) <= y * q
      BY <1>1, <2>1
    <3> QED BY <1>1, <3>1
  <2>2. ASSUME k >= q PROVE k * y >= x
    <3>1. y * k >= y * q
      BY <1>1, <2>2
    <3> QED BY <1>1, <3>1
  <2> QED BY <1>1, <2>1, <2>2
<1>4. q >= 0
  <2>1. SUFFICES ASSUME q <= -1 PROVE FALSE
    BY <1>1
  <2>2. y * q <= y * (-1)
    BY <1>1, <2>1
  <2> QED BY <1>1, <2>2
<1>5. q * y >= x /\ q * y < x + y
  BY <1>1
<1> QED BY <1>1, <1>2, <1>3, <1>4, <1>5

LEMMA RoundedExact ==
  ASSUME NEW c \in Nat, NEW y \in Nat \ {0}
  PROVE  DivCeil(c * y, y) = c
<1>1. c * y \in Nat
  OBVIOUS
<1>2. ASSUME NEW k \in Nat PROVE k * y < c * y <=> k < c
  <2>1. k < c => k * y < c * y
    <3>1. ASSUME k < c PROVE (k + 1) * y <= c * y
      BY <3>1
    <3> QED BY <3>1
  <2>2. k >= c => k * y >= c * y
    OBVIOUS
  <2> QED BY <2>1, <2>2
<1>3. \A k \in Nat : k < DivCeil(c * y, y) <=> k < c
  BY <1>1, <1>2, Rounded
<1> QED BY <1>1, <1>3, Rounded, SameBelow

\* Padding rounds up to a multiple.
LEMMA Padded ==
  ASSUME NEW x \in Nat, NEW y \in Nat \ {0}
  PROVE  PAD(x, y) = DivCeil(x, y) * y /\ PAD(x, y) \in Nat /\ PAD(x, y) >= x
<1> DEFINE q == x \div y
           r == x % y
<1>1. q \in Nat /\ r \in 0..(y - 1) /\ x = q * y + r
  <2>1. q \in Int /\ r \in 0..(y - 1) /\ x = y * q + r
    OBVIOUS
  <2> HIDE DEF q, r
  <2>2. ASSUME q <= -1 PROVE FALSE
    <3>1. y * q <= y * (-1)
      BY <2>1, <2>2
    <3> QED BY <2>1, <3>1
  <2> QED BY <2>1, <2>2
<1>2. PAD(x, y) = IF r = 0 THEN x ELSE x + y - r
  BY DEF PAD
<1> HIDE DEF q, r
<1>3. CASE r = 0
  <2>1. x = q * y
    BY <1>1, <1>3
  <2>2. DivCeil(q * y, y) = q
    BY <1>1, RoundedExact
  <2>3. DivCeil(x, y) = q
    BY <2>1, <2>2, Zenon
  <2> QED BY <1>1, <1>2, <1>3, <2>1, <2>3
<1>4. CASE r # 0
  <2> DEFINE c == DivCeil(x, y)
  <2>1. c \in Nat /\ \A k \in Nat : k * y < x <=> k < c
    BY Rounded
  <2> HIDE DEF c
  <2>2. q < c
    BY <1>1, <1>4, <2>1
  <2>3. (q + 1) * y = q * y + y
    BY <1>1
  <2>4. ~(q + 1 < c)
    BY <1>1, <2>1, <2>3
  <2>5. c = q + 1
    BY <1>1, <2>1, <2>2, <2>4
  <2>6. PAD(x, y) = c * y
    BY <1>1, <1>2, <1>4, <2>3, <2>5
  <2> QED BY <1>1, <1>2, <1>4, <2>6 DEF c
<1> QED BY <1>3, <1>4

\* A quotient and a remainder are unique.
LEMMA QuotientIs ==
  ASSUME NEW g \in Nat, NEW y \in Nat \ {0}
  PROVE  /\ g \div y \in Nat /\ g % y \in 0..(y - 1) /\ g = (g \div y) * y + (g % y)
         /\ \A i \in Nat, e \in 0..(y - 1) : g = i * y + e => i = g \div y /\ e = g % y
<1> DEFINE q == g \div y
           r == g % y
<1>1. q \in Nat /\ r \in 0..(y - 1) /\ g = q * y + r
  <2>1. q \in Int /\ r \in 0..(y - 1) /\ g = y * q + r
    OBVIOUS
  <2> HIDE DEF q, r
  <2>2. ASSUME q <= -1 PROVE FALSE
    <3>1. y * q <= y * (-1)
      BY <2>1, <2>2
    <3> QED BY <2>1, <3>1
  <2> QED BY <2>1, <2>2
<1> HIDE DEF q, r
<1>2. ASSUME NEW i \in Nat, NEW e \in 0..(y - 1), g = i * y + e PROVE i = q /\ e = r
  <2>1. ASSUME i < q PROVE FALSE
    <3>1. (i + 1) * y <= q * y /\ (i + 1) * y = i * y + y
      BY <1>1, <2>1
    <3> QED BY <1>1, <1>2, <3>1
  <2>2. ASSUME q < i PROVE FALSE
    <3>1. (q + 1) * y <= i * y /\ (q + 1) * y = q * y + y
      BY <1>1, <2>2
    <3> QED BY <1>1, <1>2, <3>1
  <2>3. i = q
    BY <1>1, <2>1, <2>2
  <2> QED BY <1>1, <1>2, <2>3
<1> QED BY <1>1, <1>2 DEF q, r

LEMMA NoRemainder ==
  ASSUME NEW g \in Nat, NEW y \in Nat \ {0}, NEW i \in Nat, g = i * y
  PROVE  g % y = 0
<1>1. 0 \in 0..(y - 1) /\ i * y = i * y + 0
  OBVIOUS
<1>2. g = i * y + 0 => i = g \div y /\ 0 = g % y
  BY <1>1, QuotientIs
<1> QED BY <1>1, <1>2

LEMMA QuotientMonotone ==
  ASSUME NEW g \in Nat, NEW h \in Nat, NEW y \in Nat \ {0}, g <= h
  PROVE  g \div y <= h \div y
<1> DEFINE p == g \div y
           q == h \div y
<1>1. p \in Nat /\ q \in Nat /\ g >= p * y /\ h < q * y + y
  BY QuotientIs
<1> HIDE DEF p, q
<1>2. ASSUME q + 1 <= p PROVE FALSE
  <2>1. (q + 1) * y <= p * y /\ (q + 1) * y = q * y + y
    BY <1>1, <1>2
  <2> QED BY <1>1, <2>1
<1> QED BY <1>1, <1>2 DEF p, q

\* The constants: a table fills whole sectors, the largest extent whole grains.
LEMMA GeometryIs ==
  /\ SECTORSIZE \in Nat \ {0} /\ GRAINSECTORS \in Nat \ {0} /\ GTEPERGT \in Nat \ {0}
  /\ OFFSETSIZE \in Nat \ {0} /\ MaxExtent \in Nat \ {0} /\ DescriptorSize \in Nat
  /\ DescriptorSize < GRAINSECTORS /\ SECTORSIZE = GRAINSECTORS * OFFSETSIZE
  /\ GRAINSIZE \in Nat \ {0} /\ GRAINSIZE = GRAINSECTORS * SECTORSIZE
  /\ TableSectors \in Nat \ {0} /\ GTEPERGT = GRAINSECTORS * TableSectors
  /\ MaxExtent \div GRAINSIZE \in Nat \ {0}
  /\ MaxExtent = (MaxExtent \div GRAINSIZE) * GRAINSIZE
  /\ Sizes \subseteq Nat \ {0}
<1>1. /\ SECTORSIZE \in Nat \ {0} /\ GRAINSECTORS \in Nat \ {0} /\ GTEPERGT \in Nat \ {0}
      /\ OFFSETSIZE \in Nat \ {0} /\ MaxExtent \in Nat \ {0} /\ DescriptorSize \in Nat
      /\ DescriptorSize < GRAINSECTORS /\ SECTORSIZE = GRAINSECTORS * OFFSETSIZE
      /\ Sizes \subseteq Nat \ {0}
      /\ GTEPERGT % GRAINSECTORS = 0 /\ MaxExtent % (GRAINSECTORS * SECTORSIZE) = 0
  BY SparseAssumption DEF SparseAssumption
<1>2. GRAINSIZE \in Nat \ {0} /\ GRAINSIZE = GRAINSECTORS * SECTORSIZE
  BY <1>1 DEF GRAINSIZE
<1>3. /\ MaxExtent \div GRAINSIZE \in Nat
      /\ MaxExtent = (MaxExtent \div GRAINSIZE) * GRAINSIZE + (MaxExtent % GRAINSIZE)
      /\ MaxExtent % GRAINSIZE = 0
  <2>1. MaxExtent % GRAINSIZE = 0
    BY <1>1, <1>2
  <2> QED BY <1>1, <1>2, <2>1, QuotientIs
<1>4. /\ MaxExtent \div GRAINSIZE \in Nat \ {0}
      /\ MaxExtent = (MaxExtent \div GRAINSIZE) * GRAINSIZE
  <2> DEFINE q == MaxExtent \div GRAINSIZE
  <2>1. q \in Nat /\ MaxExtent = q * GRAINSIZE
    BY <1>2, <1>3
  <2> HIDE DEF q
  <2>2. q # 0
    BY <1>1, <1>2, <2>1
  <2> QED BY <2>1, <2>2 DEF q
<1> DEFINE t == GTEPERGT \div GRAINSECTORS
<1>5. t \in Nat /\ GTEPERGT = t * GRAINSECTORS
  <2>1. t \in Nat /\ GTEPERGT = t * GRAINSECTORS + (GTEPERGT % GRAINSECTORS)
    BY <1>1, QuotientIs
  <2> HIDE DEF t
  <2> QED BY <1>1, <2>1
<1> HIDE DEF t
<1>6. t # 0
  BY <1>1, <1>5
<1>7. GTEPERGT * OFFSETSIZE = t * SECTORSIZE + 0
  <2>1. (t * GRAINSECTORS) * OFFSETSIZE = t * (GRAINSECTORS * OFFSETSIZE)
    BY <1>1, <1>5
  <2>2. GTEPERGT * OFFSETSIZE = t * SECTORSIZE
    BY <1>1, <1>5, <2>1
  <2>3. t * SECTORSIZE \in Nat
    BY <1>1, <1>5
  <2> QED BY <2>2, <2>3
<1>8. TableSectors = t
  <2>1. GTEPERGT * OFFSETSIZE \in Nat /\ 0 \in 0..(SECTORSIZE - 1)
    BY <1>1
  <2> DEFINE z == GTEPERGT * OFFSETSIZE
  <2>2. z \in Nat /\ z = t * SECTORSIZE + 0
    BY <1>7, <2>1
  <2> HIDE DEF z
  <2>3. t = z \div SECTORSIZE
    BY <1>1, <1>5, <2>1, <2>2, QuotientIs
  <2> QED BY <2>3 DEF z, TableSectors
<1> QED BY <1>1, <1>2, <1>4, <1>5, <1>6, <1>8

\* The numbers of an extent of whole sectors.
LEMMA GrainsOf ==
  ASSUME NEW o \in Nat \ {0}
  PROVE  /\ numGrains(o) \in Nat \ {0} /\ numGTs(o) \in Nat \ {0}
         /\ \A k \in Nat : k * GRAINSIZE < o <=> k < numGrains(o)
         /\ \A k \in Nat : k * GTEPERGT < numGrains(o) <=> k < numGTs(o)
<1>1. GRAINSIZE \in Nat \ {0} /\ GTEPERGT \in Nat \ {0}
  BY GeometryIs
<1>2. numGrains(o) \in Nat /\ \A k \in Nat : k * GRAINSIZE < o <=> k < numGrains(o)
  BY <1>1, Rounded DEF numGrains
<1>3. numGrains(o) # 0
  <2>1. 0 * GRAINSIZE < o
    BY <1>1
  <2> QED BY <1>2, <2>1
<1>4. numGTs(o) \in Nat /\ \A k \in Nat : k * GTEPERGT < numGrains(o) <=> k < numGTs(o)
  BY <1>1, <1>2, Rounded DEF numGTs
<1>5. numGTs(o) # 0
  <2>1. 0 * GTEPERGT < numGrains(o)
    BY <1>1, <1>2, <1>3
  <2> QED BY <1>4, <2>1
<1> QED BY <1>2, <1>3, <1>4, <1>5

\* The tables that the grains of an extent are in.
LEMMA TableOfGrain ==
  ASSUME NEW o \in Nat \ {0}, NEW g \in 0..(numGrains(o) - 1)
  PROVE  /\ g \div GTEPERGT \in 0..(numGTs(o) - 1) /\ g % GTEPERGT \in 0..(GTEPERGT - 1)
         /\ g = (g \div GTEPERGT) * GTEPERGT + (g % GTEPERGT)
<1> DEFINE i == g \div GTEPERGT
           e == g % GTEPERGT
<1>1. numGrains(o) \in Nat /\ numGTs(o) \in Nat /\ GTEPERGT \in Nat \ {0} /\ g \in Nat
  BY GrainsOf, GeometryIs
<1>2. i \in Nat /\ e \in 0..(GTEPERGT - 1) /\ g = i * GTEPERGT + e
  BY <1>1, QuotientIs
<1>3. \A k \in Nat : k * GTEPERGT < numGrains(o) => k < numGTs(o)
  BY GrainsOf
<1> HIDE DEF i, e
<1>4. i * GTEPERGT \in Nat /\ i * GTEPERGT < numGrains(o)
  BY <1>1, <1>2
<1>5. i < numGTs(o)
  BY <1>2, <1>3, <1>4
<1> QED BY <1>1, <1>2, <1>5 DEF i, e

\* The size of an extent is a number of sectors.
Sectored(o) == o \in Nat \ {0} /\ SECTORS(o) \in Nat /\ SECTORS(o) * SECTORSIZE = o

LEMMA SectoredIs ==
  ASSUME NEW k \in Nat, NEW o \in Nat \ {0}, o = k * SECTORSIZE
  PROVE  Sectored(o) /\ SECTORS(o) = k
<1>1. SECTORSIZE \in Nat \ {0} /\ 0 \in 0..(SECTORSIZE - 1)
  BY GeometryIs
<1>2. o = k * SECTORSIZE + 0
  BY <1>1
<1>3. k = o \div SECTORSIZE
  BY <1>1, <1>2, QuotientIs
<1> QED BY <1>3 DEF Sectored, SECTORS

\* The sectors of an extent are as many grains as its bytes, and the loop over the grains
\* of a stream sees them all.
LEMMA SectoredGrains ==
  ASSUME NEW o, Sectored(o)
  PROVE  /\ DivCeil(SECTORS(o), GRAINSECTORS) = numGrains(o)
         /\ \A g \in Nat : ~(g * GRAINSECTORS <= SECTORS(o)) => g >= numGrains(o)
<1> DEFINE c == SECTORS(o)
<1>1. o \in Nat \ {0} /\ c \in Nat /\ c * SECTORSIZE = o
  BY DEF Sectored
<1> HIDE DEF c
<1>2. SECTORSIZE \in Nat \ {0} /\ GRAINSECTORS \in Nat \ {0}
      /\ GRAINSIZE = GRAINSECTORS * SECTORSIZE /\ GRAINSIZE \in Nat \ {0}
  BY GeometryIs
<1>3. ASSUME NEW g \in Nat PROVE g * GRAINSECTORS < c <=> g * GRAINSIZE < o
  <2> DEFINE x == g * GRAINSECTORS
  <2>1. x \in Nat
    BY <1>2
  <2>2. g * GRAINSIZE = x * SECTORSIZE
    BY <1>2
  <2> HIDE DEF x
  <2>3. x < c => x * SECTORSIZE < o
    <3>1. ASSUME x < c PROVE (x + 1) * SECTORSIZE <= c * SECTORSIZE
      BY <1>1, <1>2, <2>1, <3>1
    <3> QED BY <1>1, <1>2, <2>1, <3>1
  <2>4. x >= c => x * SECTORSIZE >= o
    <3>1. ASSUME x >= c PROVE x * SECTORSIZE >= c * SECTORSIZE
      BY <1>1, <1>2, <2>1, <3>1
    <3> QED BY <1>1, <3>1
  <2>5. x < c <=> x * SECTORSIZE < o
    BY <1>1, <1>2, <2>1, <2>3, <2>4
  <2> QED BY <2>2, <2>5 DEF x
<1>4. numGrains(o) \in Nat /\ \A k \in Nat : k * GRAINSIZE < o <=> k < numGrains(o)
  BY <1>1, GrainsOf
<1>5. /\ DivCeil(c, GRAINSECTORS) \in Nat
      /\ \A k \in Nat : k * GRAINSECTORS < c <=> k < DivCeil(c, GRAINSECTORS)
  BY <1>1, <1>2, Rounded
<1>6. DivCeil(c, GRAINSECTORS) = numGrains(o)
  <2>1. \A k \in Nat : k < DivCeil(c, GRAINSECTORS) <=> k < numGrains(o)
    BY <1>3, <1>4, <1>5
  <2> QED BY <1>4, <1>5, <2>1, SameBelow
<1>7. ASSUME NEW g \in Nat, ~(g * GRAINSECTORS <= c) PROVE g >= numGrains(o)
  <2>1. ~(g * GRAINSECTORS < c)
    <3>1. g * GRAINSECTORS \in Nat
      BY <1>2
    <3> QED BY <1>1, <1>7, <3>1
  <2>2. ~(g < numGrains(o))
    BY <1>3, <1>4, <2>1
  <2> QED BY <1>4, <2>2
<1> QED BY <1>6, <1>7 DEF c

\* The size is padded to whole sectors, which does not change the number of its grains.
LEMMA PaddedSize ==
  ASSUME NEW z \in Nat \ {0}
  PROVE  /\ Sectored(PAD(z, SECTORSIZE))
         /\ numGrains(PAD(z, SECTORSIZE)) = numGrains(z)
<1> DEFINE o == PAD(z, SECTORSIZE)
           c == DivCeil(z, SECTORSIZE)
<1>1. SECTORSIZE \in Nat \ {0} /\ GRAINSECTORS \in Nat \ {0}
      /\ GRAINSIZE = GRAINSECTORS * SECTORSIZE /\ GRAINSIZE \in Nat \ {0}
  BY GeometryIs
<1>2. /\ c \in Nat /\ \A k \in Nat : k * SECTORSIZE < z <=> k < c
      /\ o = c * SECTORSIZE /\ o \in Nat /\ o >= z
  BY <1>1, Rounded, Padded
<1> HIDE DEF o, c
<1>3. Sectored(o)
  BY <1>2, SectoredIs
<1>4. ASSUME NEW k \in Nat PROVE k * GRAINSIZE < o <=> k * GRAINSIZE < z
  <2> DEFINE x == k * GRAINSECTORS
  <2>1. x \in Nat /\ k * GRAINSIZE = x * SECTORSIZE
    BY <1>1
  <2> HIDE DEF x
  <2>2. x * SECTORSIZE < z <=> x < c
    BY <1>2, <2>1
  <2>3. x < c => x * SECTORSIZE < c * SECTORSIZE
    <3>1. ASSUME x < c PROVE (x + 1) * SECTORSIZE <= c * SECTORSIZE
      BY <1>1, <1>2, <2>1, <3>1
    <3> QED BY <1>1, <1>2, <2>1, <3>1
  <2>4. x >= c => x * SECTORSIZE >= c * SECTORSIZE
    BY <1>1, <1>2, <2>1
  <2>5. x < c <=> x * SECTORSIZE < o
    BY <1>1, <1>2, <2>1, <2>3, <2>4
  <2> QED BY <2>1, <2>2, <2>5
<1>5. numGrains(o) \in Nat /\ \A k \in Nat : k * GRAINSIZE < o <=> k < numGrains(o)
  BY <1>2, GrainsOf
<1>6. numGrains(z) \in Nat /\ \A k \in Nat : k * GRAINSIZE < z <=> k < numGrains(z)
  BY GrainsOf
<1>7. numGrains(o) = numGrains(z)
  <2>1. \A k \in Nat : k < numGrains(o) <=> k < numGrains(z)
    BY <1>4, <1>5, <1>6
  <2> QED BY <1>5, <1>6, <2>1, SameBelow
<1> QED BY <1>3, <1>7 DEF o

LEMMA MaxOfTwo ==
  ASSUME NEW a \in Int, NEW b \in Int
  PROVE  Max({a, b}) = IF a >= b THEN a ELSE b
<1> DEFINE m == IF a >= b THEN a ELSE b
<1>1. m \in {a, b} /\ \A y \in {a, b} : m >= y
  OBVIOUS
<1>2. \A x \in {a, b} : (\A y \in {a, b} : x >= y) => x = m
  OBVIOUS
<1> QED BY <1>1, <1>2 DEF Max

LEMMA MinOfTwo ==
  ASSUME NEW a \in Int, NEW b \in Int
  PROVE  Min({a, b}) = IF a <= b THEN a ELSE b
<1> DEFINE m == IF a <= b THEN a ELSE b
<1>1. m \in {a, b} /\ \A y \in {a, b} : m <= y
  OBVIOUS
<1>2. \A x \in {a, b} : (\A y \in {a, b} : x <= y) => x = m
  OBVIOUS
<1> QED BY <1>1, <1>2 DEF Min

\* The sectors of a directory.
LEMMA DirectorySectors ==
  ASSUME NEW n \in Nat \ {0}
  PROVE  /\ GT0Offset(n) \in Nat \ {0}
         /\ \A d : DOMAIN d = 0..(n - 1) => Length(DirObj(d)) = GT0Offset(n)
<1>1. SECTORSIZE \in Nat \ {0} /\ OFFSETSIZE \in Nat \ {0} /\ n * OFFSETSIZE \in Nat
      /\ 0 < n * OFFSETSIZE
  BY GeometryIs
<1>2. /\ GT0Offset(n) \in Nat
      /\ \A k \in Nat : k * SECTORSIZE < n * OFFSETSIZE <=> k < GT0Offset(n)
  BY <1>1, Rounded DEF GT0Offset
<1>3. GT0Offset(n) # 0
  <2>1. 0 * SECTORSIZE = 0
    BY <1>1
  <2>2. 0 * SECTORSIZE < n * OFFSETSIZE
    BY <1>1, <2>1
  <2> QED BY <1>2, <2>2
<1>4. ASSUME NEW d, DOMAIN d = 0..(n - 1) PROVE Length(DirObj(d)) = GT0Offset(n)
  <2>1. Cardinality(0..(n - 1)) = n
    BY FS_Interval
  <2>2. Length(DirObj(d)) = DivCeil(Cardinality(DOMAIN d) * OFFSETSIZE, SECTORSIZE)
    BY DEF Length, DirObj
  <2>3. Cardinality(DOMAIN d) = n
    BY <1>4, <2>1, Zenon
  <2> QED BY <2>2, <2>3 DEF GT0Offset
<1> QED BY <1>2, <1>3, <1>4

\* Where the parts of a sparse extent are.
LEMMA SparseHeaderIs ==
  ASSUME NEW type \in {Mono, TwoGb}, NEW o \in Nat \ {0}
  PROVE  LET h == Header(type, o)
             meta == GT0Offset(numGTs(o)) + numGTs(o) * TableSectors
         IN  /\ h.capacity = SECTORS(o)
             /\ h.descriptor \in Nat /\ h.descriptor \in {0, DescriptorSize}
             /\ h.rgdOffset \in Nat /\ h.rgdOffset >= 1
             /\ h.descriptor # 0 => h.rgdOffset >= 1 + h.descriptor
             /\ meta \in Nat /\ meta > GT0Offset(numGTs(o))
             /\ h.gdOffset \in Nat /\ h.gdOffset = h.rgdOffset + meta
             /\ h.overHead \in Nat /\ h.overHead >= h.gdOffset + meta
<1> DEFINE h == Header(type, o)
           meta == GT0Offset(numGTs(o)) + numGTs(o) * TableSectors
           d == IF type = TwoGb THEN 0 ELSE DescriptorSize
           d1 == d + (IF d = 0 THEN 0 ELSE 1)
           rgd == Max({d1, 1})
           gdo == rgd + meta
           over == PAD(gdo + meta, GRAINSECTORS)
<1>1. /\ numGTs(o) \in Nat \ {0} /\ TableSectors \in Nat \ {0}
      /\ DescriptorSize \in Nat /\ GRAINSECTORS \in Nat \ {0}
  BY GrainsOf, GeometryIs
<1>2. MetaDataSize(o) = meta
  BY DEF MetaDataSize
<1>3. GT0Offset(numGTs(o)) \in Nat
  BY <1>1, DirectorySectors
<1>4. numGTs(o) * TableSectors \in Nat \ {0}
  BY <1>1
<1>5. meta \in Nat /\ meta > GT0Offset(numGTs(o))
  BY <1>3, <1>4
<1>6. type # Stream
  BY DEF Mono, TwoGb, Stream
<1> HIDE DEF meta
<1>7. /\ h.capacity = SECTORS(o) /\ h.descriptor = d /\ h.rgdOffset = rgd
      /\ h.gdOffset = gdo /\ h.overHead = over
  BY <1>2, <1>6 DEF Header
<1>8. d \in Nat /\ d \in {0, DescriptorSize} /\ d1 \in Nat /\ (d # 0 => d1 = d + 1)
  BY <1>1
<1> HIDE DEF h, d, d1
<1>9. rgd \in Nat /\ rgd >= 1 /\ rgd >= d1
  BY <1>8, MaxOfTwo
<1> HIDE DEF rgd
<1>10. gdo \in Nat
  BY <1>5, <1>9
<1>11. over \in Nat /\ over >= gdo + meta
  BY <1>1, <1>5, <1>10, Padded
<1> HIDE DEF gdo, over
<1>12. gdo = rgd + meta
  BY DEF gdo
<1>13. d # 0 => rgd >= 1 + d
  BY <1>8, <1>9
<1> QED BY <1>5, <1>7, <1>8, <1>9, <1>10, <1>11, <1>12, <1>13 DEF h, meta

\* The extents x split the grains of a disk of o bytes: extent i begins with grain Before(i).
SplitsUp(x, o) ==
  /\ Len(x) \in Nat \ {0} /\ DOMAIN x = 1..Len(x)
  /\ \A i \in 1..Len(x) :
       /\ Sectored(x[i]) /\ Before(i) \in Nat
       /\ Before(i) + numGrains(x[i]) = IF i < Len(x) THEN Before(i + 1) ELSE numGrains(o)
       /\ Before(i) + numGrains(x[i]) <= numGrains(o)

LEMMA OneExtent ==
  ASSUME NEW o, Sectored(o)
  PROVE  SplitsUp(<<o>>, o) /\ Len(<<o>>) = 1 /\ <<o>>[1] = o /\ Before(1) = 0
<1> DEFINE x == <<o>>
<1>1. Len(x) = 1 /\ x[1] = o /\ DOMAIN x = 1..1
  OBVIOUS
<1>2. Before(1) = 0
  BY GeometryIs DEF Before
<1>3. o \in Nat \ {0} /\ numGrains(o) \in Nat
  BY GrainsOf DEF Sectored
<1> HIDE DEF x
<1>4. SplitsUp(x, o)
  BY <1>1, <1>2, <1>3 DEF SplitsUp
<1> QED BY <1>1, <1>2, <1>4 DEF x

LEMMA ManyExtents ==
  ASSUME NEW o, Sectored(o)
  PROVE  SplitsUp(ExtentSizes(o), o)
<1> DEFINE x == ExtentSizes(o)
           n == DivCeil(o, MaxExtent)
           M == MaxExtent \div GRAINSIZE
<1>1. /\ MaxExtent \in Nat \ {0} /\ M \in Nat \ {0} /\ MaxExtent = M * GRAINSIZE
      /\ GRAINSIZE \in Nat \ {0} /\ GRAINSECTORS \in Nat \ {0} /\ SECTORSIZE \in Nat \ {0}
      /\ GRAINSIZE = GRAINSECTORS * SECTORSIZE
  BY GeometryIs
<1> HIDE DEF M
<1>2. o \in Nat \ {0} /\ SECTORS(o) \in Nat /\ SECTORS(o) * SECTORSIZE = o
  BY DEF Sectored
<1>3. n \in Nat /\ \A k \in Nat : k * MaxExtent < o <=> k < n
  BY <1>1, <1>2, Rounded
<1>4. PAD(o, MaxExtent) \div MaxExtent = n
  <2> DEFINE z == PAD(o, MaxExtent)
  <2>1. z = n * MaxExtent /\ z \in Nat
    BY <1>1, <1>2, Padded
  <2> HIDE DEF z, n
  <2>2. z = n * MaxExtent + 0 /\ 0 \in 0..(MaxExtent - 1)
    BY <1>1, <1>3, <2>1
  <2>3. n = z \div MaxExtent
    BY <1>1, <1>3, <2>1, <2>2, QuotientIs
  <2> QED BY <2>3 DEF z
<1>5. x = [i \in 1..n |-> Min({MaxExtent, o - (i - 1) * MaxExtent})]
  BY <1>4 DEF ExtentSizes
<1> HIDE DEF n, x
<1>6. n # 0
  <2>1. 0 * MaxExtent < o
    BY <1>1, <1>2
  <2> QED BY <1>3, <2>1
<1>7. Len(x) = n /\ DOMAIN x = 1..n
  BY <1>3, <1>5
<1>8. ASSUME NEW i \in 1..n
      PROVE  /\ Before(i) \in Nat /\ Before(i) * GRAINSIZE = (i - 1) * MaxExtent
             /\ Before(i) * GRAINSIZE < o
  <2>1. Before(i) = (i - 1) * M
    BY DEF Before, M
  <2>2. (i - 1) * M \in Nat /\ ((i - 1) * M) * GRAINSIZE = (i - 1) * MaxExtent
    BY <1>1, <1>3
  <2>3. (i - 1) * MaxExtent < o
    <3>1. i - 1 \in Nat /\ i - 1 < n
      BY <1>3
    <3> QED BY <1>3, <3>1
  <2> QED BY <2>1, <2>2, <2>3
<1>9. numGrains(o) \in Nat /\ \A k \in Nat : k * GRAINSIZE < o <=> k < numGrains(o)
  BY <1>2, GrainsOf
<1>10. ASSUME NEW i \in 1..n, i < n
       PROVE  /\ Sectored(x[i]) /\ Before(i) + numGrains(x[i]) = Before(i + 1)
              /\ Before(i) + numGrains(x[i]) <= numGrains(o)
  <2>1. i * MaxExtent < o
    BY <1>3, <1>10
  <2>2. (i - 1) * MaxExtent = i * MaxExtent - MaxExtent
    BY <1>1, <1>3
  <2>3. i * MaxExtent \in Nat
    BY <1>1, <1>3
  <2>4. x[i] = MaxExtent
    <3> DEFINE w == o - (i - 1) * MaxExtent
    <3>1. w \in Int /\ MaxExtent <= w
      BY <1>1, <1>2, <2>1, <2>2, <2>3
    <3>2. x[i] = Min({MaxExtent, w})
      BY <1>5
    <3> HIDE DEF w
    <3> QED BY <1>1, <3>1, <3>2, MinOfTwo
  <2>5. MaxExtent = (M * GRAINSECTORS) * SECTORSIZE /\ M * GRAINSECTORS \in Nat
    BY <1>1
  <2>6. Sectored(MaxExtent)
    BY <1>1, <2>5, SectoredIs
  <2>7. numGrains(MaxExtent) = M
    BY <1>1, RoundedExact DEF numGrains
  <2>8. Before(i) + M = Before(i + 1)
    <3>1. Before(i) = (i - 1) * M /\ Before(i + 1) = ((i + 1) - 1) * M
      BY DEF Before, M
    <3>2. (i - 1) * M + M = ((i + 1) - 1) * M
      BY <1>1, <1>3
    <3> QED BY <3>1, <3>2
  <2>9. Before(i + 1) \in Nat /\ Before(i + 1) * GRAINSIZE < o
    <3>1. i + 1 \in 1..n
      BY <1>3, <1>10
    <3> QED BY <1>8, <3>1
  <2>10. Before(i + 1) < numGrains(o)
    BY <1>9, <2>9
  <2>11. Before(i) + numGrains(x[i]) = Before(i + 1)
    BY <2>4, <2>7, <2>8
  <2> QED BY <1>9, <2>4, <2>6, <2>9, <2>10, <2>11
<1>11. /\ Sectored(x[n]) /\ Before(n) + numGrains(x[n]) = numGrains(o)
  <2> DEFINE b == Before(n)
             w == o - (n - 1) * MaxExtent
  <2>1. n \in 1..n
    BY <1>3, <1>6
  <2>2. b \in Nat /\ b * GRAINSIZE = (n - 1) * MaxExtent /\ b * GRAINSIZE < o
    BY <1>8, <2>1
  <2>3. ~(n * MaxExtent < o)
    BY <1>3
  <2>4. w \in Nat \ {0} /\ w <= MaxExtent /\ w = o - b * GRAINSIZE
    <3>1. (n - 1) * MaxExtent = n * MaxExtent - MaxExtent /\ n * MaxExtent \in Nat
      BY <1>1, <1>3
    <3> QED BY <1>1, <1>2, <2>2, <2>3, <3>1
  <2>5. x[n] = w
    <3>1. x[n] = Min({MaxExtent, w})
      BY <1>5, <2>1
    <3> HIDE DEF w
    <3> QED BY <1>1, <2>4, <3>1, MinOfTwo
  <2> HIDE DEF b, w
  <2>6. Sectored(w)
    <3> DEFINE c == SECTORS(o) - b * GRAINSECTORS
    <3>1. b * GRAINSECTORS \in Nat /\ b * GRAINSIZE = (b * GRAINSECTORS) * SECTORSIZE
      BY <1>1, <2>2
    <3>2. c \in Int /\ c * SECTORSIZE = w
      <4>1. c * SECTORSIZE = SECTORS(o) * SECTORSIZE - (b * GRAINSECTORS) * SECTORSIZE
        BY <1>1, <1>2, <3>1
      <4> QED BY <1>2, <2>4, <3>1, <4>1
    <3> HIDE DEF c
    <3>3. c >= 0
      BY <1>1, <2>4, <3>2
    <3> QED BY <2>4, <3>2, <3>3, SectoredIs
  <2>7. /\ numGrains(w) \in Nat /\ \A k \in Nat : k * GRAINSIZE < w <=> k < numGrains(w)
    BY <2>4, GrainsOf
  <2>8. b < numGrains(o)
    BY <1>9, <2>2
  <2>9. ASSUME NEW k \in Nat PROVE k < numGrains(w) <=> k < numGrains(o) - b
    <3>1. (k + b) * GRAINSIZE = k * GRAINSIZE + b * GRAINSIZE /\ k * GRAINSIZE \in Nat
      BY <1>1, <2>2
    <3>2. k * GRAINSIZE < w <=> (k + b) * GRAINSIZE < o
      <4> DEFINE p == k * GRAINSIZE
                 q == b * GRAINSIZE
                 r == (k + b) * GRAINSIZE
      <4>1. p \in Nat /\ q \in Nat /\ r = p + q /\ w = o - q
        BY <2>2, <2>4, <3>1, <1>1
      <4> HIDE DEF p, q, r
      <4>2. p < w <=> r < o
        BY <1>2, <4>1
      <4> QED BY <4>2 DEF p, r
    <3>3. (k + b) * GRAINSIZE < o <=> k + b < numGrains(o)
      BY <1>9, <2>2
    <3> QED BY <1>9, <2>2, <2>7, <3>2, <3>3
  <2>10. numGrains(w) = numGrains(o) - b
    <3>1. numGrains(o) - b \in Nat
      BY <1>9, <2>2, <2>8
    <3> QED BY <2>7, <2>9, <3>1, SameBelow
  <2> QED BY <1>9, <2>2, <2>5, <2>6, <2>10 DEF b
<1>12. ASSUME NEW i \in 1..Len(x)
       PROVE  /\ Sectored(x[i]) /\ Before(i) \in Nat
              /\ Before(i) + numGrains(x[i]) = IF i < Len(x) THEN Before(i + 1) ELSE numGrains(o)
              /\ Before(i) + numGrains(x[i]) <= numGrains(o)
  <2>1. i \in 1..n /\ (i < n \/ i = n)
    BY <1>3, <1>7
  <2>2. CASE i < n
    BY <1>7, <1>8, <1>10, <2>1, <2>2
  <2>3. CASE i = n
    BY <1>7, <1>8, <1>9, <1>11, <2>1, <2>3
  <2> QED BY <2>1, <2>2, <2>3
<1>13. Len(x) \in Nat \ {0} /\ DOMAIN x = 1..Len(x)
  BY <1>3, <1>6, <1>7
<1>14. SplitsUp(x, o)
  BY <1>12, <1>13 DEF SplitsUp
<1> QED BY <1>14 DEF x

\* What the plan of main() is, in the grains of the disk.
LEMMA PlanIs ==
  ASSUME size \in Sizes, Planned
  PROVE  /\ vmdkType \in {Mono, TwoGb, Stream}
         /\ size \in Nat \ {0} /\ numGrains(size) \in Nat \ {0}
         /\ SplitsUp(outsizes, size) /\ Before(1) = 0
         /\ vmdkType = Stream => Len(outsizes) = 1
<1> DEFINE o == PAD(size, SECTORSIZE)
<1>1. size \in Nat \ {0} /\ numGrains(size) \in Nat \ {0}
  BY GeometryIs, GrainsOf
<1>2. Sectored(o) /\ numGrains(o) = numGrains(size)
  BY <1>1, PaddedSize
<1>3. vmdkType \in {Mono, TwoGb, Stream}
  BY DEF Planned
<1>4. outsizes = <<o>> \/ (outsizes = ExtentSizes(o) /\ vmdkType # Stream)
  BY DEF Planned, Mono, Stream, TwoGb
<1> HIDE DEF o
<1>5. SplitsUp(outsizes, o) /\ (vmdkType = Stream => Len(outsizes) = 1)
  BY <1>2, <1>4, OneExtent, ManyExtents, Zenon
<1>6. SplitsUp(outsizes, size)
  BY <1>2, <1>5 DEF SplitsUp
<1>7. Before(1) = 0
  BY <1>2, OneExtent
<1> QED BY <1>1, <1>3, <1>5, <1>6, <1>7

\* There is something to read until all grains are.
LEMMA BytesLeftIs ==
  ASSUME size \in Nat \ {0}, Len(disk) \in Nat
  PROVE  BytesLeft > 0 <=> Len(disk) < numGrains(size)
<1> DEFINE n == Len(disk)
           b == n * GRAINSIZE
<1>1. n \in Nat /\ GRAINSIZE \in Nat \ {0}
  BY GeometryIs
<1>2. b < size <=> n < numGrains(size)
  BY <1>1, GrainsOf
<1>3. b \in Nat /\ BytesLeft = size - b
  BY <1>1 DEF BytesLeft
<1> HIDE DEF n, b
<1>4. BytesLeft > 0 <=> b < size
  BY <1>3
<1> QED BY <1>2, <1>4 DEF n

----------------------------------------------------------------------------
(* Files and lists of files.                                               *)

LEMMA ListedAppend ==
  ASSUME NEW s, Listed(s), NEW e
  PROVE  /\ Listed(Append(s, e)) /\ Len(Append(s, e)) = Len(s) + 1
         /\ Append(s, e)[Len(s) + 1] = e
         /\ \A n \in 1..Len(s) : Append(s, e)[n] = s[n]
<1> DEFINE V == {s[n] : n \in 1..Len(s)} \cup {e}
           a == Append(s, e)
<1>1. Len(s) \in Nat /\ s = [n \in 1..Len(s) |-> s[n]]
  BY DEF Listed
<1>2. s \in Seq(V)
  <2> DEFINE l == Len(s)
             t == [n \in 1..l |-> s[n]]
  <2>1. l \in Nat /\ \A n \in 1..l : s[n] \in V
    BY <1>1
  <2> HIDE DEF l, V
  <2>2. t \in Seq(V)
    BY <2>1
  <2>3. s = t
    BY <1>1 DEF l
  <2> HIDE DEF t
  <2> QED BY <2>2, <2>3
<1>3. e \in V
  OBVIOUS
<1> HIDE DEF V
<1>4. /\ a \in Seq(V) /\ Len(a) = Len(s) + 1 /\ a[Len(s) + 1] = e
      /\ \A n \in 1..Len(s) : a[n] = s[n]
  BY <1>1, <1>2, <1>3, AppendProperties
<1> HIDE DEF a
<1>5. a = [n \in 1..Len(a) |-> a[n]] /\ Len(a) \in Nat
  BY <1>4
<1> QED BY <1>4, <1>5 DEF Listed, a

\* The last file is written to.
Written(s, f) == [s EXCEPT ![Len(s)] = f]

LastIs(t, s, f) ==
  Listed(t) /\ Len(t) = Len(s) /\ t[Len(s)] = f /\ \A n \in 1..(Len(s) - 1) : t[n] = s[n]

LEMMA Rewritten ==
  ASSUME NEW s, Listed(s), Len(s) >= 1, NEW f
  PROVE  LastIs(Written(s, f), s, f)
<1> DEFINE l == Len(s)
           t == [s EXCEPT ![l] = f]
<1>1. l \in Nat /\ l >= 1 /\ s = [n \in 1..l |-> s[n]]
  BY DEF Listed
<1>2. DOMAIN s = 1..l
  BY <1>1
<1> HIDE DEF l
<1>3. t = [n \in 1..l |-> IF n = l THEN f ELSE s[n]]
  BY <1>1, <1>2
<1>4. Len(t) = l
  BY <1>1, <1>3
<1>5. t[l] = f /\ \A n \in 1..(l - 1) : t[n] = s[n]
  BY <1>1, <1>3
<1>6. t = [n \in 1..l |-> t[n]]
  BY <1>3
<1> HIDE DEF t
<1>7. Listed(t)
  BY <1>1, <1>4, <1>6 DEF Listed
<1> QED BY <1>4, <1>5, <1>7 DEF t, l, LastIs, Written

\* What is in f is in g too.
Keeps(g, f) == \A s \in DOMAIN f : s \in DOMAIN g /\ g[s] = f[s]

\* Writing one object.
LEMMA PutIs ==
  ASSUME NEW p, NEW o, NEW f
  PROVE  LET g == Over(At(p, o), f)
         IN  /\ DOMAIN g = DOMAIN f \cup {p} /\ g[p] = o
             /\ \A s \in DOMAIN f : s # p => g[s] = f[s]
BY DEF At, Over

\* An object written behind all others.
LEMMA PutBehind ==
  ASSUME NEW f, IsFile(f), Packed(f), NEW p \in Nat, EndsBy(f, p),
         NEW o, Length(o) \in Nat \ {0}
  PROVE  LET g == Over(At(p, o), f)
         IN  /\ p \notin DOMAIN f /\ DOMAIN g = DOMAIN f \cup {p} /\ g[p] = o
             /\ Keeps(g, f) /\ IsFile(g) /\ Packed(g) /\ EndsBy(g, p + Length(o))
<1> DEFINE g == Over(At(p, o), f)
<1>1. \A s \in DOMAIN f : s \in Nat /\ s < p /\ s + Length(f[s]) <= p
  BY DEF IsFile, EndsBy
<1>2. p \notin DOMAIN f
  BY <1>1
<1>3. DOMAIN g = DOMAIN f \cup {p} /\ g[p] = o /\ \A s \in DOMAIN f : g[s] = f[s]
  BY <1>2 DEF At, Over
<1> HIDE DEF g
<1>4. IsFile(g)
  BY <1>3 DEF IsFile
<1>5. Packed(g)
  BY <1>1, <1>3 DEF Packed
<1>6. EndsBy(g, p + Length(o))
  <2>1. ASSUME NEW s \in DOMAIN g PROVE s + Length(g[s]) <= p + Length(o)
    <3>1. s = p \/ s \in DOMAIN f
      BY <1>3
    <3>2. CASE s = p
      BY <1>3, <3>2
    <3>3. CASE s \in DOMAIN f
      <4>1. s + Length(f[s]) <= p /\ g[s] = f[s] /\ s \in Nat /\ Length(f[s]) \in Nat
        BY <1>1, <1>3, <3>3 DEF IsFile
      <4> DEFINE k == Length(f[s])
                 m == Length(o)
      <4>2. k \in Nat /\ m \in Nat /\ s + k <= p
        BY <4>1
      <4> HIDE DEF k, m
      <4>3. s + k <= p + m
        BY <4>1, <4>2
      <4> QED BY <4>1, <4>3 DEF k, m
    <3> QED BY <3>1, <3>2, <3>3
  <2> QED BY <2>1 DEF EndsBy
<1>7. Keeps(g, f)
  BY <1>3 DEF Keeps
<1> QED BY <1>2, <1>3, <1>4, <1>5, <1>6, <1>7 DEF g

Reaches(f, p) == \E s \in DOMAIN f : s + Length(f[s]) = p

LEMMA NoGapsPut ==
  ASSUME NEW f, NEW g, NEW p, NEW from, NoGaps(f, from), DOMAIN g = DOMAIN f \cup {p},
         Keeps(g, f), p > from => Reaches(f, p)
  PROVE  NoGaps(g, from)
BY DEF NoGaps, Keeps, Reaches

Within(f, a, b) == \A s \in DOMAIN f : a <= s /\ s + Length(f[s]) <= b

Clear(f, a, b) == \A s \in DOMAIN f : s + Length(f[s]) <= a \/ s >= b

\* A group of objects written into the room between two others.
LEMMA PutBetween ==
  ASSUME NEW f, IsFile(f), Packed(f), NEW g, IsFile(g), Packed(g),
         NEW a \in Nat, NEW b \in Nat, Within(g, a, b), Clear(f, a, b)
  PROVE  /\ IsFile(Over(g, f)) /\ Packed(Over(g, f))
         /\ Keeps(Over(g, f), g) /\ Keeps(Over(g, f), f)
         /\ \A s \in DOMAIN Over(g, f) : s \in DOMAIN g \/ s \in DOMAIN f
<1> DEFINE h == Over(g, f)
<1>1. \A s \in DOMAIN g : s \in Nat /\ Length(g[s]) \in Nat \ {0} /\ a <= s /\ s < b
                           /\ s + Length(g[s]) <= b
  BY DEF IsFile, Within
<1>2. \A s \in DOMAIN f : s \in Nat /\ Length(f[s]) \in Nat \ {0} /\ (s < a \/ s >= b)
                           /\ (s + Length(f[s]) <= a \/ s >= b)
  BY DEF IsFile, Clear
<1>3. \A s \in DOMAIN f : s \notin DOMAIN g
  BY <1>1, <1>2
<1>4. /\ DOMAIN h = DOMAIN g \cup DOMAIN f
      /\ \A s \in DOMAIN g : h[s] = g[s]
      /\ \A s \in DOMAIN f : h[s] = f[s]
  BY <1>3 DEF Over
<1> HIDE DEF h
<1>5. IsFile(h)
  BY <1>4 DEF IsFile
<1>6. ASSUME NEW s \in DOMAIN h, NEW t \in DOMAIN h, s < t PROVE s + Length(h[s]) <= t
  <2>1. CASE s \in DOMAIN g /\ t \in DOMAIN g
    BY <1>4, <1>6, <2>1 DEF Packed
  <2>2. CASE s \in DOMAIN f /\ t \in DOMAIN f
    BY <1>4, <1>6, <2>2 DEF Packed
  <2>3. CASE s \in DOMAIN g /\ t \in DOMAIN f
    <3>1. t >= b /\ s + Length(g[s]) <= b
      BY <1>1, <1>2, <1>6, <2>3
    <3> QED BY <1>1, <1>2, <1>4, <2>3, <3>1
  <2>4. CASE s \in DOMAIN f /\ t \in DOMAIN g
    <3>1. s + Length(f[s]) <= a
      BY <1>1, <1>2, <1>6, <2>4
    <3> QED BY <1>1, <1>2, <1>4, <2>4, <3>1
  <2> QED BY <1>4, <2>1, <2>2, <2>3, <2>4
<1>7. Packed(h)
  BY <1>6 DEF Packed
<1>8. Keeps(h, g) /\ Keeps(h, f) /\ \A s \in DOMAIN h : s \in DOMAIN g \/ s \in DOMAIN f
  BY <1>4 DEF Keeps
<1> QED BY <1>5, <1>7, <1>8 DEF h

LEMMA LengthIs ==
  /\ \A h : Length(HeaderObj(h)) = 1
  /\ Length([kind |-> "descriptor"]) = DescriptorSize
  /\ \A g, n : Length(GrainObj(g, n)) = n
  /\ \A t : Length(TableObj(t)) = TableSectors
  /\ \A m, n : Length(MarkerObj(m, n)) = 1
BY DEF Length, HeaderObj, GrainObj, TableObj, MarkerObj

LEMMA DirectoryIs ==
  ASSUME NEW o \in Nat \ {0}, NEW at
  PROVE  /\ Length(Directory(at, o)) = GT0Offset(numGTs(o))
         /\ GT0Offset(numGTs(o)) \in Nat \ {0}
         /\ \A i \in 0..(numGTs(o) - 1) :
              Directory(at, o).entries[i] = at + GT0Offset(numGTs(o)) + i * TableSectors
<1> DEFINE n == numGTs(o)
           d == [i \in 0..(n - 1) |-> at + GT0Offset(n) + i * TableSectors]
<1>1. n \in Nat \ {0}
  BY GrainsOf
<1>2. Directory(at, o) = DirObj(d)
  BY DEF Directory
<1>3. DOMAIN d = 0..(n - 1)
  OBVIOUS
<1>4. GT0Offset(n) \in Nat \ {0} /\ Length(DirObj(d)) = GT0Offset(n)
  <2> HIDE DEF n, d
  <2> QED BY <1>1, <1>3, DirectorySectors
<1>5. Directory(at, o).entries = d
  BY <1>2 DEF DirObj
<1> QED BY <1>2, <1>4, <1>5

\* What stands before the first grain of an extent.
LEMMA HeadIs ==
  ASSUME NEW h, h.descriptor \in {0, DescriptorSize}
  PROVE  LET f == Over(At(0, HeaderObj(h)),
                       IF h.descriptor = 0 THEN <<>> ELSE At(1, [kind |-> "descriptor"]))
         IN  /\ IsFile(f) /\ Packed(f) /\ EndsBy(f, 1 + h.descriptor)
             /\ 0 \in DOMAIN f /\ f[0] = HeaderObj(h)
             /\ \A s \in DOMAIN f : f[s].kind \in {"header", "descriptor"}
<1> DEFINE b == [kind |-> "descriptor"]
           x == HeaderObj(h)
           e == IF h.descriptor = 0 THEN <<>> ELSE At(1, b)
           f == Over(At(0, x), e)
<1>1. Length(x) = 1 /\ Length(b) = DescriptorSize /\ DescriptorSize \in Nat
  BY LengthIs, GeometryIs
<1>2. x.kind = "header" /\ b.kind = "descriptor"
  BY DEF HeaderObj
<1> HIDE DEF b, x
<1>3. DOMAIN e = {} \/ (h.descriptor # 0 /\ DOMAIN e = {1} /\ e[1] = b)
  BY DEF At
<1> HIDE DEF e
<1>4. /\ DOMAIN f = DOMAIN e \cup {0} /\ f[0] = x
      /\ \A s \in DOMAIN e : f[s] = e[s]
  BY <1>3 DEF At, Over
<1> HIDE DEF f
<1>5. \A s \in DOMAIN f :
        \/ s = 0 /\ f[s] = x
        \/ s = 1 /\ f[s] = b /\ h.descriptor = DescriptorSize /\ DescriptorSize # 0
  BY <1>3, <1>4
<1>6. IsFile(f) /\ Packed(f)
  BY <1>1, <1>5 DEF IsFile, Packed
<1>7. EndsBy(f, 1 + h.descriptor)
  <2>1. ASSUME NEW s \in DOMAIN f PROVE s + Length(f[s]) <= 1 + h.descriptor
    <3>1. CASE s = 0 /\ f[s] = x
      BY <1>1, <3>1
    <3>2. CASE s = 1 /\ f[s] = b /\ h.descriptor = DescriptorSize
      BY <1>1, <3>2
    <3> QED BY <1>5, <3>1, <3>2
  <2> QED BY <2>1 DEF EndsBy
<1>8. 0 \in DOMAIN f /\ \A s \in DOMAIN f : f[s].kind \in {"header", "descriptor"}
  BY <1>2, <1>4, <1>5
<1> QED BY <1>4, <1>6, <1>7, <1>8 DEF f, e, x, b

LEMMA EndsLater ==
  ASSUME NEW f, IsFile(f), NEW p \in Nat, EndsBy(f, p), NEW q \in Nat, p <= q
  PROVE  EndsBy(f, q)
BY DEF EndsBy, IsFile

\* A sparse extent begins with its header, the descriptor and two directories, with room
\* for the tables behind each.
LEMMA SparsePrologue ==
  ASSUME vmdkType \in {Mono, TwoGb}, NEW o \in Nat \ {0}, outsizes[fileNo + 1] = o
  PROVE  LET h == Header(vmdkType, o)
             f == Prologue(h)
         IN  /\ IsFile(f) /\ Packed(f) /\ EndsBy(f, h.overHead)
             /\ 0 \in DOMAIN f /\ f[0] = HeaderObj(h)
             /\ RoomForTables(f, h, o)
             /\ {h.rgdOffset, h.gdOffset} \subseteq DOMAIN f
             /\ f[h.rgdOffset] = Directory(h.rgdOffset, o)
             /\ f[h.gdOffset] = Directory(h.gdOffset, o)
<1> DEFINE h == Header(vmdkType, o)
           gt0 == GT0Offset(numGTs(o))
           meta == gt0 + numGTs(o) * TableSectors
           r == h.rgdOffset
           g == h.gdOffset
           v == h.overHead
           f0 == Over(At(0, HeaderObj(h)),
                      IF h.descriptor = 0 THEN <<>> ELSE At(1, [kind |-> "descriptor"]))
           dr == Directory(r, o)
           dg == Directory(g, o)
           f1 == Over(At(r, dr), f0)
           f2 == Over(At(g, dg), f1)
<1>1. /\ h.descriptor \in Nat /\ h.descriptor \in {0, DescriptorSize}
      /\ r \in Nat /\ r >= 1 /\ (h.descriptor # 0 => r >= 1 + h.descriptor)
      /\ meta \in Nat /\ meta > gt0 /\ g \in Nat /\ g = r + meta /\ v \in Nat /\ v >= g + meta
  BY SparseHeaderIs
<1>2. /\ Length(dr) = gt0 /\ Length(dg) = gt0 /\ gt0 \in Nat \ {0}
  BY DirectoryIs
<1>3. f2 = Prologue(h)
  BY DEF Prologue, Mono, TwoGb, Stream
<1>4. /\ IsFile(f0) /\ Packed(f0) /\ EndsBy(f0, 1 + h.descriptor)
      /\ 0 \in DOMAIN f0 /\ f0[0] = HeaderObj(h)
  <2> HIDE DEF h, f0
  <2> QED BY <1>1, HeadIs DEF f0
<1> HIDE DEF h, gt0, meta, r, g, v, f0, dr, dg
<1>5. EndsBy(f0, r)
  BY <1>1, <1>4, EndsLater
<1>6. /\ DOMAIN f1 = DOMAIN f0 \cup {r} /\ f1[r] = dr /\ \A s \in DOMAIN f0 : f1[s] = f0[s]
      /\ IsFile(f1) /\ Packed(f1) /\ EndsBy(f1, r + gt0)
  <2>1. Length(dr) \in Nat \ {0} /\ r \in Nat
    BY <1>1, <1>2
  <2>2. /\ DOMAIN f1 = DOMAIN f0 \cup {r} /\ f1[r] = dr /\ Keeps(f1, f0)
        /\ IsFile(f1) /\ Packed(f1) /\ EndsBy(f1, r + Length(dr))
    BY <1>4, <1>5, <2>1, PutBehind DEF f1
  <2> QED BY <1>2, <2>2 DEF Keeps
<1> HIDE DEF f1
<1>7. EndsBy(f1, g)
  BY <1>1, <1>2, <1>6, EndsLater
<1>8. /\ g \notin DOMAIN f1
      /\ DOMAIN f2 = DOMAIN f1 \cup {g} /\ f2[g] = dg /\ \A s \in DOMAIN f1 : f2[s] = f1[s]
      /\ IsFile(f2) /\ Packed(f2) /\ EndsBy(f2, g + gt0)
  <2>1. Length(dg) \in Nat \ {0} /\ g \in Nat
    BY <1>1, <1>2
  <2>2. /\ g \notin DOMAIN f1
        /\ DOMAIN f2 = DOMAIN f1 \cup {g} /\ f2[g] = dg /\ Keeps(f2, f1)
        /\ IsFile(f2) /\ Packed(f2) /\ EndsBy(f2, g + Length(dg))
    BY <1>6, <1>7, <2>1, PutBehind DEF f2
  <2> QED BY <1>2, <2>2 DEF Keeps
<1> HIDE DEF f2
<1>9. EndsBy(f2, v)
  BY <1>1, <1>2, <1>8, EndsLater
<1>10. 0 \in DOMAIN f2 /\ f2[0] = HeaderObj(h) /\ r \in DOMAIN f2 /\ g \in DOMAIN f2 /\ f2[r] = dr
  BY <1>4, <1>6, <1>8
<1>11. RoomForTables(f2, h, o)
  <2>1. ASSUME NEW s \in DOMAIN f2
        PROVE  /\ s + Length(f2[s]) <= r + gt0 \/ s >= g
               /\ s + Length(f2[s]) <= g + gt0 \/ s >= v
    <3>1. s + Length(f2[s]) <= g + gt0
      BY <1>8 DEF EndsBy
    <3>2. s = g \/ s \in DOMAIN f1
      BY <1>8
    <3>3. CASE s = g
      BY <1>1, <3>1, <3>3
    <3>4. CASE s \in DOMAIN f1
      <4>1. s + Length(f2[s]) <= r + gt0
        BY <1>6, <1>8, <3>4 DEF EndsBy
      <4> QED BY <3>1, <4>1
    <3> QED BY <3>2, <3>3, <3>4
  <2> QED BY <2>1 DEF RoomForTables, r, g, v, gt0
<1>12. f2 = Prologue(h) /\ h = Header(vmdkType, o)
  BY <1>3 DEF h, f2, f1, f0, dr, dg, r, g, v
<1> QED BY <1>8, <1>9, <1>10, <1>11, <1>12 DEF r, g, v, dr, dg

\* A row of tables behind a directory at sector at.
Row(at, o) ==
  [s \in {at + GT0Offset(numGTs(o)) + i * TableSectors : i \in 0..(numGTs(o) - 1)} |->
     TableAt((s - at - GT0Offset(numGTs(o))) \div TableSectors)]

TablesAt(f, at, o) ==
  \A i \in 0..(numGTs(o) - 1) :
    /\ at + GT0Offset(numGTs(o)) + i * TableSectors \in DOMAIN f
    /\ f[at + GT0Offset(numGTs(o)) + i * TableSectors] = TableAt(i)

LEMMA RowIs ==
  ASSUME NEW o \in Nat \ {0}, NEW at \in Nat
  PROVE  LET from == at + GT0Offset(numGTs(o))
             f == Row(at, o)
         IN  /\ IsFile(f) /\ Packed(f) /\ TablesAt(f, at, o)
             /\ Within(f, from, from + numGTs(o) * TableSectors)
<1> DEFINE n == numGTs(o)
           from == at + GT0Offset(n)
           f == Row(at, o)
           T == TableSectors
<1>1. n \in Nat \ {0} /\ GT0Offset(n) \in Nat /\ T \in Nat \ {0}
  BY GrainsOf, DirectorySectors, GeometryIs
<1>2. from \in Nat
  BY <1>1
<1>3. f = [s \in {from + i * T : i \in 0..(n - 1)} |-> TableAt((s - at - GT0Offset(n)) \div T)]
  BY Zenon DEF Row, n, from, T
<1>0. \A s \in Nat : s - at - GT0Offset(n) = s - from
  BY <1>1
<1>4. \A i \in 0..(n - 1) : i \in Nat /\ i * T \in Nat
  BY <1>1
<1> HIDE DEF n, from, f, T
<1>5. ASSUME NEW i \in 0..(n - 1) PROVE from + i * T \in DOMAIN f /\ f[from + i * T] = TableAt(i)
  <2> DEFINE s == from + i * T
  <2>1. s - from = i * T + 0 /\ i * T \in Nat /\ 0 \in 0..(T - 1) /\ i \in Nat
    BY <1>1, <1>2, <1>4
  <2>2. (s - from) \div T = i
    <3> DEFINE d == s - from
    <3>1. d \in Nat /\ d = i * T + 0
      BY <2>1
    <3> HIDE DEF d
    <3>2. i = d \div T
      BY <1>1, <2>1, <3>1, QuotientIs
    <3> QED BY <3>2 DEF d
  <2>3. s \in {from + j * T : j \in 0..(n - 1)}
    OBVIOUS
  <2> HIDE DEF s
  <2>4. s \in Nat /\ s - at - GT0Offset(n) = s - from
    BY <1>2, <1>4, <1>0 DEF s
  <2>5. s \in DOMAIN f /\ f[s] = TableAt(i)
    BY <1>3, <2>2, <2>3, <2>4
  <2> QED BY <2>5 DEF s
<1>6. \A s \in DOMAIN f : \E i \in 0..(n - 1) : s = from + i * T
  BY <1>3
<1>7. \A i : Length(TableAt(i)) = T
  BY LengthIs DEF TableAt, T
<1>8. ASSUME NEW s \in DOMAIN f
      PROVE  s \in Nat /\ Length(f[s]) = T /\ from <= s /\ s + T <= from + n * T
  <2>1. PICK i \in 0..(n - 1) : s = from + i * T
    BY <1>6
  <2>2. f[s] = TableAt(i) /\ i * T \in Nat
    BY <1>4, <1>5, <2>1
  <2>3. (i + 1) * T <= n * T /\ (i + 1) * T = i * T + T /\ n * T \in Nat
    BY <1>1
  <2> QED BY <1>1, <1>2, <1>7, <2>1, <2>2, <2>3
<1>9. IsFile(f)
  BY <1>1, <1>8 DEF IsFile
<1>10. Packed(f)
  <2>1. ASSUME NEW s \in DOMAIN f, NEW t \in DOMAIN f, s < t PROVE s + T <= t
    <3>1. PICK i \in 0..(n - 1) : s = from + i * T
      BY <1>6
    <3>2. PICK j \in 0..(n - 1) : t = from + j * T
      BY <1>6
    <3>3. i * T \in Nat /\ j * T \in Nat /\ i \in Nat /\ j \in Nat
      BY <1>4
    <3>4. i * T < j * T
      BY <1>2, <2>1, <3>1, <3>2, <3>3
    <3>5. i < j
      <4>1. ASSUME j <= i PROVE j * T <= i * T
        BY <1>1, <3>3, <4>1
      <4> QED BY <3>3, <3>4, <4>1
    <3>6. (i + 1) * T <= j * T /\ (i + 1) * T = i * T + T
      BY <1>1, <3>3, <3>5
    <3> QED BY <1>1, <1>2, <3>1, <3>2, <3>3, <3>6
  <2> QED BY <1>8, <2>1 DEF Packed
<1>11. Within(f, from, from + n * T)
  BY <1>8 DEF Within
<1>12. TablesAt(f, at, o)
  BY <1>5 DEF TablesAt, from, n, T
<1> QED BY <1>9, <1>10, <1>11, <1>12 DEF from, n, f, T

LEMMA OverOver ==
  ASSUME NEW f, NEW g, NEW h
  PROVE  Over(Over(f, g), h) = Over(f, Over(g, h))
BY DEF Over

\* Closing a sparse extent: the tables fill the room, and nothing else changes.
LEMMA WithTables ==
  ASSUME NEW o \in Nat \ {0}, NEW type \in {Mono, TwoGb},
         NEW f, IsFile(f), Packed(f), RoomForTables(f, Header(type, o), o)
  PROVE  LET h == Header(type, o)
             g == Over(Tables(h, o), f)
         IN  /\ IsFile(g) /\ Packed(g) /\ Keeps(g, f)
             /\ TablesAt(g, h.rgdOffset, o) /\ TablesAt(g, h.gdOffset, o)
<1> DEFINE h == Header(type, o)
           gt0 == GT0Offset(numGTs(o))
           r == h.rgdOffset
           d == h.gdOffset
           nT == numGTs(o) * TableSectors
           R == Row(r, o)
           D == Row(d, o)
           e == Over(D, f)
           g == Over(R, e)
<1>1. /\ r \in Nat /\ d \in Nat /\ d = r + (gt0 + nT) /\ h.overHead \in Nat
      /\ h.overHead >= d + (gt0 + nT)
  BY SparseHeaderIs
<1>2. gt0 \in Nat /\ nT \in Nat
  <2>1. numGTs(o) \in Nat \ {0} /\ TableSectors \in Nat
    BY GrainsOf, GeometryIs
  <2> QED BY <2>1, DirectorySectors
<1>3. Over(Tables(h, o), f) = g
  <2>1. Tables(h, o) = Over(R, D)
    BY DEF Tables, Row
  <2>2. Over(Over(R, D), f) = Over(R, Over(D, f))
    BY OverOver
  <2> HIDE DEF R, D
  <2> QED BY <2>1, <2>2
<1>4. /\ IsFile(R) /\ Packed(R) /\ TablesAt(R, r, o) /\ Within(R, r + gt0, r + gt0 + nT)
      /\ IsFile(D) /\ Packed(D) /\ TablesAt(D, d, o) /\ Within(D, d + gt0, d + gt0 + nT)
  BY <1>1, RowIs
<1>5. \A s \in DOMAIN f : /\ s + Length(f[s]) <= r + gt0 \/ s >= d
                          /\ s + Length(f[s]) <= d + gt0 \/ s >= h.overHead
                          /\ s \in Nat /\ Length(f[s]) \in Nat
  BY DEF RoomForTables, IsFile
<1> HIDE DEF h, gt0, r, d, nT, R, D
<1>6. /\ IsFile(e) /\ Packed(e) /\ Keeps(e, D) /\ Keeps(e, f)
      /\ \A s \in DOMAIN e : s \in DOMAIN D \/ s \in DOMAIN f
  <2>1. d + gt0 \in Nat /\ d + gt0 + nT \in Nat /\ d + gt0 + nT <= h.overHead
    BY <1>1, <1>2
  <2>2. Clear(f, d + gt0, d + gt0 + nT)
    BY <1>5, <2>1, <1>1 DEF Clear
  <2> QED BY <1>4, <2>1, <2>2, PutBetween
<1> HIDE DEF e
<1>7. Clear(e, r + gt0, r + gt0 + nT)
  <2> SUFFICES ASSUME NEW s \in DOMAIN e
               PROVE  s + Length(e[s]) <= r + gt0 \/ s >= r + gt0 + nT
    BY DEF Clear
  <2>0. r + gt0 + nT = d
    BY <1>1, <1>2
  <2>1. CASE s \in DOMAIN D
    <3>1. s \in Nat /\ d + gt0 <= s
      BY <1>4, <2>1 DEF Within, IsFile
    <3> QED BY <1>1, <1>2, <2>0, <3>1
  <2>2. CASE s \in DOMAIN f
    <3>1. e[s] = f[s]
      BY <1>6, <2>2 DEF Keeps
    <3> QED BY <1>5, <2>0, <2>2, <3>1
  <2> QED BY <1>6, <2>1, <2>2
<1>8. /\ IsFile(g) /\ Packed(g) /\ Keeps(g, R) /\ Keeps(g, e)
  <2>1. r + gt0 \in Nat /\ r + gt0 + nT \in Nat
    BY <1>1, <1>2
  <2> QED BY <1>4, <1>6, <1>7, <2>1, PutBetween
<1> HIDE DEF g
<1>9. Keeps(g, f)
  BY <1>6, <1>8 DEF Keeps
<1>10. TablesAt(g, r, o)
  BY <1>4, <1>8 DEF TablesAt, Keeps
<1>11. TablesAt(g, d, o)
  BY <1>4, <1>6, <1>8 DEF TablesAt, Keeps
<1> QED BY <1>3, <1>8, <1>9, <1>10, <1>11 DEF g, r, d, h

----------------------------------------------------------------------------
(* The reader of a sparse extent.                                          *)

\* The entries of the grains of an extent of o bytes.
EntriesSet(o) ==
  [p \in 0..(numGrains(o) - 1) |-> IF p \in DOMAIN table THEN table[p] ELSE 0]

LEMMA TableEntry ==
  ASSUME NEW p \in Nat
  PROVE  TableAt(p \div GTEPERGT).entries[p % GTEPERGT] =
           IF p \in DOMAIN table THEN table[p] ELSE 0
<1> DEFINE i == p \div GTEPERGT
           e == p % GTEPERGT
<1>1. i \in Nat /\ e \in 0..(GTEPERGT - 1) /\ p = i * GTEPERGT + e
  BY GeometryIs, QuotientIs
<1> HIDE DEF i, e
<1> DEFINE m == i * GTEPERGT
<1>2. TableAt(i).entries =
        [x \in 0..(GTEPERGT - 1) |-> IF m + x \in DOMAIN table THEN table[m + x] ELSE 0]
  BY DEF TableAt, TableObj
<1>3. p = m + e
  BY <1>1
<1> HIDE DEF m
<1>4. TableAt(i).entries[e] = IF p \in DOMAIN table THEN table[p] ELSE 0
  BY <1>1, <1>2, <1>3
<1> QED BY <1>4 DEF i, e

LEMMA EntriesAre ==
  ASSUME NEW o, Sectored(o), NEW h, h.capacity = SECTORS(o),
         NEW g, NEW at \in Nat, g[at] = Directory(at, o), TablesAt(g, at, o)
  PROVE  Entries(g, h, at) = EntriesSet(o)
<1> DEFINE n == numGrains(o)
           dir == g[at].entries
<1>1. o \in Nat \ {0} /\ n \in Nat
  BY GrainsOf DEF Sectored
<1>2. DivCeil(h.capacity, GRAINSECTORS) = n
  BY SectoredGrains
<1>3. Entries(g, h, at) = [p \in 0..(n - 1) |-> g[dir[p \div GTEPERGT]].entries[p % GTEPERGT]]
  BY <1>2 DEF Entries
<1>4. ASSUME NEW p \in 0..(n - 1)
      PROVE  g[dir[p \div GTEPERGT]].entries[p % GTEPERGT] =
               IF p \in DOMAIN table THEN table[p] ELSE 0
  <2> DEFINE i == p \div GTEPERGT
             e == p % GTEPERGT
             t == TableAt(i)
  <2>1. i \in 0..(numGTs(o) - 1) /\ e \in 0..(GTEPERGT - 1)
    BY <1>1, TableOfGrain
  <2>2. t.entries[e] = IF p \in DOMAIN table THEN table[p] ELSE 0
    BY <1>1, TableEntry
  <2> HIDE DEF i, e, t
  <2>3. dir[i] = at + GT0Offset(numGTs(o)) + i * TableSectors
    BY <1>1, <2>1, DirectoryIs
  <2>4. g[at + GT0Offset(numGTs(o)) + i * TableSectors] = t
    BY <2>1 DEF TablesAt, t
  <2>5. g[dir[i]] = t
    BY <2>3, <2>4
  <2>6. g[dir[i]].entries[e] = t.entries[e]
    BY <2>5
  <2> QED BY <2>2, <2>6 DEF i, e
<1> HIDE DEF n, dir
<1>5. Entries(g, h, at) = [p \in 0..(n - 1) |-> IF p \in DOMAIN table THEN table[p] ELSE 0]
  BY <1>3, <1>4
<1> QED BY <1>5 DEF EntriesSet, n

\* The two directories lead to the same entries, and the entries to the grains.
LEMMA SparseReads ==
  ASSUME NEW type \in {Mono, TwoGb}, NEW o, Sectored(o), NEW first \in Nat, NEW f, NEW g,
         LET h == Header(type, o)
         IN  /\ Keeps(g, f) /\ TablesAt(g, h.rgdOffset, o) /\ TablesAt(g, h.gdOffset, o)
             /\ g[h.rgdOffset] = Directory(h.rgdOffset, o)
             /\ g[h.gdOffset] = Directory(h.gdOffset, o)
             /\ Entered(table, disk, size, f, first, numGrains(o), h.overHead)
  PROVE  LET h == Header(type, o)
         IN  /\ Restored(g, h) = Restores(first, numGrains(o))
             /\ Consistent(g, h)
<1> DEFINE h == Header(type, o)
           r == h.rgdOffset
           d == h.gdOffset
           n == numGrains(o)
           S == EntriesSet(o)
<1>1. o \in Nat \ {0} /\ n \in Nat
  BY GrainsOf DEF Sectored
<1>2. /\ r \in Nat /\ d \in Nat /\ h.overHead \in Nat /\ h.overHead > 0 /\ h.capacity = SECTORS(o)
  <2> DEFINE meta == GT0Offset(numGTs(o)) + numGTs(o) * TableSectors
  <2>1. /\ h.capacity = SECTORS(o) /\ r \in Nat /\ r >= 1 /\ meta \in Nat /\ d \in Nat
        /\ d = r + meta /\ h.overHead \in Nat /\ h.overHead >= d + meta
    BY <1>1, SparseHeaderIs
  <2> HIDE DEF h, r, d, meta
  <2> QED BY <2>1
<1>3. /\ Keeps(g, f) /\ TablesAt(g, r, o) /\ TablesAt(g, d, o)
      /\ g[r] = Directory(r, o) /\ g[d] = Directory(d, o)
      /\ Entered(table, disk, size, f, first, n, h.overHead)
  OBVIOUS
<1> HIDE DEF h, n
<1>4. Entries(g, h, r) = S /\ Entries(g, h, d) = S
  <2> HIDE DEF r, d, S
  <2>1. Entries(g, h, r) = EntriesSet(o)
    BY <1>2, <1>3, EntriesAre
  <2>2. Entries(g, h, d) = EntriesSet(o)
    BY <1>2, <1>3, EntriesAre
  <2> QED BY <2>1, <2>2 DEF S
<1>5. S = [p \in 0..(n - 1) |-> IF p \in DOMAIN table THEN table[p] ELSE 0]
  BY DEF EntriesSet, n
<1>6. /\ \A p \in 0..(n - 1) : p \in DOMAIN table <=> disk[first + p + 1]
      /\ \A p \in DOMAIN table : /\ table[p] \in Nat /\ table[p] > 0 /\ table[p] \in DOMAIN f
                                 /\ f[table[p]].src = first + p
                                 /\ f[table[p]].bytes = InGrain(size, first + p)
  <2>1. Entered(table, disk, size, f, first, n, h.overHead)
    BY <1>3
  <2>2. h.overHead \in Nat /\ h.overHead > 0
    BY <1>2
  <2> HIDE DEF S, r, d
  <2>3. DOMAIN table = {q \in 0..(n - 1) : disk[first + q + 1]}
    BY <2>1 DEF Entered
  <2>4. ASSUME NEW p \in DOMAIN table
        PROVE  /\ table[p] \in Nat /\ table[p] > 0 /\ table[p] \in DOMAIN f
               /\ f[table[p]].src = first + p /\ f[table[p]].bytes = InGrain(size, first + p)
    <3>1. /\ table[p] \in Nat /\ table[p] >= h.overHead /\ table[p] \in DOMAIN f
          /\ f[table[p]].src = first + p /\ f[table[p]].bytes = InGrain(size, first + p)
      BY <2>1 DEF Entered
    <3> QED BY <2>2, <3>1
  <2> QED BY <2>3, <2>4
<1> HIDE DEF S
<1>7. Restored(g, h) = Restores(first, n)
  <2>1. Restored(g, h) =
          [p \in 0..(n - 1) |-> IF S[p] = 0 THEN Blank
                                ELSE IF g[S[p]].bytes = GRAINSIZE THEN g[S[p]].src ELSE Aborted]
    <3>1. DOMAIN S = 0..(n - 1)
      BY <1>5
    <3> QED BY <1>4, <3>1 DEF Restored, d
  <2>2. ASSUME NEW p \in 0..(n - 1)
        PROVE  (IF S[p] = 0 THEN Blank
                ELSE IF g[S[p]].bytes = GRAINSIZE THEN g[S[p]].src ELSE Aborted) =
                 IF ~disk[first + p + 1] THEN Blank
                 ELSE IF InGrain(size, first + p) = GRAINSIZE THEN first + p ELSE Aborted
    <3>1. CASE p \in DOMAIN table
      <4>1. S[p] = table[p] /\ S[p] # 0
        BY <1>5, <1>6, <3>1
      <4>2. g[table[p]] = f[table[p]]
        BY <1>3, <1>6, <3>1 DEF Keeps
      <4> QED BY <1>6, <3>1, <4>1, <4>2
    <3>2. CASE p \notin DOMAIN table
      BY <1>5, <1>6, <3>2
    <3> QED BY <3>1, <3>2
  <2> QED BY <2>1, <2>2 DEF Restores
<1>8. Consistent(g, h)
  <2> DEFINE from == d + GT0Offset(numGTs(o))
  <2>1. h.capacity * SECTORSIZE = o
    BY <1>2 DEF Sectored
  <2>2. ASSUME NEW p \in DOMAIN S
        PROVE  LET t == from + (p \div GTEPERGT) * TableSectors
               IN  t \in DOMAIN g /\ g[t].entries[p % GTEPERGT] = S[p]
    <3> DEFINE i == p \div GTEPERGT
               e == p % GTEPERGT
               t == from + i * TableSectors
    <3>1. p \in 0..(n - 1) /\ p \in Nat
      BY <1>1, <1>5
    <3>2. i \in 0..(numGTs(o) - 1)
      BY <1>1, <3>1, TableOfGrain DEF n
    <3>3. t \in DOMAIN g /\ g[t] = TableAt(i)
      <4> HIDE DEF i
      <4> QED BY <1>3, <3>2 DEF TablesAt
    <3>4. TableAt(i).entries[e] = IF p \in DOMAIN table THEN table[p] ELSE 0
      BY <3>1, TableEntry
    <3>5. TableAt(i).entries[e] = S[p]
      BY <1>5, <3>1, <3>4
    <3> HIDE DEF i, e, t
    <3>6. t \in DOMAIN g /\ g[t].entries[e] = S[p]
      BY <3>3, <3>5
    <3> QED BY <3>6 DEF t, i, e
  <2> HIDE DEF from
  <2>3. numGTs(h.capacity * SECTORSIZE) = numGTs(o)
    BY <2>1
  <2> QED BY <1>4, <2>2, <2>3 DEF Consistent, from, r, d
<1> QED BY <1>7, <1>8 DEF h, n

----------------------------------------------------------------------------
(* Types.                                                                  *)

LEMMA OverHeadIs ==
  ASSUME size \in Sizes, Planned, NEW n \in 1..Len(outsizes)
  PROVE  /\ Sectored(outsizes[n]) /\ outsizes[n] \in Nat \ {0}
         /\ H(n).overHead \in Nat
         /\ vmdkType = Stream => H(n).overHead = GRAINSECTORS
         /\ vmdkType # Stream => vmdkType \in {Mono, TwoGb}
<1>1. vmdkType \in {Mono, TwoGb, Stream} /\ SplitsUp(outsizes, size)
  BY PlanIs
<1>2. Sectored(outsizes[n])
  BY <1>1 DEF SplitsUp
<1>3. outsizes[n] \in Nat \ {0}
  BY <1>2 DEF Sectored
<1>4. vmdkType = Stream => H(n).overHead = GRAINSECTORS
  BY DEF H, Header
<1>5. vmdkType # Stream => H(n).overHead \in Nat
  <2>1. vmdkType # Stream => vmdkType \in {Mono, TwoGb}
    BY <1>1
  <2> QED BY <1>3, <2>1, SparseHeaderIs DEF H
<1> QED BY <1>1, <1>2, <1>3, <1>4, <1>5, GeometryIs

LEMMA PrologueHasHeader ==
  ASSUME NEW h PROVE 0 \in DOMAIN Prologue(h)
BY DEF Prologue, At, Over

\* What the sectors of a finished directory are.
LEMMA BlocksOf ==
  ASSUME NEW n \in Nat \ {0}
  PROVE  /\ DivCeil(n, GRAINSECTORS) \in Nat \ {0}
         /\ gdSize(n) = GRAINSECTORS * DivCeil(n, GRAINSECTORS)
         /\ gdSize(n) \in Nat \ {0}
         /\ gdSize(n) \div GRAINSECTORS = DivCeil(n, GRAINSECTORS)
         /\ n <= gdSize(n)
<1> DEFINE b == DivCeil(n, GRAINSECTORS)
           G == GRAINSECTORS
<1>1. G \in Nat \ {0}
  BY GeometryIs
<1>2. b \in Nat /\ b * G >= n /\ b * G = G * b
  BY <1>1, Rounded
<1>3. gdSize(n) = G * b
  BY DEF gdSize
<1> HIDE DEF b, G
<1>4. b # 0
  BY <1>1, <1>2
<1>5. G * b \in Nat \ {0} /\ G * b = b * G + 0 /\ 0 \in 0..(G - 1)
  BY <1>1, <1>2, <1>4
<1> DEFINE z == gdSize(n)
<1>6. z \in Nat /\ z = b * G + 0
  BY <1>3, <1>5
<1> HIDE DEF z
<1>7. b = z \div G
  BY <1>1, <1>2, <1>5, <1>6, QuotientIs
<1> QED BY <1>2, <1>3, <1>4, <1>5, <1>7 DEF z, b, G

LEMMA TypeInit == Init => TypeInv
<1> SUFFICES ASSUME Init PROVE TypeInv
  OBVIOUS
<1>1. Len(<<>>) = 0 /\ <<>> = [n \in 1..0 |-> <<>>[n]] /\ <<>> \in Seq(BOOLEAN)
  OBVIOUS
<1>2. Listed(<<>>)
  BY <1>1 DEF Listed
<1> QED BY <1>1, <1>2 DEF Init, TypeInv, Copying, fileNo

LEMMA TypeStep == TypeInv /\ [Next]_vars => TypeInv'
<1> SUFFICES ASSUME TypeInv, [Next]_vars PROVE TypeInv'
  OBVIOUS
<1> USE DEF fileNo, Copying
<1>1. /\ size \in Sizes /\ disk \in Seq(BOOLEAN) /\ Listed(files) /\ lba \in Nat /\ pos \in Nat
      /\ Len(files) <= Len(outsizes) /\ Len(files) \in Nat
      /\ pc # "open" => Planned
  BY DEF TypeInv, Listed
<1>2. CASE PlanExtents
  <2>1. /\ pc = "open" /\ vmdkType \in {Mono, Stream} /\ files = <<>>
    BY <1>2 DEF TypeInv, PlanExtents
  <2>2. Planned'
    BY <1>2, <2>1 DEF PlanExtents, Planned, Mono, Stream, TwoGb
  <2>3. size' \in Sizes /\ pc' = "header" /\ UNCHANGED <<disk, files, lba, pos>>
    BY <1>1, <1>2 DEF PlanExtents
  <2>4. Len(outsizes') \in Nat
    <3> DEFINE o == PAD(size, SECTORSIZE)
    <3>1. Sectored(o)
      BY <1>1, GeometryIs, PaddedSize
    <3>2. outsizes' = <<o>> \/ outsizes' = ExtentSizes(o)
      BY <1>2 DEF PlanExtents
    <3> HIDE DEF o
    <3>3. Len(<<o>>) \in Nat /\ Len(ExtentSizes(o)) \in Nat
      BY <3>1, ManyExtents DEF SplitsUp
    <3> QED BY <3>2, <3>3
  <2> QED BY <1>1, <2>1, <2>2, <2>3, <2>4 DEF TypeInv, Listed
<1>3. CASE OpenExtent
  <2> DEFINE n == fileNo + 1
             h == Header(vmdkType, outsizes[n])
  <2>1. /\ pc = "header" /\ n \in 1..Len(outsizes) /\ files' = Append(files, Prologue(h))
        /\ pos' = h.overHead /\ lba' = 0 /\ pc' = "copy"
        /\ UNCHANGED <<vmdkType, size, disk, outsizes, faults>>
    <3>1. Len(outsizes) \in Nat
      BY <1>1, <1>3, PlanIs DEF SplitsUp, OpenExtent
    <3> QED BY <1>1, <1>3, <3>1 DEF OpenExtent
  <2>2. h.overHead \in Nat
    BY <1>1, <2>1, OverHeadIs DEF H
  <2>3. /\ Listed(files') /\ Len(files') = n /\ 0 \in DOMAIN files'[n]
    <3>1. /\ Listed(Append(files, Prologue(h))) /\ Len(Append(files, Prologue(h))) = Len(files) + 1
          /\ Append(files, Prologue(h))[Len(files) + 1] = Prologue(h)
      BY <1>1, ListedAppend
    <3> QED BY <2>1, <3>1, PrologueHasHeader
  <2>4. Planned'
    BY <1>1, <2>1 DEF Planned, ExtentSizes
  <2> HIDE DEF n, h
  <2>5. n \in Nat /\ n >= 1 /\ n <= Len(outsizes)
    BY <1>1, <2>1 DEF n
  <2> QED BY <1>1, <2>1, <2>2, <2>3, <2>4, <2>5 DEF TypeInv, Current
<1>4. CASE OpenFails
  <2>1. /\ pc = "header" /\ files' = Append(files, <<>>) /\ Len(files) < Len(outsizes)
        /\ UNCHANGED <<vmdkType, size, disk, outsizes, lba, pos, pc>>
    BY <1>4 DEF OpenFails
  <2>2. Listed(files') /\ Len(files') = Len(files) + 1
    <3>1. Listed(Append(files, <<>>)) /\ Len(Append(files, <<>>)) = Len(files) + 1
      BY <1>1, ListedAppend
    <3> QED BY <2>1, <3>1
  <2>3. Planned'
    BY <1>1, <2>1 DEF Planned, ExtentSizes
  <2>4. Len(outsizes) \in Nat
    BY <1>1, <2>1, PlanIs DEF SplitsUp
  <2> QED BY <1>1, <2>1, <2>2, <2>3, <2>4 DEF TypeInv
<1>5. ASSUME NEW f, pc \in {"copy", "table", "finish"}, 0 \in DOMAIN f
      PROVE  LET t == Written(files, f)
             IN  Listed(t) /\ Len(t) = Len(files) /\ 0 \in DOMAIN t[Len(t)]
  <2>1. Len(files) >= 1
    BY <1>1, <1>5 DEF TypeInv
  <2>2. LastIs(Written(files, f), files, f)
    BY <1>1, <2>1, Rewritten
  <2> QED BY <1>5, <2>2 DEF LastIs
<1>6. pc \in {"copy", "table", "finish"} =>
        \A g : 0 \in DOMAIN Over(g, Current)
  BY DEF TypeInv, Over
<1>7. CASE \E data, written \in BOOLEAN : CopyGrain(data, written)
  <2> PICK data \in BOOLEAN, written \in BOOLEAN : CopyGrain(data, written)
    BY <1>7
  <2>1. /\ pc = "copy" /\ disk' = Append(disk, data) /\ lba' = lba + 1
        /\ UNCHANGED <<vmdkType, size, outsizes, pc>>
        /\ pos' \in {pos, pos + GRAINSECTORS}
    BY DEF CopyGrain
  <2>2. Listed(files') /\ Len(files') = Len(files) /\ 0 \in DOMAIN Current'
    <3>1. CASE files' = files
      BY <1>1, <2>1, <3>1 DEF TypeInv, Current
    <3>2. CASE data /\ written
      <4> DEFINE f == Over(At(pos, GrainObj(lba, DivCeil(Chunk, SECTORSIZE))), Current)
      <4>1. files' = Written(files, f)
        BY <3>2 DEF Written, CopyGrain, Current
      <4>2. 0 \in DOMAIN f
        BY <1>6, <2>1
      <4> HIDE DEF f
      <4> QED BY <1>5, <2>1, <4>1, <4>2 DEF Current
    <3> QED BY <3>1, <3>2 DEF CopyGrain
  <2>3. disk' \in Seq(BOOLEAN) /\ pos' \in Nat
    <3>1. Append(disk, data) \in Seq(BOOLEAN)
      BY <1>1, AppendProperties
    <3> QED BY <1>1, <2>1, <3>1, GeometryIs
  <2>4. Planned'
    BY <1>1, <2>1 DEF Planned, ExtentSizes
  <2> QED BY <1>1, <2>1, <2>2, <2>3, <2>4 DEF TypeInv
<1>8. CASE EndExtent
  <2>1. /\ pc = "copy" /\ pc' = "header"
        /\ UNCHANGED <<vmdkType, size, disk, outsizes, lba, pos>>
    BY <1>8 DEF EndExtent
  <2> DEFINE f == Over(Tables(Hdr, Outsize), Current)
  <2>2. files' = Written(files, f)
    BY <1>8 DEF Written, EndExtent, Current
  <2>3. 0 \in DOMAIN f
    BY <1>6, <2>1
  <2> HIDE DEF f
  <2>4. Listed(files') /\ Len(files') = Len(files)
    BY <1>5, <2>1, <2>2, <2>3
  <2>5. Planned'
    BY <1>1, <2>1 DEF Planned, ExtentSizes
  <2> QED BY <1>1, <2>1, <2>4, <2>5 DEF TypeInv
<1>9. CASE \E data \in BOOLEAN, n \in {1, GRAINSECTORS + 1} : CompressGrain(data, n)
  <2> PICK data \in BOOLEAN, n \in {1, GRAINSECTORS + 1} : CompressGrain(data, n)
    BY <1>9
  <2>1. /\ pc = "copy" /\ vmdkType = Stream /\ disk' \in {disk, Append(disk, data)}
        /\ lba' = lba + 1 /\ pc' \in {"table", "copy"}
        /\ UNCHANGED <<vmdkType, size, outsizes>> /\ pos' \in {pos, pos + n}
    BY DEF CompressGrain, Behind
  <2>2. Listed(files') /\ Len(files') = Len(files) /\ 0 \in DOMAIN Current'
    <3>1. CASE files' = files
      BY <1>1, <2>1, <3>1 DEF TypeInv, Current
    <3>2. CASE data
      <4> DEFINE f == Over(At(pos, GrainObj(lba, n)), Current)
      <4>1. files' = Written(files, f)
        BY <3>2 DEF Written, CompressGrain, Current
      <4>2. 0 \in DOMAIN f
        BY <1>6, <2>1
      <4> HIDE DEF f
      <4> QED BY <1>5, <2>1, <4>1, <4>2 DEF Current
    <3> QED BY <3>1, <3>2 DEF CompressGrain
  <2>3. disk' \in Seq(BOOLEAN) /\ pos' \in Nat
    <3>1. Append(disk, data) \in Seq(BOOLEAN)
      BY <1>1, AppendProperties
    <3>2. n \in Nat
      BY GeometryIs
    <3>3. pos \in Nat /\ disk \in Seq(BOOLEAN)
      BY <1>1 DEF TypeInv
    <3>4. disk' \in Seq(BOOLEAN)
      BY <2>1, <3>1, <3>3
    <3>5. pos' \in Nat
      BY <2>1, <3>2, <3>3
    <3> QED BY <3>4, <3>5
  <2>4. Planned'
    BY <1>1, <2>1 DEF Planned, ExtentSizes
  <2> QED BY <1>1, <2>1, <2>2, <2>3, <2>4 DEF TypeInv
<1>10. CASE CloseTable
  <2> DEFINE gtNum == (lba - 1) \div GTEPERGT
  <2>1. /\ pc = "table" /\ vmdkType = Stream /\ pc' \in {"copy", "finish"}
        /\ UNCHANGED <<vmdkType, size, disk, outsizes, lba>>
        /\ pos' \in {pos, pos + 1 + TableSectors}
    BY <1>10 DEF CloseTable, TypeInv
  <2>2. Listed(files') /\ Len(files') = Len(files) /\ 0 \in DOMAIN Current'
    <3>1. CASE files' = files
      BY <1>1, <2>1, <3>1 DEF TypeInv, Current
    <3>2. CASE DOMAIN table # {}
      <4> DEFINE e == Over(At(pos, MarkerObj("GT", TableSectors)), Current)
                 f == Over(At(pos + 1, TableAt(gtNum)), e)
      <4>1. files' = Written(files, f)
        BY <1>10, <3>2 DEF Written, CloseTable, Current
      <4>2. 0 \in DOMAIN e
        BY <1>6, <2>1
      <4> HIDE DEF e
      <4>3. 0 \in DOMAIN f
        BY <4>2 DEF Over
      <4> HIDE DEF f
      <4> QED BY <1>5, <2>1, <4>1, <4>3 DEF Current
    <3> QED BY <1>10, <3>1, <3>2 DEF CloseTable
  <2>3. pos' \in Nat
    BY <1>1, <2>1, GeometryIs
  <2>4. Planned'
    BY <1>1, <2>1 DEF Planned, ExtentSizes
  <2> HIDE DEF gtNum
  <2> QED BY <1>1, <2>1, <2>2, <2>3, <2>4 DEF TypeInv
<1>11. CASE Finish
  <2> DEFINE sectors == gdSize(numGTs(Outsize)) \div GRAINSECTORS
  <2>1. /\ pc = "finish" /\ pc' = "header" /\ pos' = pos + 4 + sectors /\ vmdkType = Stream
        /\ UNCHANGED <<vmdkType, size, disk, outsizes, lba>>
    BY <1>11 DEF Finish, TypeInv
  <2>2. sectors \in Nat
    <3>1. Len(files) \in 1..Len(outsizes)
      <4>1. Len(outsizes) \in Nat
        BY <1>1, <2>1, PlanIs DEF SplitsUp
      <4> QED BY <1>1, <2>1, <4>1 DEF TypeInv
    <3>2. Outsize \in Nat \ {0}
      BY <1>1, <2>1, <3>1, OverHeadIs DEF Outsize
    <3>3. numGTs(Outsize) \in Nat \ {0}
      BY <3>2, GrainsOf
    <3> QED BY <3>3, BlocksOf
  <2>3. Listed(files') /\ Len(files') = Len(files)
    <3> DEFINE dir == DirObj([i \in 0..(gdSize(numGTs(Outsize)) - 1) |->
                                IF i \in DOMAIN gd THEN gd[i] ELSE 0])
               footer == [Hdr EXCEPT !.gdOffset = pos + 1]
               a == Over(At(pos, MarkerObj("GD", sectors)), Current)
               b == Over(At(pos + 1, dir), a)
               c == Over(At(pos + 1 + sectors, MarkerObj("FOOTER", 1)), b)
               d == Over(At(pos + 2 + sectors, HeaderObj(footer)), c)
               f == Over(At(pos + 3 + sectors, MarkerObj("EOS", 0)), d)
    <3>1. files' = Written(files, f)
      BY <1>11 DEF Written, Finish, Current
    <3>2. 0 \in DOMAIN a
      BY <1>6, <2>1
    <3> HIDE DEF a
    <3>3. 0 \in DOMAIN f
      BY <3>2 DEF Over
    <3> HIDE DEF f
    <3> QED BY <1>5, <2>1, <3>1, <3>3
  <2>4. Planned'
    BY <1>1, <2>1 DEF Planned, ExtentSizes
  <2> HIDE DEF sectors
  <2> QED BY <1>1, <2>1, <2>2, <2>3, <2>4 DEF TypeInv
<1>12. CASE WriteFails \/ Exit \/ Exited \/ UNCHANGED vars
  <2>1. UNCHANGED <<vmdkType, size, disk, outsizes, files, lba, pos, faults>>
    BY <1>12 DEF WriteFails, Exit, Exited, vars
  <2>2. pc # "open" => Planned'
    BY <1>1, <2>1 DEF Planned, ExtentSizes
  <2>3. \/ pc' = pc
        \/ pc' = "exit1" /\ pc # "open" /\ vmdkType = Stream
        \/ pc' = "exit0" /\ pc # "open" /\ fileNo = Len(outsizes)
    BY <1>12 DEF WriteFails, Exit, Exited, vars
  <2>4. Current' = Current
    BY <2>1 DEF Current
  <2> QED BY <2>1, <2>2, <2>3, <2>4 DEF TypeInv, Listed
<1> QED BY <1>2, <1>3, <1>4, <1>7, <1>8, <1>9, <1>10, <1>11, <1>12 DEF Next

----------------------------------------------------------------------------
(* The steps that write a sparse extent.                                   *)

Rest == FilesInv /\ SparseInv /\ SparseDoneInv /\ StreamInv /\ StreamDoneInv

\* The extent that is being written.
LEMMA CurrentIs ==
  ASSUME TypeInv, Copying
  PROVE  /\ fileNo \in 1..Len(outsizes) /\ fileNo \in Nat /\ Planned /\ size \in Sizes
         /\ Listed(files) /\ Len(files) >= 1 /\ Len(disk) \in Nat
         /\ Sectored(Outsize) /\ Outsize \in Nat \ {0} /\ Outsize = outsizes[fileNo]
         /\ numGrains(Outsize) \in Nat /\ Before(fileNo) \in Nat
         /\ pos \in Nat /\ lba \in Nat /\ 0 \in DOMAIN Current
<1>1. size \in Sizes /\ Planned /\ Listed(files) /\ fileNo <= Len(outsizes) /\ fileNo >= 1
      /\ disk \in Seq(BOOLEAN) /\ pos \in Nat /\ lba \in Nat /\ 0 \in DOMAIN Current
  BY DEF TypeInv, Copying
<1>2. SplitsUp(outsizes, size)
  BY <1>1, PlanIs
<1>3. fileNo \in 1..Len(outsizes) /\ fileNo \in Nat /\ Len(disk) \in Nat
  BY <1>1, <1>2 DEF SplitsUp, Listed, fileNo
<1>4. Sectored(Outsize) /\ Before(fileNo) \in Nat
  BY <1>2, <1>3 DEF SplitsUp, Outsize
<1>5. Outsize \in Nat \ {0}
  BY <1>4 DEF Sectored
<1> QED BY <1>1, <1>3, <1>4, <1>5, GrainsOf DEF Outsize, fileNo

LEMMA FileKept ==
  ASSUME NEW n, FileInv(n), files'[n] = files[n], UNCHANGED <<vmdkType, outsizes>>,
         faults' = {} => faults = {}
  PROVE  FileInv(n)'
<1>1. H(n)' = H(n)
  BY DEF H, Header
<1> QED BY <1>1 DEF FileInv

LEMMA SparseKept ==
  ASSUME NEW n \in Nat, SparseDone(n), files'[n] = files[n],
         UNCHANGED <<vmdkType, size, outsizes>>,
         NEW k \in Nat, Before(n) \in Nat, numGrains(outsizes[n]) \in Nat,
         Before(n) + numGrains(outsizes[n]) <= k, \A j \in 1..k : disk'[j] = disk[j]
  PROVE  SparseDone(n)'
<1>1. H(n)' = H(n)
  BY DEF H, Header
<1>2. Restores(Before(n), numGrains(outsizes[n]))' = Restores(Before(n), numGrains(outsizes[n]))
  <2> DEFINE b == Before(n)
             m == numGrains(outsizes[n])
             C(d) == [p \in 0..(m - 1) |->
                        IF ~d[b + p + 1] THEN Blank
                        ELSE IF InGrain(size, b + p) = GRAINSIZE THEN b + p ELSE Aborted]
  <2>1. /\ Restores(Before(n), numGrains(outsizes[n])) = C(disk)
        /\ Restores(Before(n), numGrains(outsizes[n]))' = C(disk')
    BY DEF Restores, InGrain, Before
  <2>2. b \in Nat /\ m \in Nat /\ b + m <= k
    OBVIOUS
  <2> HIDE DEF b, m
  <2>3. \A p \in 0..(m - 1) : b + p + 1 \in 1..k
    BY <2>2
  <2>4. \A p \in 0..(m - 1) : disk'[b + p + 1] = disk[b + p + 1]
    BY <2>3
  <2>5. C(disk') = C(disk)
    BY <2>4
  <2> QED BY <2>1, <2>5
<1> QED BY <1>1, <1>2 DEF SparseDone

LEMMA BeforeMonotone ==
  ASSUME NEW m \in Nat, NEW n \in Nat, m <= n
  PROVE  Before(m) <= Before(n)
<1> DEFINE M == MaxExtent \div GRAINSIZE
<1>1. M \in Nat
  BY GeometryIs
<1> HIDE DEF M
<1>2. (m - 1) * M <= (n - 1) * M
  BY <1>1
<1> QED BY <1>2 DEF Before, M

\* The extents that are done stay done while grains are read.
LEMMA EarlierKept ==
  ASSUME TypeInv, pc = "copy", vmdkType # Stream, SparseDoneInv, faults = {},
         Before(fileNo) <= Len(disk),
         \A n \in 1..(fileNo - 1) : files'[n] = files[n],
         \A i \in 1..Len(disk) : disk'[i] = disk[i],
         UNCHANGED <<vmdkType, size, outsizes>>
  PROVE  \A n \in 1..(fileNo - 1) : SparseDone(n)'
<1>1. /\ fileNo \in 1..Len(outsizes) /\ fileNo \in Nat /\ Len(disk) \in Nat
      /\ Planned /\ size \in Sizes
  BY CurrentIs DEF Copying
<1>2. SplitsUp(outsizes, size)
  BY <1>1, PlanIs
<1> SUFFICES ASSUME NEW n \in 1..(fileNo - 1) PROVE SparseDone(n)'
  OBVIOUS
<1>3. n \in Nat /\ n \in 1..Len(outsizes) /\ n < Len(outsizes) /\ n + 1 <= fileNo
  BY <1>1, <1>2 DEF SplitsUp
<1>4. /\ Before(n) \in Nat /\ Sectored(outsizes[n])
      /\ Before(n) + numGrains(outsizes[n]) = Before(n + 1)
  BY <1>2, <1>3 DEF SplitsUp
<1>5. numGrains(outsizes[n]) \in Nat /\ Before(n + 1) <= Before(fileNo)
      /\ Before(n + 1) \in Nat /\ Before(fileNo) \in Nat
  <2>1. n + 1 \in 1..Len(outsizes)
    BY <1>2, <1>3 DEF SplitsUp
  <2>2. Before(n + 1) \in Nat /\ Before(fileNo) \in Nat
    BY <1>1, <1>2, <2>1 DEF SplitsUp
  <2>3. numGrains(outsizes[n]) \in Nat
    BY <1>4, GrainsOf DEF Sectored
  <2>4. Before(n + 1) <= Before(fileNo)
    BY <1>1, <1>3, BeforeMonotone
  <2> QED BY <2>2, <2>3, <2>4
<1>6. Before(n) + numGrains(outsizes[n]) <= Len(disk)
  BY <1>1, <1>4, <1>5
<1>7. SparseDone(n) /\ files'[n] = files[n]
  BY DEF SparseDoneInv
<1> QED BY <1>1, <1>3, <1>4, <1>5, <1>6, <1>7, SparseKept

\* A grain is not longer than GRAINSECTORS.
LEMMA ChunkSectors ==
  ASSUME BytesLeft \in Int, BytesLeft > 0
  PROVE  DivCeil(Chunk, SECTORSIZE) \in 1..GRAINSECTORS
<1> DEFINE c == Chunk
           w == DivCeil(c, SECTORSIZE)
<1>1. /\ SECTORSIZE \in Nat \ {0} /\ GRAINSECTORS \in Nat \ {0} /\ GRAINSIZE \in Nat \ {0}
      /\ GRAINSIZE = GRAINSECTORS * SECTORSIZE
  BY GeometryIs
<1>2. c \in Nat /\ c > 0 /\ c <= GRAINSIZE
  BY <1>1, MinOfTwo DEF Chunk
<1> HIDE DEF c
<1>3. w \in Nat /\ \A k \in Nat : k * SECTORSIZE < c <=> k < w
  BY <1>1, <1>2, Rounded
<1>4. 0 * SECTORSIZE < c /\ ~(GRAINSECTORS * SECTORSIZE < c)
  BY <1>1, <1>2
<1>5. 0 < w /\ ~(GRAINSECTORS < w)
  <2> HIDE DEF w
  <2>1. 0 < w
    BY <1>3, <1>4
  <2>2. ~(GRAINSECTORS < w)
    BY <1>1, <1>3, <1>4
  <2> QED BY <2>1, <2>2
<1> HIDE DEF w
<1>6. w \in 1..GRAINSECTORS
  BY <1>1, <1>3, <1>5
<1> QED BY <1>6 DEF w, c

LEMMA CopyGrainStep ==
  ASSUME TypeInv, Rest, NEW data \in BOOLEAN, NEW written \in BOOLEAN, CopyGrain(data, written)
  PROVE  Rest'
<1> DEFINE n == fileNo
           f == Current
           h == H(n)
           o == Outsize
           first == Before(n)
           ob == GrainObj(lba, DivCeil(Chunk, SECTORSIZE))
           f1 == Over(At(pos, ob), f)
<1>1. /\ pc = "copy" /\ vmdkType # Stream /\ lba < numGrains(o) /\ BytesLeft > 0
      /\ ~written => data /\ faults = {}
      /\ disk' = Append(disk, data) /\ lba' = lba + 1
      /\ UNCHANGED <<vmdkType, size, outsizes, gd, pc>>
      /\ faults' = IF written THEN faults ELSE faults \cup {"write"}
  BY DEF CopyGrain
<1>2. /\ n \in 1..Len(outsizes) /\ n \in Nat /\ Planned /\ size \in Sizes
      /\ Listed(files) /\ Len(files) >= 1 /\ Len(disk) \in Nat
      /\ o \in Nat \ {0} /\ numGrains(o) \in Nat /\ first \in Nat
      /\ pos \in Nat /\ lba \in Nat
  BY <1>1, CurrentIs DEF Copying
<1>3. disk \in Seq(BOOLEAN) /\ n = Len(files)
  BY DEF TypeInv, fileNo
<1>4. /\ lba <= numGrains(o) /\ pos >= h.overHead /\ EndsBy(f, pos) /\ RoomForTables(f, h, o)
      /\ {h.rgdOffset, h.gdOffset} \subseteq DOMAIN f
      /\ f[h.rgdOffset] = Directory(h.rgdOffset, o) /\ f[h.gdOffset] = Directory(h.gdOffset, o)
      /\ faults = {} => /\ Len(disk) = first + lba
                        /\ Entered(table, disk, size, f, first, lba, h.overHead)
  BY <1>1 DEF Rest, SparseInv
<1>5. IsFile(f) /\ Packed(f) /\ (0 \in DOMAIN f => f[0] = HeaderObj(h))
      /\ FileInv(n)
  <2>1. FileInv(n)
    <3>1. n \in 1..n
      BY <1>2
    <3> HIDE DEF n
    <3> QED BY <3>1 DEF Rest, FilesInv, n
  <2> QED BY <2>1 DEF FileInv, Current
<1>6. DivCeil(Chunk, SECTORSIZE) \in 1..GRAINSECTORS /\ GRAINSECTORS \in Nat
  <2>1. BytesLeft \in Int
    BY <1>2, GeometryIs DEF BytesLeft
  <2> QED BY <1>1, <2>1, ChunkSectors, GeometryIs
<1>7. /\ Length(ob) = DivCeil(Chunk, SECTORSIZE) /\ ob.src = Len(disk)
      /\ ob.bytes = InGrain(size, Len(disk))
  BY LengthIs DEF GrainObj, Chunk, BytesLeft, InGrain
<1>8. /\ h.overHead \in Nat /\ h.overHead >= h.gdOffset /\ h.gdOffset \in Nat
  <2>1. vmdkType \in {Mono, TwoGb}
    BY <1>1, <1>2, OverHeadIs
  <2> DEFINE meta == GT0Offset(numGTs(o)) + numGTs(o) * TableSectors
  <2>2. h = Header(vmdkType, o)
    BY DEF H, Outsize
  <2>3. meta \in Nat /\ h.gdOffset \in Nat /\ h.overHead \in Nat /\ h.overHead >= h.gdOffset + meta
    BY <1>2, <2>1, <2>2, SparseHeaderIs
  <2> HIDE DEF meta, h
  <2> QED BY <2>3
<1>9. UNCHANGED <<n, h, o, first>>
  <2>1. Len(files') = Len(files)
    <3>1. LastIs(Written(files, f1), files, f1)
      BY <1>2, Rewritten
    <3>2. files' = files \/ files' = Written(files, f1)
      BY DEF CopyGrain, Written, Current, fileNo
    <3> QED BY <3>1, <3>2 DEF LastIs
  <2>2. n' = n
    BY <2>1 DEF fileNo
  <2> HIDE DEF n
  <2>3. o' = o
    BY <1>1, <2>2 DEF Outsize, n
  <2> QED BY <1>1, <2>2, <2>3 DEF H, Header, Before
<1>10. /\ Len(disk') = Len(disk) + 1 /\ disk'[Len(disk) + 1] = data
       /\ \A i \in 1..Len(disk) : disk'[i] = disk[i]
  BY <1>1, <1>3, AppendProperties
<1> HIDE DEF h, o, first, ob
\* What is left to show of the file that is written to.
<1>11. ASSUME IsFile(f'), Packed(f'), EndsBy(f', pos'), pos' >= pos, pos' \in Nat, Keeps(f', f),
              \A s \in DOMAIN f' : s \in DOMAIN f \/ s = pos,
              \A i \in 1..(n - 1) : files'[i] = files[i],
              faults' = {} => Entered(table', disk', size', f', first, lba + 1, h.overHead)
       PROVE  Rest'
  <2>0. faults' = {} => faults = {}
    BY <1>1
  <2>1. FilesInv'
    <3>1. ASSUME NEW i \in 1..(n - 1) PROVE FileInv(i)'
      <4>1. FileInv(i)
        BY <1>2 DEF Rest, FilesInv
      <4> QED BY <1>1, <1>11, <2>0, <4>1, FileKept
    <3>2. ASSUME NEW i, i = n PROVE FileInv(i)'
      <4>1. files'[i] = f'
        BY <1>9, <3>2 DEF Current
      <4>2. 0 \in DOMAIN f' => f'[0] = HeaderObj(h)
        <5>1. 0 \in DOMAIN f
          BY <1>1, CurrentIs DEF Copying
        <5> QED BY <1>5, <1>11, <5>1 DEF Keeps
      <4>3. H(i)' = h
        BY <1>1, <3>2 DEF h, H, Header
      <4>4. 0 \in DOMAIN f'
        BY <1>1, <1>11, CurrentIs DEF Copying, Keeps
      <4> HIDE DEF n, f
      <4> QED BY <1>1, <1>11, <4>1, <4>2, <4>3, <4>4 DEF FileInv
    <3>4. ASSUME NEW i \in 1..n PROVE FileInv(i)'
      <4>1. i \in 1..(n - 1) \/ i = n
        BY <1>2
      <4>2. CASE i \in 1..(n - 1)
        BY <3>1, <4>2
      <4>3. CASE i = n
        BY <3>2, <4>3
      <4> QED BY <4>1, <4>2, <4>3
    <3> QED BY <1>9, <3>4 DEF FilesInv
  <2>2. SparseInv'
    <3>1. lba' <= numGrains(o) /\ pos' >= h.overHead
      BY <1>1, <1>2, <1>4, <1>8, <1>11
    <3>2. RoomForTables(f', h, o)
      <4>1. ASSUME NEW s \in DOMAIN f', s \in DOMAIN f PROVE f'[s] = f[s]
        BY <1>11, <4>1 DEF Keeps
      <4>2. pos >= h.gdOffset /\ pos >= h.overHead
        BY <1>2, <1>4, <1>8
      <4> HIDE DEF f
      <4> QED BY <1>4, <1>11, <4>1, <4>2 DEF RoomForTables
    <3>3. /\ {h.rgdOffset, h.gdOffset} \subseteq DOMAIN f'
          /\ f'[h.rgdOffset] = Directory(h.rgdOffset, o)
          /\ f'[h.gdOffset] = Directory(h.gdOffset, o)
      BY <1>4, <1>11 DEF Keeps
    <3>4. faults' = {} => /\ Len(disk') = first + lba'
                          /\ Entered(table', disk', size', f', first, lba', h.overHead)
      <4>1. faults' = {} => Len(disk) = first + lba
        BY <1>4, <2>0
      <4>2. Len(disk') = Len(disk) + 1 /\ lba' = lba + 1
        BY <1>1, <1>10
      <4>3. Len(disk) = first + lba => Len(disk') = first + lba'
        BY <1>2, <4>2
      <4> HIDE DEF f
      <4> QED BY <1>11, <4>1, <4>2, <4>3
    <3>5. /\ numGrains(Outsize)' = numGrains(o) /\ H(fileNo)' = h /\ Before(fileNo)' = first
          /\ RoomForTables(Current, H(fileNo), Outsize)' = RoomForTables(f', h, o)
          /\ Directory(h.rgdOffset, o)' = Directory(h.rgdOffset, o)
          /\ Directory(h.gdOffset, o)' = Directory(h.gdOffset, o)
          /\ Outsize' = o
          /\ Entered(table, disk, size, Current, first, lba, h.overHead)' =
               Entered(table', disk', size', f', first, lba', h.overHead)
      <4>1. h' = h /\ o' = o /\ first' = first
        BY <1>9
      <4> QED BY <1>9, <4>1 DEF h, o, first
    <3> HIDE DEF n
    <3>6. SparseInv' <=> (vmdkType' # Stream /\ pc' = "copy" =>
            /\ lba' <= numGrains(o) /\ pos' >= h.overHead
            /\ EndsBy(f', pos') /\ RoomForTables(f', h, o)
            /\ {h.rgdOffset, h.gdOffset} \subseteq DOMAIN f'
            /\ f'[h.rgdOffset] = Directory(h.rgdOffset, o)
            /\ f'[h.gdOffset] = Directory(h.gdOffset, o)
            /\ faults' = {} => /\ Len(disk') = first + lba'
                               /\ Entered(table', disk', size', f', first, lba', h.overHead))
      BY <3>5 DEF SparseInv
    <3> QED BY <1>11, <3>1, <3>2, <3>3, <3>4, <3>6
  <2>3. SparseDoneInv'
    <3>1. SUFFICES ASSUME faults' = {}
                   PROVE  \A i \in 1..(fileNo' - 1) : SparseDone(i)'
      BY <1>1 DEF SparseDoneInv
    <3>2. faults = {} /\ Before(fileNo) <= Len(disk)
      BY <1>2, <1>4, <2>0, <3>1 DEF first
    <3>3. \A i \in 1..(fileNo - 1) : SparseDone(i)'
      BY <1>1, <1>10, <1>11, <3>2, EarlierKept DEF Rest
    <3> QED BY <1>9, <3>3
  <2>4. StreamInv' /\ StreamDoneInv'
    BY <1>1 DEF StreamInv, StreamDoneInv
  <2> QED BY <2>1, <2>2, <2>3, <2>4 DEF Rest
<1>12. CASE data /\ written
  <2>1. /\ files' = Written(files, f1) /\ table' = Over(At(lba, pos), table)
        /\ pos' = pos + GRAINSECTORS /\ faults' = faults
    BY <1>12 DEF CopyGrain, Written, Entry, f1, ob, Current, fileNo
  <2>2. LastIs(files', files, f1)
    BY <1>2, <2>1, Rewritten
  <2>3. f' = f1
    BY <1>3, <1>9, <2>2 DEF LastIs, Current
  <2>4. Length(ob) \in Nat \ {0} /\ pos + Length(ob) <= pos' /\ pos' \in Nat /\ pos' >= pos
        /\ pos + Length(ob) \in Nat
    BY <1>2, <1>6, <1>7, <2>1
  <2>5. /\ pos \notin DOMAIN f /\ DOMAIN f1 = DOMAIN f \cup {pos} /\ f1[pos] = ob
        /\ Keeps(f1, f) /\ IsFile(f1) /\ Packed(f1) /\ EndsBy(f1, pos + Length(ob))
    <3> HIDE DEF f
    <3> QED BY <1>2, <1>4, <1>5, <2>4, PutBehind
  <2> HIDE DEF f1
  <2>6. EndsBy(f1, pos')
    BY <2>4, <2>5, EndsLater
  <2>7. faults' = {} => Entered(table', disk', size', f1, first, lba + 1, h.overHead)
    <3> SUFFICES ASSUME faults' = {}
                 PROVE  Entered(table', disk', size', f1, first, lba + 1, h.overHead)
      OBVIOUS
    <3>1. Len(disk) = first + lba /\ Entered(table, disk, size, f, first, lba, h.overHead)
      BY <1>4, <2>1
    <3>2. DOMAIN table = {g \in 0..(lba - 1) : disk[first + g + 1]}
      BY <3>1 DEF Entered
    <3>3. \A g \in 0..(lba - 1) : disk'[first + g + 1] = disk[first + g + 1]
      BY <1>2, <1>10, <3>1
    <3>4. disk'[first + lba + 1] = TRUE
      BY <1>2, <1>10, <1>12, <3>1
    <3>5. DOMAIN table' = DOMAIN table \cup {lba} /\ lba \notin DOMAIN table
          /\ table'[lba] = pos /\ \A g \in DOMAIN table : table'[g] = table[g]
      <4>1. lba \notin DOMAIN table
        BY <1>2, <3>2
      <4> QED BY <2>1, <4>1 DEF At, Over
    <3>6. DOMAIN table' = {g \in 0..((lba + 1) - 1) : disk'[first + g + 1]}
      <4>1. \A g \in 0..((lba + 1) - 1) : g \in 0..(lba - 1) \/ g = lba
        BY <1>2
      <4>2. \A g \in 0..(lba - 1) : g \in 0..((lba + 1) - 1)
        BY <1>2
      <4>3. lba \in 0..((lba + 1) - 1)
        BY <1>2
      <4> QED BY <3>2, <3>3, <3>4, <3>5, <4>1, <4>2, <4>3
    <3>7. ASSUME NEW g \in DOMAIN table'
          PROVE  /\ table'[g] \in Nat /\ table'[g] >= h.overHead /\ table'[g] \in DOMAIN f1
                 /\ f1[table'[g]].src = first + g
                 /\ f1[table'[g]].bytes = InGrain(size, first + g)
      <4>1. CASE g = lba
        BY <1>2, <1>4, <1>7, <2>5, <3>1, <3>5, <4>1
      <4>2. CASE g \in DOMAIN table
        <5>1. /\ table[g] \in Nat /\ table[g] >= h.overHead /\ table[g] \in DOMAIN f
              /\ f[table[g]].src = first + g /\ f[table[g]].bytes = InGrain(size, first + g)
          BY <3>1, <4>2 DEF Entered
        <5> QED BY <2>5, <3>5, <4>2, <5>1 DEF Keeps
      <4> QED BY <3>5, <4>1, <4>2
    <3>8. size' = size
      BY <1>1
    <3> QED BY <3>6, <3>7, <3>8 DEF Entered
  <2>8. \A i \in 1..(n - 1) : files'[i] = files[i]
    BY <1>3, <2>2 DEF LastIs
  <2>9. \A s \in DOMAIN f1 : s \in DOMAIN f \/ s = pos
    BY <2>5
  <2> HIDE DEF f, n
  <2> QED BY <1>11, <2>3, <2>4, <2>5, <2>6, <2>7, <2>8, <2>9
<1>13. CASE ~(data /\ written)
  <2>1. files' = files /\ f' = f
    BY <1>9, <1>13 DEF CopyGrain, Current
  <2>2. pos' \in {pos, pos + GRAINSECTORS} /\ pos' \in Nat /\ pos' >= pos
    BY <1>2, <1>6 DEF CopyGrain
  <2>3. EndsBy(f', pos')
    BY <1>2, <1>4, <1>5, <2>1, <2>2, EndsLater
  <2>4. Keeps(f', f) /\ (\A s \in DOMAIN f' : s \in DOMAIN f \/ s = pos)
    BY <2>1 DEF Keeps
  <2>5. faults' = {} => Entered(table', disk', size', f', first, lba + 1, h.overHead)
    <3> SUFFICES ASSUME faults' = {}
                 PROVE  Entered(table', disk', size', f', first, lba + 1, h.overHead)
      OBVIOUS
    <3>1. written /\ ~data /\ faults = {}
      BY <1>1, <1>13
    <3>2. /\ Len(disk) = first + lba /\ Entered(table, disk, size, f, first, lba, h.overHead)
          /\ table' = table
      BY <1>4, <3>1 DEF CopyGrain
    <3>3. \A g \in 0..(lba - 1) : disk'[first + g + 1] = disk[first + g + 1]
      BY <1>2, <1>10, <3>2
    <3>4. disk'[first + lba + 1] = FALSE
      BY <1>2, <1>10, <3>1, <3>2
    <3>5. DOMAIN table = {g \in 0..((lba + 1) - 1) : disk'[first + g + 1]}
      <4>1. \A g \in 0..((lba + 1) - 1) : g \in 0..(lba - 1) \/ g = lba
        BY <1>2
      <4>2. \A g \in 0..(lba - 1) : g \in 0..((lba + 1) - 1)
        BY <1>2
      <4>3. DOMAIN table = {g \in 0..(lba - 1) : disk[first + g + 1]}
        BY <3>2 DEF Entered
      <4> QED BY <3>3, <3>4, <4>1, <4>2, <4>3
    <3>6. size' = size
      BY <1>1
    <3> QED BY <2>1, <3>2, <3>5, <3>6 DEF Entered
  <2>6. \A i \in 1..(n - 1) : files'[i] = files[i]
    BY <2>1
  <2>7. IsFile(f') /\ Packed(f')
    BY <1>5, <2>1
  <2> HIDE DEF f, n
  <2> QED BY <1>11, <2>2, <2>3, <2>4, <2>5, <2>6, <2>7
<1> QED BY <1>12, <1>13

LEMMA EndExtentStep ==
  ASSUME TypeInv, Rest, EndExtent
  PROVE  Rest'
<1> DEFINE n == fileNo
           f == Current
           h == H(n)
           o == Outsize
           first == Before(n)
           f1 == Over(Tables(h, o), f)
<1>1. /\ pc = "copy" /\ vmdkType # Stream /\ pc' = "header"
      /\ lba = numGrains(o) \/ BytesLeft <= 0
      /\ UNCHANGED <<vmdkType, size, disk, outsizes, lba, table, gd, pos, faults>>
  BY DEF EndExtent
<1>2. /\ n \in 1..Len(outsizes) /\ n \in Nat /\ Planned /\ size \in Sizes
      /\ Listed(files) /\ Len(files) >= 1 /\ Len(disk) \in Nat /\ 0 \in DOMAIN f
      /\ o \in Nat \ {0} /\ numGrains(o) \in Nat /\ first \in Nat
      /\ pos \in Nat /\ lba \in Nat /\ Sectored(o)
  BY <1>1, CurrentIs DEF Copying
<1>3. n = Len(files) /\ n - 1 \in Nat /\ h = Header(vmdkType, o)
  BY <1>2 DEF fileNo, H, Outsize
<1>4. /\ lba <= numGrains(o) /\ RoomForTables(f, h, o)
      /\ {h.rgdOffset, h.gdOffset} \subseteq DOMAIN f
      /\ f[h.rgdOffset] = Directory(h.rgdOffset, o) /\ f[h.gdOffset] = Directory(h.gdOffset, o)
      /\ faults = {} => /\ Len(disk) = first + lba
                        /\ Entered(table, disk, size, f, first, lba, h.overHead)
  BY <1>1 DEF Rest, SparseInv
<1>5. FileInv(n) /\ IsFile(f) /\ Packed(f) /\ f[0] = HeaderObj(h)
  <2>1. FileInv(n)
    <3>1. n \in 1..n
      BY <1>2
    <3> HIDE DEF n
    <3> QED BY <3>1 DEF Rest, FilesInv, n
  <2> QED BY <1>2, <2>1 DEF FileInv, Current
<1>6. Hdr = h
  BY <1>5 DEF Hdr, HeaderObj
<1>7. vmdkType \in {Mono, TwoGb} /\ SplitsUp(outsizes, size)
  BY <1>1, <1>2, OverHeadIs, PlanIs
<1>8. files' = Written(files, f1)
  BY <1>6 DEF EndExtent, Written, fileNo, Current
<1>9. LastIs(files', files, f1)
  BY <1>2, <1>8, Rewritten
<1>10. n' = n /\ f' = f1 /\ \A i \in 1..(n - 1) : files'[i] = files[i]
  BY <1>3, <1>9 DEF LastIs, fileNo, Current
<1>11. /\ IsFile(f1) /\ Packed(f1) /\ Keeps(f1, f)
       /\ TablesAt(f1, h.rgdOffset, o) /\ TablesAt(f1, h.gdOffset, o)
  <2> HIDE DEF f, h, n
  <2> QED BY <1>2, <1>3, <1>4, <1>5, <1>7, WithTables
<1> HIDE DEF f1, o, first
<1>12. FilesInv'
  <2>1. ASSUME NEW i \in 1..(n - 1) PROVE FileInv(i)'
    <3>1. FileInv(i)
      BY <1>2 DEF Rest, FilesInv
    <3> QED BY <1>1, <1>10, <3>1, FileKept
  <2>2. ASSUME NEW i, i = n PROVE FileInv(i)'
    <3>1. files'[i] = f1 /\ H(i)' = h
      BY <1>1, <1>10, <2>2 DEF Current, h, H, Header
    <3>2. 0 \in DOMAIN f1 /\ f1[0] = HeaderObj(h)
      BY <1>2, <1>5, <1>11 DEF Keeps
    <3> HIDE DEF f, n, h
    <3> QED BY <1>1, <1>11, <3>1, <3>2 DEF FileInv
  <2>3. ASSUME NEW i \in 1..n PROVE FileInv(i)'
    <3>1. i \in 1..(n - 1) \/ i = n
      BY <1>2
    <3>2. CASE i \in 1..(n - 1)
      BY <2>1, <3>2
    <3>3. CASE i = n
      BY <2>2, <3>3
    <3> QED BY <3>1, <3>2, <3>3
  <2> QED BY <1>10, <2>3 DEF FilesInv
<1>13. ASSUME faults = {}
       PROVE  Len(disk) = first + numGrains(o) /\ lba = numGrains(o)
  <2>1. Len(disk) = first + lba
    BY <1>4, <1>13
  <2>2. BytesLeft > 0 <=> Len(disk) < numGrains(size)
    BY <1>2, <1>7, PlanIs, BytesLeftIs
  <2>3. first + numGrains(o) <= numGrains(size) /\ numGrains(size) \in Nat
    BY <1>2, <1>7, PlanIs DEF SplitsUp, first, o, Outsize
  <2>4. BytesLeft \in Int
    BY <1>2, GeometryIs DEF BytesLeft
  <2> QED BY <1>1, <1>2, <1>4, <2>1, <2>2, <2>3, <2>4
<1>14. SparseDoneInv'
  <2> SUFFICES ASSUME faults = {}
               PROVE  /\ Len(disk') = Before(n) + numGrains(outsizes[n])
                      /\ \A i \in 1..n : SparseDone(i)'
    <3>1. n # 0
      BY <1>2
    <3>2. /\ Before(n)' = Before(n) /\ outsizes'[n'] = outsizes[n]
          /\ numGrains(outsizes[n])' = numGrains(outsizes[n])
      BY <1>1, <1>10 DEF Before
    <3> HIDE DEF n
    <3> QED BY <1>1, <1>10, <3>1, <3>2 DEF SparseDoneInv, n
  <2>1. Len(disk') = Before(n) + numGrains(outsizes[n])
    BY <1>1, <1>13 DEF first, o, Outsize
  <2>2. ASSUME NEW i \in 1..(n - 1) PROVE SparseDone(i)'
    <3>1. Before(fileNo) <= Len(disk)
      BY <1>2, <1>13 DEF first
    <3>2. \A j \in 1..(fileNo - 1) : SparseDone(j)'
      BY <1>1, <1>10, <3>1, EarlierKept DEF Rest
    <3> QED BY <3>2
  <2>3. ASSUME NEW i, i = n PROVE SparseDone(i)'
    <3>1. files'[i] = f1 /\ H(i)' = h /\ disk' = disk /\ outsizes' = outsizes
      BY <1>1, <1>10, <2>3 DEF Current, h, H, Header
    <3>2. /\ f1[h.rgdOffset] = Directory(h.rgdOffset, o)
          /\ f1[h.gdOffset] = Directory(h.gdOffset, o)
      BY <1>4, <1>11 DEF Keeps
    <3>3. Entered(table, disk, size, f, first, numGrains(o), h.overHead)
      BY <1>4, <1>13
    <3>4. /\ Restored(f1, h) = Restores(first, numGrains(o))
          /\ Consistent(f1, h)
      <4> HIDE DEF f, h, n
      <4> QED BY <1>2, <1>3, <1>7, <1>11, <3>2, <3>3, SparseReads
    <3>5. Restores(Before(i), numGrains(outsizes[i]))' = Restores(first, numGrains(o))
      BY <1>1, <2>3, <3>1 DEF Restores, InGrain, first, o, Outsize, Before
    <3>6. SparseDone(i)' <=>
            /\ Restored(files'[i], H(i)') = Restores(Before(i), numGrains(outsizes[i]))'
            /\ Consistent(files'[i], H(i)')
      BY DEF SparseDone, Restored, Consistent, Entries
    <3> HIDE DEF f, h, n
    <3> QED BY <3>1, <3>4, <3>5, <3>6
  <2>4. ASSUME NEW i \in 1..n PROVE SparseDone(i)'
    <3>1. i \in 1..(n - 1) \/ i = n
      BY <1>2
    <3>2. CASE i \in 1..(n - 1)
      BY <2>2, <3>2
    <3>3. CASE i = n
      BY <2>3, <3>3
    <3> QED BY <3>1, <3>2, <3>3
  <2> QED BY <2>1, <2>4
<1>15. SparseInv' /\ StreamInv' /\ StreamDoneInv'
  BY <1>1 DEF SparseInv, StreamInv, StreamDoneInv
<1> QED BY <1>12, <1>14, <1>15 DEF Rest

----------------------------------------------------------------------------
(* The reader of a stream.                                                 *)

LEMMA LeastOf ==
  ASSUME NEW S \in SUBSET Nat, S # {}
  PROVE  \E i \in S : \A j \in S : i <= j
<1>1. PICK i \in S : \A j \in S : <<j, i>> \notin OpToRel(<, Nat)
  BY NatLessThanWellFounded, WFMin, Zenon
<1>2. ASSUME NEW j \in S PROVE i <= j
  <2>1. i \in Nat /\ j \in Nat
    BY <1>1
  <2>2. ~(j < i)
    BY <1>1, <2>1 DEF OpToRel
  <2> QED BY <2>1, <2>2
<1> QED BY <1>2

LEMMA SetInduction ==
  ASSUME NEW M, 0 \in M, \A n \in Nat : n \in M => n + 1 \in M
  PROVE  \A n \in Nat : n \in M
<1> SUFFICES ASSUME Nat \ M # {} PROVE FALSE
  OBVIOUS
<1>1. PICK i \in Nat \ M : \A j \in Nat \ M : i <= j
  BY LeastOf
<1>2. i # 0 /\ i - 1 \in Nat /\ i - 1 \in M
  BY <1>1
<1>3. (i - 1) + 1 = i
  BY <1>1
<1> QED BY <1>1, <1>2, <1>3

\* One turn of the reader, at the sector that is n behind the header.
Turn(f, r, n) ==
  IF f[0].header.overHead + n \in DOMAIN f THEN Read(f, r, f[0].header.overHead + n) ELSE r

\* The recursive function of the reader is defined by its turns.
LEMMA ReadingIs ==
  ASSUME NEW f, f[0].header.overHead \in Nat
  PROVE  /\ Reading(f)[0] = Unread
         /\ \A n \in Nat : Reading(f)[n + 1] = Turn(f, Reading(f)[n], n)
<1> DEFINE T(r, n) == Turn(f, r, n)
           Step(g, n) == IF n = 0 THEN Unread ELSE T(g[n - 1], n - 1)
           All(g) == [n \in Nat |-> IF n = 0 THEN Unread ELSE T(g[n - 1], n - 1)]
           read == CHOOSE g : g = All(g)
           First(g, m) == \A n \in 0..m : g[n] = Step(g, n)
           M == {m \in Nat : \E g : First(g, m)}
           best(n) == CHOOSE g : First(g, n)
           F == [n \in Nat |-> best(n)[n]]
<1>1. Reading(f) = read
  <2> DEFINE Raw(g) == [n \in Nat |->
                          IF n = 0 THEN Unread
                          ELSE IF f[0].header.overHead + n - 1 \in DOMAIN f
                               THEN Read(f, g[n - 1], f[0].header.overHead + n - 1)
                               ELSE g[n - 1]]
  <2>1. Reading(f) = CHOOSE g : g = Raw(g)
    BY DEF Reading
  <2>2. ASSUME NEW g PROVE Raw(g) = All(g)
    <3>1. \A n \in Nat : f[0].header.overHead + n - 1 = f[0].header.overHead + (n - 1)
      OBVIOUS
    <3> QED BY <3>1 DEF Turn
  <2> HIDE DEF Raw, All
  <2>3. \A g : g = Raw(g) <=> g = All(g)
    BY <2>2
  <2> QED BY <2>1, <2>3
<1>2. ASSUME NEW g PROVE \A n \in Nat : All(g)[n] = Step(g, n)
  OBVIOUS
<1> HIDE DEF T
<1>3. 0 \in M
  <2>1. First([n \in {0} |-> Unread], 0)
    OBVIOUS
  <2> QED BY <2>1
<1>4. ASSUME NEW m \in Nat, m \in M PROVE m + 1 \in M
  <2>1. PICK g : First(g, m)
    BY <1>4
  <2> DEFINE h == [n \in 0..(m + 1) |-> IF n = m + 1 THEN Step(g, m + 1) ELSE g[n]]
  <2>2. \A n \in 0..m : h[n] = g[n]
    OBVIOUS
  <2>3. h[m + 1] = Step(g, m + 1)
    <3> HIDE DEF Step
    <3> QED OBVIOUS
  <2> HIDE DEF h
  <2>4. ASSUME NEW n \in 0..(m + 1) PROVE h[n] = Step(h, n)
    <3>1. n # 0 => n - 1 \in 0..m
      OBVIOUS
    <3>2. n # 0 => h[n - 1] = g[n - 1]
      BY <2>2, <3>1
    <3>3. Step(h, n) = Step(g, n)
      BY <3>2
    <3>4. n \in 0..m \/ n = m + 1
      OBVIOUS
    <3> HIDE DEF Step
    <3> QED BY <2>1, <2>2, <2>3, <3>3, <3>4
  <2>5. First(h, m + 1)
    BY <2>4
  <2> QED BY <2>5
<1>5. \A m \in Nat : \E g : First(g, m)
  <2> HIDE DEF First
  <2>1. \A m \in Nat : m \in M
    <3> HIDE DEF M
    <3> QED BY <1>3, <1>4, SetInduction
  <2> QED BY <2>1
<1>6. ASSUME NEW g, NEW h, NEW m \in Nat, NEW k \in Nat, First(g, m), First(h, k)
      PROVE  \A n \in Nat : n <= m /\ n <= k => g[n] = h[n]
  <2> DEFINE E == {n \in Nat : n <= m /\ n <= k => g[n] = h[n]}
  <2>1. 0 \in E
    BY <1>6
  <2>2. ASSUME NEW n \in Nat, n \in E PROVE n + 1 \in E
    <3> SUFFICES ASSUME n + 1 <= m, n + 1 <= k PROVE g[n + 1] = h[n + 1]
      OBVIOUS
    <3>1. g[n] = h[n]
      BY <2>2
    <3>2. g[n + 1] = Step(g, n + 1) /\ h[n + 1] = Step(h, n + 1)
      <4> HIDE DEF Step
      <4> QED BY <1>6
    <3>3. Step(g, n + 1) = T(g[n], n) /\ Step(h, n + 1) = T(h[n], n)
      <4>1. n + 1 # 0 /\ (n + 1) - 1 = n
        OBVIOUS
      <4> QED BY <4>1
    <3> QED BY <3>1, <3>2, <3>3
  <2> HIDE DEF E
  <2>3. \A n \in Nat : n \in E
    BY <2>1, <2>2, SetInduction
  <2> QED BY <2>3 DEF E
<1>7. \A n \in Nat : First(best(n), n)
  <2> HIDE DEF First
  <2> QED BY <1>5
<1> HIDE DEF best
<1>8. ASSUME NEW n \in Nat PROVE F[n] = Step(F, n)
  <2>1. F[n] = best(n)[n] /\ (n # 0 => F[n - 1] = best(n - 1)[n - 1])
    OBVIOUS
  <2> HIDE DEF F
  <2>2. best(n)[n] = Step(best(n), n)
    <3> HIDE DEF Step
    <3>1. First(best(n), n) /\ n \in 0..n
      BY <1>7
    <3> QED BY <3>1
  <2>3. CASE n = 0
    BY <2>1, <2>2, <2>3
  <2>4. CASE n # 0
    <3>1. n - 1 \in Nat
      BY <2>4
    <3>2. First(best(n), n) /\ First(best(n - 1), n - 1)
      <4> HIDE DEF First
      <4> QED BY <1>7, <3>1
    <3>3. best(n)[n - 1] = best(n - 1)[n - 1]
      <4>1. \A j \in Nat : j <= n /\ j <= n - 1 => best(n)[j] = best(n - 1)[j]
        <5> HIDE DEF First
        <5> QED BY <1>6, <3>1, <3>2
      <4> QED BY <3>1, <4>1
    <3> QED BY <2>1, <2>2, <2>4, <3>3
  <2> QED BY <2>3, <2>4
<1>9. F = All(F)
  <2>1. \A n \in Nat : All(F)[n] = F[n]
    <3> HIDE DEF F, All, Step
    <3> QED BY <1>2, <1>8
  <2> DEFINE A == All(F)
  <2>2. F = [n \in Nat |-> F[n]] /\ A = [n \in Nat |-> A[n]]
    OBVIOUS
  <2> HIDE DEF F, All
  <2> QED BY <2>1, <2>2
<1>10. read = All(read)
  <2> HIDE DEF All, F
  <2> QED BY <1>9
<1> HIDE DEF read
<1>11. \A n \in Nat : read[n] = Step(read, n)
  <2> HIDE DEF All, Step
  <2> QED BY <1>2, <1>10
<1>12. read[0] = Unread
  BY <1>11
<1>13. ASSUME NEW n \in Nat PROVE read[n + 1] = T(read[n], n)
  <2>1. n + 1 \in Nat /\ n + 1 # 0 /\ (n + 1) - 1 = n
    OBVIOUS
  <2> QED BY <1>11, <2>1
<1> QED BY <1>1, <1>12, <1>13 DEF T

LEMMA ReadSame ==
  ASSUME NEW f, NEW g, NEW r, NEW s \in DOMAIN f, Keeps(g, f), MarkersPaired(f)
  PROVE  Read(g, r, s) = Read(f, r, s)
<1>1. g[s] = f[s]
  BY DEF Keeps
<1>2. f[s].kind = "marker" => g[s + 1] = f[s + 1]
  BY DEF Keeps, MarkersPaired
<1>3. CASE f[s].kind = "marker"
  <2>1. g[s + 1] = f[s + 1]
    BY <1>2, <1>3
  <2> QED BY <1>1, <2>1 DEF Read
<1>4. CASE f[s].kind # "marker"
  BY <1>1, <1>4 DEF Read
<1> QED BY <1>3, <1>4

Later(g, f, p) == \A s \in DOMAIN g : s \in DOMAIN f \/ s >= p

\* What is written further on does not change what was read up to there.
LEMMA SameReading ==
  ASSUME NEW f, NEW g, f[0].header.overHead \in Nat, g[0] = f[0],
         Keeps(g, f), MarkersPaired(f), NEW k \in Nat,
         Later(g, f, f[0].header.overHead + k)
  PROVE  Reading(g)[k] = Reading(f)[k]
<1> DEFINE start == f[0].header.overHead
           E == {n \in Nat : n <= k => Reading(g)[n] = Reading(f)[n]}
<1>1. /\ Reading(f)[0] = Unread /\ \A n \in Nat : Reading(f)[n + 1] = Turn(f, Reading(f)[n], n)
      /\ Reading(g)[0] = Unread /\ \A n \in Nat : Reading(g)[n + 1] = Turn(g, Reading(g)[n], n)
  BY ReadingIs
<1>2. 0 \in E
  BY <1>1
<1>3. ASSUME NEW n \in Nat, n \in E PROVE n + 1 \in E
  <2> SUFFICES ASSUME n + 1 <= k PROVE Reading(g)[n + 1] = Reading(f)[n + 1]
    OBVIOUS
  <2> DEFINE r == Reading(f)[n]
  <2>1. Reading(g)[n] = r
    BY <1>3
  <2>2. Turn(g, r, n) = Turn(f, r, n)
    <3>1. start + n \in DOMAIN g <=> start + n \in DOMAIN f
      <4>1. ~(start + n >= start + k)
        BY <1>3
      <4>2. start + n \in DOMAIN g => start + n \in DOMAIN f
        BY <4>1 DEF Later
      <4>3. start + n \in DOMAIN f => start + n \in DOMAIN g
        BY DEF Keeps
      <4> QED BY <4>2, <4>3
    <3>2. start + n \in DOMAIN f => Read(g, r, start + n) = Read(f, r, start + n)
      <4> HIDE DEF start, r
      <4> QED BY ReadSame
    <3>3. g[0].header.overHead = start
      OBVIOUS
    <3> HIDE DEF r
    <3> QED BY <3>1, <3>2, <3>3 DEF Turn
  <2>3. Reading(g)[n + 1] = Turn(g, r, n) /\ Reading(f)[n + 1] = Turn(f, r, n)
    BY <1>1, <2>1
  <2> QED BY <2>2, <2>3
<1> HIDE DEF E
<1>4. \A n \in Nat : n \in E
  BY <1>2, <1>3, SetInduction
<1> QED BY <1>4 DEF E

\* The reader passes the sectors where nothing begins.
LEMMA Skips ==
  ASSUME NEW f, f[0].header.overHead \in Nat, NEW a \in Nat, NEW b \in Nat, a <= b,
         \A s \in DOMAIN f : ~(f[0].header.overHead + a <= s /\ s < f[0].header.overHead + b)
  PROVE  Reading(f)[b] = Reading(f)[a]
<1> DEFINE E == {n \in Nat : a <= n /\ n <= b => Reading(f)[n] = Reading(f)[a]}
<1>1. \A n \in Nat : Reading(f)[n + 1] = Turn(f, Reading(f)[n], n)
  BY ReadingIs
<1>2. 0 \in E
  <2>1. a <= 0 => a = 0
    OBVIOUS
  <2> QED BY <2>1
<1>3. ASSUME NEW n \in Nat, n \in E PROVE n + 1 \in E
  <2> SUFFICES ASSUME a <= n + 1, n + 1 <= b, a # n + 1
               PROVE  Reading(f)[n + 1] = Reading(f)[a]
    OBVIOUS
  <2>1. a <= n /\ n <= b /\ Reading(f)[n] = Reading(f)[a]
    BY <1>3
  <2>2. f[0].header.overHead + n \notin DOMAIN f
    BY <2>1
  <2>3. Turn(f, Reading(f)[n], n) = Reading(f)[n]
    BY <2>2 DEF Turn
  <2> QED BY <1>1, <2>1, <2>3
<1> HIDE DEF E
<1>4. \A n \in Nat : n \in E
  BY <1>2, <1>3, SetInduction
<1> QED BY <1>4 DEF E

\* One object behind what was read: it is read, and the sectors it fills are passed.
LEMMA ReadsOne ==
  ASSUME NEW f, NEW G \in Nat, f[0].header.overHead = G, NEW p \in Nat, p >= G, p \in DOMAIN f,
         NEW q \in Nat, q > p, \A s \in DOMAIN f : s \in Nat /\ (s <= p \/ s >= q)
  PROVE  Reading(f)[q - G] = Read(f, Reading(f)[p - G], p)
<1> DEFINE k == p - G
           m == q - G
<1>1. k \in Nat /\ m \in Nat /\ k + 1 <= m /\ G + k = p /\ G + m = q /\ k + 1 \in Nat
  OBVIOUS
<1> HIDE DEF k, m
<1>2. Reading(f)[k + 1] = Turn(f, Reading(f)[k], k)
  BY <1>1, ReadingIs
<1>3. Turn(f, Reading(f)[k], k) = Read(f, Reading(f)[k], p)
  BY <1>1 DEF Turn
<1>4. Reading(f)[m] = Reading(f)[k + 1]
  <2>1. \A s \in DOMAIN f : ~(f[0].header.overHead + (k + 1) <= s /\ s < f[0].header.overHead + m)
    <3> SUFFICES ASSUME NEW s \in DOMAIN f, G + (k + 1) <= s, s < G + m PROVE FALSE
      OBVIOUS
    <3>1. s \in Nat /\ (s <= p \/ s >= q)
      OBVIOUS
    <3>2. CASE s <= p
      BY <1>1, <3>1, <3>2
    <3> QED BY <1>1, <3>1, <3>2
  <2> QED BY <1>1, <2>1, Skips
<1> QED BY <1>2, <1>3, <1>4 DEF k, m

----------------------------------------------------------------------------
(* The steps that write a stream.                                          *)

LEMMA StreamIs ==
  ASSUME TypeInv, Rest, vmdkType = Stream, Copying
  PROVE  LET f == Current
         IN  /\ StreamFile /\ StreamLoop /\ StreamTables /\ StreamLast /\ StreamRead
             /\ fileNo = 1 /\ Len(files) = 1 /\ Listed(files) /\ Len(outsizes) = 1
             /\ f = files[1] /\ 0 \in DOMAIN f
             /\ IsFile(f) /\ Packed(f) /\ NoGaps(f, GRAINSECTORS)
             /\ f[0] = HeaderObj(H(1)) /\ f[0].header.overHead = GRAINSECTORS
             /\ size \in Nat \ {0} /\ numGrains(size) \in Nat \ {0} /\ Planned /\ size \in Sizes
             /\ Sectored(Outsize) /\ Outsize \in Nat \ {0}
             /\ numGrains(Outsize) = numGrains(size)
             /\ pos \in Nat /\ lba \in Nat /\ disk \in Seq(BOOLEAN) /\ Len(disk) \in Nat
<1>1. StreamFile /\ StreamLoop /\ StreamTables /\ StreamLast /\ StreamRead /\ fileNo = 1
  BY DEF Rest, StreamInv, StreamFile
<1>2. /\ fileNo \in 1..Len(outsizes) /\ Planned /\ size \in Sizes
      /\ Listed(files) /\ Len(disk) \in Nat /\ Sectored(Outsize) /\ Outsize \in Nat \ {0}
      /\ pos \in Nat /\ lba \in Nat /\ 0 \in DOMAIN Current /\ disk \in Seq(BOOLEAN)
  BY CurrentIs DEF TypeInv
<1>3. /\ size \in Nat \ {0} /\ numGrains(size) \in Nat \ {0}
      /\ SplitsUp(outsizes, size) /\ Before(1) = 0 /\ Len(outsizes) = 1
  BY <1>2, PlanIs
<1>4. numGrains(Outsize) = numGrains(size)
  <2>1. 1 \in 1..Len(outsizes) /\ ~(1 < Len(outsizes)) /\ Outsize = outsizes[1]
    BY <1>1, <1>3 DEF Outsize
  <2>2. Before(1) + numGrains(Outsize) = numGrains(size)
    BY <1>3, <2>1 DEF SplitsUp
  <2> QED BY <1>2, <1>3, <2>2, GrainsOf
<1>5. FileInv(1) /\ Current = files[1] /\ Len(files) = 1
  BY <1>1 DEF Rest, FilesInv, Current, fileNo
<1>6. /\ IsFile(Current) /\ Packed(Current) /\ NoGaps(Current, GRAINSECTORS)
      /\ Current[0] = HeaderObj(H(1))
  BY <1>2, <1>5 DEF FileInv
<1>7. Current[0].header.overHead = GRAINSECTORS
  BY <1>6 DEF HeaderObj, H, Header
<1> QED BY <1>1, <1>2, <1>3, <1>4, <1>5, <1>6, <1>7

\* The only file of a stream after a step that writes to it.
LEMMA StreamWritten ==
  ASSUME Listed(files), Len(files) = 1, NEW f, files' = Written(files, f)
  PROVE  fileNo' = 1 /\ files'[1] = f /\ Current' = f /\ Listed(files')
<1>1. LastIs(files', files, f)
  BY Rewritten
<1> QED BY <1>1 DEF LastIs, fileNo, Current

\* The loops of a stream end behind the last grain.
LEMMA LoopEnds ==
  ASSUME Sectored(Outsize), NEW g \in Nat, ~MoreGrains(g)
  PROVE  g >= numGrains(Outsize)
BY SectoredGrains DEF MoreGrains

\* The table of the next grain.
LEMMA NextTable ==
  ASSUME NEW g \in Nat
  PROVE  /\ (g + 1) % GTEPERGT # 0 => (g + 1) \div GTEPERGT = g \div GTEPERGT
         /\ (g + 1) % GTEPERGT = 0 =>
              \A x \in 0..g : x \div GTEPERGT < (g + 1) \div GTEPERGT
<1> DEFINE E == GTEPERGT
           c == g \div E
           e == g % E
<1>1. E \in Nat \ {0}
  BY GeometryIs
<1>2. c \in Nat /\ e \in 0..(E - 1) /\ g = c * E + e
  BY <1>1, QuotientIs
<1> HIDE DEF E, c, e
<1> DEFINE m == c * E
<1>6. m \in Nat
  BY <1>1, <1>2
<1> HIDE DEF m
<1>3. \A i \in Nat, x \in 0..(E - 1) : g + 1 = i * E + x => i = (g + 1) \div E /\ x = (g + 1) % E
  <2> DEFINE h == g + 1
  <2>1. h \in Nat
    OBVIOUS
  <2> HIDE DEF h
  <2>2. \A i \in Nat, x \in 0..(E - 1) : h = i * E + x => i = h \div E /\ x = h % E
    BY <1>1, <2>1, QuotientIs
  <2> QED BY <2>2 DEF h
<1>4. CASE e < E - 1
  <2>1. e + 1 \in 0..(E - 1) /\ g + 1 = c * E + (e + 1)
    BY <1>1, <1>2, <1>4
  <2>2. c = (g + 1) \div E /\ e + 1 = (g + 1) % E /\ e + 1 # 0
    BY <1>2, <1>3, <2>1
  <2> QED BY <2>2 DEF c, E
<1>5. CASE e = E - 1
  <2>1. 0 \in 0..(E - 1) /\ (c + 1) * E = c * E + E /\ c + 1 \in Nat
    BY <1>1, <1>2
  <2>2. g + 1 = (c + 1) * E + 0
    BY <1>1, <1>2, <1>5, <1>6, <2>1 DEF m
  <2>3. c + 1 = (g + 1) \div E /\ 0 = (g + 1) % E
    BY <1>3, <2>1, <2>2
  <2>4. ASSUME NEW x \in 0..g PROVE x \div E < c + 1
    <3>1. x \div E \in Nat /\ x \div E <= c
      BY <1>1, <1>2, QuotientIs, QuotientMonotone DEF c
    <3> QED BY <1>2, <3>1
  <2> QED BY <2>3, <2>4 DEF E
<1> QED BY <1>1, <1>2, <1>4, <1>5

\* The grains with data after one more was read.
UsedOf(d) == {g \in 0..(Len(d) - 1) : d[g + 1]}

LEMMA UsedGrows ==
  ASSUME NEW d \in Seq(BOOLEAN), NEW b \in BOOLEAN
  PROVE  UsedOf(Append(d, b)) = IF b THEN UsedOf(d) \cup {Len(d)} ELSE UsedOf(d)
<1> DEFINE e == Append(d, b)
           l == Len(d)
           U(x) == {g \in 0..(Len(x) - 1) : x[g + 1]}
<1>1. /\ l \in Nat /\ Len(e) = l + 1 /\ e[l + 1] = b
      /\ \A i \in 1..l : e[i] = d[i]
  BY AppendProperties
<1> HIDE DEF e, l
<1>2. U(d) = {g \in 0..(l - 1) : d[g + 1]}
  BY DEF l
<1>3. U(e) = {g \in 0..l : e[g + 1]}
  BY <1>1
<1>4. \A g \in 0..l : g \in 0..(l - 1) \/ g = l
  BY <1>1
<1>5. \A g \in 0..(l - 1) : g \in 0..l /\ e[g + 1] = d[g + 1]
  BY <1>1
<1>6. l \in 0..l /\ e[l + 1] = b /\ l \notin 0..(l - 1)
  BY <1>1
<1>7. {g \in 0..l : e[g + 1]} = IF b THEN {g \in 0..(l - 1) : d[g + 1]} \cup {l}
                                ELSE {g \in 0..(l - 1) : d[g + 1]}
  BY <1>4, <1>5, <1>6
<1> QED BY <1>1, <1>2, <1>3, <1>6, <1>7 DEF l, e, UsedOf

Put(x, e, s) == [x EXCEPT ![e] = s]

\* One more entry in the array of the current table.
LEMMA FilledPut ==
  ASSUME NEW t, NEW g \in Nat, NEW p
  PROVE  LET first == (g \div GTEPERGT) * GTEPERGT
             x == Filled(t, first, GTEPERGT)
         IN  Put(x, g % GTEPERGT, p) = Filled(Over(At(g, p), t), first, GTEPERGT)
<1> DEFINE first == (g \div GTEPERGT) * GTEPERGT
           e == g % GTEPERGT
           x == Filled(t, first, GTEPERGT)
           u == Over(At(g, p), t)
<1>1. GTEPERGT \in Nat \ {0}
  BY GeometryIs
<1>2. e \in 0..(GTEPERGT - 1) /\ g = first + e /\ first \in Nat
  <2>1. (g \div GTEPERGT) \in Nat /\ e \in 0..(GTEPERGT - 1) /\ g = first + e
    BY <1>1, QuotientIs
  <2> DEFINE c == g \div GTEPERGT
  <2>2. c \in Nat
    BY <2>1
  <2> HIDE DEF c
  <2>3. c * GTEPERGT \in Nat
    BY <1>1, <2>2
  <2> QED BY <2>1, <2>3 DEF c
<1>3. x = [i \in 0..(GTEPERGT - 1) |-> IF first + i \in DOMAIN t THEN t[first + i] ELSE 0]
  BY DEF Filled
<1>4. DOMAIN u = DOMAIN t \cup {g} /\ u[g] = p /\ \A s \in DOMAIN t : s # g => u[s] = t[s]
  BY DEF At, Over
<1> HIDE DEF first, e, u
<1>5. ASSUME NEW i \in 0..(GTEPERGT - 1)
      PROVE  (IF first + i \in DOMAIN u THEN u[first + i] ELSE 0) =
               IF i = e THEN p ELSE IF first + i \in DOMAIN t THEN t[first + i] ELSE 0
  <2>1. first + i = g <=> i = e
    BY <1>2
  <2> DEFINE s == first + i
  <2>2. s = g <=> i = e
    BY <2>1
  <2> HIDE DEF s
  <2>3. (IF s \in DOMAIN u THEN u[s] ELSE 0) =
          IF i = e THEN p ELSE IF s \in DOMAIN t THEN t[s] ELSE 0
    BY <1>4, <2>2
  <2> QED BY <2>3 DEF s
<1>6. Filled(u, first, GTEPERGT) =
        [i \in 0..(GTEPERGT - 1) |->
           IF i = e THEN p ELSE IF first + i \in DOMAIN t THEN t[first + i] ELSE 0]
  BY <1>5 DEF Filled
<1>7. [x EXCEPT ![e] = p] =
        [i \in 0..(GTEPERGT - 1) |->
           IF i = e THEN p ELSE IF first + i \in DOMAIN t THEN t[first + i] ELSE 0]
  BY <1>3
<1> QED BY <1>6, <1>7 DEF Put, first, e, u

LEMMA GrainAdded ==
  ASSUME NEW x, NEW l, NEW d, NEW u, NEW s, NEW o
  PROVE  AddGrain(Built(x, l, d, u), s, o) =
           Built(Put(x, o.lba % GTEPERGT, s), o.lba \div GTEPERGT, d,
                 Over(At(o.lba, o.src), u))
<1> SUFFICES ASSUME NEW r,
                    r = [gt |-> x, lba |-> l, gd |-> d, disk |-> u, ok |-> TRUE, end |-> ""]
             PROVE  AddGrain(r, s, o) =
                      Built(Put(x, o.lba % GTEPERGT, s), o.lba \div GTEPERGT, d,
                            Over(At(o.lba, o.src), u))
  BY DEF Built
<1> DEFINE z == [r.gt EXCEPT ![o.lba % GTEPERGT] = s]
           w == Over(At(o.lba, o.src), r.disk)
           k == o.lba \div GTEPERGT
           q == [r EXCEPT !.gt = z, !.lba = k, !.disk = w]
<1>1. AddGrain(r, s, o) = q
  BY DEF AddGrain
<1>3. r.gt = x /\ r.disk = u
  OBVIOUS
<1> HIDE DEF z, w, k
<1>4. q = [n \in {"gt", "lba", "gd", "disk", "ok", "end"} |-> q[n]]
  OBVIOUS
<1>5. q.gt = z /\ q.lba = k /\ q.gd = d /\ q.disk = w /\ q.ok = TRUE /\ q.end = ""
  OBVIOUS
<1> HIDE DEF q
<1>6. q = [gt |-> z, lba |-> k, gd |-> d, disk |-> w, ok |-> TRUE, end |-> ""]
  BY <1>4, <1>5
<1> QED BY <1>1, <1>3, <1>6 DEF Built, Put, z, w, k

Itself(U) == [p \in U |-> p]

\* The reader takes a grain up as the writer did.
LEMMA ReadsGrain ==
  ASSUME NEW f, NEW s, NEW g \in Nat, NEW o, f[s] = o, o.kind = "grain", o.lba = g, o.src = g,
         NEW t, NEW d, NEW U, NEW l, NEW r,
         r = Built(Filled(t, (g \div GTEPERGT) * GTEPERGT, GTEPERGT), l, d, Itself(U))
  PROVE  Read(f, r, s) =
           Built(Filled(Over(At(g, s), t), (g \div GTEPERGT) * GTEPERGT, GTEPERGT),
                 g \div GTEPERGT, d, Itself(U \cup {g}))
<1> DEFINE first == (g \div GTEPERGT) * GTEPERGT
           x == Filled(t, first, GTEPERGT)
           y == Filled(Over(At(g, s), t), first, GTEPERGT)
           u == Itself(U)
<1>1. Put(x, g % GTEPERGT, s) = y
  BY FilledPut
<1>2. Over(At(g, g), u) = Itself(U \cup {g})
  BY DEF Over, At, Itself
<1>3. Read(f, r, s) = AddGrain(r, s, o)
  BY DEF Read
<1> HIDE DEF x, y, u
<1>4. r = Built(x, l, d, u)
  BY DEF x, u
<1>5. AddGrain(r, s, o) = Built(Put(x, o.lba % GTEPERGT, s), o.lba \div GTEPERGT, d,
                                Over(At(o.lba, o.src), u))
  BY <1>4, GrainAdded
<1> QED BY <1>1, <1>2, <1>3, <1>4, <1>5 DEF y

\* A step that leaves a sound stream behind.
LEMMA StreamStepFile ==
  ASSUME vmdkType = Stream, UNCHANGED <<vmdkType, outsizes>>, fileNo' = 1,
         NEW f, files'[1] = f, IsFile(f), Packed(f), 0 \in DOMAIN f, f[0] = HeaderObj(H(1)),
         NoGaps(f, GRAINSECTORS)
  PROVE  FilesInv' /\ SparseInv' /\ SparseDoneInv'
<1>1. ASSUME NEW i, i = 1 PROVE FileInv(i)'
  <2>1. H(i)' = H(1)
    BY <1>1 DEF H, Header
  <2> QED BY <1>1, <2>1 DEF FileInv
<1>2. \A i \in 1..1 : i = 1
  OBVIOUS
<1>3. FilesInv'
  BY <1>1, <1>2 DEF FilesInv
<1>4. SparseInv' /\ SparseDoneInv'
  BY DEF SparseInv, SparseDoneInv
<1> QED BY <1>3, <1>4

LEMMA CompressGrainStep ==
  ASSUME TypeInv, Rest, NEW data \in BOOLEAN, NEW n \in {1, GRAINSECTORS + 1},
         CompressGrain(data, n)
  PROVE  Rest'
<1> DEFINE f == Current
           N == numGrains(size)
           E == GTEPERGT
           c == lba \div E
           ob == GrainObj(lba, n)
           f1 == Over(At(pos, ob), f)
<1>1. /\ pc = "copy" /\ vmdkType = Stream /\ (data => BytesLeft > 0) /\ lba' = lba + 1
      /\ disk' = IF BytesLeft > 0 THEN Append(disk, data) ELSE disk
      /\ pc' = IF TableFull(lba + 1) \/ ~MoreGrains(lba + 1) THEN "table" ELSE "copy"
      /\ UNCHANGED <<vmdkType, size, outsizes, gd, faults>>
      /\ ~data => UNCHANGED <<files, table, pos>>
      /\ data => files' = Written(files, f1) /\ table' = Over(At(lba, pos), table) /\ pos' = pos + n
  BY DEF CompressGrain, Written, Entry, Behind, Current, fileNo
<1>2. /\ StreamFile /\ StreamLoop /\ StreamTables /\ StreamLast /\ StreamRead
      /\ fileNo = 1 /\ Len(files) = 1 /\ Listed(files) /\ 0 \in DOMAIN f
      /\ IsFile(f) /\ Packed(f) /\ NoGaps(f, GRAINSECTORS) /\ f = files[1]
      /\ f[0] = HeaderObj(H(1)) /\ f[0].header.overHead = GRAINSECTORS
      /\ size \in Nat \ {0} /\ N \in Nat \ {0} /\ pos \in Nat /\ lba \in Nat
      /\ disk \in Seq(BOOLEAN) /\ Len(disk) \in Nat
  BY <1>1, StreamIs DEF Copying
<1>3. E \in Nat \ {0} /\ GRAINSECTORS \in Nat \ {0} /\ n \in Nat \ {0}
  BY GeometryIs
<1>4. BytesLeft > 0 <=> Len(disk) < N
  BY <1>2, BytesLeftIs
<1>5. /\ Len(disk) <= lba /\ (Len(disk) < N => lba = Len(disk))
      /\ \/ lba <= N /\ Len(disk) = lba
         \/ lba >= N /\ Len(disk) = N
  BY <1>2 DEF StreamLoop
<1>6. /\ Used' = (IF data THEN Used \cup {lba} ELSE Used)
      /\ data => lba = Len(disk)
      /\ \A g \in Used : g \in Nat /\ g < lba
  <2>1. data => lba = Len(disk) /\ disk' = Append(disk, data)
    BY <1>1, <1>4, <1>5
  <2>2. Used' = UsedOf(disk') /\ Used = UsedOf(disk)
    BY DEF Used, UsedOf
  <2>5. \A g \in Used : g \in Nat /\ g < lba
    BY <1>2, <1>5 DEF Used
  <2>3. CASE ~(BytesLeft > 0)
    <3>1. ~data /\ disk' = disk
      BY <1>1, <2>3
    <3> QED BY <2>2, <2>5, <3>1
  <2>4. CASE BytesLeft > 0
    <3>1. disk' = Append(disk, data) /\ (data => lba = Len(disk))
      BY <1>1, <2>1, <2>4
    <3> QED BY <1>2, <2>2, <2>5, <3>1, UsedGrows
  <2> QED BY <1>1, <2>1, <2>3, <2>4, <2>5
<1>7. CurrentTable = c /\ CurrentTable' = c /\ c \in Nat
  <2>1. CurrentTable = c /\ c \in Nat
    BY <1>1, <1>2, <1>3, QuotientIs DEF CurrentTable
  <2>2. pc' = "table" => CurrentTable' = c
    <3>1. (lba + 1) - 1 = lba
      BY <1>2
    <3> QED BY <1>1, <3>1 DEF CurrentTable
  <2>3. pc' # "table" => CurrentTable' = c
    <3>1. pc' # "table" => (lba + 1) % E # 0
      BY <1>1 DEF TableFull
    <3> QED BY <1>1, <1>2, <3>1, NextTable DEF CurrentTable
  <2> QED BY <2>1, <2>2, <2>3
<1>8. DOMAIN table = {g \in Used : g \div E = c}
  BY <1>1, <1>2, <1>7 DEF StreamTables
<1>9. StreamLoop'
  <2>1. Outsize' = Outsize
    <3>1. fileNo' = fileNo
      <4>1. CASE data
        BY <1>1, <1>2, <4>1, StreamWritten
      <4>2. CASE ~data
        BY <1>1, <4>2 DEF fileNo
      <4> QED BY <4>1, <4>2
    <3> QED BY <1>1, <3>1 DEF Outsize
  <2>2. MoreGrains(lba)' = MoreGrains(lba + 1)
    BY <1>1, <2>1 DEF MoreGrains
  <2>3. TableFull(lba)' = TableFull(lba + 1)
    BY <1>1 DEF TableFull
  <2>4. \/ lba + 1 <= N /\ Len(disk') = lba + 1
        \/ lba + 1 >= N /\ Len(disk') = N
    <3>1. CASE BytesLeft > 0
      <4>1. Len(disk') = Len(disk) + 1
        BY <1>1, <1>2, <3>1, AppendProperties
      <4> QED BY <1>2, <1>4, <1>5, <3>1, <4>1
    <3>2. CASE ~(BytesLeft > 0)
      BY <1>1, <1>2, <1>4, <1>5, <3>2
    <3> QED BY <3>1, <3>2
  <2> QED BY <1>1, <1>2, <2>2, <2>3, <2>4 DEF StreamLoop
<1>10. CASE ~data
  <2>1. UNCHANGED <<files, table, pos, gd, Used, CurrentTable>>
    BY <1>1, <1>6, <1>7, <1>10
  <2>2. Current' = Current /\ fileNo' = fileNo
    BY <2>1 DEF Current, fileNo
  <2>3. FilesInv' /\ SparseInv' /\ SparseDoneInv'
    BY <1>1, <1>2, <2>1, <2>2, StreamStepFile
  <2>4. StreamFile'
    BY <1>2, <2>1, <2>2 DEF StreamFile
  <2>5. StreamTables'
    BY <1>2, <1>1, <2>1 DEF StreamTables
  <2>6. StreamLast'
    BY <1>2, <2>1, <2>2 DEF StreamLast
  <2>7. StreamRead'
    BY <1>2, <2>1, <2>2 DEF StreamRead
  <2>8. StreamInv' /\ StreamDoneInv'
    BY <1>1, <1>9, <2>2, <2>4, <2>5, <2>6, <2>7 DEF StreamInv, StreamDoneInv
  <2> QED BY <2>3, <2>8 DEF Rest
<1>11. CASE data
  <2>1. /\ files' = Written(files, f1) /\ table' = Over(At(lba, pos), table) /\ pos' = pos + n
        /\ lba = Len(disk) /\ lba \notin Used /\ Used' = Used \cup {lba}
    BY <1>1, <1>2, <1>6, <1>11
  <2>2. Length(ob) = n /\ ob.kind = "grain" /\ ob.lba = lba /\ ob.src = lba
    BY <2>1, LengthIs DEF GrainObj
  <2> HIDE DEF ob
  <2>3. fileNo' = 1 /\ files'[1] = f1 /\ Current' = f1
    BY <1>2, <2>1, StreamWritten
  <2>4. pos >= GRAINSECTORS /\ EndsBy(f, pos) /\ MarkersPaired(f)
        /\ (pos > GRAINSECTORS => Reaches(f, pos))
    BY <1>2 DEF StreamFile, Reaches
  <2>5. /\ pos \notin DOMAIN f /\ DOMAIN f1 = DOMAIN f \cup {pos} /\ f1[pos] = ob
        /\ Keeps(f1, f) /\ IsFile(f1) /\ Packed(f1) /\ EndsBy(f1, pos + n)
    <3> HIDE DEF f
    <3>1. Length(ob) \in Nat \ {0}
      BY <1>3, <2>2
    <3>2. EndsBy(f1, pos + Length(ob)) => EndsBy(f1, pos + n)
      BY <2>2
    <3> QED BY <1>2, <2>4, <3>1, <3>2, PutBehind
  <2> HIDE DEF f1
  <2>6. NoGaps(f1, GRAINSECTORS)
    <3> HIDE DEF f
    <3> QED BY <1>2, <2>4, <2>5, NoGapsPut
  <2>7. 0 \in DOMAIN f1 /\ f1[0] = f[0]
    BY <1>2, <2>5 DEF Keeps
  <2>8. FilesInv' /\ SparseInv' /\ SparseDoneInv'
    <3> HIDE DEF f
    <3> QED BY <1>1, <1>2, <2>3, <2>5, <2>6, <2>7, StreamStepFile
  <2>9. pos' \in Nat /\ pos' > pos /\ pos' > GRAINSECTORS /\ pos' >= GRAINSECTORS
    BY <1>2, <1>3, <2>1, <2>4
  <2>10. MarkersPaired(f1)
    <3>1. ASSUME NEW s \in DOMAIN f1, f1[s].kind = "marker" PROVE s + 1 \in DOMAIN f1
      <4>1. s \in DOMAIN f /\ f1[s] = f[s]
        BY <2>2, <2>5, <3>1 DEF Keeps
      <4>2. s + 1 \in DOMAIN f
        BY <2>4, <3>1, <4>1 DEF MarkersPaired
      <4> QED BY <2>5, <4>2
    <3> QED BY <3>1 DEF MarkersPaired
  <2>11. StreamFile'
    <3>1. \E s \in DOMAIN f1 : s + Length(f1[s]) = pos'
      BY <2>1, <2>2, <2>5
    <3>2. StreamFile' <=> /\ fileNo' = 1 /\ pos' >= GRAINSECTORS /\ EndsBy(f1, pos')
                          /\ MarkersPaired(f1)
                          /\ (pos' > GRAINSECTORS => \E s \in DOMAIN f1 : s + Length(f1[s]) = pos')
      BY <2>3 DEF StreamFile, Length
    <3> QED BY <2>1, <2>3, <2>5, <2>9, <2>10, <3>1, <3>2
  <2>12. DOMAIN table' = DOMAIN table \cup {lba} /\ lba \notin DOMAIN table /\ table'[lba] = pos
         /\ \A g \in DOMAIN table : table'[g] = table[g]
    <3>1. lba \notin DOMAIN table
      BY <1>8, <2>1
    <3> QED BY <2>1, <3>1 DEF At, Over
  <2>13. StreamTables'
    <3>1. DOMAIN table' = {g \in Used' : g \div E = c}
      BY <1>8, <2>1, <2>12
    <3>2. \A g \in DOMAIN table' : table'[g] \in Nat /\ table'[g] > 0
      BY <1>2, <1>3, <2>4, <2>12 DEF StreamTables
    <3>3. Used' \ DOMAIN table' = Used \ DOMAIN table
      BY <2>1, <2>12
    <3>4. DOMAIN gd' = {g \div E : g \in Used' \ DOMAIN table'}
      BY <1>1, <1>2, <3>3 DEF StreamTables
    <3>5. \A i \in DOMAIN gd' : gd'[i] \in Nat /\ gd'[i] > 0
      BY <1>1, <1>2 DEF StreamTables
    <3> QED BY <1>7, <3>1, <3>2, <3>4, <3>5 DEF StreamTables
  <2>14. StreamLast'
    BY <2>12 DEF StreamLast
  <2>15. StreamRead'
    <3> DEFINE r == Reading(f)[pos - GRAINSECTORS]
               q == Reading(f1)[pos' - GRAINSECTORS]
    <3>1. r = Built(Filled(table, c * E, E), r.lba, Mirrored(gd), Itself(Used))
      BY <1>2, <1>7 DEF StreamRead, Itself
    <3>2. Reading(f1)[pos - GRAINSECTORS] = r
      <4> DEFINE k == pos - GRAINSECTORS
      <4>1. k \in Nat /\ f[0].header.overHead + k = pos
        BY <1>2, <1>3, <2>4
      <4>2. Later(f1, f, f[0].header.overHead + k)
        BY <2>5, <4>1, <1>2 DEF Later
      <4>3. f[0].header.overHead \in Nat
        BY <1>2, <1>3
      <4> HIDE DEF f, k
      <4>4. Reading(f1)[k] = Reading(f)[k]
        BY <2>4, <2>5, <2>7, <4>1, <4>2, <4>3, SameReading
      <4> QED BY <4>4 DEF k
    <3>3. q = Read(f1, r, pos)
      <4>1. \A s \in DOMAIN f1 : s \in Nat /\ (s <= pos \/ s >= pos')
        <5>1. \A s \in DOMAIN f : s \in Nat /\ s <= pos
          BY <1>2, <2>4 DEF IsFile, EndsBy
        <5> QED BY <1>2, <2>5, <5>1
      <4>2. f1[0].header.overHead = GRAINSECTORS /\ pos \in DOMAIN f1
        BY <1>2, <2>5, <2>7
      <4> HIDE DEF f, r
      <4>3. q = Read(f1, Reading(f1)[pos - GRAINSECTORS], pos)
        BY <1>2, <1>3, <2>4, <2>9, <4>1, <4>2, ReadsOne
      <4> QED BY <3>2, <4>3
    <3> HIDE DEF r, q
    <3>4. q = Built(Filled(Over(At(lba, pos), table), c * E, E), c, Mirrored(gd),
                    Itself(Used \cup {lba}))
      BY <1>2, <2>2, <2>5, <3>1, <3>3, ReadsGrain
    <3>5. q = Built(Filled(table', c * E, E), c, Mirrored(gd'), [p \in Used' |-> p])
      BY <1>1, <2>1, <3>4 DEF Itself
    <3>6. q.lba = c
      BY <3>5 DEF Built
    <3>7. Reading(Current)'[(pos - GRAINSECTORS)'] = q
      BY <2>3 DEF q
    <3> QED BY <1>7, <2>3, <3>5, <3>6 DEF StreamRead, q
  <2>16. StreamInv' /\ StreamDoneInv'
    BY <1>1, <1>9, <2>3, <2>11, <2>13, <2>14, <2>15 DEF StreamInv, StreamDoneInv
  <2> QED BY <2>8, <2>16 DEF Rest
<1> QED BY <1>10, <1>11

LEMMA GreatestOf ==
  ASSUME NEW S \in SUBSET Nat, S # {}, NEW c \in Nat, \A i \in S : i <= c
  PROVE  \E l \in S : \A i \in S : i <= l
<1> DEFINE D == {c - i : i \in S}
<1>1. D \in SUBSET Nat /\ D # {}
  <2>1. \A i \in S : i \in Nat /\ c - i \in Nat
    OBVIOUS
  <2> QED BY <2>1
<1>2. PICK k \in D : \A j \in D : k <= j
  <2> HIDE DEF D
  <2> QED BY <1>1, LeastOf
<1>3. PICK l \in S : k = c - l
  BY <1>2
<1>4. ASSUME NEW i \in S PROVE i <= l
  <2>1. c - l <= c - i
    BY <1>2, <1>3
  <2> QED BY <2>1
<1> QED BY <1>4

\* One more entry in the directory, behind all others: the reader makes the same of it.
LEMMA MirrorGrows ==
  ASSUME NEW d, DOMAIN d \in SUBSET Nat, NEW c \in Nat, NEW v, \A i \in DOMAIN d : i <= c
  PROVE  /\ Over(At(c, v), Over(Mirrored(d), NoEntries(GRAINSECTORS * ((c \div GRAINSECTORS) + 1))))
              = Mirrored(Over(At(c, v), d))
         /\ IsLast(c, Over(At(c, v), d))
<1> DEFINE G == GRAINSECTORS
           e == Over(At(c, v), d)
           size0(i) == G * ((i \div G) + 1)
           n == size0(c)
<1>1. DOMAIN e = DOMAIN d \cup {c} /\ e[c] = v /\ \A s \in DOMAIN d : s # c => e[s] = d[s]
  BY DEF At, Over
<1>2. G \in Nat \ {0}
  BY GeometryIs
<1> HIDE DEF e
<1>3. IsLast(c, e)
  BY <1>1 DEF IsLast
<1>4. ASSUME NEW i \in Nat PROVE size0(i) \in Nat /\ i < size0(i)
  <2> DEFINE q == i \div G
  <2>1. q \in Nat /\ i % G \in 0..(G - 1) /\ i = q * G + (i % G)
    BY <1>2, QuotientIs
  <2> HIDE DEF q
  <2>2. G * (q + 1) = q * G + G /\ G * (q + 1) \in Nat
    BY <1>2, <2>1
  <2>3. i < G * (q + 1)
    BY <1>2, <2>1, <2>2
  <2> QED BY <2>2, <2>3 DEF q
<1>5. ASSUME NEW i \in Nat, i <= c PROVE size0(i) <= n
  <2> DEFINE q == i \div G
             p == c \div G
  <2>1. q \in Nat /\ p \in Nat /\ q <= p
    BY <1>2, <1>5, QuotientIs, QuotientMonotone
  <2> HIDE DEF q, p
  <2>2. G * (q + 1) <= G * (p + 1)
    BY <1>2, <2>1
  <2> QED BY <2>2 DEF q, p
<1>6. Mirrored(e) = Filled(e, 0, n)
  <2>1. \A l : IsLast(l, e) => l = c
    <3>1. ASSUME NEW l, IsLast(l, e) PROVE l = c
      <4>1. l \in Nat /\ l <= c /\ c <= l
        BY <1>1, <1>3, <3>1 DEF IsLast
      <4> QED BY <4>1
    <3> QED BY <3>1
  <2>2. c \in DOMAIN e
    BY <1>1
  <2>3. (CHOOSE l \in DOMAIN e : IsLast(l, e)) = c
    BY <1>3, <2>1, <2>2
  <2> QED BY <2>2, <2>3 DEF Mirrored
<1> DEFINE F == [i \in 0..(n - 1) |-> IF i \in DOMAIN e THEN e[i] ELSE 0]
           Z == NoEntries(n)
<1>7. n \in Nat /\ c < n
  BY <1>4
<1> HIDE DEF size0, G
<1>8. Filled(e, 0, n) = F
  <2>1. \A i \in 0..(n - 1) : 0 + i = i
    OBVIOUS
  <2> QED BY <2>1 DEF Filled
<1>9. Over(At(c, v), Over(Mirrored(d), Z)) = F
  <2>1. CASE DOMAIN d = {}
    <3>1. Mirrored(d) = <<>>
      BY <2>1 DEF Mirrored
    <3>2. Over(<<>>, Z) = [i \in 0..(n - 1) |-> 0]
      BY DEF Over, NoEntries
    <3> DEFINE y == [i \in 0..(n - 1) |-> 0]
    <3>3. Over(At(c, v), y) = [i \in 0..(n - 1) |-> IF i = c THEN v ELSE 0]
      <4>1. c \in 0..(n - 1)
        BY <1>7
      <4> QED BY <4>1 DEF Over, At
    <3>4. \A i \in 0..(n - 1) : (IF i \in DOMAIN e THEN e[i] ELSE 0) = IF i = c THEN v ELSE 0
      BY <1>1, <2>1
    <3>5. F = [i \in 0..(n - 1) |-> IF i = c THEN v ELSE 0]
      BY <3>4
    <3> QED BY <3>1, <3>2, <3>3, <3>5
  <2>2. CASE DOMAIN d # {}
    <3>1. \E l \in DOMAIN d : IsLast(l, d)
      BY <2>2, GreatestOf DEF IsLast
    <3> DEFINE l == CHOOSE l \in DOMAIN d : IsLast(l, d)
               m == size0(l)
    <3>2. l \in DOMAIN d /\ IsLast(l, d)
      BY <3>1
    <3>3. Mirrored(d) = Filled(d, 0, m)
      BY <2>2 DEF Mirrored, size0, G
    <3> HIDE DEF l
    <3>4. m \in Nat /\ l < m /\ m <= n /\ l \in Nat
      BY <1>4, <1>5, <3>2
    <3> HIDE DEF m
    <3> DEFINE x == [i \in 0..(m - 1) |-> IF i \in DOMAIN d THEN d[i] ELSE 0]
               y == [i \in 0..(n - 1) |-> IF i < m /\ i \in DOMAIN d THEN d[i] ELSE 0]
    <3>5. Filled(d, 0, m) = x
      <4>1. \A i \in 0..(m - 1) : 0 + i = i
        OBVIOUS
      <4> QED BY <4>1 DEF Filled
    <3>6. Over(x, Z) = y
      <4>1. /\ 0..(m - 1) \cup 0..(n - 1) = 0..(n - 1)
            /\ \A i \in 0..(n - 1) : i < m <=> i \in 0..(m - 1)
        BY <1>7, <3>4
      <4> QED BY <4>1 DEF Over, NoEntries
    <3>7. Over(At(c, v), y) = [i \in 0..(n - 1) |->
                                 IF i = c THEN v ELSE IF i < m /\ i \in DOMAIN d THEN d[i] ELSE 0]
      <4>1. c \in 0..(n - 1)
        BY <1>7
      <4> QED BY <4>1 DEF Over, At
    <3>8. \A i \in 0..(n - 1) :
            (IF i \in DOMAIN e THEN e[i] ELSE 0) =
              IF i = c THEN v ELSE IF i < m /\ i \in DOMAIN d THEN d[i] ELSE 0
      <4>1. \A i \in DOMAIN d : i < m
        BY <3>2, <3>4 DEF IsLast
      <4> QED BY <1>1, <4>1
    <3>9. F = [i \in 0..(n - 1) |->
                 IF i = c THEN v ELSE IF i < m /\ i \in DOMAIN d THEN d[i] ELSE 0]
      BY <3>8
    <3> QED BY <3>3, <3>5, <3>6, <3>7, <3>9
  <2> QED BY <2>1, <2>2
<1> QED BY <1>3, <1>6, <1>8, <1>9 DEF size0, G, e

\* The reader takes a table up as the writer did.
LEMMA ReadsTable ==
  ASSUME NEW x, NEW c, NEW d, NEW u, NEW s, NEW f, f[s] = MarkerObj("GT", TableSectors),
         f[s + 1] = TableObj(x), x # NoEntries(GTEPERGT)
  PROVE  Read(f, Built(x, c, d, u), s) =
           Built(NoEntries(GTEPERGT), c,
                 Over(At(c, s + 1), Over(d, NoEntries(GRAINSECTORS * ((c \div GRAINSECTORS) + 1)))),
                 u)
<1>0. f[s].kind = "marker" /\ f[s].type = "GT" /\ f[s + 1].entries = x
  BY DEF MarkerObj, TableObj
<1> SUFFICES ASSUME NEW r,
                    r = [gt |-> x, lba |-> c, gd |-> d, disk |-> u, ok |-> TRUE, end |-> ""]
             PROVE  Read(f, r, s) =
                      Built(NoEntries(GTEPERGT), c,
                            Over(At(c, s + 1),
                                 Over(d, NoEntries(GRAINSECTORS * ((c \div GRAINSECTORS) + 1)))),
                            u)
  BY DEF Built
<1> DEFINE w == Over(At(r.lba, s + 1),
                     Over(r.gd, NoEntries(GRAINSECTORS * ((r.lba \div GRAINSECTORS) + 1))))
           a == [r EXCEPT !.gd = w]
           z == NoEntries(GTEPERGT)
           b == f[s + 1].entries = r.gt
           q == [a EXCEPT !.ok = @ /\ b, !.gt = z]
<1>1. r.gt = x /\ r.lba = c /\ r.gd = d
  OBVIOUS
<1>2. AddTable(r, s) = a
  BY <1>1 DEF AddTable
<1>3. Read(f, r, s) = q
  <2> DEFINE y == AddTable(r, s)
  <2>2. Read(f, r, s) = [y EXCEPT !.ok = @ /\ b, !.gt = z]
    <3> HIDE DEF z
    <3> QED BY <1>0 DEF Read, z
  <2> HIDE DEF y, q
  <2> QED BY <1>2, <2>2 DEF q, y
<1>4. b
  BY <1>0, <1>1
<1> HIDE DEF w, z, b
<1>5. a = [n \in {"gt", "lba", "gd", "disk", "ok", "end"} |-> a[n]]
  OBVIOUS
<1>6. a.gt = x /\ a.lba = c /\ a.gd = w /\ a.disk = u /\ a.ok = TRUE /\ a.end = ""
  OBVIOUS
<1> HIDE DEF a
<1>7. q = [n \in {"gt", "lba", "gd", "disk", "ok", "end"} |-> q[n]]
  BY <1>5
<1>8. q.gt = z /\ q.lba = c /\ q.gd = w /\ q.disk = u /\ q.ok = TRUE /\ q.end = ""
  BY <1>4, <1>5, <1>6
<1> HIDE DEF q
<1>9. q = [gt |-> z, lba |-> c, gd |-> w, disk |-> u, ok |-> TRUE, end |-> ""]
  BY <1>7, <1>8
<1> QED BY <1>1, <1>3, <1>9 DEF Built, z, w

\* A table without entries is an array of zeros.
LEMMA FilledNothing ==
  ASSUME NEW t, DOMAIN t = {}, NEW first, NEW n
  PROVE  Filled(t, first, n) = NoEntries(n)
BY DEF Filled, NoEntries

\* A table with an entry is not.
LEMMA FilledSomething ==
  ASSUME NEW t, NEW g \in Nat, g \in DOMAIN t, t[g] # 0
  PROVE  Filled(t, (g \div GTEPERGT) * GTEPERGT, GTEPERGT) # NoEntries(GTEPERGT)
<1> DEFINE first == (g \div GTEPERGT) * GTEPERGT
           e == g % GTEPERGT
           F == Filled(t, first, GTEPERGT)
<1>1. GTEPERGT \in Nat \ {0}
  BY GeometryIs
<1>2. e \in 0..(GTEPERGT - 1) /\ first + e = g
  BY <1>1, QuotientIs
<1> HIDE DEF first, e
<1>3. F[e] = t[g]
  BY <1>2 DEF Filled
<1>4. NoEntries(GTEPERGT)[e] = 0
  BY <1>2 DEF NoEntries
<1> HIDE DEF F
<1>5. F # NoEntries(GTEPERGT)
  BY <1>3, <1>4
<1> QED BY <1>5 DEF F, first

LEMMA TableAtIs ==
  ASSUME NEW i
  PROVE  TableAt(i) = TableObj(Filled(table, i * GTEPERGT, GTEPERGT))
BY DEF TableAt, Filled

LEMMA CloseTableStep ==
  ASSUME TypeInv, Rest, CloseTable
  PROVE  Rest'
<1> DEFINE f == Current
           N == numGrains(size)
           E == GTEPERGT
           T == TableSectors
           c == (lba - 1) \div E
           m == MarkerObj("GT", T)
           tb == TableAt(c)
           f1 == Over(At(pos, m), f)
           f2 == Over(At(pos + 1, tb), f1)
<1>1. /\ pc = "table" /\ table' = <<>> /\ pc' = (IF MoreGrains(lba) THEN "copy" ELSE "finish")
      /\ UNCHANGED <<size, disk, outsizes, lba, faults>> /\ vmdkType' = vmdkType
      /\ DOMAIN table = {} => UNCHANGED <<files, gd, pos>>
      /\ DOMAIN table # {} => /\ files' = Written(files, f2) /\ pos' = pos + 1 + T
                              /\ gd' = Over(At(c, pos + 1), gd)
  BY DEF CloseTable, Written, Slot, Current, fileNo
<1>2. vmdkType = Stream /\ DOMAIN table' = {}
  BY <1>1 DEF TypeInv
<1>3. /\ StreamFile /\ StreamLoop /\ StreamTables /\ StreamLast /\ StreamRead
      /\ fileNo = 1 /\ Len(files) = 1 /\ Listed(files) /\ 0 \in DOMAIN f
      /\ IsFile(f) /\ Packed(f) /\ NoGaps(f, GRAINSECTORS) /\ f = files[1]
      /\ f[0] = HeaderObj(H(1)) /\ f[0].header.overHead = GRAINSECTORS
      /\ size \in Nat \ {0} /\ N \in Nat \ {0} /\ pos \in Nat /\ lba \in Nat
      /\ disk \in Seq(BOOLEAN) /\ Len(disk) \in Nat
  BY <1>1, <1>2, StreamIs DEF Copying
<1>4. E \in Nat \ {0} /\ GRAINSECTORS \in Nat \ {0} /\ T \in Nat \ {0}
  BY GeometryIs
<1>5. lba >= 1 /\ (TableFull(lba) \/ ~MoreGrains(lba)) /\ Len(disk) <= lba /\ lba - 1 \in Nat
  BY <1>1, <1>3 DEF StreamLoop
<1>6. CurrentTable = c /\ c \in Nat
  <2>1. CurrentTable = c
    BY <1>1 DEF CurrentTable
  <2>2. c \in Nat
    BY <1>4, <1>5, QuotientIs
  <2> QED BY <2>1, <2>2
<1>7. Used' = Used /\ \A g \in Used : g \in Nat /\ g <= lba - 1
  BY <1>1, <1>3, <1>5 DEF Used
<1>8. /\ DOMAIN table = {g \in Used : g \div E = c}
      /\ \A g \in DOMAIN table : table[g] \in Nat /\ table[g] > 0
      /\ DOMAIN gd = {g \div E : g \in Used \ DOMAIN table}
      /\ \A i \in DOMAIN gd : gd[i] \in Nat /\ gd[i] > 0
  BY <1>1, <1>3, <1>6 DEF StreamTables
<1>9. \A g \in Used : g \div E \in Nat /\ g \div E <= c
  <2>1. ASSUME NEW g \in Used PROVE g \div E \in Nat /\ g \div E <= c
    BY <1>4, <1>5, <1>7, QuotientIs, QuotientMonotone
  <2> QED BY <2>1
<1>10. pc' # "finish" => {g \in Used : g \div E = CurrentTable'} = {}
  <2>1. SUFFICES ASSUME pc' # "finish", NEW g \in Used PROVE g \div E # CurrentTable'
    OBVIOUS
  <2>2. pc' = "copy" /\ TableFull(lba)
    BY <1>1, <1>5, <2>1
  <2>3. CurrentTable' = lba \div E
    BY <1>1, <2>2 DEF CurrentTable
  <2> DEFINE k == lba - 1
  <2>4. k \in Nat /\ k + 1 = lba /\ g \in 0..k
    BY <1>3, <1>5, <1>7
  <2> HIDE DEF k
  <2>5. (k + 1) % E = 0
    BY <2>2, <2>4 DEF TableFull
  <2>6. g \div E < (k + 1) \div E
    BY <2>4, <2>5, NextTable
  <2>7. lba \div E \in Nat
    BY <1>3, <1>4, QuotientIs
  <2> QED BY <1>9, <2>3, <2>4, <2>6, <2>7
<1>11. ASSUME fileNo' = fileNo PROVE StreamLoop'
  <2>1. Outsize' = Outsize
    BY <1>1, <1>11 DEF Outsize
  <2>2. MoreGrains(lba)' = MoreGrains(lba) /\ TableFull(lba)' = TableFull(lba)
    BY <1>1, <2>1 DEF MoreGrains, TableFull
  <2> QED BY <1>1, <1>2, <1>3, <2>2 DEF StreamLoop
<1>12. CASE DOMAIN table = {}
  <2>1. UNCHANGED <<files, pos, gd, Used>>
    BY <1>1, <1>7, <1>12
  <2>2. Current' = Current /\ fileNo' = fileNo
    BY <2>1 DEF Current, fileNo
  <2>3. FilesInv' /\ SparseInv' /\ SparseDoneInv'
    BY <1>1, <1>2, <1>3, <2>1, <2>2, StreamStepFile
  <2>4. StreamFile'
    BY <1>3, <2>1, <2>2 DEF StreamFile
  <2>5. StreamTables'
    <3>1. Used' \ DOMAIN table' = Used \ DOMAIN table
      BY <1>2, <1>12, <2>1
    <3>2. DOMAIN gd' = {g \div E : g \in Used' \ DOMAIN table'}
      BY <1>8, <2>1, <3>1
    <3>3. pc' # "finish" => DOMAIN table' = {g \in Used' : g \div E = CurrentTable'}
      BY <1>2, <1>10, <2>1
    <3> QED BY <1>2, <1>8, <2>1, <3>2, <3>3 DEF StreamTables
  <2>6. StreamLast'
    BY <1>3, <1>12, <2>1, <2>2 DEF StreamLast
  <2>7. StreamRead'
    <3> DEFINE r == Reading(f)[pos - GRAINSECTORS]
    <3>1. r = Built(Filled(table, c * E, E), r.lba, Mirrored(gd), [p \in Used |-> p])
      BY <1>3, <1>6 DEF StreamRead
    <3>2. Filled(table, c * E, E) = NoEntries(E)
          /\ Filled(table', CurrentTable' * E, E) = NoEntries(E)
      BY <1>2, <1>12, FilledNothing
    <3>3. Reading(Current)'[(pos - GRAINSECTORS)'] = r
      BY <2>1, <2>2
    <3> HIDE DEF r
    <3>4. r = Built(Filled(table', CurrentTable' * E, E), r.lba, Mirrored(gd'), [p \in Used' |-> p])
      BY <2>1, <3>1, <3>2
    <3> QED BY <1>2, <3>3, <3>4 DEF StreamRead
  <2>8. StreamInv' /\ StreamDoneInv'
    BY <1>1, <1>2, <1>11, <2>2, <2>4, <2>5, <2>6, <2>7 DEF StreamInv, StreamDoneInv
  <2> QED BY <2>3, <2>8 DEF Rest
<1>13. CASE DOMAIN table # {}
  <2>1. /\ files' = Written(files, f2) /\ pos' = pos + 1 + T
        /\ gd' = Over(At(c, pos + 1), gd)
    BY <1>1, <1>13
  <2>2. Length(m) = 1 /\ Length(tb) = T /\ m.kind = "marker" /\ m.type = "GT" /\ tb.kind = "table"
    <3>1. Length(m) = 1 /\ m.kind = "marker" /\ m.type = "GT"
      BY LengthIs DEF MarkerObj
    <3>2. Length(tb) = T /\ tb.kind = "table"
      BY LengthIs DEF TableAt, TableObj
    <3> QED BY <3>1, <3>2
  <2> HIDE DEF tb
  <2>3. fileNo' = 1 /\ files'[1] = f2 /\ Current' = f2
    BY <1>3, <2>1, StreamWritten
  <2>4. pos >= GRAINSECTORS /\ EndsBy(f, pos) /\ MarkersPaired(f)
        /\ (pos > GRAINSECTORS => Reaches(f, pos))
    BY <1>3 DEF StreamFile, Reaches
  <2>5. /\ pos \notin DOMAIN f /\ DOMAIN f1 = DOMAIN f \cup {pos} /\ f1[pos] = m
        /\ Keeps(f1, f) /\ IsFile(f1) /\ Packed(f1) /\ EndsBy(f1, pos + 1)
    <3> HIDE DEF f, m
    <3>1. Length(m) \in Nat \ {0}
      BY <2>2
    <3>2. EndsBy(f1, pos + Length(m)) => EndsBy(f1, pos + 1)
      BY <2>2
    <3> QED BY <1>3, <2>4, <3>1, <3>2, PutBehind
  <2> HIDE DEF f1
  <2>6. /\ pos + 1 \notin DOMAIN f1 /\ DOMAIN f2 = DOMAIN f1 \cup {pos + 1} /\ f2[pos + 1] = tb
        /\ Keeps(f2, f1) /\ IsFile(f2) /\ Packed(f2) /\ EndsBy(f2, pos')
    <3>1. Length(tb) \in Nat \ {0}
      BY <1>4, <2>2
    <3>2. EndsBy(f2, pos + 1 + Length(tb)) => EndsBy(f2, pos')
      BY <2>1, <2>2
    <3>3. pos + 1 \in Nat
      BY <1>3
    <3> QED BY <2>5, <3>1, <3>2, <3>3, PutBehind
  <2> HIDE DEF f2
  <2>7. Keeps(f2, f) /\ DOMAIN f2 = DOMAIN f \cup {pos, pos + 1} /\ f2[pos] = m
    BY <2>5, <2>6 DEF Keeps
  <2>8. NoGaps(f2, GRAINSECTORS)
    <3>1. NoGaps(f1, GRAINSECTORS)
      <4> HIDE DEF f
      <4> QED BY <1>3, <2>4, <2>5, NoGapsPut
    <3>2. Reaches(f1, pos + 1)
      BY <2>2, <2>5 DEF Reaches
    <3> QED BY <2>6, <3>1, <3>2, NoGapsPut
  <2>9. 0 \in DOMAIN f2 /\ f2[0] = f[0]
    BY <1>3, <2>7 DEF Keeps
  <2>10. FilesInv' /\ SparseInv' /\ SparseDoneInv'
    <3> HIDE DEF f
    <3> QED BY <1>1, <1>2, <1>3, <2>3, <2>6, <2>8, <2>9, StreamStepFile
  <2>11. /\ pos' \in Nat /\ pos' > pos + 1 /\ pos' >= GRAINSECTORS /\ pos + 1 \in Nat
         /\ pos + 1 > pos /\ pos + 1 >= GRAINSECTORS
    BY <1>3, <1>4, <2>1, <2>4
  <2>12. MarkersPaired(f2)
    <3>1. ASSUME NEW s \in DOMAIN f2, f2[s].kind = "marker" PROVE s + 1 \in DOMAIN f2
      <4>1. CASE s \in DOMAIN f
        <5>1. f2[s] = f[s]
          BY <2>7, <4>1 DEF Keeps
        <5>2. s + 1 \in DOMAIN f
          BY <2>4, <3>1, <4>1, <5>1 DEF MarkersPaired
        <5> QED BY <2>7, <5>2
      <4>2. CASE s = pos
        BY <2>7, <4>2
      <4>3. s # pos + 1
        BY <2>2, <2>6, <3>1
      <4> QED BY <2>7, <4>1, <4>2, <4>3
    <3> QED BY <3>1 DEF MarkersPaired
  <2>13. StreamFile'
    <3>1. \E s \in DOMAIN f2 : s + Length(f2[s]) = pos'
      BY <2>1, <2>2, <2>6
    <3>2. StreamFile' <=> /\ fileNo' = 1 /\ pos' >= GRAINSECTORS /\ EndsBy(f2, pos')
                          /\ MarkersPaired(f2)
                          /\ (pos' > GRAINSECTORS => \E s \in DOMAIN f2 : s + Length(f2[s]) = pos')
      BY <2>3 DEF StreamFile, Length
    <3> QED BY <2>1, <2>3, <2>6, <2>11, <2>12, <3>1, <3>2
  <2>14. DOMAIN gd' = DOMAIN gd \cup {c} /\ gd'[c] = pos + 1
         /\ \A i \in DOMAIN gd : i # c => gd'[i] = gd[i]
    BY <2>1 DEF At, Over
  <2>15. \A i \in DOMAIN gd : i \in Nat /\ i <= c
    BY <1>8, <1>9
  <2>16. StreamTables'
    <3>1. DOMAIN gd' = {g \div E : g \in Used' \ DOMAIN table'}
      <4>1. Used' \ DOMAIN table' = Used
        BY <1>2, <1>7
      <4>2. {g \div E : g \in Used} = {g \div E : g \in Used \ DOMAIN table} \cup {c}
        <5>1. PICK h \in DOMAIN table : TRUE
          BY <1>13
        <5>2. h \in Used /\ h \div E = c
          BY <1>8, <5>1
        <5>3. \A g \in DOMAIN table : g \div E = c
          BY <1>8
        <5> HIDE DEF c
        <5> QED BY <5>2, <5>3
      <4> QED BY <1>8, <2>14, <4>1, <4>2
    <3>2. \A i \in DOMAIN gd' : gd'[i] \in Nat /\ gd'[i] > 0
      BY <1>3, <1>8, <2>11, <2>14
    <3>3. pc' # "finish" => DOMAIN table' = {g \in Used' : g \div E = CurrentTable'}
      BY <1>2, <1>7, <1>10
    <3> QED BY <1>2, <3>1, <3>2, <3>3 DEF StreamTables
  <2>17. IsLast(c, gd')
    <3>1. c \in DOMAIN gd' /\ \A i \in DOMAIN gd' : i <= c
      BY <1>6, <2>14, <2>15
    <3> QED BY <3>1 DEF IsLast
  <2>18. StreamLast'
    <3>1. gd'[c] + T = pos' /\ gd'[c] - 1 = pos
      BY <1>3, <1>4, <2>1, <2>14
    <3>2. c \in DOMAIN gd' /\ pos \in DOMAIN f2 /\ f2[pos].type = "GT"
      BY <2>2, <2>7, <2>14
    <3>3. \E l \in DOMAIN gd' : /\ IsLast(l, gd') /\ gd'[l] + T = pos'
                                /\ gd'[l] - 1 \in DOMAIN f2 /\ f2[gd'[l] - 1].type = "GT"
      BY <2>17, <3>1, <3>2
    <3>4. StreamLast' <=>
            (DOMAIN gd' # {} /\ DOMAIN table' = {} =>
               \E l \in DOMAIN gd' : /\ IsLast(l, gd') /\ gd'[l] + T = pos'
                                     /\ gd'[l] - 1 \in DOMAIN f2 /\ f2[gd'[l] - 1].type = "GT")
      BY <2>3 DEF StreamLast, IsLast, TableSectors
    <3> QED BY <3>3, <3>4
  <2>19. StreamRead'
    <3> DEFINE G == GRAINSECTORS
               r == Reading(f)[pos - G]
               x == Filled(table, c * E, E)
               q1 == Reading(f2)[pos + 1 - G]
               q == Reading(f2)[pos' - G]
    <3>1. r = Built(x, c, Mirrored(gd), Itself(Used))
      <4>1. r = Built(x, r.lba, Mirrored(gd), Itself(Used)) /\ r.lba = c
        BY <1>3, <1>6, <1>13 DEF StreamRead, Itself
      <4> HIDE DEF r, x
      <4> QED BY <4>1
    <3>2. Reading(f2)[pos - G] = r
      <4> DEFINE k == pos - G
      <4>1. k \in Nat /\ f[0].header.overHead + k = pos
        BY <1>3, <1>4, <2>4
      <4>2. Later(f2, f, f[0].header.overHead + k)
        BY <1>3, <2>7, <4>1 DEF Later
      <4>3. f[0].header.overHead \in Nat
        BY <1>3, <1>4
      <4> HIDE DEF f, k
      <4>4. Reading(f2)[k] = Reading(f)[k]
        BY <2>4, <2>7, <2>9, <4>1, <4>2, <4>3, SameReading
      <4> QED BY <4>4 DEF k
    <3>3. /\ \A s \in DOMAIN f2 : s \in Nat /\ (s <= pos \/ s >= pos + 1)
          /\ \A s \in DOMAIN f2 : s \in Nat /\ (s <= pos + 1 \/ s >= pos')
      <4>1. \A s \in DOMAIN f : s \in Nat /\ s <= pos
        BY <1>3, <2>4 DEF IsFile, EndsBy
      <4> QED BY <1>3, <2>7, <4>1
    <3>4. f2[0].header.overHead = G /\ G \in Nat /\ pos \in DOMAIN f2 /\ pos + 1 \in DOMAIN f2
      BY <1>3, <1>4, <2>7, <2>9
    <3>5. q1 = Read(f2, r, pos)
      <4> HIDE DEF f, r
      <4>1. q1 = Read(f2, Reading(f2)[pos - G], pos)
        BY <1>3, <2>4, <2>11, <3>3, <3>4, ReadsOne
      <4> QED BY <3>2, <4>1
    <3>6. q = Read(f2, q1, pos + 1)
      <4> HIDE DEF f, r
      <4> QED BY <1>3, <2>4, <2>11, <3>3, <3>4, ReadsOne
    <3>7. q = q1
      <4> HIDE DEF q, q1
      <4> QED BY <2>2, <2>6, <3>6 DEF Read
    <3> HIDE DEF r, q1, q
    <3>8. x # NoEntries(E)
      <4>1. PICK g \in DOMAIN table : TRUE
        BY <1>13
      <4>2. g \in Nat /\ table[g] # 0 /\ g \div E = c
        BY <1>7, <1>8, <4>1
      <4> HIDE DEF c
      <4>3. Filled(table, (g \div E) * E, E) # NoEntries(E)
        BY <4>1, <4>2, FilledSomething
      <4> QED BY <4>2, <4>3
    <3>9. tb = TableObj(x)
      BY TableAtIs DEF tb
    <3> HIDE DEF x
    <3> DEFINE d == Over(At(c, pos + 1), Over(Mirrored(gd), NoEntries(G * ((c \div G) + 1))))
    <3>10. q = Built(NoEntries(E), c, d, Itself(Used))
      <4> HIDE DEF c, m
      <4>1. f2[pos] = MarkerObj("GT", T) /\ f2[pos + 1] = TableObj(x)
        BY <2>6, <2>7, <3>9 DEF m
      <4>2. q = Read(f2, Built(x, c, Mirrored(gd), Itself(Used)), pos)
        BY <3>1, <3>5, <3>7
      <4> QED BY <3>8, <4>1, <4>2, ReadsTable
    <3>11. d = Mirrored(gd')
      <4>1. DOMAIN gd \in SUBSET Nat /\ \A i \in DOMAIN gd : i <= c
        BY <2>15
      <4> HIDE DEF c
      <4> QED BY <1>6, <2>1, <4>1, MirrorGrows
    <3> HIDE DEF d
    <3>12. q = Built(Filled(table', CurrentTable' * E, E), c, Mirrored(gd'), [p \in Used' |-> p])
      <4>1. Filled(table', CurrentTable' * E, E) = NoEntries(E)
        BY <1>2, FilledNothing
      <4> QED BY <1>7, <3>10, <3>11, <4>1 DEF Itself
    <3>13. q.lba = c
      <4> HIDE DEF c
      <4> QED BY <3>12 DEF Built
    <3>14. Reading(Current)'[(pos - GRAINSECTORS)'] = q
      BY <2>3 DEF q
    <3> QED BY <1>2, <2>3, <3>12, <3>13, <3>14 DEF StreamRead, q
  <2>20. StreamInv' /\ StreamDoneInv'
    BY <1>1, <1>2, <1>3, <1>11, <2>3, <2>13, <2>16, <2>18, <2>19 DEF StreamInv, StreamDoneInv
  <2> QED BY <2>10, <2>20 DEF Rest
<1> QED BY <1>12, <1>13

----------------------------------------------------------------------------
(* The end of a stream.                                                    *)

LEMMA MaxIs ==
  ASSUME NEW S \in SUBSET Int, NEW m \in S, \A y \in S : m >= y
  PROVE  Max(S) = m
<1>1. \A x \in S : (\A y \in S : x >= y) => x = m
  <2>1. ASSUME NEW x \in S, \A y \in S : x >= y PROVE x = m
    <3>1. x >= m /\ m >= x /\ x \in Int /\ m \in Int
      BY <2>1
    <3> QED BY <3>1
  <2> QED BY <2>1
<1> QED BY <1>1 DEF Max

LEMMA CeilNext ==
  ASSUME NEW g \in Nat, NEW y \in Nat \ {0}
  PROVE  DivCeil(g + 1, y) = (g \div y) + 1
<1> DEFINE q == g \div y
           x == g + 1
<1>1. q \in Nat /\ g % y \in 0..(y - 1) /\ g = q * y + (g % y)
  BY QuotientIs
<1>2. x \in Nat
  OBVIOUS
<1> HIDE DEF q, x
<1>3. ASSUME NEW k \in Nat PROVE k * y < x <=> k < q + 1
  <2>1. k <= q => k * y <= q * y
    BY <1>1
  <2>2. k >= q + 1 => k * y >= (q + 1) * y
    BY <1>1
  <2>3. (q + 1) * y = q * y + y
    BY <1>1
  <2>4. q * y < x /\ x <= q * y + y
    BY <1>1 DEF x
  <2>5. k * y \in Int /\ q * y \in Int
    BY <1>1
  <2> QED BY <1>1, <1>2, <2>1, <2>2, <2>3, <2>4, <2>5
<1>4. DivCeil(x, y) \in Nat /\ \A k \in Nat : k * y < x <=> k < DivCeil(x, y)
  BY <1>2, Rounded
<1> DEFINE c == DivCeil(x, y)
           d == q + 1
<1>5. c \in Nat /\ d \in Nat
  BY <1>1, <1>4
<1>6. ASSUME NEW k \in Nat PROVE k < c <=> k < d
  BY <1>3, <1>4
<1> HIDE DEF c, d
<1>7. c = d
  BY <1>5, <1>6, SameBelow
<1> QED BY <1>7 DEF c, d, q, x

LEMMA NestedCeil ==
  ASSUME NEW x \in Nat, NEW y \in Nat \ {0}, NEW z \in Nat \ {0}
  PROVE  DivCeil(DivCeil(x, y), z) = DivCeil(x, z * y)
<1> DEFINE c == DivCeil(x, y)
           w == z * y
           d == DivCeil(c, z)
           e == DivCeil(x, w)
<1>1. c \in Nat /\ \A k \in Nat : k * y < x <=> k < c
  BY Rounded
<1>2. w \in Nat \ {0}
  OBVIOUS
<1> HIDE DEF c
<1>3. d \in Nat /\ \A k \in Nat : k * z < c <=> k < d
  BY <1>1, Rounded
<1> HIDE DEF w, d
<1>4. e \in Nat /\ \A k \in Nat : k * w < x <=> k < e
  BY <1>2, Rounded
<1> HIDE DEF e
<1>5. ASSUME NEW k \in Nat PROVE k < d <=> k < e
  <2> DEFINE j == k * z
  <2>1. j \in Nat
    OBVIOUS
  <2>2. j * y = k * w
    <3>1. (k * z) * y = k * (z * y)
      OBVIOUS
    <3> QED BY <3>1 DEF w
  <2>3. j < c <=> k < d
    BY <1>3
  <2> HIDE DEF j
  <2>4. j * y < x <=> j < c
    BY <1>1, <2>1
  <2> QED BY <1>4, <2>2, <2>3, <2>4
<1>6. d = e
  BY <1>3, <1>4, <1>5, SameBelow
<1> QED BY <1>6 DEF c, d, e, w

\* A file from the front: no gaps behind the first grain, and nothing behind p.
Sound(f, p) ==
  /\ IsFile(f) /\ Packed(f) /\ EndsBy(f, p) /\ NoGaps(f, GRAINSECTORS)
  /\ p > GRAINSECTORS => Reaches(f, p)

Placed(g, q, f, p, o) ==
  Sound(g, q) /\ Keeps(g, f) /\ DOMAIN g = DOMAIN f \cup {p} /\ g[p] = o

LEMMA PutNext ==
  ASSUME NEW f, NEW p \in Nat, Sound(f, p), NEW o, Length(o) \in Nat \ {0},
         NEW q, q = p + Length(o)
  PROVE  Placed(Over(At(p, o), f), q, f, p, o)
<1> DEFINE g == Over(At(p, o), f)
<1>1. /\ p \notin DOMAIN f /\ DOMAIN g = DOMAIN f \cup {p} /\ g[p] = o
      /\ Keeps(g, f) /\ IsFile(g) /\ Packed(g) /\ EndsBy(g, q)
  BY PutBehind DEF Sound
<1> HIDE DEF g
<1>2. NoGaps(g, GRAINSECTORS)
  BY <1>1, NoGapsPut DEF Sound
<1>3. Reaches(g, q)
  BY <1>1 DEF Reaches
<1>4. Placed(g, q, f, p, o)
  BY <1>1, <1>2, <1>3 DEF Sound, Placed
<1> QED BY <1>4 DEF g

Fields == {"gt", "lba", "gd", "disk", "ok", "end"}

Marked(r, v, w) == [r EXCEPT !.ok = v, !.end = w]

LEMMA MarkedIs ==
  ASSUME NEW r, DOMAIN r = Fields, NEW v, NEW w
  PROVE  /\ DOMAIN Marked(r, v, w) = Fields /\ Marked(r, v, w).disk = r.disk
         /\ Marked(r, v, w).end = w /\ Marked(r, v, w).ok = v
BY DEF Marked, Fields

MarkedAs(q, r, w, good) ==
  DOMAIN q = Fields /\ q.disk = r.disk /\ q.end = w /\ (good => q.ok = TRUE)

\* The markers at the end: what is announced by the first is compared with the directory.
LEMMA ReadsGD ==
  ASSUME NEW f, NEW r, DOMAIN r = Fields, NEW s, f[s] = MarkerObj("GD", f[s].sectors)
  PROVE  MarkedAs(Read(f, r, s), r, "GD", r.ok = TRUE /\ f[s + 1].entries = r.gd)
<1>1. f[s].kind = "marker" /\ f[s].type = "GD"
  BY DEF MarkerObj
<1> DEFINE w == r.ok /\ f[s + 1].entries = r.gd
           q == Read(f, r, s)
<1>2. q = Marked(r, w, "GD")
  BY <1>1 DEF Read, Marked
<1>3. r.ok = TRUE /\ f[s + 1].entries = r.gd => w = TRUE
  OBVIOUS
<1> HIDE DEF q, w
<1>4. MarkedAs(q, r, "GD", r.ok = TRUE /\ f[s + 1].entries = r.gd)
  BY <1>2, <1>3, MarkedIs DEF MarkedAs
<1> QED BY <1>4 DEF q

LEMMA ReadsFooter ==
  ASSUME NEW f, NEW r, DOMAIN r = Fields, NEW s, f[s] = MarkerObj("FOOTER", f[s].sectors)
  PROVE  MarkedAs(Read(f, r, s), r, "FOOTER", r.ok = TRUE /\ r.end = "GD")
<1>1. f[s].kind = "marker" /\ f[s].type = "FOOTER"
  BY DEF MarkerObj
<1> DEFINE w == r.ok /\ r.end = "GD"
           q == Read(f, r, s)
<1>2. q = Marked(r, w, "FOOTER")
  BY <1>1 DEF Read, Marked
<1>3. r.ok = TRUE /\ r.end = "GD" => w = TRUE
  OBVIOUS
<1> HIDE DEF q, w
<1>4. MarkedAs(q, r, "FOOTER", r.ok = TRUE /\ r.end = "GD")
  BY <1>2, <1>3, MarkedIs DEF MarkedAs
<1> QED BY <1>4 DEF q

LEMMA ReadsEos ==
  ASSUME NEW f, NEW r, DOMAIN r = Fields, NEW s, f[s] = MarkerObj("EOS", f[s].sectors)
  PROVE  MarkedAs(Read(f, r, s), r, "EOS", r.ok = TRUE /\ r.end = "FOOTER")
<1>1. f[s].kind = "marker" /\ f[s].type = "EOS"
  BY DEF MarkerObj
<1> DEFINE w == r.ok /\ r.end = "FOOTER"
           q == Read(f, r, s)
<1>2. q = Marked(r, w, "EOS")
  BY <1>1 DEF Read, Marked
<1>3. r.ok = TRUE /\ r.end = "FOOTER" => w = TRUE
  OBVIOUS
<1> HIDE DEF q, w
<1>4. MarkedAs(q, r, "EOS", r.ok = TRUE /\ r.end = "FOOTER")
  BY <1>2, <1>3, MarkedIs DEF MarkedAs
<1> QED BY <1>4 DEF q

Closed(f, p, k, dir, h) ==
  Over(At(p + 3 + k, MarkerObj("EOS", 0)),
  Over(At(p + 2 + k, HeaderObj(h)),
  Over(At(p + 1 + k, MarkerObj("FOOTER", 1)),
  Over(At(p + 1, dir),
  Over(At(p, MarkerObj("GD", k)), f)))))

ClosedAs(g, f, p, k, dir, h) ==
  /\ Sound(g, p + 4 + k) /\ Keeps(g, f)
  /\ DOMAIN g = DOMAIN f \cup {p, p + 1, p + 1 + k, p + 2 + k, p + 3 + k}
  /\ g[p] = MarkerObj("GD", k) /\ g[p + 1] = dir /\ g[p + 1 + k] = MarkerObj("FOOTER", 1)
  /\ g[p + 2 + k] = HeaderObj(h) /\ g[p + 3 + k] = MarkerObj("EOS", 0)

LEMMA ClosedIs ==
  ASSUME NEW f, NEW p \in Nat, Sound(f, p), NEW k \in Nat \ {0}, NEW dir, Length(dir) = k, NEW h
  PROVE  ClosedAs(Closed(f, p, k, dir, h), f, p, k, dir, h)
<1> DEFINE m1 == MarkerObj("GD", k)
           m3 == MarkerObj("FOOTER", 1)
           m4 == HeaderObj(h)
           m5 == MarkerObj("EOS", 0)
           p2 == p + 1
           p3 == p + 1 + k
           p4 == p + 2 + k
           p5 == p + 3 + k
           p6 == p + 4 + k
           f1 == Over(At(p, m1), f)
           f2 == Over(At(p2, dir), f1)
           f3 == Over(At(p3, m3), f2)
           f4 == Over(At(p4, m4), f3)
           f5 == Over(At(p5, m5), f4)
<1>1. Length(m1) = 1 /\ Length(m3) = 1 /\ Length(m4) = 1 /\ Length(m5) = 1
  BY LengthIs
<1>2. /\ p2 = p + Length(m1) /\ p3 = p2 + Length(dir) /\ p4 = p3 + Length(m3)
      /\ p5 = p4 + Length(m4) /\ p6 = p5 + Length(m5)
      /\ p2 \in Nat /\ p3 \in Nat /\ p4 \in Nat /\ p5 \in Nat
      /\ Length(m1) \in Nat \ {0} /\ Length(dir) \in Nat \ {0} /\ Length(m3) \in Nat \ {0}
      /\ Length(m4) \in Nat \ {0} /\ Length(m5) \in Nat \ {0}
  <2> HIDE DEF m1, m3, m4, m5
  <2> QED BY <1>1
<1>3. Closed(f, p, k, dir, h) = f5
  BY DEF Closed
<1> HIDE DEF m1, m3, m4, m5, p2, p3, p4, p5, p6
<1>4. Sound(f1, p2) /\ Keeps(f1, f) /\ DOMAIN f1 = DOMAIN f \cup {p} /\ f1[p] = m1
  <2>1. Placed(f1, p2, f, p, m1)
    BY <1>2, PutNext
  <2> HIDE DEF f1
  <2> QED BY <2>1 DEF Placed
<1> HIDE DEF f1
<1>5. Sound(f2, p3) /\ Keeps(f2, f1) /\ DOMAIN f2 = DOMAIN f1 \cup {p2} /\ f2[p2] = dir
  <2>1. Placed(f2, p3, f1, p2, dir)
    BY <1>2, <1>4, PutNext
  <2> HIDE DEF f2
  <2> QED BY <2>1 DEF Placed
<1> HIDE DEF f2
<1>6. Sound(f3, p4) /\ Keeps(f3, f2) /\ DOMAIN f3 = DOMAIN f2 \cup {p3} /\ f3[p3] = m3
  <2>1. Placed(f3, p4, f2, p3, m3)
    BY <1>2, <1>5, PutNext
  <2> HIDE DEF f3
  <2> QED BY <2>1 DEF Placed
<1> HIDE DEF f3
<1>7. Sound(f4, p5) /\ Keeps(f4, f3) /\ DOMAIN f4 = DOMAIN f3 \cup {p4} /\ f4[p4] = m4
  <2>1. Placed(f4, p5, f3, p4, m4)
    BY <1>2, <1>6, PutNext
  <2> HIDE DEF f4
  <2> QED BY <2>1 DEF Placed
<1> HIDE DEF f4
<1>8. Sound(f5, p6) /\ Keeps(f5, f4) /\ DOMAIN f5 = DOMAIN f4 \cup {p5} /\ f5[p5] = m5
  <2>1. Placed(f5, p6, f4, p5, m5)
    BY <1>2, <1>7, PutNext
  <2> HIDE DEF f5
  <2> QED BY <2>1 DEF Placed
<1> HIDE DEF f5
<1>9. Keeps(f5, f) /\ f5[p] = m1 /\ f5[p2] = dir /\ f5[p3] = m3 /\ f5[p4] = m4
  <2>1. Keeps(f5, f3) /\ Keeps(f5, f2) /\ Keeps(f5, f1) /\ Keeps(f5, f)
    BY <1>4, <1>5, <1>6, <1>7, <1>8 DEF Keeps
  <2> QED BY <1>4, <1>5, <1>6, <1>7, <1>8, <2>1 DEF Keeps
<1>10. DOMAIN f5 = DOMAIN f \cup {p, p2, p3, p4, p5}
  BY <1>4, <1>5, <1>6, <1>7, <1>8
<1> QED BY <1>3, <1>8, <1>9, <1>10 DEF ClosedAs, m1, m3, m4, m5, p2, p3, p4, p5, p6

\* The last sector of a closed file.
LEMMA ClosedMax ==
  ASSUME NEW f, NEW p \in Nat, Sound(f, p), NEW k \in Nat \ {0}, NEW dir, NEW h, NEW g,
         ClosedAs(g, f, p, k, dir, h)
  PROVE  /\ Max(DOMAIN g) = p + 3 + k
         /\ \A s \in DOMAIN f : s \in Nat /\ s < p
<1>1. \A s \in DOMAIN f : s \in Nat /\ s < p
  BY DEF Sound, IsFile, EndsBy
<1>2. DOMAIN g = DOMAIN f \cup {p, p + 1, p + 1 + k, p + 2 + k, p + 3 + k}
  BY DEF ClosedAs
<1> DEFINE D == DOMAIN g
           m == p + 3 + k
<1>3. D \in SUBSET Int /\ m \in D /\ \A s \in D : m >= s
  BY <1>1, <1>2
<1> HIDE DEF D, m
<1>4. Max(D) = m
  BY <1>3, MaxIs
<1> QED BY <1>1, <1>4 DEF D, m

ReadToTheEnd(q, r, entries) ==
  /\ q.disk = r.disk /\ q.end = "EOS"
  /\ r.ok = TRUE /\ entries = r.gd => q.ok = TRUE

\* The reader at the end of a closed file.
LEMMA ClosedRead ==
  ASSUME NEW f, NEW p \in Nat, Sound(f, p), NEW k \in Nat \ {0}, NEW dir, NEW h, NEW g,
         ClosedAs(g, f, p, k, dir, h), f[0].header.overHead = GRAINSECTORS,
         MarkersPaired(f), p >= GRAINSECTORS, 0 \in DOMAIN f, dir.kind = "gd",
         DOMAIN Reading(f)[p - GRAINSECTORS] = Fields
  PROVE  ReadToTheEnd(inspect(g), Reading(f)[p - GRAINSECTORS], dir.entries)
<1> DEFINE G == GRAINSECTORS
           r == Reading(f)[p - G]
           a == p + 1 + k
           b == p + 2 + k
           c == p + 3 + k
           e == p + 4 + k
<1>1. /\ Keeps(g, f) /\ DOMAIN g = DOMAIN f \cup {p, p + 1, a, b, c}
      /\ g[p] = MarkerObj("GD", k) /\ g[p + 1] = dir /\ g[a] = MarkerObj("FOOTER", 1)
      /\ g[b] = HeaderObj(h) /\ g[c] = MarkerObj("EOS", 0)
  BY DEF ClosedAs
<1>2. Max(DOMAIN g) = c /\ \A s \in DOMAIN f : s \in Nat /\ s < p
  BY ClosedMax
<1>3. G \in Nat
  BY GeometryIs
<1>4. g[0] = f[0] /\ g[0].header.overHead = G
  BY <1>1 DEF Keeps
<1>5. p + 1 \in Nat /\ a \in Nat /\ b \in Nat /\ c \in Nat /\ e \in Nat
      /\ p < p + 1 /\ p + 1 < a /\ a < b /\ b < c /\ c < e /\ c + 1 = e
      /\ p + 1 >= G /\ a >= G /\ b >= G /\ c >= G
  BY <1>3
<1>6. inspect(g) = Reading(g)[e - G]
  <2>1. inspect(g) = Reading(g)[Max(DOMAIN g) + 1 - g[0].header.overHead]
    BY DEF inspect
  <2>2. Max(DOMAIN g) + 1 - g[0].header.overHead = e - G
    BY <1>2, <1>3, <1>4, <1>5
  <2> QED BY <2>1, <2>2
<1> DEFINE At1(s) == Reading(g)[s - G]
<1>7. At1(p) = r
  <2> DEFINE j == p - G
  <2>1. j \in Nat /\ f[0].header.overHead + j = p
    BY <1>3
  <2>2. Later(g, f, f[0].header.overHead + j)
    BY <1>1, <1>5, <2>1 DEF Later
  <2>3. f[0].header.overHead \in Nat
    BY <1>3
  <2> HIDE DEF j
  <2>4. Reading(g)[j] = Reading(f)[j]
    BY <1>1, <1>4, <2>1, <2>2, <2>3, SameReading
  <2> QED BY <2>4 DEF j
<1> HIDE DEF a, b, c, e
<1>8. \A s \in DOMAIN g : s \in Nat
  BY <1>1, <1>2, <1>5
<1>9. At1(p + 1) = Read(g, r, p)
  <2>1. \A s \in DOMAIN g : s \in Nat /\ (s <= p \/ s >= p + 1)
    BY <1>1, <1>2, <1>5
  <2>2. p \in DOMAIN g
    BY <1>1
  <2>3. At1(p + 1) = Read(g, At1(p), p)
    BY <1>3, <1>4, <1>5, <2>1, <2>2, ReadsOne
  <2> HIDE DEF At1
  <2> QED BY <1>7, <2>3
<1>10. At1(a) = Read(g, At1(p + 1), p + 1)
  <2>1. \A s \in DOMAIN g : s \in Nat /\ (s <= p + 1 \/ s >= a)
    BY <1>1, <1>2, <1>5
  <2>2. p + 1 \in DOMAIN g
    BY <1>1
  <2> QED BY <1>3, <1>4, <1>5, <2>1, <2>2, ReadsOne
<1>11. At1(b) = Read(g, At1(a), a)
  <2>1. \A s \in DOMAIN g : s \in Nat /\ (s <= a \/ s >= b)
    BY <1>1, <1>2, <1>5
  <2>2. a \in DOMAIN g
    BY <1>1
  <2> QED BY <1>3, <1>4, <1>5, <2>1, <2>2, ReadsOne
<1>12. At1(c) = Read(g, At1(b), b)
  <2>1. \A s \in DOMAIN g : s \in Nat /\ (s <= b \/ s >= c)
    BY <1>1, <1>2, <1>5
  <2>2. b \in DOMAIN g
    BY <1>1
  <2> QED BY <1>3, <1>4, <1>5, <2>1, <2>2, ReadsOne
<1>13. At1(e) = Read(g, At1(c), c)
  <2>1. \A s \in DOMAIN g : s \in Nat /\ (s <= c \/ s >= e)
    BY <1>1, <1>2, <1>5
  <2>2. c \in DOMAIN g
    BY <1>1
  <2> QED BY <1>3, <1>4, <1>5, <2>1, <2>2, ReadsOne
<1> DEFINE q1 == Read(g, r, p)
           q3 == Read(g, q1, a)
           q5 == Read(g, q3, c)
<1>14. /\ g[p].kind = "marker" /\ g[p].type = "GD" /\ g[a].kind = "marker" /\ g[a].type = "FOOTER"
       /\ g[c].kind = "marker" /\ g[c].type = "EOS" /\ g[b].kind = "header"
  BY <1>1 DEF MarkerObj, HeaderObj
<1>15. inspect(g) = q5
  <2> HIDE DEF At1
  <2>1. At1(p + 1) = q1
    BY <1>9
  <2>2. At1(a) = q1
    BY <1>1, <1>10, <2>1 DEF Read
  <2>3. At1(b) = q3
    BY <1>11, <2>2
  <2> HIDE DEF q1, q3
  <2>4. At1(c) = q3
    BY <1>12, <1>14, <2>3 DEF Read
  <2> QED BY <1>6, <1>13, <2>4 DEF At1
<1> HIDE DEF At1
<1>16. /\ DOMAIN q1 = Fields /\ q1.disk = r.disk /\ q1.end = "GD"
       /\ r.ok = TRUE /\ dir.entries = r.gd => q1.ok = TRUE
  <2>1. g[p] = MarkerObj("GD", g[p].sectors)
    BY <1>1 DEF MarkerObj
  <2>2. MarkedAs(q1, r, "GD", r.ok = TRUE /\ g[p + 1].entries = r.gd)
    BY <2>1, ReadsGD
  <2> HIDE DEF q1
  <2> QED BY <1>1, <2>2 DEF MarkedAs
<1> HIDE DEF q1
<1>17. /\ DOMAIN q3 = Fields /\ q3.disk = r.disk /\ q3.end = "FOOTER"
       /\ q1.ok = TRUE => q3.ok = TRUE
  <2>1. g[a] = MarkerObj("FOOTER", g[a].sectors)
    BY <1>1 DEF MarkerObj
  <2>2. MarkedAs(q3, q1, "FOOTER", q1.ok = TRUE /\ q1.end = "GD")
    BY <1>16, <2>1, ReadsFooter
  <2> HIDE DEF q3
  <2> QED BY <1>16, <2>2 DEF MarkedAs
<1> HIDE DEF q3
<1>18. /\ DOMAIN q5 = Fields /\ q5.disk = r.disk /\ q5.end = "EOS"
       /\ q3.ok = TRUE => q5.ok = TRUE
  <2>1. g[c] = MarkerObj("EOS", g[c].sectors)
    BY <1>1 DEF MarkerObj
  <2>2. MarkedAs(q5, q3, "EOS", q3.ok = TRUE /\ q3.end = "FOOTER")
    BY <1>17, <2>1, ReadsEos
  <2> HIDE DEF q5
  <2> QED BY <1>17, <2>2 DEF MarkedAs
<1> HIDE DEF q5
<1>19. ReadToTheEnd(inspect(g), r, dir.entries)
  <2> HIDE DEF r
  <2> QED BY <1>15, <1>16, <1>17, <1>18 DEF ReadToTheEnd
<1> QED BY <1>19

\* The check of the repair tool on a closed file.
LEMMA ClosedCorrect ==
  ASSUME NEW f, NEW p \in Nat, Sound(f, p), NEW k \in Nat \ {0}, NEW dir, NEW h, NEW g,
         ClosedAs(g, f, p, k, dir, h), h.gdOffset = p + 1, NEW d, DOMAIN d \in SUBSET Nat,
         {i \in DOMAIN dir.entries : dir.entries[i] # 0} = DOMAIN d,
         NEW l, IsLast(l, d), dir.entries[l] = d[l], d[l] + TableSectors = p,
         d[l] - 1 \in DOMAIN f, f[d[l] - 1].type = "GT"
  PROVE  CorrectlyBuilt(g)
<1> DEFINE b == p + 2 + k
           end == Max(DOMAIN g) + 1
           at == g[b].header.gdOffset
           gts == {i \in DOMAIN g[p + 1].entries : g[p + 1].entries[i] # 0}
<1>1. /\ Keeps(g, f) /\ g[p] = MarkerObj("GD", k) /\ g[p + 1] = dir
      /\ g[p + 1 + k] = MarkerObj("FOOTER", 1) /\ g[b] = HeaderObj(h)
  BY DEF ClosedAs
<1>2. end - 2 = b /\ end - 3 = p + 1 + k
  BY ClosedMax
<1>3. at = p + 1
  BY <1>1 DEF HeaderObj
<1>4. gts = DOMAIN d
  BY <1>1
<1>5. Max(gts) = l
  <2>1. l \in DOMAIN d /\ \A i \in DOMAIN d : l >= i
    BY DEF IsLast
  <2>2. DOMAIN d \in SUBSET Int
    OBVIOUS
  <2>3. Max(DOMAIN d) = l
    BY <2>1, <2>2, MaxIs
  <2> QED BY <1>4, <2>3
<1>6. g[p + 1].entries[l] = d[l]
  BY <1>1
<1>7. g[d[l] - 1].type = "GT"
  BY <1>1 DEF Keeps
<1>8. g[p].type = "GD" /\ (p + 1) - 1 = p
  BY <1>1 DEF MarkerObj
<1> HIDE DEF end, at, gts, b
<1>9. /\ g[end - 3] = MarkerObj("FOOTER", 1)
      /\ g[at - 1].type = "GD"
      /\ g[g[at].entries[Max(gts)] - 1].type = "GT"
      /\ g[at].entries[Max(gts)] + TableSectors = at - 1
  BY <1>1, <1>2, <1>3, <1>5, <1>6, <1>7, <1>8
<1>10. g[end - 2].header.gdOffset = at
  BY <1>2 DEF at
<1>11. {i \in DOMAIN g[at].entries : g[at].entries[i] # 0} = gts
  BY <1>3 DEF gts
<1> QED BY <1>9, <1>10, <1>11 DEF CorrectlyBuilt, end

\* The blocks of the directory: those of the disk, and the one that a grain is in.
LEMMA BlocksAre ==
  ASSUME NEW o \in Nat \ {0}, NEW g \in Nat
  PROVE  /\ DivCeil(numGTs(o), GRAINSECTORS) = DivCeil(numGrains(o), GRAINSECTORS * GTEPERGT)
         /\ ((g \div GTEPERGT) \div GRAINSECTORS) + 1 = DivCeil(g + 1, GRAINSECTORS * GTEPERGT)
<1> DEFINE G == GRAINSECTORS
           E == GTEPERGT
           c == g \div E
           N == numGrains(o)
<1>1. G \in Nat \ {0} /\ E \in Nat \ {0}
  BY GeometryIs
<1>2. N \in Nat /\ numGTs(o) = DivCeil(N, E)
  BY GrainsOf DEF numGTs
<1>3. c \in Nat
  BY <1>1, QuotientIs
<1>4. DivCeil(g + 1, E) = c + 1
  BY <1>1, CeilNext
<1> HIDE DEF c, N, G, E
<1>5. DivCeil(c + 1, G) = (c \div G) + 1
  BY <1>1, <1>3, CeilNext
<1>6. DivCeil(DivCeil(N, E), G) = DivCeil(N, G * E)
  BY <1>1, <1>2, NestedCeil
<1> DEFINE x == g + 1
<1>7. x \in Nat
  OBVIOUS
<1> HIDE DEF x
<1>8. DivCeil(DivCeil(x, E), G) = DivCeil(x, G * E)
  BY <1>1, <1>7, NestedCeil
<1>9. (c \div G) + 1 = DivCeil(x, G * E)
  BY <1>4, <1>5, <1>8 DEF x
<1> QED BY <1>2, <1>6, <1>9 DEF G, E, N, c, x

LEMMA FinishStep ==
  ASSUME TypeInv, Rest, Finish
  PROVE  Rest'
<1> DEFINE f == Current
           N == numGrains(size)
           E == GTEPERGT
           G == GRAINSECTORS
           o == Outsize
           n == gdSize(numGTs(o))
           k == n \div G
           entries == [i \in 0..(n - 1) |-> IF i \in DOMAIN gd THEN gd[i] ELSE 0]
           dir == DirObj(entries)
           h == [Hdr EXCEPT !.gdOffset = pos + 1]
           g == Closed(f, pos, k, dir, h)
<1>1. /\ pc = "finish" /\ pc' = "header" /\ vmdkType = Stream
      /\ UNCHANGED <<vmdkType, size, disk, outsizes, lba, table, gd, faults>>
      /\ files' = Written(files, g)
  BY DEF Finish, TypeInv, Closed, Written, Current, fileNo
<1>2. /\ StreamFile /\ StreamLoop /\ StreamTables /\ StreamLast /\ StreamRead
      /\ fileNo = 1 /\ Len(files) = 1 /\ Listed(files) /\ 0 \in DOMAIN f
      /\ IsFile(f) /\ Packed(f) /\ NoGaps(f, G) /\ f = files[1]
      /\ f[0] = HeaderObj(H(1)) /\ f[0].header.overHead = G
      /\ size \in Nat \ {0} /\ N \in Nat \ {0} /\ pos \in Nat /\ lba \in Nat
      /\ disk \in Seq(BOOLEAN) /\ Len(disk) \in Nat
      /\ Sectored(o) /\ o \in Nat \ {0} /\ numGrains(o) = N
  BY <1>1, StreamIs DEF Copying
<1>3. E \in Nat \ {0} /\ G \in Nat \ {0}
  BY GeometryIs
<1>4. /\ numGTs(o) \in Nat \ {0} /\ n \in Nat \ {0} /\ k \in Nat \ {0} /\ n = G * k
      /\ k = DivCeil(numGTs(o), G) /\ numGTs(o) <= n
  <2>1. numGTs(o) \in Nat \ {0}
    BY <1>2, GrainsOf
  <2> QED BY <2>1, BlocksOf
<1>5. dir.kind = "gd" /\ dir.entries = entries /\ h.gdOffset = pos + 1
  <2>1. dir.kind = "gd" /\ dir.entries = entries
    BY DEF DirObj
  <2>2. Hdr = H(1)
    BY <1>2 DEF Hdr, HeaderObj
  <2>3. h.gdOffset = pos + 1
    BY <2>2 DEF H, Header
  <2> QED BY <2>1, <2>3
<1>6. Length(dir) = k
  <2>1. Length(DirObj(entries)) = GT0Offset(n)
    BY <1>4, DirectorySectors
  <2>2. n * OFFSETSIZE = k * SECTORSIZE
    <3>1. (G * k) * OFFSETSIZE = k * (G * OFFSETSIZE)
      BY <1>3, <1>4, GeometryIs
    <3>2. SECTORSIZE = G * OFFSETSIZE
      BY GeometryIs
    <3> HIDE DEF n, k, G
    <3> QED BY <1>4, <3>1, <3>2
  <2>3. DivCeil(k * SECTORSIZE, SECTORSIZE) = k
    BY <1>4, GeometryIs, RoundedExact
  <2> HIDE DEF n, k
  <2> QED BY <2>1, <2>2, <2>3 DEF GT0Offset
<1>7. DOMAIN table = {} /\ ~MoreGrains(lba)
  BY <1>1, <1>2 DEF StreamLoop
<1>8. Len(disk) = N
  <2>1. lba >= N
    BY <1>2, <1>7, LoopEnds
  <2> QED BY <1>2, <2>1 DEF StreamLoop
<1>9. /\ pos >= G /\ EndsBy(f, pos) /\ MarkersPaired(f)
      /\ Sound(f, pos)
  <2>1. pos >= G /\ EndsBy(f, pos) /\ MarkersPaired(f) /\ (pos > G => Reaches(f, pos))
    BY <1>2 DEF StreamFile, Reaches
  <2> QED BY <1>2, <2>1 DEF Sound
<1> HIDE DEF dir, h
<1>10. ClosedAs(g, f, pos, k, dir, h)
  <2> HIDE DEF f, k
  <2> QED BY <1>2, <1>4, <1>6, <1>9, ClosedIs
<1> HIDE DEF g
<1>11. fileNo' = 1 /\ files'[1] = g
  BY <1>1, <1>2, StreamWritten
<1>12. FilesInv' /\ SparseInv' /\ SparseDoneInv'
  <2>1. Keeps(g, f) /\ IsFile(g) /\ Packed(g) /\ NoGaps(g, G)
    BY <1>10 DEF ClosedAs, Sound
  <2>2. 0 \in DOMAIN g /\ g[0] = HeaderObj(H(1))
    BY <1>2, <2>1 DEF Keeps
  <2> QED BY <1>1, <1>11, <2>1, <2>2, StreamStepFile
<1> DEFINE r == Reading(f)[pos - G]
<1>13. r = Built(NoEntries(E), r.lba, Mirrored(gd), [p \in Used |-> p])
  <2>1. r = Built(Filled(table, CurrentTable * E, E), r.lba, Mirrored(gd), [p \in Used |-> p])
    BY <1>2 DEF StreamRead
  <2>2. Filled(table, CurrentTable * E, E) = NoEntries(E)
    BY <1>7, FilledNothing
  <2> HIDE DEF r
  <2> QED BY <2>1, <2>2
<1>14. DOMAIN r = Fields /\ r.disk = [p \in Used |-> p] /\ r.ok = TRUE /\ r.gd = Mirrored(gd)
  <2> DEFINE u == [p \in Used |-> p]
             l == r.lba
  <2>1. r = Built(NoEntries(E), l, Mirrored(gd), u)
    BY <1>13
  <2> HIDE DEF r, u, l
  <2> QED BY <2>1 DEF Built, Fields, u
<1>15. /\ inspect(g).disk = [p \in Used |-> p] /\ inspect(g).end = "EOS"
       /\ dir.entries = Mirrored(gd) => inspect(g).ok = TRUE
  <2>1. /\ pos \in Nat /\ Sound(f, pos) /\ k \in Nat \ {0} /\ ClosedAs(g, f, pos, k, dir, h)
        /\ f[0].header.overHead = GRAINSECTORS /\ MarkersPaired(f) /\ pos >= GRAINSECTORS
        /\ 0 \in DOMAIN f /\ dir.kind = "gd" /\ DOMAIN Reading(f)[pos - GRAINSECTORS] = Fields
    BY <1>2, <1>4, <1>5, <1>9, <1>10, <1>14
  <2>2. ReadToTheEnd(inspect(g), Reading(f)[pos - GRAINSECTORS], dir.entries)
    <3> HIDE DEF f, k
    <3> QED BY <2>1, ClosedRead
  <2>3. ReadToTheEnd(inspect(g), r, dir.entries)
    BY <2>2
  <2> HIDE DEF r
  <2> QED BY <1>14, <2>3 DEF ReadToTheEnd
<1> HIDE DEF r
<1> DEFINE used == {q \in 1..Len(disk) : disk[q]}
           blocks(x) == DivCeil(x, G * E)
<1>16. ASSUME used # {}
       PROVE  /\ CorrectlyBuilt(g)
              /\ blocks(Max(used)) = blocks(Len(disk)) => inspect(g).ok = TRUE
  <2>1. DOMAIN gd = {q \div E : q \in Used} /\ \A i \in DOMAIN gd : gd[i] \in Nat /\ gd[i] > 0
    BY <1>2, <1>7 DEF StreamTables
  <2>2. used \in SUBSET Nat /\ \A q \in used : q <= N
    BY <1>8
  <2>3. PICK m \in used : \A q \in used : q <= m
    <3> HIDE DEF used
    <3> QED BY <1>2, <1>16, <2>2, GreatestOf
  <2>4. Max(used) = m
    <3>1. used \in SUBSET Int /\ \A q \in used : m >= q
      BY <2>2, <2>3
    <3> HIDE DEF used
    <3> QED BY <2>3, <3>1, MaxIs
  <2> DEFINE w == m - 1
             l == w \div E
  <2>5. m = w + 1 /\ w \in Nat /\ w \in Used /\ \A q \in Used : q \in Nat /\ q <= w
    <3>1. m \in 1..Len(disk) /\ disk[m]
      BY <2>3
    <3>2. w \in 0..(Len(disk) - 1) /\ w + 1 = m
      BY <1>2, <3>1
    <3>3. \A q \in Used : q \in Nat /\ q + 1 \in used
      BY <1>2 DEF Used
    <3>4. \A q \in Used : q + 1 <= m
      BY <2>3, <3>3
    <3>5. w \in Used
      BY <3>1, <3>2 DEF Used
    <3> HIDE DEF used
    <3> QED BY <1>2, <3>1, <3>2, <3>3, <3>4, <3>5
  <2> HIDE DEF w
  <2>6. /\ l \in Nat /\ IsLast(l, gd)
        /\ \A i \in DOMAIN gd : i \in 0..(numGTs(o) - 1)
    <3>1. \A q \in Used : q \div E \in Nat /\ q \div E <= l
      <4>1. ASSUME NEW q \in Used PROVE q \div E \in Nat /\ q \div E <= l
        BY <1>3, <2>5, QuotientIs, QuotientMonotone
      <4> QED BY <4>1
    <3>2. l \in DOMAIN gd
      BY <2>1, <2>5
    <3>3. \A i \in DOMAIN gd : i <= l
      <4> HIDE DEF l
      <4> QED BY <2>1, <3>1
    <3>4. ASSUME NEW i \in DOMAIN gd PROVE i \in 0..(numGTs(o) - 1)
      <4>1. PICK q \in Used : i = q \div E
        BY <2>1
      <4>2. q \in 0..(numGrains(o) - 1)
        BY <1>2, <1>8 DEF Used
      <4> QED BY <1>2, <4>1, <4>2, TableOfGrain
    <3>5. l \in Nat
      BY <2>5, <3>1
    <3> HIDE DEF l
    <3> QED BY <3>2, <3>3, <3>4, <3>5 DEF IsLast
  <2> HIDE DEF l
  <2>7. /\ {i \in DOMAIN entries : entries[i] # 0} = DOMAIN gd
        /\ \A i \in DOMAIN gd : entries[i] = gd[i]
    <3>1. \A i \in DOMAIN gd : i \in 0..(n - 1)
      <4> HIDE DEF n
      <4> QED BY <1>4, <2>6
    <3> HIDE DEF n
    <3>2. DOMAIN entries = 0..(n - 1)
      OBVIOUS
    <3>3. \A i \in 0..(n - 1) : entries[i] = IF i \in DOMAIN gd THEN gd[i] ELSE 0
      OBVIOUS
    <3> HIDE DEF entries
    <3> QED BY <2>1, <3>1, <3>2, <3>3
  <2>8. l \in DOMAIN gd /\ DOMAIN gd \in SUBSET Nat
    BY <2>6 DEF IsLast
  <2>9. /\ gd[l] + TableSectors = pos /\ gd[l] - 1 \in DOMAIN f /\ f[gd[l] - 1].type = "GT"
    <3>1. \E i \in DOMAIN gd : /\ IsLast(i, gd) /\ gd[i] + TableSectors = pos
                               /\ gd[i] - 1 \in DOMAIN f /\ f[gd[i] - 1].type = "GT"
      BY <1>2, <1>7, <2>8 DEF StreamLast
    <3>2. ASSUME NEW i \in DOMAIN gd, IsLast(i, gd) PROVE i = l
      <4>1. i \in Nat /\ l \in Nat /\ i <= l /\ l <= i
        BY <2>6, <2>8, <3>2 DEF IsLast
      <4> QED BY <4>1
    <3> HIDE DEF f
    <3> QED BY <3>1, <3>2
  <2>10. CorrectlyBuilt(g)
    <3>1. /\ {i \in DOMAIN dir.entries : dir.entries[i] # 0} = DOMAIN gd
          /\ dir.entries[l] = gd[l]
      BY <1>5, <2>7, <2>8
    <3> HIDE DEF f, k
    <3> QED BY <1>2, <1>4, <1>5, <1>9, <1>10, <2>6, <2>8, <2>9, <3>1, ClosedCorrect
  <2>11. ASSUME blocks(m) = blocks(N) PROVE dir.entries = Mirrored(gd)
    <3>1. k = (l \div G) + 1
      <4>1. DivCeil(numGTs(o), G) = blocks(N)
        BY <1>2, <2>5, BlocksAre
      <4>2. (l \div G) + 1 = blocks(w + 1)
        BY <1>2, <2>5, BlocksAre DEF l
      <4> HIDE DEF blocks, k, N
      <4> QED BY <1>4, <2>5, <2>11, <4>1, <4>2
    <3>2. (CHOOSE i \in DOMAIN gd : IsLast(i, gd)) = l
      <4>1. ASSUME NEW i \in DOMAIN gd, IsLast(i, gd) PROVE i = l
        <5>1. i \in Nat /\ l \in Nat /\ i <= l /\ l <= i
          BY <2>6, <2>8, <4>1 DEF IsLast
        <5> QED BY <5>1
      <4> QED BY <2>6, <2>8, <4>1
    <3>3. Mirrored(gd) = Filled(gd, 0, G * ((l \div G) + 1))
      BY <2>8, <3>2 DEF Mirrored
    <3>4. Filled(gd, 0, n) = entries
      <4> HIDE DEF n
      <4>1. \A i \in 0..(n - 1) : 0 + i = i
        OBVIOUS
      <4> QED BY <4>1 DEF Filled
    <3> HIDE DEF n, entries, k
    <3> QED BY <1>4, <1>5, <3>1, <3>3, <3>4
  <2> HIDE DEF blocks
  <2> QED BY <1>8, <1>15, <2>4, <2>10, <2>11
<1>17. StreamDone'
  <2>1. disk' = disk /\ N' = N
    BY <1>1
  <2>2. Len(disk) = N /\ inspect(files'[1]).disk = [p \in Used |-> p]
        /\ (used # {} => /\ CorrectlyBuilt(files'[1])
                         /\ (blocks(Max(used)) = blocks(Len(disk)) =>
                               inspect(files'[1]).ok = TRUE /\ inspect(files'[1]).end = "EOS"))
    BY <1>8, <1>11, <1>15, <1>16
  <2>3. Used' = Used /\ used' = used
    BY <1>1 DEF Used
  <2> QED BY <2>1, <2>2, <2>3 DEF StreamDone
<1>18. StreamInv' /\ StreamDoneInv'
  BY <1>1, <1>2, <1>11, <1>17 DEF StreamInv, StreamDoneInv, Copying
<1> QED BY <1>12, <1>18 DEF Rest

----------------------------------------------------------------------------
(* The steps between the extents.                                          *)

LEMMA NothingIs ==
  /\ DOMAIN <<>> = {} /\ [p \in {} |-> p] = <<>> /\ Mirrored(<<>>) = <<>>
<1>1. DOMAIN <<>> = {} /\ [p \in {} |-> p] = <<>>
  OBVIOUS
<1> QED BY <1>1 DEF Mirrored

\* Only the list of the files grows.
LEMMA FilesGrow ==
  ASSUME TypeInv, FilesInv, NEW f, files' = Append(files, f), UNCHANGED <<vmdkType, outsizes>>,
         faults' = {} => faults = {},
         \A i : i = fileNo + 1 /\ files'[i] = f => FileInv(i)'
  PROVE  /\ FilesInv' /\ fileNo' = fileNo + 1 /\ Current' = f /\ fileNo \in Nat
         /\ \A i \in 1..fileNo : files'[i] = files[i]
<1>1. Listed(files)
  BY DEF TypeInv
<1>2. /\ Len(files') = Len(files) + 1 /\ files'[Len(files) + 1] = f
      /\ \A n \in 1..Len(files) : files'[n] = files[n]
  BY <1>1, ListedAppend
<1>3. fileNo' = fileNo + 1 /\ Current' = f /\ fileNo \in Nat
      /\ \A i \in 1..fileNo : files'[i] = files[i]
  BY <1>1, <1>2 DEF fileNo, Current, Listed
<1>4. files'[fileNo + 1] = f
  BY <1>2 DEF fileNo
<1> DEFINE n == fileNo
<1> HIDE DEF n
<1>5. ASSUME NEW i \in 1..n PROVE FileInv(i)'
  <2>1. FileInv(i) /\ files'[i] = files[i]
    BY <1>3 DEF n, FilesInv
  <2> QED BY <2>1, FileKept
<1>6. ASSUME NEW i, i = n + 1 PROVE FileInv(i)'
  BY <1>4, <1>6 DEF n
<1>7. ASSUME NEW i \in 1..(n + 1) PROVE FileInv(i)'
  <2>1. i \in 1..n \/ i = n + 1
    BY <1>3 DEF n
  <2>2. CASE i \in 1..n
    BY <1>5, <2>2
  <2>3. CASE i = n + 1
    BY <1>6, <2>3
  <2> QED BY <2>1, <2>2, <2>3
<1>8. FilesInv'
  BY <1>3, <1>7 DEF FilesInv, n
<1> QED BY <1>3, <1>8

LEMMA OpenFailsStep ==
  ASSUME TypeInv, Rest, OpenFails
  PROVE  Rest'
<1>1. /\ pc = "header" /\ pc' = pc /\ files' = Append(files, <<>>) /\ faults' # {}
      /\ UNCHANGED <<vmdkType, size, disk, outsizes, lba, table, gd, pos>>
  BY DEF OpenFails
<1>2. ASSUME NEW i, files'[i] = <<>> PROVE FileInv(i)'
  <2>1. DOMAIN <<>> = {}
    BY NothingIs
  <2> QED BY <1>1, <1>2, <2>1 DEF FileInv, IsFile, Packed, NoGaps
<1>3. FilesInv' /\ fileNo' = fileNo + 1 /\ fileNo \in Nat
  BY <1>1, <1>2, FilesGrow DEF Rest
<1>4. SparseInv' /\ SparseDoneInv' /\ StreamInv' /\ StreamDoneInv'
  BY <1>1, <1>3 DEF SparseInv, SparseDoneInv, StreamInv, StreamDoneInv, Copying
<1> QED BY <1>3, <1>4 DEF Rest

LEMMA OpenExtentStep ==
  ASSUME TypeInv, Rest, OpenExtent
  PROVE  Rest'
<1> DEFINE n == fileNo
           o == outsizes[n + 1]
           h == Header(vmdkType, o)
           f == Prologue(h)
           G == GRAINSECTORS
<1>1. /\ pc = "header" /\ pc' = "copy" /\ n < Len(outsizes) /\ files' = Append(files, f)
      /\ pos' = h.overHead /\ lba' = 0 /\ table' = <<>> /\ gd' = <<>>
      /\ UNCHANGED <<vmdkType, size, disk, outsizes, faults>>
  BY DEF OpenExtent
<1>2. Planned /\ size \in Sizes /\ Listed(files) /\ disk \in Seq(BOOLEAN)
  BY <1>1 DEF TypeInv
<1>3. /\ SplitsUp(outsizes, size) /\ Before(1) = 0
      /\ size \in Nat \ {0} /\ numGrains(size) \in Nat \ {0}
      /\ (vmdkType = Stream => Len(outsizes) = 1) /\ vmdkType \in {Mono, TwoGb, Stream}
  BY <1>2, PlanIs
<1>4. n \in Nat /\ Len(outsizes) \in Nat /\ n + 1 \in 1..Len(outsizes) /\ Len(disk) \in Nat
  <2>1. n \in Nat
    BY <1>2 DEF Listed, fileNo
  <2> QED BY <1>1, <1>2, <1>3, <2>1 DEF SplitsUp
<1>5. Sectored(o) /\ o \in Nat \ {0}
  BY <1>3, <1>4 DEF SplitsUp, Sectored
<1>6. IsFile(f) /\ Packed(f) /\ 0 \in DOMAIN f /\ f[0] = HeaderObj(h)
      /\ (vmdkType = Stream => /\ EndsBy(f, G) /\ h.overHead = G
                               /\ \A s \in DOMAIN f : f[s].kind \in {"header", "descriptor"})
      /\ (vmdkType # Stream =>
            /\ EndsBy(f, h.overHead) /\ RoomForTables(f, h, o)
            /\ {h.rgdOffset, h.gdOffset} \subseteq DOMAIN f
            /\ f[h.rgdOffset] = Directory(h.rgdOffset, o)
            /\ f[h.gdOffset] = Directory(h.gdOffset, o))
  <2>1. CASE vmdkType = Stream
    <3>1. h.descriptor = DescriptorSize /\ h.overHead = G
      BY <2>1 DEF Header, Stream, TwoGb
    <3>2. f = Over(At(0, HeaderObj(h)),
                   IF h.descriptor = 0 THEN <<>> ELSE At(1, [kind |-> "descriptor"]))
      BY <2>1 DEF Prologue
    <3> HIDE DEF h, f
    <3>3. /\ IsFile(f) /\ Packed(f) /\ EndsBy(f, 1 + h.descriptor)
          /\ 0 \in DOMAIN f /\ f[0] = HeaderObj(h)
          /\ \A s \in DOMAIN f : f[s].kind \in {"header", "descriptor"}
      BY <3>1, <3>2, HeadIs
    <3>4. EndsBy(f, G)
      <4>1. 1 + h.descriptor \in Nat /\ G \in Nat /\ 1 + h.descriptor <= G
        BY <3>1, GeometryIs
      <4> QED BY <3>3, <4>1, EndsLater
    <3> QED BY <2>1, <3>1, <3>3, <3>4
  <2>2. CASE vmdkType # Stream
    <3>1. vmdkType \in {Mono, TwoGb}
      BY <1>3, <2>2
    <3> QED BY <1>5, <2>2, <3>1, SparsePrologue
  <2> QED BY <2>1, <2>2
<1> HIDE DEF f
<1>7. /\ FilesInv' /\ fileNo' = n + 1 /\ Current' = f
      /\ \A i \in 1..n : files'[i] = files[i]
  <2>1. ASSUME NEW i, i = fileNo + 1, files'[i] = f PROVE FileInv(i)'
    <3>1. H(i)' = h
      BY <1>1, <2>1 DEF H, Header
    <3>2. vmdkType = Stream => NoGaps(f, G)
      <4>1. vmdkType = Stream => \A s \in DOMAIN f : s \in Nat /\ ~(s > G)
        BY <1>6, GeometryIs DEF IsFile, EndsBy
      <4> QED BY <4>1 DEF NoGaps
    <3> HIDE DEF h
    <3> QED BY <1>1, <1>6, <2>1, <3>1, <3>2 DEF FileInv
  <2> QED BY <1>1, <2>1, FilesGrow DEF Rest
<1>8. Outsize' = o
  BY <1>1, <1>7 DEF Outsize
<1>9. SparseInv'
  <2> SUFFICES ASSUME vmdkType # Stream PROVE SparseInv'
    BY <1>1 DEF SparseInv
  <2> DEFINE first == Before(n + 1)
  <2>1. first \in Nat /\ numGrains(o) \in Nat
    BY <1>3, <1>4, <1>5, GrainsOf DEF SplitsUp
  <2>2. faults = {} => Len(disk) = first + 0
    <3> SUFFICES ASSUME faults = {} PROVE Len(disk) = first
      BY <2>1
    <3>1. Len(disk) = IF n = 0 THEN 0 ELSE Before(n) + numGrains(outsizes[n])
      BY <1>1 DEF Rest, SparseDoneInv
    <3>2. CASE n = 0
      BY <1>3, <3>1, <3>2
    <3>3. CASE n # 0
      <4>1. n \in 1..Len(outsizes) /\ n < Len(outsizes)
        BY <1>1, <1>4, <3>3
      <4>2. Before(n) + numGrains(outsizes[n]) = Before(n + 1)
        BY <1>3, <4>1 DEF SplitsUp
      <4> QED BY <3>1, <3>3, <4>2
    <3> QED BY <3>2, <3>3
  <2>3. Entered(<<>>, disk, size, f, first, 0, h.overHead)
    <3>1. DOMAIN <<>> = {} /\ 0..(0 - 1) = {}
      BY NothingIs
    <3> QED BY <3>1 DEF Entered
  <2>4. h.overHead \in Nat
    <3>1. vmdkType \in {Mono, TwoGb}
      BY <1>3
    <3> QED BY <1>5, <3>1, SparseHeaderIs
  <2>5. H(fileNo)' = h
    BY <1>1, <1>7 DEF H, Header
  <2>6. Before(fileNo)' = first
    BY <1>7 DEF Before
  <2>7. faults' = {} => /\ Len(disk') = first + lba'
                        /\ Entered(table', disk', size', f, first, lba', h.overHead)
    BY <1>1, <2>2, <2>3
  <2>8. lba' <= numGrains(o) /\ pos' >= h.overHead /\ EndsBy(f, pos')
    BY <1>1, <1>6, <2>1, <2>4
  <2> HIDE DEF n, first, h, o
  <2> QED BY <1>6, <1>7, <1>8, <2>5, <2>6, <2>7, <2>8 DEF SparseInv
<1>10. SparseDoneInv'
  <2> SUFFICES ASSUME vmdkType # Stream, faults = {}, NEW i \in 1..n PROVE SparseDone(i)'
    BY <1>1, <1>4, <1>7 DEF SparseDoneInv
  <2>1. SparseDone(i) /\ files'[i] = files[i]
    BY <1>1, <1>7 DEF Rest, SparseDoneInv
  <2>2. /\ H(i)' = H(i)
        /\ Restores(Before(i), numGrains(outsizes[i]))' =
             Restores(Before(i), numGrains(outsizes[i]))
    BY <1>1 DEF H, Header, Restores, InGrain, Before
  <2> QED BY <2>1, <2>2 DEF SparseDone
<1>11. StreamInv' /\ StreamDoneInv'
  <2> SUFFICES ASSUME vmdkType = Stream PROVE StreamInv'
    BY <1>1 DEF StreamDoneInv, StreamInv
  <2>1. n = 0 /\ fileNo' = 1 /\ disk = <<>> /\ h.overHead = G /\ G \in Nat \ {0}
    <3>1. n = 0
      <4> DEFINE l == Len(outsizes)
      <4>1. l = 1 /\ n < l /\ n \in Nat
        BY <1>1, <1>3, <1>4
      <4> HIDE DEF l, n
      <4> QED BY <4>1
    <3> QED BY <1>1, <1>6, <1>7, <3>1, GeometryIs DEF Rest, StreamDoneInv
  <2>2. Used' = {} /\ Len(disk) = 0
    <3>1. Len(disk) = 0
      BY <2>1
    <3>2. 0..(0 - 1) = {}
      OBVIOUS
    <3> QED BY <1>1, <3>1, <3>2 DEF Used
  <2>3. StreamFile'
    <3>1. MarkersPaired(f)
      BY <1>6 DEF MarkersPaired
    <3> HIDE DEF h
    <3> QED BY <1>1, <1>6, <1>7, <2>1, <3>1 DEF StreamFile
  <2>4. StreamLoop'
    <3>1. MoreGrains(lba)'
      <4>1. SECTORS(Outsize)' \in Nat
        BY <1>5, <1>8 DEF Sectored, SECTORS
      <4>2. 0 * GRAINSECTORS = 0
        BY <2>1
      <4> QED BY <1>1, <4>1, <4>2 DEF MoreGrains
    <3>2. lba' <= numGrains(size)' /\ Len(disk') = lba'
      BY <1>1, <1>3, <2>2
    <3> QED BY <1>1, <3>1, <3>2 DEF StreamLoop
  <2>5. DOMAIN table' = {} /\ DOMAIN gd' = {}
    BY <1>1, NothingIs
  <2>6. StreamTables' /\ StreamLast'
    BY <2>2, <2>5 DEF StreamTables, StreamLast
  <2>7. StreamRead'
    <3>1. pos' - G = 0 /\ f[0].header.overHead = G
      BY <1>1, <1>6, <2>1 DEF HeaderObj
    <3>2. Reading(f)[0] = Unread
      BY <2>1, <3>1, ReadingIs
    <3>3. Reading(f)[pos' - GRAINSECTORS] = Unread
      BY <3>1, <3>2
    <3>4. Unread = Built(NoEntries(GTEPERGT), -1, <<>>, <<>>)
      BY DEF Unread, Built
    <3>5. Unread.lba = -1
      BY DEF Unread
    <3>6. Filled(table', CurrentTable' * GTEPERGT, GTEPERGT) = NoEntries(GTEPERGT)
      BY <2>5, FilledNothing
    <3>7. Mirrored(gd') = <<>> /\ [p \in Used' |-> p] = <<>>
      BY <1>1, <2>2, NothingIs
    <3>8. Unread = Built(Filled(table', CurrentTable' * GTEPERGT, GTEPERGT), Unread.lba,
                         Mirrored(gd'), [p \in Used' |-> p])
      BY <3>4, <3>5, <3>6, <3>7
    <3> QED BY <1>7, <2>5, <3>3, <3>8 DEF StreamRead
  <2> QED BY <2>3, <2>4, <2>6, <2>7 DEF StreamInv
<1> QED BY <1>7, <1>9, <1>10, <1>11 DEF Rest

LEMMA PlanExtentsStep ==
  ASSUME TypeInv, Rest, PlanExtents
  PROVE  Rest'
<1>1. /\ pc = "open" /\ pc' = "header"
      /\ UNCHANGED <<size, disk, files, lba, table, gd, pos, faults>>
  BY DEF PlanExtents
<1>2. files = <<>> /\ disk = <<>> /\ faults = {}
  BY <1>1 DEF TypeInv
<1>3. fileNo = 0 /\ fileNo' = 0 /\ Len(disk) = 0 /\ 1..0 = {}
  BY <1>1, <1>2 DEF fileNo
<1>4. FilesInv'
  BY <1>3 DEF FilesInv
<1>5. SparseDoneInv'
  BY <1>1, <1>3 DEF SparseDoneInv
<1>6. SparseInv' /\ StreamInv' /\ StreamDoneInv'
  BY <1>1, <1>2, <1>3 DEF SparseInv, StreamInv, StreamDoneInv, Copying
<1> QED BY <1>4, <1>5, <1>6 DEF Rest

\* A step that touches nothing but pc keeps what was written.
LEMMA FilesUntouched ==
  ASSUME Rest, UNCHANGED <<vmdkType, size, disk, outsizes, files, lba, table, gd, pos, faults>>
  PROVE  /\ FilesInv' /\ fileNo' = fileNo /\ Current' = Current /\ Outsize' = Outsize
         /\ \A i : /\ H(i)' = H(i)
                   /\ (SparseDone(i) => SparseDone(i)')
         /\ Used' = Used /\ (StreamDone => StreamDone')
<1>1. fileNo' = fileNo /\ Current' = Current /\ Outsize' = Outsize
  BY DEF fileNo, Current, Outsize
<1>2. ASSUME NEW i
      PROVE  /\ H(i)' = H(i) /\ files'[i] = files[i]
             /\ Restores(Before(i), numGrains(outsizes[i]))' =
                  Restores(Before(i), numGrains(outsizes[i]))
  BY DEF H, Header, Restores, InGrain, Before
<1>3. ASSUME NEW i, SparseDone(i) PROVE SparseDone(i)'
  BY <1>2, <1>3 DEF SparseDone
<1>4. FilesInv'
  <2>1. ASSUME NEW i \in 1..fileNo PROVE FileInv(i)'
    <3>1. FileInv(i)
      BY DEF Rest, FilesInv
    <3> QED BY <1>2, <3>1, FileKept
  <2> QED BY <1>1, <2>1 DEF FilesInv
<1>5. Used' = Used /\ (StreamDone => StreamDone')
  BY DEF Used, StreamDone
<1> QED BY <1>1, <1>2, <1>3, <1>4, <1>5

LEMMA QuietStep ==
  ASSUME TypeInv, Rest, WriteFails \/ Exit \/ Exited \/ UNCHANGED vars
  PROVE  Rest'
<1>1. /\ UNCHANGED <<vmdkType, size, disk, outsizes, files, lba, table, gd, pos, faults>>
      /\ \/ pc' = pc
         \/ pc' = "exit1" /\ vmdkType = Stream
         \/ pc = "header" /\ pc' = "exit0"
  BY DEF WriteFails, Exit, Exited, vars
<1>2. /\ FilesInv' /\ fileNo' = fileNo /\ Current' = Current /\ Outsize' = Outsize
      /\ \A i : /\ H(i)' = H(i)
                /\ (SparseDone(i) => SparseDone(i)')
      /\ Used' = Used /\ (StreamDone => StreamDone')
  BY <1>1, FilesUntouched
<1>3. SparseDoneInv'
  BY <1>1, <1>2 DEF Rest, SparseDoneInv
<1>4. StreamDoneInv'
  BY <1>1, <1>2 DEF Rest, StreamDoneInv
<1>5. SparseInv'
  <2>1. SparseInv /\ Before(fileNo)' = Before(fileNo) /\ H(fileNo)' = H(fileNo)
    BY <1>1, <1>2 DEF Rest, Before, H, Header
  <2> QED BY <1>1, <1>2, <2>1 DEF SparseInv
<1>6. StreamInv'
  <2> SUFFICES ASSUME vmdkType = Stream, Copying, pc' = pc PROVE StreamInv'
    BY <1>1 DEF StreamInv, Copying
  <2>1. CurrentTable' = CurrentTable
    BY <1>1 DEF CurrentTable
  <2>2. StreamFile /\ StreamLoop /\ StreamTables /\ StreamLast /\ StreamRead
    BY DEF Rest, StreamInv
  <2>3. StreamFile' /\ StreamLast'
    BY <1>1, <1>2, <2>2 DEF StreamFile, StreamLast
  <2>4. StreamLoop'
    BY <1>1, <1>2, <2>2 DEF StreamLoop, MoreGrains
  <2>5. StreamTables'
    BY <1>1, <1>2, <2>1, <2>2 DEF StreamTables
  <2>6. StreamRead'
    BY <1>1, <1>2, <2>1, <2>2 DEF StreamRead
  <2> QED BY <2>3, <2>4, <2>5, <2>6 DEF StreamInv
<1> QED BY <1>2, <1>3, <1>4, <1>5, <1>6 DEF Rest

----------------------------------------------------------------------------
(* The theorems.                                                           *)

LEMMA RestInit == Init => Rest
<1> SUFFICES ASSUME Init PROVE Rest
  OBVIOUS
<1>1. pc = "open" /\ files = <<>> /\ disk = <<>> /\ faults = {}
  BY DEF Init
<1>2. fileNo = 0 /\ 1..0 = {}
  BY <1>1 DEF fileNo
<1> QED BY <1>1, <1>2 DEF Rest, FilesInv, SparseInv, SparseDoneInv, StreamInv, StreamDoneInv,
                          Copying

LEMMA RestStep == TypeInv /\ Rest /\ [Next]_vars => Rest'
<1> SUFFICES ASSUME TypeInv, Rest, [Next]_vars PROVE Rest'
  OBVIOUS
<1>1. CASE PlanExtents
  BY <1>1, PlanExtentsStep
<1>2. CASE OpenExtent
  BY <1>2, OpenExtentStep
<1>3. CASE OpenFails
  BY <1>3, OpenFailsStep
<1>4. CASE \E data, written \in BOOLEAN : CopyGrain(data, written)
  BY <1>4, CopyGrainStep
<1>5. CASE EndExtent
  BY <1>5, EndExtentStep
<1>6. CASE \E data \in BOOLEAN, n \in {1, GRAINSECTORS + 1} : CompressGrain(data, n)
  BY <1>6, CompressGrainStep
<1>7. CASE CloseTable
  BY <1>7, CloseTableStep
<1>8. CASE Finish
  BY <1>8, FinishStep
<1>9. CASE WriteFails \/ Exit \/ Exited \/ UNCHANGED vars
  BY <1>9, QuietStep
<1> QED BY <1>1, <1>2, <1>3, <1>4, <1>5, <1>6, <1>7, <1>8, <1>9 DEF Next

\* Whatever the geometry of the format, the size of the disk and the pattern of its zero
\* grains: the objects raw2vmdk has written lie apart and lead to each other, and what a
\* reader has rebuilt from the file so far is what was read from the disk so far.
THEOREM InvariantHolds == Spec => []ExtentInv
<1>1. Init => ExtentInv
  BY TypeInit, RestInit DEF ExtentInv, Rest
<1>2. ExtentInv /\ [Next]_vars => ExtentInv'
  BY TypeStep, RestStep DEF ExtentInv, Rest
<1> QED BY <1>1, <1>2, PTL DEF Spec

\* At the end of a copy that met no fault every extent was written, begins with its header
\* and was read back.
LEMMA CopiedIs ==
  ASSUME ExtentInv, Copied
  PROVE  /\ pc = "exit0" /\ faults = {} /\ fileNo = Len(outsizes)
         /\ size \in Sizes /\ Planned /\ SplitsUp(outsizes, size)
         /\ \A n \in 1..Len(outsizes) :
              FileInv(n) /\ 0 \in DOMAIN files[n] /\ files[n][0].header = H(n)
<1>1. pc = "exit0" /\ faults = {}
  BY DEF Copied
<1>2. fileNo = Len(outsizes) /\ size \in Sizes /\ Planned
  BY <1>1 DEF ExtentInv, TypeInv
<1>3. SplitsUp(outsizes, size)
  BY <1>2, PlanIs
<1>4. ASSUME NEW n \in 1..Len(outsizes)
      PROVE  FileInv(n) /\ 0 \in DOMAIN files[n] /\ files[n][0].header = H(n)
  <2>1. FileInv(n)
    BY <1>2 DEF ExtentInv, FilesInv
  <2>2. 0 \in DOMAIN files[n] /\ files[n][0] = HeaderObj(H(n))
    BY <1>1, <2>1 DEF FileInv
  <2> QED BY <2>1, <2>2 DEF HeaderObj
<1> QED BY <1>1, <1>2, <1>3, <1>4

\* A grain is short only as the last one of a disk that does not end with a grain.
LEMMA ShortIs ==
  ASSUME size \in Nat \ {0}, NEW k \in 0..(numGrains(size) - 1)
  PROVE  InGrain(size, k) = GRAINSIZE <=> ~(k = numGrains(size) - 1 /\ size % GRAINSIZE # 0)
<1> DEFINE G == GRAINSIZE
           N == numGrains(size)
           q == size \div G
           m == size % G
<1>1. G \in Nat \ {0} /\ N \in Nat /\ k \in Nat /\ k < N
  BY GeometryIs, GrainsOf
<1>2. /\ k * G < size
      /\ (k + 1) * G < size <=> k + 1 < N
  BY <1>1, GrainsOf
<1>3. q \in Nat /\ m \in 0..(G - 1) /\ size = q * G + m
  BY <1>1, QuotientIs
<1>8. ASSUME NEW i \in Nat, size = i * G PROVE m = 0
  <2> HIDE DEF G
  <2> QED BY <1>1, <1>8, NoRemainder DEF m
<1>4. InGrain(size, k) = IF size - k * G <= G THEN size - k * G ELSE G
  BY <1>1, MinOfTwo DEF InGrain
<1> HIDE DEF G, N, q, m
<1>5. (k + 1) * G = k * G + G /\ k * G \in Nat
  BY <1>1
<1>6. CASE k + 1 < N
  <2>1. ~(size - k * G <= G)
    BY <1>1, <1>2, <1>5, <1>6
  <2> QED BY <1>1, <1>4, <1>6, <2>1 DEF G, N, m
<1>7. CASE k = N - 1
  <2>1. size - k * G <= G
    BY <1>1, <1>2, <1>5, <1>7
  <2>2. InGrain(size, k) = G <=> size = (k + 1) * G
    BY <1>4, <1>5, <2>1, <1>1
  <2>3. size = (k + 1) * G => m = 0
    <3>1. k + 1 \in Nat
      BY <1>1
    <3> QED BY <1>8, <3>1
  <2>4. m = 0 => size = (k + 1) * G
    <3> SUFFICES ASSUME m = 0 PROVE size = (k + 1) * G
      OBVIOUS
    <3>1. size = q * G
      BY <1>1, <1>3
    <3>2. k * G < q * G /\ q * G <= (k + 1) * G
      BY <1>2, <1>5, <2>1, <3>1, <1>1
    <3>3. k < q
      <4>1. ASSUME q <= k PROVE FALSE
        <5>1. q * G <= k * G
          BY <1>1, <1>3, <4>1
        <5>2. q * G \in Nat
          BY <1>1, <1>3
        <5> QED BY <1>5, <3>2, <5>1, <5>2
      <4> QED BY <1>1, <1>3, <4>1
    <3>4. ~(k + 1 < q)
      <4>1. ASSUME k + 2 <= q PROVE FALSE
        <5>1. (k + 2) * G <= q * G /\ (k + 2) * G = (k + 1) * G + G
          BY <1>1, <1>3, <4>1
        <5>2. q * G \in Nat /\ (k + 1) * G \in Nat
          BY <1>1, <1>3
        <5> QED BY <1>1, <3>2, <5>1, <5>2
      <4> QED BY <1>1, <1>3, <4>1
    <3>5. q = k + 1
      BY <1>1, <1>3, <3>3, <3>4
    <3> QED BY <3>1, <3>5
  <2> QED BY <1>7, <2>2, <2>3, <2>4 DEF G, N, m
<1> QED BY <1>1, <1>6, <1>7 DEF G, N, m

LEMMA ReadableIs ==
  ASSUME size \in Nat \ {0}, SplitsUp(outsizes, size), NEW n \in 1..Len(outsizes)
  PROVE  Restores(Before(n), numGrains(outsizes[n])) = Readable(n)
<1> DEFINE b == Before(n)
           m == numGrains(outsizes[n])
           N == numGrains(size)
<1>1. b \in Nat /\ m \in Nat /\ N \in Nat /\ b + m <= N
  BY GrainsOf DEF SplitsUp, Sectored
<1>2. Content(n) = [p \in 0..(m - 1) |-> IF disk[b + p + 1] THEN b + p ELSE Blank]
  BY DEF Content
<1> HIDE DEF b, m, N
<1>3. ASSUME NEW p \in 0..(m - 1)
      PROVE  (IF ~disk[b + p + 1] THEN Blank
              ELSE IF InGrain(size, b + p) = GRAINSIZE THEN b + p ELSE Aborted) =
               IF Content(n)[p] = N - 1 /\ size % GRAINSIZE # 0 THEN Aborted ELSE Content(n)[p]
  <2>1. b + p \in 0..(N - 1) /\ N - 1 \in Nat
    BY <1>1
  <2>2. InGrain(size, b + p) = GRAINSIZE <=> ~(b + p = N - 1 /\ size % GRAINSIZE # 0)
    BY <2>1, ShortIs DEF N
  <2>3. Content(n)[p] = IF disk[b + p + 1] THEN b + p ELSE Blank
    BY <1>2
  <2>4. Blank # N - 1
    BY <2>1 DEF Blank
  <2> QED BY <2>2, <2>3, <2>4
<1>4. DOMAIN Content(n) = 0..(m - 1)
  BY <1>2
<1> QED BY <1>3, <1>4 DEF Restores, Readable, b, m, N

LEMMA CopiedSparse ==
  ASSUME ExtentInv, Copied, vmdkType # Stream
  PROVE  ReadBack
<1>1. /\ pc = "exit0" /\ faults = {} /\ fileNo = Len(outsizes)
      /\ SplitsUp(outsizes, size)
      /\ \A n \in 1..Len(outsizes) :
           FileInv(n) /\ 0 \in DOMAIN files[n] /\ files[n][0].header = H(n)
  BY CopiedIs
<1>2. SparseDoneInv
  BY DEF ExtentInv
<1>3. Len(disk) = numGrains(size)
  <2> DEFINE l == Len(outsizes)
  <2>1. Len(disk) = IF l = 0 THEN 0 ELSE Before(l) + numGrains(outsizes[l])
    BY <1>1, <1>2 DEF SparseDoneInv
  <2>2. l \in Nat \ {0} /\ l \in 1..l
    BY <1>1 DEF SplitsUp
  <2>3. Before(l) + numGrains(outsizes[l]) = numGrains(size)
    BY <1>1, <2>2 DEF SplitsUp
  <2> QED BY <2>1, <2>2, <2>3
<1>5. size \in Nat \ {0}
  BY CopiedIs, GeometryIs
<1>4. ASSUME NEW n \in 1..Len(outsizes)
      PROVE  /\ Restored(files[n], files[n][0].header) = Readable(n)
             /\ Consistent(files[n], files[n][0].header)
  <2>1. SparseDone(n)
    BY <1>1, <1>2 DEF SparseDoneInv
  <2>2. files[n][0].header = H(n)
    BY <1>1
  <2>3. Restores(Before(n), numGrains(outsizes[n])) = Readable(n)
    BY <1>1, <1>5, ReadableIs
  <2> QED BY <2>1, <2>2, <2>3 DEF SparseDone
<1> QED BY <1>3, <1>4 DEF ReadBack

LEMMA CopiedStream ==
  ASSUME ExtentInv, Copied, vmdkType = Stream
  PROVE  StreamDone /\ Len(outsizes) = 1 /\ fileNo = 1
<1>1. pc = "exit0" /\ faults = {} /\ fileNo = Len(outsizes) /\ size \in Sizes /\ Planned
  BY CopiedIs
<1>2. Len(outsizes) = 1
  BY <1>1, PlanIs
<1> QED BY <1>1, <1>2 DEF ExtentInv, StreamDoneInv

LEMMA ReadBackIs == ExtentInv => ReadBack
<1> SUFFICES ASSUME ExtentInv, Copied PROVE ReadBack
  BY DEF ReadBack
<1>1. CASE vmdkType # Stream
  BY <1>1, CopiedSparse
<1>2. CASE vmdkType = Stream
  <2>1. Len(disk) = numGrains(size) /\ inspect(files[1]).disk = [p \in Used |-> p]
    BY <1>2, CopiedStream DEF StreamDone
  <2>2. SplitsUp(outsizes, size) /\ size \in Sizes /\ Planned
    BY CopiedIs
  <2>3. ASSUME NEW n \in 1..Len(outsizes)
        PROVE  inspect(files[n]).disk = [p \in {q \in DOMAIN Content(n) : disk[q + 1]} |-> p]
    <3>1. n = 1
      <4> DEFINE l == Len(outsizes)
      <4>1. l = 1
        BY <1>2, CopiedStream
      <4> HIDE DEF l
      <4> QED BY <4>1 DEF l
    <3>2. Before(1) = 0 /\ Before(1) + numGrains(outsizes[1]) = numGrains(size)
          /\ numGrains(size) \in Nat
      <4> DEFINE l == Len(outsizes)
      <4>1. l = 1
        BY <1>2, CopiedStream
      <4>2. Before(1) = 0 /\ numGrains(size) \in Nat
        BY <2>2, PlanIs
      <4>3. \A i \in 1..l : Before(i) + numGrains(outsizes[i]) =
                              IF i < l THEN Before(i + 1) ELSE numGrains(size)
        BY <2>2 DEF SplitsUp
      <4> HIDE DEF l
      <4> QED BY <4>1, <4>2, <4>3
    <3>3. Sectored(outsizes[1])
      BY <2>2, <2>3, <3>1 DEF SplitsUp
    <3>4. numGrains(outsizes[1]) = numGrains(size)
      <4>1. numGrains(outsizes[1]) \in Nat
        BY <3>3, GrainsOf DEF Sectored
      <4> QED BY <3>2, <4>1
    <3>5. DOMAIN Content(n) = 0..(Len(disk) - 1)
      BY <2>1, <3>1, <3>4 DEF Content
    <3> QED BY <2>1, <3>1, <3>5 DEF Used
  <2> QED BY <1>2, <2>1, <2>3 DEF ReadBack
<1> QED BY <1>1, <1>2

LEMMA FilePackedIs == ExtentInv => FilePacked
<1> SUFFICES ASSUME ExtentInv, NEW n \in 1..Len(files)
             PROVE  /\ Packed(files[n])
                    /\ vmdkType = Stream => NoGaps(files[n], files[n][0].header.overHead)
  BY DEF FilePacked, Packed, NoGaps
<1>1. FileInv(n)
  BY DEF ExtentInv, FilesInv, fileNo
<1>2. Packed(files[n])
  BY <1>1 DEF FileInv
<1>3. ASSUME vmdkType = Stream PROVE NoGaps(files[n], files[n][0].header.overHead)
  <2>1. CASE 0 \in DOMAIN files[n]
    <3>1. files[n][0].header = H(n) /\ NoGaps(files[n], GRAINSECTORS)
      BY <1>1, <1>3, <2>1 DEF FileInv, HeaderObj
    <3>2. H(n).overHead = GRAINSECTORS
      BY <1>3 DEF H, Header
    <3> QED BY <3>1, <3>2
  <2>2. CASE files[n] = <<>>
    BY <2>2, NothingIs DEF NoGaps
  <2> QED BY <1>1, <1>3, <2>1, <2>2 DEF FileInv
<1> QED BY <1>2, <1>3

LEMMA ExtentIsSoundIs == ExtentInv => ExtentIsSound
<1> SUFFICES ASSUME ExtentInv PROVE StreamConsistent
  BY FilePackedIs DEF ExtentIsSound
<1> SUFFICES ASSUME Copied, vmdkType = Stream PROVE StreamConsistent
  BY DEF StreamConsistent
<1>1. StreamDone
  BY CopiedStream
<1> QED BY <1>1 DEF StreamDone, StreamConsistent

\* raw2vmdk exits with 0 and no write failed unseen => inspect-vmdk.py restores every grain
\* of the raw disk that has data, at its place, from whatever extent of whatever format,
\* and finds no other.
THEOREM ReadBackHolds == Spec => []ReadBack
<1>1. Spec => []ExtentInv
  BY InvariantHolds
<1>2. ExtentInv => ReadBack
  BY ReadBackIs
<1> QED BY <1>1, <1>2, PTL

\* At any time no header, descriptor, directory, table, grain or marker of a file lies over
\* another and a stream has no gaps; the directory, tables and footer of a stream that was
\* copied are what its readers compute from the grains.
THEOREM ExtentIsSoundHolds == Spec => []ExtentIsSound
<1>1. Spec => []ExtentInv
  BY InvariantHolds
<1>2. ExtentInv => ExtentIsSound
  BY ExtentIsSoundIs
<1> QED BY <1>1, <1>2, PTL

=============================================================================
