---------------------------- MODULE SparseExtent ----------------------------
(***************************************************************************)
(* raw2vmdk.c: a raw disk is copied, grain by grain, into VMDK files that  *)
(* leave out the grains which hold only zeros.  Three formats:             *)
(*   monolithicSparse      directory, tables, then grains, in one file;    *)
(*   twoGbMaxExtentSparse  the same in several files of bounded size, with *)
(*                         the descriptor in a file of its own;            *)
(*   streamOptimized       compressed grains, each table after its grains, *)
(*                         the directory and a footer at the end.          *)
(* A file is a function from a sector to the object written there.  The    *)
(* reader is scripts/inspect-vmdk.py, which rebuilds the disk.             *)
(***************************************************************************)
EXTENDS Integers, SequencesExt

CONSTANTS
  SECTORSIZE,      \* bytes in a sector (512)
  GRAINSECTORS,    \* sectors in a grain; also directory entries in a sector (128)
  GTEPERGT,        \* entries in a grain table (512)
  OFFSETSIZE,      \* bytes in an entry (4)
  DescriptorSize,  \* sectors the descriptor fills
  MaxExtent,       \* MAX_EXTENT_SIZE_BYTES
  MaxMonolithic,   \* MAX_MONOLITHIC_SIZE
  Sizes            \* sizes in bytes of the raw disks considered

ASSUME SparseAssumption ==
  /\ {SECTORSIZE, GRAINSECTORS, GTEPERGT, OFFSETSIZE, MaxExtent} \subseteq Nat \ {0}
  /\ {DescriptorSize, MaxMonolithic} \subseteq Nat
  /\ Sizes \subseteq Nat \ {0}
  /\ SECTORSIZE = GRAINSECTORS * OFFSETSIZE
  /\ GTEPERGT % GRAINSECTORS = 0
  /\ MaxExtent % (GRAINSECTORS * SECTORSIZE) = 0
  /\ DescriptorSize < GRAINSECTORS

VARIABLES
  vmdkType,   \* the format
  size,       \* size of the raw disk (fileSize)
  disk,       \* the raw disk: the grains read so far, TRUE for one with data
  outsizes,   \* sizes of the extents
  files,      \* one file for each extent: sector -> object
  lba,        \* next grain of the current extent
  table,      \* grainTable or gt: entries set so far, by grain of the extent
  gd,         \* the directory of the streamOptimized format
  pos,        \* sector of the next write of a grain or table
  faults,     \* what went wrong unnoticed: "open", "write"
  pc          \* "open", "header", "copy", "table", "finish", "exit0", "exit1"

vars == <<vmdkType, size, disk, outsizes, files, lba, table, gd, pos, faults, pc>>

Stream == "streamOptimized"
TwoGb  == "twoGbMaxExtentSparse"
Mono   == "monolithicSparse"

----------------------------------------------------------------------------
(* The arithmetic of the layout.                                           *)

DivCeil(x, y) == (x + y - 1) \div y
PAD(x, y) == IF x % y = 0 THEN x ELSE x + y - (x % y)
GRAINSIZE == GRAINSECTORS * SECTORSIZE
SECTORS(x) == x \div SECTORSIZE
TableSectors == (GTEPERGT * OFFSETSIZE) \div SECTORSIZE

numGrains(outsize) == DivCeil(outsize, GRAINSIZE)
numGTs(outsize) == DivCeil(numGrains(outsize), GTEPERGT)
GT0Offset(numgts) == DivCeil(numgts * OFFSETSIZE, SECTORSIZE)
gdSize(numgts) == GRAINSECTORS * DivCeil(numgts, GRAINSECTORS)

MetaDataSize(outsize) == GT0Offset(numGTs(outsize)) + numGTs(outsize) * TableSectors

\* SparseExtentHeader_init; a gdOffset of 0 stands for GD_AT_END.
Header(type, outsize) ==
  LET descriptor == IF type = TwoGb THEN 0 ELSE DescriptorSize
      rgd == IF type = Stream THEN 0
             ELSE Max({descriptor + (IF descriptor = 0 THEN 0 ELSE 1), 1})
      gdo == IF type = Stream THEN 0 ELSE rgd + MetaDataSize(outsize)
  IN  [capacity   |-> SECTORS(outsize),
       descriptor |-> descriptor,
       rgdOffset  |-> rgd,
       gdOffset   |-> gdo,
       overHead   |-> IF type = Stream THEN GRAINSECTORS
                      ELSE PAD(gdo + MetaDataSize(outsize), GRAINSECTORS)]

\* The sizes of the extents of a disk; the last takes what is left.
ExtentSizes(outsize) ==
  LET n == PAD(outsize, MaxExtent) \div MaxExtent
  IN  [i \in 1..n |-> Min({MaxExtent, outsize - (i - 1) * MaxExtent})]

----------------------------------------------------------------------------
(* Objects in a file.  A grain knows the grain of the raw disk (src) it is *)
(* a copy of, and how many bytes of it it holds.                           *)

\* Bytes that the next fread returns.
BytesLeft == size - Len(disk) * GRAINSIZE
Chunk == Min({BytesLeft, GRAINSIZE})

HeaderObj(h)    == [kind |-> "header", header |-> h]
GrainObj(g, n)  == [kind |-> "grain", lba |-> g, sectors |-> n, bytes |-> Chunk,
                    src |-> Len(disk)]
TableObj(t)     == [kind |-> "table", entries |-> t]
DirObj(d)       == [kind |-> "gd", entries |-> d]
MarkerObj(m, n) == [kind |-> "marker", type |-> m, sectors |-> n]

Length(o) ==
  CASE o.kind = "header" -> 1
    [] o.kind = "descriptor" -> DescriptorSize
    [] o.kind = "grain"  -> o.sectors
    [] o.kind = "table"  -> TableSectors
    [] o.kind = "gd"     -> DivCeil(Cardinality(DOMAIN o.entries) * OFFSETSIZE, SECTORSIZE)
    [] o.kind = "marker" -> 1

\* A file with object o at sector s only; what is in new written over what is in old.
\* (The operators :> and @@, in a form that can be reasoned about.)
At(s, o) == [t \in {s} |-> o]
Over(new, old) ==
  [s \in DOMAIN new \cup DOMAIN old |-> IF s \in DOMAIN new THEN new[s] ELSE old[s]]

fileNo == Len(files)
Current == files[fileNo]
Outsize == outsizes[fileNo]
Hdr == Current[0].header

\* The grains of the raw disk before the current extent.
Before(n) == (n - 1) * (MaxExtent \div GRAINSIZE)

\* writeGrainDirectory: entry i is the place of table i, the tables are in a row.
Directory(offset, outsize) ==
  DirObj([i \in 0..(numGTs(outsize) - 1) |->
            offset + GT0Offset(numGTs(outsize)) + i * TableSectors])

\* Table i of an array with an entry for each grain of the extent.
TableAt(i) ==
  TableObj([e \in 0..(GTEPERGT - 1) |->
              IF i * GTEPERGT + e \in DOMAIN table THEN table[i * GTEPERGT + e] ELSE 0])

\* writeGrainTableData: the tables after both copies of the directory.
Tables(h, outsize) ==
  LET n == numGTs(outsize)
      at(o) == [s \in {o + GT0Offset(n) + i * TableSectors : i \in 0..(n - 1)} |->
                  TableAt((s - o - GT0Offset(n)) \div TableSectors)]
  IN  Over(at(h.rgdOffset), at(h.gdOffset))

----------------------------------------------------------------------------
(* main().                                                                 *)

Init ==
  /\ vmdkType \in {Mono, Stream}       \* -s or not
  /\ size \in Sizes
  /\ disk = <<>>
  /\ outsizes = <<>>
  /\ files = <<>>
  /\ lba = 0
  /\ table = <<>>
  /\ gd = <<>>
  /\ pos = 0
  /\ faults = {}
  /\ pc = "open"

\* The size is padded to sectors; a big disk that is not streamed is split.
PlanExtents ==
  LET outsize == PAD(size, SECTORSIZE)
      split   == vmdkType # Stream /\ outsize > MaxMonolithic
  IN  /\ pc = "open"
      /\ outsizes' = IF split THEN ExtentSizes(outsize) ELSE <<outsize>>
      /\ vmdkType' = IF split THEN TwoGb ELSE vmdkType
      /\ pc' = "header"
      /\ UNCHANGED <<size, disk, files, lba, table, gd, pos, faults>>

\* Everything that stands before the first grain.
Prologue(h) ==
  LET descriptor == IF h.descriptor = 0 THEN <<>> ELSE At(1, [kind |-> "descriptor"])
      head == Over(At(0, HeaderObj(h)), descriptor)
      dir(o) == At(o, Directory(o, outsizes[fileNo + 1]))
  IN  IF vmdkType = Stream THEN head
      ELSE Over(dir(h.gdOffset), Over(dir(h.rgdOffset), head))

OpenExtent ==
  /\ pc = "header"
  /\ fileNo < Len(outsizes)
  /\ LET h == Header(vmdkType, outsizes[fileNo + 1])
     IN  /\ files' = Append(files, Prologue(h))
         /\ pos' = h.overHead
  /\ lba' = 0
  /\ table' = <<>>
  /\ gd' = <<>>
  /\ pc' = "copy"
  /\ UNCHANGED <<vmdkType, size, disk, outsizes, faults>>

\* fopen fails: the extent is left out and the input is not moved on.
OpenFails ==
  /\ pc = "header"
  /\ fileNo < Len(outsizes)
  /\ files' = Append(files, <<>>)
  /\ faults' = faults \cup {"open"}
  /\ UNCHANGED <<vmdkType, size, disk, outsizes, lba, table, gd, pos, pc>>

\* mutation: sectors of the input instead of sectors of the file
EntryIsLba(g) == g * GRAINSECTORS

Entry(g) == pos

\* copyData: the next grain of a sparse extent, of which the bytes that were read are
\* written; that fwrite may fail is not looked at.
CopyGrain(data, written) ==
  /\ pc = "copy"
  /\ vmdkType # Stream
  /\ lba < numGrains(Outsize)
  /\ BytesLeft > 0
  /\ ~written => data /\ faults = {}
  /\ disk' = Append(disk, data)
  /\ IF data
     THEN /\ table' = Over(At(lba, Entry(lba)), table)
          /\ pos' = pos + GRAINSECTORS
     ELSE UNCHANGED <<table, pos>>
  /\ files' = IF data /\ written
              THEN [files EXCEPT ![fileNo] =
                      Over(At(pos, GrainObj(lba, DivCeil(Chunk, SECTORSIZE))), @)]
              ELSE files
  /\ faults' = IF written THEN faults ELSE faults \cup {"write"}
  /\ lba' = lba + 1
  /\ UNCHANGED <<vmdkType, size, outsizes, gd, pc>>

\* The end of copyData, also on a short read: the tables are written twice.
EndExtent ==
  /\ pc = "copy"
  /\ vmdkType # Stream
  /\ lba = numGrains(Outsize) \/ BytesLeft <= 0
  /\ files' = [files EXCEPT ![fileNo] = Over(Tables(Hdr, Outsize), @)]
  /\ pc' = "header"
  /\ UNCHANGED <<vmdkType, size, disk, outsizes, lba, table, gd, pos, faults>>

\* The loops over tables and grains run while lba <= SECTORS(outsize).
MoreGrains(g) == g * GRAINSECTORS <= SECTORS(Outsize)

TableFull(g) == g % GTEPERGT = 0

\* The sector behind a compressed grain.
Behind(n) == pos + n

\* writeCompressedGrain: nothing at the end of the input or for zeros; else a marker
\* and compressed data, which need n sectors.  A table is closed when it is full.
CompressGrain(data, n) ==
  /\ pc = "copy"
  /\ vmdkType = Stream
  /\ MoreGrains(lba)
  /\ data => BytesLeft > 0
  /\ disk' = IF BytesLeft > 0 THEN Append(disk, data) ELSE disk
  /\ IF data
     THEN /\ files' = [files EXCEPT ![fileNo] = Over(At(pos, GrainObj(lba, n)), @)]
          /\ table' = Over(At(lba, Entry(lba)), table)
          /\ pos' = Behind(n)
     ELSE UNCHANGED <<files, table, pos>>
  /\ lba' = lba + 1
  /\ pc' = IF TableFull(lba + 1) \/ ~MoreGrains(lba + 1) THEN "table" ELSE "copy"
  /\ UNCHANGED <<vmdkType, size, outsizes, gd, faults>>

\* mutation: the directory is filled in the order the tables are written
NextFree(gtNum) == Cardinality(DOMAIN gd)

Slot(gtNum) == gtNum

\* writeCompressedGrainTable, unless the table is empty.
CloseTable ==
  LET gtNum == (lba - 1) \div GTEPERGT
  IN  /\ pc = "table"
      /\ IF DOMAIN table = {} THEN UNCHANGED <<files, gd, pos>>
         ELSE /\ gd' = Over(At(Slot(gtNum), pos + 1), gd)
              /\ files' = [files EXCEPT ![fileNo] =
                             Over(At(pos + 1, TableAt(gtNum)),
                                  Over(At(pos, MarkerObj("GT", TableSectors)), @))]
              /\ pos' = pos + 1 + TableSectors
      /\ table' = <<>>
      /\ pc' = IF MoreGrains(lba) THEN "copy" ELSE "finish"
      /\ UNCHANGED <<vmdkType, size, disk, outsizes, lba, faults>>

\* The directory, the footer (the header with the place of the directory) and the
\* end-of-stream marker.
Finish ==
  LET n == gdSize(numGTs(Outsize))
      sectors == n \div GRAINSECTORS
      dir == DirObj([i \in 0..(n - 1) |-> IF i \in DOMAIN gd THEN gd[i] ELSE 0])
      footer == [Hdr EXCEPT !.gdOffset = pos + 1]
  IN  /\ pc = "finish"
      /\ files' = [files EXCEPT ![fileNo] =
                     Over(At(pos + 3 + sectors, MarkerObj("EOS", 0)),
                     Over(At(pos + 2 + sectors, HeaderObj(footer)),
                     Over(At(pos + 1 + sectors, MarkerObj("FOOTER", 1)),
                     Over(At(pos + 1, dir),
                     Over(At(pos, MarkerObj("GD", sectors)), @)))))]
      /\ pos' = pos + 4 + sectors
      /\ pc' = "header"
      /\ UNCHANGED <<vmdkType, size, disk, outsizes, lba, table, gd, faults>>

\* _fwrite bails out; the writes of the sparse formats are not looked at.
WriteFails ==
  /\ vmdkType = Stream
  /\ pc \in {"copy", "table", "finish"}
  /\ pc' = "exit1"
  /\ UNCHANGED <<vmdkType, size, disk, outsizes, files, lba, table, gd, pos, faults>>

Exit ==
  /\ pc = "header"
  /\ fileNo = Len(outsizes)
  /\ pc' = "exit0"
  /\ UNCHANGED <<vmdkType, size, disk, outsizes, files, lba, table, gd, pos, faults>>

Exited == pc \in {"exit0", "exit1"} /\ UNCHANGED vars

Next ==
  \/ PlanExtents \/ OpenExtent \/ OpenFails \/ EndExtent \/ CloseTable \/ Finish
  \/ WriteFails \/ Exit \/ Exited
  \/ \E data, written \in BOOLEAN : CopyGrain(data, written)
  \/ \E data \in BOOLEAN, n \in {1, GRAINSECTORS + 1} : CompressGrain(data, n)

Spec == Init /\ [][Next]_vars

----------------------------------------------------------------------------
(* The readers: VMDK.inspect and inspectNonStreamOptimized.                *)

Blank == -1
Aborted == -2
NoEntries(n) == [i \in 0..(n - 1) |-> 0]

\* inspectNonStreamOptimized: the entry of each grain, in the copy of the directory
\* that begins at sector offset.
Entries(f, h, offset) ==
  LET dir == f[offset].entries
  IN  [p \in 0..(DivCeil(h.capacity, GRAINSECTORS) - 1) |->
         f[dir[p \div GTEPERGT]].entries[p % GTEPERGT]]

\* The two copies agree, and the tables follow their directory without a gap.
Consistent(f, h) ==
  LET gte == Entries(f, h, h.gdOffset)
      n   == numGTs(h.capacity * SECTORSIZE)
  IN  /\ gte = Entries(f, h, h.rgdOffset)
      /\ \A p \in DOMAIN gte :
           LET t == h.gdOffset + GT0Offset(n) + (p \div GTEPERGT) * TableSectors
           IN  t \in DOMAIN f /\ f[t].entries[p % GTEPERGT] = gte[p]

\* The grains it writes; it stops at one that is not whole in the file.
Restored(f, h) ==
  LET gte == Entries(f, h, h.gdOffset)
  IN  [p \in DOMAIN gte |-> IF gte[p] = 0 THEN Blank
                            ELSE IF f[gte[p]].bytes = GRAINSIZE THEN f[gte[p]].src ELSE Aborted]

\* GrainTable.add and GrainDirectory.add on what the reader has built so far.
AddGrain(r, s, g) ==
  [r EXCEPT !.gt = [@ EXCEPT ![g.lba % GTEPERGT] = s], !.lba = g.lba \div GTEPERGT,
            !.disk = Over(At(g.lba, g.src), @)]

AddTable(r, s) ==
  LET n == GRAINSECTORS * ((r.lba \div GRAINSECTORS) + 1)
  IN  IF r.gt = NoEntries(GTEPERGT) THEN r
      ELSE [r EXCEPT !.gd = Over(At(r.lba, s + 1), Over(@, NoEntries(n)))]

\* One turn of the loop of inspect() at sector s; what a marker announces is read with it.
Read(f, r, s) ==
  LET o == f[s]
  IN  IF o.kind = "grain" THEN AddGrain(r, s, o)
      ELSE IF o.kind # "marker" THEN r
      ELSE CASE o.type = "GT" -> [AddTable(r, s) EXCEPT
                                    !.ok = @ /\ f[s + 1].entries = r.gt,
                                    !.gt = NoEntries(GTEPERGT)]
             [] o.type = "GD" -> [r EXCEPT !.ok = @ /\ f[s + 1].entries = r.gd, !.end = "GD"]
             [] o.type = "FOOTER" -> [r EXCEPT !.ok = @ /\ r.end = "GD", !.end = "FOOTER"]
             [] o.type = "EOS" -> [r EXCEPT !.ok = @ /\ r.end = "FOOTER", !.end = "EOS"]

Unread == [gt |-> NoEntries(GTEPERGT), lba |-> -1, gd |-> <<>>, disk |-> <<>>,
           ok |-> TRUE, end |-> ""]

\* What the loop has built when it is n sectors behind the header.
Reading(f) ==
  LET read[n \in Nat] ==
        IF n = 0 THEN Unread
        ELSE LET s == f[0].header.overHead + n - 1
             IN  IF s \in DOMAIN f THEN Read(f, read[n - 1], s) ELSE read[n - 1]
  IN  read

inspect(f) == Reading(f)[Max(DOMAIN f) + 1 - f[0].header.overHead]

\* fix-vmdk-gd.py looks for the footer three sectors before the end of the file, for the
\* directory where the footer says, for the last table in it, and finds the image
\* correctly built when nothing but the directory follows that table.
CorrectlyBuilt(f) ==
  LET end == Max(DOMAIN f) + 1
      ft  == end - 2
      at  == f[ft].header.gdOffset
      gts == {i \in DOMAIN f[at].entries : f[at].entries[i] # 0}
      t   == f[at].entries[Max(gts)]
  IN  /\ f[end - 3] = MarkerObj("FOOTER", 1)
      /\ f[at - 1].type = "GD"
      /\ f[t - 1].type = "GT"
      /\ t + TableSectors = at - 1

\* What a reader must find in extent n.
Content(n) ==
  [p \in 0..(numGrains(outsizes[n]) - 1) |->
     IF disk[Before(n) + p + 1] THEN Before(n) + p ELSE Blank]

\* Only the last grain of a disk may be cut short, and where it holds data the reader of a
\* sparse extent stops at it.
Readable(n) ==
  [p \in DOMAIN Content(n) |->
     IF Content(n)[p] = numGrains(size) - 1 /\ size % GRAINSIZE # 0 THEN Aborted
     ELSE Content(n)[p]]

----------------------------------------------------------------------------

Copied == pc = "exit0" /\ faults = {}

\* A copy that ends with 0 and met no fault it ignores holds the whole disk: the reader
\* restores each grain with data at its place, in whatever extent, and nothing else, up to
\* a last grain that raw2vmdk did not pad, which it refuses in a sparse extent.
ReadBack ==
  Copied =>
    /\ Len(disk) = numGrains(size)
    /\ \A n \in 1..Len(outsizes) :
         LET f == files[n]
             h == f[0].header
         IN  IF vmdkType = Stream
             THEN inspect(f).disk = [p \in {q \in DOMAIN Content(n) : disk[q + 1]} |-> p]
             ELSE Restored(f, h) = Readable(n) /\ Consistent(f, h)

\* The tables, the directory and the footer of a stream agree with its grains: the checks
\* of inspect-vmdk.py hold and fix-vmdk-gd.py has nothing to fix, for a disk with a grain
\* of data behind the last block of the directory.
StreamConsistent ==
  Copied /\ vmdkType = Stream =>
    LET f == files[1]
        blocks(n) == DivCeil(n, GRAINSECTORS * GTEPERGT)
        used == {q \in 1..Len(disk) : disk[q]}
    IN  used # {} =>
          /\ CorrectlyBuilt(f)
          /\ blocks(Max(used)) = blocks(Len(disk)) => inspect(f).ok /\ inspect(f).end = "EOS"

\* Nothing in a file is written over: header, descriptor, directories, tables, grains
\* and markers lie apart, and a stream has no gaps behind its first grain, so that it
\* can be read from the front.
FilePacked ==
  \A n \in 1..Len(files) :
    LET f == files[n]
    IN  /\ \A s, t \in DOMAIN f : s < t => s + Length(f[s]) <= t
        /\ vmdkType = Stream =>
             \A t \in DOMAIN f : t > f[0].header.overHead =>
               \E s \in DOMAIN f : s + Length(f[s]) = t

\* Every file of a copy is a sound extent: packed, and a stream consistent with itself.
ExtentIsSound == FilePacked /\ StreamConsistent

\* "Pad the file to be grain aligned (RBL-3487)": the grains of a sparse extent that was
\* copied are whole grains.
GrainAligned ==
  Copied /\ vmdkType # Stream =>
    \A n \in 1..Len(files) : \A s \in DOMAIN files[n] :
      files[n][s].kind = "grain" => files[n][s].bytes = GRAINSIZE
=============================================================================
