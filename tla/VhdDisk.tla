------------------------------ MODULE VhdDisk ------------------------------
(***************************************************************************)
(* The Virtual PC image of a raw disk: createVHD (generators/vpc.py) and   *)
(* the three formats of generators/vhd.py.  The raw disk is the one that   *)
(* DiskLayout lays out, with the geometry its sizes are aligned to.  A     *)
(* file is a function from a sector to the object that begins there.       *)
(***************************************************************************)
EXTENDS DiskLayout, SequencesExt, FiniteSetsExt

CONSTANTS
  MaxCylinders,     \* what diskGeometry has room for (65535)
  sectorsPerBlock   \* of a DataBlock (4096), as many as a sector of bitmap has bits

ASSUME VhdAssumption == MaxCylinders \in Nat /\ sectorsPerBlock \in Nat \ {0}

VARIABLES
  vhdDiskType,  \* "fixed", "difference" or "dynamic"
  vpc,          \* "raw", "head", "blocks", "link", "done", "failed"
  raw,          \* the blocks read: [len, nonzero], nonzero a set of sectors
  vhd,          \* the file, the base of a difference
  bat,          \* BlockAllocationTable, in memory
  diff          \* the difference

vhdVars == <<vhdDiskType, vpc, raw, vhd, bat, diff>>

Unused == -1   \* 0xFFFFFFFF
imageSectors == totalSize \div BLOCK
numBatEntries == divCeil(imageSectors, sectorsPerBlock)
batSectors == divCeil(4 * numBatEntries, BLOCK)

Cylinders(bytes) == divCeil(bytes, bytesPerCylinder)

Footer(type) ==
  [kind |-> "footer", diskType |-> type, size |-> totalSize, cylinders |-> Cylinders(totalSize),
   dataOffset |-> IF type = "fixed" THEN Unused ELSE 1]
Header(parent, locators) ==
  [kind |-> "header", tableOffset |-> 3, maxTableEntries |-> numBatEntries, parent |-> parent,
   locators |-> locators]
Bat(entries) == [kind |-> "bat", entries |-> entries]
DataBlock(len, nonzero) == [kind |-> "block", len |-> len, data |-> nonzero]

\* The bit of a sector; setData compares the sectors that a short block lacks with one of
\* zeros, and touches them.
Touched(o, s) == s \in o.data \/ s >= o.len

isEmpty(o) == o.data = {} /\ o.len = sectorsPerBlock

\* Sectors that an object takes.  A header takes two, a block a sector of bitmap more.
Length(o) ==
  CASE o.kind = "header" -> 2
    [] o.kind = "bat" -> batSectors
    [] o.kind = "block" -> 1 + o.len
    [] o.kind = "raw" -> imageSectors
    [] OTHER -> 1

tell(f) == LET s == Max(DOMAIN f) IN s + Length(f[s])

\* The file with one object more at its end.
Written(f, o) == [s \in DOMAIN f \cup {tell(f)} |-> IF s = tell(f) THEN o ELSE f[s]]

InitVhd ==
  /\ InitLayout
  /\ vhdDiskType \in {"fixed", "difference", "dynamic"} /\ vpc = "raw"
  /\ raw = <<>> /\ vhd = <<>> /\ bat = <<>> /\ diff = <<>>

\* makeHDImage has made the disk.  originalSize sets the geometry, with 16 bits for the
\* cylinders.
Begin ==
  /\ layout = "done" /\ vpc = "raw"
  /\ vpc' = IF Cylinders(totalSize) > MaxCylinders THEN "failed"
            ELSE IF vhdDiskType = "fixed" THEN "flat" ELSE "head"
  /\ UNCHANGED <<layoutVars, vhdDiskType, raw, vhd, bat, diff>>

makeFlat ==
  /\ vpc = "flat" /\ vpc' = "done"
  /\ vhd' = [s \in {0, imageSectors} |-> IF s = 0 THEN [kind |-> "raw"] ELSE Footer("fixed")]
  /\ UNCHANGED <<layoutVars, vhdDiskType, raw, bat, diff>>

\* makeDynamic: the footer, the header and a table with no blocks.
WriteHead ==
  /\ vpc = "head" /\ vpc' = "blocks"
  /\ bat' = [k \in 1 .. numBatEntries |-> Unused]
  /\ vhd' = [s \in {0, 1, 3} |-> CASE s = 0 -> Footer("dynamic") [] s = 1 -> Header("", <<>>)
                                   [] s = 3 -> Bat(bat')]
  /\ UNCHANGED <<layoutVars, vhdDiskType, raw, diff>>

\* mutation: the place after the block is noted
PlaceBehind(o) == tell(vhd) + Length(o)

Place(o) == tell(vhd)

\* One turn of the loop: the next block, written unless it is empty.
WriteBlock ==
  LET len == IF imageSectors - Len(raw) * sectorsPerBlock < sectorsPerBlock
             THEN imageSectors - Len(raw) * sectorsPerBlock ELSE sectorsPerBlock
  IN  /\ vpc = "blocks" /\ len > 0
      /\ \E nonzero \in SUBSET {0, len - 1} :
           LET o == DataBlock(len, nonzero) IN
           /\ raw' = Append(raw, [len |-> len, nonzero |-> nonzero])
           /\ IF isEmpty(o) THEN UNCHANGED <<vhd, bat>>
              ELSE /\ bat' = [bat EXCEPT ![Len(raw) + 1] = Place(o)]
                   /\ vhd' = Written(vhd, o)
      /\ UNCHANGED <<layoutVars, vhdDiskType, vpc, diff>>

\* The footer again, and the table over the empty one.
Close ==
  /\ vpc = "blocks" /\ Len(raw) * sectorsPerBlock >= imageSectors
  /\ vhd' = Written([vhd EXCEPT ![3] = Bat(bat)], Footer("dynamic"))
  /\ vpc' = IF vhdDiskType = "difference" THEN "link" ELSE "done"
  /\ UNCHANGED <<layoutVars, vhdDiskType, raw, bat, diff>>

\* makeDifference: the footer is the last one of the base; the header names the base and
\* the two places that spell its name.
makeDifference ==
  LET footer == [vhd[Max(DOMAIN vhd)] EXCEPT !.diskType = "difference"]
      loc1 == 3 + batSectors
  IN  /\ vpc = "link" /\ vpc' = "done"
      /\ diff' = [s \in {0, 1, 3} \cup loc1 .. loc1 + 2 |->
                    CASE s \in {0, loc1 + 2} -> footer
                      [] s = 1 -> Header("base", <<loc1, loc1 + 1>>)
                      [] s = 3 -> Bat([k \in 1 .. numBatEntries |-> Unused])
                      [] s \in {loc1, loc1 + 1} -> [kind |-> "locator"]]
      /\ UNCHANGED <<layoutVars, vhdDiskType, raw, vhd, bat>>

EndedVhd == vpc \in {"done", "failed"} \/ layout = "overflow"

NextVhd ==
  \/ NextLayout /\ layout # "done" /\ UNCHANGED vhdVars
  \/ Begin \/ makeFlat \/ WriteHead \/ WriteBlock \/ Close \/ makeDifference
  \/ EndedVhd /\ UNCHANGED <<layoutVars, vhdVars>>

SpecVhd == InitVhd /\ [][NextVhd]_<<layoutVars, vhdVars>>

-----------------------------------------------------------------------------

\* What a reader of a dynamic disk finds in sector s of block k: the data of the sector, or
\* zeros when the table has no block for it or the bitmap of the block leaves it out.
Nonzero(f, k, s) ==
  LET at == f[3].entries[k]
  IN  at \in DOMAIN f /\ f[at].kind = "block" /\ Touched(f[at], s) /\ s \in f[at].data

\* One object does not reach into the next, the footer ends the file and stands at its
\* beginning too unless that is where the raw disk is.
Wellformed(f) ==
  LET end == Max(DOMAIN f) IN
  /\ \A s, t \in DOMAIN f : s < t => s + Length(f[s]) <= t
  /\ f[end].kind = "footer" /\ f[end].size = totalSize
  /\ f[0] = f[end] \/ (f[0].kind = "raw" /\ end = imageSectors)

\* A VHD holds the raw disk, every block of it where the table says, and a difference finds
\* a footer, its own table with nothing in it and the name of its base.
VhdReadsBack ==
  vpc = "done" =>
    /\ Wellformed(vhd)
    /\ vhdDiskType # "fixed" =>
         /\ Len(raw) = Len(vhd[3].entries) /\ vhd[1].maxTableEntries = Len(raw)
         /\ \A k \in DOMAIN raw : \A s \in {0, raw[k].len - 1} :
              Nonzero(vhd, k, s) <=> s \in raw[k].nonzero
    /\ vhdDiskType = "difference" =>
         /\ Wellformed(diff)
         /\ \A l \in Range(diff[1].locators) : diff[l].kind = "locator"
         /\ Range(diff[3].entries) = {Unused}

\* The geometry in the footer is that of the whole disk, not a sector more or less: the
\* layout ends with a cylinder.  Only a disk with more cylinders than the footer can count
\* has no VHD.
GeometryExact ==
  /\ vpc = "done" =>
       vhd[Max(DOMAIN vhd)].cylinders * bytesPerCylinder = totalSize
  /\ vpc = "failed" => totalSize > MaxCylinders * bytesPerCylinder

\* A VHD is the raw disk it was made of: its data and its geometry.
VhdIsTheDisk == VhdReadsBack /\ GeometryExact
=============================================================================
