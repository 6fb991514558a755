----------------------------- MODULE DiskLayout -----------------------------
(***************************************************************************)
(* Where makeHDImage (jobslave/generators/raw_hd_image.py) puts things: a  *)
(* partition for the root (or /boot) file system, one for the LVM          *)
(* container with all others, and in it the extents each of them is given  *)
(* by LVMContainer.addFilesystem (jobslave/lvm.py).  Numbers are bytes     *)
(* unless they are called blocks or extents.                               *)
(*                                                                         *)
(* File system 0 has the first partition; 1 .. N are the others in the     *)
(* order of mountDict.  The partition's size is a sum over another dict    *)
(* with the same keys, which the order does not change.                    *)
(***************************************************************************)
EXTENDS Integers

CONSTANTS
  N,         \* file systems beside the first
  Requests,  \* sizes that are asked for
  Heads, Sectors

ASSUME LayoutAssumption ==
  /\ N \in Nat /\ Requests \subseteq Nat
  /\ Heads \in Nat \ {0} /\ Sectors \in Nat \ {0}

BLOCK == 512
offsetBytes == 128 * BLOCK
bytesPerCylinder == Sectors * Heads * BLOCK
MiB == 1048576
extent_size == MiB
loc_data == MiB

divCeil(num, div) == (num + (div - 1)) \div div
Align(size, to) == divCeil(size, to) * to

VARIABLES
  layout,          \* "sum", "alloc", "done" or "overflow"
  size,        \* realSizes
  unalloc,     \* file systems of type "unallocated"
  i,           \* how far the loop at layout has got
  room,        \* history: the running sum of lvmSize after each of them
  lvmSize,     \* size of the LVM partition
  current_pe,  \* LVMContainer: extents given away
  start, given \* where each file system begins, and what it may use

layoutVars == <<layout, size, unalloc, i, room, lvmSize, current_pe, start, given>>

\* getImageSize: a size is rounded up to whole sectors.
Realign(wanted) == wanted + ((BLOCK - (wanted % BLOCK)) % BLOCK)

InitLayout ==
  /\ layout = "sum" /\ i = 0
  /\ \E wanted \in [0 .. N -> Requests] :
       size = [k \in 0 .. N |-> Realign(wanted[k])]
  /\ unalloc \in SUBSET (1 .. N)
  /\ room = [k \in 0 .. N |-> 0]
  /\ lvmSize = 0 /\ current_pe = 0
  /\ start = [k \in 0 .. N |-> 0] /\ given = [k \in 0 .. N |-> 0]

-----------------------------------------------------------------------------
(* The partitions *)

rootEnd == Align(offsetBytes + size[0], bytesPerCylinder)
rootSize == rootEnd - offsetBytes
totalSize == Align(rootEnd + lvmSize + 1, bytesPerCylinder)

\* The partition table counts in blocks.
rootStartBlock == offsetBytes \div BLOCK
rootSizeBlock == rootSize \div BLOCK
lvmStartBlock == rootStartBlock + rootSizeBlock
lvmSizeBlock == lvmSize \div BLOCK

\* Mutant of LvmBytes: no room for the metadata.
LvmBytesBare(sum) == Align(sum, bytesPerCylinder)

LvmBytes(sum) == Align(sum + MiB, bytesPerCylinder)

Add ==
  /\ layout = "sum" /\ i < N
  /\ room' = [room EXCEPT ![i + 1] = room[i] + Align(size[i + 1], MiB)]
  /\ i' = i + 1
  /\ UNCHANGED <<layout, size, unalloc, lvmSize, current_pe, start, given>>

\* The disk is created and partitioned, and its first file system placed.
Partition ==
  /\ layout = "sum" /\ i = N
  /\ layout' = "alloc" /\ i' = 0
  /\ lvmSize' = LvmBytes(room[N])
  /\ start' = [start EXCEPT ![0] = offsetBytes]
  /\ given' = [given EXCEPT ![0] = rootSize]
  /\ UNCHANGED <<size, unalloc, room, current_pe>>

-----------------------------------------------------------------------------
(* LVMContainer *)

pe_count == (lvmSize - loc_data) \div extent_size
lvmOffset == lvmStartBlock * BLOCK

Extents(bytes) == (bytes + extent_size - 1) \div extent_size

Skip ==
  /\ layout = "alloc" /\ i < N /\ i + 1 \in unalloc
  /\ i' = i + 1
  /\ UNCHANGED <<layout, size, unalloc, room, lvmSize, current_pe, start, given>>

\* Mutant of Taken: one extent too few is counted as given away.
TakenShort(bytes) == current_pe + (bytes \div extent_size)

Taken(bytes) == current_pe + Extents(bytes)

\* addFilesystem takes the extents before it finds that there are not enough.
addFilesystem ==
  /\ layout = "alloc" /\ i < N /\ i + 1 \notin unalloc
  /\ current_pe' = Taken(size[i + 1])
  /\ \/ /\ current_pe' > pe_count
        /\ layout' = "overflow"
        /\ UNCHANGED <<i, start, given>>
     \/ /\ current_pe' <= pe_count
        /\ i' = i + 1
        /\ start' = [start EXCEPT ![i + 1] =
                       lvmOffset + loc_data + extent_size * current_pe]
        /\ given' = [given EXCEPT ![i + 1] = Extents(size[i + 1]) * extent_size]
        /\ UNCHANGED layout
  /\ UNCHANGED <<size, unalloc, room, lvmSize>>

Placed ==
  /\ layout = "alloc" /\ i = N
  /\ layout' = "done"
  /\ UNCHANGED <<size, unalloc, i, room, lvmSize, current_pe, start, given>>

Ended == layout \in {"done", "overflow"} /\ UNCHANGED layoutVars

NextLayout == Add \/ Partition \/ Skip \/ addFilesystem \/ Placed \/ Ended

SpecLayout == InitLayout /\ [][NextLayout]_layoutVars

-----------------------------------------------------------------------------
(* Properties *)

\* makeHDImage computes the partition from the same sizes addFilesystem rounds
\* to extents: whatever is asked for, the volumes fit (LVMOverflowError).
NoOverflow == layout # "overflow"

\* File systems that have been placed.
InLvm == {k \in 1 .. N : layout \in {"alloc", "done"} /\ k <= i /\ k \notin unalloc}
End(k) == start[k] + given[k]

\* makeHDImage and addFilesystem: each file system has the size asked for;
\* the volumes lie in the LVM partition behind its metadata, apart from each
\* other; the partition follows the first one and ends inside the disk, and
\* the numbers of blocks in the partition table are exact ("both of these
\* sizes are already block-aligned").
RegionsApart ==
  /\ layout \in {"alloc", "done"} =>
       /\ given[0] >= size[0] /\ End(0) = lvmOffset
       /\ rootSizeBlock * BLOCK = rootSize /\ lvmSizeBlock * BLOCK = lvmSize
       /\ lvmOffset + lvmSize < totalSize
  /\ \A k \in InLvm :
       /\ given[k] >= size[k]
       /\ lvmOffset + loc_data <= start[k] /\ End(k) <= lvmOffset + lvmSize
       /\ \A j \in InLvm : j < k => End(j) <= start[k]
=============================================================================
