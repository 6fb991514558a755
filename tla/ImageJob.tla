------------------------------ MODULE ImageJob ------------------------------
(***************************************************************************)
(* A job that builds a bootable image: what installFileTree makes of the   *)
(* root (ImageRoot) is, once it is built, what write() packs and posts     *)
(* (Packages).  The format decides whether the root is a hard disk, a file *)
(* system or a tree.                                                       *)
(***************************************************************************)
EXTENDS ImageRoot, Packages

CONSTANTS
  Varied,       \* formats considered with every scheme, root and size of the swap file
  PlainRoots    \* the roots considered with the others

jobVars == <<rootVars, pkgVars>>

\* makeHDImage, that of AMIImage, makeFSImage, or none of them.
DiskOf(f) ==
  CASE f = "ami" -> "ami"
    [] f = "raw_fs" -> "fs"
    [] f \in {"tarball", "ami_s3"} -> "none"
    [] OTHER -> "hd"

InitJob ==
  /\ InitRoot /\ InitPackages
  /\ disk = DiskOf(format)
  /\ \/ format \in Varied /\ size = Max(Sizes) /\ ~buildOVF10
     \/ format \notin Varied /\ scheme = <<>> /\ root \in PlainRoots /\ swapSize = 0 /\ ~domU

\* write() begins with the image; nothing is posted of one that failed.
BuildRoot == NextRoot /\ UNCHANGED pkgVars
PackIt == stage = "built" /\ NextPackages /\ UNCHANGED rootVars
EndedJob == stage = "failed" \/ EndedPackages

SpecJob == InitJob /\ [][BuildRoot \/ PackIt \/ (EndedJob /\ UNCHANGED jobVars)]_jobVars
=============================================================================
