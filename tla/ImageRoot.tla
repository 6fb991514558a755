----------------------------- MODULE ImageRoot ------------------------------
(***************************************************************************)
(* How a bootable image comes by its file systems, its fstab, its swap     *)
(* file and its boot loader: jobslave/generators/bootable_image.py, the    *)
(* installers of jobslave/bootloader and the initrd generators of          *)
(* jobslave/mkinitrd.                                                      *)
(*                                                                         *)
(* A path is the sequence of its tokens, "/" being one: "/usr2" is         *)
(* <<"/", "usr", "2">>, so that a string is a prefix of another if the     *)
(* sequence is.  Sizes are megabytes; a kernel is a number, in the order   *)
(* of the version strings.  Packages, their scripts and the tools in the   *)
(* image are external.                                                     *)
(***************************************************************************)
EXTENDS Integers, FiniteSetsExt, SequencesExt, TLC, Ranking

CONSTANTS
  Schemes,    \* partition schemes, <<>> for a definition that has none
  Roots,      \* what the packages put into the root of the image
  Contents,   \* the files they bring: their paths and sizes
  SwapSizes,  \* sizes of the swap file a job may ask for
  FreeSpace,  \* what a file system shall have to spare, if no scheme says
  Numerals    \* the numerals from 2 on, each a token

VARIABLES
  stage,        \* where the build of the image is
  disk,         \* it is a hard disk, one for EC2, a set of file systems or a tree
  scheme,
  domU,         \* the flavor is that of a Xen guest
  root,
  mountDict,    \* sequence of requests for file systems
  swapSize,
  realSizes,    \* mount point -> size
  filesystems,  \* mount point -> label and type
  fstab,
  swapFile,     \* its size, 0 if there is none
  loader,       \* the boot loader that is installed
  conf,         \* entries of its configuration, the first is the default
  initrds,      \* the initrds in /boot
  losetup,      \* the image's losetup is its own, the stub, or there is none
  unseen,       \* clean-ups that failed without an error: "losetup"
  mbr           \* the boot loader is in the MBR

rootVars == <<stage, disk, scheme, domU, root, mountDict, swapSize, realSizes,
              filesystems, fstab, swapFile, loader, conf, initrds, losetup, unseen, mbr>>
planVars == <<disk, scheme, domU, root>>
sizeVars == <<mountDict, swapSize, realSizes, filesystems>>
bootVars == <<loader, conf, initrds, losetup, unseen, mbr>>

FsRequest ==
  [name : Seq(STRING), mount : Seq(STRING), fstype : STRING, minSize : Nat, freeSpace : Nat]

\* A mount point is a path, no name has a separator, and there are enough numerals for the
\* schemes.  The tools of the other distributions do not come with SUSE.
ASSUME RootAssumption ==
  /\ SwapSizes \subseteq Nat /\ FreeSpace \in Nat
  /\ Contents \subseteq [path : Seq(STRING), size : Nat] /\ IsFiniteSet(Contents)
  /\ Numerals \in Seq(STRING \ {"/"}) /\ IsInjective(Numerals)
  /\ \A s \in Schemes :
       /\ s \in Seq(FsRequest) /\ Len(s) <= Len(Numerals)
       /\ \A k \in 1 .. Len(s) :
            /\ "/" \notin Range(s[k].name)
            /\ s[k].mount # <<>> => s[k].mount[1] = "/"
  /\ \A r \in Roots :
       /\ IsFiniteSet(r.kernels) /\ r.kernels \subseteq Nat \ {0}
       /\ r.initrds \subseteq [prefix : {"initrd", "initramfs"}, kver : Nat]
       /\ r.distro \in {"suse10", "suse11"} => r.has \cap {"grubby", "bootman"} = {}

Root == <<"/">>
Boot == <<"/", "boot">>
SwapPath == <<"/", "var", "/", "swap">>
NoFs == {"swap", "none", "unallocated"}
template == 0

Suse == root.distro \in {"suse10", "suse11"}

Raise == stage' = "failed"

\* A step that may fail, of which nothing else is told apart here.
Passes(from, to) ==
  /\ stage = from /\ (stage' = to \/ Raise)
  /\ UNCHANGED <<planVars, sizeVars, fstab, swapFile, bootVars>>

-----------------------------------------------------------------------------
(* Sorting and selecting, by rank.                                             *)

Ascending(S) == Ranked(S, {p \in S \X S : p[1] < p[2]})
Descending(S) == Ranked(S, {p \in S \X S : p[1] > p[2]})

\* What a sequence has at some places.
Only(seq, places) == LET at == Ascending(places) IN [k \in DOMAIN at |-> seq[at[k]]]

-----------------------------------------------------------------------------
(* Mount points *)

\* sortMountPoints: the more separators the earlier, the root last; the sort is stable.
Depth(m) == IF m = Root THEN -1 ELSE Cardinality({k \in DOMAIN m : m[k] = "/"})
Sooner(mounts, j, k) ==
  \/ Depth(mounts[j]) > Depth(mounts[k])
  \/ Depth(mounts[j]) = Depth(mounts[k]) /\ j < k
sortMountPoints(mounts) ==
  LET at == DOMAIN mounts
      order == Ranked(at, {p \in at \X at : Sooner(mounts, p[1], p[2])})
  IN  [k \in at |-> mounts[order[k]]]

\* The first that passes once they are sorted.
First(mounts, Test(_), default) ==
  LET hits == {k \in DOMAIN mounts : Test(mounts[k])}
  IN  IF hits = {} THEN default
      ELSE mounts[CHOOSE k \in hits : \A j \in hits \ {k} : Sooner(mounts, k, j)]

\* With a separator appended to both.
Below(path, m) == IsPrefix(IF m = Root THEN m ELSE m \o <<"/">>, path \o <<"/">>)
find_mount(path, mounts) ==
  First(mounts, LAMBDA m : Below(path, m), Root)

SizeOf(files) == MapThenSumSet(LAMBDA f : f.size, files)

\* calculatePartitionSizes: a file counts for the first mount point it starts with.
Charged(f, mounts) == First(mounts, LAMBDA m : IsPrefix(m, f.path), <<>>)
SizeOn(m, mounts) == SizeOf({f \in Contents : Charged(f, mounts) = m})

-----------------------------------------------------------------------------
(* Requests for file systems *)

F(name, mount, fstype, freeSpace) ==
  [name |-> <<name>>, mount |-> mount, fstype |-> fstype, minSize |-> 1,
   freeSpace |-> freeSpace]

\* An image for EC2 without a scheme is on LVM.
AMIFilesystems == <<F("boot", Boot, "ext4", 200), F("root", Root, "ext4", FreeSpace)>>

\* getDefaultFilesystems
Default ==
  IF disk = "ami" THEN AMIFilesystems
  ELSE <<[F("root", Root, "ext3", FreeSpace) EXCEPT !.minSize = 0]>>

BaseName(p) ==
  CASE p.name # <<>> -> p.name
    [] p.name = <<>> /\ p.mount = Root -> <<"root">>
    [] p.name = <<>> /\ p.mount # Root /\ p.fstype = "swap" -> <<"swap">>
    [] p.name = <<>> /\ p.mount = <<>> /\ p.fstype # "swap" -> <<"None">>
    [] OTHER -> LET path == Tail(p.mount)
                IN  [k \in DOMAIN path |-> IF path[k] = "/" THEN "_" ELSE path[k]]

\* Mutant of Unused: a name is numbered, but only once.
UnusedOnce(base, names) == IF base \in names THEN base \o <<"2">> ELSE base

Unused(base, names) ==
  LET Numbered(k) == base \o <<Numerals[k]>>
  IN  IF base \notin names THEN base
      ELSE Numbered(Min({k \in DOMAIN Numerals : Numbered(k) \notin names}))

Requests == Range(mountDict)
Mounts == [k \in DOMAIN mountDict |-> mountDict[k].mount]
Keys == Only(Mounts, {k \in DOMAIN Mounts : Mounts[k] \in DOMAIN filesystems})

\* One turn of the loop of getFilesystems; <<>> stands for None.
getFilesystems ==
  LET p == scheme[Len(mountDict) + 1]
      name == Unused(BaseName(p), {r.name : r \in Requests})
      valid == p.mount \notin {r.mount : r \in Requests} /\ (p.mount # <<>> \/ p.fstype \in NoFs)
  IN  /\ stage = "plan" /\ Len(mountDict) < Len(scheme)
      /\ IF valid
         THEN /\ mountDict' = Append(mountDict,
                   [p EXCEPT !.name = name, !.mount = IF p.mount = <<>> THEN name ELSE p.mount])
              /\ UNCHANGED stage
         ELSE Raise /\ UNCHANGED mountDict
      /\ UNCHANGED <<planVars, swapSize, realSizes, filesystems, fstab, swapFile, bootVars>>

\* BootableImage.__init__, when the loop is done.
Plan ==
  /\ stage = "plan" /\ Len(mountDict) = Len(scheme)
  /\ mountDict' = IF scheme = <<>> THEN Default ELSE mountDict
  /\ stage' = IF Root \notin {r.mount : r \in Range(mountDict')} THEN "failed"
              ELSE IF disk = "none" THEN "mounted" ELSE "size"
  /\ UNCHANGED <<planVars, swapSize, realSizes, filesystems, fstab, swapFile, bootVars>>

\* Mutant of Padded: rounded down.
PaddedDown(size) == ((size + 20) * 100) \div 87

Padded(size) == ((size + 20) * 100 + 86) \div 87

\* getImageSize: a swap partition forces the swap file off.
getImageSize ==
  LET swap == IF \E r \in Requests : r.fstype = "swap" THEN 0 ELSE swapSize
      swapMount == find_mount(SwapPath, Keys)
      Needed(r) == SizeOn(r.mount, Mounts) + r.freeSpace
                   + IF r.mount = swapMount THEN swap ELSE 0
      Size(r) == Max({r.minSize, IF r.fstype \in NoFs THEN Needed(r) ELSE Padded(Needed(r))})
  IN  /\ stage = "size" /\ stage' = "format"
      /\ swapSize' = swap
      /\ realSizes' = [m \in Range(Mounts) |-> Size(CHOOSE r \in Requests : r.mount = m)]
      /\ UNCHANGED <<planVars, mountDict, filesystems, fstab, swapFile, bootVars>>

\* Filesystem.__init__: 'make the label "safe"'.
Label(name) ==
  LET safe == IF "/" \in Range(name) THEN Only(name, {k \in DOMAIN name : name[k] # "/"})
              ELSE name
  IN  IF safe = <<>> THEN <<"root">> ELSE safe

\* makeHDImage and makeFSImage: each is formatted under the name it was requested by.
Format ==
  LET made == {r \in Requests : disk = "fs" \/ r.fstype # "unallocated" \/ r.mount = Root}
  IN  /\ stage = "format"
      /\ \/ /\ stage' = "mounted"
            /\ filesystems' = [m \in {r.mount : r \in made} \cup DOMAIN filesystems |->
                 LET r == CHOOSE q \in made : q.mount = m
                 IN  [label |-> Label(r.name), fsType |-> r.fstype]]
         \/ Raise /\ UNCHANGED filesystems
      /\ UNCHANGED <<planVars, mountDict, swapSize, realSizes, fstab, swapFile, bootVars>>

-----------------------------------------------------------------------------
(* installFileTree, up to the boot loader *)

FstabOrder(mounts) == Reverse(sortMountPoints(mounts))

\* preInstallScripts
Fstab ==
  LET Entry(m) == [what |-> filesystems[m].label, fsType |-> filesystems[m].fsType,
                   mount |-> IF filesystems[m].fsType = "swap" THEN <<"swap">> ELSE m]
      Mounted(m) == filesystems[m].fsType \notin {"none", "unallocated"}
      all == FstabOrder(Keys)
      order == Only(all, {k \in DOMAIN all : Mounted(all[k])})
      swapLine == [what |-> SwapPath, fsType |-> "swap", mount |-> <<"swap">>]
  IN  [k \in DOMAIN order |-> Entry(order[k])] \o IF swapSize # 0 THEN <<swapLine>> ELSE <<>>

\* get_bootloader
get_bootloader ==
  CASE {"bootman", "extlinux"} \subseteq root.has -> "extlinux"
    [] "grub2" \in root.has /\ ~({"bootman", "extlinux"} \subseteq root.has) -> "grub2"
    [] root.has \cap {"grub2", "grub"} = {"grub"}
       /\ ~({"bootman", "extlinux"} \subseteq root.has) -> "grub"
    [] OTHER -> "dummy"

\* An image whose platform requires an RPM is not built without it.
loadRPM == Passes("mounted", "rpm")

\* "Create fstab early for RPM scripts to use."
preInstallScripts ==
  /\ stage = "rpm"
  /\ \/ stage' = "fstab" /\ fstab' = Fstab
     \/ Raise /\ UNCHANGED fstab
  /\ UNCHANGED <<planVars, sizeVars, swapFile, bootVars>>

installBootstrapTroves == Passes("fstab", "bootstrap")

\* The group is installed and the boot loader is chosen by what it brought.
InstallTroves ==
  /\ stage = "bootstrap"
  /\ \/ stage' = "installed" /\ loader' = get_bootloader /\ initrds' = root.initrds
     \/ Raise /\ UNCHANGED <<loader, initrds>>
  /\ UNCHANGED <<planVars, sizeVars, fstab, swapFile, conf, losetup, unseen, mbr>>

Prefix == IF initrds = {} THEN "initrd" ELSE (CHOOSE i \in initrds : TRUE).prefix

\* "initrds are called initramfs on e.g. RHEL 6, stay consistent."
RdName(k) == [prefix |-> Prefix, kver |-> k]
NoRd == [prefix |-> "none", kver |-> template]

\* GrubInstaller.writeConf: an entry for each kernel, or the template.
writeConf(kernels) ==
  LET Entry(k) == [kver |-> k, rd |-> IF initrds = {} THEN NoRd ELSE RdName(k)]
      listed == CASE kernels # <<>> -> kernels
                  [] kernels = <<>> /\ root.distro # "suse11" -> <<template>>
                  [] OTHER -> <<>>
  IN  [n \in DOMAIN listed |-> Entry(listed[n])]

\* GrubInstaller.setup: a stub; the other loaders have nothing to write yet.
setup == IF loader = "grub" THEN writeConf(<<>>) ELSE conf

\* preTagScripts: dd fails on a full disk.
preTagScripts ==
  /\ stage = "installed"
  /\ \/ /\ stage' = "tag"
        /\ swapFile' = swapSize
        /\ conf' = setup
     \/ Raise /\ UNCHANGED <<swapFile, conf>>
  /\ UNCHANGED <<planVars, sizeVars, fstab, loader, initrds, losetup, unseen, mbr>>

\* runTagScripts: those of a kernel package may have grubby enter the kernels, and make
\* initrds for them; an rpm has run its own scripts before there was a configuration.
runTagScripts ==
  /\ stage = "tag"
  /\ \/ stage' = "passwords" /\ UNCHANGED <<conf, initrds>>
     \/ /\ loader = "grub" /\ "grubby" \in root.has
        /\ stage' = "passwords"
        /\ initrds' = initrds \cup {RdName(k) : k \in root.kernels}
        /\ LET new == Descending(root.kernels)
           IN  conf' = [n \in DOMAIN new |-> [kver |-> new[n], rd |-> RdName(new[n])]] \o conf
     \/ Raise /\ UNCHANGED <<conf, initrds>>
  /\ UNCHANGED <<planVars, sizeVars, fstab, swapFile, loader, losetup, unseen, mbr>>

-----------------------------------------------------------------------------
(* postTagScripts: passwords, logins and inittab, then BootloaderInstaller.install *)

postTagScripts == Passes("passwords", "loader")

Populated == \E e \in Range(conf) : e.kver # template

\* "Order kernels so the desired one is added last and thus the default."
SuseOrder(S) ==
  LET suits == {k \in S : (k \in root.xen) = domU}
  IN  Ranked(S, {p \in S \X S : IF p[1] \in suits <=> p[2] \in suits THEN p[1] < p[2]
                                ELSE p[2] \in suits})

\* Mutant of RdMade: what add_kernels makes is always called initrd.
RdMadeFixed(k) == [prefix |-> "initrd", kver |-> k]

RdMade(k) == [prefix |-> Prefix, kver |-> k]

\* add_kernels, which takes kernels 2.6 only; on SUSE through mkinitrd and the tool that
\* puts each entry before the others.
AddKernels ==
  LET kernels == root.kernels \cap root.old
      susePrefix(k) == [prefix |-> "initrd", kver |-> k]
      added == Reverse(SuseOrder(kernels))
  IN  CASE kernels = {} -> UNCHANGED <<conf, initrds>>
        [] kernels # {} /\ Suse ->
             /\ initrds' = initrds \cup {susePrefix(k) : k \in kernels}
             /\ conf' = [n \in DOMAIN added |-> [kver |-> added[n], rd |-> susePrefix(added[n])]]
        [] OTHER ->
             /\ conf' = writeConf(Descending(kernels))
             /\ initrds' = initrds \cup {RdMade(k) : k \in kernels}

\* bootman writes a configuration for all kernels.
Bootman ==
  LET all == Descending(root.kernels)
  IN  /\ conf' = [n \in DOMAIN all |-> [kver |-> all[n], rd |-> RdName(all[n])]]
      /\ initrds' = initrds \cup {RdName(k) : k \in root.kernels}

Finished == stage' = IF disk \in {"hd", "ami"} THEN "mbr" ELSE "built"

\* Between add_kernels and the rest, and with what is there without it.
PopulateGrub ==
  /\ stage = "loader" /\ loader = "grub"
  /\ \/ ~Populated /\ AddKernels /\ stage' = "grubby"
     \/ Populated /\ stage' = "refresh" /\ UNCHANGED <<conf, initrds>>
     \/ Raise /\ UNCHANGED <<conf, initrds>>
  /\ UNCHANGED <<planVars, sizeVars, fstab, swapFile, loader, losetup, unseen, mbr>>

\* grubby removes the template; bootman starts again, or the initrds the entries name are
\* made again: an entry that names none makes the command line invalid.
InstallGrub ==
  LET left == IF "grubby" \in root.has
              THEN Only(conf, {n \in DOMAIN conf : conf[n].kver # template}) ELSE conf
      again == stage = "refresh" /\ ~Suse /\ "bootman" \notin root.has
      entered == {e \in Range(left) : e.kver # template}
  IN  /\ stage \in {"grubby", "refresh"}
      /\ \/ "bootman" \in root.has /\ Bootman /\ Finished
         \/ /\ "bootman" \notin root.has /\ conf' = left
            /\ initrds' = initrds \cup IF again THEN {e.rd : e \in entered} \ {NoRd} ELSE {}
            /\ IF again /\ \E e \in entered : e.rd = NoRd THEN Raise ELSE Finished
         \/ Raise /\ UNCHANGED <<conf, initrds>>
      /\ UNCHANGED <<planVars, sizeVars, fstab, swapFile, loader, losetup, unseen, mbr>>

\* ExtLinuxInstaller.install; for a tree (no_mbr) only the configuration is written.
InstallExtLinux ==
  /\ stage = "loader" /\ loader = "extlinux"
  /\ (Bootman /\ Finished) \/ (Raise /\ UNCHANGED <<conf, initrds>>)
  /\ UNCHANGED <<planVars, sizeVars, fstab, swapFile, loader, losetup, unseen, mbr>>

\* The finally of Grub2Installer._mount_dev: what was moved away is moved back, unless the
\* unlink before it or the rename fails, which is not told.  What is moved away may be the
\* stub of an earlier time, over what the image had.
Unstub ==
  \/ UNCHANGED <<losetup, unseen>>
  \/ losetup' = "stub" /\ unseen' = {"losetup"}

\* What happens while losetup is a stub; before the try nothing is put back.
MountDev(Ok, Not) ==
  \/ Unstub /\ (Ok \/ (Raise /\ Not))
  \/ Raise /\ Not /\ UNCHANGED unseen /\ losetup' \in {losetup, "none", "stub"}

\* Grub2Installer.install: grub2-mkconfig names the initrds it finds, dracut makes them
\* again.
InstallGrub2 ==
  LET all == Descending(root.kernels)
      Rd(k) == IF RdName(k) \in initrds THEN RdName(k) ELSE NoRd
  IN  /\ stage = "loader" /\ loader = "grub2"
      /\ MountDev(/\ conf' = [n \in DOMAIN all |-> [kver |-> all[n], rd |-> Rd(all[n])]]
                  /\ Finished, UNCHANGED conf)
      /\ UNCHANGED <<planVars, sizeVars, fstab, swapFile, loader, initrds, mbr>>

InstallDummy ==
  /\ stage = "loader" /\ loader = "dummy"
  /\ Finished
  /\ UNCHANGED <<planVars, sizeVars, fstab, swapFile, bootVars>>

\* install_mbr: grub2 makes losetup a stub once more, extlinux and grub do without.
InstallMbr ==
  /\ stage = "mbr"
  /\ \/ /\ loader # "grub2" /\ UNCHANGED <<losetup, unseen>>
        /\ \/ stage' = "built" /\ mbr' = (loader # "dummy")
           \/ loader # "dummy" /\ Raise /\ UNCHANGED mbr
     \/ /\ loader = "grub2"
        /\ MountDev(mbr' = TRUE /\ stage' = "built", UNCHANGED mbr)
  /\ UNCHANGED <<planVars, sizeVars, fstab, swapFile, loader, conf, initrds>>

-----------------------------------------------------------------------------

InitRoot ==
  /\ stage = "plan"
  /\ disk \in {"hd", "ami", "fs", "none"} /\ scheme \in Schemes
  /\ domU \in BOOLEAN /\ root \in Roots
  /\ mountDict = <<>> /\ swapSize \in SwapSizes /\ realSizes = <<>>
  /\ filesystems = [m \in {Root} |-> [label |-> <<"root">>, fsType |-> "ext4"]]
  /\ fstab = <<>> /\ swapFile = 0
  /\ loader = "none" /\ conf = <<>> /\ initrds = {}
  /\ losetup = "own" /\ unseen = {} /\ mbr = FALSE

NextRoot ==
  \/ getFilesystems \/ Plan \/ getImageSize \/ Format \/ loadRPM \/ preInstallScripts
  \/ installBootstrapTroves \/ InstallTroves \/ preTagScripts \/ runTagScripts
  \/ postTagScripts \/ PopulateGrub \/ InstallGrub \/ InstallExtLinux \/ InstallGrub2
  \/ InstallDummy \/ InstallMbr

EndedRoot == stage \in {"built", "failed"}
SpecRoot == InitRoot /\ [][NextRoot \/ (EndedRoot /\ UNCHANGED rootVars)]_rootVars

-----------------------------------------------------------------------------

\* preInstallScripts: each file system that is mounted has one line, by a label no other
\* file system has, and comes after those it is mounted below.
FstabMounts ==
  fstab # <<>> =>
    /\ IsInjective([k \in DOMAIN fstab |-> fstab[k].what])
    /\ \A m \in DOMAIN filesystems :
         filesystems[m].fsType \notin NoFs =>
           \E k \in DOMAIN fstab :
             /\ fstab[k].mount = m /\ fstab[k].what = filesystems[m].label
             /\ \A j \in 1 .. k - 1 : fstab[j].mount # m
             /\ \A j \in DOMAIN fstab :
                  j > k /\ fstab[j].fsType # "swap" => ~Below(m, fstab[j].mount)

\* What a file system can hold of its size, and what is put on it: the files below it that
\* no other mount point takes, the swap file, the space that was asked for.
Usable(size) == (size * 87) \div 100 - 20
Load(r, found) ==
  SizeOf({f \in Contents : found[f.path] = r.mount}) + r.freeSpace
  + IF found[SwapPath] = r.mount THEN swapFile ELSE 0

\* getImageSize: every file system has room for what comes to lie on it, and there is a swap
\* file only where there is no swap partition.
RoomForContents ==
  realSizes # <<>> =>
    /\ LET paths == {f.path : f \in Contents} \cup {SwapPath}
           found == [path \in paths |-> find_mount(path, Mounts)]
       IN  \A r \in Requests :
             r.fstype \notin NoFs => Usable(realSizes[r.mount]) >= Load(r, found)
    /\ swapFile # 0 => \A r \in Requests : r.fstype # "swap"

\* The configuration of a boot loader names kernels and initrds that are in /boot, and with
\* kernels it knows it has an entry.
EntriesExist ==
  stage = "built" =>
    /\ \A e \in Range(conf) :
         e.kver # template => e.kver \in root.kernels /\ (e.rd # NoRd => e.rd \in initrds)
    /\ loader # "dummy" /\ root.kernels \cap root.old # {} => Populated

\* The entry grub boots is that of the newest kernel it has one for, on SUSE of the newest
\* that suits the image, a Xen guest or not.
DefaultIsDesired ==
  stage = "built" /\ loader = "grub" /\ Populated =>
    LET entered == {e.kver : e \in Range(conf)} \ {template}
        wanted == {k \in entered : (k \in root.xen) = domU}
    IN  conf[1].kver = Max(IF Suse /\ wanted # {} THEN wanted ELSE entered)

\* Grub2Installer: an image that is finished has its own losetup, unless a clean-up failed
\* that nobody was told of; then it has lost it, whatever the next clean-up puts back.
LosetupRestored == stage = "built" => (losetup = "own" <=> unseen = {})

\* "Replace losetup with a stub while running mkconfig", and no longer.
LosetupOwn == stage = "built" => losetup = "own"

\* BootloaderInstaller.install: a finished image boots what it should, from files that are
\* there, and is left as it was otherwise.
BootsAsPlanned == EntriesExist /\ DefaultIsDesired /\ LosetupRestored
=============================================================================
