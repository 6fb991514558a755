---------------------------- MODULE DiskImage ----------------------------
(***************************************************************************)
(* One raw hard-disk build: jobslave/generators/raw_hd_image.py            *)
(* (makeHDImage, write), with the file systems, the mounting, the install  *)
(* and the clean-up of bootable_image.py and the LVM container of lvm.py.  *)
(*                                                                         *)
(* A mount point is the sequence of its path's components below the root   *)
(* directory of the build, << >> being "/".  The kernel is external: it    *)
(* unmounts only what is idle.  What the install does inside the root is   *)
(* abstracted to the two effects that outlive it: processes that keep      *)
(* files open, and mounts the scriptlets leave behind.                     *)
(***************************************************************************)
EXTENDS Integers, SequencesExt

CONSTANTS
    Managed,    \* mount points of mountDict
    Swap,       \* those of type swap, formatted and never mounted
    Scriptlet,  \* mount points the package scripts may mount
    Procs,      \* processes the install may leave running
    Chrooted,   \* those whose executable lies inside the root
    MaxKills,   \* rounds of signals (10 in the code)
    MaxTries    \* further attempts at unmounting (5 in the code)

Nowhere == << "nowhere" >>
Proc == << "proc" >>
Sys == << "sys" >>
DiskImg == << "disk.img" >>

ASSUME DiskImageAssumption ==
    /\ << >> \in Managed /\ Swap \subseteq Managed \ {<< >>}
    /\ Managed \cup Scriptlet \cup {Proc, Sys, DiskImg} \subseteq Seq(STRING)
    /\ (Scriptlet \cup {Proc, Sys, DiskImg, Nowhere}) \cap Managed = {}
    /\ Chrooted \subseteq Procs
    /\ MaxKills \in Nat /\ MaxTries \in Nat

VARIABLES
    pc,         \* where makeHDImage and what it calls has got to
    todo,       \* mount points the current loop has still to visit
    mounts,     \* what the kernel has mounted at or below the root
    flagged,    \* file systems whose object says mounted = True
    loops,      \* file systems holding a loop device
    holds,      \* the mount each live process keeps busy, Nowhere if dead
    pids,       \* the processes killChrootProcesses is after
    count,      \* its rounds, or the failed attempts at one unmount
    raised,     \* an exception is on its way out of makeHDImage
    warned,     \* the tear-down failed, and only said so in the log
    disk,       \* what has been written to the disk image
    verdict     \* of the job

vars == << pc, todo, mounts, flagged, loops, holds, pids, count, raised,
           warned, disk, verdict >>

builder == << todo, mounts, flagged, loops, pids, count, raised, warned,
              disk, verdict >>

Points == Managed \cup Scriptlet \cup {Proc, Sys, DiskImg}
Mountable == Managed \ Swap
HasLvm == Managed # {<< >>}

TypeOK ==
    /\ pc \in {"format", "mount", "special", "install", "scan", "kill", "reap",
               "leave", "chroot", "bind", "mbr", "release", "umount",
               "publish", "done"}
    /\ todo \subseteq Points /\ mounts \subseteq Points
    /\ flagged \subseteq Mountable /\ loops \subseteq Mountable
    /\ holds \in [Procs -> Points \cup {Nowhere}]
    /\ pids \subseteq Chrooted
    /\ count \in 0 .. (MaxKills + MaxTries + 1)
    /\ raised \in BOOLEAN /\ warned \in BOOLEAN
    /\ disk \subseteq {"files", "mbr", "header"}
    /\ verdict \in {"none", "failed", "posted"}

Init ==
    /\ pc = "format" /\ todo = Managed
    /\ mounts = {} /\ flagged = {} /\ loops = {}
    /\ holds = [q \in Procs |-> Nowhere] /\ pids = {} /\ count = 0
    /\ raised = FALSE /\ warned = FALSE
    /\ disk = {} /\ verdict = "none"

-----------------------------------------------------------------------------
(* The kernel and the processes.                                           *)

Live == {q \in Procs : holds[q] # Nowhere}

Idle(m) ==
    /\ \A n \in mounts : ~ IsStrictPrefix(m, n)
    /\ \A q \in Procs : holds[q] # m

(* sortMountPoints: the more components the earlier, "/" last.  Those of   *)
(* one depth come in the order of a dict, fixed for the build: CHOOSE's.   *)
Deepest(S) == CHOOSE m \in S : \A n \in S : Len(n) <= Len(m)
Shallowest(S) == CHOOSE m \in S : \A n \in S : Len(m) <= Len(n)

(* A process of the install or of the boot loader starts and keeps files   *)
(* of one mount open; later it exits, by itself or by a signal.            *)
Start ==
    /\ pc \in {"install", "mbr"}
    /\ \E q \in Procs \ Live, m \in mounts : holds' = [holds EXCEPT ![q] = m]
    /\ UNCHANGED << pc, builder >>

Exit ==
    /\ \E q \in Live : holds' = [holds EXCEPT ![q] = Nowhere]
    /\ UNCHANGED << pc, builder >>

(* A package script mounts something and does not unmount it.              *)
ScriptMounts ==
    /\ pc = "install"
    /\ \E m \in Scriptlet \ mounts : mounts' = mounts \cup {m}
    /\ UNCHANGED << pc, todo, flagged, loops, holds, pids, count, raised,
                    warned, disk, verdict >>

-----------------------------------------------------------------------------
(* Setting up.                                                             *)

(* Filesystem.format attaches a loop device and detaches it whatever mkfs  *)
(* says; a failure here, before the try, ends the job.                     *)
Format ==
    /\ pc = "format"
    /\ \E m \in todo :
          \/ /\ todo' = IF todo = {m} THEN Managed ELSE todo \ {m}
             /\ pc' = IF todo = {m} THEN "mount" ELSE "format"
             /\ UNCHANGED raised
          \/ pc' = "publish" /\ raised' = TRUE /\ UNCHANGED todo
    /\ UNCHANGED << mounts, flagged, loops, holds, pids, count, warned, disk,
                    verdict >>

(* To the inner finally of makeHDImage: umountAll.                         *)
TearDown == pc' = "umount" /\ todo' = Managed /\ count' = 0

(* Filesystem.mount.  When mount(8) fails the object does not say mounted, *)
(* so that nobody will detach the loop device it attached.                 *)
MountOne(m) ==
    \/ m \in Swap /\ UNCHANGED << mounts, flagged, loops, raised >>
    \/ /\ m \notin Swap
       /\ mounts' = mounts \cup {m} /\ flagged' = flagged \cup {m}
       /\ loops' = loops \cup {m} /\ UNCHANGED raised
    \/ /\ m \notin Swap /\ raised' = TRUE
       /\ loops' \in {loops, loops \cup {m}}
       /\ UNCHANGED << mounts, flagged >>

(* Mutant, MountsKept: mountAll goes through the mount points as they      *)
(* are sorted, without reversing them.                                     *)
MountOrderDown(S) == Deepest(S)

MountOrder(S) == Shallowest(S)

MountAll ==
    /\ pc = "mount"
    /\ \E m \in todo :
          /\ m = MountOrder(todo) /\ MountOne(m)
          /\ \/ raised' /\ TearDown
             \/ ~ raised' /\ todo # {m}
                /\ todo' = todo \ {m} /\ UNCHANGED << pc, count >>
             \/ ~ raised' /\ todo = {m}
                /\ todo' = {} /\ pc' = "special" /\ UNCHANGED count
    /\ UNCHANGED << holds, pids, warned, disk, verdict >>

-----------------------------------------------------------------------------
(* installFileTree.                                                        *)

(* Fetching the packages fails before the try whose finally cleans up.     *)
FetchFails ==
    /\ pc = "special" /\ raised' = TRUE /\ TearDown
    /\ UNCHANGED << mounts, flagged, loops, holds, pids, warned, disk,
                    verdict >>

MountSpecial ==
    /\ pc = "special"
    /\ \E S \in {{}, {Proc}, {Proc, Sys}} :
          /\ mounts' = mounts \cup S
          /\ pc' = IF S = {Proc, Sys} THEN "install" ELSE "scan"
          /\ raised' = (S # {Proc, Sys})
    /\ UNCHANGED << todo, flagged, loops, holds, pids, count, warned, disk,
                    verdict >>

Install ==
    /\ pc = "install" /\ pc' = "scan"
    /\ \/ disk' = disk \cup {"files"} /\ UNCHANGED raised
       \/ raised' = TRUE /\ UNCHANGED disk
    /\ UNCHANGED << todo, mounts, flagged, loops, holds, pids, count, warned,
                    verdict >>

(* killChrootProcesses looks through /proc.  A process that goes while it  *)
(* looks makes os.listdir raise: nobody is signalled then.                 *)
Scan ==
    /\ pc = "scan"
    /\ \/ pids' = Live \cap Chrooted
       \/ pids' = {}
    /\ pc' = IF pids' = {} THEN "leave" ELSE "kill"
    /\ count' = 0
    /\ UNCHANGED << todo, mounts, flagged, loops, holds, raised, warned, disk,
                    verdict >>

(* One round of signals.  os.kill raises if the process has gone since the *)
(* last look, and ends the round and all later ones.                       *)
Kill ==
    /\ pc = "kill"
    /\ pc' = IF pids \subseteq Live THEN "reap" ELSE "leave"
    /\ UNCHANGED << holds, builder >>

(* Mutant, JobEnds: the rounds of signals are not counted.                 *)
ReapUncounted ==
    /\ pc = "reap"
    /\ pids' = pids \cap Live
    /\ pc' = IF pids' = {} \/ count > MaxKills THEN "leave" ELSE "kill"
    /\ UNCHANGED << todo, mounts, flagged, loops, holds, count, raised, warned,
                    disk, verdict >>

Reap ==
    /\ pc = "reap"
    /\ pids' = pids \cap Live /\ count' = count + 1
    /\ pc' = IF pids' = {} \/ count' > MaxKills THEN "leave" ELSE "kill"
    /\ UNCHANGED << todo, mounts, flagged, loops, holds, raised, warned, disk,
                    verdict >>

(* umountChrootMounts reads /proc/mounts: all that is mounted below the    *)
(* root and is not one of the build's own file systems.                    *)
Foreign == mounts \ Managed

ReadMounts ==
    /\ pc = "leave" /\ pc' = "chroot" /\ todo' = Foreign /\ pids' = {}
    /\ UNCHANGED << mounts, flagged, loops, holds, count, raised, warned, disk,
                    verdict >>

(* What comes next when the finally is through: back in makeHDImage with   *)
(* the boot loader, or on with the exception.                              *)
AfterInstall ==
    \/ raised /\ TearDown
    \/ ~ raised /\ pc' = "bind" /\ todo' = {} /\ UNCHANGED count

(* The first unmount that fails ends the loop; the exception is logged.    *)
UmountChroot ==
    /\ pc = "chroot"
    /\ \/ /\ todo = {} /\ AfterInstall /\ UNCHANGED mounts
       \/ \E m \in todo :
             /\ \A n \in todo : ~ IsStrictPrefix(m, n)
             /\ \/ /\ Idle(m) /\ mounts' = mounts \ {m}
                   /\ todo' = todo \ {m} /\ UNCHANGED << pc, count >>
                \/ ~ Idle(m) /\ AfterInstall /\ UNCHANGED mounts
    /\ UNCHANGED << flagged, loops, holds, pids, raised, warned, disk,
                    verdict >>

-----------------------------------------------------------------------------
(* The boot loader, and tearing down.                                      *)

Bind ==
    /\ pc = "bind"
    /\ \/ /\ mounts' = mounts \cup {DiskImg} /\ pc' = "mbr"
          /\ UNCHANGED << todo, count, raised >>
       \/ raised' = TRUE /\ TearDown /\ UNCHANGED mounts
    /\ UNCHANGED << flagged, loops, holds, pids, warned, disk, verdict >>

InstallMbr ==
    /\ pc = "mbr" /\ pc' = "release"
    /\ \/ disk' = disk \cup {"mbr"} /\ UNCHANGED raised
       \/ raised' = TRUE /\ UNCHANGED disk
    /\ UNCHANGED << todo, mounts, flagged, loops, holds, pids, count, warned,
                    verdict >>

(* The inner finally removes etc/blkid.tab, unmounts the image and removes *)
(* the file it was bound to; any of the three may fail.                    *)
Release ==
    /\ pc = "release" /\ TearDown
    /\ \/ /\ Idle(DiskImg) /\ mounts' = mounts \ {DiskImg}
          /\ raised' \in {raised, TRUE}
       \/ raised' = TRUE /\ UNCHANGED mounts
    /\ UNCHANGED << flagged, loops, holds, pids, warned, disk, verdict >>

(* Mutant, CleanUnlessWarned: the loop device is given back only when the  *)
(* first attempt at unmounting succeeds.                                   *)
UnmountedAtOnce(m) ==
    /\ Idle(m)
    /\ mounts' = mounts \ {m} /\ flagged' = flagged \ {m}
    /\ loops' = IF count = 0 THEN loops \ {m} ELSE loops
    /\ todo' = todo \ {m} /\ count' = 0 /\ UNCHANGED << pc, warned >>

(* Filesystem.umount of what says mounted: tried again while it is busy,   *)
(* and given up with a RuntimeError that makeHDImage only logs.            *)
Unmounted(m) ==
    /\ Idle(m)
    /\ mounts' = mounts \ {m} /\ flagged' = flagged \ {m}
    /\ loops' = loops \ {m}
    /\ todo' = todo \ {m} /\ count' = 0 /\ UNCHANGED << pc, warned >>

Busy(m) ==
    /\ ~ Idle(m)
    /\ \/ /\ count < MaxTries /\ count' = count + 1
          /\ UNCHANGED << pc, warned >>
       \/ /\ count = MaxTries /\ warned' = TRUE /\ pc' = "publish"
          /\ UNCHANGED count
    /\ UNCHANGED << todo, mounts, flagged, loops >>

NotMounted(m) ==
    /\ m \notin flagged
    /\ todo' = todo \ {m}
    /\ UNCHANGED << pc, mounts, flagged, loops, count, warned >>

UmountAll ==
    /\ pc = "umount" /\ todo # {}
    /\ LET m == Deepest(todo) IN
          NotMounted(m) \/ (m \in flagged /\ (Unmounted(m) \/ Busy(m)))
    /\ UNCHANGED << holds, pids, raised, disk, verdict >>

(* Mutant, PostedIsComplete: the outer finally returns the container, and  *)
(* so drops the exception that was on its way out.                         *)
WriteHeaderReturns ==
    /\ pc = "umount" /\ todo = {} /\ pc' = "publish"
    /\ disk' = IF HasLvm THEN disk \cup {"header"} ELSE disk
    /\ raised' = FALSE
    /\ UNCHANGED << todo, mounts, flagged, loops, holds, pids, count, warned,
                    verdict >>

(* LVMContainer.unmount finds nothing left to unmount and writes the label *)
(* and the metadata of the volume group, or fails to.                      *)
WriteHeader ==
    /\ pc = "umount" /\ todo = {} /\ pc' = "publish"
    /\ \/ /\ disk' = IF HasLvm THEN disk \cup {"header"} ELSE disk
          /\ UNCHANGED warned
       \/ HasLvm /\ warned' = TRUE /\ UNCHANGED disk
    /\ UNCHANGED << todo, mounts, flagged, loops, holds, pids, count, raised,
                    verdict >>

(* write: an exception fails the job, otherwise the compressed image is    *)
(* posted; compressing or posting it may fail too.                         *)
Outcomes == IF raised THEN {"failed"} ELSE {"posted", "failed"}

Publish ==
    /\ pc = "publish" /\ pc' = "done"
    /\ verdict' \in Outcomes
    /\ UNCHANGED << todo, mounts, flagged, loops, holds, pids, count, raised,
                    warned, disk >>

Done == pc = "done" /\ UNCHANGED vars

Build ==
    \/ Format \/ MountAll
    \/ FetchFails \/ MountSpecial \/ Install
    \/ Scan \/ Kill \/ Reap \/ ReadMounts \/ UmountChroot
    \/ Bind \/ InstallMbr \/ Release
    \/ UmountAll \/ WriteHeader \/ Publish

Next == Build \/ Start \/ ScriptMounts \/ Exit \/ Done

(* The build runs on; a process of the install need never exit.  Install   *)
(* and the boot loader's installer return by their own fairness, whatever  *)
(* the processes they start do.                                            *)
Spec == Init /\ [][Next]_vars /\ WF_vars(Build)

-----------------------------------------------------------------------------
(* A file system is mounted only while all those above it are: nothing is  *)
(* installed into, or hidden by, the wrong one (mountAll, umountAll).      *)
ParentsMounted ==
    \A m, n \in Mountable :
        (IsStrictPrefix(m, n) /\ n \in mounts) => m \in mounts

(* What an object says of itself is what the kernel has mounted: neither   *)
(* the clean-up of the root nor a failed mount gets in between.            *)
FlagsAreTrue == flagged = mounts \cap Managed

(* What is mounted is what the build counts on, through every failure and   *)
(* every clean-up of the install.                                          *)
MountsKept == TypeOK /\ ParentsMounted /\ FlagsAreTrue

Clean ==
    /\ mounts = {} /\ loops = {}
    /\ HasLvm => "header" \in disk

(* A published image was unmounted, its loop devices given back and its    *)
(* volume group written, unless the tear-down failed and the log says so.  *)
CleanUnlessWarned == verdict = "posted" => Clean \/ warned

(* A published image has its files and its boot record: no clean-up on the *)
(* way hides that a step before it failed (the three nested finally).      *)
PostedIsComplete == verdict = "posted" => {"files", "mbr"} \subseteq disk

(* Every build ends, with processes that never die and file systems that   *)
(* stay busy (the bounds on the signals and on the unmounts).              *)
JobEnds == <>(pc = "done")

(* What Filesystem.umount says: a file system that cannot be unmounted is  *)
(* an error, so that no image is published with it still mounted.          *)
PostedIsUnmounted == verdict = "posted" => mounts = {}

=============================================================================
