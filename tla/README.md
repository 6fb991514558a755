# Formal models of jobslave

jobslave builds a system image from a job description and reports to an
rBuilder ("mint") through the jobmaster's proxy. This directory holds TLA+
modules of the parts in which threads, processes, lost calls and failures
interact, and of the file formats and plans whose arithmetic and order are hard to
test; TLC configurations that check them; and proofs that TLAPS checks.

`tlc -config X.cfg M` runs a model, `tlapm MProofs.tla` checks a proof;
`PROJECT.json` lists the runs, the source lines of each definition, a mutant
for each property, the findings, the hazards and the theorems.

## The system

| component | state | operations | what is hard |
|---|---|---|---|
| job life: `slave.py`, `imagegen.py` | status of the job, output list | `Generator.run`, `status`, `postOutput`, `_sendStackTrace` | every step may raise; the error path itself calls the rBuilder |
| rBuilder responses: `response.py` | REST resources; queue and thread of the log handler | `sendStatus`, `postOutput`, `sendLog`; `emit`, `close`, `run` | two threads, lost calls, shutdown |
| docker: `generators/docker.py` | tree of images, directories, overlay mounts, forked child | `write`, `writeBase`, `writeChild`, `installFilesInExistingTree` | a fork in a threaded process; shared directories |
| bootable images: `bootable_image.py`, `filesystems.py` | mounts, processes in the root; requests for file systems, fstab | `mountAll`, `installFileTree`, `killChrootProcesses`, `umountChrootMounts`; `getFilesystems`, `getImageSize` | clean-up that fails; sizes before there is anything to measure |
| raw disks: `raw_hd_image.py`, `lvm.py`, `geometry.py`, `loophelpers.py` | the image file, loop devices, extents | `makeHDImage`, `addFilesystem`, `unmount` | nested `finally`, rounding |
| disk formats: `raw2vmdk.c`, `vhd.py`, `vmware_image.py`, `vpc.py`, `xen_ova.py`, `ovf_image.py`, ... | tables of a file format; files on their way to an archive | one pass over a disk; `write` of each generator | offsets noted before what they point at is written; names and digests taken before a file changes |
| ISOs: `installable_iso.py`, `appliance_iso.py`, `update_iso.py` | template, unified tree, discs, ISOs | `write`, `retrieveTemplates`, `setupKickstart`, `buildIsos` | a poll without limit; commands whose status nobody reads |
| change sets and discs: `trovebucket.py`, `gencslist.py`, `splitdistro.py` | selection, cache, cslist, discs | `parsePackageData`, `extractChangeSets`, `reorderChangesets`, `splitDistro` | a cache that outlives builds which die; a plan and what is made of it |
| boot loaders and initrd: `bootloader/`, `mkinitrd/` | entries, kernels, initrds | `setup`, `install`, `generate` | three steps that must agree on names |
| helpers, tables, scripts | none | single commands, text | nothing a model adds to a test |

How they meet: `slave.main` makes one generator and calls `run`. `run` starts
the log handler's thread, calls `write` of the generator, and turns its result
into a final status. All calls to the rBuilder go through one `ResponseProxy`,
from the main thread and from the log thread. The docker generator forks; the
child shares nothing but the file system and the rBuilder with the job. A disk
generator shares the kernel's mounts with the processes it starts; what it makes
goes through a converter (VMDK, VHD) and a packer (OVA, XVA, zip) before it is posted. An
ISO job shares a cache of change sets with the jobs before and after it, and
waits for a template that the job master makes.

What makes each correct:

* responses: the build log is in order, nothing twice, nothing lost but with a
  lost POST; closing returns; a call that loses a final status raises.
* job life: what the rBuilder shows is true (FINISHED only after `write`),
  complete (files uploaded before they are listed) and final.
* docker: each image gets a verdict, a true one; each is installed on the layers of
  its ancestors; its layer holds its own files.
* disks: file systems are mounted and unmounted in order; a published image is
  complete and unmounted; volumes fit the partition computed for them; every file
  system has room for what is installed on it, and the image boots.
* disk formats: a reader of the file finds the disk it was made of; what is posted
  leads to that disk, and what a package names is in it.
* ISOs: the medium holds the selection, listed once, on discs that fit; a cache entry
  is whole or absent; what is posted is whole, there, and starts its kickstart.

## Modules

| module | models | uses |
|---|---|---|
| `BuildLog` | abstract: a log to which batches are appended or lost | |
| `LogRelay` | `LogHandler` and `sendLog`; main thread and relay thread | implements `BuildLog` |
| `JobStatus` | abstract: life of a job as the rBuilder shows it | |
| `JobRun` | `Generator.run` and its calls | extends `LogRelay`, implements `JobStatus` |
| `DockerBuild` | `DockerImage.write` and the forked child | |
| `DockerLayers` | order of builds, layers, overlays | |
| `ForkedLog` | the log handler across `os.fork` | |
| `DiskImage` | set-up and tear-down of a raw disk | |
| `DiskLayout` | partition and volume arithmetic | |
| `VhdDisk` | fixed, dynamic and difference VHD of that disk | extends `DiskLayout` |
| `SparseExtent` | `raw2vmdk.c` in its three formats, and the reader | |
| `Ranking` | sorting by rank: the n-th element is the one with n - 1 before it | |
| `ImageRoot` | plan of file systems, fstab, swap file, kernels, boot loader | extends `Ranking` |
| `Packages` | `write` of each image format, OVF, OVA, XVA | |
| `ImageJob` | a job from the plan to what is posted | composes `ImageRoot`, `Packages` |
| `ChangeSets` | selection, cache and list of the change sets of a medium | |
| `Discs` | the plan of the discs and how they are filled | extends `Ranking` |
| `IsoMedia` | from the packages to the discs | composes `ChangeSets`, `Discs` |
| `IsoJob` | the life of the three kinds of ISO job | |
| `JobRunProofs` (with `LogRelay`), `DockerBuildProofs` (with `ForkedLog`), `DockerLayersProofs`, `DiskProofs` (with `DiskImage`, `DiskLayout`, `VhdDisk`), `ImageJobProofs` (with `ImageRoot`, `Packages`), `IsoJobProofs`, `IsoMediaProofs` (with `ChangeSets`, `Discs`), `SparseProofs` (with `SparseExtent`) | theorems | extend the above and TLAPS |
| `MCJobRun`, `MCDiskImage`, `MCIsoMedia`, `MCIsoJob`, `MCImageJob` | values for TLC | |

Operators named after a mistake (`EmitLifo`, `TakeAnyway`, ...) stand next to
the operator they are a mutation of. No specification uses them; putting one in
place of the original must break a property.

### LogRelay

`main`, `emitted` are the main thread; `lock`, `buffer`, `started`, `stopped`
the fields of the handler; `relay`, `sawStopped`, `items` the locals of
`LogHandler.run`; `buildLog`, `dropped`, `sent` the rBuilder and history. A
record is the number of its logging call. A critical section under the
handler's lock is one step, an I/O call another. `Log` is `emit`;
`CheckStopped`, `Collect`, `WindowEnd`, `SendLog`, `ReportFailure` are the lines
of the thread's loop; `CloseFromRun`, `Shutdown`, `CloseFromShutdown`, `Join`
the two ways `close` is called. A POST is recorded and answered, recorded
without an answer, or lost. The record the proxy makes of its own failure is
`OwnRecord`: it must not be relayed.

*`LastWindowDrains`*: a round collects for at most one second and the thread
ends after the round that saw the stop flag. Records are lost if one second is
not enough for what is in the queue. The model takes it to be enough; with the
constant FALSE `Drained` speaks of nothing.

*`ShutdownLocks`*: Python 2.6's `logging.shutdown` calls `close()` without the
handler's lock, Python 2.7's with it.

### JobRun

The job is the main thread of `LogRelay` while that is running, so every job
step interleaves with logging and with the relay thread. `Begin`, `Progress`,
`WriteDone`, `WriteRaises` are `run` and `write`; `Upload` and `List` are
`ResponseProxy.postOutput`; `Finish`, `SendStackTrace`, `SendFailed`, `Return`,
`Leave` the ends. `sendStatus` raises only for a final status. Two things the
model shows and no property forbids: FINISHED may be recorded and followed by
FAILED, when the answer to FINISHED is lost; and the verdict may be shown before
the last log lines, since `Handler.flush` does nothing. A failure message that
cannot be encoded is one more way for `SendFailed` to raise.

### DockerBuild

`pc`, `at`, `exc` exist for the job and for the child, because an install that
raises lets the child run on as a copy of the job: through the `except` of
`write`, the rest of its loop and the `except` of `run`. `Fork`, `Install`,
`Killed`, `Wait` are `installFilesInExistingTree`; `Take`, `Skip`, `LoopEnd`,
`Failed` the loop; `WriteLayer`, `Post`, `Done`, `Finish` the end of an image and
of the job. `strayed` says that an install has raised in a child. What a job
promises holds until then (`InstalledUnlessStrayed`, `NoneAfterFailure`,
`VerdictIsFinal`); `FinishedIsListed` and `JobEnds` (which says that every image is told its end) hold after it, too.
The job's own image is also the job's status: its FINISHED may go back to RUNNING
while later images are built.

### DockerLayers

Images are numbered depth first; a layer is known by its image; a place is an
image's directory or the directory its overlay is mounted on. `Visit`/`Visited`
are `findImagesToBuild`; `Parent`, `ExtractLast`, `ExtractOnOverlay`, `MountOverlay`,
`Stacked`, `Install`, `Umount`, `Unmounted` are `writeChild`; `WriteBase` and
`WriteLayer` the functions of that name. overlayfs is external: a mounted place
shows its lower and its upper directory and writes to the upper one.

`BuiltOnParent` holds for the trees that satisfy `Shallow`. The condition is exact up to
the bound: in each tree of up to seven images that does not satisfy it some image
is built on the wrong layers. The two findings below are how. After a failure
mounted overlays are left to the end of the slave; images of one name, version
and flavour would share a directory; that case is not modelled.

### ForkedLog

`LogRelay` takes a critical section as one step, because its threads always leave
it. Here a section of the relay thread is two steps and `ForkChild` may come between
them: `held` is the set of locks that are held for ever in the child. A child
that logs then never returns, nor does the job's `waitpid`: `JobEndsUnlessHeld`
states the rest. What the install logs in the child is never sent, since the
child has no relay thread and `os._exit` flushes nothing.

### DiskImage

`mounts`, `loops`, `holds` are the kernel, `flagged` what the `Filesystem` objects
say, `raised` the exception on its way through three nested `finally`, `warned`
the log line that is all a failed tear-down leaves. `Format`, `MountAll`;
`MountSpecial`, `Install`, `Scan`, `Kill`, `Reap`, `ReadMounts`, `UmountChroot`
(`installFileTree`); `Bind`, `InstallMbr`, `Release`; `UmountAll`, `WriteHeader`,
`Publish`. The install is external: it may start processes that keep a mount
busy, and mount things. A process outside the root with a file open in it is not killed
(`ret = True` is commented out in `pidHasOpenFiles`), a process that exits between
the look and the signal makes `os.kill` raise and ends the clean-up. `losetup`
is taken to succeed when it detaches an unmounted device; the other jobs of the
host, which compete for loop devices, are not modelled.

### DiskLayout

`Add` is the sum over the file systems, `Partition` the division of the disk,
`addFilesystem` and `Skip` the loop that allocates. The sum runs over one
dict and the allocation over another with the same keys; the model uses one
order for both, since the order does not change a sum. The sizes are in bytes and
unbounded; a partition of 2^32 sectors and more, which `struct.pack` refuses, and
the packed CHS numbers are not modelled.

### VhdDisk

`makeFlat`; `WriteHead`, `WriteBlock`, `Close` (`makeDynamic`); `makeDifference`; `Begin` is
`createVHD` with the geometry of `originalSize`. The raw disk is any that `DiskLayout`
reaches, with any data in the first and last sector of each block: the sectors between go
the same way. A file is a function from a sector to the object that begins there, so that a
place noted in the table can be followed, as a reader does. The checksum of footer and
header is not modelled.

### SparseExtent

`PlanExtents`, `OpenExtent`, `CopyGrain`, `EndExtent` are the two sparse formats,
`CompressGrain`, `CloseTable`, `Finish` the stream of `raw2vmdk.c`. `OpenFails`, `WriteFails`
and a `CopyGrain` that is not written are the faults; of those a sparse format looks at none. A grain
knows how many bytes of it are in the file: `copyData` fills up its buffer, and writes only what it read, where the
stream compresses what it read.
`inspect`, `Restored` and `CorrectlyBuilt` are the readers: `scripts/inspect-vmdk.py` and
`scripts/fix-vmdk-gd.py`. `Restored` stops (`Aborted`) at a grain of a sparse extent that is not whole in the
file, as the reader's assertion does; `Readable` says that this is the last grain of a disk whose size is no
multiple of a grain, if it holds data, and no other. The loop of `inspect` is a recursive function, `Reading(f)[n]` is what it has built
when it is n sectors behind the header. The arithmetic keeps its off-by-one (`lba <= SECTORS(outsize)`),
which is harmless because a table without entries is not written. The sizes stay below what
the 32-bit entries hold: `MAX_EXTENT_SIZE_BYTES` keeps those of the sparse formats there, and a stream of
2 TB and more is not modelled.

### ImageRoot

`getFilesystems` is one turn of its loop, which takes one of the requests and gives it a mount point; `Plan` is
what the constructor makes of the result (`getDefaultFilesystems`); then `getImageSize`, `Format`, `loadRPM`,
`preInstallScripts` (`Fstab`), `installBootstrapTroves`, `InstallTroves`, `preTagScripts`, `runTagScripts`,
`postTagScripts`; then one action per boot loader (`PopulateGrub` and `InstallGrub`, `InstallExtLinux`,
`InstallGrub2`, `InstallDummy`) and `InstallMbr`. A path is a sequence of tokens with "/" among them, which
keeps what matters of string prefixes: `calculatePartitionSizes` charges `/srv2/x` to `/srv`, where
`find_mount` does not (a finding, below). `Numerals` are the tokens of the numbers that `findUnusedName`
appends. `Label` is what `Filesystem` makes of a name: it drops slashes. `RootAssumption` says what the
code takes for granted: names are not empty and contain no slash (two names that differ in slashes only would
get one label), mount points begin with one; and that SUSE ships neither `grubby` nor `bootman`. What packages bring (`Roots`, `Contents`), their scripts and
`grubby`, `bootman`, `dracut` and `mkinitrd` are external, modelled from how the installers use
them. An entry is a kernel and the initrd it names; the initrds that exist are a set
of prefix and kernel, since `initrd` and `initramfs` are told apart in one place and not in another.
`MountDev` is `_mount_dev` of grub2, through which `install` and `install_mbr` both go: `losetup` in the image is
its own, a stub, or moved away, and `Unstub` is the clean-up, in which a failing unlink or rename is swallowed with
everything behind it. `unseen` remembers that this has happened. The bind mount of `/dev` that the same clean-up may
leave is not in this module: mounts are the subject of `DiskImage`, and `umountChrootMounts` looks for such
ones.

### Packages

`write` of a generator is the sequence of operations it makes (`RawHdImage`, `VMwareImage`,
`VirtualPCImage`, `XenOVA`, ...). Any operation may raise; a `tar` that feeds a pipe fails without
anyone knowing (`hidden`). What a file holds is the set of chains that lead to its data,
`<<"zip", "vmdk", "sparse", "hdd">>` or the like, so that a property can ask whether the disk is in what was
posted and whether what a description names is beside it. `CreateOvf`, `WriteOvf`, `CreateManifest`,
`CreateOva` are `OvfImage`; `WriteChunk` and `Xva` the XVA of `xen_ova.py`, whose chunks are
ranges of the disk. `ImageJob` puts a root before it: the format decides whether it is a
hard disk, a file system or a tree, and a root that fails posts nothing.

### ChangeSets, Discs, IsoMedia

`CalcGroupHierarchy`, `SelectKernels` and `CheckDeps` are `TroveBucket` as `gencslist.py` uses
it; conary's solver is external and lists the selected troves in some order, fails, or wants
more. `Lookup`, `Download`, `Rename`, `Link` are one turn of `extractChangeSets`: `ValidateChangeSet`, the
temporary file, the rename into the cache, and the link into the directory of the
medium. The cache outlives the build: it starts with a file of another version, with a component
missing or one too many, and `NextBuild` starts another build after any step of the one
before, which may have died. `byDefault` is what the top group includes by default: any packages, components and
groups in it. Two builds at the same time are not modelled.

`LayOutFirst`, `Plan` (`reorderChangesets`), `Put` and `Close` are `splitdistro.py`. A line of the
cslist is known by its number: `Arranged` sorts the lines as `reorderChangesets` does, `Planned` gives each
the first disc with room for it, and the plan is the lines sorted by disc, the lists of `reOrdList`
one after the other. Blocks
are rounded as `spaceused` does, which gives a file whose size is a multiple of a block one block
too many. `IsoMedia` composes the two: the list that `ChangeSets` wrote is read by `splitDistro` with
any of the sizes and kinds of its instance. `DiscsAsNeeded` states the
bound exactly: the cslist of the first disc is written when all has been measured, and a change
set larger than a disc gets a disc of its own.

### IsoJob

`Steps(kind)` are the steps of the three `write` methods in their order; `installable`, `update` and
`appliance` share most of them. A step raises, or is made; `unseen` collects what the job lost in
commands whose exit status nobody reads (`splitdistro.call`, a pipeline): the copy of `isolinux.bin`, the pixmaps,
the tarball of an appliance by name, `cp` of a media template, `gpg` and `mkisofs` as commands
(`AddsOrLoses`, `ExtractMedia`, `ExtractKeys`, `Split`, `BuildIso`). `RequestTemplate` is one
request of `retrieveTemplates`: the first asks the master to start, the others say
`nostart`, so that a template that was given up ends the job instead of being started
for ever. The job master is external.

`isolinux` is the `isolinux.cfg` of the unified tree, and from the step that lays out the discs on that of the
first disc. `Cfgs` are the files that `addKsBootLabel` tells apart, with any timeout: only `timeout 600` is
rewritten. A media template may bring an `isolinux.cfg` of its own, in the old place (`media-template`, laid over the disc by
`lndir`, which replaces files) or the new one (`media-template2`, by a `cp` that may fail unseen); `Laid` is
what the disc then has. The comment in `addKsBootLabel` ("one was supplied by media-template") does not speak
of these: when it looks for a label, it looks at the file of the anaconda template, before any media
template is over it. For an appliance the new place raises (`LayDisc1`, a finding).

`buildIsos` takes the directories in the order of their names, in which `disc10` comes before `disc2`:
`Ahead` compares numbers as such strings to the base `Radix`, and `Left` are the discs it has not come to. A disc gets a boot
image only if `isolinux.bin` is on it.

Limits: a template's `isolinux.cfg` is taken to have a `default` line; a command that fails halfway
leaves all of its part or nothing (a truncated file in a media template is not told from a whole one); the copies of
the `.msg` files of isolinux, which are only shown, are left out. An appliance's directory goes in a `finally`
(`CleanUp`); the other kinds leave theirs to the end of the slave.

## What the runs check

| run | instance (distinct states) | properties |
|---|---|---|
| `log_relay` | 4 records, all POST outcomes (1 809) | lost records are exactly those whose POST was lost (`Accounted`); nothing is left behind (`Drained`); `close` returns (`CallerNotBlocked`); a record leaves the slave (`EventuallySent`); refinement of `BuildLog` |
| `job_run` | 2 records, 2 files (14 792) | `ListedIsUploaded`, `Truthful`, `VerdictReported`, refinement of `JobStatus` |
| `docker_build` | 4 images, the first the job's own (6 593) | `InstalledUnlessStrayed`, `FinishedIsListed`, `NoneAfterFailure`, `VerdictIsFinal`, `JobEnds` |
| `docker_layers` | all trees of 7 images, built or downloaded root (26 120) | `BuiltOnParent`, `LayersSound`, `TopUnmountedFirst`, `LowerUntouched` |
| `forked_log` | 3 records, 1 of a child, 2 forks (3 226) | `SentOnce`, `JobEndsUnlessHeld` |
| `disk_image` | 4 file systems and swap, 2 processes, 2 stray mounts (36 287) | `MountsKept`, `CleanUnlessWarned`, `PostedIsComplete`, `JobEnds` |
| `disk_files` | 3 file systems of 6 sizes, 3 kinds of VHD (497 120) | `NoOverflow`, `RegionsApart` of the layout; `VhdIsTheDisk`: data and geometry |
| `sparse_extent` | 3 formats, 10 sizes, all patterns of zero grains (34 724) | `ReadBack`: a reader finds the disk, and stops only at an unpadded last grain; `ExtentIsSound`: no part over another, tables that agree |
| `image_job` | 10 formats, 6 partition schemes, roots with each loader (74 012) | `FstabMounts`, `RoomForContents`, `BootsAsPlanned` of the root; `PackageIsWhole`, `OvaIsConsistent` of what is posted |
| `iso_media` | 2 groups, 3 packages, 3 components, 2 builds, 3 kinds of sizes (1 740 302) | `MediumIsListed`, `NothingHalfCached`, `DiscsAsNeeded` |
| `iso_job` | 3 kinds, 3 discs, 4 templates, 2 media templates (656 692) | `PostedIsUsable`, `KickstartBoots`, `JobEnds` |

Type invariants are part of the properties where a proof or another
property needs them (`MountsKept`, `LayersSound`) and are otherwise proved.

One run ends in a counterexample, `docker_install_error` (`FinishedIsInstalled`): an install that
raises in the child ends with exit code 0; the image is reported FINISHED. The other
findings have a configuration of their own, to be run with
`tlc -config X.cfg M`:

| configuration, module | violated | what the code does |
|---|---|---|
| `LogRelayShutdown.cfg`, `LogRelay` | `CallerNotBlocked` | with Python 2.7's `logging.shutdown`, a job left by an exception never ends: `close()` joins a thread that waits for the lock the caller of `close()` holds |
| `DockerParentUnpacked.cfg`, `DockerLayers` | `ParentUnpacked` | `_unpackDir` may name the mount point of an overlay that has been unmounted; a later image is built on an empty directory |
| `DockerExtractedOnParent.cfg`, `DockerLayers` | `ExtractedOnParent` | a layer extracted through the first overlay stays in the directory of the image below, and later images are built on it |
| `DiskImageMounted.cfg`, `MCDiskImage` | `PostedIsUnmounted` | a file system that stays busy is only logged; the image is posted while mounted, and an LVM image without its header |
| `ImageJobLosetup.cfg`, `MCImageJob` | `LosetupOwn` | the clean-up of `_mount_dev` swallows a failing unlink and leaves the stub in a finished image; the next `_mount_dev` moves the stub over the image's own `losetup` |
| `SparseExtentAligned.cfg`, `SparseExtent` | `GrainAligned` | the last grain of a sparse extent is not padded, although its comment says so, and the reader stops at it |
| `IsoMediaPlanned.cfg`, `MCIsoMedia` | `SplitAsPlanned` | the dummy disc is measured before `.discinfo` is on it: discs are filled otherwise than planned |
| `IsoJobDisc.cfg`, `MCIsoJob` | `DiscLaid` | an appliance with a new media template calls `util.call` with the arguments of `splitdistro.call` and fails |
| `ImageJobOvf.cfg`, `MCImageJob` | `OvaIsBuilt` | four generators call the OVF code with arguments it does not take |
| `ImageJobXva.cfg`, `MCImageJob` | `XvaNamesChunks` | the chunks of an XVA have absolute names in the archive, its description has relative ones |
| `ImageJobSwap.cfg`, `MCImageJob` | `RoomForContents` | the swap file is counted for `/` when `/var` is a file system of its own |
| `ImageJobPrefix.cfg`, `MCImageJob` | `RoomForContents` | what is below `/srv2` is counted for the file system at `/srv`, and `/` is too small |

Bounds. Three records are the fewest with one in the queue, one in the batch and
one sent; four add a second round, and two are enough once the relay is composed
with the job, whose steps do not look at them. Two files are one uploaded and one to come. Four images are one before a
failure, the failing one, and two after it. Seven images are the fewest in which a
last child of a last child has siblings on both levels, with both findings reachable. Two forks
let a child inherit what the first left. In `disk_image` the retry bounds are
1 instead of 5 and 10: the code does the same in each round; a managed file
system below another, one beside it, swap, a stray mount below a managed one and one
below `/proc`, a process that is killed and one that is not, are all there. The VHD geometry has cylinders of
516096 bytes, which neither divide an extent nor are divided by one; the sizes lie on, above and
between both units; with 16 cylinders instead of 65535 a disk can be too large for a footer, and with blocks of
4096 sectors there are full, short and empty blocks.

In `sparse_extent` a sector is 4 bytes, a grain 2 sectors, a table 2 entries, and extents hold 24
bytes: the ten sizes lie on and beside a sector, a grain, a table, an extent and the limit
above which a disk is split, and need up to four directory entries in two sectors. In `iso_media` two packages
would get one file name, a group is inside a group, a kernel is deselected; the
sizes are one block, more and exactly a multiple, and a disc holds few
enough that there are three. Two builds are the fewest in which one finds what the other
left. In `iso_job` a tarball is a chunk and a half or two whole chunks, and any of three
discs may be a DVD; to the base of 3 the third one is `disc10` and comes before the second. The templates have a plain menu, the
graphical one, a kickstart label of their own, or a wait other than a minute and an unfit `stage2.img`; both
media templates bring a `ks.cfg` and an `isolinux.cfg`, one in each place, and `cp` may lose either. One signer is enough: the keys do
not depend on one another. In `image_job` each of the schemes has one thing the code must tell
apart: nested mount points, labels that collide, swap partitions, no root, file
systems without a mount point, one or two. The scheme of `ImageJobSwap.cfg`, with `/var` of its own and a
swap file, and a directory whose name begins with that of a mount point
(`ImageJobPrefix.cfg`) are left out of `image_job`: they are the two known exceptions to
`RoomForContents`. Disks of an XVA are one chunk or less, two whole chunks, and more.

Fairness. Threads and processes are scheduled, calls to the rBuilder return
(with an error at worst), and nothing makes the job log or end. Strong fairness is asked for `Collect` (`Queue.get` returns at
once when a record waits) and for steps that need a lock which other threads keep
taking and releasing. In `DiskImage` only the builder is fair: no process need ever
exit. In `IsoJob` the job is fair, and so is the job master: it is through with a template or gives it
up some time, because the code polls it without a limit. An install that never returns is excluded everywhere.

Deadlock is checked by every run: where a program ends, an action that says so
stutters. Only `LogRelayShutdown.cfg` turns it off, whose two threads do stop for
ever and whose property is to show it. A finding about termination is a violated liveness property under
these fairness conditions.

## What is proved

All theorems hold for every value of the constants, from the named assumption of
the module (types of the constants, and the few facts the sections above name).

* `JobRunProofs`, the log relay: the type invariant; `Fifo`, `LogInOrder`, `Accounted`, `Drained`;
  `Refinement` of `BuildLog`'s safety. `Fifo` is inductive with the types; the
  others follow from an invariant `IInv` that adds what `sawStopped` tells: after it
  was read as TRUE nothing is logged, so a queue found empty stays empty.
* `JobRunProofs`, the job: type invariant, `ListedIsUploaded`, `NoSilentReturn`, `Truthful`,
  `ReportComplete`, and that a job follows `JobStatus`. Each step of `JobRun` is a step of the relay or
  leaves its variables alone, so the theorems of `LogRelay` carry over; `ListInv` ties
  the place in `run` to what has been uploaded and reported.
* `DockerBuildProofs`, the forked log: `SentOnce`, for every number of records and forks. `Order` says that build
  log, batch and queue are, one after the other, the job's records in order and none of a
  child's; a record in the middle of `emit` is not counted yet.
* `DockerBuildProofs`: type invariant, `FinishedIsListed`, and for jobs in which no child has strayed
  `InstalledUnlessStrayed`, `NoneAfterFailure`, `VerdictIsFinal`. `QuietInv` says
  for the images before, at and after the current one which statuses are possible while nothing
  has strayed.
* `DockerLayersProofs`: `LayersSound`, `TopUnmountedFirst` and `LowerUntouched` for every tree of images,
  `BuiltOnParent` for every shallow one, of any size. `LayersInv` is inductive in every tree: the
  stack of `findImagesToBuild` holds the children of what was visited that come later in the depth first
  order, the last one first (`Visiting`), so images are built in the order of their numbers (`Queued`), each
  in a directory nothing was written to (`Layered`); only last children are ever
  unpacked, and only where something was built on them (`Unpacked`); an overlay is mounted on the place of an image
  before its own (`Mounted`, `Stacking`). `ShallowInv` is inductive with it. The `Spine` is the images of which
  each ancestor is a last child of its parent, `Branches` the first images off it: what the root holds is the part
  of the spine that was built on, and what a branch holds is its own layer and, once it was needed,
  that of its last child (`Extracted`); `Assembling` says which of the ancestors are mounted, extracted or
  still on the stack. `Shallow` is needed in one place: off the spine an image
  has no ancestor but a branch and the last child of that branch (`OffTheSpine`). The ancestors of an image are a function by
  recursion over the numbers, so its lemmas are proved by induction over a set of numbers.
* `DiskProofs`, the mounted disk: `MountsKept`, `CleanUnlessWarned`, `PostedIsComplete`, for every tree of
  mount points, every set of processes and every bound. `DiskInv` has six parts: the types;
  `FlagsAreTrue`; `ParentsMounted`, which needs that `MountAll` goes through the mount points in an order
  in which a prefix comes before what it is a prefix of, a fact about the length of
  sequences; `Raising`, what an exception on its way says of the verdict; `Contents`, what has been
  written at each place of the builder; `RootHeld`, that the root stays mounted as long as
  something in it is.
* `DiskProofs`, the layout: `NoOverflow` and `RegionsApart`. `LayoutInv`: after k file systems
  the extents given away are at most what the sum had set aside after k; the sum
  only grows; the partition holds all of it and 1 MiB of metadata. Rounding up is a lemma about
  all sizes and units (`DivCeil`), so no property of the geometry is used.
* `DiskProofs`, the VHD: `VhdIsTheDisk`, and that the two properties of the layout survive. The objects of a
  file lie apart and the next is written behind all of them, so what the table points at
  (`Held`) is never written over; the numbers of blocks, entries and cylinders are exact
  because `LayoutInv` makes the disk end with a cylinder.
* `ImageJobProofs`: `BootsAsPlanned` and `FstabMounts`, for every list of requests, every set of packages
  and every place a job can fail, in the whole job. What the code sorts is ordered by rank: the n-th
  element is the one with n - 1 elements before it (`Ranked`), and `RankedIs`, proved by
  cardinalities alone, says that the result has every element once and in order.
  `BootInv` knows of each entry of the loader's configuration where it came from (`Known`), that
  the default entry is the first in the order of the versions (`BestFirst`), and that until a job fails the image
  has its own `losetup` exactly if no clean-up failed unseen. `MountInv` follows the mount points through the loop that
  invents them: what is left of the requests is untouched, each name given is new (`Apart`), and each
  request has a file system that carries its label (`Labelled`). A free name is found because there are
  more numerals than file systems. In fstab a mount point comes after all it is below, because what is below
  another is deeper.
* `ImageJobProofs`, the sizes: `RoomForContents`, for every scheme, contents and swap file, as long as every file
  is counted for the mount point `find_mount` finds for it, and the swap file for the root (`Counted`, which holds
  in all of the run). Without that the property is false, by the two findings; the theorem says that there
  is no third reason. `RoomInv` carries it from `getImageSize` to the end: nothing is mounted
  elsewhere later, the padding is enough for every size (`PaddingIs`), and the swap file that is
  made is the one that was counted, or none. That sizes add up to a number is `SumIs`, by induction over
  the number of files.
* `ImageJobProofs`, the packages: `OvaIsConsistent`, and `PackageIsWhole`, of which the chunks of a
  XenServer image (`ChunksAreTheDisk`, for every size and chunk limit) are one part. The plan is always a tail of
  what `write()` of the format does (`Follows`), and a step does its next operation or ends the job
  (`Makes`); `Effect` says in one formula what every operation leaves alone. So it is enough to say what is there
  after n operations: `Drawn` of the disk on its way to the packed one, which differs from format to
  format, `Assembled` of the descriptor, the manifest and the members of the archive, which does not. That
  the three formats pack an OVA at these places, and that the others list none
  (`Plain`), is proved of the plans as written (`RawHdIs`, `VMwareIs`, `EsxIs`, `WriteIs`), from the assumption
  that `Formats` are generators there are. `ChunkInv`: what has been cut is a whole number of full chunks
  as long as some of the disk is left. The rest of `PackageIsWhole` rests on `CarryInv`: the name of a file tells what
  is in it (`Kind`), because each operation of each plan reads and writes what its kind does (`Fits`), and what a
  pack finds in its directory was put there and not removed (`Stay`, `Come`). Each plan is shown
  to be `Good`: it posts only after it has listed something, and when it packs a directory, a disk is in
  it and beside every file that names another that other one (`Ready`); operations that pack nothing
  can be appended without loss (`GoodJoin`), so a plan is shown to be good piece by piece. An archive of
  data, of files that name a member and of digests leads to the data and has what it names, whatever
  the form (`SealedIsSound`); the OVA is one such archive, the zip, the tars of a directory are the others.
* `IsoMediaProofs`: `NothingHalfCached` and `MediumIsListed`, for every group, every cache that was left
  by others and any number of builds; the second also for the composition with the discs. The assumptions
  are those of `ChangeSets`: a component is in one package, and a job lists every trove once. `MediumInv` says
  what holds after each step of a turn of `extractChangeSets`: the packages are in order, the list is one entry
  ahead of the directory while a change set is fetched, each file of the directory holds the whole change
  set of its entry, and a file of the cache may be of another version or short of a component, but is
  of the trove in its name, and nothing but a whole file is ever renamed to such a name.
* `IsoMediaProofs`, the discs: `DiscsAsNeeded`, for every list that the packages lead to, every size of a disc
  and whatever is on the discs before. `DiscInv` says of each disc that its files are what was
  there initially and the lines that the list of disc 1 gives it (`FilledAs`), that it is not too
  full unless it holds nothing or one line, and that `used` is what the last disc holds, counted
  as `spaceused` counts, which is never less than the files fill (`SpaceIs`). For the core it says that
  the plan has each line once, disc by disc (`InOrder`), that a line planned for another disc than the first did
  not fit there with the lines that come sooner (`FirstFit`), and that as long as the plan is at lines of
  disc 1 no other disc has been begun (`OnTrack`). The plan may be wrong about later
  discs, and is (the finding `SplitAsPlanned`); it is right about the first. The sums are recursive
  functions (`Total`): adding a line adds its size (`OneLineMore`), more lines need no less space (`MoreLines`).
* `IsoJobProofs`, what is posted: `PostedIsUsable`, for any number of discs (up to four digits), of bytes and of bytes in a
  chunk. `Whole` follows the steps of the three kinds of job in their order: what each has made (`Made`)
  stays to the end, or is in `unseen` if it is one of the parts that may be lost so (`Unchecked`), the chunks
  cover what was read of the tarball (`Cut`), and the list of
  ISOs follows the files, with one line for each disc that is not left (`Listed`). That the first disc
  comes first is a fact about numbers sorted as strings: 1 is ahead of every other (`OneIsAhead`). What `unseen` excuses is named in the property: `isolinux.bin` and with it the boot
  image, `pixmaps`, `tarball`, a key that `gpg` did not import, an ISO that `mkisofs` left broken.
* `IsoJobProofs`, the menu: `KickstartBoots`, for every template, any media template and every timeout. `Menued`: before `setupKickstart` the
  file is the template's; after it, it is what `addKsBootLabel` makes of it if there is a `ks.cfg`, and no later step
  brings one; from the step that lays out the discs on it may be the media template's instead, if that
  has one. So a medium starts its kickstart but in two cases the property names: the template had
  the label already, or the media template's file is the one on the disc.

* `SparseProofs`: `ReadBack` and `ExtentIsSound`, in each format, for every geometry, size and pattern of zero
  grains; that a grain other than the last is whole, and the last one if the size is a multiple of a grain, is `Restores`. `FileInv` says of each file that its objects lie apart and nothing is written over. In a
  sparse extent the tables come last, into the room left for them (`RoomForTables`), and until then the
  entries that are set point at the grains with data (`Entered`); that the extents of a split
  disk cover all its grains, each once, is `SplitsUp`. A stream is described by its reader (`StreamRead`):
  when it comes to the place of the next write it has built the table, the directory and the disk that the writer
  has. So a step of the writer is shown to be one turn of the reader for each object it writes and a skipped sector
  for every other (`Reading` of a longer file is what it was on the part both share), and `Finish` that the reader then ends with
  the same directory and footer. The directory of the reader is only as long as its last table asks for
  (`Mirrored`), which is why `StreamConsistent` asks for data behind the last block of the
  writer's. `TypeInv`, `StreamLoop` and `StreamTables` carry the off-by-one of the loops: lba may run beyond the last
  grain, but no grain with data is found there. The assumptions are facts of the format: a
  sector of a directory has as many entries as a grain sectors, tables fill sectors, the largest extent holds whole
  grains, the descriptor is shorter than a grain.

The proofs also state what no run repeats: the type invariants, `Fifo`, `LogInOrder`,
`NoSilentReturn`, `ReportComplete`.

Only model-checked: liveness, which is out of this prover's reach. What a RECURSIVE operator computes is out of reach as well; where a proof needs one, the model
has a recursive function or a least set instead (`Path` of `DockerLayers`, the hierarchy of
`ChangeSets`, the reader of `SparseExtent`, the sums and the plan of `Discs`), and the induction is over a set of
numbers.

## Not modelled

* Job life: the choice of the generator, the parsing of the job data, names of files. docker: the merge of
  the manifests and the Dockerfile parser; images of one name, version and flavour. They are pure
  functions of text.
* Bootable images: users, groups, network and display manager; the check of the distribution for
  its other purposes; the text of boot loader files and the modules inside an initrd; `anaconda`
  images, which only combine what is here; the branch for SUSE 11 in the grub installer that
  an earlier test shadows. An entry without an initrd makes a command line of the initrd
  generator invalid: this is modelled as the failure it is.
* Disk formats: bytes of the partition table and the LVM metadata, CHS numbers, checksums of a VHD, the
  wording of VMX, VMC and OVF (that an OVF of VMware's players declares the stream format
  for a sparse disk, and that one for Xen has a constant capacity, is not judged here),
  guest operating system tables, the upload to Amazon.
* Change sets: `unselect`, `_selectDeps` and `_verifySelection` of `TroveBucket`, which nothing calls;
  the repository, conary's solver, artwork. Two jobs that share the cache at the same time.
* `util.logCall` reads what a command says line by line from two pipes: whether it can wait for one while the
  other is full depends on the commands. `losetup -f` names a free device that another job
  may take: the other jobs of the host are not part of this repository.
* Scripts an operator runs by hand, but for the two that read a VMDK.

Left for later: two builds on one cache at the same time.
