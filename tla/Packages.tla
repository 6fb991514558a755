------------------------------ MODULE Packages ------------------------------
(***************************************************************************)
(* From a disk image to what is posted: write() of the image generators in *)
(* jobslave/generators (raw_hd_image, raw_fs_image, vmware_image, vpc,     *)
(* virtual_iron, xen_ova, ami, tarball), and the OVF packages of           *)
(* ovf_image.py and imagegen.py (createOvf).                               *)
(*                                                                         *)
(* What is in a file is the set of the chains that lead to its data: a zip *)
(* of a VMDK of the disk has the chain <<"zip", "vmdk", "VMDK", "hdd">>.   *)
(* write() of each format is the sequence of the operations it makes; each *)
(* may fail, and a tar that feeds a pipe fails without anyone knowing.     *)
(***************************************************************************)
EXTENDS Integers, FiniteSetsExt, SequencesExt

CONSTANTS
  Formats,     \* the generators considered
  Sizes,       \* sizes of the disk image
  ChunkLimit   \* the most a chunk of an XVA takes (1 GB)

ASSUME PackagesAssumption ==
  /\ ChunkLimit \in Nat \ {0} /\ Sizes \subseteq Nat \ {0}
  /\ Formats \subseteq {"raw_hd", "raw_fs", "vmware", "esx", "vpc", "virtual_iron", "xen_ova",
                        "ami", "ami_s3", "tarball"}

VARIABLES
  format,      \* the generator
  buildOVF10,
  vhdDiskType,
  size,        \* of the disk image
  plan,        \* operations write() has still to make
  files,       \* path -> content
  chunks,      \* the chunks of the disk written so far, in the order of the manifest
  ovf,         \* the description of the virtual machine
  inOva,       \* members of the OVA: paths and contents, in order
  outputFileList,
  hidden,      \* a tar in a pipe has failed
  verdict

choices == <<format, buildOVF10, vhdDiskType, size>>
made == <<files, chunks, ovf, inOva, outputFileList, hidden>>
pkgVars == <<choices, plan, made, verdict>>

\* A path is a directory and a name in it.
Work(name) == <<"work", name>>
Working(name) == <<"working", name>>
Output(name) == <<"output", name>>

Hdd == {<<"hdd">>}
Wrap(form, content) == {<<form>> \o c : c \in content}
Archive(form, paths) == UNION {{<<form, p[2]>> \o c : c \in files[p]} : p \in paths}
InDir(dir) == {p \in DOMAIN files : p[1] = dir}

Put(path, content) ==
  files' = [p \in DOMAIN files \cup {path} |-> IF p = path THEN content ELSE files[p]]
Drop(paths) == files' = [p \in DOMAIN files \ paths |-> files[p]]

-----------------------------------------------------------------------------
(* write() of each generator                                               *)

Op(op, in, out) == [op |-> op, in |-> in, out |-> out]
NoPath == <<"none", "none">>
If(condition, ops) == IF condition THEN ops ELSE <<>>
List(path) == Op("list", path, NoPath)
Post == Op("post", NoPath, NoPath)
WrongArguments == Op("wrongArguments", NoPath, NoPath)

\* ImageGenerator.createOvf and the methods of OvfImage it calls, in their order.
Ova(disk) ==
  <<Op("createOvf", disk, NoPath), Op("writeOvf", NoPath, Working("ovf")),
    Op("createManifest", disk, Working("mf")), Op("createOva", Working("ovf"), Output("ova")),
    Op("append", Working("mf"), Output("ova")), Op("append", disk, Output("ova"))>>

RawHdImage ==
  <<Op("disk", NoPath, Work("hdd")), Op("gzip", Work("hdd"), Output("hdd.gz"))>>
  \o If(buildOVF10, Ova(Output("hdd.gz")) \o <<List(Output("ova"))>>)
  \o <<List(Output("hdd.gz")), Post>>

\* createOvf has no imageName, which it is called with here.
RawFsImage ==
  <<Op("disk", NoPath, Working("root.fs")), Op("tar", <<"working", "*">>, Output("fs.tar.gz"))>>
  \o If(buildOVF10,
        <<Op("gzip", Working("root.fs"), Output("root.gz")),
          Op("rmtree", <<"working", "*">>, NoPath),
          WrongArguments>>)
  \o <<List(Output("fs.tar.gz")), Post>>

\* Mutant of compressDiskImage: the disk is compressed after the package refers to it.
compressLate == Ova(Working("vmdk")) \o <<Op("gzip", Working("vmdk"), Output("vmdk.gz"))>>

compressDiskImage ==
  <<Op("gzip", Working("vmdk"), Output("vmdk.gz")), Op("remove", Working("vmdk"), NoPath)>>
  \o Ova(Output("vmdk.gz"))

\* writeMachine makes the machine for VMware's players, then writeVmwareOvf the package.
VMwareImage ==
  <<Op("disk", NoPath, Work("hdd")), Op("sparse", Work("hdd"), Working("vmdk")),
    Op("remove", Work("hdd"), NoPath), Op("createVMX", Working("vmdk"), Working("vmx")),
    Op("zip", <<"working", "*">>, Output("zip")), List(Output("zip"))>>
  \o If(buildOVF10, compressDiskImage \o <<List(Output("ova"))>>)
  \o <<Post>>

VMwareESXImage ==
  <<Op("disk", NoPath, Work("hdd")), Op("stream", Work("hdd"), Working("vmdk")),
    Op("remove", Work("hdd"), NoPath), Op("copy", Working("vmdk"), Output("vmdk"))>>
  \o Ova(Output("vmdk")) \o <<List(Output("ova")), Post>>

\* A fixed disk is the raw one with a footer; the others are written from it.
createVHD ==
  CASE vhdDiskType = "fixed" ->
         <<Op("vhd", Work("hdd"), Working("vhd")), Op("remove", Work("hdd"), NoPath)>>
    [] vhdDiskType = "dynamic" -> <<Op("vhd", Work("hdd"), Working("vhd"))>>
    [] OTHER -> <<Op("vhd", Work("hdd"), Working("base.vhd")),
                  Op("difference", Working("base.vhd"), Working("vhd"))>>

\* VirtualIronVHD has no VMC.  XenOvfImage is made with one argument less than it takes.
VirtualPCImage ==
  <<Op("disk", NoPath, Work("hdd"))>> \o createVHD
  \o If(format = "vpc", <<Op("createVMC", Working("vhd"), Working("vmc"))>>)
  \o <<Op("tar", <<"working", "*">>, Output("vpc.tar.gz")), List(Output("vpc.tar.gz"))>>
  \o If(buildOVF10, <<WrongArguments>>) \o <<Post>>

XenOVA ==
  <<Op("disk", NoPath, Work("hdd")), Op("createXVA", <<"base", "xvda">>, <<"base", "ova.xml">>),
    Op("chunk", Work("hdd"), NoPath), Op("remove", Work("hdd"), NoPath),
    Op("xva", <<"base", "ova.xml">>, Output("xva")), List(Output("xva")), Post>>

AMIImage ==
  <<Op("disk", NoPath, Work("hdd")), Op("stream", Work("hdd"), Work("vmdk")),
     List(Work("vmdk")), Post>>

Tarball ==
  <<Op("disk", NoPath, <<"tree", "files">>), Op("tar", <<"tree", "*">>, Output("tar.gz")),
    List(Output("tar.gz")), Post>>

\* An image for EC2 that is not EBS-backed is a tarball.
Write ==
  CASE format = "raw_hd" -> RawHdImage [] format = "raw_fs" -> RawFsImage
    [] format = "vmware" -> VMwareImage [] format = "esx" -> VMwareESXImage
    [] format \in {"vpc", "virtual_iron"} -> VirtualPCImage
    [] format = "xen_ova" -> XenOVA [] format = "ami" -> AMIImage
    [] format \in {"tarball", "ami_s3"} -> Tarball

-----------------------------------------------------------------------------
(* The operations *)

Fails == plan' = <<>> /\ verdict' = "failed" /\ UNCHANGED <<choices, made>>

\* The next operation of write() is one of these: it is made, or it raises.
Next1(ops, Does(_)) ==
  /\ verdict = "none" /\ plan # <<>> /\ Head(plan).op \in ops
  /\ \/ Does(Head(plan)) /\ plan' = Tail(plan) /\ UNCHANGED <<choices, verdict>>
     \/ Fails

Reads(o) == o.in \in DOMAIN files

\* makeHDImage, makeFSImage and installFileTree.
MakeImage ==
  Next1({"disk"}, LAMBDA o :
    Put(o.out, Hdd) /\ UNCHANGED <<chunks, ovf, inOva, outputFileList, hidden>>)

\* createVMDK, makeFlat and makeDynamic, gzip of a file, the copy of compressDiskImage.
Convert ==
  Next1({"sparse", "stream", "vhd", "gzip", "copy"}, LAMBDA o :
    /\ Reads(o)
    /\ Put(o.out, IF o.op = "copy" THEN files[o.in] ELSE Wrap(o.op, files[o.in]))
    /\ UNCHANGED <<chunks, ovf, inOva, outputFileList, hidden>>)

\* makeDifference, createVMX, createVMC and createXVA write a file that names another one.
Describe ==
  Next1({"difference", "createVMX", "createVMC", "createXVA"}, LAMBDA o :
    Put(o.out, {<<"names", o.in[2]>>}) /\ UNCHANGED <<chunks, ovf, inOva, outputFileList, hidden>>)

\* HDDContainer.destroy, util.remove and util.rmtree.
RemoveFiles ==
  Next1({"remove", "rmtree"}, LAMBDA o :
    /\ Drop(IF o.op = "rmtree" THEN InDir(o.in[1]) ELSE {o.in})
    /\ UNCHANGED <<chunks, ovf, inOva, outputFileList, hidden>>)

\* zipArchive is one command.  gzip of a directory and Tarball.write pipe tar into gzip:
\* the shell tells of gzip only.
Pack ==
  Next1({"zip", "tar"}, LAMBDA o :
    /\ \/ Put(o.out, Archive(o.op, InDir(o.in[1]))) /\ UNCHANGED hidden
       \/ o.op = "tar" /\ Put(o.out, {}) /\ hidden' = TRUE
    /\ UNCHANGED <<chunks, ovf, inOva, outputFileList>>)

\* Mutant of Split: the loop ends when a chunk is not full.
SplitShort(tocopy) == tocopy < ChunkLimit

\* The last turn of the loop is the one that leaves nothing to copy.
Split(tocopy) == tocopy <= ChunkLimit

\* A turn of the loop of XenOVA.write.
WriteChunk ==
  LET done == IF chunks = <<>> THEN 0 ELSE Last(chunks)[2]
      end == Min({size, done + ChunkLimit})
  IN  /\ verdict = "none" /\ plan # <<>> /\ Head(plan).op = "chunk"
      /\ \/ /\ Reads(Head(plan)) /\ chunks' = Append(chunks, <<done, end>>)
            /\ plan' = IF Split(size - done) THEN Tail(plan) ELSE plan
            /\ UNCHANGED <<choices, files, ovf, inOva, outputFileList, hidden, verdict>>
         \/ Fails

\* tar -T of the manifest: ova.xml and the chunks; those are written with the whole of their
\* paths, of which tar drops the leading separator.
Member(dir) == <<"tmp", "uuid", "ova_base", dir>>
Xva ==
  Next1({"xva"}, LAMBDA o :
    /\ Reads(o)
    /\ Put(o.out, Archive("tar", {o.in}) \cup {<<"tar">> \o Member("xvda") \o <<"chunk">>})
    /\ UNCHANGED <<chunks, ovf, inOva, outputFileList, hidden>>)

\* The OVF: the file it refers to and whether it is said to be compressed.
CreateOvf ==
  Next1({"createOvf"}, LAMBDA o :
    /\ Reads(o)
    /\ ovf' = [href |-> o.in[2], fileSize |-> files[o.in], diskCompressed |-> format # "esx"]
    /\ UNCHANGED <<files, chunks, inOva, outputFileList, hidden>>)

\* A TypeError.
RaiseTypeError ==
  verdict = "none" /\ plan # <<>> /\ Head(plan) = WrongArguments /\ Fails

WriteOvf ==
  Next1({"writeOvf"}, LAMBDA o :
    /\ Put(o.out, {<<"names", ovf.href>>})
    /\ UNCHANGED <<chunks, ovf, inOva, outputFileList, hidden>>)

\* The digests of the OVF and of the disk, as they are now.
CreateManifest ==
  Next1({"createManifest"}, LAMBDA o :
    /\ Reads(o)
    /\ Put(o.out, Wrap("digest", files[Working("ovf")]) \cup Wrap("digest", files[o.in]))
    /\ UNCHANGED <<chunks, ovf, inOva, outputFileList, hidden>>)

\* OvfImage.createOva: three commands, the first makes the archive.
CreateOva ==
  Next1({"createOva", "append"}, LAMBDA o :
    /\ Reads(o)
    /\ inOva' = Append(IF o.op = "append" THEN inOva ELSE <<>>, <<o.in[2], files[o.in]>>)
    /\ files' = [p \in DOMAIN files \cup {o.out} |->
                   IF p # o.out THEN files[p]
                   ELSE UNION {Wrap("ova", Wrap(m[1], m[2])) : m \in Range(inOva')}]
    /\ UNCHANGED <<chunks, ovf, outputFileList, hidden>>)

Listing ==
  Next1({"list"}, LAMBDA o :
    /\ outputFileList' = Append(outputFileList, o.in)
    /\ UNCHANGED <<files, chunks, ovf, inOva, hidden>>)

\* postOutput: it opens each file it uploads.
PostOutput ==
  /\ verdict = "none" /\ plan # <<>> /\ Head(plan).op = "post"
  /\ \/ /\ Range(outputFileList) \subseteq DOMAIN files
        /\ plan' = <<>> /\ verdict' = "posted" /\ UNCHANGED <<choices, made>>
     \/ Fails

NextPackages ==
  \/ MakeImage \/ Convert \/ Describe \/ RemoveFiles \/ Pack \/ WriteChunk \/ Xva
  \/ CreateOvf \/ RaiseTypeError \/ WriteOvf \/ CreateManifest \/ CreateOva \/ Listing \/ PostOutput

InitPackages ==
  /\ format \in Formats
  /\ vhdDiskType \in IF format \in {"vpc", "virtual_iron"} THEN {"fixed", "dynamic", "difference"}
                     ELSE {"none"}
  /\ buildOVF10 \in IF format = "esx" THEN {TRUE} ELSE BOOLEAN
  /\ size \in Sizes
  /\ plan = Write
  /\ files = [p \in {} |-> {}] /\ chunks = <<>> /\ ovf = [href |-> "none"] /\ inOva = <<>>
  /\ outputFileList = <<>> /\ hidden = FALSE /\ verdict = "none"

EndedPackages == verdict # "none"
SpecPackages == InitPackages /\ [][NextPackages \/ (EndedPackages /\ UNCHANGED pkgVars)]_pkgVars

-----------------------------------------------------------------------------

\* The data a deliverable must lead to.
Delivers(p) ==
  IF p[2] = "xva" THEN \E c \in files[p] : Last(c) = "chunk"
  ELSE \E c \in files[p] : Last(c) = "hdd"

\* A file that names another is delivered beside it: the VMX and the VMC with their disk,
\* the difference with its base, the OVF with its disk.
NamedIsThere(content) ==
  \A c \in content :
    LET at == Len(c) - 3
    IN  at > 0 /\ c[at + 2] = "names" /\ "digest" \notin Range(c) /\ Last(c) # "xvda" =>
          \E d \in content : IsPrefix(SubSeq(c, 1, at) \o <<Last(c)>>, d)

\* XenOVA.write: the chunks of a finished XVA are the disk, each but the last is full, and
\* none is empty.
ChunksAreTheDisk ==
  verdict = "posted" /\ format = "xen_ova" =>
    /\ chunks[1][1] = 0 /\ Last(chunks)[2] = size
    /\ \A k \in DOMAIN chunks : chunks[k][1] < chunks[k][2]
    /\ \A k \in 1 .. Len(chunks) - 1 :
         chunks[k][2] = chunks[k + 1][1] /\ chunks[k][2] = k * ChunkLimit

\* write() of every generator: what is posted leads to the disk, and what a deliverable
\* refers to is in it, unless a tar failed in a pipe; the chunks of an XVA are the disk.
PackageIsWhole ==
  /\ ChunksAreTheDisk
  /\ verdict = "posted" =>
       /\ outputFileList # <<>>
       /\ ~hidden => \A p \in Range(outputFileList) : Delivers(p) /\ NamedIsThere(files[p])

\* OvfImage: an OVA starts with the OVF and its manifest, the digests are those of what it
\* holds, the OVF has the name and the size of the disk in it, and the disk is compressed if the OVF
\* says so.
OvaIsConsistent ==
  verdict = "posted" /\ Output("ova") \in Range(outputFileList) =>
    /\ Len(inOva) = 3 /\ inOva[1][1] = "ovf" /\ inOva[2][1] = "mf"
    /\ inOva[2][2] = Wrap("digest", inOva[1][2]) \cup Wrap("digest", inOva[3][2])
    /\ ovf.href = inOva[3][1] /\ ovf.fileSize = inOva[3][2]
    /\ inOva[1][2] = {<<"names", ovf.href>>}
    /\ (\E c \in inOva[3][2] : Head(c) \in {"gzip", "tar"}) <=> (ovf.diskCompressed /\ ~hidden)

\* ova.xml: "source="file://xvda" type="dir-gzipped-chunks"", where the chunks are.
XvaNamesChunks ==
  verdict = "posted" /\ format = "xen_ova" =>
    \E c \in files[Output("xva")] : IsPrefix(<<"tar", "xvda">>, c)

\* "Building OVF 1.0 package": a job that asks for one has an end other than a failure.
OvaIsBuilt ==
  [][plan # <<>> /\ Head(plan) = WrongArguments => verdict' # "failed"]_pkgVars
=============================================================================
