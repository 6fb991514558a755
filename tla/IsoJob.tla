------------------------------- MODULE IsoJob -------------------------------
(***************************************************************************)
(* The life of an ISO job: installable_iso.py and its subclasses           *)
(* appliance_iso.py and update_iso.py.  Each kind goes through its own     *)
(* list of steps; a step that raises ends the job, a command whose exit    *)
(* status nobody reads (splitdistro.call, a shell pipeline) fails unseen.  *)
(* The change sets and the discs have modules of their own; here they are  *)
(* one step each.  The job master, which makes the templates, is external. *)
(***************************************************************************)
EXTENDS Integers, SequencesExt, FiniteSetsExt

CONSTANTS
  Kinds,      \* of ISO jobs
  MaxDiscs,
  Radix,      \* of the number in the name of a disc's directory (10)
  Templates,  \* [cfg, stage2]: the isolinux.cfg and stage2.img of a template
  Media,      \* [parts, cfg]: what a media template brings, and its isolinux.cfg
  TarSizes,   \* sizes the tarball of an appliance may have
  chunkSize,  \* of TarSplit
  Signers     \* fingerprints of the signatures in the change sets

\* What isolinux.cfg says: what it starts, the label marked "menu default", the labels there
\* are, and the tenths of a second it waits.
Cfgs == [default : {"linux", "kscdrom", "menu.c32", "vesamenu.c32"},
         marked : {"none", "linux", "kscdrom"},
         labels : SUBSET {"linux", "kscdrom"}, timeout : Nat]

\* The numbers have four digits at most.
Powers == {1, Radix, Radix * Radix, Radix * Radix * Radix}

ASSUME IsoJobAssumption ==
  /\ Kinds \subseteq {"installable", "update", "appliance"}
  /\ MaxDiscs \in Nat \ {0} /\ chunkSize \in Nat \ {0} /\ TarSizes \subseteq Nat
  /\ Radix \in Nat \ {0, 1} /\ MaxDiscs < Radix * Radix * Radix * Radix
  /\ Templates \subseteq [cfg : Cfgs, stage2 : {"none", "whole", "without.constants.py"}]
  /\ Media \subseteq [parts : SUBSET {"ks.cfg", "old.isolinux.cfg", "new", "new.isolinux.cfg"},
                      cfg : Cfgs]

VARIABLES
  kind,     \* of the job
  step,     \* index in Steps(kind)
  master,   \* the job master on our template: "idle", "building", "ready"
  noStart,  \* the requests say nostart=1
  template, \* the template of the job
  media,    \* its media template
  isolinux, \* isolinux.cfg of the unified tree, and then of the first disc
  tree,     \* what there is in the unified tree
  chunks,   \* the sizes of the tar chunks written
  tell,     \* how far the tarball is read
  tarEnd,   \* the size of the tarball
  keyring,  \* fingerprints in public_keys.gpg
  stage2,   \* stage2.img is mounted
  discs,    \* disc directories
  files,    \* what there is in the output directory: [name, disc, state, big, boot]
  isoList,  \* [name, disc] of what is to be posted, in order
  unseen,   \* parts and commands that failed and did not stop the job
  fault,    \* why the job failed: "none", what failed outside, or "own"
  workDir,  \* the job's directory is there
  verdict

inputs == <<kind, template, media, tarEnd>>
requests == <<master, noStart>>
outputs == <<discs, files, isoList>>
cut == <<chunks, tell>>
vars == <<inputs, step, requests, isolinux, tree, cut, keyring, stage2, outputs, unseen, fault,
          workDir, verdict>>

Steps(k) ==
  CASE k = "installable" ->
         <<"template", "unpack", "prepare", "changesets", "lists", "discinfo", "media", "keys",
           "kickstart", "stamp", "artwork", "menu", "stage2", "cramfs", "split", "isos", "sizes",
           "check", "ovf", "post">>
    [] k = "update" ->
         <<"changesets", "lists", "discinfo", "media", "keys", "split", "isos", "sizes", "check",
           "ovf", "post">>
    [] k = "appliance" ->
         <<"install", "tar", "chunks", "tblist", "template", "unpack", "prepare", "discinfo",
           "media", "kickstart", "stamp", "artwork", "menu", "stage2", "cramfs", "disc1", "isos",
           "sizes", "check", "ovf", "post">>

At(s) == verdict = "running" /\ Steps(kind)[step] = s
Raise(f) == verdict' = "failed" /\ fault' = f /\ UNCHANGED step
Advance == step' = step + 1 /\ UNCHANGED <<fault, verdict>>

\* An update has no template.
NoTemplate == [cfg |-> [default |-> "linux", marked |-> "none", labels |-> {}, timeout |-> 0],
               stage2 |-> "none"]

Init ==
  /\ kind \in Kinds
  /\ template \in IF kind = "update" THEN {NoTemplate} ELSE Templates
  /\ media \in Media
  /\ tarEnd \in IF kind = "appliance" THEN TarSizes ELSE {0}
  /\ step = 1 /\ master \in {"idle", "ready"} /\ noStart = FALSE
  /\ isolinux = template.cfg /\ tree = {} /\ chunks = <<>> /\ tell = 0
  /\ keyring = {} /\ stage2 = FALSE
  /\ discs = 0 /\ files = {} /\ isoList = <<>> /\ unseen = {} /\ fault = "none"
  /\ verdict = "running" /\ workDir = TRUE

\* A step that adds to the unified tree, or whose command or repository fails.
Adds(s, parts) ==
  /\ At(s)
  /\ \/ tree' = tree \cup parts /\ Advance
     \/ Raise(s) /\ UNCHANGED tree
  /\ UNCHANGED <<inputs, requests, isolinux, cut, keyring, stage2, outputs, unseen, workDir>>

\* A step that also makes a part with a command whose exit status nobody reads.
AddsOrLoses(s, parts, part) ==
  /\ At(s)
  /\ \/ tree' = tree \cup parts \cup {part} /\ Advance /\ UNCHANGED unseen
     \/ tree' = tree \cup parts /\ unseen' = unseen \cup {part} /\ Advance
     \/ Raise(s) /\ UNCHANGED <<tree, unseen>>
  /\ UNCHANGED <<inputs, requests, isolinux, cut, keyring, stage2, outputs, workDir>>

----------------------------------------------------------------------------
(* The tree of an appliance: installed, tarred through a pipe, cut in chunks *)

\* installFileTree only logs it when what it mounted in the tree does not unmount.
Install ==
  /\ At("install")
  /\ \/ tree' = tree \cup {"files"} /\ Advance /\ unseen' \in {unseen, unseen \cup {"umount"}}
     \/ Raise("install") /\ UNCHANGED <<tree, unseen>>
  /\ UNCHANGED <<inputs, requests, isolinux, cut, keyring, stage2, outputs, workDir>>

\* tar ... | gzip > tarball: the status of the pipeline is gzip's.
Tar == AddsOrLoses("tar", {}, "tarball")

GetChunk == IF tell + chunkSize > tarEnd THEN tarEnd - tell ELSE chunkSize

\* One turn of TarSplit.splitFile, or its end.
SplitFile ==
  /\ At("chunks")
  /\ \/ /\ tell < tarEnd
        /\ chunks' = Append(chunks, GetChunk) /\ tell' = tell + GetChunk
        /\ UNCHANGED <<step, fault, verdict>>
     \/ tell < tarEnd /\ Raise("disk") /\ UNCHANGED cut
     \/ tell >= tarEnd /\ Advance /\ UNCHANGED cut
  /\ UNCHANGED <<inputs, requests, isolinux, tree, keyring, stage2, outputs, unseen, workDir>>

WriteTbList == Adds("tblist", {"tblist"})

----------------------------------------------------------------------------
(* The template.                                                           *)

\* mutation: every request may start the master again
NoStartNever == FALSE

NoStartNext == TRUE

\* One request of retrieveTemplates: DONE, NOT_FOUND, or anything else and another one.  What
\* it asks for is its own, and gone with it.
RequestTemplate ==
  /\ At("template")
  /\ \/ master = "ready" /\ Advance /\ noStart' = FALSE /\ UNCHANGED master
     \/ master = "idle" /\ noStart /\ Raise("master") /\ noStart' = FALSE /\ UNCHANGED master
     \/ /\ master = "idle" /\ ~noStart
        /\ master' = "building"
        /\ noStart' = NoStartNext /\ UNCHANGED <<step, fault, verdict>>
     \/ /\ master = "building" /\ noStart' = NoStartNext
        /\ UNCHANGED <<master, step, fault, verdict>>
     \/ Raise("master") /\ noStart' = FALSE /\ UNCHANGED master
  /\ UNCHANGED <<inputs, isolinux, tree, cut, keyring, stage2, outputs, unseen, workDir>>

\* The master is through with a template, or gives it up, or forgets all it had.
MasterAnswers ==
  /\ master = "building" /\ master' \in {"ready", "idle"}
  /\ UNCHANGED <<inputs, step, noStart, isolinux, tree, cut, keyring, stage2, outputs,
                 unseen, fault, verdict, workDir>>

Unpack == Adds("unpack", {"unpacked"})

\* The template is linked into the tree; the real copy of isolinux.bin that takes the place of
\* its link is made by a cp nobody looks at, and may be all that is lost.
Prepare == AddsOrLoses("prepare", {"template"}, "isolinux.bin")

----------------------------------------------------------------------------
(* The rest of the unified tree.                                           *)

ExtractChangeSets == Adds("changesets", {"changesets"})
WriteLists == Adds("lists", {"cslist", "group.ccs"})
WriteDiscInfo == Adds("discinfo", {".discinfo"})

\* extractMediaTemplate: usr/lib/media-template, with a disc1/ks.cfg and an isolinux.cfg
\* ("old") perhaps, and the directories all and disc1 ("new").  Nobody looks at what cp says.
ExtractMedia ==
  /\ At("media")
  /\ \/ \E lost \in SUBSET media.parts :
          /\ tree' = tree \cup (media.parts \ lost)
          /\ unseen' = unseen \cup (IF lost = {} THEN {} ELSE {"cp"})
          /\ Advance
     \/ Raise("media") /\ UNCHANGED <<tree, unseen>>
  /\ UNCHANGED <<inputs, requests, isolinux, cut, keyring, stage2, outputs, workDir>>

\* mutation: a key that cannot be found is left out
AnyMissing(missing) == FALSE

KeysMissing(missing) == missing # {}

\* extractPublicKeys asks for the key of every signature; gpg's status is not looked at.
ExtractKeys ==
  /\ At("keys")
  /\ \E missing, notimported \in SUBSET Signers :
       \/ KeysMissing(missing) /\ Raise("keys") /\ UNCHANGED <<keyring, unseen>>
       \/ /\ ~KeysMissing(missing) /\ Advance
          /\ keyring' = Signers \ (missing \cup notimported)
          /\ unseen' = unseen \cup (IF notimported = {} THEN {} ELSE {"gpg"})
  /\ UNCHANGED <<inputs, requests, isolinux, tree, cut, stage2, outputs, workDir>>

\* mutation: the old marker of the menu's default stays
KeptMark(cfg) == IF cfg.marked # "none" THEN cfg.marked ELSE "kscdrom"

NewMark(cfg) == "kscdrom"

\* addKsBootLabel: a label of the template is left alone; only vesamenu.c32 counts as a menu.
addKsBootLabel(cfg) ==
  IF "kscdrom" \in cfg.labels THEN cfg
  ELSE IF cfg.default = "vesamenu.c32"
  THEN [cfg EXCEPT !.labels = @ \cup {"kscdrom"}, !.marked = NewMark(cfg),
                   !.timeout = IF @ = 600 THEN 50 ELSE @]
  ELSE [cfg EXCEPT !.labels = @ \cup {"kscdrom"}, !.marked = "none", !.default = "kscdrom"]

\* It fails when there is no isolinux.cfg to open.
SetupKickstart ==
  /\ At("kickstart")
  /\ \/ "ks.cfg" \notin tree /\ Advance /\ UNCHANGED isolinux
     \/ "ks.cfg" \in tree /\ Advance /\ isolinux' = addKsBootLabel(isolinux)
     \/ "ks.cfg" \in tree /\ Raise("kickstart") /\ UNCHANGED isolinux
  /\ UNCHANGED <<inputs, requests, tree, cut, keyring, stage2, outputs, unseen, workDir>>

\* .buildstamp, and where .treeinfo wants product.img.
BuildStamp == Adds("stamp", {".buildstamp"})

\* Artwork of the job's name and of anaconda-custom, brought over by tars nobody looks at.
Artwork == AddsOrLoses("artwork", {}, "pixmaps")

\* Splash and title for isolinux, and the configuration of conary.
Menu == Adds("menu", {"conaryrc"})

\* constants.py is edited on its way out of the first stage2.img there is; nothing unmounts
\* the image when that raises.
Stage2 ==
  /\ At("stage2")
  /\ \/ template.stage2 = "none" /\ Advance /\ UNCHANGED <<tree, stage2>>
     \/ /\ template.stage2 = "whole" /\ Advance
        /\ tree' = tree \cup {"constants.py"} /\ UNCHANGED stage2
     \/ /\ template.stage2 = "without.constants.py" /\ Raise("template")
        /\ stage2' = TRUE /\ UNCHANGED tree
     \/ template.stage2 # "none" /\ Raise("mount") /\ stage2' \in BOOLEAN /\ UNCHANGED tree
  /\ UNCHANGED <<inputs, requests, isolinux, cut, keyring, outputs, unseen, workDir>>

Cramfs == Adds("cramfs", {"product.img"})

----------------------------------------------------------------------------
(* Discs, ISOs and what is posted.                                         *)

\* The isolinux.cfg of the first disc is that of the tree, unless the media template lays one
\* over it: lndir replaces files, and so does cp if it gets there.
Laid(cpFails) ==
  IF "old.isolinux.cfg" \in tree THEN {media.cfg}
  ELSE IF "new.isolinux.cfg" \notin tree THEN {isolinux}
  ELSE IF cpFails THEN {isolinux, media.cfg} ELSE {media.cfg}

NewMedia == {"new", "new.isolinux.cfg"} \cap tree # {}

\* splitDistro; one disc when there is no maxIsoSize.
Split ==
  /\ At("split")
  /\ \/ /\ discs' \in (IF kind = "update" THEN {1} ELSE 1..MaxDiscs) /\ Advance
        /\ \E cpFails \in BOOLEAN :
             /\ cpFails => NewMedia
             /\ unseen' = unseen \cup (IF cpFails THEN {"cp"} ELSE {})
             /\ isolinux' \in Laid(cpFails)
     \/ Raise("disk") /\ UNCHANGED <<discs, unseen, isolinux>>
  /\ UNCHANGED <<inputs, requests, tree, cut, keyring, stage2, files, isoList, workDir>>

\* The single disc of an appliance.  Where splitDistro's call runs cp on the new media
\* template, the call used here is util's, which takes '-R', '--no-dereference' and the two
\* paths for its flags, and raises when it logs at the level of a path.
LayDisc1 ==
  /\ At("disc1")
  /\ \/ NewMedia /\ Raise("own") /\ UNCHANGED <<discs, isolinux>>
     \/ ~NewMedia /\ discs' = 1 /\ isolinux' \in Laid(FALSE) /\ Advance
     \/ Raise("disk") /\ UNCHANGED <<discs, isolinux>>
  /\ UNCHANGED <<inputs, requests, tree, cut, keyring, stage2, files, isoList, unseen, workDir>>

\* The names of the directories are sorted as strings, disc10 before disc2: one number begins
\* with the other, or is the smaller one at the first digit in which they differ.
Ahead(d, e) ==
  \E p, q \in Powers :
    LET x == d \div p
        y == e \div q
    IN  \/ p = 1 /\ q > 1 /\ x = y
        \/ 0 < x /\ x < y /\ x \div Radix = y \div Radix

Left == {d \in 1..discs : \A i \in DOMAIN isoList : isoList[i].disc # d}

NoRoom(state, tight) == tight

\* mkisofs of the next disc, with a boot image if there is one on it: a full disk cuts the ISO
\* short, any other failure leaves what there is of it, or nothing; what it says is not looked
\* at, only the room that is left.
BuildIso ==
  /\ At("isos")
  /\ \E d \in Left, state \in {"whole", "cut", "broken", "none"}, big, tight \in BOOLEAN :
       /\ \A e \in Left : ~Ahead(e, d)
       /\ state = "cut" => tight
       /\ files' = IF state = "none" THEN files
                   ELSE files \cup {[name |-> "disc", disc |-> d, state |-> state, big |-> big,
                                     boot |-> d = 1 /\ "isolinux.bin" \in tree]}
       /\ unseen' = IF state \in {"broken", "none"} THEN unseen \cup {"mkisofs"} ELSE unseen
       /\ \/ NoRoom(state, tight) /\ Raise("room") /\ UNCHANGED isoList
          \/ /\ ~NoRoom(state, tight) /\ UNCHANGED <<step, fault, verdict>>
             /\ isoList' = Append(isoList, [name |-> "disc", disc |-> d])
  /\ UNCHANGED <<inputs, requests, isolinux, tree, cut, keyring, stage2, discs, workDir>>

IsosBuilt ==
  /\ At("isos") /\ Left = {} /\ Advance
  /\ UNCHANGED <<inputs, requests, isolinux, tree, cut, keyring, stage2, outputs, unseen,
                 workDir>>

NewEntry(entry) == [entry EXCEPT !.name = "dvd"]

IsoOf(entry) == {f \in files : f.name = entry.name /\ f.disc = entry.disc}

\* isosize of every ISO: nothing to parse when there is none or it has no header; a big one
\* is called a DVD.
Identify ==
  /\ At("sizes")
  /\ LET lost == {i \in DOMAIN isoList : IsoOf(isoList[i]) = {}}
         broken == {f \in files : f.state = "broken"}
         Big(entry) == \E f \in IsoOf(entry) : f.big
     IN  \/ (lost # {} \/ broken # {}) /\ Raise("mkisofs") /\ UNCHANGED <<files, isoList>>
         \/ /\ lost = {} /\ Advance
            /\ files' = {IF f.big THEN [f EXCEPT !.name = "dvd"] ELSE f : f \in files}
            /\ isoList' = [i \in DOMAIN isoList |->
                             IF Big(isoList[i]) THEN NewEntry(isoList[i]) ELSE isoList[i]]
  /\ UNCHANGED <<inputs, requests, isolinux, tree, cut, keyring, stage2, discs, unseen,
                 workDir>>

\* implantisomd5 into every readable ISO, then the netboot images.
Check ==
  /\ At("check")
  /\ IF \E i \in DOMAIN isoList : IsoOf(isoList[i]) = {}
     THEN Raise("own") /\ UNCHANGED <<files, isoList>>
     ELSE /\ Advance
          /\ \E net \in {<<>>, <<"boot.iso">>, <<"boot.iso", "diskboot.img">>} :
               /\ files' = files \cup {[name |-> n, disc |-> 0, state |-> "whole", big |-> FALSE,
                                        boot |-> TRUE] : n \in Range(net)}
               /\ isoList' = isoList \o [i \in DOMAIN net |-> [name |-> net[i], disc |-> 0]]
  /\ UNCHANGED <<inputs, requests, isolinux, tree, cut, keyring, stage2, discs, unseen,
                 workDir>>

\* When the job asks for an OVF archive, ISOOvfImage is made with one argument less than it
\* takes.
Ovf ==
  /\ At("ovf") /\ (Advance \/ Raise("ovf"))
  /\ UNCHANGED <<inputs, requests, isolinux, tree, cut, keyring, stage2, discs, unseen,
                 workDir, files, isoList>>

Post ==
  /\ At("post")
  /\ \/ verdict' = "posted" /\ UNCHANGED <<step, fault>>
     \/ Raise("upload")
  /\ UNCHANGED <<inputs, requests, isolinux, tree, cut, keyring, stage2, outputs, unseen,
                 workDir>>

\* The finally of an appliance's write: the job's directory goes, posted or not.
CleanUp ==
  /\ kind = "appliance" /\ verdict # "running" /\ workDir
  /\ workDir' = FALSE
  /\ UNCHANGED <<inputs, step, requests, isolinux, tree, cut, keyring, stage2, outputs, unseen,
                 fault, verdict>>

Ended == verdict # "running" /\ (kind = "appliance" => ~workDir)

Job ==
  \/ Install \/ Tar \/ SplitFile \/ WriteTbList \/ RequestTemplate \/ Unpack \/ Prepare
  \/ ExtractChangeSets \/ WriteLists \/ WriteDiscInfo \/ ExtractMedia \/ ExtractKeys
  \/ SetupKickstart \/ BuildStamp \/ Artwork \/ Menu \/ Stage2 \/ Cramfs \/ Split \/ LayDisc1
  \/ BuildIso \/ IsosBuilt \/ Identify \/ Check \/ Ovf \/ Post
  \/ CleanUp

Next == Job \/ MasterAnswers \/ (Ended /\ UNCHANGED vars)

Spec == Init /\ [][Next]_vars /\ WF_vars(Job) /\ WF_vars(MasterAnswers)

----------------------------------------------------------------------------

\* What the medium of each kind of job must hold.
Needed ==
  LET anaconda == {"template", "isolinux.bin", ".buildstamp", "pixmaps", "conaryrc",
                   "product.img"}
      packages == {"changesets", "cslist", "group.ccs"}
  IN  {".discinfo"} \cup (IF kind = "update" THEN {} ELSE anaconda)
                    \cup (IF kind = "appliance" THEN {"files", "tarball", "tblist"} ELSE packages)

\* What of it is made by commands whose exit status nobody reads.
Unchecked == {"isolinux.bin", "pixmaps", "tarball"}

\* Every byte of the tarball is in one chunk, and only the last chunk may be short.
ChunksAreTarball ==
  /\ tarEnd <= Len(chunks) * chunkSize
  /\ \A i \in DOMAIN chunks :
       LET left == tarEnd - (i - 1) * chunkSize
       IN  left > 0 /\ chunks[i] = IF left < chunkSize THEN left ELSE chunkSize

\* A job posts only what is complete: the parts of its medium, the key of every signature,
\* every byte of the tarball; all but for what a command did not do and nobody looked at.
PostedIsWhole ==
  verdict = "posted" =>
    /\ Needed \subseteq tree \cup (unseen \cap Unchecked)
    /\ kind # "appliance" => Signers \subseteq keyring \/ "gpg" \in unseen
    /\ kind = "appliance" => ChunksAreTarball

\* A file of the output directory is what the job takes it for, or what a command made of it
\* that nobody looked at: whole, and the first disc of an installer bootable.
Sound(f) ==
  /\ f.state = "whole" \/ (f.state = "broken" /\ "mkisofs" \in unseen)
  /\ f.disc = 1 /\ kind # "update" => f.boot \/ "isolinux.bin" \in unseen

\* Each line of what is posted names a file that is there and sound, and no file that a full
\* disk cut short; there is one line for every disc, in whatever order the names are sorted,
\* and the first line is the first disc, of which an OVF archive is made.
PostedIsThere ==
  verdict = "posted" =>
    /\ \A i \in DOMAIN isoList : \E f \in IsoOf(isoList[i]) : Sound(f)
    /\ \A d \in 1..discs : \E i \in DOMAIN isoList :
         isoList[i].disc = d /\ isoList[i].name \in {"disc", "dvd"}
    /\ \A i, j \in DOMAIN isoList : isoList[i].disc = isoList[j].disc =>
         i = j \/ isoList[i].disc = 0
    /\ isoList[1].disc = 1

\* What a job posts can be installed from: its medium is whole and its ISOs are there.
PostedIsUsable == PostedIsWhole /\ PostedIsThere

\* What isolinux starts when nobody touches a key.
Started ==
  IF isolinux.default \notin {"menu.c32", "vesamenu.c32"} THEN isolinux.default
  ELSE IF isolinux.marked # "none" THEN isolinux.marked ELSE "linux"

\* A medium with a kickstart file of its own starts with it, and its menu does not wait the
\* minute, unless its template has a kickstart label already, which is left as it is, or the
\* media template lays an isolinux.cfg over the one that was edited.
KickstartBoots ==
  verdict = "posted" /\ "ks.cfg" \in tree /\ kind # "update" =>
    \/ Started = "kscdrom" /\ (isolinux.default = "vesamenu.c32" => isolinux.timeout # 600)
    \/ "kscdrom" \in template.cfg.labels /\ isolinux = template.cfg
    \/ {"old.isolinux.cfg", "new.isolinux.cfg"} \cap tree # {} /\ isolinux = media.cfg

\* The job ends whatever becomes of its request, if only the master goes on: it has the master
\* start once, and does not start it again when a template was given up or forgotten.
JobEnds == <>Ended

\* "Mostly copied from splitdistro": an appliance's disc takes the media template as
\* splitDistro's do, and no disc fails for what its template holds.
DiscLaid == ~(fault = "own")
=============================================================================
