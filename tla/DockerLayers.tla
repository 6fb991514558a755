---------------------------- MODULE DockerLayers ----------------------------
(***************************************************************************)
(* How DockerImage (jobslave/generators/docker.py) assembles the root file *)
(* system each image of a tree is installed in: the order of the builds,   *)
(* layers extracted onto directories, overlay file systems stacked for one *)
(* build and taken down after it.                                          *)
(*                                                                         *)
(* An image is the number of its place in the tree, depth first; a layer   *)
(* is known by its image.  A place is a directory that can be extracted to *)
(* or installed in: the layer directory of an image, or the directory its  *)
(* overlay is mounted on, a plain directory while nothing is mounted.      *)
(***************************************************************************)
EXTENDS Naturals, Sequences, SequencesExt

CONSTANT N   \* images in the tree

ASSUME LayersAssumption == N \in Nat /\ N >= 2

Images == 1 .. N
Dir(i) == <<"dir", i>>
Ovl(i) == <<"ovl", i>>
Places == {"dir", "ovl"} \X Images
NoPlace == <<"none", 0>>

\* From each image up to the first that is one of those given, or the root, in tree p.
Path(p, found) ==
  LET path[i \in Images] ==
        IF i \in found \cup {1} THEN <<i>> ELSE <<i>> \o path[p[i]]
  IN  path

\* The ancestors of each image, itself included.
Lineage(p) == [i \in Images |-> Range(Path(p, {})[i])]

\* Trees whose images are numbered depth first, children in their order.
Trees ==
  {p \in [2 .. N -> 1 .. N - 1] :
     /\ \A i \in 2 .. N : p[i] < i
     /\ \A i \in 3 .. N : p[i] \in Lineage(p)[i - 1]}

VARIABLES
  tree,        \* ImageSpec.parent; image 1 is the root
  rootBuilt,   \* the root has no url: it is built, and not downloaded
  pc,          \* where write() is
  visit,       \* findImagesToBuild: stack of images to visit
  toBuild,     \* imgsToBuild
  lastChild,   \* images whose _lastChild is set
  img,         \* imgSpec, the image being built, 0 at first
  stack,       \* imgHierarchy, the next image last
  prevMount,   \* where the hierarchy has been assembled so far
  mounts,      \* mountResources: an overlay's image, and its lower directory
  files,       \* the layers a place holds itself
  tar,         \* each layer.tar: the layers it holds, {} if not written
  unpackDir,   \* ImageSpec._unpackDir
  builtOn      \* history: the layers the image was installed on

vars == <<tree, rootBuilt, pc, visit, toBuild, lastChild, img, stack, prevMount,
          mounts, files, tar, unpackDir, builtOn>>

shape == <<tree, rootBuilt>>
plan == <<visit, lastChild>>

Children(i) == {j \in 2 .. N : tree[j] = i}
ChildSeq(i) ==
  LET Rank(j) == Cardinality({c \in Children(i) : c <= j})
  IN  [k \in 1 .. Cardinality(Children(i)) |-> CHOOSE j \in Children(i) : Rank(j) = k]
Ancestors(i) == Lineage(tree)[i] \ {i}

\* The types; in particular at most two overlays are stacked, since overlayfs
\* limits how deep.
TypeOK ==
  /\ tree \in Trees /\ rootBuilt \in BOOLEAN
  /\ pc \in {"visit", "next", "base", "parent", "stack", "install", "umount",
             "layer", "done", "failed"}
  /\ visit \in Seq(Images) /\ toBuild \in Seq(Images)
  /\ lastChild \subseteq Images /\ img \in 0 .. N
  /\ stack \in Seq(Images)
  /\ prevMount \in Places \cup {NoPlace}
  /\ mounts \in Seq([image : Images, lower : Places])
  /\ Len(mounts) <= 2
  /\ files \in [Places -> SUBSET Images]
  /\ tar \in [Images -> SUBSET Images]
  /\ unpackDir \in [Images -> Places \cup {NoPlace}]
  /\ builtOn \in [Images -> SUBSET Images]

Init ==
  /\ tree \in Trees /\ rootBuilt \in BOOLEAN
  /\ pc = "visit"
  /\ visit = <<1>> /\ toBuild = <<>> /\ lastChild = {}
  /\ img = 0 /\ stack = <<>> /\ prevMount = NoPlace /\ mounts = <<>>
  /\ files = [p \in Places |-> {}]
  /\ tar = [i \in Images |-> {}]
  /\ unpackDir = [i \in Images |-> NoPlace]
  /\ builtOn = [i \in Images |-> {}]

-----------------------------------------------------------------------------
(* Overlay file systems *)

\* The overlay mounted on a place.
MountsOn(place) == {k \in DOMAIN mounts : Ovl(mounts[k].image) = place}

\* What each overlay shows: its upper directory over its lower one, which may
\* be another overlay mounted before.
Shown ==
  LET shown[k \in DOMAIN mounts] ==
        files[Dir(mounts[k].image)] \cup
          (IF MountsOn(mounts[k].lower) = {} THEN files[mounts[k].lower]
           ELSE UNION {shown[j] : j \in MountsOn(mounts[k].lower)})
  IN  shown

View(place) ==
  IF MountsOn(place) = {} THEN files[place]
  ELSE UNION {Shown[k] : k \in MountsOn(place)}

\* Files written to an overlay go to its upper directory.
Target(place) ==
  IF MountsOn(place) = {} THEN place ELSE <<"dir", place[2]>>

Write(place, layers) == files' = [files EXCEPT ![Target(place)] = @ \cup layers]

-----------------------------------------------------------------------------
(* findImagesToBuild, and the loop of write() *)

\* Mutant of Pushed: the children are pushed in their order.
PushedInOrder(i) == ChildSeq(i)

\* stack.extend(reversed(img.children))
Pushed(i) == Reverse(ChildSeq(i))

Visit ==
  /\ pc = "visit" /\ visit # <<>>
  /\ LET i == Last(visit) IN
       /\ visit' = Front(visit) \o Pushed(i)
       /\ toBuild' = IF i = 1 /\ ~rootBuilt THEN toBuild ELSE Append(toBuild, i)
       /\ lastChild' = IF Children(i) = {} THEN lastChild
                       ELSE lastChild \cup {Last(ChildSeq(i))}
  /\ UNCHANGED <<shape, pc, img, stack, prevMount, mounts, files, tar, unpackDir, builtOn>>

Visited ==
  /\ pc = "visit" /\ visit = <<>>
  /\ pc' = "next"
  /\ UNCHANGED <<shape, plan, toBuild, img, stack, prevMount, mounts, files, tar,
                 unpackDir, builtOn>>

Take ==
  /\ pc = "next" /\ toBuild # <<>>
  /\ img' = Head(toBuild) /\ toBuild' = Tail(toBuild)
  /\ pc' = IF Head(toBuild) = 1 THEN "base" ELSE "parent"
  /\ UNCHANGED <<shape, plan, stack, prevMount, mounts, files, tar, unpackDir, builtOn>>

Done ==
  /\ pc = "next" /\ toBuild = <<>>
  /\ pc' = "done"
  /\ UNCHANGED <<shape, plan, toBuild, img, stack, prevMount, mounts, files, tar,
                 unpackDir, builtOn>>

\* Any command, and the install, may fail: write() builds no image any more,
\* and what is mounted stays mounted.
Fail ==
  /\ pc \in {"base", "parent", "stack", "install", "umount", "layer"}
  /\ pc' = "failed"
  /\ UNCHANGED <<shape, plan, toBuild, img, stack, prevMount, mounts, files, tar,
                 unpackDir, builtOn>>

-----------------------------------------------------------------------------
(* writeBase and writeChild *)

WriteBase ==
  /\ pc = "base"
  /\ files' = [files EXCEPT ![Dir(1)] = @ \cup {1}]
  /\ tar' = [tar EXCEPT ![1] = files'[Dir(1)]]
  /\ unpackDir' = [unpackDir EXCEPT ![1] = Dir(1)]
  /\ pc' = "next"
  /\ UNCHANGED <<shape, plan, toBuild, img, stack, prevMount, mounts, builtOn>>

\* The image and those it is built on, up to one that is unpacked.
Hierarchy(unpacked) ==
  <<img>> \o Path(tree, {i \in Images : unpacked[i] # NoPlace})[tree[img]]

\* _downloadParentImage: its layers are unpacked in a directory of their own.
downloadParentImage ==
  /\ tar' = [tar EXCEPT ![1] = {1}]
  /\ files' = [files EXCEPT ![Dir(1)] = @ \cup {1}]

\* A parent with a url is downloaded for the first of its children.
Parent ==
  /\ pc = "parent"
  /\ LET fetched == tree[img] = 1 /\ ~rootBuilt IN
       /\ unpackDir' = IF fetched THEN [unpackDir EXCEPT ![1] = Dir(1)] ELSE unpackDir
       /\ IF fetched /\ tar[1] = {} THEN downloadParentImage ELSE UNCHANGED <<tar, files>>
  /\ stack' = Front(Hierarchy(unpackDir'))
  /\ prevMount' = unpackDir'[Last(Hierarchy(unpackDir'))]
  /\ pc' = "stack"
  /\ UNCHANGED <<shape, plan, toBuild, img, mounts, builtOn>>

\* An image on the way, the last child of its parent: nobody else needs the
\* parent any more, so its layer is extracted on what is assembled so far.
ExtractLast ==
  /\ pc = "stack" /\ stack # <<>>
  /\ LET i == Last(stack) IN
       /\ i # img /\ i \in lastChild
       /\ Write(prevMount, tar[i])
       /\ unpackDir' = [unpackDir EXCEPT ![i] = prevMount]
  /\ stack' = Front(stack)
  /\ UNCHANGED <<shape, plan, pc, toBuild, img, prevMount, mounts, tar, builtOn>>

\* Mutant of OverlayToExtend: the directory below the overlay.
OverlayToExtendLower == mounts[1].lower

OverlayToExtend == Ovl(mounts[1].image)

\* Any other image on the way is extracted on the first overlay, if there is one.
ExtractOnOverlay ==
  /\ pc = "stack" /\ stack # <<>>
  /\ LET i == Last(stack) IN
       /\ i # img /\ i \notin lastChild /\ mounts # <<>>
       /\ prevMount' = OverlayToExtend
       /\ Write(prevMount', tar[i])
  /\ stack' = Front(stack)
  /\ UNCHANGED <<shape, plan, pc, toBuild, img, mounts, tar, unpackDir, builtOn>>

\* The others, and always the image itself, get an overlay (mountOverlayFs).
MountOverlay ==
  /\ pc = "stack" /\ stack # <<>>
  /\ LET i == Last(stack) IN
       /\ i = img \/ (i \notin lastChild /\ mounts = <<>>)
       /\ mounts' = Append(mounts, [image |-> i, lower |-> prevMount])
       /\ prevMount' = Ovl(i)
  /\ stack' = Front(stack)
  /\ UNCHANGED <<shape, plan, pc, toBuild, img, files, tar, unpackDir, builtOn>>

Stacked ==
  /\ pc = "stack" /\ stack = <<>>
  /\ pc' = "install"
  /\ UNCHANGED <<shape, plan, toBuild, img, stack, prevMount, mounts, files, tar,
                 unpackDir, builtOn>>

Install ==
  /\ pc = "install"
  /\ LET basePath == Ovl(Last(mounts).image) IN
       /\ builtOn' = [builtOn EXCEPT ![img] = View(basePath)]
       /\ Write(basePath, {img})
  /\ pc' = "umount"
  /\ UNCHANGED <<shape, plan, toBuild, img, stack, prevMount, mounts, tar, unpackDir>>

\* Mutant of Umount: the overlay mounted first is unmounted first.
UmountFirst ==
  /\ pc = "umount" /\ mounts # <<>>
  /\ mounts' = Tail(mounts)
  /\ UNCHANGED <<shape, plan, pc, toBuild, img, stack, prevMount, files, tar, unpackDir,
                 builtOn>>

Umount ==
  /\ pc = "umount" /\ mounts # <<>>
  /\ mounts' = Front(mounts)
  /\ UNCHANGED <<shape, plan, pc, toBuild, img, stack, prevMount, files, tar, unpackDir,
                 builtOn>>

\* Mutant of Unmounted: one overlay is left.
UnmountedOne ==
  /\ pc = "umount" /\ Len(mounts) <= 1
  /\ pc' = "layer"
  /\ UNCHANGED <<shape, plan, toBuild, img, stack, prevMount, mounts, files, tar,
                 unpackDir, builtOn>>

Unmounted ==
  /\ pc = "umount" /\ mounts = <<>>
  /\ pc' = "layer"
  /\ UNCHANGED <<shape, plan, toBuild, img, stack, prevMount, mounts, files, tar,
                 unpackDir, builtOn>>

\* writeLayer: the tar file of the image's own directory.
WriteLayer ==
  /\ pc = "layer"
  /\ tar' = [tar EXCEPT ![img] = files[Dir(img)]]
  /\ pc' = "next"
  /\ UNCHANGED <<shape, plan, toBuild, img, stack, prevMount, mounts, files, unpackDir,
                 builtOn>>

Ended == pc \in {"done", "failed"} /\ UNCHANGED vars

Next ==
  \/ Visit \/ Visited \/ Take \/ Done \/ Fail
  \/ WriteBase \/ Parent \/ ExtractLast \/ ExtractOnOverlay \/ MountOverlay
  \/ Stacked \/ Install \/ Umount \/ Unmounted \/ WriteLayer
  \/ Ended

Spec == Init /\ [][Next]_vars

-----------------------------------------------------------------------------
(* Properties *)

\* Trees in which an image that is neither the root nor a last child has at
\* most one descendant below its children, and has it by its last child.
Below(i) == {k \in Images : i \in Ancestors(k) /\ tree[k] # i}

Shallow ==
  \A i \in 2 .. N :
    (\E j \in Children(tree[i]) : j > i) =>
      \A k \in Below(i) : Below(i) = {k} /\ tree[k] = Last(ChildSeq(i))

\* writeChild: in such a tree each image is installed on the layers of all its
\* ancestors and on no others, whatever was extracted for the images before.
BuiltOnParent ==
  Shallow => \A i \in Images \ {1} : tar[i] # {} => builtOn[i] = Ancestors(i)

\* writeLayer: in every tree the layer written for an image holds its own
\* files only, although the image's directory is reused by later builds.
LayerIsOwn == \A i \in Images : tar[i] \subseteq {i}

\* writeChild: an overlay is not unmounted while another one is mounted on top
\* of it ("umount -f" of a busy overlay fails).
TopUnmountedFirst ==
  [][\A k \in DOMAIN mounts :
       Ovl(mounts[k].image) \notin {Ovl(mounts'[j].image) : j \in DOMAIN mounts'} =>
         \A j \in DOMAIN mounts' : mounts'[j].lower # Ovl(mounts[k].image)]_vars

\* mountOverlayFs: the files below a mounted overlay do not change, which
\* overlayfs would not define.
LowerUntouched ==
  [][\A k \in DOMAIN mounts \cap DOMAIN mounts' :
       LET lower == mounts[k].lower IN View(lower)' = View(lower)]_vars

\* write(): when all is built each image has its layer, and no overlay is left
\* mounted from one build to the next.
AllBuilt ==
  /\ pc = "next" => mounts = <<>>
  /\ pc = "done" => \A i \in Images : tar[i] # {}

\* The layers of a tree are sound, whatever was extracted and mounted on the way: no more
\* overlays are stacked than overlayfs allows, each layer is its own, none is left out.
LayersSound == TypeOK /\ LayerIsOwn /\ AllBuilt

\* "At this point, the parent layer should be on the filesystem, and should
\* have been unpacked" (docker.py:209): the layers of the parent that are
\* neither extracted yet nor still to be stacked are missing.
ParentUnpacked ==
  pc = "stack" /\ mounts = <<>> =>
    Ancestors(img) \subseteq View(prevMount) \cup {stack[k] : k \in DOMAIN stack}

\* "Uncompress this image onto the parent" (docker.py:236): what a last child
\* is extracted on is its parent, with no layer of another image.
ExtractedOnParent ==
  pc = "stack" /\ stack # <<>> /\ Last(stack) \in lastChild \ {img} =>
    View(prevMount) \subseteq Ancestors(Last(stack))
=============================================================================
