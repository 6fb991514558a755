------------------------------ MODULE IsoMedia ------------------------------
(***************************************************************************)
(* From the packages to the discs: when ChangeSets has its medium, the     *)
(* list it wrote is what splitDistro (Discs) shares out, file by file.     *)
(***************************************************************************)
EXTENDS ChangeSets

CONSTANTS
  isoblocksize, maxisosize, Trees, Commons, InfoSize, ListSize,  \* see Discs
  SizesOf,  \* sizes that the change set files may have: functions of the troves
  KindsOf   \* kinds they may be of for splitDistro: functions of the troves

ASSUME IsoMediaAssumption ==
  /\ isoblocksize \in Nat \ {0} /\ {maxisosize, InfoSize, ListSize} \subseteq Nat
  /\ Trees \subseteq Seq(Nat) /\ Commons \subseteq Seq(Nat)
  /\ SizesOf \subseteq [Groups \cup Packages -> Nat]
  /\ KindsOf \subseteq [Groups \cup Packages -> {"info", "reserved", "base", "plain"}]

VARIABLES
  list,   \* the cslist as splitDistro reads it; the others are those of Discs
  trees, common, plan, done, discs, used, outcs, disc

discVars == <<list, trees, common, plan, done, discs, used, outcs, disc>>

D == INSTANCE Discs WITH cslist <- list, tree <- trees, pc <- disc, Lists <- {}

InitMedia ==
  /\ Init
  /\ list = <<>> /\ trees = <<>> /\ common = <<>> /\ plan = <<>> /\ done = 0 /\ discs = <<>>
  /\ used = 0 /\ outcs = <<>> /\ disc = "packages"

\* The cslist line by line: the file, with its place in the list for its name.
Lines(size, kind) ==
  [i \in DOMAIN cslist |->
     [csfile |-> i, kind |-> kind[cslist[i][2]], size |-> size[cslist[i][2]]]]

ReadList ==
  /\ pc = "done" /\ disc = "packages" /\ cslist # <<>>
  /\ \E size \in SizesOf, kind \in KindsOf : list' = Lines(size, kind)
  /\ trees' \in Trees /\ common' \in Commons
  /\ disc' = "layout"
  /\ UNCHANGED <<vars, plan, done, discs, used, outcs>>

NextMedia ==
  \/ disc = "packages" /\ Next /\ UNCHANGED discVars
  \/ ReadList
  \/ disc # "packages" /\ D!Next /\ UNCHANGED vars

SpecMedia == InitMedia /\ [][NextMedia]_<<vars, discVars>>

----------------------------------------------------------------------------

\* What Discs says of the discs, for the lists that the packages lead to: each change set
\* is on one disc, no disc holds too much, and the core of the installation comes first.
DiscsAsNeeded == D!DiscsFit /\ D!CoreFirst

\* What the comment on the dummy disc says, as Discs states it.
SplitAsPlanned == D!SplitAsPlanned
=============================================================================
