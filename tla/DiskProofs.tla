----------------------------- MODULE DiskProofs -----------------------------
(***************************************************************************)
(* Theorems about the disks of an image, for every value of the constants. *)
(*                                                                         *)
(* DiskImage, for every set of mount points, every script and process of   *)
(* the install and every bound: what is mounted in the image.              *)
(*                                                                         *)
(* DiskLayout and VhdDisk: for every number of file systems, every size    *)
(* and every geometry the volumes fit the partition computed for them, and *)
(* nothing overlaps; and a VHD is the raw disk it was made of, for every   *)
(* such layout, every size of a block and any data.                        *)
(***************************************************************************)
EXTENDS DiskImage, VhdDisk, SequenceTheorems, WellFoundedInduction, TLAPS

(* Paths.                                                                  *)

LEMMA PointsArePaths == Points \subseteq Seq(STRING)
BY DiskImageAssumption DEF DiskImageAssumption, Points

LEMMA ShorterPrefix ==
  ASSUME NEW s \in Seq(STRING), NEW t \in Seq(STRING), IsStrictPrefix(s, t)
  PROVE  Len(s) < Len(t)
<1>1. Len(s) \in Nat /\ Len(t) \in Nat /\ Len(s) <= Len(t)
  BY LenProperties DEF IsStrictPrefix, IsPrefix
<1>2. ASSUME Len(s) = Len(t) PROVE FALSE
  <2>1. SubSeq(s, 1, Len(s)) = SubSeq(t, 1, Len(t))
    BY <1>2 DEF IsStrictPrefix, IsPrefix
  <2>2. SubSeq(s, 1, Len(s)) = s /\ SubSeq(t, 1, Len(t)) = t
    BY SubSeqFull
  <2> QED BY <2>1, <2>2 DEF IsStrictPrefix
<1> QED BY <1>1, <1>2

LEMMA RootIsPrefix ==
  ASSUME NEW t \in Seq(STRING), t # << >>
  PROVE  IsStrictPrefix(<< >>, t)
<1>1. Len(<< >>) = 0 /\ Len(t) \in Nat
  BY LenProperties
<1>2. SubSeq(<< >>, 1, 0) = << >> /\ SubSeq(t, 1, 0) = << >>
  <2>1. << >> \in Seq(STRING)
    OBVIOUS
  <2> QED BY <2>1, SubSeqEmpty
<1> QED BY <1>1, <1>2 DEF IsStrictPrefix, IsPrefix

\* sortMountPoints has a first: what is mounted next has no longer path than the others.
LEMMA ShallowestIsLeast ==
  ASSUME NEW S \in SUBSET Seq(STRING), S # {}
  PROVE  \A n \in S : Len(Shallowest(S)) <= Len(n)
<1> DEFINE T == {Len(n) : n \in S}
<1>1. T \subseteq Nat /\ T # {}
  <2>1. \A n \in S : Len(n) \in Nat
    BY LenProperties
  <2> QED BY <2>1
<1>2. PICK x \in T : \A y \in T : <<y, x>> \notin OpToRel(<, Nat)
  <2> HIDE DEF T
  <2> QED BY <1>1, NatLessThanWellFounded, WFMin, Zenon
<1>3. \A y \in T : x <= y
  <2> SUFFICES ASSUME NEW y \in T PROVE x <= y
    OBVIOUS
  <2>1. x \in Nat /\ y \in Nat
    BY <1>1
  <2>2. ~ (y < x)
    BY <1>2, <2>1 DEF OpToRel
  <2> QED BY <2>1, <2>2
<1>4. PICK m \in S : x = Len(m)
  OBVIOUS
<1>5. \A n \in S : Len(m) <= Len(n)
  BY <1>3, <1>4
<1> QED BY <1>5 DEF Shallowest
-----------------------------------------------------------------------------
(* Types, bounds, and what a loop may still visit.                         *)

Counted ==
    /\ pc \in {"kill", "reap"} => count <= MaxKills
    /\ pc = "umount" => count <= MaxTries

Visiting ==
    /\ pc \in {"format", "mount", "umount"} => todo \subseteq Managed
    /\ pc = "format" => mounts = {} /\ loops = {}
    /\ pc = "mount" => mounts = Mountable \ todo
    /\ pc = "chroot" => todo \cap Managed = {}

Typed == TypeOK /\ Counted /\ Visiting

\* What the types and the order of the steps take from the assumption.
LEMMA Constants ==
  /\ << >> \in Managed /\ << >> \notin Swap /\ Swap \subseteq Managed
  /\ \A m \in Scriptlet \cup {Proc, Sys, DiskImg} : m \notin Managed
  /\ Chrooted \subseteq Procs /\ MaxKills \in Nat /\ MaxTries \in Nat
BY DiskImageAssumption DEF DiskImageAssumption

LEMMA TypedInit == Init => Typed
<1> SUFFICES ASSUME Init PROVE Typed
  OBVIOUS
<1> USE Constants DEF Init
<1>1. TypeOK
  <2>1. holds \in [Procs -> Points \cup {Nowhere}]
    OBVIOUS
  <2>2. count \in 0 .. (MaxKills + MaxTries + 1)
    OBVIOUS
  <2> QED BY <2>1, <2>2 DEF TypeOK, Points, Mountable
<1>2. Counted /\ Visiting
  BY DEF Counted, Visiting
<1> QED BY <1>1, <1>2 DEF Typed

LEMMA TypedStep == Typed /\ [Next]_vars => Typed'
<1> SUFFICES ASSUME Typed, [Next]_vars PROVE Typed'
  OBVIOUS
<1> USE Constants
    DEF Typed, TypeOK, Counted, Visiting, Points, Mountable, builder
<1>1. CASE Format
  BY <1>1 DEF Format
<1>2. CASE MountAll
  <2>1. PICK m \in todo : MountOne(m)
    BY <1>2 DEF MountAll
  <2>2. m \in Managed
    BY <1>2 DEF MountAll
  <2>3. /\ mounts' \subseteq Points /\ flagged' \subseteq Mountable
        /\ loops' \subseteq Mountable /\ raised' \in BOOLEAN
    BY <2>1, <2>2 DEF MountOne
  <2>4. CASE raised'
    BY <1>2, <2>3, <2>4 DEF MountAll, TearDown
  <2>5. CASE ~ raised'
    <3>1. pc' \in {"mount", "special"} /\ todo' \subseteq todo /\ count' = count
      BY <1>2, <2>5 DEF MountAll
    <3>2. pc' = "mount" => mounts' = Mountable \ todo'
      BY <1>2, <2>1, <2>2, <2>5 DEF MountAll, MountOne
    <3>3. TypeOK'
      BY <1>2, <2>3, <3>1 DEF MountAll
    <3>4. Counted' /\ Visiting'
      BY <1>2, <3>1, <3>2 DEF MountAll
    <3> QED BY <3>3, <3>4
  <2> QED BY <2>4, <2>5
<1>3. CASE FetchFails
  BY <1>3 DEF FetchFails, TearDown
<1>4. CASE MountSpecial
  BY <1>4 DEF MountSpecial
<1>5. CASE Install
  BY <1>5 DEF Install
<1>6. CASE Scan
  BY <1>6 DEF Scan
<1>7. CASE Kill
  BY <1>7 DEF Kill
<1>8. CASE Reap
  BY <1>8 DEF Reap
<1>9. CASE ReadMounts
  BY <1>9 DEF ReadMounts, Foreign
<1>10. CASE UmountChroot
  BY <1>10 DEF UmountChroot, AfterInstall, TearDown
<1>11. CASE Bind
  <2>1. CASE pc' = "mbr"
    BY <1>11, <2>1 DEF Bind, TearDown
  <2>2. CASE pc' = "umount"
    BY <1>11, <2>2 DEF Bind, TearDown
  <2> QED BY <1>11, <2>1, <2>2 DEF Bind, TearDown
<1>12. CASE InstallMbr
  BY <1>12 DEF InstallMbr
<1>13. CASE Release
  <2>1. count' = 0 /\ count' \in 0 .. (MaxKills + MaxTries + 1)
    BY <1>13 DEF Release, TearDown
  <2>4. mounts' \subseteq mounts /\ raised' \in BOOLEAN
    BY <1>13 DEF Release
  <2>3. TypeOK'
    BY <1>13, <2>1, <2>4 DEF Release, TearDown
  <2>2. Counted' /\ Visiting'
    BY <1>13 DEF Release, TearDown
  <2> QED BY <2>2, <2>3
<1>14. CASE UmountAll
  <2>1. PICK m : NotMounted(m) \/ Unmounted(m) \/ Busy(m)
    BY <1>14 DEF UmountAll
  <2>2. CASE NotMounted(m)
    BY <1>14, <2>2 DEF UmountAll, NotMounted
  <2>3. CASE Unmounted(m)
    BY <1>14, <2>3 DEF UmountAll, Unmounted
  <2>4. CASE Busy(m)
    <3>1. count' \in 0 .. (MaxKills + MaxTries + 1) /\ (pc' = "umount" => count' <= MaxTries)
      BY <1>14, <2>4 DEF UmountAll, Busy
    <3>2. pc' \in {"umount", "publish"} /\ warned' \in BOOLEAN
      BY <1>14, <2>4 DEF UmountAll, Busy
    <3> QED BY <1>14, <2>4, <3>1, <3>2 DEF UmountAll, Busy
  <2> QED BY <2>1, <2>2, <2>3, <2>4
<1>15. CASE WriteHeader
  BY <1>15 DEF WriteHeader
<1>16. CASE Publish
  BY <1>16 DEF Publish, Outcomes
<1>17. CASE Start
  BY <1>17 DEF Start
<1>18. CASE ScriptMounts
  BY <1>18 DEF ScriptMounts
<1>19. CASE Exit
  BY <1>19 DEF Exit
<1>20. CASE Done \/ UNCHANGED vars
  BY <1>20 DEF Done, vars
<1> QED
  BY <1>1, <1>2, <1>3, <1>4, <1>5, <1>6, <1>7, <1>8, <1>9, <1>10,
     <1>11, <1>12, <1>13, <1>14, <1>15, <1>16, <1>17, <1>18, <1>19, <1>20
  DEF Next, Build
-----------------------------------------------------------------------------
(* What the objects say, and the order of the mounts.                      *)

LEMMA FlagsStep == Typed /\ FlagsAreTrue /\ [Next]_vars => FlagsAreTrue'
<1> SUFFICES ASSUME Typed, FlagsAreTrue, [Next]_vars PROVE FlagsAreTrue'
  OBVIOUS
<1> USE Constants DEF Typed, Visiting, FlagsAreTrue, Mountable, builder
<1>1. CASE Format
  BY <1>1 DEF Format
<1>2. CASE MountAll
  <2>1. PICK m \in todo : MountOne(m)
    BY <1>2 DEF MountAll
  <2>2. m \in Managed
    BY <1>2 DEF MountAll
  <2> QED BY <2>1, <2>2 DEF MountOne
<1>3. CASE FetchFails
  BY <1>3 DEF FetchFails, TearDown
<1>4. CASE MountSpecial
  BY <1>4 DEF MountSpecial
<1>5. CASE Install
  BY <1>5 DEF Install
<1>6. CASE Scan
  BY <1>6 DEF Scan
<1>7. CASE Kill
  BY <1>7 DEF Kill
<1>8. CASE Reap
  BY <1>8 DEF Reap
<1>9. CASE ReadMounts
  BY <1>9 DEF ReadMounts, Foreign
<1>10. CASE UmountChroot
  BY <1>10 DEF UmountChroot, AfterInstall, TearDown
<1>11. CASE Bind
  BY <1>11 DEF Bind, TearDown
<1>12. CASE InstallMbr
  BY <1>12 DEF InstallMbr
<1>13. CASE Release
  BY <1>13 DEF Release, TearDown
<1>14. CASE UmountAll
  BY <1>14 DEF UmountAll, Unmounted, Busy, NotMounted
<1>15. CASE WriteHeader
  BY <1>15 DEF WriteHeader
<1>16. CASE Publish
  BY <1>16 DEF Publish, Outcomes
<1>17. CASE Start
  BY <1>17 DEF Start
<1>18. CASE ScriptMounts
  BY <1>18 DEF ScriptMounts
<1>19. CASE Exit
  BY <1>19 DEF Exit
<1>20. CASE Done \/ UNCHANGED vars
  BY <1>20 DEF Done, vars
<1> QED
  BY <1>1, <1>2, <1>3, <1>4, <1>5, <1>6, <1>7, <1>8, <1>9, <1>10,
     <1>11, <1>12, <1>13, <1>14, <1>15, <1>16, <1>17, <1>18, <1>19, <1>20
  DEF Next, Build

\* Unmounting what is idle leaves no mount without one above it.
LEMMA IdleHasNoneBelow ==
  ASSUME ParentsMounted, NEW m, Idle(m), mounts' = mounts \ {m}
  PROVE  ParentsMounted'
BY DEF ParentsMounted, Idle, Mountable

LEMMA ParentsStep == Typed /\ ParentsMounted /\ [Next]_vars => ParentsMounted'
<1> SUFFICES ASSUME Typed, ParentsMounted, [Next]_vars PROVE ParentsMounted'
  OBVIOUS
<1> USE Constants DEF Typed, Visiting, ParentsMounted, Mountable, builder
<1>1. CASE Format
  BY <1>1 DEF Format
<1>2. CASE MountAll
  <2>1. PICK m \in todo : m = Shallowest(todo) /\ MountOne(m)
    BY <1>2 DEF MountAll, MountOrder
  <2>2. todo \subseteq Managed /\ mounts = Mountable \ todo
    BY <1>2 DEF MountAll
  <2>3. CASE UNCHANGED mounts
    BY <2>3
  <2>4. CASE mounts' = mounts \cup {m}
    <3> SUFFICES ASSUME NEW p \in Mountable, IsStrictPrefix(p, m), p \in todo
                 PROVE  FALSE
      BY <2>2, <2>4
    <3>1. Managed \subseteq Seq(STRING)
      BY PointsArePaths DEF Points
    <3>2. Len(p) < Len(m)
      BY <2>2, <3>1, ShorterPrefix
    <3>3. Len(m) <= Len(p)
      BY <2>1, <2>2, <3>1, ShallowestIsLeast
    <3>4. Len(m) \in Nat /\ Len(p) \in Nat
      BY <2>2, <3>1, LenProperties
    <3> QED BY <3>2, <3>3, <3>4
  <2> QED BY <2>1, <2>3, <2>4 DEF MountOne
<1>3. CASE FetchFails
  BY <1>3 DEF FetchFails, TearDown
<1>4. CASE MountSpecial
  BY <1>4 DEF MountSpecial
<1>5. CASE Install
  BY <1>5 DEF Install
<1>6. CASE Scan
  BY <1>6 DEF Scan
<1>7. CASE Kill
  BY <1>7 DEF Kill
<1>8. CASE Reap
  BY <1>8 DEF Reap
<1>9. CASE ReadMounts
  BY <1>9 DEF ReadMounts, Foreign
<1>10. CASE UmountChroot
  <2>1. mounts' \cap Managed = mounts \cap Managed
    BY <1>10 DEF UmountChroot
  <2> QED BY <2>1
<1>11. CASE Bind
  BY <1>11 DEF Bind, TearDown
<1>12. CASE InstallMbr
  BY <1>12 DEF InstallMbr
<1>13. CASE Release
  BY <1>13 DEF Release, TearDown
<1>14. CASE UmountAll
  <2>1. PICK m : NotMounted(m) \/ Unmounted(m) \/ Busy(m)
    BY <1>14 DEF UmountAll
  <2>2. CASE Unmounted(m)
    BY <2>2, IdleHasNoneBelow DEF Unmounted
  <2>3. CASE NotMounted(m) \/ Busy(m)
    BY <2>3 DEF NotMounted, Busy
  <2> QED BY <2>1, <2>2, <2>3
<1>15. CASE WriteHeader
  BY <1>15 DEF WriteHeader
<1>16. CASE Publish
  BY <1>16 DEF Publish, Outcomes
<1>17. CASE Start
  BY <1>17 DEF Start
<1>18. CASE ScriptMounts
  BY <1>18 DEF ScriptMounts
<1>19. CASE Exit
  BY <1>19 DEF Exit
<1>20. CASE Done \/ UNCHANGED vars
  BY <1>20 DEF Done, vars
<1> QED
  BY <1>1, <1>2, <1>3, <1>4, <1>5, <1>6, <1>7, <1>8, <1>9, <1>10,
     <1>11, <1>12, <1>13, <1>14, <1>15, <1>16, <1>17, <1>18, <1>19, <1>20
  DEF Next, Build
-----------------------------------------------------------------------------
(* What a build without an exception has done by each of its steps.        *)

Before == {"format", "mount", "special", "install"}
Torn == {"umount", "publish", "done"}

Raising ==
    /\ pc \in Before \cup {"bind", "mbr"} => ~ raised
    /\ verdict # "none" => pc = "done"
    /\ verdict = "posted" => ~ raised

Contents ==
    /\ pc \notin Before /\ ~ raised => "files" \in disk
    /\ pc \in Torn \cup {"release"} /\ ~ raised => "mbr" \in disk

\* The root is unmounted last, the loop devices go with the flags.
RootHeld ==
    /\ pc \notin {"format", "mount"} \cup Torn => << >> \in mounts
    /\ ~ raised => loops \subseteq flagged
    /\ pc = "umount" => flagged \subseteq todo
    /\ pc = "umount" /\ ~ raised => << >> \in mounts \/ mounts = {}
    /\ pc \in {"publish", "done"} /\ ~ raised => Clean \/ warned

LEMMA RaisingStep == Typed /\ Raising /\ [Next]_vars => Raising'
<1> SUFFICES ASSUME Typed, Raising, [Next]_vars PROVE Raising'
  OBVIOUS
<1> USE DEF Typed, TypeOK, Raising, Before, builder
<1>1. CASE Format
  BY <1>1 DEF Format
<1>2. CASE MountAll
  BY <1>2 DEF MountAll, MountOne, TearDown
<1>3. CASE FetchFails
  BY <1>3 DEF FetchFails, TearDown
<1>4. CASE MountSpecial
  BY <1>4 DEF MountSpecial
<1>5. CASE Install
  BY <1>5 DEF Install
<1>6. CASE Scan
  BY <1>6 DEF Scan
<1>7. CASE Kill
  BY <1>7 DEF Kill
<1>8. CASE Reap
  BY <1>8 DEF Reap
<1>9. CASE ReadMounts
  BY <1>9 DEF ReadMounts, Foreign
<1>10. CASE UmountChroot
  BY <1>10 DEF UmountChroot, AfterInstall, TearDown
<1>11. CASE Bind
  BY <1>11 DEF Bind, TearDown
<1>12. CASE InstallMbr
  BY <1>12 DEF InstallMbr
<1>13. CASE Release
  BY <1>13 DEF Release, TearDown
<1>14. CASE UmountAll
  BY <1>14 DEF UmountAll, Unmounted, Busy, NotMounted
<1>15. CASE WriteHeader
  BY <1>15 DEF WriteHeader
<1>16. CASE Publish
  BY <1>16 DEF Publish, Outcomes
<1>17. CASE Start
  BY <1>17 DEF Start
<1>18. CASE ScriptMounts
  BY <1>18 DEF ScriptMounts
<1>19. CASE Exit
  BY <1>19 DEF Exit
<1>20. CASE Done \/ UNCHANGED vars
  BY <1>20 DEF Done, vars
<1> QED
  BY <1>1, <1>2, <1>3, <1>4, <1>5, <1>6, <1>7, <1>8, <1>9, <1>10,
     <1>11, <1>12, <1>13, <1>14, <1>15, <1>16, <1>17, <1>18, <1>19, <1>20
  DEF Next, Build

LEMMA ContentsStep == Typed /\ Raising /\ Contents /\ [Next]_vars => Contents'
<1> SUFFICES ASSUME Typed, Raising, Contents, [Next]_vars PROVE Contents'
  OBVIOUS
<1> USE DEF Typed, TypeOK, Raising, Contents, Before, Torn, builder
<1>1. CASE Format
  BY <1>1 DEF Format
<1>2. CASE MountAll
  BY <1>2 DEF MountAll, MountOne, TearDown
<1>3. CASE FetchFails
  BY <1>3 DEF FetchFails, TearDown
<1>4. CASE MountSpecial
  BY <1>4 DEF MountSpecial
<1>5. CASE Install
  BY <1>5 DEF Install
<1>6. CASE Scan
  BY <1>6 DEF Scan
<1>7. CASE Kill
  BY <1>7 DEF Kill
<1>8. CASE Reap
  BY <1>8 DEF Reap
<1>9. CASE ReadMounts
  BY <1>9 DEF ReadMounts, Foreign
<1>10. CASE UmountChroot
  BY <1>10 DEF UmountChroot, AfterInstall, TearDown
<1>11. CASE Bind
  BY <1>11 DEF Bind, TearDown
<1>12. CASE InstallMbr
  BY <1>12 DEF InstallMbr
<1>13. CASE Release
  BY <1>13 DEF Release, TearDown
<1>14. CASE UmountAll
  BY <1>14 DEF UmountAll, Unmounted, Busy, NotMounted
<1>15. CASE WriteHeader
  BY <1>15 DEF WriteHeader
<1>16. CASE Publish
  BY <1>16 DEF Publish, Outcomes
<1>17. CASE Start
  BY <1>17 DEF Start
<1>18. CASE ScriptMounts
  BY <1>18 DEF ScriptMounts
<1>19. CASE Exit
  BY <1>19 DEF Exit
<1>20. CASE Done \/ UNCHANGED vars
  BY <1>20 DEF Done, vars
<1> QED
  BY <1>1, <1>2, <1>3, <1>4, <1>5, <1>6, <1>7, <1>8, <1>9, <1>10,
     <1>11, <1>12, <1>13, <1>14, <1>15, <1>16, <1>17, <1>18, <1>19, <1>20
  DEF Next, Build

LEMMA RootStep ==
  Typed /\ FlagsAreTrue /\ Raising /\ RootHeld /\ [Next]_vars => RootHeld'
<1> SUFFICES ASSUME Typed, FlagsAreTrue, Raising, RootHeld, [Next]_vars PROVE RootHeld'
  OBVIOUS
<1> USE Constants
    DEF Typed, Visiting, Raising, RootHeld, FlagsAreTrue, Clean, Before, Torn, Mountable,
        builder
<1>1. CASE Format
  BY <1>1 DEF Format
<1>2. CASE MountAll
  BY <1>2 DEF MountAll, MountOne, TearDown
<1>3. CASE FetchFails
  BY <1>3 DEF FetchFails, TearDown
<1>4. CASE MountSpecial
  BY <1>4 DEF MountSpecial
<1>5. CASE Install
  BY <1>5 DEF Install
<1>6. CASE Scan
  BY <1>6 DEF Scan
<1>7. CASE Kill
  BY <1>7 DEF Kill
<1>8. CASE Reap
  BY <1>8 DEF Reap
<1>9. CASE ReadMounts
  BY <1>9 DEF ReadMounts, Foreign
<1>10. CASE UmountChroot
  BY <1>10 DEF UmountChroot, AfterInstall, TearDown
<1>11. CASE Bind
  BY <1>11 DEF Bind, TearDown
<1>12. CASE InstallMbr
  BY <1>12 DEF InstallMbr
<1>13. CASE Release
  BY <1>13 DEF Release, TearDown
<1>14. CASE UmountAll
  <2>1. PICK m : NotMounted(m) \/ Unmounted(m) \/ Busy(m)
    BY <1>14 DEF UmountAll
  <2>2. CASE NotMounted(m)
    BY <1>14, <2>2 DEF UmountAll, NotMounted
  <2>3. CASE Busy(m)
    BY <1>14, <2>3 DEF UmountAll, Busy
  <2>4. CASE Unmounted(m)
    <3>1. pc = "umount" /\ pc' = "umount" /\ raised' = raised
      BY <1>14, <2>4 DEF UmountAll, Unmounted
    <3>2. (~ raised => loops' \subseteq flagged') /\ flagged' \subseteq todo'
      BY <2>4, <3>1 DEF Unmounted
    <3>3. ASSUME ~ raised PROVE << >> \in mounts' \/ mounts' = {}
      <4>1. CASE m = << >>
        <5>1. mounts \subseteq Seq(STRING)
          BY PointsArePaths DEF TypeOK
        <5>2. \A n \in mounts : n = << >>
          BY <2>4, <4>1, <5>1, RootIsPrefix DEF Unmounted, Idle
        <5> QED BY <2>4, <4>1, <5>2 DEF Unmounted
      <4>2. CASE m # << >>
        BY <2>4, <3>1, <3>3, <4>2 DEF Unmounted
      <4> QED BY <4>1, <4>2
    <3> QED BY <3>1, <3>2, <3>3
  <2> QED BY <2>1, <2>2, <2>3, <2>4
<1>15. CASE WriteHeader
  BY <1>15 DEF WriteHeader
<1>16. CASE Publish
  BY <1>16 DEF Publish, Outcomes
<1>17. CASE Start
  BY <1>17 DEF Start
<1>18. CASE ScriptMounts
  BY <1>18 DEF ScriptMounts
<1>19. CASE Exit
  BY <1>19 DEF Exit
<1>20. CASE Done \/ UNCHANGED vars
  BY <1>20 DEF Done, vars
<1> QED
  BY <1>1, <1>2, <1>3, <1>4, <1>5, <1>6, <1>7, <1>8, <1>9, <1>10,
     <1>11, <1>12, <1>13, <1>14, <1>15, <1>16, <1>17, <1>18, <1>19, <1>20
  DEF Next, Build

-----------------------------------------------------------------------------
(* The inductive invariant, and the theorems.                              *)

DiskInv ==
    /\ Typed /\ FlagsAreTrue /\ ParentsMounted
    /\ Raising /\ Contents /\ RootHeld

LEMMA DiskInit == Init => DiskInv
<1> SUFFICES ASSUME Init PROVE DiskInv
  OBVIOUS
<1>1. Typed
  BY TypedInit
<1>2. FlagsAreTrue /\ ParentsMounted
  BY DEF Init, FlagsAreTrue, ParentsMounted
<1>3. Raising /\ Contents /\ RootHeld
  BY DEF Init, Raising, Contents, RootHeld, Before, Torn
<1> QED BY <1>1, <1>2, <1>3 DEF DiskInv

(* The invariant that the theorems below rest on: the flags and the mount  *)
(* table of the writer agree, what was raised is unwound in order, and no  *)
(* file system is torn unless its loss was reported.                       *)
THEOREM InvariantHolds == Spec => []DiskInv
<1>1. DiskInv /\ [Next]_vars => DiskInv'
  BY TypedStep, FlagsStep, ParentsStep, RaisingStep, ContentsStep, RootStep DEF DiskInv
<1> QED BY DiskInit, <1>1, PTL DEF Spec

(* A file system is mounted only while all those above it are, and every   *)
(* object knows whether its file system is, through every failure of       *)
(* mountAll, installFileTree and umountAll.                                *)
THEOREM MountsKeptHolds == Spec => []MountsKept
<1>1. DiskInv => MountsKept
  BY DEF DiskInv, Typed, MountsKept
<1> QED BY <1>1, InvariantHolds, PTL

(* A published image was unmounted, with its loop devices given back and   *)
(* its volume group written, or else the log of makeHDImage has a warning. *)
THEOREM CleanUnlessWarnedHolds == Spec => []CleanUnlessWarned
<1>1. DiskInv => CleanUnlessWarned
  BY DEF DiskInv, Raising, RootHeld, CleanUnlessWarned
<1> QED BY <1>1, InvariantHolds, PTL

(* A published image has its files and its boot record: no finally of      *)
(* makeHDImage or installFileTree hides that a step before it failed.      *)
THEOREM PostedIsCompleteHolds == Spec => []PostedIsComplete
<1>1. DiskInv => PostedIsComplete
  BY DEF DiskInv, Raising, Contents, Before, Torn, PostedIsComplete
<1> QED BY <1>1, InvariantHolds, PTL

----------------------------------------------------------------------------
(***************************************************************************)
(* The layout: what the allocation has given away after k file systems is  *)
(* at most what the sum had set aside after the same k (room[k]), the sum  *)
(* only grows, and the partition holds all of it and the metadata.         *)
(*                                                                         *)
(* The VHD: the objects of a file lie apart and the next is written behind *)
(* all of them, so that a place noted in the table is never written over;  *)
(* and the numbers of blocks, of table entries and of cylinders are exact  *)
(* because the layout ends with a cylinder.                                *)
(***************************************************************************)

USE LayoutAssumption DEF LayoutAssumption

\* Rounding up: the result is a multiple, not smaller, and less than one unit
\* larger (divCeil, and the extents of addFilesystem).
LEMMA DivCeil ==
  ASSUME NEW s \in Nat, NEW u \in Nat \ {0}
  PROVE  /\ divCeil(s, u) \in Nat
         /\ Align(s, u) \in Nat
         /\ Align(s, u) >= s
<1> DEFINE q == (s + (u - 1)) \div u
           r == (s + (u - 1)) % u
<1>1. q \in Int /\ r \in 0 .. u - 1 /\ s + (u - 1) = u * q + r
  OBVIOUS
<1>2. q >= 0
  <2>1. SUFFICES ASSUME q <= -1 PROVE FALSE
    BY <1>1
  <2>2. u * q <= -u
    BY <1>1, <2>1
  <2>. QED  BY <1>1, <2>2
<1>3. q * u \in Nat /\ q * u >= s
  BY <1>1, <1>2
<1>. QED  BY <1>2, <1>3, <1>1 DEF divCeil, Align

LEMMA MiBNat == MiB \in Nat \ {0}
BY SMT DEF MiB

LEMMA Cylinder ==
  /\ bytesPerCylinder \in Nat \ {0}
  /\ bytesPerCylinder = Sectors * Heads * 512
  /\ Sectors * Heads \in Nat
<1>1. Sectors * Heads \in Nat \ {0}
  OBVIOUS
<1>. QED  BY <1>1 DEF bytesPerCylinder, BLOCK

\* A whole number of cylinders is a whole number of blocks.
LEMMA CylinderBlocks ==
  ASSUME NEW s \in Nat
  PROVE  \E b \in Nat : Align(s, bytesPerCylinder) = 512 * b
<1> DEFINE q == divCeil(s, bytesPerCylinder)
<1>1. q \in Nat
  <2>1. bytesPerCylinder \in Nat \ {0}
    BY Cylinder
  <2>. QED  BY <2>1, DivCeil, SMTT(30)
<1>2. Align(s, bytesPerCylinder) = q * bytesPerCylinder
  BY DEF Align
<1> HIDE DEF q
<1>3. q * bytesPerCylinder = 512 * (q * (Sectors * Heads))
  BY <1>1, Cylinder
<1>4. q * (Sectors * Heads) \in Nat
  BY <1>1, Cylinder
<1>. QED  BY <1>2, <1>3, <1>4

\* The extents of a volume are the bytes the sum has set aside for it.
LEMMA ExtentsAligned ==
  ASSUME NEW s \in Nat
  PROVE  /\ Extents(s) \in Nat
         /\ Extents(s) * extent_size = Align(s, MiB)
         /\ Align(s, MiB) \in Nat
         /\ Align(s, MiB) >= s
<1>1. Extents(s) = divCeil(s, MiB)
  BY DEF Extents, extent_size, divCeil
<1>2. divCeil(s, MiB) \in Nat /\ Align(s, MiB) \in Nat /\ Align(s, MiB) >= s
  BY DivCeil, MiBNat
<1>. QED  BY <1>1, <1>2 DEF extent_size, Align

-----------------------------------------------------------------------------
(* The invariant *)

LayoutTypeOK ==
  /\ layout \in {"sum", "alloc", "done", "overflow"}
  /\ size \in [0 .. N -> Nat] /\ unalloc \in SUBSET (1 .. N)
  /\ i \in 0 .. N
  /\ room \in [0 .. N -> Nat]
  /\ lvmSize \in Nat /\ current_pe \in Nat
  /\ start \in [0 .. N -> Int] /\ given \in [0 .. N -> Int]

\* How many of the running sums are there.
Summed == IF layout = "sum" THEN i ELSE N

\* The running sum grows by what each file system may use.
Sums ==
  /\ \A k \in 1 .. Summed : room[k] = room[k - 1] + Align(size[k], MiB)
  /\ \A k \in 0 .. Summed : room[k] <= room[Summed]

\* What is given away had been set aside.
Given ==
  layout # "sum" =>
    /\ lvmSize = LvmBytes(room[N])
    /\ start[0] = offsetBytes /\ given[0] = rootSize
    /\ current_pe * extent_size <= room[i]

\* Each volume is big enough and ends where the next may begin, or before.
Apart ==
  \A k \in InLvm :
    /\ given[k] >= size[k] /\ given[k] >= 0
    /\ lvmOffset + loc_data <= start[k]
    /\ End(k) <= lvmOffset + loc_data + current_pe * extent_size
    /\ \A j \in InLvm : j < k => End(j) <= start[k]

LayoutInv ==
  /\ LayoutTypeOK /\ NoOverflow
  /\ (layout = "sum" => current_pe = 0)
  /\ Sums /\ Given /\ Apart

LEMMA RealignNat ==
  ASSUME NEW w \in Nat
  PROVE  Realign(w) \in Nat
BY DEF Realign, BLOCK

LEMMA LayoutBegins == InitLayout => LayoutInv
<1> SUFFICES ASSUME InitLayout PROVE LayoutInv
  OBVIOUS
<1>1. size \in [0 .. N -> Nat]
  <2>1. PICK wanted \in [0 .. N -> Requests] : size = [k \in 0 .. N |-> Realign(wanted[k])]
    BY DEF InitLayout
  <2>2. \A k \in 0 .. N : wanted[k] \in Nat
    OBVIOUS
  <2>. QED  BY <2>1, <2>2, RealignNat
<1>2. LayoutTypeOK
  BY <1>1 DEF InitLayout, LayoutTypeOK
<1>3. NoOverflow /\ Given /\ Apart /\ current_pe = 0
  BY DEF InitLayout, NoOverflow, Given, Apart, InLvm
<1>4. Sums
  BY DEF InitLayout, Sums, Summed
<1>. QED  BY <1>2, <1>3, <1>4 DEF LayoutInv

LEMMA LvmNat ==
  ASSUME NEW s \in Nat
  PROVE  LvmBytes(s) \in Nat /\ LvmBytes(s) >= s + MiB
<1>1. s + MiB \in Nat
  BY MiBNat
<1>2. bytesPerCylinder \in Nat \ {0}
  BY Cylinder
<1>3. Align(s + MiB, bytesPerCylinder) \in Nat
  BY <1>1, <1>2, DivCeil
<1>4. Align(s + MiB, bytesPerCylinder) >= s + MiB
  BY <1>1, <1>2, DivCeil
<1>. QED  BY <1>3, <1>4 DEF LvmBytes

LEMMA AddStep == LayoutInv /\ Add => LayoutInv'
<1> SUFFICES ASSUME LayoutInv, Add PROVE LayoutInv'
  OBVIOUS
<1>a. LayoutTypeOK /\ Sums /\ (layout = "sum" => current_pe = 0)
  BY DEF LayoutInv
<1>b. /\ layout = "sum" /\ i' = i + 1 /\ layout' = layout /\ size' = size
      /\ unalloc' = unalloc /\ lvmSize' = lvmSize /\ current_pe' = current_pe
      /\ start' = start /\ given' = given
  BY DEF Add
<1>c. i \in 0 .. N - 1
  BY <1>a DEF LayoutTypeOK, Add
<1>1. size[i + 1] \in Nat /\ room[i] \in Nat
  BY <1>a, <1>b, <1>c DEF LayoutTypeOK
<1> DEFINE more == Align(size[i + 1], MiB)
<1>2. more \in Nat
  BY <1>1, ExtentsAligned
<1>3. room' = [room EXCEPT ![i + 1] = room[i] + more]
  BY DEF Add
<1> HIDE DEF more
<1>4. room' \in [0 .. N -> Nat]
  <2>1. room[i] + more \in Nat
    BY <1>1, <1>2
  <2>2. room \in [0 .. N -> Nat]
    BY <1>a DEF LayoutTypeOK
  <2>. QED  BY <1>3, <2>1, <2>2
<1>5. LayoutTypeOK'
  BY <1>a, <1>b, <1>c, <1>4 DEF LayoutTypeOK
<1>6. Sums'
  <2>1. Summed = i /\ Summed' = i + 1
    BY <1>a, <1>b, <1>c DEF Summed
  <2>2. \A k \in 0 .. i : room'[k] = room[k] /\ room[k] \in Nat
    <3>1. room \in [0 .. N -> Nat]
      BY <1>a DEF LayoutTypeOK
    <3>2. \A k \in 0 .. i : k \in 0 .. N /\ k # i + 1
      BY <1>c
    <3>. QED  BY <1>3, <3>1, <3>2
  <2>3. room'[i + 1] = room[i] + more
    BY <1>a, <1>b, <1>c, <1>3 DEF LayoutTypeOK
  <2>4. \A k \in 1 .. i + 1 : room'[k] = room'[k - 1] + Align(size[k], MiB)
    <3> SUFFICES ASSUME NEW k \in 1 .. i + 1
                 PROVE  room'[k] = room'[k - 1] + Align(size[k], MiB)
      OBVIOUS
    <3>1. CASE k = i + 1
      BY <1>a, <1>b, <1>c, <3>1, <2>2, <2>3 DEF more
    <3>2. CASE k # i + 1
      <4>1. k \in 1 .. i /\ k \in 0 .. i /\ k - 1 \in 0 .. i
        BY <1>a, <1>b, <1>c, <3>2
      <4>. QED  BY <1>a, <1>b, <1>c, <4>1, <2>1, <2>2 DEF Sums
    <3>. QED  BY <3>1, <3>2
  <2>5. \A k \in 0 .. i + 1 : room'[k] <= room'[i + 1]
    <3>1. \A k \in 0 .. i : room[k] <= room[i]
      BY <1>a, <1>b, <1>c, <2>1 DEF Sums
    <3>. QED  BY <1>a, <1>b, <1>c, <1>1, <3>1, <2>2, <2>3, <1>2
  <2>. QED  BY <1>a, <1>b, <1>c, <2>1, <2>4, <2>5 DEF Sums
<1>7. Given' /\ Apart' /\ NoOverflow' /\ current_pe' = 0
  BY <1>a, <1>b, <1>c DEF Given, Apart, InLvm, NoOverflow
<1>. QED  BY <1>5, <1>6, <1>7 DEF LayoutInv

LEMMA OffsetInt ==
  ASSUME LayoutTypeOK
  PROVE  /\ rootEnd \in Nat /\ rootEnd >= offsetBytes + size[0]
         /\ lvmOffset \in Int /\ lvmOffset = rootEnd
         /\ rootSizeBlock * BLOCK = rootSize
<1>1. offsetBytes = 65536 /\ offsetBytes + size[0] \in Nat /\ size[0] \in Nat
  BY DEF LayoutTypeOK, offsetBytes, BLOCK
<1>c. bytesPerCylinder \in Nat \ {0}
  BY Cylinder
<1>d. rootEnd = Align(offsetBytes + size[0], bytesPerCylinder)
  BY DEF rootEnd
<1>2. rootEnd \in Nat /\ rootEnd >= offsetBytes + size[0]
  BY <1>1, <1>c, <1>d, DivCeil
<1>3. PICK b \in Nat : rootEnd = 512 * b
  BY <1>1, CylinderBlocks DEF rootEnd
<1>4. rootSize = 512 * (b - 128)
  BY <1>1, <1>3, SMT DEF rootSize
<1>5. rootSizeBlock = b - 128
  BY <1>4, SMT DEF rootSizeBlock, BLOCK
<1>6. rootStartBlock = 128
  BY <1>1, SMT DEF rootStartBlock, BLOCK
<1>. QED
  BY <1>1, <1>2, <1>3, <1>4, <1>5, <1>6 DEF lvmOffset, lvmStartBlock, BLOCK

LEMMA PartitionStep == LayoutInv /\ Partition => LayoutInv'
<1> SUFFICES ASSUME LayoutInv, Partition PROVE LayoutInv'
  OBVIOUS
<1>a. LayoutTypeOK /\ Sums /\ (layout = "sum" => current_pe = 0)
  BY DEF LayoutInv
<1>b. /\ layout = "sum" /\ i = N /\ layout' = "alloc" /\ i' = 0 /\ size' = size
      /\ unalloc' = unalloc /\ room' = room /\ current_pe' = current_pe
      /\ lvmSize' = LvmBytes(room[N])
      /\ start' = [start EXCEPT ![0] = offsetBytes]
      /\ given' = [given EXCEPT ![0] = rootSize]
  BY DEF Partition
<1>1. offsetBytes \in Int /\ rootSize \in Int
  BY <1>a, OffsetInt DEF rootSize, offsetBytes, BLOCK
<1>2. room[N] \in Nat /\ room[0] \in Nat
  BY <1>a DEF LayoutTypeOK
<1>c. lvmSize' \in Nat
  BY <1>b, <1>2, LvmNat
<1>d. start' \in [0 .. N -> Int] /\ given' \in [0 .. N -> Int]
  BY <1>a, <1>b, <1>1 DEF LayoutTypeOK
<1>3. LayoutTypeOK'
  BY <1>a, <1>b, <1>c, <1>d DEF LayoutTypeOK
<1>4. Sums'
  <2>1. Summed = N /\ Summed' = N
    BY <1>b DEF Summed
  <2>. QED  BY <1>a, <1>b, <2>1 DEF Sums
<1>5. Given'
  <2>1. start'[0] = offsetBytes /\ given'[0] = rootSize
    BY <1>a, <1>b, <1>1 DEF LayoutTypeOK
  <2>2. offsetBytes' = offsetBytes /\ rootSize' = rootSize
    BY <1>b DEF offsetBytes, rootSize, rootEnd
  <2>3. current_pe' * extent_size <= room'[0]
    BY <1>a, <1>b, <1>2, MiBNat DEF extent_size
  <2>. QED  BY <1>b, <2>1, <2>2, <2>3 DEF Given
<1>6. InLvm' = {}
  BY <1>b DEF InLvm
<1>7. Apart' /\ NoOverflow' /\ (layout = "sum" => current_pe = 0)'
  BY <1>b, <1>6 DEF Apart, NoOverflow
<1>. QED  BY <1>3, <1>4, <1>5, <1>7 DEF LayoutInv

\* A step that gives nothing away.
LEMMA Grows ==
  ASSUME LayoutTypeOK, Sums, layout # "sum", i < N
  PROVE  /\ room[i + 1] = room[i] + Align(size[i + 1], MiB)
         /\ Align(size[i + 1], MiB) \in Nat
         /\ room[i] \in Nat /\ room[i + 1] <= room[N]
<1>1. Summed = N
  BY DEF Summed
<1>2. i + 1 \in 1 .. N /\ i + 1 \in 0 .. N /\ i \in 0 .. N
  BY DEF LayoutTypeOK
<1>3. size[i + 1] \in Nat /\ room[i] \in Nat
  BY <1>2 DEF LayoutTypeOK
<1>4. (i + 1) - 1 = i
  BY <1>2
<1>5. room[i + 1] = room[(i + 1) - 1] + Align(size[i + 1], MiB)
  BY <1>1, <1>2 DEF Sums
<1>6. room[i + 1] <= room[N]
  BY <1>1, <1>2 DEF Sums
<1>. QED  BY <1>3, <1>4, <1>5, <1>6, ExtentsAligned

LEMMA SkipStep == LayoutInv /\ Skip => LayoutInv'
<1> SUFFICES ASSUME LayoutInv, Skip PROVE LayoutInv'
  OBVIOUS
<1>a. LayoutTypeOK /\ Sums /\ Given /\ Apart
  BY DEF LayoutInv
<1>b. /\ layout = "alloc" /\ layout' = layout /\ i < N /\ i' = i + 1 /\ size' = size
      /\ i + 1 \in unalloc /\ unalloc' = unalloc /\ room' = room
      /\ current_pe' = current_pe /\ lvmSize' = lvmSize
      /\ start' = start /\ given' = given
  BY DEF Skip
<1>1. LayoutTypeOK'
  <2>1. N \in Nat /\ i \in 0 .. N
    BY <1>a DEF LayoutTypeOK
  <2>2. i' \in 0 .. N
    BY <1>b, <2>1
  <2>. QED  BY <1>a, <1>b, <2>2, SMTT(30) DEF LayoutTypeOK
<1>2. Sums'
  <2>1. Summed = N /\ Summed' = N
    BY <1>b DEF Summed
  <2>. QED  BY <1>a, <1>b, <2>1 DEF Sums
<1>3. Given'
  <2>1. room[i] <= room[i + 1]
    BY <1>a, <1>b, Grows
  <2>2. current_pe * extent_size \in Nat /\ room[i] \in Nat /\ room[i + 1] \in Nat
    BY <1>a, <1>b, MiBNat DEF LayoutTypeOK, extent_size
  <2>3. current_pe * extent_size <= room[i + 1]
    BY <1>a, <1>b, <2>1, <2>2 DEF Given
  <2>4. offsetBytes' = offsetBytes /\ rootSize' = rootSize
    BY <1>b DEF offsetBytes, rootSize, rootEnd
  <2>. QED  BY <1>a, <1>b, <2>3, <2>4 DEF Given
<1>4. InLvm' = InLvm
  <2>1. \A k \in 1 .. N : k \notin unalloc => (k <= i + 1 <=> k <= i)
    <3>1. i \in Int /\ i + 1 \in unalloc /\ N \in Nat
      BY <1>a, <1>b DEF LayoutTypeOK
    <3>2. \A k \in 1 .. N : k <= i + 1 => k <= i \/ k = i + 1
      BY <3>1
    <3>. QED  BY <3>1, <3>2
  <2>. QED  BY <1>b, <2>1, Zenon DEF InLvm
<1>5. Apart'
  BY <1>a, <1>b, <1>4 DEF Apart, End, lvmOffset, lvmStartBlock, rootSizeBlock,
     rootSize, rootEnd
<1>. QED  BY <1>b, <1>1, <1>2, <1>3, <1>5 DEF LayoutInv, NoOverflow

LEMMA FloorAtLeast ==
  ASSUME NEW x \in Nat, NEW y \in Nat, NEW u \in Nat \ {0}, x * u <= y
  PROVE  x <= y \div u
<1> DEFINE q == y \div u
           r == y % u
<1>1. q \in Int /\ r \in 0 .. u - 1 /\ y = u * q + r
  OBVIOUS
<1> HIDE DEF q, r
<1>2. x <= q
  <2>1. SUFFICES ASSUME q + 1 <= x PROVE FALSE
    BY <1>1
  <2>2. u * (q + 1) <= u * x
    BY <1>1, <2>1
  <2>3. u * q + u <= x * u
    BY <1>1, <2>2
  <2>. QED  BY <1>1, <2>3
<1>. QED  BY <1>2 DEF q

\* addFilesystem never runs out of extents, and places the volume behind all
\* that are there.
LEMMA AllocateStep == LayoutInv /\ addFilesystem => LayoutInv'
<1> SUFFICES ASSUME LayoutInv, addFilesystem PROVE LayoutInv'
  OBVIOUS
<1> DEFINE v == i + 1
           ext == Extents(size[v])
           used == current_pe * MiB
           base == lvmOffset + loc_data
<1>a. LayoutTypeOK /\ Sums /\ Given /\ Apart
  BY DEF LayoutInv
<1>b. /\ layout = "alloc" /\ i < N /\ v \notin unalloc /\ current_pe' = current_pe + ext
      /\ size' = size /\ unalloc' = unalloc /\ room' = room /\ lvmSize' = lvmSize
  BY DEF addFilesystem, Taken
<1>c. v \in 1 .. N /\ size[v] \in Nat /\ current_pe \in Nat
  BY <1>a, <1>b DEF LayoutTypeOK
<1>d. /\ ext \in Nat /\ ext * MiB = Align(size[v], MiB)
      /\ Align(size[v], MiB) >= size[v] /\ Align(size[v], MiB) \in Nat
  BY <1>c, ExtentsAligned DEF extent_size
<1>e. MiB \in Nat \ {0}
  BY MiBNat
<1>f. /\ room[v] = room[i] + Align(size[v], MiB) /\ room[i] \in Nat
      /\ room[v] <= room[N] /\ room[N] \in Nat /\ room[v] \in Nat
  <2>1. layout # "sum"
    BY <1>b
  <2>2. room[N] \in Nat /\ room[v] \in Nat
    BY <1>a, <1>c DEF LayoutTypeOK
  <2>. QED  BY <1>a, <1>b, <2>1, <2>2, Grows
<1>g. used \in Nat /\ used <= room[i]
  BY <1>a, <1>b, <1>c, <1>e DEF Given, extent_size
<1>h. base \in Int /\ base' = base
  <2>1. lvmOffset \in Int /\ loc_data \in Int
    BY <1>a, <1>e, OffsetInt DEF loc_data
  <2>. QED  BY <1>b, <2>1 DEF lvmOffset, lvmStartBlock, rootSizeBlock, rootSize, rootEnd
<1>1. (current_pe + ext) * MiB = used + ext * MiB
  BY <1>c, <1>d, <1>e
<1>2. (current_pe + ext) * MiB <= room[v]
  BY <1>1, <1>d, <1>f, <1>g
<1>3. current_pe' <= pe_count
  <2>1. lvmSize >= room[N] + MiB /\ lvmSize \in Nat
    BY <1>a, <1>b, <1>f, LvmNat DEF Given
  <2>2. lvmSize - loc_data \in Nat /\ room[N] <= lvmSize - loc_data
    BY <2>1, <1>e, <1>f DEF loc_data
  <2>3. (current_pe + ext) * MiB <= lvmSize - loc_data
    BY <1>2, <2>2, <1>f, <1>c, <1>d, <1>e
  <2>4. current_pe + ext \in Nat
    BY <1>c, <1>d
  <2>5. current_pe + ext <= (lvmSize - loc_data) \div MiB
    BY <2>2, <2>3, <2>4, <1>e, FloorAtLeast
  <2>. QED  BY <1>b, <2>5 DEF pe_count, extent_size
<1>4. pe_count \in Int /\ current_pe' \in Nat
  <2>1. lvmSize - loc_data \in Int
    BY <1>a, <1>e DEF LayoutTypeOK, loc_data
  <2>. QED  BY <1>b, <1>c, <1>d, <1>e, <2>1 DEF pe_count, extent_size
<1>5. /\ i' = v /\ layout' = layout
      /\ start' = [start EXCEPT ![v] = base + extent_size * current_pe]
      /\ given' = [given EXCEPT ![v] = ext * extent_size]
  BY <1>3, <1>4 DEF addFilesystem
<1>6. base + extent_size * current_pe = base + used /\ ext * extent_size = ext * MiB
  BY <1>c, <1>d, <1>e, <1>h DEF extent_size
<1>7. base + used \in Int /\ ext * MiB \in Int
  BY <1>d, <1>e, <1>g, <1>h
<1> HIDE DEF v, ext, used, base
<1>8. start' = [start EXCEPT ![v] = base + used] /\ given' = [given EXCEPT ![v] = ext * MiB]
  BY <1>5, <1>6
<1>9. LayoutTypeOK'
  <2>1. start' \in [0 .. N -> Int] /\ given' \in [0 .. N -> Int]
    BY <1>a, <1>7, <1>8 DEF LayoutTypeOK
  <2>2. i' \in 0 .. N
    BY <1>c, <1>5
  <2>3. lvmSize' \in Nat /\ room' \in [0 .. N -> Nat]
    BY <1>a, <1>b DEF LayoutTypeOK
  <2>4. /\ layout' \in {"sum", "alloc", "done", "overflow"}
        /\ size' \in [0 .. N -> Nat] /\ unalloc' \in SUBSET (1 .. N)
    BY <1>a, <1>b, <1>5 DEF LayoutTypeOK
  <2>. QED  BY <1>4, <2>1, <2>2, <2>3, <2>4 DEF LayoutTypeOK
<1>10. Sums'
  <2>1. Summed = N /\ Summed' = N
    BY <1>b, <1>5 DEF Summed
  <2>. QED  BY <1>a, <1>b, <2>1 DEF Sums
<1>11. Given'
  <2>1. start'[0] = start[0] /\ given'[0] = given[0]
    BY <1>a, <1>c, <1>8 DEF LayoutTypeOK
  <2>2. offsetBytes' = offsetBytes /\ rootSize' = rootSize
    BY <1>b DEF offsetBytes, rootSize, rootEnd
  <2>3. current_pe' * extent_size <= room'[i']
    BY <1>b, <1>2, <1>5 DEF extent_size
  <2>. QED  BY <1>a, <1>b, <1>5, <2>1, <2>2, <2>3 DEF Given
<1>12. \A k \in InLvm' : k \in InLvm \/ k = v
  <2>1. \A k \in 1 .. N : k <= v => k <= i \/ k = v
    BY <1>a, <1>c DEF LayoutTypeOK, v
  <2>. QED  BY <1>b, <1>5, <2>1 DEF InLvm
<1>13. \A k \in InLvm : k < v /\ k # v /\ k \in 0 .. N
  BY <1>a, <1>c DEF LayoutTypeOK, v, InLvm
<1>14. \A k \in InLvm : start'[k] = start[k] /\ given'[k] = given[k]
  BY <1>a, <1>8, <1>13 DEF LayoutTypeOK
<1>15. start'[v] = base + used /\ given'[v] = ext * MiB
  BY <1>a, <1>c, <1>8 DEF LayoutTypeOK
<1>16. \A k \in InLvm : start[k] \in Int /\ given[k] \in Int
  BY <1>a, <1>13 DEF LayoutTypeOK
<1>17. current_pe' * extent_size = used + ext * MiB
  BY <1>1, <1>b DEF extent_size
<1>18. Apart'
  <2> SUFFICES ASSUME NEW k \in InLvm'
               PROVE  /\ given'[k] >= size[k] /\ given'[k] >= 0
                      /\ base <= start'[k]
                      /\ start'[k] + given'[k] <= base + (used + ext * MiB)
                      /\ \A j \in InLvm' : j < k => start'[j] + given'[j] <= start'[k]
    BY <1>b, <1>h, <1>17 DEF Apart, End, base
  <2>1. \A m \in InLvm : /\ given[m] >= size[m] /\ given[m] >= 0 /\ base <= start[m]
                         /\ start[m] + given[m] <= base + used
                         /\ \A j \in InLvm : j < m => start[j] + given[j] <= start[m]
    BY <1>a DEF Apart, End, base, used, extent_size
  <2>2. CASE k \in InLvm
    <3>1. /\ given'[k] >= size[k] /\ given'[k] >= 0 /\ base <= start'[k]
      BY <2>1, <2>2, <1>14
    <3>2. start'[k] + given'[k] <= base + (used + ext * MiB)
      BY <2>1, <2>2, <1>14, <1>16, <1>d, <1>e, <1>g, <1>h
    <3>3. ASSUME NEW j \in InLvm', j < k PROVE start'[j] + given'[j] <= start'[k]
      <4>1. j \in InLvm
        BY <1>12, <1>13, <2>2, <3>3, <1>c
      <4>. QED  BY <2>1, <2>2, <3>3, <4>1, <1>14
    <3>. QED  BY <3>1, <3>2, <3>3
  <2>3. CASE k = v
    <3>1. given'[k] >= size[k] /\ given'[k] >= 0 /\ base <= start'[k]
      BY <2>3, <1>15, <1>c, <1>d, <1>g, <1>h
    <3>2. start'[k] + given'[k] <= base + (used + ext * MiB)
      BY <2>3, <1>15, <1>7, <1>g, <1>h
    <3>3. ASSUME NEW j \in InLvm', j < k PROVE start'[j] + given'[j] <= start'[k]
      <4>1. j \in InLvm
        BY <1>12, <2>3, <3>3, <1>c
      <4>. QED  BY <2>1, <2>3, <4>1, <1>14, <1>15
    <3>. QED  BY <3>1, <3>2, <3>3
  <2>. QED  BY <1>12, <2>2, <2>3
<1>19. NoOverflow' /\ layout' # "sum"
  BY <1>b, <1>5 DEF NoOverflow
<1>. QED  BY <1>9, <1>10, <1>11, <1>18, <1>19 DEF LayoutInv

LEMMA OtherStep == LayoutInv /\ (Placed \/ UNCHANGED layoutVars) => LayoutInv'
<1> SUFFICES ASSUME LayoutInv, Placed \/ UNCHANGED layoutVars PROVE LayoutInv'
  OBVIOUS
<1>a. LayoutTypeOK /\ Sums /\ Given /\ Apart /\ NoOverflow
  BY DEF LayoutInv
<1>b. /\ size' = size /\ unalloc' = unalloc /\ room' = room /\ i' = i
      /\ lvmSize' = lvmSize /\ current_pe' = current_pe
      /\ start' = start /\ given' = given
      /\ (layout' = layout \/ (layout = "alloc" /\ layout' = "done"))
  BY DEF Placed, layoutVars
<1>1. LayoutTypeOK' /\ NoOverflow'
  BY <1>a, <1>b DEF LayoutTypeOK, NoOverflow
<1>2. Sums' /\ (layout = "sum" => current_pe = 0)'
  <2>1. Summed' = Summed
    BY <1>b DEF Summed
  <2>. QED  BY <1>a, <1>b, <2>1 DEF Sums, LayoutInv
<1>3. Given'
  <2>1. offsetBytes' = offsetBytes /\ rootSize' = rootSize
    BY <1>b DEF offsetBytes, rootSize, rootEnd
  <2>. QED  BY <1>a, <1>b, <2>1 DEF Given
<1>4. InLvm' = InLvm
  BY <1>b DEF InLvm
<1>5. Apart'
  BY <1>a, <1>b, <1>4 DEF Apart, End, lvmOffset, lvmStartBlock, rootSizeBlock,
     rootSize, rootEnd
<1>. QED  BY <1>1, <1>2, <1>3, <1>5 DEF LayoutInv

LEMMA LayoutStep == LayoutInv /\ [NextLayout]_layoutVars => LayoutInv'
<1> SUFFICES ASSUME LayoutInv, [NextLayout]_layoutVars PROVE LayoutInv'
  OBVIOUS
<1>1. CASE Add  BY <1>1, AddStep
<1>2. CASE Partition  BY <1>2, PartitionStep
<1>3. CASE Skip  BY <1>3, SkipStep
<1>4. CASE addFilesystem  BY <1>4, AllocateStep
<1>5. CASE Placed \/ Ended \/ UNCHANGED layoutVars  BY <1>5, OtherStep DEF Ended
<1>. QED  BY <1>1, <1>2, <1>3, <1>4, <1>5 DEF NextLayout

LEMMA Invariant == SpecLayout => []LayoutInv
BY LayoutBegins, LayoutStep, PTL DEF SpecLayout

-----------------------------------------------------------------------------
(* The theorems *)

\* makeHDImage and addFilesystem: LVMOverflowError is never raised, whatever
\* sizes are asked for and whatever the geometry.
THEOREM NoOverflowHolds == SpecLayout => []NoOverflow
<1>1. LayoutInv => NoOverflow
  BY DEF LayoutInv
<1>. QED  BY Invariant, <1>1, PTL

LEMMA InvApart == LayoutInv => RegionsApart
<1> SUFFICES ASSUME LayoutInv PROVE RegionsApart
  OBVIOUS
<1>a. LayoutTypeOK /\ Sums /\ Given /\ Apart
  BY DEF LayoutInv
<1>1. /\ rootEnd \in Nat /\ rootEnd >= offsetBytes + size[0]
      /\ lvmOffset \in Int /\ lvmOffset = rootEnd
      /\ rootSizeBlock * BLOCK = rootSize
  BY <1>a, OffsetInt
<1>2. size[0] \in Nat /\ lvmSize \in Nat /\ current_pe \in Nat /\ offsetBytes \in Nat
  BY <1>a DEF LayoutTypeOK, offsetBytes, BLOCK
<1>3. ASSUME layout \in {"alloc", "done"}
      PROVE  /\ given[0] >= size[0] /\ End(0) = lvmOffset
             /\ rootSizeBlock * BLOCK = rootSize /\ lvmSizeBlock * BLOCK = lvmSize
             /\ lvmOffset + lvmSize < totalSize
  <2>1. /\ start[0] = offsetBytes /\ given[0] = rootSize
        /\ lvmSize = LvmBytes(room[N]) /\ room[N] \in Nat
    BY <1>a, <1>3 DEF Given, LayoutTypeOK
  <2>2. given[0] >= size[0] /\ End(0) = lvmOffset
    BY <1>1, <1>2, <2>1 DEF End, rootSize
  <2>3. lvmSizeBlock * BLOCK = lvmSize
    <3>1. room[N] + MiB \in Nat
      BY <2>1, MiBNat
    <3>2. PICK b \in Nat : lvmSize = 512 * b
      BY <2>1, <3>1, CylinderBlocks DEF LvmBytes
    <3>. QED  BY <3>2, SMT DEF lvmSizeBlock, BLOCK
  <2>4. lvmOffset + lvmSize < totalSize
    <3>1. rootEnd + lvmSize + 1 \in Nat
      BY <1>1, <1>2
    <3>2. bytesPerCylinder \in Nat \ {0}
      BY Cylinder
    <3>3. totalSize \in Nat /\ totalSize >= rootEnd + lvmSize + 1
      <4>1. /\ Align(rootEnd + lvmSize + 1, bytesPerCylinder) \in Nat
            /\ Align(rootEnd + lvmSize + 1, bytesPerCylinder) >= rootEnd + lvmSize + 1
        BY <3>1, <3>2, DivCeil
      <4>. QED  BY <4>1 DEF totalSize
    <3>. QED  BY <1>1, <1>2, <3>3
  <2>. QED  BY <1>1, <2>2, <2>3, <2>4
<1>4. ASSUME NEW k \in InLvm
      PROVE  /\ given[k] >= size[k]
             /\ lvmOffset + loc_data <= start[k] /\ End(k) <= lvmOffset + lvmSize
             /\ \A j \in InLvm : j < k => End(j) <= start[k]
  <2>1. /\ given[k] >= size[k] /\ lvmOffset + loc_data <= start[k]
        /\ End(k) <= lvmOffset + loc_data + current_pe * extent_size
        /\ \A j \in InLvm : j < k => End(j) <= start[k]
    BY <1>a DEF Apart
  <2>2. layout # "sum" /\ k \in 0 .. N
    BY DEF InLvm
  <2>3. /\ current_pe * extent_size <= room[i] /\ lvmSize = LvmBytes(room[N])
        /\ room[i] \in Nat /\ room[N] \in Nat /\ i \in 0 .. N
    BY <1>a, <2>2 DEF Given, LayoutTypeOK
  <2>4. room[i] <= room[N]
    BY <1>a, <2>2, <2>3 DEF Sums, Summed
  <2>5. lvmSize >= room[N] + MiB
    BY <2>3, LvmNat
  <2>6. End(k) \in Int /\ MiB \in Nat /\ current_pe * extent_size \in Nat
    BY <1>a, <1>2, <2>2, MiBNat DEF End, LayoutTypeOK, extent_size
  <2>7. End(k) <= lvmOffset + lvmSize
    BY <1>1, <1>2, <2>1, <2>3, <2>4, <2>5, <2>6 DEF loc_data
  <2>. QED  BY <2>1, <2>7
<1>. QED  BY <1>3, <1>4 DEF RegionsApart

\* makeHDImage and addFilesystem: no two regions of the disk overlap, each is
\* as large as asked for, and the partition table describes them exactly.
THEOREM RegionsApartHolds == SpecLayout => []RegionsApart
BY Invariant, InvApart, PTL

-----------------------------------------------------------------------------
(* The file that is written from that disk.                                *)

LEMMA VhdConstants == MaxCylinders \in Nat /\ sectorsPerBlock \in Nat \ {0}
BY VhdAssumption DEF VhdAssumption

-----------------------------------------------------------------------------
(* Arithmetic.                                                             *)

\* A rounded up quotient counts the units that begin before the end.
LEMMA Rounded ==
  ASSUME NEW n \in Nat \ {0}, NEW u \in Nat \ {0}
  PROVE  /\ divCeil(n, u) \in Nat \ {0}
         /\ \A k \in Nat : k * u < n <=> k < divCeil(n, u)
<1> DEFINE q == (n + (u - 1)) \div u
           r == (n + (u - 1)) % u
<1>1. q \in Int /\ r \in 0 .. u - 1 /\ n + (u - 1) = u * q + r
  OBVIOUS
<1> HIDE DEF q, r
<1>2. ASSUME NEW k \in Nat PROVE k * u < n <=> k < q
  <2>1. ASSUME k < q PROVE k * u < n
    <3>1. u * (k + 1) <= u * q
      BY <1>1, <2>1
    <3>. QED  BY <1>1, <3>1
  <2>2. ASSUME k >= q PROVE k * u >= n
    <3>1. u * k >= u * q
      BY <1>1, <2>2
    <3>. QED  BY <1>1, <3>1
  <2>. QED  BY <1>1, <2>1, <2>2
<1>3. q > 0
  <2>1. 0 * u < n
    OBVIOUS
  <2>. QED  BY <1>2, <2>1
<1>4. divCeil(n, u) = q
  BY DEF divCeil, q
<1>. QED  BY <1>1, <1>2, <1>3, <1>4

LEMMA RoundedExact ==
  ASSUME NEW c \in Nat \ {0}, NEW u \in Nat \ {0}
  PROVE  divCeil(c * u, u) = c
<1>1. c * u \in Nat \ {0}
  OBVIOUS
<1> DEFINE q == divCeil(c * u, u)
<1>2. q \in Nat \ {0} /\ \A k \in Nat : k * u < c * u <=> k < q
  BY <1>1, Rounded
<1> HIDE DEF q
<1>3. ~ (c < q)
  BY <1>2
<1>4. c - 1 < q
  <2>1. (c - 1) * u < c * u
    OBVIOUS
  <2>. QED  BY <1>2, <2>1
<1>. QED  BY <1>2, <1>3, <1>4 DEF q

\* The disk is a whole number of cylinders, and so of sectors; a block begins inside of it
\* exactly if it has an entry in the table.
Measured ==
  /\ \E c \in Nat \ {0} : totalSize = c * bytesPerCylinder
  /\ imageSectors \in Nat \ {0} /\ numBatEntries \in Nat \ {0} /\ batSectors \in Nat \ {0}
  /\ \A k \in Nat : k * sectorsPerBlock < imageSectors <=> k < numBatEntries

LEMMA LaidOut == LayoutInv => Measured
<1> SUFFICES ASSUME LayoutInv PROVE Measured
  OBVIOUS
<1> DEFINE bytes == rootEnd + lvmSize + 1
           c == divCeil(bytes, bytesPerCylinder)
<1>1. bytes \in Nat \ {0}
  <2>1. rootEnd \in Nat /\ lvmSize \in Nat
    BY OffsetInt DEF LayoutInv, LayoutTypeOK
  <2>. QED  BY <2>1
<1>2. bytesPerCylinder \in Nat \ {0}
  BY Cylinder
<1>3. c \in Nat \ {0} /\ totalSize = c * bytesPerCylinder
  <2>1. c \in Nat \ {0}
    BY <1>1, <1>2, Rounded
  <2>. QED  BY <2>1 DEF totalSize, Align
<1>4. PICK b \in Nat : totalSize = 512 * b
  BY <1>1, CylinderBlocks DEF totalSize
<1> HIDE DEF bytes, c
<1>5. totalSize \in Nat \ {0}
  BY <1>2, <1>3
<1>6. imageSectors = b /\ b # 0
  <2>1. b # 0
    BY <1>4, <1>5
  <2>2. imageSectors = (512 * b) \div 512
    BY <1>4 DEF imageSectors, BLOCK
  <2>3. (512 * b) \div 512 = b
    OBVIOUS
  <2>. QED  BY <2>1, <2>2, <2>3
<1>7. /\ numBatEntries \in Nat \ {0}
      /\ \A k \in Nat : k * sectorsPerBlock < imageSectors <=> k < numBatEntries
  BY <1>6, VhdConstants, Rounded DEF numBatEntries
<1>8. batSectors \in Nat \ {0}
  <2>1. 4 * numBatEntries \in Nat \ {0} /\ BLOCK \in Nat \ {0}
    BY <1>7 DEF BLOCK
  <2>. QED  BY <2>1, Rounded DEF batSectors
<1>. QED  BY <1>3, <1>6, <1>7, <1>8 DEF Measured

-----------------------------------------------------------------------------
(* Files.                                                                  *)

\* Objects lie apart, and there is a last one.
Packed(f) ==
  /\ DOMAIN f \subseteq Nat
  /\ \E m \in DOMAIN f : \A s \in DOMAIN f : s <= m
  /\ \A s \in DOMAIN f : Length(f[s]) \in Nat \ {0}
  /\ \A s, t \in DOMAIN f : s < t => s + Length(f[s]) <= t

LEMMA MaxIs ==
  ASSUME NEW S \in SUBSET Int, NEW m \in S, \A s \in S : s <= m
  PROVE  Max(S) = m
<1>1. \E x \in S : \A y \in S : x >= y
  OBVIOUS
<1>2. Max(S) \in S /\ \A y \in S : Max(S) >= y
  BY <1>1 DEF Max
<1> DEFINE x == Max(S)
<1>3. x \in S /\ x >= m /\ x <= m /\ x \in Int
  BY <1>2
<1> HIDE DEF x
<1>4. x = m
  BY <1>3
<1>. QED  BY <1>4 DEF x

LEMMA LastOf ==
  ASSUME NEW f, Packed(f)
  PROVE  /\ Max(DOMAIN f) \in DOMAIN f /\ Max(DOMAIN f) \in Nat
         /\ \A s \in DOMAIN f : s <= Max(DOMAIN f)
         /\ tell(f) = Max(DOMAIN f) + Length(f[Max(DOMAIN f)])
         /\ tell(f) \in Nat
         /\ \A s \in DOMAIN f : s < tell(f) /\ s + Length(f[s]) <= tell(f)
<1>1. PICK m \in DOMAIN f : \A s \in DOMAIN f : s <= m
  BY DEF Packed
<1>2. Max(DOMAIN f) = m /\ m \in Nat
  BY <1>1, MaxIs DEF Packed
<1>3. Length(f[m]) \in Nat \ {0} /\ tell(f) = m + Length(f[m])
  BY <1>1, <1>2 DEF Packed, tell
<1>4. ASSUME NEW s \in DOMAIN f PROVE s < tell(f) /\ s + Length(f[s]) <= tell(f)
  <2>1. s \in Nat /\ s <= m /\ Length(f[s]) \in Nat
    BY <1>1 DEF Packed
  <2>2. CASE s = m
    BY <1>2, <1>3, <2>2
  <2>3. CASE s # m
    <3>1. s + Length(f[s]) <= m
      BY <1>1, <1>2, <2>1, <2>3 DEF Packed
    <3>. QED  BY <1>2, <1>3, <2>1, <3>1
  <2>. QED  BY <2>2, <2>3
<1>. QED  BY <1>1, <1>2, <1>3, <1>4

\* An object written behind the others leaves a packed file with that object last.
LEMMA Extended ==
  ASSUME NEW f, Packed(f), NEW o, Length(o) \in Nat \ {0}, NEW g,
         DOMAIN g = DOMAIN f \cup {tell(f)}, g[tell(f)] = o,
         \A s \in DOMAIN f : s # tell(f) => g[s] = f[s]
  PROVE  /\ Packed(g) /\ Max(DOMAIN g) = tell(f)
         /\ \A s \in DOMAIN f : g[s] = f[s]
<1> DEFINE e == tell(f)
<1>1. e \in Nat /\ \A s \in DOMAIN f : s < e /\ s + Length(f[s]) <= e /\ s \in Nat
  BY LastOf DEF Packed
<1>2. DOMAIN g = DOMAIN f \cup {e} /\ g[e] = o
  OBVIOUS
<1>3. e \notin DOMAIN f
  BY <1>1
<1>4. \A s \in DOMAIN f : g[s] = f[s]
  BY <1>3
<1> HIDE DEF e
<1>5. \A s \in DOMAIN g : s <= e /\ s \in Nat
  BY <1>1, <1>2
<1>6. Max(DOMAIN g) = e
  BY <1>2, <1>5, MaxIs
<1>7. \A s \in DOMAIN g : Length(g[s]) \in Nat \ {0}
  BY <1>2, <1>4 DEF Packed
<1>8. ASSUME NEW s \in DOMAIN g, NEW t \in DOMAIN g, s < t PROVE s + Length(g[s]) <= t
  <2>1. s \in DOMAIN f
    BY <1>1, <1>2, <1>5, <1>8
  <2>2. CASE t = e
    BY <1>1, <1>4, <2>1, <2>2
  <2>3. CASE t \in DOMAIN f
    BY <1>4, <1>8, <2>1, <2>3 DEF Packed
  <2>. QED  BY <1>2, <2>2, <2>3
<1>9. Packed(g)
  BY <1>2, <1>5, <1>7, <1>8 DEF Packed
<1>. QED  BY <1>2, <1>3, <1>4, <1>6, <1>9 DEF e

\* An object that is replaced by one as long.
LEMMA Replaced ==
  ASSUME NEW f, Packed(f), NEW p \in DOMAIN f, NEW o, Length(o) = Length(f[p])
  PROVE  /\ Packed([f EXCEPT ![p] = o]) /\ tell([f EXCEPT ![p] = o]) = tell(f)
         /\ DOMAIN [f EXCEPT ![p] = o] = DOMAIN f
<1> DEFINE g == [f EXCEPT ![p] = o]
<1>1. DOMAIN g = DOMAIN f
  OBVIOUS
<1>2. \A s \in DOMAIN f : Length(g[s]) = Length(f[s])
  <2> TAKE s \in DOMAIN f
  <2>1. CASE s = p
    <3>1. g[s] = o
      BY <2>1
    <3>. QED  BY <2>1, <3>1
  <2>2. CASE s # p
    <3>1. g[s] = f[s]
      BY <2>2
    <3>. QED  BY <3>1
  <2>. QED  BY <2>1, <2>2
<1> HIDE DEF g
<1>3. Packed(g)
  BY <1>1, <1>2 DEF Packed
<1>4. Max(DOMAIN f) \in DOMAIN f
  BY LastOf
<1>5. tell(g) = tell(f)
  BY <1>1, <1>2, <1>4 DEF tell
<1>. QED  BY <1>1, <1>3, <1>5 DEF g

\* The first three objects of a dynamic disk.
LEMMA HeadPacked ==
  ASSUME NEW f, DOMAIN f = {0, 1, 3}, batSectors \in Nat \ {0},
         Length(f[0]) = 1, Length(f[1]) = 2, Length(f[3]) = batSectors
  PROVE  Packed(f)
<1>1. ASSUME NEW s \in {0, 1, 3}
      PROVE  Length(f[s]) \in Nat \ {0}
  <2>1. CASE s = 0  BY <2>1
  <2>2. CASE s = 1  BY <2>2
  <2>3. CASE s = 3  BY <2>3
  <2>. QED  BY <2>1, <2>2, <2>3
<1>2. ASSUME NEW s \in {0, 1, 3}, NEW t \in {0, 1, 3}, s < t
      PROVE  s + Length(f[s]) <= t
  <2>1. CASE s = 0  BY <1>2, <2>1
  <2>2. CASE s = 1  BY <1>2, <2>2
  <2>3. CASE s = 3  BY <1>2, <2>3
  <2>. QED  BY <2>1, <2>2, <2>3
<1>3. {0, 1, 3} \subseteq Nat /\ 3 \in {0, 1, 3} /\ \A s \in {0, 1, 3} : s <= 3
  OBVIOUS
<1>. QED  BY <1>1, <1>2, <1>3 DEF Packed

LEMMA Lengths ==
  /\ \A type : Length(Footer(type)) = 1
  /\ \A parent, locators : Length(Header(parent, locators)) = 2
  /\ \A entries : Length(Bat(entries)) = batSectors
  /\ \A len, nonzero : Length(DataBlock(len, nonzero)) = 1 + len
  /\ Length([kind |-> "raw"]) = imageSectors /\ Length([kind |-> "locator"]) = 1
BY DEF Length, Footer, Header, Bat, DataBlock

-----------------------------------------------------------------------------
(* The invariant.                                                          *)

Blocks == [len : Nat \ {0}, nonzero : SUBSET Nat]

\* Every block read so far is where the table says, or has no entry and no data; the
\* blocks to come have no entry.
Held ==
  /\ raw \in Seq(Blocks) /\ Len(raw) \in 0 .. numBatEntries
  /\ bat \in [1 .. numBatEntries -> Int]
  /\ \A k \in 1 .. numBatEntries : k > Len(raw) => bat[k] = Unused
  /\ \A k \in 1 .. Len(raw) :
       \/ bat[k] = Unused /\ raw[k].nonzero = {}
       \/ bat[k] \in DOMAIN vhd /\ vhd[bat[k]] = DataBlock(raw[k].len, raw[k].nonzero)

\* A dynamic disk as long as it is written, and when it is complete.
Dynamic ==
  /\ Packed(vhd)
  /\ {0, 1, 3} \subseteq DOMAIN vhd
  /\ vhd[0] = Footer("dynamic") /\ vhd[1] = Header("", <<>>)
  /\ \E entries : vhd[3] = Bat(entries)
  /\ Held
Complete ==
  /\ vhd[3] = Bat(bat) /\ Len(raw) = numBatEntries
  /\ vhd[Max(DOMAIN vhd)] = Footer("dynamic")

\* The other two kinds of files.
FlatFile ==
  [s \in {0, imageSectors} |-> IF s = 0 THEN [kind |-> "raw"] ELSE Footer("fixed")]
DifferenceFile ==
  [s \in {0, 1, 3} \cup (3 + batSectors) .. (3 + batSectors) + 2 |->
     CASE s \in {0, (3 + batSectors) + 2} -> Footer("difference")
       [] s = 1 -> Header("base", <<3 + batSectors, (3 + batSectors) + 1>>)
       [] s = 3 -> Bat([k \in 1 .. numBatEntries |-> Unused])
       [] s \in {3 + batSectors, (3 + batSectors) + 1} -> [kind |-> "locator"]]

Control ==
  /\ vhdDiskType \in {"fixed", "difference", "dynamic"}
  /\ vpc \in {"raw", "flat", "head", "blocks", "link", "done", "failed"}
  /\ vpc # "raw" => layout = "done"
  /\ vpc = "flat" => vhdDiskType = "fixed"
  /\ vpc \in {"head", "blocks"} => vhdDiskType # "fixed"
  /\ vpc = "link" => vhdDiskType = "difference"

VhdInv ==
  /\ LayoutInv /\ Control
  /\ vpc = "failed" => Cylinders(totalSize) > MaxCylinders
  /\ vpc \in {"raw", "flat", "head"} => raw = <<>>
  /\ vpc \in {"blocks", "link", "done"} /\ vhdDiskType # "fixed" => Dynamic
  /\ vpc \in {"link", "done"} /\ vhdDiskType # "fixed" => Complete
  /\ vpc = "done" /\ vhdDiskType = "fixed" => vhd = FlatFile
  /\ vpc = "done" /\ vhdDiskType = "difference" => diff = DifferenceFile

\* What the layout decides does not change while a VHD is written.
LEMMA Frame ==
  ASSUME LayoutInv, UNCHANGED layoutVars
  PROVE  /\ LayoutInv'
         /\ totalSize' = totalSize /\ imageSectors' = imageSectors
         /\ numBatEntries' = numBatEntries /\ batSectors' = batSectors
         /\ Footer("dynamic")' = Footer("dynamic") /\ Header("", <<>>)' = Header("", <<>>)
         /\ FlatFile' = FlatFile /\ DifferenceFile' = DifferenceFile
<1>1. LayoutInv'
  BY LayoutStep
<1>2. totalSize' = totalSize
  BY DEF layoutVars, totalSize, rootEnd
<1>3. imageSectors' = imageSectors
  BY <1>2 DEF imageSectors
<1>4. numBatEntries' = numBatEntries
  BY <1>3 DEF numBatEntries
<1>5. batSectors' = batSectors
  BY <1>4 DEF batSectors
<1>6. Footer("dynamic")' = Footer("dynamic") /\ Header("", <<>>)' = Header("", <<>>)
  BY <1>2, <1>4 DEF Footer, Header, Cylinders
<1>7. FlatFile' = FlatFile
  BY <1>2, <1>3 DEF FlatFile, Footer, Cylinders
<1>8. DifferenceFile' = DifferenceFile
  BY <1>2, <1>4, <1>5 DEF DifferenceFile, Footer, Header, Cylinders
<1>. QED  BY <1>1, <1>2, <1>3, <1>4, <1>5, <1>6, <1>7, <1>8

LEMMA PackedNext ==
  ASSUME Packed(vhd'), batSectors' = batSectors, imageSectors' = imageSectors
  PROVE  Packed(vhd)'
BY DEF Packed, Length

LEMMA DynamicSame ==
  ASSUME LayoutInv, Dynamic, UNCHANGED layoutVars, UNCHANGED <<vhd, raw, bat>>
  PROVE  Dynamic' /\ (Complete => Complete')
<1>1. Packed(vhd)'
  BY Frame, PackedNext DEF Dynamic
<1>2. Held'
  BY Frame DEF Held, Dynamic
<1>. QED  BY <1>1, <1>2, Frame DEF Dynamic, Complete

LEMMA InitVhdInv == InitVhd => VhdInv
BY LayoutBegins DEF InitVhd, VhdInv, Control

LEMMA LayoutKeeps ==
  ASSUME VhdInv, NextLayout, layout # "done", UNCHANGED vhdVars
  PROVE  VhdInv'
<1>1. vpc = "raw" /\ vpc' = "raw" /\ raw' = raw /\ vhdDiskType' = vhdDiskType
  BY DEF VhdInv, Control, vhdVars
<1>2. LayoutInv'
  BY LayoutStep DEF VhdInv
<1>. QED  BY <1>1, <1>2 DEF VhdInv, Control

LEMMA BeginKeeps == VhdInv /\ Begin => VhdInv'
<1> SUFFICES ASSUME VhdInv, Begin PROVE VhdInv'
  OBVIOUS
<1>1. /\ layout' = layout /\ layout = "done"
      /\ raw' = raw /\ vhdDiskType' = vhdDiskType /\ raw = <<>>
      /\ UNCHANGED layoutVars
  BY DEF Begin, VhdInv, layoutVars
<1>2. LayoutInv' /\ totalSize' = totalSize
  BY <1>1, Frame DEF VhdInv
<1>3. \/ vpc' = "failed" /\ Cylinders(totalSize) > MaxCylinders
      \/ vpc' = "flat" /\ vhdDiskType = "fixed"
      \/ vpc' = "head" /\ vhdDiskType # "fixed"
  BY DEF Begin
<1>4. Cylinders(totalSize)' = Cylinders(totalSize)
  BY <1>2 DEF Cylinders
<1>. QED  BY <1>1, <1>2, <1>3, <1>4 DEF VhdInv, Control

LEMMA FlatKeeps == VhdInv /\ makeFlat => VhdInv'
<1> SUFFICES ASSUME VhdInv, makeFlat PROVE VhdInv'
  OBVIOUS
<1>1. /\ layout' = layout /\ vpc = "flat" /\ vpc' = "done" /\ vhdDiskType' = vhdDiskType
      /\ UNCHANGED layoutVars /\ vhd' = FlatFile
  BY DEF makeFlat, FlatFile, layoutVars
<1>2. LayoutInv' /\ FlatFile' = FlatFile
  BY <1>1, Frame DEF VhdInv
<1>. QED  BY <1>1, <1>2 DEF VhdInv, Control

LEMMA HeadKeeps == VhdInv /\ WriteHead => VhdInv'
<1> SUFFICES ASSUME VhdInv, WriteHead PROVE VhdInv'
  OBVIOUS
<1>1. /\ layout' = layout /\ vpc = "head" /\ vpc' = "blocks" /\ vhdDiskType' = vhdDiskType
      /\ raw' = raw /\ UNCHANGED layoutVars
  BY DEF WriteHead, layoutVars
<1>r. raw = <<>>
  BY <1>1 DEF VhdInv
<1>b. bat' = [k \in 1 .. numBatEntries |-> Unused]
  BY DEF WriteHead
<1>v. /\ DOMAIN vhd' = {0, 1, 3} /\ vhd'[0] = Footer("dynamic")
      /\ vhd'[1] = Header("", <<>>) /\ vhd'[3] = Bat(bat')
  <2> DEFINE x == Footer("dynamic")
             y == Header("", <<>>)
             z == Bat(bat')
  <2>1. vhd' = [s \in {0, 1, 3} |-> CASE s = 0 -> x [] s = 1 -> y [] s = 3 -> z]
    BY DEF WriteHead
  <2> HIDE DEF x, y, z
  <2>2. DOMAIN vhd' = {0, 1, 3} /\ vhd'[0] = x /\ vhd'[1] = y /\ vhd'[3] = z
    BY <2>1
  <2>. QED  BY <2>2 DEF x, y, z
<1>2. Measured /\ LayoutInv
  BY LaidOut DEF VhdInv
<1>3. Packed(vhd')
  <2>1. /\ Length(vhd'[0]) = 1 /\ Length(vhd'[1]) = 2 /\ Length(vhd'[3]) = batSectors
        /\ batSectors \in Nat \ {0}
    BY <1>v, <1>2, Lengths DEF Measured
  <2>. QED  BY <1>v, <2>1, HeadPacked
<1>4. Packed(vhd)'
  BY <1>1, <1>2, <1>3, Frame, PackedNext
<1>5. Held'
  <2>1. raw \in Seq(Blocks) /\ Len(raw) = 0
    BY <1>r, EmptySeq
  <2>2. numBatEntries' = numBatEntries /\ numBatEntries \in Nat
    BY <1>1, <1>2, Frame DEF Measured
  <2>3. bat' \in [1 .. numBatEntries -> Int]
    BY <1>b DEF Unused
  <2>4. \A k \in 1 .. numBatEntries : bat'[k] = Unused
    BY <1>b
  <2>. QED  BY <1>1, <2>1, <2>2, <2>3, <2>4 DEF Held
<1>6. Dynamic'
  BY <1>1, <1>v, <1>2, <1>4, <1>5, Frame DEF Dynamic, Bat
<1>7. LayoutInv'
  BY <1>1, <1>2, Frame
<1>. QED  BY <1>1, <1>6, <1>7 DEF VhdInv, Control

LEMMA BlockKeeps == VhdInv /\ WriteBlock => VhdInv'
<1> SUFFICES ASSUME VhdInv, WriteBlock PROVE VhdInv'
  OBVIOUS
<1> DEFINE n == Len(raw)
           len == IF imageSectors - n * sectorsPerBlock < sectorsPerBlock
                  THEN imageSectors - n * sectorsPerBlock ELSE sectorsPerBlock
<1>1. /\ layout' = layout /\ vpc = "blocks" /\ vpc' = "blocks" /\ vhdDiskType' = vhdDiskType
      /\ len > 0 /\ UNCHANGED layoutVars
  BY DEF WriteBlock, layoutVars
<1>2. PICK nonzero \in SUBSET {0, len - 1} :
        /\ raw' = Append(raw, [len |-> len, nonzero |-> nonzero])
        /\ IF isEmpty(DataBlock(len, nonzero)) THEN UNCHANGED <<vhd, bat>>
           ELSE /\ bat' = [bat EXCEPT ![n + 1] = tell(vhd)]
                /\ vhd' = Written(vhd, DataBlock(len, nonzero))
  BY DEF WriteBlock, Place
<1>3. Dynamic /\ Held /\ Measured /\ LayoutInv
  BY <1>1, LaidOut DEF VhdInv, Control, Dynamic
<1>4. n \in Nat /\ raw \in Seq(Blocks) /\ numBatEntries \in Nat \ {0} /\ imageSectors \in Nat
  BY <1>3 DEF Held, Measured
<1>5. sectorsPerBlock \in Nat \ {0} /\ n * sectorsPerBlock \in Nat
  BY <1>4, VhdConstants
<1>6. len \in Nat \ {0} /\ n * sectorsPerBlock < imageSectors
  BY <1>1, <1>4, <1>5
<1>7. n + 1 \in 1 .. numBatEntries
  BY <1>3, <1>4, <1>6 DEF Measured
<1>8. nonzero \in SUBSET Nat
  BY <1>6
<1> DEFINE o == DataBlock(len, nonzero)
           b == [len |-> len, nonzero |-> nonzero]
<1> HIDE DEF len
<1>9. b \in Blocks /\ b.len = len /\ b.nonzero = nonzero
  BY <1>6, <1>8 DEF Blocks
<1>10. o.data = nonzero /\ Length(o) \in Nat \ {0}
  <2>1. Length(o) = 1 + len
    BY Lengths
  <2>. QED  BY <1>6, <2>1 DEF DataBlock
<1> HIDE DEF b
<1>11. /\ raw' \in Seq(Blocks) /\ Len(raw') = n + 1
       /\ \A k \in 1 .. n : raw'[k] = raw[k] /\ raw'[n + 1] = b
       /\ raw'[n + 1] = b
  <2>1. raw' = Append(raw, b)
    BY <1>2 DEF b
  <2>. QED  BY <1>4, <1>9, <2>1, AppendProperties
<1>12. numBatEntries' = numBatEntries /\ LayoutInv'
  BY <1>1, <1>3, Frame
<1>13. CASE isEmpty(o)
  <2>1. vhd' = vhd /\ bat' = bat /\ nonzero = {}
    BY <1>2, <1>10, <1>13 DEF isEmpty
  <2>2. Packed(vhd)'
    BY <1>1, <1>3, <2>1, Frame, PackedNext DEF Dynamic
  <2>3. bat[n + 1] = Unused
    BY <1>3, <1>4, <1>7 DEF Held
  <2>4. Held'
    <3>1. \A k \in 1 .. numBatEntries : k > Len(raw') => bat'[k] = Unused
      BY <1>3, <1>4, <1>11, <2>1 DEF Held
    <3>2. ASSUME NEW k \in 1 .. Len(raw')
          PROVE  \/ bat'[k] = Unused /\ raw'[k].nonzero = {}
                 \/ /\ bat'[k] \in DOMAIN vhd'
                    /\ vhd'[bat'[k]] = DataBlock(raw'[k].len, raw'[k].nonzero)
      <4>1. CASE k \in 1 .. n
        BY <1>3, <1>11, <2>1, <4>1 DEF Held
      <4>2. CASE k = n + 1
        BY <1>9, <1>11, <2>1, <2>3, <4>2
      <4>. QED  BY <1>4, <1>11, <4>1, <4>2
    <3>3. Len(raw') \in 0 .. numBatEntries /\ bat' \in [1 .. numBatEntries -> Int]
      BY <1>3, <1>4, <1>7, <1>11, <2>1 DEF Held
    <3>. QED  BY <1>11, <1>12, <3>1, <3>2, <3>3 DEF Held, DataBlock
  <2>5. Dynamic'
    BY <1>1, <1>3, <2>1, <2>2, <2>4, Frame DEF Dynamic, Bat
  <2>. QED  BY <1>1, <1>12, <2>5 DEF VhdInv, Control
<1>14. CASE ~ isEmpty(o)
  <2>1. bat' = [bat EXCEPT ![n + 1] = tell(vhd)] /\ vhd' = Written(vhd, o)
    BY <1>2, <1>14
  <2>2. /\ Packed(vhd') /\ DOMAIN vhd' = DOMAIN vhd \cup {tell(vhd)}
        /\ vhd'[tell(vhd)] = o /\ \A s \in DOMAIN vhd : vhd'[s] = vhd[s]
    <3>1. Packed(vhd)
      BY <1>3 DEF Dynamic
    <3> HIDE DEF o
    <3>2. /\ DOMAIN vhd' = DOMAIN vhd \cup {tell(vhd)} /\ vhd'[tell(vhd)] = o
          /\ \A s \in DOMAIN vhd : s # tell(vhd) => vhd'[s] = vhd[s]
      BY <2>1 DEF Written
    <3>. QED  BY <1>10, <3>1, <3>2, Extended
  <2>3. tell(vhd) \in Nat
    BY <1>3, LastOf DEF Dynamic
  <2> HIDE DEF o
  <2>4. Packed(vhd)'
    BY <1>1, <1>3, <2>2, Frame, PackedNext
  <2>5. /\ bat' \in [1 .. numBatEntries -> Int] /\ bat'[n + 1] = tell(vhd)
        /\ \A k \in 1 .. numBatEntries : k # n + 1 => bat'[k] = bat[k]
    BY <1>3, <1>7, <2>1, <2>3 DEF Held
  <2>6. Held'
    <3>1. \A k \in 1 .. numBatEntries : k > Len(raw') => bat'[k] = Unused
      <4> TAKE k \in 1 .. numBatEntries
      <4> HAVE k > Len(raw')
      <4>1. k > n /\ k # n + 1
        BY <1>4, <1>11
      <4>. QED  BY <1>3, <2>5, <4>1 DEF Held
    <3>2. ASSUME NEW k \in 1 .. Len(raw')
          PROVE  \/ bat'[k] = Unused /\ raw'[k].nonzero = {}
                 \/ /\ bat'[k] \in DOMAIN vhd'
                    /\ vhd'[bat'[k]] = DataBlock(raw'[k].len, raw'[k].nonzero)
      <4>1. CASE k \in 1 .. n
        <5>1. k \in 1 .. numBatEntries /\ k # n + 1
          BY <1>4, <1>7, <4>1
        <5>2. bat'[k] = bat[k] /\ raw'[k] = raw[k]
          BY <1>11, <2>5, <4>1, <5>1
        <5>3. \/ bat[k] = Unused /\ raw[k].nonzero = {}
              \/ bat[k] \in DOMAIN vhd /\ vhd[bat[k]] = DataBlock(raw[k].len, raw[k].nonzero)
          BY <1>3, <4>1 DEF Held
        <5>. QED  BY <2>2, <5>2, <5>3
      <4>2. CASE k = n + 1
        BY <1>9, <1>11, <2>2, <2>5, <4>2 DEF o
      <4>. QED  BY <1>4, <1>11, <4>1, <4>2
    <3>3. Len(raw') \in 0 .. numBatEntries
      BY <1>4, <1>7, <1>11
    <3>. QED  BY <1>11, <1>12, <2>5, <3>1, <3>2, <3>3 DEF Held, DataBlock
  <2>7. Dynamic'
    <3>1. /\ {0, 1, 3} \subseteq DOMAIN vhd' /\ vhd'[0] = vhd[0] /\ vhd'[1] = vhd[1]
          /\ vhd'[3] = vhd[3]
      BY <1>3, <2>2 DEF Dynamic
    <3>. QED  BY <1>1, <1>3, <2>4, <2>6, <3>1, Frame DEF Dynamic, Bat
  <2>. QED  BY <1>1, <1>12, <2>7 DEF VhdInv, Control
<1>. QED  BY <1>13, <1>14

LEMMA CloseKeeps == VhdInv /\ Close => VhdInv'
<1> SUFFICES ASSUME VhdInv, Close PROVE VhdInv'
  OBVIOUS
<1> DEFINE f == [vhd EXCEPT ![3] = Bat(bat)]
           o == Footer("dynamic")
<1>1. /\ layout' = layout /\ vpc = "blocks" /\ vhdDiskType' = vhdDiskType /\ UNCHANGED layoutVars
      /\ vpc' = IF vhdDiskType = "difference" THEN "link" ELSE "done"
      /\ raw' = raw /\ bat' = bat /\ vhd' = Written(f, o)
      /\ Len(raw) * sectorsPerBlock >= imageSectors
  BY DEF Close, layoutVars
<1>2. Dynamic /\ Held /\ Measured /\ LayoutInv /\ vhdDiskType # "fixed"
  BY <1>1, LaidOut DEF VhdInv, Control, Dynamic
<1>3. 3 \in DOMAIN vhd /\ 0 \in DOMAIN vhd /\ 1 \in DOMAIN vhd /\ Packed(vhd)
  BY <1>2 DEF Dynamic
<1>4. Length(Bat(bat)) = Length(vhd[3]) /\ vhd[3].kind = "bat"
  <2>1. PICK entries : vhd[3] = Bat(entries)
    BY <1>2 DEF Dynamic
  <2>. QED  BY <2>1, Lengths DEF Bat
<1>5. Packed(f) /\ DOMAIN f = DOMAIN vhd
  BY <1>3, <1>4, Replaced
<1>6. f[3] = Bat(bat) /\ \A s \in DOMAIN vhd : s # 3 => f[s] = vhd[s]
  BY <1>3
<1>7. Length(o) \in Nat \ {0}
  BY Lengths
<1> HIDE DEF f, o
<1>8. /\ Packed(vhd') /\ Max(DOMAIN vhd') = tell(f)
      /\ DOMAIN vhd' = DOMAIN vhd \cup {tell(f)} /\ vhd'[tell(f)] = o
      /\ \A s \in DOMAIN vhd : vhd'[s] = f[s]
  <2>1. /\ DOMAIN vhd' = DOMAIN f \cup {tell(f)} /\ vhd'[tell(f)] = o
        /\ \A s \in DOMAIN f : s # tell(f) => vhd'[s] = f[s]
    BY <1>1 DEF Written
  <2>. QED  BY <1>5, <1>7, <2>1, Extended
<1>9. Packed(vhd)'
  BY <1>1, <1>2, <1>8, Frame, PackedNext
<1>10. numBatEntries' = numBatEntries /\ LayoutInv'
  BY <1>1, <1>2, Frame
<1>11. Held'
  <2>1. ASSUME NEW k \in 1 .. Len(raw)
        PROVE  \/ bat[k] = Unused /\ raw[k].nonzero = {}
               \/ /\ bat[k] \in DOMAIN vhd'
                  /\ vhd'[bat[k]] = DataBlock(raw[k].len, raw[k].nonzero)
    <3>1. CASE bat[k] = Unused /\ raw[k].nonzero = {}
      BY <3>1
    <3>2. CASE /\ bat[k] \in DOMAIN vhd
               /\ vhd[bat[k]] = DataBlock(raw[k].len, raw[k].nonzero)
      <4>1. bat[k] # 3
        BY <1>4, <3>2 DEF DataBlock
      <4>2. vhd'[bat[k]] = vhd[bat[k]] /\ bat[k] \in DOMAIN vhd'
        BY <1>6, <1>8, <3>2, <4>1
      <4>. QED  BY <3>2, <4>2
    <3>. QED  BY <1>2, <3>1, <3>2 DEF Held
  <2>. QED  BY <1>1, <1>2, <1>10, <2>1 DEF Held, DataBlock
<1>12. vhd'[0] = vhd[0] /\ vhd'[1] = vhd[1] /\ vhd'[3] = Bat(bat)
  BY <1>3, <1>6, <1>8
<1>13. Dynamic'
  BY <1>1, <1>2, <1>3, <1>8, <1>9, <1>11, <1>12, Frame DEF Dynamic, Bat
<1>14. Len(raw) = numBatEntries
  <2>1. Len(raw) \in 0 .. numBatEntries /\ numBatEntries \in Nat
    BY <1>2 DEF Held, Measured
  <2>2. Len(raw) * sectorsPerBlock \in Nat /\ imageSectors \in Nat
    BY <1>2, <2>1, VhdConstants DEF Measured
  <2>3. ~ (Len(raw) < numBatEntries)
    BY <1>1, <1>2, <2>1, <2>2 DEF Measured
  <2>. QED  BY <2>1, <2>3
<1>15. Complete'
  BY <1>1, <1>2, <1>8, <1>10, <1>12, <1>14, Frame DEF Complete, Bat, o
<1>. QED  BY <1>1, <1>2, <1>10, <1>13, <1>15 DEF VhdInv, Control

LEMMA LinkKeeps == VhdInv /\ makeDifference => VhdInv'
<1> SUFFICES ASSUME VhdInv, makeDifference PROVE VhdInv'
  OBVIOUS
<1>1. /\ layout' = layout /\ vpc = "link" /\ vpc' = "done" /\ vhdDiskType' = vhdDiskType
      /\ UNCHANGED layoutVars /\ UNCHANGED <<vhd, raw, bat>>
  BY DEF makeDifference, layoutVars
<1>2. Dynamic /\ Complete /\ LayoutInv /\ vhdDiskType = "difference"
  BY <1>1 DEF VhdInv, Control
<1>3. [vhd[Max(DOMAIN vhd)] EXCEPT !.diskType = "difference"] = Footer("difference")
  BY <1>2 DEF Complete, Footer
<1>4. diff' = DifferenceFile
  <2> DEFINE footer == [vhd[Max(DOMAIN vhd)] EXCEPT !.diskType = "difference"]
             File(x) ==
               [s \in {0, 1, 3} \cup (3 + batSectors) .. (3 + batSectors) + 2 |->
                  CASE s \in {0, (3 + batSectors) + 2} -> x
                    [] s = 1 -> Header("base", <<3 + batSectors, (3 + batSectors) + 1>>)
                    [] s = 3 -> Bat([k \in 1 .. numBatEntries |-> Unused])
                    [] s \in {3 + batSectors, (3 + batSectors) + 1} -> [kind |-> "locator"]]
  <2>1. diff' = File(footer)
    BY DEF makeDifference
  <2>2. File(Footer("difference")) = DifferenceFile
    BY DEF DifferenceFile
  <2> HIDE DEF File
  <2>. QED  BY <1>3, <2>1, <2>2
<1>5. Dynamic' /\ Complete' /\ LayoutInv' /\ DifferenceFile' = DifferenceFile
  BY <1>1, <1>2, DynamicSame, Frame
<1>. QED  BY <1>1, <1>2, <1>4, <1>5 DEF VhdInv, Control

LEMMA StutterKeeps ==
  ASSUME VhdInv, UNCHANGED <<layoutVars, vhdVars>>
  PROVE  VhdInv'
<1>1. /\ UNCHANGED layoutVars /\ UNCHANGED <<vhdDiskType, vpc, raw, vhd, bat, diff>>
      /\ layout' = layout
  BY DEF layoutVars, vhdVars
<1>2. LayoutInv
  BY DEF VhdInv
<1>3. /\ LayoutInv' /\ totalSize' = totalSize
      /\ FlatFile' = FlatFile /\ DifferenceFile' = DifferenceFile
  BY <1>1, <1>2, Frame
<1>4. Dynamic => Dynamic' /\ (Complete => Complete')
  BY <1>1, <1>2, DynamicSame
<1>5. Cylinders(totalSize)' = Cylinders(totalSize)
  BY <1>3 DEF Cylinders
<1>. QED  BY <1>1, <1>3, <1>4, <1>5 DEF VhdInv, Control

-----------------------------------------------------------------------------
(* The theorems.                                                           *)

\* The layout is that of DiskLayout, and the files are as the steps so far wrote them.
THEOREM VhdInvariant == SpecVhd => []VhdInv
<1>1. VhdInv /\ [NextVhd]_<<layoutVars, vhdVars>> => VhdInv'
  <2> SUFFICES ASSUME VhdInv, [NextVhd]_<<layoutVars, vhdVars>> PROVE VhdInv'
    OBVIOUS
  <2>1. CASE NextLayout /\ layout # "done" /\ UNCHANGED vhdVars  BY <2>1, LayoutKeeps
  <2>2. CASE Begin  BY <2>2, BeginKeeps
  <2>3. CASE makeFlat  BY <2>3, FlatKeeps
  <2>4. CASE WriteHead  BY <2>4, HeadKeeps
  <2>5. CASE WriteBlock  BY <2>5, BlockKeeps
  <2>6. CASE Close  BY <2>6, CloseKeeps
  <2>7. CASE makeDifference  BY <2>7, LinkKeeps
  <2>8. CASE UNCHANGED <<layoutVars, vhdVars>>  BY <2>8, StutterKeeps
  <2>. QED  BY <2>1, <2>2, <2>3, <2>4, <2>5, <2>6, <2>7, <2>8 DEF NextVhd
<1>. QED  BY InitVhdInv, <1>1, PTL DEF SpecVhd

\* The cylinders of the footer.
LEMMA CylindersExact ==
  ASSUME Measured
  PROVE  /\ Cylinders(totalSize) * bytesPerCylinder = totalSize
         /\ Cylinders(totalSize) > MaxCylinders => totalSize > MaxCylinders * bytesPerCylinder
<1>1. PICK c \in Nat \ {0} : totalSize = c * bytesPerCylinder
  BY DEF Measured
<1>2. bytesPerCylinder \in Nat \ {0}
  BY Cylinder
<1>3. Cylinders(totalSize) = c
  BY <1>1, <1>2, RoundedExact DEF Cylinders
<1>4. ASSUME c > MaxCylinders PROVE c * bytesPerCylinder > MaxCylinders * bytesPerCylinder
  <2>1. (MaxCylinders + 1) * bytesPerCylinder <= c * bytesPerCylinder
    BY <1>2, <1>4, VhdConstants
  <2>. QED  BY <1>2, <2>1, VhdConstants
<1>. QED  BY <1>1, <1>3, <1>4

\* The last object of a fixed disk is its footer, behind all of the raw disk.
LEMMA FlatIs ==
  ASSUME Measured
  PROVE  /\ Max(DOMAIN FlatFile) = imageSectors /\ FlatFile[imageSectors] = Footer("fixed")
         /\ Wellformed(FlatFile)
<1> DEFINE e == imageSectors
           x == Footer("fixed")
           r == [kind |-> "raw"]
           f == FlatFile
<1>1. e \in Nat \ {0}
  BY DEF Measured
<1>2. f = [s \in {0, e} |-> IF s = 0 THEN r ELSE x]
  BY DEF FlatFile
<1>3. Length(r) = e
  BY Lengths
<1>4. x.kind = "footer" /\ x.size = totalSize /\ r.kind = "raw"
  BY DEF Footer
<1> HIDE DEF e, x, r, f
<1>5. DOMAIN f = {0, e} /\ f[0] = r /\ f[e] = x
  BY <1>1, <1>2
<1>6. Max(DOMAIN f) = e
  <2>1. {0, e} \in SUBSET Int /\ e \in {0, e} /\ \A s \in {0, e} : s <= e
    BY <1>1
  <2>. QED  BY <1>5, <2>1, MaxIs
<1>7. ASSUME NEW s \in DOMAIN f, NEW t \in DOMAIN f, s < t PROVE s + Length(f[s]) <= t
  <2>1. s = 0 /\ t = e
    BY <1>1, <1>5, <1>7
  <2>. QED  BY <1>1, <1>3, <1>5, <2>1
<1>8. Wellformed(f)
  BY <1>4, <1>5, <1>6, <1>7 DEF Wellformed, e
<1>. QED  BY <1>5, <1>6, <1>8 DEF e, x, f

LEMMA DifferenceIs ==
  ASSUME Measured
  PROVE  /\ Wellformed(DifferenceFile)
         /\ \A l \in Range(DifferenceFile[1].locators) : DifferenceFile[l].kind = "locator"
         /\ Range(DifferenceFile[3].entries) = {Unused}
<1> DEFINE e == 3 + batSectors
           x == Footer("difference")
           h == Header("base", <<e, e + 1>>)
           t0 == Bat([k \in 1 .. numBatEntries |-> Unused])
           l0 == [kind |-> "locator"]
           D == {0, 1, 3} \cup e .. e + 2
           f == DifferenceFile
<1>1. batSectors \in Nat \ {0} /\ numBatEntries \in Nat \ {0}
  BY DEF Measured
<1>2. f = [s \in D |-> CASE s \in {0, e + 2} -> x [] s = 1 -> h [] s = 3 -> t0
                         [] s \in {e, e + 1} -> l0]
  BY DEF DifferenceFile
<1>3. Length(x) = 1 /\ Length(h) = 2 /\ Length(t0) = batSectors /\ Length(l0) = 1
  BY Lengths
<1>4. x.kind = "footer" /\ x.size = totalSize /\ l0.kind = "locator"
  BY DEF Footer
<1>5. h.locators = <<e, e + 1>> /\ t0.entries = [k \in 1 .. numBatEntries |-> Unused]
  BY DEF Header, Bat
<1>6. e \in Nat /\ e = 3 + batSectors
  BY <1>1
<1> HIDE DEF e, x, h, t0, l0, f
<1>7. /\ DOMAIN f = D /\ f[0] = x /\ f[1] = h /\ f[3] = t0
      /\ f[e] = l0 /\ f[e + 1] = l0 /\ f[e + 2] = x
  BY <1>1, <1>2, <1>6
<1>8. ASSUME NEW s \in D
      PROVE  s = 0 \/ s = 1 \/ s = 3 \/ s = e \/ s = e + 1 \/ s = e + 2
  BY <1>6
<1>9. D \in SUBSET Int /\ e + 2 \in D /\ \A s \in D : s <= e + 2
  BY <1>6, <1>1
<1> HIDE DEF D
<1>10. Max(DOMAIN f) = e + 2
  BY <1>7, <1>9, MaxIs
<1>11. ASSUME NEW s \in DOMAIN f, NEW t \in DOMAIN f, s < t PROVE s + Length(f[s]) <= t
  <2>1. s \in D /\ t \in D /\ s \in Int /\ t \in Int
    BY <1>7, <1>9
  <2>2. t = 0 \/ t = 1 \/ t = 3 \/ t = e \/ t = e + 1 \/ t = e + 2
    BY <1>8, <2>1
  <2>3. CASE s = 0  BY <1>1, <1>3, <1>6, <1>7, <1>11, <2>2, <2>3
  <2>4. CASE s = 1  BY <1>1, <1>3, <1>6, <1>7, <1>11, <2>2, <2>4
  <2>5. CASE s = 3  BY <1>1, <1>3, <1>6, <1>7, <1>11, <2>2, <2>5
  <2>6. CASE s = e  BY <1>1, <1>3, <1>6, <1>7, <1>11, <2>2, <2>6
  <2>7. CASE s = e + 1  BY <1>1, <1>3, <1>6, <1>7, <1>11, <2>2, <2>7
  <2>8. CASE s = e + 2  BY <1>1, <1>6, <1>11, <2>2, <2>8
  <2>. QED  BY <1>8, <2>1, <2>3, <2>4, <2>5, <2>6, <2>7, <2>8
<1>12. Wellformed(f)
  BY <1>4, <1>7, <1>10, <1>11 DEF Wellformed
<1>13. ASSUME NEW l \in Range(f[1].locators) PROVE f[l].kind = "locator"
  <2>1. l = e \/ l = e + 1
    BY <1>5, <1>7 DEF Range
  <2>. QED  BY <1>4, <1>7, <2>1
<1>14. Range(f[3].entries) = {Unused}
  BY <1>1, <1>5, <1>7 DEF Range
<1>. QED  BY <1>12, <1>13, <1>14 DEF f

\* What a complete dynamic disk holds is what was read.
LEMMA DynamicIs ==
  ASSUME Measured, Dynamic, Complete
  PROVE  /\ Wellformed(vhd)
         /\ Len(raw) = Len(vhd[3].entries) /\ vhd[1].maxTableEntries = Len(raw)
         /\ \A k \in DOMAIN raw : \A s \in {0, raw[k].len - 1} :
              Nonzero(vhd, k, s) <=> s \in raw[k].nonzero
<1>1. Packed(vhd) /\ Held /\ vhd[0] = Footer("dynamic") /\ vhd[1] = Header("", <<>>)
  BY DEF Dynamic
<1>2. /\ vhd[3] = Bat(bat) /\ Len(raw) = numBatEntries
      /\ vhd[Max(DOMAIN vhd)] = Footer("dynamic")
  BY DEF Complete
<1>3. Wellformed(vhd)
  <2>1. Footer("dynamic").kind = "footer" /\ Footer("dynamic").size = totalSize
    BY DEF Footer
  <2>. QED  BY <1>1, <1>2, <2>1 DEF Wellformed, Packed
<1>4. vhd[3].entries = bat /\ vhd[1].maxTableEntries = numBatEntries
  <2>1. ASSUME NEW locators
        PROVE  Header("", locators).maxTableEntries = numBatEntries
    BY DEF Header
  <2>2. \A entries : Bat(entries).entries = entries
    BY DEF Bat
  <2>. QED  BY <1>1, <1>2, <2>1, <2>2
<1>5. Len(bat) = numBatEntries
  <2>1. numBatEntries \in Nat /\ bat \in [1 .. numBatEntries -> Int]
    BY <1>1 DEF Held, Measured
  <2>2. bat \in Seq(Int)
    BY <2>1, SeqDef
  <2>. QED  BY <2>1, <2>2, LenProperties
<1>6. DOMAIN raw = 1 .. Len(raw)
  BY <1>1, LenProperties DEF Held
<1>7. ASSUME NEW k \in DOMAIN raw, NEW s \in {0, raw[k].len - 1}
      PROVE  Nonzero(vhd, k, s) <=> s \in raw[k].nonzero
  <2>1. Nonzero(vhd, k, s) <=> /\ bat[k] \in DOMAIN vhd /\ vhd[bat[k]].kind = "block"
                               /\ s \in vhd[bat[k]].data
    BY <1>4 DEF Nonzero, Touched
  <2>2. CASE bat[k] = Unused /\ raw[k].nonzero = {}
    <3>1. bat[k] \notin DOMAIN vhd
      <4>1. bat[k] = -1 /\ -1 \notin Nat
        BY <2>2 DEF Unused
      <4>. QED  BY <1>1, <4>1 DEF Packed
    <3>. QED  BY <2>1, <2>2, <3>1
  <2>3. CASE bat[k] \in DOMAIN vhd /\ vhd[bat[k]] = DataBlock(raw[k].len, raw[k].nonzero)
    <3>1. vhd[bat[k]].kind = "block" /\ vhd[bat[k]].data = raw[k].nonzero
      BY <2>3 DEF DataBlock
    <3>. QED  BY <2>1, <2>3, <3>1
  <2>. QED  BY <1>1, <1>6, <2>2, <2>3 DEF Held
<1>. QED  BY <1>2, <1>3, <1>4, <1>5, <1>7

LEMMA InvGivesDisk == VhdInv => VhdIsTheDisk
<1> SUFFICES ASSUME VhdInv PROVE VhdReadsBack /\ GeometryExact
  BY DEF VhdIsTheDisk
<1>1. Measured
  BY LaidOut DEF VhdInv
<1>2. ASSUME vpc = "done", vhdDiskType = "fixed"
      PROVE  /\ Wellformed(vhd)
             /\ vhd[Max(DOMAIN vhd)].cylinders * bytesPerCylinder = totalSize
  <2>1. vhd = FlatFile
    BY <1>2 DEF VhdInv
  <2>2. vhd[Max(DOMAIN vhd)] = Footer("fixed")
    BY <1>1, <2>1, FlatIs
  <2>3. Footer("fixed").cylinders = Cylinders(totalSize)
    BY DEF Footer
  <2>. QED  BY <1>1, <2>1, <2>2, <2>3, FlatIs, CylindersExact
<1>3. ASSUME vpc = "done", vhdDiskType # "fixed"
      PROVE  /\ Wellformed(vhd)
             /\ Len(raw) = Len(vhd[3].entries) /\ vhd[1].maxTableEntries = Len(raw)
             /\ \A k \in DOMAIN raw : \A s \in {0, raw[k].len - 1} :
                  Nonzero(vhd, k, s) <=> s \in raw[k].nonzero
             /\ vhd[Max(DOMAIN vhd)].cylinders * bytesPerCylinder = totalSize
  <2>1. Dynamic /\ Complete
    BY <1>3 DEF VhdInv
  <2>2. vhd[Max(DOMAIN vhd)].cylinders = Cylinders(totalSize)
    BY <2>1 DEF Complete, Footer
  <2>. QED  BY <1>1, <2>1, <2>2, DynamicIs, CylindersExact
<1>4. ASSUME vpc = "done", vhdDiskType = "difference"
      PROVE  /\ Wellformed(diff)
             /\ \A l \in Range(diff[1].locators) : diff[l].kind = "locator"
             /\ Range(diff[3].entries) = {Unused}
  <2>1. diff = DifferenceFile
    BY <1>4 DEF VhdInv
  <2>. QED  BY <1>1, <2>1, DifferenceIs
<1>5. vpc = "failed" => totalSize > MaxCylinders * bytesPerCylinder
  BY <1>1, CylindersExact DEF VhdInv
<1>6. VhdReadsBack
  BY <1>2, <1>3, <1>4 DEF VhdReadsBack
<1>7. GeometryExact
  BY <1>2, <1>3, <1>5 DEF GeometryExact
<1>. QED  BY <1>6, <1>7

\* Writing a VHD does not move what the layout has placed: the regions of the raw disk stay
\* apart and inside of it, and the LVM container does not overflow.
THEOREM LayoutKept == SpecVhd => [](NoOverflow /\ RegionsApart)
<1>1. VhdInv => NoOverflow /\ RegionsApart
  BY InvApart DEF VhdInv, LayoutInv
<1>. QED  BY VhdInvariant, <1>1, PTL

\* A VHD that is done is well formed, holds every block of the raw disk where its table
\* says and has the geometry of the whole disk; only a disk with more cylinders than the
\* footer counts has none.
THEOREM VhdIsTheDiskHolds == SpecVhd => []VhdIsTheDisk
BY VhdInvariant, InvGivesDisk, PTL
=============================================================================
