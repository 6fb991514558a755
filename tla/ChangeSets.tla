----------------------------- MODULE ChangeSets -----------------------------
(***************************************************************************)
(* The change sets of an installable medium: trovebucket.py reads the tree *)
(* of the group that is built and selects what goes on the medium,         *)
(* gencslist.py fetches one change set for each package and group, through *)
(* a cache that outlives the build, and lists them in the order of their   *)
(* installation.  Conary (the group's change set, the dependency solver,   *)
(* the repository) is external; a build may die at any point and be run    *)
(* again on the same cache.                                                *)
(***************************************************************************)
EXTENDS Integers, SequencesExt, FiniteSets

CONSTANTS
  Top,        \* the group that is built
  Groups,     \* groups, Top among them
  Packages,
  Components,
  Members,    \* strong references of a group: packages and groups
  Comps,      \* components of a package
  Kernels,    \* components named kernel:runtime
  FileBase,   \* name, revision, release and architecture of a trove, as a value
  JobOrders,  \* orders of all troves in which the solver may list those it is given
  MaxBuilds   \* builds that may use the cache one after the other

Troves == Groups \cup Packages \cup Components

\* A component's name begins with the name of its package.
ASSUME ChangeSetsAssumption ==
  /\ Top \in Groups /\ Kernels \subseteq Components
  /\ Groups \cap Packages = {} /\ (Groups \cup Packages) \cap Components = {}
  /\ Members \in [Groups -> SUBSET (Groups \cup Packages)]
  /\ Comps \in [Packages -> SUBSET Components]
  /\ \A c \in Components : \E p \in Packages :
       c \in Comps[p] /\ \A q \in Packages \ {p} : c \notin Comps[q]
  /\ \A jobs \in JobOrders : jobs \in Seq(Troves) /\ Troves \subseteq Range(jobs)
  /\ MaxBuilds \in Nat

VARIABLES
  byDefault,  \* troves the top group includes by default
  selected,   \* troves with selected = True
  pkgorder,   \* packages and groups in the order of installation
  num,        \* how many of them extractChangeSets is through with
  cache,      \* <<trove, components>> -> the change set in the cache directory
  temp,       \* the temporary file of a download, if there is one
  csdir,      \* the change sets of the medium: file name -> change set
  cslist,     \* <<file name, trove>> for each
  builds,     \* builds started
  pc          \* "tree", "kernels", "deps", "lookup", "download", "rename", "link",
              \* "done", "failed"

vars == <<byDefault, selected, pkgorder, num, cache, temp, csdir, cslist, builds, pc>>

\* A change set is a function from the troves in it to whether each is what the
\* repository has; a download that has not come to its end is Partial.
Partial == [t \in {} |-> FALSE]
Full(S) == [t \in S |-> TRUE]

----------------------------------------------------------------------------
(* trovebucket.py                                                          *)

ParentsOf(t) ==
  {g \in Groups : t \in Members[g]} \cup {p \in Packages : t \in Comps[p]}

\* Node.select of a component: the way up, as far as nothing is selected yet.  A
\* component has no children, and the parents are selected with direction up.
Select(S, sel) ==
  LET Upward(U) == S \ sel \subseteq U /\ \A t \in U : ParentsOf(t) \ sel \subseteq U
  IN  sel \cup {t \in Troves : \A U \in SUBSET Troves : Upward(U) => t \in U}

isDefault(t) == t \in byDefault

\* Node.getChildren of a package.
getChildren(p) == {c \in Comps[p] : isDefault(c) \/ c \in selected}

ChildrenOf(t) ==
  IF t \in Groups THEN Members[t] ELSE IF t \in Packages THEN Comps[t] ELSE {}

\* Troves that _calcGroupHierarchy reaches from the top group.
tree ==
  LET Downward(S) == Top \in S /\ \A t \in S : ChildrenOf(t) \subseteq S
  IN  {t \in Troves : \A S \in SUBSET Troves : Downward(S) => t \in S}

----------------------------------------------------------------------------
(* The cache: a file's name is made of the trove and of the components     *)
(* that were asked for.                                                    *)

IsPackage(t) == t \in Packages
compNames(t) == IF IsPackage(t) THEN getChildren(t) ELSE {}
Wanted(t) == {t} \cup compNames(t)
CacheName(t) == <<t, compNames(t)>>
InCache(k) == k \in DOMAIN cache

\* mutation: components that nobody asked for are not looked for
ValidateWantedOnly(t, cs) == \A c \in Wanted(t) : c \in DOMAIN cs /\ cs[c]

\* _validateChangeSet: the trove itself is there and unchanged, and so is each component
\* that is wanted; none of the others is there.
ValidateChangeSet(t, cs) ==
  /\ t \in DOMAIN cs /\ cs[t]
  /\ IsPackage(t) =>
       \A c \in Comps[t] : IF c \in compNames(t) THEN c \in DOMAIN cs /\ cs[c]
                           ELSE c \notin DOMAIN cs

\* What earlier jobs may have left: nothing, or one file that is right, or one of
\* another version, without a component, or with one too many.
OldFiles(k) ==
  LET whole == {k[1]} \cup k[2]
  IN  {Full(whole)} \cup {[c \in whole |-> c # b] : b \in whole}
      \cup {Full(whole \ {b}) : b \in k[2]} \cup {Full(whole \cup {b}) : b \in Comps[k[1]]}

OldCaches ==
  LET keys == {k \in Packages \X SUBSET Components : k[2] \subseteq Comps[k[1]]}
  IN  {<<>>} \cup UNION {{[x \in {k} |-> f] : f \in OldFiles(k)} : k \in keys}

----------------------------------------------------------------------------

Init ==
  /\ byDefault \in {{Top} \cup S : S \in SUBSET Troves}
  /\ cache \in OldCaches
  /\ selected = {}
  /\ pkgorder = <<>>
  /\ num = 0
  /\ temp = {}
  /\ csdir = <<>>
  /\ cslist = <<>>
  /\ builds = 1
  /\ pc = "tree"

\* _calcGroupHierarchy: _getNode selects what the top group includes by default.
CalcGroupHierarchy ==
  /\ pc = "tree"
  /\ selected' = tree \cap byDefault
  /\ pc' = "kernels"
  /\ UNCHANGED <<byDefault, pkgorder, num, cache, temp, csdir, cslist, builds>>

\* selectTroveByName('kernel:runtime'): a node that is selected already is left alone.
SelectKernels ==
  /\ pc = "kernels"
  /\ selected' = Select(Kernels \cap tree, selected)
  /\ pc' = "deps"
  /\ UNCHANGED <<byDefault, pkgorder, num, cache, temp, csdir, cslist, builds>>

PkgName(t) == IF t \in Components THEN CHOOSE p \in Packages : t \in Comps[p] ELSE t

\* _checkDeps: the solver is given the troves that are selected.
IsJob(t) == t \in selected

\* _orderValidTroves: each package or group where the jobs first name it or a component.
orderValidTroves(jobs) ==
  LET trvList[n \in 0..Len(jobs)] ==
        IF n = 0 THEN <<>>
        ELSE IF ~IsJob(jobs[n]) \/ PkgName(jobs[n]) \in Range(trvList[n - 1])
        THEN trvList[n - 1]
        ELSE Append(trvList[n - 1], PkgName(jobs[n]))
  IN  trvList[Len(jobs)]

\* _verifyPackageList: all that will be on the medium is selected.
VerifyPackageList(order) ==
  \A t \in Range(order) : {t} \cup (IF IsPackage(t) THEN getChildren(t) ELSE {}) \subseteq selected

\* The assertions of parsePackageData; or the solver fails, or needs troves that were
\* not selected (suggMap).
CheckDeps ==
  /\ pc = "deps"
  /\ \/ \E jobs \in JobOrders :
          LET order == orderValidTroves(jobs)
          IN  /\ pkgorder' = order
              /\ pc' = IF ~VerifyPackageList(order) THEN "failed"
                       ELSE IF order = <<>> THEN "done" ELSE "lookup"
     \/ pc' = "failed" /\ UNCHANGED pkgorder
  /\ UNCHANGED <<byDefault, selected, num, cache, temp, csdir, cslist, builds>>

----------------------------------------------------------------------------
(* extractChangeSets and getCs.                                            *)

Trove == pkgorder[num + 1]

\* _getCsFilename: a number is added as long as the name is in the list.
CsFilename(t) ==
  LET used == {c[1] : c \in Range(cslist)}
      free == {i \in 0..Cardinality(used) : <<FileBase[t], i>> \notin used}
  IN  IF <<FileBase[t]>> \notin used THEN <<FileBase[t]>>
      ELSE <<FileBase[t], CHOOSE i \in free : \A j \in free : i <= j>>

\* A cached change set that is not valid is unlinked.
Lookup ==
  LET k == CacheName(Trove)
      hit == InCache(k) /\ ValidateChangeSet(Trove, cache[k])
  IN  /\ pc = "lookup"
      /\ cslist' = Append(cslist, <<CsFilename(Trove), Trove>>)
      /\ cache' = IF hit THEN cache ELSE [x \in DOMAIN cache \ {k} |-> cache[x]]
      /\ pc' = IF hit THEN "link" ELSE "download"
      /\ UNCHANGED <<byDefault, selected, pkgorder, num, temp, csdir, builds>>

\* mutation: the download goes where the cache will look for it
DownloadInPlace ==
  /\ temp' = {Partial}
  /\ cache' = [x \in DOMAIN cache \cup {CacheName(Trove)} |->
                 IF x = CacheName(Trove) THEN Partial ELSE cache[x]]

StartDownload == temp' = {Partial} /\ UNCHANGED cache

\* _downloadChangeSet into a temporary file, or an error of the repository.
Download ==
  /\ pc = "download"
  /\ \/ /\ temp = {}
        /\ StartDownload
        /\ UNCHANGED pc
     \/ /\ temp = {Partial}
        /\ temp' = {Full(Wanted(Trove))}
        /\ pc' = "rename"
        /\ UNCHANGED cache
     \/ pc' = "failed" /\ UNCHANGED <<temp, cache>>
  /\ UNCHANGED <<byDefault, selected, pkgorder, num, csdir, cslist, builds>>

Rename ==
  /\ pc = "rename"
  /\ cache' = [x \in DOMAIN cache \cup {CacheName(Trove)} |->
                 IF x = CacheName(Trove) THEN CHOOSE f \in temp : TRUE ELSE cache[x]]
  /\ temp' = {}
  /\ pc' = "link"
  /\ UNCHANGED <<byDefault, selected, pkgorder, num, csdir, cslist, builds>>

\* _linkOrCopyFile: what has that name already is unlinked first.
Link ==
  LET name == Last(cslist)[1]
  IN  /\ pc = "link"
      /\ csdir' = [x \in DOMAIN csdir \cup {name} |->
                     IF x = name THEN cache[CacheName(Trove)] ELSE csdir[x]]
      /\ num' = num + 1
      /\ pc' = IF num + 1 = Len(pkgorder) THEN "done" ELSE "lookup"
      /\ UNCHANGED <<byDefault, selected, pkgorder, cache, temp, cslist, builds>>

\* The build dies or has ended; the next one finds the cache as it is, and takes another
\* name for its temporary file.
NextBuild ==
  /\ builds < MaxBuilds
  /\ builds' = builds + 1
  /\ selected' = {} /\ pkgorder' = <<>> /\ num' = 0
  /\ temp' = {} /\ csdir' = <<>> /\ cslist' = <<>>
  /\ pc' = "tree"
  /\ UNCHANGED <<byDefault, cache>>

Ended == pc \in {"done", "failed"} /\ UNCHANGED vars

Build ==
  \/ CalcGroupHierarchy \/ SelectKernels \/ CheckDeps
  \/ Lookup \/ Download \/ Rename \/ Link

Next == Build \/ NextBuild \/ Ended

Spec == Init /\ [][Next]_vars

----------------------------------------------------------------------------

\* The medium of a build that ends holds what is selected and nothing else, kernels
\* included, each trove in one change set and as the repository has it, whatever the
\* cache held before, and whatever build died while filling it.
MediumIsSelection ==
  pc = "done" =>
    /\ UNION {DOMAIN csdir[f] : f \in DOMAIN csdir} = selected
    /\ Kernels \cap tree \subseteq selected
    /\ \A f \in DOMAIN csdir : \A t \in DOMAIN csdir[f] :
         csdir[f][t] /\ \A g \in DOMAIN csdir \ {f} : t \notin DOMAIN csdir[g]

\* Each entry of the cslist names a file of its own, and that file is the change set of
\* its trove, though two troves differ only in what the names leave out.
ListedOnce ==
  \A i \in 1..num :
    /\ \A j \in 1..Len(cslist) : j # i => cslist[j] # cslist[i] /\ cslist[j][1] # cslist[i][1]
    /\ cslist[i][1] \in DOMAIN csdir
    /\ cslist[i][2] \in DOMAIN csdir[cslist[i][1]]

\* What the medium holds and what its list says agree with the selection.
MediumIsListed == MediumIsSelection /\ ListedOnce

\* Whatever build died in the middle of a download, no file has a name of the cache that
\* was not written to its end: the next build could not read it, nor get rid of it.
NothingHalfCached == \A k \in DOMAIN cache : cache[k] # Partial
=============================================================================
