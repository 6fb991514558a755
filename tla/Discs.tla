------------------------------- MODULE Discs -------------------------------
(***************************************************************************)
(* splitdistro.py: the change sets of a medium are shared out over discs.  *)
(* reorderChangesets plans, first fit, from the sizes the discs will have; *)
(* splitDistro then fills one disc after the other in the planned order.   *)
(* Sizes are counted in bytes, blocks are ISOBLOCKSIZE bytes long.         *)
(***************************************************************************)
EXTENDS Integers, SequencesExt, FiniteSetsExt, Ranking

CONSTANTS
  isoblocksize,
  maxisosize,   \* 0 for no limit
  Lists,        \* the lists of change sets considered: sequences of files
  Trees,        \* bytes of the files that are on disc 1 for all that
  Commons,      \* bytes of the files that preparedir lays on every disc
  InfoSize,     \* bytes of .discinfo
  ListSize      \* bytes of the cslist, on disc 1

VARIABLES
  cslist,   \* the list: [csfile, kind, size] of each line, in the order of installation
  tree,     \* files of the unified tree and of media-template/disc1
  common,   \* files of media-template/all
  plan,     \* the lines as reorderChangesets returns them, once it has
  done,     \* lines of the plan that are on a disc
  discs,    \* for each disc the files on it, as bytes
  used,     \* what splitDistro takes the current disc to hold
  outcs,    \* the cslist of disc 1: <<csfile, discnum>>
  pc        \* "layout", "plan", "split", "done"

vars == <<cslist, tree, common, plan, done, discs, used, outcs, pc>>

\* spaceused of one file: a file that ends with a block is charged one block too many.
space(size) == size + isoblocksize - (size % isoblocksize)

\* What the file fills on an ISO 9660 file system.
filled(size) == isoblocksize * ((size + isoblocksize - 1) \div isoblocksize)

Total(s) ==
  LET sum[n \in 0..Len(s)] == IF n = 0 THEN 0 ELSE sum[n - 1] + s[n]
  IN  sum[Len(s)]

spaceused(files) == Total([i \in 1..Len(files) |-> space(files[i])])
Filled(files) == Total([i \in 1..Len(files) |-> filled(files[i])])

----------------------------------------------------------------------------
(* reorderChangesets.  A line of the list is known by its number; its kind is *)
(* "info", "reserved" (the groups core and base and what is in them), "base"  *)
(* (baseTrove) or "plain".                                                    *)

Lines == 1..Len(cslist)
Size(i) == space(cslist[i].size)

\* infoTroves, reservedList, baseTroves and what is left of sizedList, which was sorted:
\* biggest first, lines of one size in reverse order of their text.
Sooner(i, j) ==
  LET turn == [info |-> 1, reserved |-> 2, base |-> 3, plain |-> 4]
      f == cslist[i]
      g == cslist[j]
  IN  \/ turn[f.kind] < turn[g.kind]
      \/ f.kind = g.kind /\ IF f.kind \in {"info", "base"} THEN i < j
                            ELSE Size(i) > Size(j) \/ (Size(i) = Size(j) /\ f.csfile > g.csfile)

Arranged == Ranked(Lines, {p \in Lines \X Lines : Sooner(p[1], p[2])})

\* reOrdList: the disc that each line is planned on, and the room left on the discs.  A
\* line goes to the first disc with room for it, or to one more.
PlanOne(reOrd, i, later) ==
  LET fits == {d \in 1..Len(reOrd.limit) : maxisosize > 0 /\ Size(i) <= reOrd.limit[d]}
      d    == IF fits = {} THEN Len(reOrd.limit) + 1 ELSE Min(fits)
  IN  [disc  |-> [reOrd.disc EXCEPT ![i] = d],
       limit |-> IF fits = {} THEN Append(reOrd.limit, maxisosize - Size(i) - later)
                 ELSE [reOrd.limit EXCEPT ![d] = @ - Size(i)]]

\* The same when the first n lines are planned.
Planned(first, later) ==
  LET reOrd[n \in 0..Len(cslist)] ==
        IF n = 0 THEN [disc |-> [i \in Lines |-> 0], limit |-> <<maxisosize - first>>]
        ELSE PlanOne(reOrd[n - 1], Arranged[n], later)
  IN  reOrd

\* csList: disc by disc, on each in the order they were planned in.
reorderChangesets(first, later) ==
  LET disc == Planned(first, later)[Len(cslist)].disc
  IN  Ranked(Lines, {p \in Lines \X Lines : \/ disc[p[1]] < disc[p[2]]
                                            \/ disc[p[1]] = disc[p[2]] /\ Sooner(p[1], p[2])})

----------------------------------------------------------------------------

Init ==
  /\ cslist \in Lists /\ tree \in Trees /\ common \in Commons
  /\ plan = <<>> /\ done = 0
  /\ discs = <<>> /\ used = 0 /\ outcs = <<>>
  /\ pc = "layout"

\* Disc 1: the unified tree without change sets, cslist and old .discinfo, a .discinfo
\* of its own and the contents of the media templates.
LayOutFirst ==
  /\ pc = "layout"
  /\ discs' = <<tree \o <<InfoSize>> \o common>>
  /\ used' = spaceused(discs'[1])
  /\ pc' = "plan"
  /\ UNCHANGED <<cslist, tree, common, plan, done, outcs>>

\* preparedir; the dummy disc is measured without the .discinfo.
preparedir == common

Plan ==
  /\ pc = "plan"
  /\ plan' = reorderChangesets(used, spaceused(preparedir))
  /\ discs' = [discs EXCEPT ![1] = @ \o <<ListSize>>]
  /\ pc' = "split"
  /\ UNCHANGED <<cslist, tree, common, done, used, outcs>>

\* mutation: a new disc starts with nothing on it
UsedOfNew(i) == Size(i)

UsedAfter(i) == spaceused(preparedir \o <<InfoSize>>) + Size(i)

\* One turn of the loop of splitDistro: the change set goes on the current disc, or on a
\* new one when that would hold too much.
Put ==
  LET i == plan[done + 1]
      full == maxisosize > 0 /\ used + Size(i) > maxisosize
      onto == IF full THEN Append(discs, preparedir \o <<InfoSize>>) ELSE discs
  IN  /\ pc = "split" /\ done < Len(plan)
      /\ discs' = [onto EXCEPT ![Len(onto)] = Append(@, cslist[i].size)]
      /\ used' = IF full THEN UsedAfter(i) ELSE used + Size(i)
      /\ outcs' = Append(outcs, <<cslist[i].csfile, Len(onto)>>)
      /\ done' = done + 1
      /\ UNCHANGED <<cslist, tree, common, plan, pc>>

Close ==
  /\ pc = "split" /\ done = Len(plan)
  /\ pc' = "done"
  /\ UNCHANGED <<cslist, tree, common, plan, done, discs, used, outcs>>

Next == LayOutFirst \/ Plan \/ Put \/ Close \/ (pc = "done" /\ UNCHANGED vars)

Spec == Init /\ [][Next]_vars

----------------------------------------------------------------------------

Disc(i) == CHOOSE d \in 1..Len(discs) : <<cslist[i].csfile, d>> \in Range(outcs)
OnDisc(d) == {i \in Lines : <<cslist[i].csfile, d>> \in Range(outcs)}
Initial(d) == IF d = 1 THEN tree \o <<InfoSize>> \o common ELSE common \o <<InfoSize>>

\* The sum over some of the lines.
SpaceOf(S) == Total([i \in Lines |-> IF i \in S THEN Size(i) ELSE 0])
FilledBy(S) == Total([i \in Lines |-> IF i \in S THEN filled(cslist[i].size) ELSE 0])

\* Every change set is listed once, with the disc it is on; and a disc is not bigger than
\* asked for, but for the cslist that is written when all was measured, or when it holds
\* no more than one change set, or none, on what every disc holds.
DiscsFit ==
  pc = "done" =>
    /\ Len(outcs) = Len(cslist)
    /\ \A i \in Lines : \E d \in 1..Len(discs) : <<cslist[i].csfile, d>> \in Range(outcs)
    /\ \A d \in 1..Len(discs) :
         /\ Filled(discs[d]) = Filled(Initial(d)) + (IF d = 1 THEN filled(ListSize) ELSE 0)
                               + FilledBy(OnDisc(d))
         /\ \/ maxisosize = 0
            \/ Filled(discs[d]) <= maxisosize + (IF d = 1 THEN space(ListSize) ELSE 0)
            \/ Cardinality(OnDisc(d)) <= (IF d = 1 THEN 0 ELSE 1)

\* The installer needs the small core first: a reserved change set is on a later disc than
\* the first only if it does not fit on disc 1 together with the infos and the reserved
\* change sets there.
CoreFirst ==
  pc = "done" /\ maxisosize > 0 =>
    \A i \in Lines :
      cslist[i].kind = "reserved" /\ Disc(i) > 1 =>
        LET core == {j \in OnDisc(1) : cslist[j].kind \in {"info", "reserved"}}
        IN  spaceused(Initial(1)) + Size(i) + SpaceOf(core) > maxisosize

\* "prepare a dummy disc ahead of time to precalc the initial size correctly": the discs
\* are filled as planned.
SplitAsPlanned ==
  pc = "done" /\ maxisosize > 0 =>
    LET disc == Planned(spaceused(Initial(1)), spaceused(preparedir))[Len(cslist)].disc
    IN  \A i, j \in Lines : disc[i] = disc[j] => Disc(i) = Disc(j)
=============================================================================
