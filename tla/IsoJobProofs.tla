---------------------------- MODULE IsoJobProofs ----------------------------
(***************************************************************************)
(* Theorems about IsoJob: what the boot menu of a posted medium starts,    *)
(* and that what is posted is complete, for every template, every media    *)
(* template and tarball, any number of discs and every failure on the way. *)
(***************************************************************************)
EXTENDS IsoJob, TLAPS

\* The step at which setupKickstart looks for a ks.cfg, the step that builds the ISOs of the
\* discs laid out in the one before, and the step that posts.
Kick == IF kind = "installable" THEN 9 ELSE 10
Final == IF kind = "installable" THEN 20 ELSE IF kind = "update" THEN 11 ELSE 21
Isos == Final - 4

\* What setupKickstart has made of the template's isolinux.cfg by now.
Edited ==
  IF step > Kick /\ "ks.cfg" \in tree THEN addKsBootLabel(template.cfg) ELSE template.cfg

\* An isolinux.cfg the media template brought lies over the first disc's.
Overlaid == isolinux = media.cfg /\ {"old.isolinux.cfg", "new.isolinux.cfg"} \cap tree # {}

\* One step edits the isolinux.cfg, and no later step brings a ks.cfg; the media template's
\* takes its place only where the discs are laid out.
Menued ==
  /\ kind \in {"installable", "update", "appliance"}
  /\ kind # "update" =>
       /\ template.cfg \in Cfgs
       /\ step \in 1 .. Final
       /\ isolinux = Edited \/ (step >= Isos /\ Overlaid)
       /\ verdict = "posted" => step > Kick

\* Where the steps that matter are.
LEMMA Places ==
  ASSUME kind \in {"installable", "appliance"}, step \in 1 .. Final, NEW s, At(s)
  PROVE  /\ s = "kickstart" <=> step = Kick
         /\ s = "media" => step < Kick
         /\ s \in {"split", "disc1"} => step = Isos - 1
         /\ s = "post" <=> step = Final
<1>1. CASE kind = "installable"
  <2>1. s = <<"template", "unpack", "prepare", "changesets", "lists", "discinfo", "media", "keys",
              "kickstart", "stamp", "artwork", "menu", "stage2", "cramfs", "split", "isos",
              "sizes", "check", "ovf", "post">>[step]
    BY <1>1 DEF At, Steps
  <2>2. step \in 1 .. 20 /\ Kick = 9 /\ Isos = 16 /\ Final = 20
    BY <1>1 DEF Kick, Isos, Final
  <2> QED BY <2>1, <2>2
<1>2. CASE kind = "appliance"
  <2>1. s = <<"install", "tar", "chunks", "tblist", "template", "unpack", "prepare", "discinfo",
              "media", "kickstart", "stamp", "artwork", "menu", "stage2", "cramfs", "disc1",
              "isos", "sizes", "check", "ovf", "post">>[step]
    BY <1>2 DEF At, Steps
  <2>2. step \in 1 .. 21 /\ Kick = 10 /\ Isos = 17 /\ Final = 21
    BY <1>2 DEF Kick, Isos, Final
  <2> QED BY <2>1, <2>2
<1> QED BY <1>1, <1>2

LEMMA PlacesAre ==
  ASSUME kind \in {"installable", "appliance"}
  PROVE  /\ Kick \in Nat /\ Isos \in Nat /\ Final \in Nat
         /\ Kick + 1 < Isos /\ Isos < Final
BY DEF Kick, Isos, Final

\* A step that goes on or raises, and leaves the edited menu and the ks.cfg alone; where the
\* discs are laid out, another isolinux.cfg may take the place of the edited one.
Harmless(s) ==
  /\ At(s) /\ s \notin {"kickstart", "post"}
  /\ \/ step' = step /\ verdict' # "posted"
     \/ step' = step + 1 /\ verdict' = verdict
  /\ UNCHANGED <<kind, template, media>>
  /\ tree \subseteq tree' /\ ("ks.cfg" \in tree' => "ks.cfg" \in tree)
  /\ \/ isolinux' = isolinux
     \/ s \in {"split", "disc1"} /\ step' = step + 1 /\ Overlaid'

LEMMA HarmlessKeeps ==
  ASSUME Menued, NEW s, Harmless(s)
  PROVE  Menued'
<1>1. CASE kind = "update"
  BY <1>1 DEF Menued, Harmless
<1>2. CASE kind # "update"
  <2>1. kind \in {"installable", "appliance"} /\ step \in 1 .. Final
    BY <1>2 DEF Menued
  <2>2. /\ step # Kick /\ step # Final
        /\ s \in {"split", "disc1"} => step = Isos - 1
    BY <2>1, Places DEF Harmless
  <2>3. /\ Kick \in Nat /\ Isos \in Nat /\ Final \in Nat
        /\ Kick' = Kick /\ Isos' = Isos /\ Final' = Final
    BY <2>1, PlacesAre DEF Kick, Isos, Final, Harmless
  <2>4. step' \in 1 .. Final /\ (step' > Kick <=> step > Kick) /\ step' >= step
    BY <2>1, <2>2, <2>3 DEF Harmless
  <2>5. verdict' # "posted"
    BY DEF Harmless, At
  <2>6. Edited' = Edited
    <3>1. "ks.cfg" \in tree' <=> "ks.cfg" \in tree
      BY DEF Harmless
    <3>2. template' = template
      BY DEF Harmless
    <3> QED BY <2>3, <2>4, <3>1, <3>2 DEF Edited, addKsBootLabel, NewMark
  <2>7. isolinux' = Edited' \/ (step' >= Isos' /\ Overlaid')
    <3>1. CASE isolinux' = isolinux /\ isolinux = Edited
      BY <2>6, <3>1
    <3>2. CASE isolinux' = isolinux /\ step >= Isos /\ Overlaid
      BY <2>1, <2>3, <2>4, <3>2 DEF Harmless, Overlaid
    <3>3. CASE s \in {"split", "disc1"} /\ step' = step + 1 /\ Overlaid'
      BY <2>1, <2>2, <2>3, <3>3
    <3> QED BY <1>2, <3>1, <3>2, <3>3 DEF Menued, Harmless
  <2>8. kind' = kind /\ template'.cfg \in Cfgs
    BY <1>2 DEF Menued, Harmless
  <2> QED BY <2>1, <2>3, <2>4, <2>5, <2>7, <2>8 DEF Menued
<1> QED BY <1>1, <1>2

LEMMA AddsKeep ==
  ASSUME Menued, NEW s, NEW parts, Adds(s, parts),
         s \notin {"kickstart", "post"}, "ks.cfg" \notin parts
  PROVE  Menued'
<1>1. Harmless(s)
  BY DEF Adds, Harmless, Raise, Advance, At, inputs
<1> QED BY <1>1, HarmlessKeeps

LEMMA AddsOrLosesKeep ==
  ASSUME Menued, NEW s, NEW parts, NEW part, AddsOrLoses(s, parts, part),
         s \notin {"kickstart", "post"}, "ks.cfg" \notin parts, part # "ks.cfg"
  PROVE  Menued'
<1>1. Harmless(s)
  BY DEF AddsOrLoses, Harmless, Raise, Advance, At, inputs
<1> QED BY <1>1, HarmlessKeeps

\* What the media template lays over the first disc.
LEMMA LaidIs ==
  ASSUME NEW cpFails \in BOOLEAN, NEW cfg \in Laid(cpFails)
  PROVE  \/ cfg = isolinux
         \/ cfg = media.cfg /\ {"old.isolinux.cfg", "new.isolinux.cfg"} \cap tree # {}
BY DEF Laid

LEMMA MenuedStep == Menued /\ [Next]_vars => Menued'
<1> SUFFICES ASSUME Menued, [Next]_vars PROVE Menued'
  OBVIOUS
<1>1. CASE Install
  <2>1. Harmless("install")
    BY <1>1 DEF Install, Harmless, At, Raise, Advance, inputs, outputs
  <2> QED BY <2>1, HarmlessKeeps
<1>2. CASE Tar
  BY <1>2, AddsOrLosesKeep DEF Tar
<1>3. CASE SplitFile
  <2>1. Harmless("chunks")
    BY <1>3 DEF SplitFile, Harmless, At, Raise, Advance, inputs, outputs
  <2> QED BY <2>1, HarmlessKeeps
<1>4. CASE RequestTemplate
  <2>1. Harmless("template")
    BY <1>4 DEF RequestTemplate, Harmless, At, Raise, Advance, inputs, outputs
  <2> QED BY <2>1, HarmlessKeeps
<1>5. CASE ExtractKeys
  <2>1. Harmless("keys")
    BY <1>5 DEF ExtractKeys, Harmless, At, Raise, Advance, inputs, outputs
  <2> QED BY <2>1, HarmlessKeeps
<1>6. CASE Stage2
  <2>1. Harmless("stage2")
    BY <1>6 DEF Stage2, Harmless, At, Raise, Advance, inputs, outputs
  <2> QED BY <2>1, HarmlessKeeps
<1>7. CASE Split
  <2>1. /\ At("split") /\ UNCHANGED <<kind, template, media, tree>>
        /\ \/ step' = step /\ verdict' = "failed" /\ isolinux' = isolinux
           \/ /\ step' = step + 1 /\ verdict' = verdict
              /\ \E cpFails \in BOOLEAN : isolinux' \in Laid(cpFails)
    BY <1>7 DEF Split, Raise, Advance, inputs
  <2>2. ASSUME step' = step + 1, NEW cpFails \in BOOLEAN, isolinux' \in Laid(cpFails)
        PROVE  isolinux' = isolinux \/ Overlaid'
    BY <2>1, <2>2, LaidIs DEF Overlaid
  <2>3. Harmless("split")
    BY <2>1, <2>2 DEF Harmless, At
  <2> QED BY <2>3, HarmlessKeeps
<1>8. CASE LayDisc1
  <2>1. /\ At("disc1") /\ UNCHANGED <<kind, template, media, tree>>
        /\ \/ step' = step /\ verdict' = "failed" /\ isolinux' = isolinux
           \/ step' = step + 1 /\ verdict' = verdict /\ isolinux' \in Laid(FALSE)
    BY <1>8 DEF LayDisc1, Raise, Advance, inputs
  <2>2. ASSUME step' = step + 1, isolinux' \in Laid(FALSE)
        PROVE  isolinux' = isolinux \/ Overlaid'
    BY <2>1, <2>2, LaidIs DEF Overlaid
  <2>3. Harmless("disc1")
    BY <2>1, <2>2 DEF Harmless, At
  <2> QED BY <2>3, HarmlessKeeps
<1>9. CASE BuildIso
  <2>1. Harmless("isos")
    BY <1>9 DEF BuildIso, Harmless, At, Raise, Advance, inputs, outputs
  <2> QED BY <2>1, HarmlessKeeps
<1>10. CASE IsosBuilt
  <2>1. Harmless("isos")
    BY <1>10 DEF IsosBuilt, Harmless, At, Raise, Advance, inputs, outputs
  <2> QED BY <2>1, HarmlessKeeps
<1>11. CASE Identify
  <2>1. Harmless("sizes")
    BY <1>11 DEF Identify, Harmless, At, Raise, Advance, inputs, outputs
  <2> QED BY <2>1, HarmlessKeeps
<1>12. CASE Check
  <2>1. Harmless("check")
    BY <1>12 DEF Check, Harmless, At, Raise, Advance, inputs, outputs
  <2> QED BY <2>1, HarmlessKeeps
<1>13. CASE Ovf
  <2>1. Harmless("ovf")
    BY <1>13 DEF Ovf, Harmless, At, Raise, Advance, inputs, outputs
  <2> QED BY <2>1, HarmlessKeeps
<1>14. CASE WriteTbList
  BY <1>14, AddsKeep DEF WriteTbList
<1>15. CASE Unpack
  BY <1>15, AddsKeep DEF Unpack
<1>16. CASE Prepare
  BY <1>16, AddsOrLosesKeep DEF Prepare
<1>17. CASE ExtractChangeSets
  BY <1>17, AddsKeep DEF ExtractChangeSets
<1>18. CASE WriteLists
  BY <1>18, AddsKeep DEF WriteLists
<1>19. CASE WriteDiscInfo
  BY <1>19, AddsKeep DEF WriteDiscInfo
<1>20. CASE BuildStamp
  BY <1>20, AddsKeep DEF BuildStamp
<1>21. CASE Artwork
  BY <1>21, AddsOrLosesKeep DEF Artwork
<1>22. CASE Menu
  BY <1>22, AddsKeep DEF Menu
<1>23. CASE Cramfs
  BY <1>23, AddsKeep DEF Cramfs
<1>24. CASE ExtractMedia
  <2>1. CASE kind = "update"
    BY <1>24, <2>1 DEF ExtractMedia, Menued, inputs
  <2>2. CASE kind # "update"
    <3>1. kind \in {"installable", "appliance"} /\ step \in 1 .. Final /\ At("media")
      BY <1>24, <2>2 DEF ExtractMedia, Menued
    <3>2. step < Kick /\ step # Final
      BY <3>1, Places
    <3>3. /\ Kick \in Nat /\ Isos \in Nat /\ Final \in Nat /\ Kick < Isos
          /\ Kick' = Kick /\ Final' = Final
      BY <1>24, <3>1, PlacesAre DEF ExtractMedia, Kick, Final, inputs
    <3>4. \/ step' = step /\ verdict' = "failed"
          \/ step' = step + 1 /\ verdict' = verdict
      BY <1>24 DEF ExtractMedia, Raise, Advance
    <3>5. step' \in 1 .. Final /\ ~(step' > Kick) /\ verdict' # "posted"
      BY <3>1, <3>2, <3>3, <3>4 DEF At
    <3>6. UNCHANGED <<kind, template, isolinux>>
      BY <1>24 DEF ExtractMedia, inputs
    <3>7. ~(step > Kick) /\ ~(step >= Isos)
      BY <3>1, <3>2, <3>3
    <3>8. isolinux = template.cfg
      BY <2>2, <3>7 DEF Menued, Edited
    <3>9. isolinux' = Edited'
      BY <3>3, <3>5, <3>6, <3>8 DEF Edited
    <3> QED BY <2>2, <3>3, <3>5, <3>6, <3>9 DEF Menued
  <2> QED BY <2>1, <2>2
<1>25. CASE SetupKickstart
  <2>1. CASE kind = "update"
    BY <1>25, <2>1 DEF SetupKickstart, Menued, inputs
  <2>2. CASE kind # "update"
    <3>1. kind \in {"installable", "appliance"} /\ step \in 1 .. Final /\ At("kickstart")
      BY <1>25, <2>2 DEF SetupKickstart, Menued
    <3>2. step = Kick /\ step # Final
      BY <3>1, Places
    <3>3. /\ Kick \in Nat /\ Isos \in Nat /\ Final \in Nat /\ Kick < Isos
          /\ Kick' = Kick /\ Final' = Final
      BY <1>25, <3>1, PlacesAre DEF SetupKickstart, Kick, Final, inputs
    <3>4. UNCHANGED <<kind, template, tree>>
      BY <1>25 DEF SetupKickstart, inputs
    <3>5. isolinux = template.cfg /\ ~(step > Kick)
      BY <2>2, <3>2, <3>3 DEF Menued, Edited
    <3>6. addKsBootLabel(template.cfg)' = addKsBootLabel(template.cfg)
      BY <3>4 DEF addKsBootLabel, NewMark
    <3>7. CASE step' = step + 1 /\ verdict' = verdict
               /\ isolinux' = IF "ks.cfg" \in tree THEN addKsBootLabel(isolinux) ELSE isolinux
      <4>1. step' \in 1 .. Final /\ step' > Kick /\ verdict' # "posted"
        BY <3>1, <3>2, <3>3, <3>7 DEF At
      <4>2. isolinux' = Edited'
        BY <3>3, <3>4, <3>5, <3>6, <3>7, <4>1 DEF Edited
      <4> QED BY <2>2, <3>3, <3>4, <4>1, <4>2 DEF Menued
    <3>8. CASE step' = step /\ verdict' = "failed" /\ isolinux' = isolinux
      <4>1. isolinux' = Edited'
        BY <3>3, <3>4, <3>5, <3>8 DEF Edited
      <4> QED BY <2>2, <3>1, <3>3, <3>4, <3>8, <4>1 DEF Menued
    <3> QED BY <1>25, <3>7, <3>8 DEF SetupKickstart, Raise, Advance
  <2> QED BY <2>1, <2>2
<1>26. CASE Post
  <2>1. CASE kind = "update"
    BY <1>26, <2>1 DEF Post, Menued, inputs
  <2>2. CASE kind # "update"
    <3>1. kind \in {"installable", "appliance"} /\ step \in 1 .. Final /\ At("post")
      BY <1>26, <2>2 DEF Post, Menued
    <3>2. step = Final
      BY <3>1, Places
    <3>3. step > Kick
      BY <3>1, <3>2, PlacesAre
    <3>4. UNCHANGED <<kind, template, media, isolinux, tree, step>>
      BY <1>26 DEF Post, Raise, inputs
    <3>5. Kick' = Kick /\ Isos' = Isos /\ Final' = Final
      BY <3>4 DEF Kick, Isos, Final
    <3>6. Edited' = Edited /\ Overlaid' = Overlaid
      BY <3>4, <3>5 DEF Edited, Overlaid, addKsBootLabel, NewMark
    <3> QED BY <2>2, <3>3, <3>4, <3>5, <3>6 DEF Menued
  <2> QED BY <2>1, <2>2
<1>27. CASE CleanUp \/ MasterAnswers \/ (Ended /\ UNCHANGED vars) \/ UNCHANGED vars
  <2>1. UNCHANGED <<kind, template, media, isolinux, tree, step, verdict>>
    BY <1>27 DEF CleanUp, MasterAnswers, vars, inputs
  <2>2. Kick' = Kick /\ Isos' = Isos /\ Final' = Final
    BY <2>1 DEF Kick, Isos, Final
  <2>3. Edited' = Edited /\ Overlaid' = Overlaid
    BY <2>1, <2>2 DEF Edited, Overlaid, addKsBootLabel, NewMark
  <2> QED BY <2>1, <2>2, <2>3 DEF Menued
<1> QED
  BY <1>1, <1>2, <1>3, <1>4, <1>5, <1>6, <1>7, <1>8, <1>9, <1>10, <1>11, <1>12, <1>13, <1>14,
     <1>15, <1>16, <1>17, <1>18, <1>19, <1>20, <1>21, <1>22, <1>23, <1>24, <1>25, <1>26, <1>27
  DEF Next, Job

LEMMA MenuedInit == Init => Menued
<1> SUFFICES ASSUME Init PROVE Menued
  OBVIOUS
<1>1. kind \in {"installable", "update", "appliance"}
  BY IsoJobAssumption DEF IsoJobAssumption, Init
<1>2. isolinux = template.cfg /\ step = 1 /\ verdict = "running"
  BY DEF Init
<1>3. ASSUME kind # "update" PROVE template.cfg \in Cfgs
  BY <1>3, IsoJobAssumption DEF IsoJobAssumption, Init
<1>4. Kick > 1 /\ Final \in Nat /\ Final > 1
  BY DEF Kick, Final
<1>5. isolinux = Edited
  BY <1>2, <1>4 DEF Edited, Kick
<1> QED BY <1>1, <1>2, <1>3, <1>4, <1>5 DEF Menued

\* What addKsBootLabel makes of a template without the label starts the kickstart.
LEMMA LabelBoots ==
  ASSUME NEW cfg \in Cfgs, isolinux = addKsBootLabel(cfg), "kscdrom" \notin cfg.labels
  PROVE  /\ Started = "kscdrom"
         /\ isolinux.default = "vesamenu.c32" => isolinux.timeout # 600
<1>1. CASE cfg.default = "vesamenu.c32"
  <2>1. /\ isolinux.default = "vesamenu.c32" /\ isolinux.marked = "kscdrom"
        /\ isolinux.timeout = IF cfg.timeout = 600 THEN 50 ELSE cfg.timeout
    BY <1>1 DEF addKsBootLabel, NewMark, Cfgs
  <2> QED BY <2>1 DEF Started
<1>2. CASE cfg.default # "vesamenu.c32"
  <2>1. isolinux.default = "kscdrom"
    BY <1>2 DEF addKsBootLabel, Cfgs
  <2> QED BY <2>1 DEF Started
<1> QED BY <1>1, <1>2

(* setupKickstart and the discs: the isolinux.cfg of an installer is the   *)
(* template's until setupKickstart, from then on what addKsBootLabel made  *)
(* of it if there is a ks.cfg; only where the discs are laid out may one   *)
(* of the media template take its place.                                   *)
THEOREM MenuedHolds == Spec => []Menued
BY MenuedInit, MenuedStep, PTL DEF Spec

(* setupKickstart: a posted medium with a ks.cfg of its own starts its     *)
(* kickstart, and its menu does not wait the minute, unless its template   *)
(* had a label of that name or its media template an isolinux.cfg.         *)
THEOREM KickstartBootsHolds == Spec => []KickstartBoots
<1>1. Menued => KickstartBoots
  <2> SUFFICES ASSUME Menued, verdict = "posted", "ks.cfg" \in tree, kind # "update"
               PROVE  \/ /\ Started = "kscdrom"
                         /\ isolinux.default = "vesamenu.c32" => isolinux.timeout # 600
                      \/ "kscdrom" \in template.cfg.labels /\ isolinux = template.cfg
                      \/ Overlaid
    BY DEF KickstartBoots, Overlaid
  <2>1. /\ template.cfg \in Cfgs
        /\ isolinux = addKsBootLabel(template.cfg) \/ Overlaid
    BY DEF Menued, Edited
  <2>2. CASE "kscdrom" \in template.cfg.labels /\ ~Overlaid
    BY <2>1, <2>2 DEF addKsBootLabel
  <2>3. CASE "kscdrom" \notin template.cfg.labels /\ ~Overlaid
    BY <2>1, <2>3, LabelBoots
  <2> QED BY <2>2, <2>3
<1> QED BY <1>1, MenuedHolds, PTL

----------------------------------------------------------------------------
(* What is posted is complete: what every step leaves, the chunks and the list of ISOs. *)

\* What a step that is over has left behind.
Held(s) ==
  /\ s = "install" => "files" \in tree
  /\ s = "tar" => "tarball" \in tree \cup unseen
  /\ s = "chunks" => tell >= tarEnd
  /\ s = "tblist" => "tblist" \in tree
  /\ s = "prepare" => "template" \in tree /\ "isolinux.bin" \in tree \cup unseen
  /\ s = "changesets" => "changesets" \in tree
  /\ s = "lists" => {"cslist", "group.ccs"} \subseteq tree
  /\ s = "discinfo" => ".discinfo" \in tree
  /\ s = "keys" => Signers \subseteq keyring \/ "gpg" \in unseen
  /\ s = "stamp" => ".buildstamp" \in tree
  /\ s = "artwork" => "pixmaps" \in tree \cup unseen
  /\ s = "menu" => "conaryrc" \in tree
  /\ s = "cramfs" => "product.img" \in tree

\* Every step before this one is over, and only the last one posts.
Made ==
  /\ kind \in {"installable", "update", "appliance"} /\ step \in 1 .. Final
  /\ \A i \in 1 .. step - 1 : Held(Steps(kind)[i])
  /\ verdict = "posted" => step = Final

\* The chunks hold what is read of the tarball; only at its end may the last one be short.
Cut ==
  /\ tarEnd \in Nat /\ tell \in Nat /\ tell <= tarEnd /\ chunks \in Seq(Nat)
  /\ tell <= Len(chunks) * chunkSize
  /\ tell < tarEnd => tell = Len(chunks) * chunkSize
  /\ \A i \in DOMAIN chunks :
       LET left == tarEnd - (i - 1) * chunkSize
       IN  left > 0 /\ chunks[i] = IF left < chunkSize THEN left ELSE chunkSize

Names == {"disc", "dvd", "boot.iso", "diskboot.img"}
Entry == [name : Names, disc : Nat]
File == [name : Names, disc : Nat, state : {"whole", "cut", "broken"}, big : BOOLEAN,
         boot : BOOLEAN]

IsDisc(entry) == entry.disc \in 1 .. discs /\ entry.name \in {"disc", "dvd"}

\* What the list of ISOs is before, while and after they are built and looked at: every disc
\* has one line at most, the first line is the first disc's, and in the end none is left out.
Listed ==
  /\ isoList \in Seq(Entry) /\ files \subseteq File /\ discs \in 0 .. MaxDiscs
  /\ step < Isos => isoList = <<>>
  /\ step >= Isos => discs > 0
  /\ step <= Isos + 2 => \A i \in DOMAIN isoList : IsDisc(isoList[i])
  /\ step <= Isos + 1 => \A i \in DOMAIN isoList : isoList[i].name = "disc"
  /\ \A i, j \in DOMAIN isoList : isoList[i].disc = isoList[j].disc =>
       i = j \/ isoList[i].disc = 0
  /\ isoList # <<>> => isoList[1].disc = 1
  /\ step > Isos => \A d \in 1 .. discs : \E i \in DOMAIN isoList :
       isoList[i].disc = d /\ isoList[i].name \in {"disc", "dvd"}
  /\ step > Isos + 1 => \A i \in DOMAIN isoList : IsoOf(isoList[i]) # {}
  /\ verdict # "failed" => \A f \in files : Sound(f)

Whole == Made /\ Cut /\ Listed

\* Where the steps that matter are, in every kind of job.
LEMMA Order ==
  ASSUME Made, NEW s, At(s)
  PROVE  /\ step \in 1 .. Final /\ Final \in Nat /\ Isos \in Nat /\ Final = Isos + 4
         /\ s = "post" <=> step = Final
         /\ s \in {"split", "disc1"} <=> step = Isos - 1
         /\ s = "isos" <=> step = Isos
         /\ s = "sizes" <=> step = Isos + 1
         /\ s = "check" <=> step = Isos + 2
<1>1. CASE kind = "installable"
  <2>1. s = <<"template", "unpack", "prepare", "changesets", "lists", "discinfo", "media", "keys",
              "kickstart", "stamp", "artwork", "menu", "stage2", "cramfs", "split", "isos",
              "sizes", "check", "ovf", "post">>[step]
    BY <1>1 DEF At, Steps
  <2>2. step \in 1 .. 20 /\ Final = 20 /\ Isos = 16
    BY <1>1 DEF Made, Final, Isos
  <2> QED BY <2>1, <2>2
<1>2. CASE kind = "update"
  <2>1. s = <<"changesets", "lists", "discinfo", "media", "keys", "split", "isos", "sizes",
              "check", "ovf", "post">>[step]
    BY <1>2 DEF At, Steps
  <2>2. step \in 1 .. 11 /\ Final = 11 /\ Isos = 7
    BY <1>2 DEF Made, Final, Isos
  <2> QED BY <2>1, <2>2
<1>3. CASE kind = "appliance"
  <2>1. s = <<"install", "tar", "chunks", "tblist", "template", "unpack", "prepare", "discinfo",
              "media", "kickstart", "stamp", "artwork", "menu", "stage2", "cramfs", "disc1",
              "isos", "sizes", "check", "ovf", "post">>[step]
    BY <1>3 DEF At, Steps
  <2>2. step \in 1 .. 21 /\ Final = 21 /\ Isos = 17
    BY <1>3 DEF Made, Final, Isos
  <2> QED BY <2>1, <2>2
<1> QED BY <1>1, <1>2, <1>3 DEF Made

\* A step that goes on, is over and leaves what it should, or raises; nothing is lost.
Moves(s) ==
  /\ At(s) /\ s # "post"
  /\ UNCHANGED <<kind, tarEnd>> /\ tree \subseteq tree' /\ unseen \subseteq unseen'
  /\ tell >= tarEnd => tell' = tell
  /\ keyring' = keyring \/ Signers \subseteq keyring' \/ "gpg" \in unseen'
  /\ \/ step' = step /\ verdict' \in {"running", "failed"}
     \/ step' = step + 1 /\ verdict' = verdict /\ Held(s)'

LEMMA HeldStays ==
  ASSUME NEW s, Moves(s), NEW r, Held(r)
  PROVE  Held(r)'
BY DEF Held, Moves

LEMMA MadeKeeps ==
  ASSUME Made, NEW s, Moves(s)
  PROVE  Made'
<1>1. At(s) /\ s # "post" /\ kind' = kind
  BY DEF Moves
<1>2. step \in 1 .. Final /\ Final \in Nat /\ step # Final
  BY <1>1, Order
<1>3. Final' = Final /\ Steps(kind)' = Steps(kind)
  BY <1>1 DEF Final, Steps
<1>4. ASSUME NEW i \in 1 .. step - 1 PROVE Held(Steps(kind)[i])'
  <2>1. ASSUME NEW r, r = Steps(kind)[i] PROVE Held(Steps(kind)[i])'
    <3>1. Held(r)
      BY <2>1 DEF Made
    <3>2. Held(r)'
      BY <3>1, HeldStays
    <3>3. r = Steps(kind)'[i]
      BY <1>3, <2>1
    <3> QED BY <3>2, <3>3 DEF Held
  <2> QED BY <2>1
<1>5. CASE step' = step /\ verdict' \in {"running", "failed"}
  BY <1>1, <1>2, <1>3, <1>4, <1>5 DEF Made
<1>6. CASE step' = step + 1 /\ verdict' = verdict /\ Held(s)'
  <2>1. s = Steps(kind)[step] /\ verdict' # "posted"
    BY <1>1, <1>6 DEF At
  <2>2. step' \in 1 .. Final' /\ \A i \in 1 .. step' - 1 : i \in 1 .. step - 1 \/ i = step
    BY <1>2, <1>3, <1>6
  <2>3. ASSUME NEW i \in 1 .. step' - 1 PROVE Held(Steps(kind)[i])'
    <3>1. CASE i \in 1 .. step - 1
      BY <1>4, <3>1
    <3>2. CASE i = step
      <4>1. s = Steps(kind)'[i]
        BY <1>3, <2>1, <3>2
      <4> QED BY <1>6, <4>1 DEF Held
    <3> QED BY <2>2, <3>1, <3>2
  <2> QED BY <1>1, <2>1, <2>2, <2>3 DEF Made
<1> QED BY <1>5, <1>6 DEF Moves

StillCut == UNCHANGED <<tarEnd, tell, chunks>>

\* A step that has nothing to do with the ISOs; the discs are laid out once.
Aside(s) ==
  /\ Moves(s) /\ s \notin {"isos", "sizes", "check"} /\ UNCHANGED <<files, isoList>>
  /\ IF s \in {"split", "disc1"} /\ step' = step + 1 THEN discs' \in 1 .. MaxDiscs
                                                     ELSE discs' = discs

LEMMA SoundStays ==
  ASSUME kind' = kind, unseen \subseteq unseen', NEW f, Sound(f)
  PROVE  Sound(f)'
BY DEF Sound

LEMMA ListedAside ==
  ASSUME Made, Listed, NEW s, Aside(s)
  PROVE  Listed'
<1>1. At(s) /\ s \notin {"isos", "sizes", "check", "post"} /\ UNCHANGED <<kind, files, isoList>>
  BY DEF Aside, Moves
<1>2. /\ step \in Nat /\ Isos \in Nat /\ step \notin {Isos, Isos + 1, Isos + 2}
      /\ s \in {"split", "disc1"} <=> step = Isos - 1
  BY <1>1, Order
<1>3. Isos' = Isos
  BY <1>1 DEF Isos, Final
<1>4. \A e : IsoOf(e)' = IsoOf(e)
  BY <1>1 DEF IsoOf
<1>5. verdict # "failed" /\ unseen \subseteq unseen' /\ (step' = step \/ step' = step + 1)
  BY <1>1 DEF At, Aside, Moves
<1>6. discs \in 0 .. MaxDiscs /\ MaxDiscs \in Nat
  BY IsoJobAssumption DEF IsoJobAssumption, Listed
<1>7. /\ discs' \in 0 .. MaxDiscs
      /\ step >= Isos => discs' = discs
      /\ step' >= Isos /\ step < Isos => discs' > 0
  BY <1>2, <1>5, <1>6 DEF Aside
<1>8. \A f \in files' : Sound(f)'
  BY <1>1, <1>5, SoundStays DEF Listed
<1>9. isoList' \in Seq(Entry) /\ files' \subseteq File
  BY <1>1 DEF Listed
<1>10. /\ \A i, j \in DOMAIN isoList' : isoList'[i].disc = isoList'[j].disc =>
            i = j \/ isoList'[i].disc = 0
       /\ isoList' # <<>> => isoList'[1].disc = 1
  BY <1>1 DEF Listed
<1>11. CASE step < Isos
  <2>1. isoList' = <<>> /\ ~(step' > Isos) /\ ~(step' > Isos + 1)
    BY <1>1, <1>2, <1>5, <1>11 DEF Listed
  <2>2. step' >= Isos => discs' > 0
    BY <1>7, <1>11
  <2>3. DOMAIN isoList' = {}
    BY <2>1
  <2> QED BY <1>3, <1>7, <1>8, <1>9, <1>10, <2>1, <2>2, <2>3 DEF Listed
<1>12. CASE step > Isos + 2
  <2>1. /\ step' > Isos + 2 /\ discs' = discs /\ discs > 0
        /\ ~(step' <= Isos + 2) /\ ~(step' <= Isos + 1) /\ ~(step' < Isos)
    BY <1>2, <1>5, <1>7, <1>12 DEF Listed
  <2>2. \A d \in 1 .. discs : \E i \in DOMAIN isoList :
          isoList[i].disc = d /\ isoList[i].name \in {"disc", "dvd"}
    <3>1. step > Isos
      BY <1>2, <1>12
    <3> QED BY <3>1 DEF Listed
  <2>3. \A i \in DOMAIN isoList' : IsoOf(isoList[i])' # {}
    BY <1>1, <1>2, <1>4, <1>12 DEF Listed
  <2> QED BY <1>1, <1>3, <1>7, <1>8, <1>9, <1>10, <2>1, <2>2, <2>3 DEF Listed
<1> QED BY <1>2, <1>11, <1>12

LEMMA AsideKeeps ==
  ASSUME Whole, NEW s, Aside(s), StillCut
  PROVE  Whole'
<1>1. Made'
  BY MadeKeeps DEF Aside, Whole
<1>2. Cut'
  BY DEF Cut, StillCut, Whole
<1>3. Listed'
  BY ListedAside DEF Whole
<1> QED BY <1>1, <1>2, <1>3 DEF Whole

LEMMA AddsAside ==
  ASSUME Whole, NEW s, NEW parts, Adds(s, parts), parts \subseteq tree' => Held(s)',
         s \notin {"isos", "sizes", "check", "post", "split", "disc1"}
  PROVE  Whole'
<1>1. Aside(s)
  BY DEF Adds, Aside, Moves, At, Raise, Advance, inputs, outputs, cut
<1>2. StillCut
  BY DEF Adds, StillCut, inputs, cut
<1> QED BY <1>1, <1>2, AsideKeeps

LEMMA AddsOrLosesAside ==
  ASSUME Whole, NEW s, NEW parts, NEW part, AddsOrLoses(s, parts, part),
         parts \subseteq tree' /\ part \in tree' \cup unseen' => Held(s)',
         s \notin {"isos", "sizes", "check", "post", "split", "disc1"}
  PROVE  Whole'
<1>1. Aside(s)
  BY DEF AddsOrLoses, Aside, Moves, At, Raise, Advance, inputs, outputs, cut
<1>2. StillCut
  BY DEF AddsOrLoses, StillCut, inputs, cut
<1> QED BY <1>1, <1>2, AsideKeeps

----------------------------------------------------------------------------
(* The steps with something to say of the chunks or of the ISOs. *)

\* splitFile reads on by what it writes; all but the last chunk are full.
LEMMA ChunkKeeps ==
  ASSUME Cut, tell < tarEnd, chunks' = Append(chunks, GetChunk), tell' = tell + GetChunk,
         tarEnd' = tarEnd
  PROVE  Cut'
<1> DEFINE n == Len(chunks)
<1>1. /\ chunkSize \in Nat /\ chunkSize > 0 /\ n \in Nat /\ tell \in Nat /\ tarEnd \in Nat
      /\ tell = n * chunkSize /\ chunks \in Seq(Nat) /\ DOMAIN chunks = 1 .. n
  BY IsoJobAssumption DEF Cut, IsoJobAssumption
<1>2. (n + 1) * chunkSize = tell + chunkSize
  BY <1>1
<1>3. /\ GetChunk \in Nat /\ GetChunk > 0 /\ tell + GetChunk <= tarEnd
      /\ GetChunk <= chunkSize /\ (tell + GetChunk < tarEnd => GetChunk = chunkSize)
  <2>1. chunkSize \in Nat /\ chunkSize > 0 /\ tell \in Nat /\ tarEnd \in Nat
    BY <1>1
  <2> QED BY <2>1 DEF GetChunk
<1>4. /\ chunks' \in Seq(Nat) /\ Len(chunks') = n + 1 /\ DOMAIN chunks' = 1 .. n + 1
      /\ \A i \in 1 .. n : chunks'[i] = chunks[i] /\ chunks'[n + 1] = GetChunk
  BY <1>1, <1>3
<1>5. /\ tell' \in Nat /\ tell' <= tarEnd /\ tell' <= (n + 1) * chunkSize
      /\ tell' < tarEnd => tell' = (n + 1) * chunkSize
  <2>1. tell \in Nat /\ tarEnd \in Nat /\ chunkSize \in Nat
    BY <1>1
  <2> QED BY <2>1, <1>2, <1>3
<1>6. ASSUME NEW i \in DOMAIN chunks'
      PROVE  LET left == tarEnd - (i - 1) * chunkSize
             IN  left > 0 /\ chunks'[i] = IF left < chunkSize THEN left ELSE chunkSize
  <2>1. CASE i \in 1 .. n
    BY <1>1, <1>4, <2>1 DEF Cut
  <2>2. CASE i = n + 1
    <3>1. (i - 1) * chunkSize = tell /\ chunks'[i] = GetChunk
      <4>1. i - 1 = n
        BY <1>1, <2>2
      <4>2. chunks'[n + 1] = GetChunk
        BY <1>3, <1>1
      <4> QED BY <1>1, <2>2, <4>1, <4>2
    <3>2. tarEnd - tell > 0 /\ GetChunk = IF tarEnd - tell < chunkSize THEN tarEnd - tell
                                         ELSE chunkSize
      BY <1>1 DEF GetChunk
    <3> QED BY <3>1, <3>2
  <2> QED BY <1>4, <2>1, <2>2
<1> QED BY <1>1, <1>4, <1>5, <1>6 DEF Cut

LEMMA SplitFileKeeps ==
  ASSUME Whole, SplitFile
  PROVE  Whole'
<1>1. Aside("chunks")
  <2>1. At("chunks") /\ tell \in Nat /\ tarEnd \in Nat
    BY DEF SplitFile, Whole, Cut
  <2>2. /\ UNCHANGED <<kind, tarEnd, tree, unseen, keyring, files, isoList, discs>>
        /\ tell >= tarEnd => tell' = tell
    BY <2>1 DEF SplitFile, inputs, outputs, cut
  <2>3. \/ step' = step /\ verdict' \in {"running", "failed"}
        \/ step' = step + 1 /\ verdict' = verdict /\ tell' >= tarEnd'
    BY <2>1 DEF SplitFile, At, Raise, Advance, inputs, cut
  <2>4. tell' >= tarEnd' => Held("chunks")'
    BY DEF Held
  <2> QED BY <2>1, <2>2, <2>3, <2>4 DEF Aside, Moves
<1>2. Cut'
  <2>1. CASE UNCHANGED cut
    BY <2>1 DEF SplitFile, Whole, Cut, cut, inputs
  <2>2. CASE tell < tarEnd /\ chunks' = Append(chunks, GetChunk) /\ tell' = tell + GetChunk
    BY <2>2, ChunkKeeps DEF SplitFile, Whole, inputs
  <2> QED BY <2>1, <2>2 DEF SplitFile
<1> QED BY <1>1, <1>2, MadeKeeps, ListedAside DEF Aside, Whole

\* A quotient between one and the radix is a first digit.
LEMMA FirstDigit ==
  ASSUME NEW e \in Nat, NEW p \in Nat \ {0}, NEW r \in Nat \ {0}, p <= e, e < p * r
  PROVE  e \div p \in Nat /\ e \div p >= 1 /\ e \div p < r
<1> DEFINE q == e \div p
           m == e % p
<1>1. q \in Int /\ m \in 0 .. p - 1 /\ e = p * q + m
  OBVIOUS
<1> HIDE DEF q, m
<1>2. ASSUME q <= 0 PROVE FALSE
  <2>1. p * q <= p * 0 /\ p * 0 = 0
    BY <1>1, <1>2
  <2> QED BY <1>1, <2>1
<1>3. ASSUME q >= r PROVE FALSE
  <2>1. p * q >= p * r
    BY <1>1, <1>3
  <2> QED BY <1>1, <2>1
<1>4. q \in Nat /\ q >= 1 /\ q < r
  BY <1>1, <1>2, <1>3
<1> QED BY <1>4 DEF q

\* However many discs there are, the name of the first one comes first.
LEMMA OneIsAhead ==
  ASSUME NEW e \in 2 .. MaxDiscs
  PROVE  Ahead(1, e)
<1>1. /\ Radix \in Nat /\ Radix > 1 /\ MaxDiscs \in Nat
      /\ MaxDiscs < Radix * Radix * Radix * Radix
  BY IsoJobAssumption DEF IsoJobAssumption
<1>2. e \in Nat /\ e > 1 /\ e < Radix * Radix * Radix * Radix
  BY <1>1
<1>3. Radix * Radix \in Nat /\ Radix * Radix > 1
  <2>1. Radix * Radix >= Radix * 1
    BY <1>1
  <2> QED BY <1>1, <2>1
<1>4. Radix * Radix * Radix \in Nat /\ Radix * Radix * Radix > 1
  <2>1. Radix * Radix * Radix >= Radix * Radix * 1
    BY <1>1, <1>3
  <2> QED BY <1>1, <1>3, <2>1
<1>5. PICK p \in Powers : p \in Nat \ {0} /\ p <= e /\ e < p * Radix
  <2>1. CASE e < Radix
    BY <1>1, <1>2, <2>1 DEF Powers
  <2>2. CASE Radix <= e /\ e < Radix * Radix
    BY <1>1, <1>2, <2>2 DEF Powers
  <2>3. CASE Radix * Radix <= e /\ e < Radix * Radix * Radix
    BY <1>2, <1>3, <2>3 DEF Powers
  <2>4. CASE Radix * Radix * Radix <= e
    BY <1>2, <1>4, <2>4 DEF Powers
  <2> QED BY <1>1, <1>2, <1>3, <1>4, <2>1, <2>2, <2>3, <2>4
<1> DEFINE y == e \div p
<1>6. y \in Nat /\ y >= 1 /\ y < Radix
  BY <1>1, <1>2, <1>5, FirstDigit
<1>7. 1 \div 1 = 1 /\ 1 \div Radix = 0 /\ (p = 1 => y = e)
  <2>1. 1 \div Radix = 0
    BY <1>1
  <2>2. 1 \div 1 = 1 /\ e \div 1 = e
    BY <1>2
  <2> QED BY <2>1, <2>2
<1>8. y \div Radix = 0
  BY <1>1, <1>6
<1>9. 1 \in Powers
  BY DEF Powers
<1>10. CASE y = 1
  <2>1. p > 1
    BY <1>2, <1>5, <1>7, <1>10
  <2> QED BY <1>5, <1>7, <1>9, <1>10, <2>1 DEF Ahead
<1>11. CASE y > 1
  BY <1>5, <1>7, <1>8, <1>9, <1>11 DEF Ahead
<1> QED BY <1>6, <1>10, <1>11

\* The first of the names is that of the first disc.
LEMMA FirstIsOne ==
  ASSUME Listed, isoList = <<>>, NEW d \in Left, \A e \in Left : ~Ahead(e, d)
  PROVE  d = 1
<1>1. discs \in 0 .. MaxDiscs /\ MaxDiscs \in Nat /\ DOMAIN isoList = {}
  BY IsoJobAssumption DEF IsoJobAssumption, Listed
<1>2. d \in 1 .. discs /\ 1 \in Left
  BY <1>1 DEF Left
<1>3. ASSUME d # 1 PROVE FALSE
  <2>1. Ahead(1, d)
    BY <1>1, <1>2, <1>3, OneIsAhead
  <2> QED BY <1>2, <2>1
<1> QED BY <1>3

\* The boot image has been copied by the time the ISOs are built, or lost unseen.
LEMMA BootPrepared ==
  ASSUME Made, At("isos"), kind # "update"
  PROVE  "isolinux.bin" \in tree \cup unseen
<1>1. step = Isos /\ \A i \in 1 .. step - 1 : Held(Steps(kind)[i])
  BY Order DEF Made
<1>2. CASE kind = "installable"
  <2>1. Held(Steps(kind)[3]) /\ Steps(kind)[3] = "prepare"
    BY <1>1, <1>2 DEF Steps, Isos, Final
  <2> QED BY <2>1 DEF Held
<1>3. CASE kind = "appliance"
  <2>1. Held(Steps(kind)[7]) /\ Steps(kind)[7] = "prepare"
    BY <1>1, <1>3 DEF Steps, Isos, Final
  <2> QED BY <2>1 DEF Held
<1> QED BY <1>2, <1>3 DEF Made

Line(d) == [name |-> "disc", disc |-> d]
Iso(d, state, big) == [name |-> "disc", disc |-> d, state |-> state, big |-> big,
                       boot |-> d = 1 /\ "isolinux.bin" \in tree]

\* A line more, of a disc that had none.
LEMMA LineMore ==
  ASSUME Listed, step = Isos, Isos \in Nat, NEW d \in Left, isoList = <<>> => d = 1,
         isoList' = Append(isoList, Line(d)), discs' = discs
  PROVE  /\ isoList' \in Seq(Entry)
         /\ \A i \in DOMAIN isoList' : IsDisc(isoList[i])' /\ isoList'[i].name = "disc"
         /\ \A i, j \in DOMAIN isoList' : isoList'[i].disc = isoList'[j].disc => i = j
         /\ isoList' # <<>> => isoList'[1].disc = 1
<1> DEFINE n == Len(isoList)
<1>1. /\ isoList \in Seq(Entry) /\ n \in Nat /\ DOMAIN isoList = 1 .. n
      /\ \A i \in 1 .. n : isoList[i].disc \in 1 .. discs /\ isoList[i].name = "disc"
      /\ \A i, j \in 1 .. n : isoList[i].disc = isoList[j].disc =>
           i = j \/ isoList[i].disc = 0
      /\ n > 0 => isoList[1].disc = 1
  BY DEF Listed, IsDisc
<1>2. d \in 1 .. discs /\ discs \in Nat /\ \A i \in 1 .. n : isoList[i].disc # d
  BY <1>1 DEF Left, Listed
<1>3. Line(d) \in Entry /\ Line(d).disc = d /\ Line(d).name = "disc"
  BY <1>2 DEF Line, Entry, Names
<1> HIDE DEF n
<1>4. /\ isoList' \in Seq(Entry) /\ DOMAIN isoList' = 1 .. n + 1
      /\ \A i \in 1 .. n : isoList'[i] = isoList[i]
      /\ isoList'[n + 1] = Line(d)
  BY <1>1, <1>3 DEF n
<1>5. ASSUME NEW i \in 1 .. n + 1
      PROVE  isoList'[i].disc \in 1 .. discs /\ isoList'[i].name = "disc"
  BY <1>1, <1>2, <1>3, <1>4
<1>6. ASSUME NEW i \in 1 .. n + 1, NEW j \in 1 .. n + 1, isoList'[i].disc = isoList'[j].disc
      PROVE  i = j
  <2>1. \A k \in 1 .. n : isoList'[k].disc = isoList[k].disc /\ isoList[k].disc # 0
    BY <1>1, <1>2, <1>4
  <2>2. CASE i \in 1 .. n /\ j \in 1 .. n
    BY <1>1, <1>6, <2>1, <2>2
  <2>3. CASE i = n + 1 /\ j \in 1 .. n
    BY <1>2, <1>3, <1>4, <1>6, <2>1, <2>3
  <2>4. CASE i \in 1 .. n /\ j = n + 1
    BY <1>2, <1>3, <1>4, <1>6, <2>1, <2>4
  <2> QED BY <1>1, <1>6, <2>2, <2>3, <2>4
<1>7. isoList'[1].disc = 1
  <2>1. CASE n = 0
    BY <1>3, <1>4, <2>1 DEF n, Listed
  <2>2. CASE n > 0
    BY <1>1, <1>4, <2>2
  <2> QED BY <1>1, <2>1, <2>2
<1> QED BY <1>4, <1>5, <1>6, <1>7 DEF IsDisc

\* An ISO of the next disc is listed when there was room for it, and no other.
LEMMA BuildIsoKeeps ==
  ASSUME Whole, BuildIso
  PROVE  Whole'
<1>1. At("isos") /\ UNCHANGED <<kind, tarEnd, tree, tell, chunks, keyring, discs>>
  BY DEF BuildIso, inputs, cut
<1>2. PICK d \in Left, state \in {"whole", "cut", "broken", "none"}, big \in BOOLEAN,
           tight \in BOOLEAN :
        /\ \A e \in Left : ~Ahead(e, d)
        /\ state = "cut" => tight
        /\ files' = IF state = "none" THEN files ELSE files \cup {Iso(d, state, big)}
        /\ unseen' = IF state \in {"broken", "none"} THEN unseen \cup {"mkisofs"} ELSE unseen
        /\ \/ NoRoom(state, tight) /\ Raise("room") /\ UNCHANGED isoList
           \/ /\ ~NoRoom(state, tight) /\ UNCHANGED <<step, fault, verdict>>
              /\ isoList' = Append(isoList, Line(d))
  BY DEF BuildIso, Iso, Line
<1>3. d \in 1 .. discs /\ discs \in Nat
  BY DEF Left, Whole, Listed
<1>4. step' = step /\ verdict' \in {"running", "failed"} /\ unseen \subseteq unseen'
  BY <1>1, <1>2 DEF Raise, At
<1>5. Moves("isos")
  BY <1>1, <1>4 DEF Moves
<1>6. step \in Nat /\ step = Isos /\ Isos \in Nat /\ Isos' = Isos
  BY <1>1, Order DEF Whole, Isos, Final
<1>7. isoList = <<>> => d = 1
  BY <1>2, FirstIsOne DEF Whole
<1>8. /\ isoList' \in Seq(Entry)
      /\ \A i \in DOMAIN isoList' : IsDisc(isoList[i])' /\ isoList'[i].name = "disc"
      /\ \A i, j \in DOMAIN isoList' : isoList'[i].disc = isoList'[j].disc =>
           i = j \/ isoList'[i].disc = 0
      /\ isoList' # <<>> => isoList'[1].disc = 1
  <2>1. CASE isoList' = isoList
    BY <1>1, <1>6, <2>1 DEF Whole, Listed, IsDisc
  <2>2. CASE isoList' = Append(isoList, Line(d))
    BY <1>1, <1>6, <1>7, <2>2, LineMore DEF Whole
  <2> QED BY <1>2, <2>1, <2>2
<1>9. files' \subseteq File
  <2>1. ASSUME state # "none"
        PROVE  Iso(d, state, big) \in File
    BY <1>3, <2>1 DEF File, Names, Iso
  <2> QED BY <1>2, <2>1 DEF Whole, Listed
<1>10. ASSUME verdict' # "failed", NEW f \in files'
       PROVE  Sound(f)'
  <2>1. state # "cut" /\ verdict # "failed"
    BY <1>1, <1>2, <1>10 DEF NoRoom, Raise, At
  <2>2. CASE f \in files
    <3>1. Sound(f)
      BY <2>1, <2>2 DEF Whole, Listed
    <3> QED BY <1>1, <1>4, <3>1, SoundStays
  <2>3. CASE f \notin files
    <3>1. state \in {"whole", "broken"} /\ f = Iso(d, state, big)
      BY <1>2, <1>10, <2>1, <2>3
    <3>2. f.state = state /\ f.disc = d /\ f.boot = (d = 1 /\ "isolinux.bin" \in tree)
      BY <3>1 DEF Iso
    <3>3. state = "broken" => "mkisofs" \in unseen'
      BY <1>2
    <3>4. kind # "update" => "isolinux.bin" \in tree \cup unseen
      BY <1>1, BootPrepared DEF Whole
    <3> QED BY <1>1, <1>4, <3>1, <3>2, <3>3, <3>4 DEF Sound
  <2> QED BY <2>2, <2>3
<1>11. discs' \in 0 .. MaxDiscs /\ discs' > 0
  BY <1>1, <1>6 DEF Whole, Listed
<1>12. Listed'
  BY <1>4, <1>6, <1>8, <1>9, <1>10, <1>11 DEF Listed
<1>13. Cut'
  BY <1>1 DEF Whole, Cut
<1> QED BY <1>5, <1>12, <1>13, MadeKeeps DEF Whole

\* When there is no disc left each has a line.
LEMMA IsosBuiltKeeps ==
  ASSUME Whole, IsosBuilt
  PROVE  Whole'
<1>1. /\ At("isos") /\ Left = {} /\ step' = step + 1 /\ verdict' = verdict
      /\ UNCHANGED <<kind, tarEnd, tree, tell, chunks, keyring, discs, unseen, files, isoList>>
  BY DEF IsosBuilt, Advance, inputs, cut, outputs
<1>2. Moves("isos")
  BY <1>1 DEF Moves, Held
<1>3. step \in Nat /\ step = Isos /\ Isos \in Nat /\ Isos' = Isos
  BY <1>1, Order DEF Whole, Isos, Final
<1>4. /\ \A i \in DOMAIN isoList : IsDisc(isoList[i])
      /\ \A i \in DOMAIN isoList : isoList[i].name = "disc"
  BY <1>3 DEF Whole, Listed
<1>5. \A d \in 1 .. discs : \E i \in DOMAIN isoList :
        isoList[i].disc = d /\ isoList[i].name \in {"disc", "dvd"}
  BY <1>1, <1>4 DEF Left
<1>6. \A f \in files : Sound(f)' <=> Sound(f)
  BY <1>1 DEF Sound
<1>7. /\ step' = Isos' + 1 /\ ~(step' < Isos') /\ ~(step' > Isos' + 1) /\ discs > 0
  BY <1>1, <1>3 DEF Whole, Listed
<1>8. \A i \in DOMAIN isoList' : IsDisc(isoList[i])'
  BY <1>1, <1>4 DEF IsDisc
<1>9. Listed'
  BY <1>1, <1>4, <1>5, <1>6, <1>7, <1>8 DEF Whole, Listed
<1>10. Cut'
  BY <1>1 DEF Whole, Cut
<1> QED BY <1>2, <1>9, <1>10, MadeKeeps DEF Whole

\* Every ISO has been read by now; the file and the line that names it change together.
LEMMA IdentifyKeeps ==
  ASSUME Whole, Identify
  PROVE  Whole'
<1> DEFINE Big(e) == \E f \in IsoOf(e) : f.big
           Renamed(f) == IF f.big THEN [f EXCEPT !.name = "dvd"] ELSE f
<1>1. /\ At("sizes")
      /\ UNCHANGED <<kind, tarEnd, tree, tell, chunks, keyring, discs, unseen>>
  BY DEF Identify, inputs, cut
<1>2. \/ Raise("mkisofs") /\ UNCHANGED <<files, isoList>>
      \/ /\ \A i \in DOMAIN isoList : IsoOf(isoList[i]) # {}
         /\ Advance /\ files' = {Renamed(f) : f \in files}
         /\ isoList' = [i \in DOMAIN isoList |->
                          IF Big(isoList[i]) THEN NewEntry(isoList[i]) ELSE isoList[i]]
  BY DEF Identify
<1>3. step \in Nat /\ step = Isos + 1 /\ Isos \in Nat /\ Isos' = Isos
  BY <1>1, Order DEF Whole, Isos, Final
<1>4. Moves("sizes")
  BY <1>1, <1>2 DEF Moves, Held, Raise, Advance, At
<1>5. Cut'
  BY <1>1 DEF Whole, Cut
<1>6. CASE Raise("mkisofs") /\ UNCHANGED <<files, isoList>>
  <2>1. step' = step /\ verdict' = "failed"
    BY <1>6 DEF Raise
  <2>2. Listed'
    <3>1. \A i \in DOMAIN isoList : IsDisc(isoList[i])' <=> IsDisc(isoList[i])
      BY <1>1, <1>6 DEF IsDisc
    <3>2. ~(step' < Isos') /\ ~(step' > Isos' + 1) /\ step' > Isos' /\ discs > 0
      BY <1>3, <2>1 DEF Whole, Listed
    <3> QED BY <1>1, <1>3, <1>6, <2>1, <3>1, <3>2 DEF Whole, Listed
  <2> QED BY <1>4, <1>5, <2>2, MadeKeeps DEF Whole
<1>7. CASE /\ \A i \in DOMAIN isoList : IsoOf(isoList[i]) # {}
           /\ Advance /\ files' = {Renamed(f) : f \in files}
           /\ isoList' = [i \in DOMAIN isoList |->
                            IF Big(isoList[i]) THEN NewEntry(isoList[i]) ELSE isoList[i]]
  <2>1. step' = Isos + 2 /\ verdict' = verdict
    BY <1>3, <1>7 DEF Advance
  <2>2. /\ isoList \in Seq(Entry) /\ files \subseteq File
        /\ discs \in 0 .. MaxDiscs /\ discs > 0
        /\ \A i \in DOMAIN isoList : IsDisc(isoList[i])
        /\ \A i \in DOMAIN isoList : isoList[i].name = "disc"
    BY <1>3 DEF Whole, Listed
  <2>3. \A i \in DOMAIN isoList : /\ isoList'[i].disc = isoList[i].disc
                                  /\ isoList'[i].name \in {"disc", "dvd"}
                                  /\ isoList'[i] \in Entry
    <3> SUFFICES ASSUME NEW i \in DOMAIN isoList
                 PROVE  /\ isoList'[i].disc = isoList[i].disc
                        /\ isoList'[i].name \in {"disc", "dvd"} /\ isoList'[i] \in Entry
      OBVIOUS
    <3>1. isoList[i] \in Entry /\ isoList[i].name = "disc"
      BY <2>2
    <3>2. isoList'[i] = NewEntry(isoList[i]) \/ isoList'[i] = isoList[i]
      BY <1>7
    <3>3. /\ NewEntry(isoList[i]).disc = isoList[i].disc /\ NewEntry(isoList[i]).name = "dvd"
          /\ NewEntry(isoList[i]) \in Entry
      BY <3>1 DEF NewEntry, Entry, Names
    <3> QED BY <3>1, <3>2, <3>3
  <2>4. DOMAIN isoList' = DOMAIN isoList /\ isoList' \in Seq(Entry)
    BY <1>7, <2>2, <2>3
  <2>5. \A f \in files : Renamed(f) \in File /\ Renamed(f).state = f.state
                         /\ Renamed(f).disc = f.disc /\ Renamed(f).boot = f.boot
    BY <2>2 DEF File, Names
  <2>6. files' \subseteq File
    BY <1>7, <2>5
  <2>7. ASSUME NEW i \in DOMAIN isoList
        PROVE  \E g \in files' : g.name = isoList'[i].name /\ g.disc = isoList'[i].disc
    <3>1. CASE Big(isoList[i])
      <4>1. PICK f \in files : f.name = "disc" /\ f.disc = isoList[i].disc /\ f.big
        BY <2>2, <3>1 DEF IsoOf
      <4>2. Renamed(f) \in files' /\ Renamed(f).name = "dvd"
            /\ Renamed(f).disc = isoList[i].disc
        BY <1>7, <2>2, <4>1 DEF File
      <4>3. isoList'[i].name = "dvd"
        BY <1>7, <2>2, <3>1 DEF NewEntry, Entry
      <4> QED BY <2>3, <4>2, <4>3
    <3>2. CASE ~Big(isoList[i])
      <4>1. PICK f \in IsoOf(isoList[i]) : TRUE
        BY <1>7
      <4>2. f \in files /\ f.name = isoList[i].name /\ f.disc = isoList[i].disc /\ ~f.big
        BY <3>2, <4>1 DEF IsoOf
      <4>3. f \in files' /\ isoList'[i] = isoList[i]
        BY <1>7, <3>2, <4>2
      <4> QED BY <4>2, <4>3
    <3> QED BY <3>1, <3>2
  <2>8. \A i \in DOMAIN isoList' : IsoOf(isoList[i])' # {}
    BY <2>4, <2>7 DEF IsoOf
  <2>9. ASSUME verdict' # "failed", NEW g \in files'
        PROVE  Sound(g)'
    <3>1. PICK f \in files : g = Renamed(f)
      BY <1>7, <2>9
    <3>2. g.state = f.state /\ g.disc = f.disc /\ g.boot = f.boot
      BY <2>5, <3>1
    <3>3. Sound(f)
      BY <2>1, <2>9 DEF Whole, Listed
    <3> QED BY <1>1, <3>2, <3>3 DEF Sound
  <2>10. \A i \in DOMAIN isoList' : IsDisc(isoList[i])'
    BY <1>1, <2>2, <2>3, <2>4 DEF IsDisc
  <2>11. /\ \A i, j \in DOMAIN isoList' : isoList'[i].disc = isoList'[j].disc =>
              i = j \/ isoList'[i].disc = 0
         /\ isoList' # <<>> => isoList'[1].disc = 1
    <3>1. /\ \A i, j \in DOMAIN isoList : isoList[i].disc = isoList[j].disc =>
               i = j \/ isoList[i].disc = 0
          /\ isoList # <<>> => isoList[1].disc = 1
      BY DEF Whole, Listed
    <3>2. isoList' # <<>> => isoList # <<>> /\ 1 \in DOMAIN isoList
      BY <2>2, <2>4
    <3> QED BY <2>3, <2>4, <3>1, <3>2
  <2>12. \A d \in 1 .. discs : \E i \in DOMAIN isoList' :
           isoList'[i].disc = d /\ isoList'[i].name \in {"disc", "dvd"}
    <3>1. step > Isos
      BY <1>3
    <3>2. \A d \in 1 .. discs : \E i \in DOMAIN isoList : isoList[i].disc = d
      BY <3>1 DEF Whole, Listed
    <3> QED BY <2>3, <2>4, <3>2
  <2>13. ~(step' < Isos') /\ ~(step' <= Isos' + 1)
    BY <1>3, <2>1
  <2>14. Listed'
    BY <1>1, <2>2, <2>4, <2>6, <2>8, <2>9, <2>10, <2>11, <2>12, <2>13 DEF Listed
  <2> QED BY <1>4, <1>5, <2>14, MadeKeeps DEF Whole
<1> QED BY <1>2, <1>6, <1>7

NetFile(x) == [name |-> x, disc |-> 0, state |-> "whole", big |-> FALSE, boot |-> TRUE]

\* The netboot images go after the ISOs, each with a line of its own.
LEMMA CheckKeeps ==
  ASSUME Whole, Check
  PROVE  Whole'
<1>1. /\ At("check")
      /\ UNCHANGED <<kind, tarEnd, tree, tell, chunks, keyring, discs, unseen>>
  BY DEF Check, inputs, cut
<1>2. step \in Nat /\ step = Isos + 2 /\ Isos \in Nat /\ Isos' = Isos
  BY <1>1, Order DEF Whole, Isos, Final
<1>3. Moves("check")
  BY <1>1 DEF Check, Moves, Held, Raise, Advance, At
<1>4. Cut'
  BY <1>1 DEF Whole, Cut
<1>5. CASE Raise("own") /\ UNCHANGED <<files, isoList>>
  <2>1. step' = step /\ verdict' = "failed"
    BY <1>5 DEF Raise
  <2>2. Listed'
    <3>1. \A e : IsoOf(e)' = IsoOf(e)
      BY <1>5 DEF IsoOf
    <3>2. \A i \in DOMAIN isoList : IsDisc(isoList[i])' <=> IsDisc(isoList[i])
      BY <1>1, <1>5 DEF IsDisc
    <3>3. ~(step' < Isos') /\ ~(step' <= Isos' + 1) /\ step' > Isos' /\ discs > 0
      BY <1>2, <2>1 DEF Whole, Listed
    <3> QED BY <1>1, <1>2, <1>5, <2>1, <3>1, <3>2, <3>3 DEF Whole, Listed
  <2> QED BY <1>3, <1>4, <2>2, MadeKeeps DEF Whole
<1>6. ASSUME Advance, NEW net \in {<<>>, <<"boot.iso">>, <<"boot.iso", "diskboot.img">>},
             files' = files \cup {NetFile(x) : x \in Range(net)},
             isoList' = isoList \o [i \in DOMAIN net |-> [name |-> net[i], disc |-> 0]]
      PROVE  Whole'
  <2> DEFINE more == [i \in DOMAIN net |-> [name |-> net[i], disc |-> 0]]
             n == Len(isoList)
  <2>1. step' = Isos + 3 /\ verdict' = verdict
    BY <1>2, <1>6 DEF Advance
  <2>2. /\ isoList \in Seq(Entry) /\ files \subseteq File /\ n \in Nat
        /\ discs \in 0 .. MaxDiscs /\ discs > 0
        /\ \A d \in 1 .. discs : \E i \in DOMAIN isoList :
             isoList[i].disc = d /\ isoList[i].name \in {"disc", "dvd"}
        /\ \A i \in DOMAIN isoList : IsoOf(isoList[i]) # {}
        /\ \A i \in DOMAIN isoList : IsDisc(isoList[i])
    BY <1>2 DEF Whole, Listed
  <2>3. /\ net \in Seq({"boot.iso", "diskboot.img"})
        /\ \A i \in DOMAIN net : net[i] \in {"boot.iso", "diskboot.img"}
    <3>1. CASE net = <<>>
      BY <3>1
    <3>2. CASE net = <<"boot.iso">>
      BY <3>2
    <3>3. CASE net = <<"boot.iso", "diskboot.img">>
      BY <3>3
    <3> QED BY <1>6, <3>1, <3>2, <3>3
  <2>4. more \in Seq(Entry) /\ Len(more) = Len(net) /\ DOMAIN more = DOMAIN net
    <3>1. \A i \in DOMAIN net : [name |-> net[i], disc |-> 0] \in Entry
      BY <2>3 DEF Entry, Names
    <3> QED BY <2>3, <3>1
  <2>5. /\ isoList' \in Seq(Entry) /\ Len(isoList') = n + Len(more)
        /\ \A i \in 1 .. n : isoList'[i] = isoList[i]
        /\ \A i \in DOMAIN isoList' : i \notin 1 .. n => i - n \in DOMAIN net
                                                      /\ isoList'[i] = more[i - n]
    <3>1. isoList' = isoList \o more
      BY <1>6
    <3> HIDE DEF more
    <3>2. isoList' \in Seq(Entry) /\ Len(isoList') = n + Len(more)
      <4>1. ASSUME NEW a \in Seq(Entry), NEW b \in Seq(Entry)
            PROVE  a \o b \in Seq(Entry) /\ Len(a \o b) = Len(a) + Len(b)
        OBVIOUS
      <4>2. isoList \in Seq(Entry) /\ more \in Seq(Entry)
        BY <2>2, <2>4
      <4> QED BY <3>1, <4>1, <4>2
    <3>3. \A i \in 1 .. n : isoList'[i] = isoList[i]
      BY <3>1, <2>2, <2>4
    <3>4. ASSUME NEW i \in DOMAIN isoList', i \notin 1 .. n
          PROVE  i - n \in DOMAIN net /\ isoList'[i] = more[i - n]
      <4>1. i \in 1 .. n + Len(more) /\ Len(more) \in Nat
        BY <3>2, <3>4, <2>4
      <4>2. i - n \in 1 .. Len(more)
        BY <3>4, <4>1, <2>2
      <4>3. i - n \in DOMAIN net
        BY <4>2, <2>4
      <4>4. (isoList \o more)[i] = more[i - n]
        BY <2>2, <2>4, <3>4, <4>1
      <4> QED BY <3>1, <4>3, <4>4
    <3> QED BY <3>2, <3>3, <3>4
  <2>6. \A x \in Range(net) : x \in {"boot.iso", "diskboot.img"}
    BY <2>3 DEF Range
  <2>7. files' \subseteq File
    <3>1. \A x \in Range(net) : NetFile(x) \in File
      BY <2>6 DEF File, Names, NetFile
    <3> QED BY <1>6, <2>2, <3>1
  <2>8. ASSUME NEW i \in DOMAIN isoList'
        PROVE  \E g \in files' : g.name = isoList'[i].name /\ g.disc = isoList'[i].disc
    <3>1. CASE i \in 1 .. n
      <4>1. isoList'[i] = isoList[i] /\ i \in DOMAIN isoList
        <5>1. i \in DOMAIN isoList
          BY <2>2, <3>1
        <5> QED BY <2>5, <3>1, <5>1
      <4>2. PICK g \in IsoOf(isoList[i]) : TRUE
        BY <2>2, <4>1
      <4>3. g \in files' /\ g.name = isoList[i].name /\ g.disc = isoList[i].disc
        BY <1>6, <4>2 DEF IsoOf
      <4> QED BY <4>1, <4>3
    <3>2. CASE i \notin 1 .. n
      <4>1. i - n \in DOMAIN net /\ isoList'[i] = [name |-> net[i - n], disc |-> 0]
        BY <2>5, <2>8, <3>2
      <4>2. net[i - n] \in Range(net)
        BY <4>1 DEF Range
      <4>3. NetFile(net[i - n]) \in files'
        BY <1>6, <4>2
      <4> QED BY <4>1, <4>3 DEF NetFile
    <3> QED BY <3>1, <3>2
  <2>9. \A i \in DOMAIN isoList' : IsoOf(isoList[i])' # {}
    BY <2>8 DEF IsoOf
  <2>10. ASSUME verdict' # "failed", NEW g \in files'
         PROVE  Sound(g)'
    <3>1. CASE g \in files
      BY <1>1, <2>1, <2>10, <3>1, SoundStays DEF Whole, Listed
    <3>2. CASE g \notin files
      <4>1. PICK x \in Range(net) : g = NetFile(x)
        BY <1>6, <2>10, <3>2
      <4>2. g.state = "whole" /\ g.disc = 0
        BY <4>1 DEF NetFile
      <4> QED BY <4>2 DEF Sound
    <3> QED BY <3>1, <3>2
  <2>11. DOMAIN isoList = 1 .. n /\ DOMAIN isoList' = 1 .. n + Len(more) /\ Len(more) \in Nat
    BY <2>2, <2>4, <2>5
  <2>12. n > 0 /\ isoList' # <<>> /\ isoList'[1].disc = 1
    <3>1. PICK i \in DOMAIN isoList : isoList[i].disc = 1
      BY <2>2
    <3>2. n > 0 /\ isoList # <<>>
      BY <2>2, <2>11, <3>1
    <3>3. isoList[1].disc = 1
      BY <3>2 DEF Whole, Listed
    <3> QED BY <2>2, <2>5, <2>11, <3>2, <3>3
  <2>13. \A d \in 1 .. discs : \E i \in DOMAIN isoList' :
           isoList'[i].disc = d /\ isoList'[i].name \in {"disc", "dvd"}
    <3> SUFFICES ASSUME NEW d \in 1 .. discs
                 PROVE  \E i \in DOMAIN isoList' :
                          isoList'[i].disc = d /\ isoList'[i].name \in {"disc", "dvd"}
      OBVIOUS
    <3>1. PICK i \in DOMAIN isoList : isoList[i].disc = d /\ isoList[i].name \in {"disc", "dvd"}
      BY <2>2
    <3>2. i \in DOMAIN isoList' /\ isoList'[i] = isoList[i]
      BY <2>2, <2>5, <2>11
    <3> QED BY <3>1, <3>2
  <2>14. ASSUME NEW i \in DOMAIN isoList', NEW j \in DOMAIN isoList',
                isoList'[i].disc = isoList'[j].disc
         PROVE  i = j \/ isoList'[i].disc = 0
    <3>1. ASSUME NEW k \in DOMAIN isoList', k \notin 1 .. n PROVE isoList'[k].disc = 0
      <4>1. k - n \in DOMAIN net /\ isoList'[k] = [name |-> net[k - n], disc |-> 0]
        BY <2>5, <3>1
      <4> QED BY <4>1
    <3>2. CASE i \in 1 .. n /\ j \in 1 .. n
      <4>1. isoList[i].disc = isoList[j].disc
        BY <2>5, <2>14, <3>2
      <4> QED BY <2>5, <2>11, <3>2, <4>1 DEF Whole, Listed
    <3>3. CASE i \notin 1 .. n \/ j \notin 1 .. n
      BY <2>14, <3>1, <3>3
    <3> QED BY <3>2, <3>3
  <2>15. Listed'
    <3>1. step' > Isos' /\ ~(step' <= Isos' + 1) /\ ~(step' <= Isos' + 2) /\ ~(step' < Isos')
      BY <1>1, <1>2, <2>1
    <3>2. isoList' \in Seq(Entry)
      BY <2>5
    <3>3. discs' \in 0 .. MaxDiscs /\ discs' > 0 /\ discs' = discs
      BY <1>1, <2>2
    <3> HIDE DEF more, n
    <3> QED BY <2>7, <2>9, <2>10, <2>12, <2>13, <2>14, <3>1, <3>2, <3>3 DEF Listed
  <2> QED BY <1>3, <1>4, <2>15, MadeKeeps DEF Whole
<1> QED BY <1>5, <1>6 DEF Check, NetFile

\* Only the last step posts.
LEMMA PostKeeps ==
  ASSUME Whole, Post
  PROVE  Whole'
<1>1. /\ At("post") /\ step' = step /\ verdict' \in {"posted", "failed"}
      /\ UNCHANGED <<kind, tarEnd, tree, tell, chunks, keyring, discs, files, isoList, unseen>>
  BY DEF Post, Raise, inputs, cut, outputs
<1>2. step = Final /\ Final' = Final /\ Isos' = Isos
  BY <1>1, Order DEF Whole, Final, Isos
<1>3. \A i : Held(Steps(kind)[i])' <=> Held(Steps(kind)[i])
  BY <1>1 DEF Held, Steps
<1>4. Made'
  BY <1>1, <1>2, <1>3 DEF Whole, Made
<1>5. \A e : IsoOf(e)' = IsoOf(e)
  BY <1>1 DEF IsoOf
<1>6. Listed'
  <2>1. \A f \in files : Sound(f)' <=> Sound(f)
    BY <1>1 DEF Sound
  <2>2. \A i \in DOMAIN isoList : IsDisc(isoList[i])' <=> IsDisc(isoList[i])
    BY <1>1 DEF IsDisc
  <2> QED BY <1>1, <1>2, <1>5, <2>1, <2>2 DEF Whole, Listed, At
<1>7. Cut'
  BY <1>1 DEF Whole, Cut
<1> QED BY <1>4, <1>6, <1>7 DEF Whole

LEMMA StepIsNat ==
  ASSUME Made
  PROVE  step \in Nat
BY DEF Made, Final

LEMMA WholeStep == Whole /\ [Next]_vars => Whole'
<1> SUFFICES ASSUME Whole, [Next]_vars PROVE Whole'
  OBVIOUS
<1>1. CASE Install
  <2>1. Aside("install")
    BY <1>1 DEF Install, Aside, Moves, Held, At, Raise, Advance, inputs, outputs, cut
  <2>2. StillCut
    BY <1>1 DEF Install, StillCut, inputs, outputs, cut
  <2> QED BY <2>1, <2>2, AsideKeeps
<1>2. CASE Tar
  <2>1. "tarball" \in tree' \cup unseen' => Held("tar")'
    BY DEF Held
  <2> QED BY <1>2, <2>1, AddsOrLosesAside DEF Tar
<1>3. CASE RequestTemplate
  <2>1. Aside("template")
    BY <1>3 DEF RequestTemplate, Aside, Moves, Held, At, Raise, Advance, inputs, outputs, cut
  <2>2. StillCut
    BY <1>3 DEF RequestTemplate, StillCut, inputs, outputs, cut
  <2> QED BY <2>1, <2>2, AsideKeeps
<1>4. CASE ExtractMedia
  <2>1. Aside("media")
    BY <1>4 DEF ExtractMedia, Aside, Moves, Held, At, Raise, Advance, inputs, outputs, cut
  <2>2. StillCut
    BY <1>4 DEF ExtractMedia, StillCut, inputs, outputs, cut
  <2> QED BY <2>1, <2>2, AsideKeeps
<1>5. CASE ExtractKeys
  <2>1. Aside("keys")
    BY <1>5 DEF ExtractKeys, Aside, Moves, Held, At, Raise, Advance, inputs, outputs, cut,
                KeysMissing
  <2>2. StillCut
    BY <1>5 DEF ExtractKeys, StillCut, inputs, outputs, cut
  <2> QED BY <2>1, <2>2, AsideKeeps
<1>6. CASE SetupKickstart
  <2>1. Aside("kickstart")
    BY <1>6 DEF SetupKickstart, Aside, Moves, Held, At, Raise, Advance, inputs, outputs, cut
  <2>2. StillCut
    BY <1>6 DEF SetupKickstart, StillCut, inputs, outputs, cut
  <2> QED BY <2>1, <2>2, AsideKeeps
<1>7. CASE Stage2
  <2>1. Aside("stage2")
    BY <1>7 DEF Stage2, Aside, Moves, Held, At, Raise, Advance, inputs, outputs, cut
  <2>2. StillCut
    BY <1>7 DEF Stage2, StillCut, inputs, outputs, cut
  <2> QED BY <2>1, <2>2, AsideKeeps
<1>8. CASE Split
  <2>1. Aside("split")
    <3>1. MaxDiscs \in Nat \ {0}
      BY IsoJobAssumption DEF IsoJobAssumption
    <3>3. /\ At("split") /\ UNCHANGED <<kind, tarEnd, tree, tell, keyring, files, isoList>>
          /\ unseen \subseteq unseen'
      BY <1>8 DEF Split, inputs, cut
    <3>4. \/ step' = step /\ verdict' = "failed" /\ discs' = discs
          \/ step' = step + 1 /\ verdict' = verdict /\ discs' \in 1 .. MaxDiscs
      BY <1>8, <3>1 DEF Split, Raise, Advance
    <3>5. Moves("split")
      BY <3>3, <3>4 DEF Moves, Held
    <3> QED BY <3>3, <3>4, <3>5, StepIsNat DEF Aside, Whole
  <2>2. StillCut
    BY <1>8 DEF Split, StillCut, inputs, outputs, cut
  <2> QED BY <2>1, <2>2, AsideKeeps
<1>9. CASE LayDisc1
  <2>1. Aside("disc1")
    <3>1. MaxDiscs \in Nat \ {0}
      BY IsoJobAssumption DEF IsoJobAssumption
    <3>2. /\ At("disc1")
          /\ UNCHANGED <<kind, tarEnd, tree, tell, keyring, files, isoList, unseen>>
      BY <1>9 DEF LayDisc1, inputs, cut
    <3>3. \/ step' = step /\ verdict' = "failed" /\ discs' = discs
          \/ step' = step + 1 /\ verdict' = verdict /\ discs' \in 1 .. MaxDiscs
      <4>1. \/ step' = step /\ verdict' = "failed" /\ discs' = discs
            \/ step' = step + 1 /\ verdict' = verdict /\ discs' = 1
        BY <1>9, Zenon DEF LayDisc1, Raise, Advance
      <4> QED BY <3>1, <4>1
    <3>4. Moves("disc1")
      BY <3>2, <3>3 DEF Moves, Held
    <3> QED BY <3>2, <3>3, <3>4, StepIsNat DEF Aside, Whole
  <2>2. StillCut
    BY <1>9 DEF LayDisc1, StillCut, inputs, outputs, cut
  <2> QED BY <2>1, <2>2, AsideKeeps
<1>10. CASE Ovf
  <2>1. Aside("ovf")
    BY <1>10 DEF Ovf, Aside, Moves, Held, At, Raise, Advance, inputs, outputs, cut
  <2>2. StillCut
    BY <1>10 DEF Ovf, StillCut, inputs, outputs, cut
  <2> QED BY <2>1, <2>2, AsideKeeps
<1>11. CASE WriteTbList
  <2>1. {"tblist"} \subseteq tree' => Held("tblist")'
    BY DEF Held
  <2> QED BY <1>11, <2>1, AddsAside DEF WriteTbList
<1>12. CASE Unpack
  <2>1. {"unpacked"} \subseteq tree' => Held("unpack")'
    BY DEF Held
  <2> QED BY <1>12, <2>1, AddsAside DEF Unpack
<1>13. CASE Prepare
  <2>1. {"template"} \subseteq tree' /\ "isolinux.bin" \in tree' \cup unseen' => Held("prepare")'
    BY DEF Held
  <2> QED BY <1>13, <2>1, AddsOrLosesAside DEF Prepare
<1>14. CASE ExtractChangeSets
  <2>1. {"changesets"} \subseteq tree' => Held("changesets")'
    BY DEF Held
  <2> QED BY <1>14, <2>1, AddsAside DEF ExtractChangeSets
<1>15. CASE WriteLists
  <2>1. {"cslist", "group.ccs"} \subseteq tree' => Held("lists")'
    BY DEF Held
  <2> QED BY <1>15, <2>1, AddsAside DEF WriteLists
<1>16. CASE WriteDiscInfo
  <2>1. {".discinfo"} \subseteq tree' => Held("discinfo")'
    BY DEF Held
  <2> QED BY <1>16, <2>1, AddsAside DEF WriteDiscInfo
<1>17. CASE BuildStamp
  <2>1. {".buildstamp"} \subseteq tree' => Held("stamp")'
    BY DEF Held
  <2> QED BY <1>17, <2>1, AddsAside DEF BuildStamp
<1>18. CASE Artwork
  <2>1. "pixmaps" \in tree' \cup unseen' => Held("artwork")'
    BY DEF Held
  <2> QED BY <1>18, <2>1, AddsOrLosesAside DEF Artwork
<1>19. CASE Menu
  <2>1. {"conaryrc"} \subseteq tree' => Held("menu")'
    BY DEF Held
  <2> QED BY <1>19, <2>1, AddsAside DEF Menu
<1>20. CASE Cramfs
  <2>1. {"product.img"} \subseteq tree' => Held("cramfs")'
    BY DEF Held
  <2> QED BY <1>20, <2>1, AddsAside DEF Cramfs
<1>21. CASE CleanUp \/ MasterAnswers \/ (Ended /\ UNCHANGED vars) \/ UNCHANGED vars
  <2>1. UNCHANGED <<kind, tarEnd, step, verdict, tree, tell, chunks, keyring, discs, files,
                    isoList, unseen>>
    BY <1>21 DEF CleanUp, MasterAnswers, vars, inputs, outputs, cut
  <2>2. \A i : Held(Steps(kind)[i])' <=> Held(Steps(kind)[i])
    BY <2>1 DEF Held, Steps
  <2>3. Final' = Final /\ Isos' = Isos /\ \A e : IsoOf(e)' = IsoOf(e)
    BY <2>1 DEF Final, Isos, IsoOf
  <2>4. Made' /\ Cut'
    BY <2>1, <2>2, <2>3 DEF Whole, Made, Cut
  <2>5. Listed'
    <3>1. \A f \in files : Sound(f)' <=> Sound(f)
      BY <2>1 DEF Sound
    <3>2. \A i \in DOMAIN isoList : IsDisc(isoList[i])' <=> IsDisc(isoList[i])
      BY <2>1 DEF IsDisc
    <3> QED BY <2>1, <2>3, <3>1, <3>2 DEF Whole, Listed
  <2> QED BY <2>4, <2>5 DEF Whole
<1> QED
  BY <1>1, <1>2, <1>3, <1>4, <1>5, <1>6, <1>7, <1>8, <1>9, <1>10, <1>11, <1>12, <1>13, <1>14,
     <1>15, <1>16, <1>17, <1>18, <1>19, <1>20, <1>21,
     SplitFileKeeps, BuildIsoKeeps, IsosBuiltKeeps, IdentifyKeeps, CheckKeeps, PostKeeps
  DEF Next, Job

LEMMA WholeInit == Init => Whole
<1> SUFFICES ASSUME Init PROVE Whole
  OBVIOUS
<1>1. /\ kind \in {"installable", "update", "appliance"} /\ tarEnd \in Nat
      /\ step = 1 /\ chunks = <<>> /\ tell = 0 /\ discs = 0 /\ files = {} /\ isoList = <<>>
      /\ verdict = "running"
  <2>1. kind \in {"installable", "update", "appliance"}
    BY IsoJobAssumption DEF IsoJobAssumption, Init
  <2>2. tarEnd \in IF kind = "appliance" THEN TarSizes ELSE {0}
    BY DEF Init
  <2>3. tarEnd \in Nat
    BY <2>2, IsoJobAssumption DEF IsoJobAssumption
  <2> QED BY <2>1, <2>3 DEF Init
<1>2. Final \in Nat /\ Final > 5 /\ Isos \in Nat /\ Isos > 1
  BY DEF Final, Isos
<1>3. Made
  BY <1>1, <1>2 DEF Made
<1>4. Cut
  <2>1. chunkSize \in Nat
    BY IsoJobAssumption DEF IsoJobAssumption
  <2>2. 0 * chunkSize = 0
    BY <2>1
  <2> QED BY <1>1, <2>2 DEF Cut
<1>5. Listed
  <2>1. MaxDiscs \in Nat
    BY IsoJobAssumption DEF IsoJobAssumption
  <2> QED BY <1>1, <1>2, <2>1 DEF Listed
<1> QED BY <1>3, <1>4, <1>5 DEF Whole

(* The steps are gone through in their order, none is left out, and what   *)
(* one of them made, or lost unseen, is there or known as lost when the    *)
(* next ones run; the chunks follow the reading of the tarball, and the    *)
(* list of ISOs gets one line for each disc, that of the first in front.   *)
THEOREM WholeHolds == Spec => []Whole
BY WholeInit, WholeStep, PTL DEF Spec

\* When the last step is reached the medium holds all that is needed.
LEMMA MediumIsWhole ==
  ASSUME Whole
  PROVE  PostedIsWhole
<1> SUFFICES ASSUME verdict = "posted"
             PROVE  /\ \A part \in Needed : part \in tree \cup (unseen \cap Unchecked)
                    /\ kind # "appliance" => Signers \subseteq keyring \/ "gpg" \in unseen
                    /\ kind = "appliance" => tell >= tarEnd
  <2>1. tell >= tarEnd => ChunksAreTarball
    <3>1. tarEnd \in Nat /\ tell \in Nat /\ chunks \in Seq(Nat) /\ chunkSize \in Nat
      BY IsoJobAssumption DEF Whole, Cut, IsoJobAssumption
    <3>2. Len(chunks) * chunkSize \in Nat /\ tell <= Len(chunks) * chunkSize
      BY <3>1 DEF Whole, Cut
    <3> QED BY <3>1, <3>2 DEF Whole, Cut, ChunksAreTarball
  <2> QED BY <2>1 DEF PostedIsWhole
<1>1. step = Final /\ \A i \in 1 .. step - 1 : Held(Steps(kind)[i])
  BY DEF Whole, Made
<1>2. CASE kind = "installable"
  <2>1. \A i \in 1 .. 19 : Held(Steps(kind)[i])
    BY <1>1, <1>2 DEF Final
  <2>2. /\ Steps(kind)[3] = "prepare" /\ Steps(kind)[4] = "changesets"
        /\ Steps(kind)[5] = "lists" /\ Steps(kind)[6] = "discinfo" /\ Steps(kind)[8] = "keys"
        /\ Steps(kind)[10] = "stamp" /\ Steps(kind)[11] = "artwork"
        /\ Steps(kind)[12] = "menu" /\ Steps(kind)[14] = "cramfs"
    BY <1>2 DEF Steps
  <2>3. /\ Held("prepare") /\ Held("changesets") /\ Held("lists") /\ Held("discinfo")
        /\ Held("keys") /\ Held("stamp") /\ Held("artwork") /\ Held("menu") /\ Held("cramfs")
    BY <2>1, <2>2
  <2> QED BY <1>2, <2>3 DEF Held, Needed, Unchecked
<1>3. CASE kind = "update"
  <2>1. \A i \in 1 .. 10 : Held(Steps(kind)[i])
    BY <1>1, <1>3 DEF Final
  <2>2. /\ Steps(kind)[1] = "changesets" /\ Steps(kind)[2] = "lists"
        /\ Steps(kind)[3] = "discinfo" /\ Steps(kind)[5] = "keys"
    BY <1>3 DEF Steps
  <2>3. Held("changesets") /\ Held("lists") /\ Held("discinfo") /\ Held("keys")
    BY <2>1, <2>2
  <2> QED BY <1>3, <2>3 DEF Held, Needed, Unchecked
<1>4. CASE kind = "appliance"
  <2>1. \A i \in 1 .. 20 : Held(Steps(kind)[i])
    BY <1>1, <1>4 DEF Final
  <2>2. /\ Steps(kind)[1] = "install" /\ Steps(kind)[2] = "tar" /\ Steps(kind)[3] = "chunks"
        /\ Steps(kind)[4] = "tblist" /\ Steps(kind)[7] = "prepare"
        /\ Steps(kind)[8] = "discinfo" /\ Steps(kind)[11] = "stamp"
        /\ Steps(kind)[12] = "artwork" /\ Steps(kind)[13] = "menu"
        /\ Steps(kind)[15] = "cramfs"
    BY <1>4 DEF Steps
  <2>3. /\ Held("install") /\ Held("tar") /\ Held("chunks") /\ Held("tblist")
        /\ Held("prepare") /\ Held("discinfo") /\ Held("stamp") /\ Held("artwork")
        /\ Held("menu") /\ Held("cramfs")
    BY <2>1, <2>2
  <2> QED BY <1>4, <2>3 DEF Held, Needed, Unchecked
<1> QED BY <1>2, <1>3, <1>4 DEF Whole, Made

LEMMA ListIsThere ==
  ASSUME Whole
  PROVE  PostedIsThere
<1> SUFFICES ASSUME verdict = "posted" PROVE PostedIsThere
  BY DEF PostedIsThere
<1>1. step = Final /\ Isos \in Nat /\ step > Isos + 1 /\ step > Isos
  BY DEF Whole, Made, Isos, Final
<1>2. ASSUME NEW i \in DOMAIN isoList
      PROVE  \E f \in IsoOf(isoList[i]) : Sound(f)
  <2>1. PICK f \in IsoOf(isoList[i]) : TRUE
    BY <1>1 DEF Whole, Listed
  <2>2. f \in files
    BY <2>1 DEF IsoOf
  <2>3. Sound(f)
    BY <2>2 DEF Whole, Listed
  <2> QED BY <2>1, <2>3
<1>3. \A d \in 1 .. discs : \E i \in DOMAIN isoList :
        isoList[i].disc = d /\ isoList[i].name \in {"disc", "dvd"}
  BY <1>1 DEF Whole, Listed
<1>4. \A i, j \in DOMAIN isoList : isoList[i].disc = isoList[j].disc =>
        i = j \/ isoList[i].disc = 0
  BY DEF Whole, Listed
<1>5. isoList[1].disc = 1
  <2>1. discs \in 0 .. MaxDiscs /\ discs > 0 /\ isoList \in Seq(Entry)
    <3>1. step >= Isos
      BY <1>1 DEF Whole, Made, Final
    <3> QED BY <3>1 DEF Whole, Listed
  <2>2. PICK i \in DOMAIN isoList : isoList[i].disc = 1
    <3>1. 1 \in 1 .. discs
      BY <2>1, IsoJobAssumption DEF IsoJobAssumption
    <3> QED BY <1>3, <3>1
  <2>3. isoList # <<>>
    BY <2>2
  <2> QED BY <2>3 DEF Whole, Listed
<1> QED BY <1>2, <1>3, <1>4, <1>5 DEF PostedIsThere

(* What a job posts can be installed from, for any number of discs however *)
(* their names are sorted, any size of the tarball and of its chunks and   *)
(* any signatures: every part of its medium, every key, every byte of the  *)
(* tarball, one line and a sound ISO for every disc, the first disc's      *)
(* bootable and in front; but for what was lost in a command whose exit    *)
(* status nobody reads, which the statement names.                         *)
THEOREM PostedIsUsableHolds == Spec => []PostedIsUsable
<1>1. Whole => PostedIsUsable
  BY MediumIsWhole, ListIsThere DEF PostedIsUsable
<1> QED BY <1>1, WholeHolds, PTL
=============================================================================
