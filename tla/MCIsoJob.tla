------------------------------ MODULE MCIsoJob ------------------------------
(***************************************************************************)
(* A bounded instance of IsoJob.  With discs numbered to the base of 3 the *)
(* third directory, disc10, comes before the second.                       *)
(***************************************************************************)
EXTENDS IsoJob

Cfg(default, marked, labels, timeout) ==
  [default |-> default, marked |-> marked, labels |-> labels, timeout |-> timeout]

\* A menu, the graphical menu, one of these with a kickstart label, and one that is not whole.
SomeTemplates ==
  {[cfg |-> Cfg("menu.c32", "linux", {"linux"}, 600), stage2 |-> "whole"],
   [cfg |-> Cfg("vesamenu.c32", "linux", {"linux"}, 600), stage2 |-> "whole"],
   [cfg |-> Cfg("vesamenu.c32", "linux", {"linux", "kscdrom"}, 600), stage2 |-> "none"],
   [cfg |-> Cfg("vesamenu.c32", "none", {"linux"}, 900), stage2 |-> "without.constants.py"]}

\* A kickstart with an isolinux.cfg in the old or the new place; cp may lose either.
SomeMedia ==
  {[parts |-> {"ks.cfg", place}, cfg |-> Cfg("linux", "none", {"linux"}, 100)] :
     place \in {"old.isolinux.cfg", "new.isolinux.cfg"}}
=============================================================================
