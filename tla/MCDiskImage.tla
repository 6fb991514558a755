---------------------------- MODULE MCDiskImage ----------------------------
(* A root with /boot, /srv, /srv/data and a swap volume; a script that     *)
(* mounts inside the root and one that mounts below a managed mount.       *)
EXTENDS DiskImage
MCManaged == { << >>, << "boot" >>, << "srv" >>, << "srv", "data" >>,
               << "swap" >> }
MCSwap == { << "swap" >> }
MCScriptlet == { << "proc", "fs" >>, << "srv", "data", "tmp" >> }
=============================================================================
