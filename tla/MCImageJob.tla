----------------------------- MODULE MCImageJob -----------------------------
(***************************************************************************)
(* ImageJob on partition schemes with nested mount points, labels that     *)
(* collide, swap partitions and mistakes, and on roots with each boot      *)
(* loader, kernels of two series, and initrds of either name.              *)
(***************************************************************************)
EXTENDS ImageJob

P(name, mount, fstype, minSize, freeSpace) ==
  [name |-> name, mount |-> mount, fstype |-> fstype, minSize |-> minSize,
   freeSpace |-> freeSpace]

SomeSchemes == {
  <<>>,
  <<P(<<>>, Root, "ext4", 0, 10), P(<<>>, <<>>, "swap", 64, 0), P(<<>>, <<>>, "swap", 32, 0)>>,
  <<P(<<"home">>, <<"/", "srv">>, "ext4", 0, 5),
    P(<<>>, <<"/", "home">>, "xfs", 300, 0), P(<<>>, <<"/", "home", "/", "a">>, "ext4", 0, 1),
    P(<<"home">>, <<>>, "unallocated", 7, 0), P(<<"home">>, <<"/", "opt">>, "ext3", 0, 2),
    P(<<>>, Root, "ext4", 0, 0), P(<<>>, Boot, "ext4", 100, 0)>>,
  <<P(<<>>, Boot, "ext4", 100, 0)>>,
  <<P(<<>>, Root, "ext4", 0, 0), P(<<>>, <<>>, "ext4", 0, 0)>>,
  <<P(<<>>, <<>>, "unallocated", 8, 0), P(<<>>, <<>>, "unallocated", 9, 0),
    P(<<>>, Root, "ext4", 0, 0)>> }

\* Of these the second is one that getImageSize does not count the swap file for.
SwapSchemes ==
  {<<P(<<>>, Root, "ext4", 0, 10)>>,
   <<P(<<>>, Root, "ext4", 0, 10), P(<<>>, <<"/", "var">>, "ext4", 0, 10)>>}

R(distro, kernels, old, rds, prefix, has) ==
  [distro |-> distro, kernels |-> kernels, old |-> old, xen |-> {2} \cap kernels,
   initrds |-> {[prefix |-> prefix, kver |-> k] : k \in rds}, has |-> has]
SomePlainRoots ==
  {R("rh", {1, 2}, {1, 2}, {1, 2}, "initramfs", {"grub", "grubby"})}
SomeRoots ==
  SomePlainRoots
  \cup {R("rh", {1, 2, 3}, {1, 2, 3}, rds, prefix, has) :
          rds \in {{}, {1}, {1, 2, 3}}, prefix \in {"initrd", "initramfs"},
          has \in {{"grub"}, {"grub", "grubby"}, {"grub", "grubby", "bootman"},
                   {"bootman", "extlinux"}, {"grub", "grub2"}}}
  \cup {R(distro, {1, 2}, {1, 2}, {}, "initrd", {"grub"}) :
          distro \in {"suse10", "suse11", "ubuntu"}}
  \cup {R("rpl", {1, 2}, {1}, {2}, "initrd", {"grub"}), R("rpl", {3}, {}, {}, "initrd", {"grub"}),
        R("rpl", {}, {}, {}, "initrd", {})}

SomeContents ==
  {[path |-> <<"/", "bin", "/", "sh">>, size |-> 120],
   [path |-> <<"/", "boot", "/", "grub">>, size |-> 60],
   [path |-> <<"/", "home", "/", "a", "/", "b">>, size |-> 33],
   [path |-> <<"/", "srv", "/", "x">>, size |-> 7]}

SomeNumerals == <<"2", "3", "4", "5", "6", "7", "8">>

\* A directory whose name goes on where that of a mount point ends.
PrefixContents == {[path |-> <<"/", "srv", "2", "/", "x">>, size |-> 120]}
PrefixSchemes == {<<P(<<>>, Root, "ext4", 0, 10), P(<<>>, <<"/", "srv">>, "ext4", 0, 10)>>}
=============================================================================
