------------------------------ MODULE MCGrubScan ------------------------------
(***************************************************************************)
(* A small instance of GrubScan: a disk with two partitions, and the trees *)
(* that make a difference to the walk.                                     *)
(***************************************************************************)
EXTENDS GrubScan

MCSys == <<"sda", "sda1", "sda2">>
MCUuids == {"1a2b-3c4d", "cafe", "beef"}
MCHexWords == {"cafe", "beef"}

Unformatted == [fields |-> 11, numeric |-> TRUE, opens |-> TRUE, vfat |-> NoUuid, ext4 |-> NoUuid]
Ext4(u) == [Unformatted EXCEPT !.ext4 = u, !.fields = 17]
Media(a, b, c) == [d \in SysDevices |-> CASE d = "sda" -> a [] d = "sda1" -> b [] d = "sda2" -> c]

\* Two file systems; two copies of one; an old ext4 one under a new vfat one;
\* a device that cannot be read, or whose stat file is too short.
MCMedias ==
  {Media(Unformatted, Ext4("beef"), Ext4("cafe")),
   Media(Ext4("cafe"), Ext4("beef"), Ext4("cafe")),
   Media(Unformatted, [Ext4("cafe") EXCEPT !.vfat = "1a2b-3c4d"],
         [Ext4("beef") EXCEPT !.opens = FALSE]),
   Media(Unformatted, [Ext4("beef") EXCEPT !.fields = 10], Ext4("cafe"))}

MCWords == {"menuentry", "search", "--set=root", "cafe", "beef", "linux", "initrd",
            "multiboot2", "module", "vmlinuz", "\\$root", "$root", "}", "initrd"}
MCPlain == [w \in MCWords |-> IF w = "\\$root" THEN "$root" ELSE w]
MCCfgs ==
  {<<"menuentry">>, <<"search", "--set=root", "beef", "cafe">>, <<"search", "beef">>,
   <<"search", "--set=root", "beef">>, <<"linux">>, <<"linux", "vmlinuz", "\\$root">>,
   <<"initrd", "initrd">>, <<"multiboot2", "vmlinuz">>,
   <<"module", "initrd", "$root">>, <<"}">>}

MCNames == {"boot", "boot~", "home", "EFI", "a", "grub.cfg", "grub2.cfg"}
MCSearchDirs == {"boot", "EFI"}
MCStripped == [x \in MCNames |-> IF x = "boot~" THEN "boot" ELSE x]

\* The order by ranks is that of sorting.
ASSUME InOrderSorts == \A J \in SUBSET (1..6) : InOrder(J) = SetToSortSeq(J, <)

Dir(p) == [path |-> p, dir |-> TRUE]
File(p) == [path |-> p, dir |-> FALSE]
Deep(k) == <<"EFI">> \o [i \in 1..(k - 1) |-> "a"]

MCTrees ==
  {<<Dir(<<>>), File(<<"grub.cfg">>)>>,
   <<Dir(<<>>), Dir(<<"boot">>), File(<<"boot", "grub2.cfg">>), File(<<"grub2.cfg">>)>>,
   <<Dir(<<>>), Dir(<<"boot~">>), File(<<"boot~", "grub.cfg">>),
     Dir(<<"boot">>), File(<<"boot", "grub2.cfg">>)>>,
   <<Dir(<<>>), Dir(<<"boot~">>), File(<<"boot~", "grub.cfg">>),
     Dir(<<"boot">>), File(<<"boot", "grub.cfg">>)>>,
   <<Dir(<<>>), Dir(<<"home">>), Dir(<<"home", "boot">>), File(<<"home", "boot", "grub.cfg">>),
     File(<<"home", "grub.cfg">>), File(<<"a">>)>>,
   <<Dir(<<>>), Dir(Deep(1)), Dir(Deep(2)), Dir(Deep(3)), Dir(Deep(4)), Dir(Deep(5)),
     File(Append(Deep(5), "grub.cfg")), File(Append(Deep(4), "grub.cfg")),
     File(Append(Deep(1), "grub2.cfg"))>>}
================================================================================
