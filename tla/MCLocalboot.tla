------------------------------ MODULE MCLocalboot ------------------------------
(***************************************************************************)
(* A small instance of Localboot: a disk that can be mounted as a whole    *)
(* (as an ISO image on a USB stick can) and its partition, a GRUB          *)
(* configuration on each, and two processes one after the other.           *)
(***************************************************************************)
EXTENDS Localboot

CONSTANTS sda, sda1, vmlinuz, initrd, linuxGuid

MCDevices == <<sda, sda1>>
MCNames == {vmlinuz, initrd}
MCContent == Paths \ {<<sda, initrd>>}
MCTable == {[disk |-> sda, type |-> linuxGuid, part |-> sda1]}

KernelOn(d) == [kernel |-> <<d, vmlinuz>>, initramfs |-> <<d, initrd>>,
                multiboot |-> NoFile, modules |-> {}, devicetree |-> NoFile]
MultibootOn(d) == [kernel |-> NoFile, initramfs |-> NoFile,
                   multiboot |-> <<d, vmlinuz>>,
                   modules |-> {[path |-> <<d, initrd>>, args |-> FALSE]},
                   devicetree |-> NoFile]
MCGrubConfigs == [d \in {sda, sda1} |->
  IF d = sda THEN <<KernelOn(sda)>> ELSE <<KernelOn(sda1), MultibootOn(sda1)>>]

Grub == [grub |-> TRUE, kernel |-> NoName, initramfs |-> NoName,
         guid |-> NoGuid, config |-> -1, dryrun |-> FALSE]
Path == [Grub EXCEPT !.grub = FALSE, !.kernel = vmlinuz, !.guid = linuxGuid]

MCCommandLines ==
  {Grub, [Grub EXCEPT !.config = 1], [Grub EXCEPT !.config = 1, !.dryrun = TRUE],
   [Grub EXCEPT !.config = -2],
   [Grub EXCEPT !.dryrun = TRUE], [Grub EXCEPT !.guid = linuxGuid],
   [Grub EXCEPT !.kernel = vmlinuz], [Grub EXCEPT !.grub = FALSE],
   Path, [Path EXCEPT !.initramfs = initrd], [Path EXCEPT !.dryrun = TRUE]}
==============================================================================
