----------------------------- MODULE MCBootConfig -----------------------------
(***************************************************************************)
(* A small instance of BootConfig: one configuration of each shape the     *)
(* code tells apart, two of them invalid, over four paths.                 *)
(***************************************************************************)
EXTENDS BootConfig

CONSTANTS vmlinuz, initrd, xen, dir

MCFiles == {vmlinuz, initrd, xen, dir}
MCDirs == {dir}

Empty == [kernel |-> NoFile, initramfs |-> NoFile, multiboot |-> NoFile,
          modules |-> {}, devicetree |-> NoFile]

KernelOnly == [Empty EXCEPT !.kernel = vmlinuz]
KernelAndInitrd == [KernelOnly EXCEPT !.initramfs = initrd, !.devicetree = dir]
KernelAndDir == [KernelOnly EXCEPT !.initramfs = dir]
Multiboot == [Empty EXCEPT !.multiboot = xen,
                           !.modules = {[path |-> vmlinuz, args |-> TRUE],
                                        [path |-> initrd, args |-> FALSE]}]
Both == [KernelOnly EXCEPT !.multiboot = xen]

MCConfigs == {KernelOnly, KernelAndInitrd, KernelAndDir, Multiboot, Both, Empty}
==============================================================================
