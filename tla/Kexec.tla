-------------------------------- MODULE Kexec --------------------------------
(***************************************************************************)
(* The kexec state of the Linux kernel, driven through                     *)
(* github.com/u-root/u-root/pkg/kexec.  This code is not in the            *)
(* repository: it is modelled from the way netboot/main.go and             *)
(* pkg/bootconfig/bootconfig.go use it.                                    *)
(*                                                                         *)
(* The loaded image belongs to the kernel, not to the process that loaded  *)
(* it: a boot command that loads an image and then dies or fails to reboot *)
(* leaves the image behind for the next boot command.                      *)
(***************************************************************************)

CONSTANTS NoImage   \* the value of image when nothing has been loaded

VARIABLES
  image,    \* what a reboot into kexec would execute
  running,  \* what was kexec'ed: NoImage while the firmware still runs
  fresh     \* history: has the current boot command loaded image itself?

kexecVars == <<image, running, fresh>>

\* The firmware's Linux is still in control of the machine.
FirmwareRuns == running = NoImage

\* A successful kexec.FileLoad or multiboot.Load replaces the loaded image;
\* an unsuccessful one leaves the previous image in place.
LoadImage(img) ==
  /\ image' = img
  /\ fresh' = TRUE
  /\ UNCHANGED running

\* A successful kexec.Reboot executes the loaded image, whoever loaded it.
\* The kernel refuses when nothing is loaded.
RebootInto ==
  /\ image # NoImage
  /\ running' = image
  /\ UNCHANGED <<image, fresh>>
==============================================================================
