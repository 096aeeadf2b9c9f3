------------------------------ MODULE BootConfig ------------------------------
(***************************************************************************)
(* pkg/bootconfig: one call of BootConfig.Boot after another.  A call      *)
(* measures the configuration and its files, opens and loads what it       *)
(* names, and asks the kernel to reboot into it.  It is one goroutine, but *)
(* the media it reads can go away, every system call can fail, and the     *)
(* loaded image outlives the call (module Kexec).                          *)
(*                                                                         *)
(* An image is the configuration it was loaded from, without what the code *)
(* never hands to the kernel.  Names and command lines are left out.       *)
(***************************************************************************)
EXTENDS Kexec, Naturals

CONSTANTS
  Files,    \* the paths a configuration can name
  NoFile,   \* the empty string of an unset field
  Dirs,     \* the paths that open as directories
  Configs,  \* the configurations Boot is called with
  MaxFds    \* the limit on open descriptors of the process

ConfigType ==
  [kernel     : Files \cup {NoFile},
   initramfs  : Files \cup {NoFile},
   multiboot  : Files \cup {NoFile},
   modules    : SUBSET [path : Files, args : BOOLEAN],
   devicetree : Files \cup {NoFile}]

ASSUME BootConfigAssumption ==
  /\ NoFile \notin Files
  /\ Dirs \subseteq Files
  /\ Configs \subseteq ConfigType
  /\ NoImage \notin ConfigType
  /\ MaxFds \in Nat

VARIABLES
  present,   \* the paths that can be read; a medium may be detached
  bpc,       \* where the call of Boot stands
  bcfg,      \* its receiver
  fds,       \* open file descriptors of the process
  leaks,     \* history: those whose call of Boot has returned
  recorded,  \* history: of bcfg and PCR 8 in this call: "no", "extended", "lost"
  measured,  \* history: the files this call has extended PCR 7 with
  lost       \* history: those that were there, but could not be measured

measureVars == <<recorded, measured, lost>>
bootVars == <<bpc, bcfg, fds, leaks, measureVars>>
vars == <<kexecVars, present, bootVars>>

---------------------------------------------------------------------------
\* IsValid: exactly one of a kernel and a multiboot kernel.
IsValid(c) == (c.kernel = NoFile) # (c.multiboot = NoFile)

\* Mutant: the initramfs is forgotten.
FileNamesKernelOnly(c) == {c.kernel} \ {NoFile}

\* fileNames.  A module with arguments is the string "path args" there: no
\* file has that name.  Neither has the empty string of an unset field.
FileNames(c) ==
  ({c.kernel, c.initramfs} \ {NoFile})
    \cup {m.path : m \in {m \in c.modules : ~m.args}}

\* What reaches the kernel: a kernel wins over a multiboot kernel, and nothing
\* reads the device tree.
ImageOf(c) ==
  IF c.kernel # NoFile
  THEN [c EXCEPT !.multiboot = NoFile, !.modules = {}, !.devicetree = NoFile]
  ELSE [c EXCEPT !.initramfs = NoFile, !.devicetree = NoFile]

---------------------------------------------------------------------------
BootInit(c) ==
  /\ image = NoImage /\ running = NoImage /\ fresh = FALSE
  /\ bpc = "idle" /\ bcfg = c
  /\ fds = 0 /\ leaks = 0
  /\ recorded = "no" /\ measured = {} /\ lost = {}

Init == present \in SUBSET Files /\ \E c \in Configs : BootInit(c)

Goto(from, to) == FirmwareRuns /\ bpc = from /\ bpc' = to

\* Every return of Boot is an error: it closes the n descriptors its
\* deferred function knows of.
Return(n) == bpc' = "idle" /\ fds' = fds - n

BootCall(c) ==
  /\ Goto("idle", "measureData")
  /\ bcfg' = c /\ fresh' = FALSE
  /\ recorded' = "no" /\ measured' = {} /\ lost' = {}
  /\ UNCHANGED <<image, running, present, fds, leaks>>

\* TryMeasureData.  A TPM that does not open is logged, an extend that fails is
\* not even looked at: Boot goes on in any case.
MeasureData ==
  /\ Goto("measureData", "measureFiles")
  /\ recorded' \in {"extended", "lost"}
  /\ UNCHANGED <<kexecVars, present, bcfg, fds, leaks, measured, lost>>

AfterMeasuring(c) ==
  CASE c.kernel # NoFile -> "openKernel"
    [] c.kernel = NoFile /\ c.multiboot # NoFile -> "probe"
    [] OTHER -> "reboot"

\* TryMeasureFiles: without a TPM no file is measured; with one, a file that
\* cannot be read is skipped, and an extend that fails is not noticed.  A
\* directory cannot be read, and no file without a descriptor.
MeasureFiles ==
  /\ Goto("measureFiles", AfterMeasuring(bcfg))
  /\ measured' \in SUBSET (FileNames(bcfg) \cap (present \ Dirs))
  /\ measured' # {} => fds < MaxFds
  /\ lost' = (FileNames(bcfg) \cap present) \ measured'
  /\ UNCHANGED <<kexecVars, present, bcfg, fds, leaks, recorded>>

\* os.Open gives a descriptor, of a directory too, unless the process has
\* none left; it can fail for reasons of its own.
Open(f) == f \in present /\ fds < MaxFds /\ fds' = fds + 1

OpenKernel ==
  /\ FirmwareRuns /\ bpc = "openKernel"
  /\ \/ /\ Open(bcfg.kernel)
        /\ bpc' = IF bcfg.initramfs = NoFile THEN "fileLoad" ELSE "openInitramfs"
     \/ Return(0)
  /\ UNCHANGED <<kexecVars, present, bcfg, leaks, measureVars>>

\* The function that closes the kernel is deferred only after this step.
OpenInitramfs ==
  /\ FirmwareRuns /\ bpc = "openInitramfs"
  /\ \/ Open(bcfg.initramfs) /\ bpc' = "fileLoad" /\ UNCHANGED leaks
     \/ Return(0) /\ leaks' = leaks + 1
  /\ UNCHANGED <<kexecVars, present, bcfg, measureVars>>

\* Mutants: the deferred function closes what it never opened, or forgets the
\* initramfs.
HeldAlwaysBoth(c) == 2
HeldKernelOnly(c) == IF c.kernel = NoFile THEN 0 ELSE 1

\* The files that the deferred function closes.
HeldByCall(c) == IF c.kernel = NoFile THEN 0 ELSE IF c.initramfs = NoFile THEN 1 ELSE 2

\* Mutant: the error of kexec.FileLoad is ignored.
FileLoadIgnoringErrors ==
  /\ FirmwareRuns /\ bpc = "fileLoad"
  /\ bpc' = "reboot"
  /\ LoadImage(ImageOf(bcfg)) \/ UNCHANGED kexecVars
  /\ UNCHANGED <<fds, present, bcfg, leaks, measureVars>>

\* A directory opens, but the kernel does not load it.
FileLoad ==
  /\ FirmwareRuns /\ bpc = "fileLoad"
  /\ \/ /\ {bcfg.kernel, bcfg.initramfs} \cap Dirs = {}
        /\ LoadImage(ImageOf(bcfg))
        /\ bpc' = "reboot" /\ UNCHANGED fds
     \/ Return(HeldByCall(bcfg)) /\ UNCHANGED kexecVars
  /\ UNCHANGED <<present, bcfg, leaks, measureVars>>

Probe ==
  /\ FirmwareRuns /\ bpc = "probe"
  /\ \/ bcfg.multiboot \in present /\ bpc' = "loadMultiboot" /\ UNCHANGED fds
     \/ Return(0)
  /\ UNCHANGED <<kexecVars, present, bcfg, leaks, measureVars>>

LoadMultiboot ==
  /\ FirmwareRuns /\ bpc = "loadMultiboot"
  /\ \/ /\ {bcfg.multiboot} \cup {m.path : m \in bcfg.modules} \subseteq present \ Dirs
        /\ LoadImage(ImageOf(bcfg))
        /\ bpc' = "reboot" /\ UNCHANGED fds
     \/ Return(0) /\ UNCHANGED kexecVars
  /\ UNCHANGED <<present, bcfg, leaks, measureVars>>

\* kexec.Reboot does not return when it works.  When it returns, with or
\* without an error, Boot returns an error.
Reboot ==
  /\ FirmwareRuns /\ bpc = "reboot"
  /\ \/ RebootInto /\ UNCHANGED <<bpc, fds>>
     \/ Return(HeldByCall(bcfg)) /\ UNCHANGED kexecVars
  /\ UNCHANGED <<present, bcfg, leaks, measureVars>>

BootStep ==
  \/ MeasureData \/ MeasureFiles \/ OpenKernel \/ OpenInitramfs
  \/ FileLoad \/ Probe \/ LoadMultiboot \/ Reboot

\* A medium is detached: its paths cannot be opened any more.
Detach ==
  /\ FirmwareRuns
  /\ \E f \in present : present' = present \ {f}
  /\ UNCHANGED <<kexecVars, bootVars>>

\* The finalizer of a leaked os.File closes it when the collector runs.
Finalize ==
  /\ FirmwareRuns /\ leaks > 0
  /\ leaks' = leaks - 1 /\ fds' = fds - 1
  /\ UNCHANGED <<kexecVars, present, bpc, bcfg, measureVars>>

Next == (\E c \in Configs : BootCall(c)) \/ BootStep \/ Detach \/ Finalize

\* A call that has begun goes on; nothing obliges the caller, the media or
\* the collector.
Spec == Init /\ [][Next]_vars /\ WF_vars(BootStep)

---------------------------------------------------------------------------
\* Types of the variables.
TypeOK ==
  /\ image \in ConfigType \cup {NoImage} /\ running \in ConfigType \cup {NoImage}
  /\ fresh \in BOOLEAN /\ recorded \in {"no", "extended", "lost"}
  /\ present \subseteq Files
  /\ bpc \in {"idle", "measureData", "measureFiles", "openKernel", "openInitramfs",
              "fileLoad", "probe", "loadMultiboot", "reboot"}
  /\ bcfg \in Configs
  /\ fds \in Nat /\ leaks \in Nat
  /\ measured \subseteq Files /\ lost \subseteq Files

\* A valid configuration either boots itself or boots nothing: whatever an
\* earlier call left loaded in the kernel, a later call that fails half-way
\* never reboots into it (bootconfig.go:84-97, the error returns before
\* kexec.Reboot).
ValidConfigBootsItself ==
  running # NoImage /\ IsValid(bcfg) => running = ImageOf(bcfg)

\* What runs was measured first, the configuration and the kernel and initramfs
\* it runs, or that very measurement was tried and failed: the TPM did not open,
\* the file could not be read, or the extend failed, all of which the code
\* ignores.  Nothing else keeps a file that runs out of the PCRs; in particular
\* none that was away when it should have been measured (bootconfig.go:57-58
\* come before any load, measure.go:21-48).
MeasuredUnlessLost ==
  running # NoImage =>
    /\ recorded # "no"
    /\ fresh => {running.kernel, running.initramfs} \ {NoFile} \subseteq measured \cup lost

\* The descriptors the current call is answerable for.
OpenNow ==
  CASE bpc = "openInitramfs" -> 1
    [] bpc \in {"fileLoad", "reboot"} /\ bcfg.kernel # NoFile ->
         IF bcfg.initramfs = NoFile THEN 1 ELSE 2
    [] OTHER -> 0

\* Every descriptor is either held by the running call or is the kernel of a
\* call whose initramfs did not open: no other exit of Boot forgets one
\* (bootconfig.go:60-83).
LeaksOnlyAKernel == fds = leaks + OpenNow /\ fds <= MaxFds

---------------------------------------------------------------------------
(* What the comments of the code promise and the code does not do.         *)

\* "FileNames returns a slice of all filenames in the bootconfig": all files that
\* run have been measured, or their measurement failed.  bootconfig.go:35.
FilesThatRun(c) == ({c.kernel, c.initramfs, c.multiboot} \ {NoFile})
                     \cup {m.path : m \in c.modules}
AllThatRunsWasMeasured ==
  running # NoImage /\ fresh => FilesThatRun(running) \subseteq measured \cup lost
==============================================================================
