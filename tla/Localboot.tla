------------------------------- MODULE Localboot -------------------------------
(***************************************************************************)
(* The localboot command (localboot/main.go), run again and again as uinit *)
(* and the boot entries do.  In GRUB mode it mounts the block devices, or  *)
(* the one that -guid names, scans them for GRUB configurations and boots  *)
(* these in turn; in path mode it mounts the device that -guid names and   *)
(* boots -kernel.  Each process is sequential: what makes it hard is what  *)
(* it leaves behind, in the mount table and in the kernel, for the next.   *)
(*                                                                         *)
(* A path is a pair <<device, name>>: the name, under the device's mount   *)
(* point.  With the empty name it is the mount point itself.               *)
(***************************************************************************)
EXTENDS Naturals, Integers, Sequences, FiniteSets, SequencesExt

CONSTANTS
  NoImage, NoFile, NoName, NoGuid, MaxFds,
  Devices,      \* what GetBlockStats lists, in its order
  Names,        \* file names, relative to a mount point
  Content,      \* the paths that exist
  Table,        \* partition table entries [disk, type, part]
  GrubConfigs,  \* for each device, what its GRUB configurations parse to
  CommandLines, \* the flags localboot is started with
  MaxRuns       \* bound on the number of times it is started

DeviceSet == Range(Devices)
Paths == DeviceSet \X (Names \cup {NoName})
MountPoints == DeviceSet \X {NoName}

CommandLineType ==
  [grub      : BOOLEAN,
   kernel    : Names \cup {NoName},
   initramfs : Names \cup {NoName},
   guid      : {e.type : e \in Table} \cup {NoGuid},
   config    : Int,
   dryrun    : BOOLEAN]

\* BootPathMode: path.Join of the mount point with the flags.  Joining the
\* empty string gives the mount point.
PathConfig(d, f) ==
  [kernel |-> <<d, f.kernel>>, initramfs |-> <<d, f.initramfs>>,
   multiboot |-> NoFile, modules |-> {}, devicetree |-> NoFile]

\* The zero value of a BootConfig, before the first call of Boot.
Unset == [kernel |-> NoFile, initramfs |-> NoFile, multiboot |-> NoFile,
          modules |-> {}, devicetree |-> NoFile]

GrubFound == UNION {Range(GrubConfigs[d]) : d \in DeviceSet}
AllConfigs ==
  {Unset} \cup GrubFound \cup {PathConfig(d, f) : d \in DeviceSet, f \in CommandLines}

VARIABLES
  image, running, fresh,                             \* of Kexec
  bpc, bcfg, fds, leaks, recorded, measured, lost,  \* of BootConfig
  attached,  \* the devices that are still there
  mnt,       \* mount table: how often each device is mounted on its own path
  pc,        \* where the process stands
  flags,     \* its command line
  mounted,   \* local variable mounted: the devices it has mounted
  found,     \* local variable bootconfigs
  n,         \* loop index, from 1: device in "mount", "scan"; config in "boot"
  runs,      \* history: processes started
  mnt0,      \* history: the mount table when this process was started
  tried      \* history: positions in found whose Boot has returned

processVars == <<mounted, found, n, tried>>
startVars == <<flags, runs, mnt0>>
mediaVars == <<attached, mnt>>
bcVars == <<image, running, fresh, bpc, bcfg, fds, leaks, recorded, measured, lost>>
vars == <<bcVars, mediaVars, pc, startVars, processVars>>

\* Only what is mounted, on a device that is there, can be read.
Readable == {p \in Content : mnt[p[1]] > 0 /\ p[1] \in attached}

BC == INSTANCE BootConfig WITH Files <- Paths, Dirs <- MountPoints,
                               Configs <- AllConfigs, present <- Readable

\* /sys/class/block lists each device once; no file and no GUID of a partition
\* table has the empty name; the paths and images are what BootConfig expects.
ASSUME LocalbootAssumption ==
  /\ Devices \in Seq(DeviceSet) /\ IsInjective(Devices)
  /\ NoName \notin Names /\ NoFile \notin Paths
  /\ NoGuid \notin {e.type : e \in Table}
  /\ NoImage \notin BC!ConfigType /\ MaxFds \in Nat
  /\ Content \subseteq Paths /\ MountPoints \subseteq Content
  /\ Table \subseteq [disk : DeviceSet, type : {e.type : e \in Table}, part : DeviceSet]
  /\ GrubConfigs \in [DeviceSet -> Seq(BC!ConfigType)]
  /\ \A d \in DeviceSet : \A c \in Range(GrubConfigs[d]) : BC!IsValid(c)
  /\ CommandLines \subseteq CommandLineType
  /\ MaxRuns \in Nat \ {0}

---------------------------------------------------------------------------
Start(f) ==
  /\ pc = "start" /\ flags = f
  /\ mounted = <<>> /\ found = <<>> /\ n = 1 /\ tried = {}

Init ==
  /\ BC!BootInit(Unset)
  /\ attached = DeviceSet
  /\ mnt = [d \in DeviceSet |-> 0] /\ mnt0 = mnt
  /\ \E f \in CommandLines : Start(f)
  /\ runs = 1

At(label) == BC!FirmwareRuns /\ pc = label

\* The flags are checked, except that with neither -grub nor -kernel the
\* devices are listed first.  log.Fatal is os.Exit(1), as is the regular end.
AfterStart(f) ==
  CASE f.grub /\ f.kernel # NoName       -> "exit"
    [] f.grub /\ f.kernel = NoName       -> IF f.guid = NoGuid THEN "mount" ELSE "mountByGUID"
    [] ~f.grub /\ f.kernel # NoName      -> "mountByGUID"
    [] OTHER                             -> "exit"

\* GetBlockStats and GetSupportedFilesystems fail fatally.
CheckFlags ==
  /\ At("start")
  /\ pc' \in {AfterStart(flags), "exit"}
  /\ UNCHANGED <<bcVars, mediaVars, startVars, processVars>>

Mount(d) ==
  /\ d \in attached
  /\ mnt' = [mnt EXCEPT ![d] = @ + 1]
  /\ mounted' = Append(mounted, d)

\* One device of the loop; a device that does not mount is skipped.
MountNext ==
  /\ At("mount") /\ n <= Len(Devices)
  /\ Mount(Devices[n]) \/ UNCHANGED <<mnt, mounted>>
  /\ n' = n + 1
  /\ UNCHANGED <<bcVars, attached, pc, startVars, found, tried>>

MountDone ==
  /\ At("mount") /\ n > Len(Devices)
  /\ pc' = "scan" /\ n' = 1
  /\ UNCHANGED <<bcVars, mediaVars, startVars, mounted, found, tried>>

\* storage.PartitionsByGUID, as positions in Devices: it compares partition
\* types, and returns the disk whose table has the match, in the order of the
\* devices.  A device that cannot be read is skipped.
PartitionsByGUID(guid) ==
  {i \in 1..Len(Devices) :
     Devices[i] \in attached /\ \E e \in Table : e.disk = Devices[i] /\ e.type = guid}

\* mountByGUID takes the first; with none, or if it does not mount, the
\* caller returns an error.
MountByGUID ==
  /\ At("mountByGUID")
  /\ LET partitions == PartitionsByGUID(flags.guid)
     IN \/ /\ \E i \in partitions :
                /\ \A j \in partitions : i <= j
                /\ Mount(Devices[i])
           /\ pc' = IF flags.grub THEN "scan" ELSE "path"
        \/ pc' = "exit" /\ UNCHANGED <<mnt, mounted>>
  /\ UNCHANGED <<bcVars, attached, startVars, found, n, tried>>

\* Mutants: every device is unmounted, mounted or not; nothing is.
UnmountAll ==
  IF flags.guid = NoGuid THEN mnt' = [d \in DeviceSet |-> mnt[d] - 1] ELSE UNCHANGED mnt
UnmountNothing == UNCHANGED mnt

\* The deferred unmounts, which exist only when all devices were mounted.
Unmount ==
  IF flags.guid = NoGuid
  THEN mnt' = [d \in DeviceSet |-> IF d \in Range(mounted) THEN mnt[d] - 1 ELSE mnt[d]]
  ELSE UNCHANGED mnt

\* The body of a finished BootGrubMode: its result is only logged.
GrubReturns == pc' = "exit" /\ Unmount

\* ScanGrubConfigs on one mount point.  An error of the walk ends it early,
\* with the configurations found so far.
ScanNext ==
  /\ At("scan") /\ n <= Len(mounted)
  /\ \E k \in 0..Len(GrubConfigs[mounted[n]]) :
       found' = found \o SubSeq(GrubConfigs[mounted[n]], 1, k)
  /\ n' = n + 1
  /\ UNCHANGED <<bcVars, mediaVars, pc, startVars, mounted, tried>>

\* Whether a configuration will be booted: one was found, -config is not beyond
\* the end, and this is no dry run.
Boots == found # <<>> /\ flags.config < Len(found) /\ ~flags.dryrun

\* Mutants: the index counts from 1; the devices are unmounted too early.
FirstFromOne == IF flags.config > -1 THEN flags.config ELSE 1
StartBootingUnmounted == pc' = "boot" /\ Unmount

First == IF flags.config > -1 THEN flags.config + 1 ELSE 1

StartBooting == pc' = "boot" /\ UNCHANGED mnt

ScanDone ==
  /\ At("scan") /\ n > Len(mounted)
  /\ \/ ~Boots /\ GrubReturns /\ UNCHANGED n
     \/ Boots /\ StartBooting /\ n' = First
  /\ UNCHANGED <<bcVars, attached, startVars, mounted, found, tried>>

\* Boot one configuration; Boot is in progress until bpc is "idle" again.
BootGrub ==
  /\ At("boot") /\ n <= Len(found)
  /\ UNCHANGED <<mediaVars, startVars, processVars>>
  /\ BC!BootCall(found[n]) /\ pc' = "booting"

\* Mutant: off by one, -1 is taken for an index.
IndexedAlways == flags.config >= -1

Indexed == flags.config > -1

\* An error of Boot is logged and the loop goes on.  With -config no other
\* configuration is tried.
BootGrubReturned ==
  /\ At("booting") /\ bpc = "idle" /\ flags.grub
  /\ tried' = tried \cup {n}
  /\ IF Indexed
     THEN GrubReturns /\ UNCHANGED n
     ELSE pc' = "boot" /\ n' = n + 1 /\ UNCHANGED mnt
  /\ UNCHANGED <<bcVars, attached, startVars, mounted, found>>

NoneSucceeded ==
  /\ At("boot") /\ n > Len(found)
  /\ GrubReturns
  /\ UNCHANGED <<bcVars, attached, startVars, processVars>>

\* BootPathMode after the mount, which nothing undoes.
BootPath ==
  /\ At("path")
  /\ UNCHANGED <<mediaVars, startVars, processVars>>
  /\ IF flags.dryrun
     THEN pc' = "exit" /\ UNCHANGED bcVars
     ELSE pc' = "booting" /\ BC!BootCall(PathConfig(mounted[1], flags))

BootPathReturned ==
  /\ At("booting") /\ bpc = "idle" /\ ~flags.grub
  /\ pc' = "exit"
  /\ UNCHANGED <<bcVars, mediaVars, startVars, processVars>>

\* BootConfig.Boot runs as part of the process.
BootRuns == UNCHANGED <<mediaVars, pc, startVars, processVars>> /\ BC!BootStep

Process ==
  \/ CheckFlags \/ MountNext \/ MountDone \/ MountByGUID \/ ScanNext \/ ScanDone
  \/ BootGrub \/ BootGrubReturned \/ NoneSucceeded \/ BootPath \/ BootPathReturned
  \/ BootRuns

\* Another process is started; the kernel keeps the image and the mounts,
\* and closes the descriptors of the old process.
Restart ==
  /\ At("exit") /\ runs < MaxRuns
  /\ runs' = runs + 1 /\ mnt0' = mnt
  /\ flags' \in CommandLines
  /\ pc' = "start" /\ mounted' = <<>> /\ found' = <<>> /\ n' = 1 /\ tried' = {}
  /\ fds' = 0 /\ leaks' = 0 /\ fresh' = FALSE
  /\ UNCHANGED <<image, running, bpc, bcfg, recorded, measured, lost, mediaVars>>

Detach ==
  /\ BC!FirmwareRuns
  /\ \E d \in attached : attached' = attached \ {d}
  /\ UNCHANGED <<bcVars, mnt, pc, startVars, processVars>>

Next == Process \/ Restart \/ Detach

\* A process that runs keeps running; nobody is obliged to start another.
Spec == Init /\ [][Next]_vars /\ WF_vars(Process)
---------------------------------------------------------------------------
\* Types of the variables.
TypeOK ==
  /\ BC!TypeOK
  /\ attached \subseteq DeviceSet
  /\ mnt \in [DeviceSet -> Nat] /\ mnt0 \in [DeviceSet -> Nat]
  /\ pc \in {"start", "mount", "mountByGUID", "scan", "boot", "booting", "path", "exit"}
  /\ flags \in CommandLines
  /\ mounted \in Seq(DeviceSet) /\ found \in Seq(AllConfigs)
  /\ n \in Nat \ {0} /\ runs \in 1..MaxRuns
  /\ tried \subseteq 1..Len(found)

\* A process that mounted all devices leaves the mount table as it found it,
\* whichever of its returns it took; one with -guid leaves at most one mount
\* behind, and none unmounts what another process left: mounts pile up by one
\* for each run with -guid, not faster (localboot/main.go:101-112, 186).
MountsRestored ==
  LET changed == {d \in DeviceSet : mnt[d] # mnt0[d]}
  IN pc = "exit" =>
       /\ flags.guid = NoGuid => changed = {}
       /\ Cardinality(changed) <= 1
       /\ \A d \in changed : mnt[d] = mnt0[d] + 1

\* While Boot runs, all that the process mounted is still mounted: the
\* deferred unmounts never come between the choice of a configuration and
\* its load (localboot/main.go:101-106, 138, 156, 202).
BootsWhileMounted ==
  bpc # "idle" => \A d \in Range(mounted) : mnt[d] > mnt0[d]

\* The machine only ever runs what the process that rebooted it loaded from
\* the configuration it was told to boot: the one -config names, or in GRUB
\* mode without it one all whose predecessors have failed, or the path of the
\* flags; and never in a dry run.  An image of an earlier configuration or
\* process never runs (localboot/main.go:120-158, 191-206).
RunsTheSelection ==
  running # NoImage =>
    /\ running = BC!ImageOf(bcfg) /\ fresh /\ ~flags.dryrun
    /\ IF flags.grub
       THEN /\ bcfg = found[n]
            /\ IF flags.config < 0 THEN tried = 1..(n - 1) ELSE n = flags.config + 1
       ELSE bcfg = PathConfig(mounted[1], flags)

\* A process in GRUB mode that returns without -dryrun and -config (or
\* with a negative one) has tried every configuration it found
\* (localboot/main.go:154-159).
TriesAllFound ==
  pc = "exit" /\ flags.grub /\ ~flags.dryrun /\ flags.config < 0
    => tried = 1..Len(found)

\* localboot is a boot command as uinit expects it.
Command == INSTANCE BootCommand WITH
  Images <- {BC!ImageOf(c) : c \in AllConfigs},
  status <- IF pc = "exit" THEN "idle" ELSE "running"
IsABootCommand == Command!CommandSpec

---------------------------------------------------------------------------
(* What a comment of the code says of the program and it does not do.      *)

\* "looks for a partition with the given GUID, and tries to mount it":
\* localboot/main.go:32.
MountsThePartition ==
  \A i \in 1..Len(mounted) : flags.guid # NoGuid =>
    \E e \in Table : e.type = flags.guid /\ e.part = mounted[i]
==============================================================================
