---------------------------- MODULE LocalbootProofs ----------------------------
(***************************************************************************)
(* Proofs about localboot, for any devices, partition tables, GRUB         *)
(* configurations and command lines, and any number of processes: what it  *)
(* leaves mounted, what it boots, and that it is a boot command as uinit   *)
(* expects it.  What BootConfig.Boot does inside is cited from the proofs  *)
(* about it, instantiated as Localboot instantiates BootConfig.            *)
(***************************************************************************)
EXTENDS Localboot, FiniteSetTheorems, TLAPS

BCP == INSTANCE BootConfigProofs WITH Files <- Paths, Dirs <- MountPoints,
                                      Configs <- AllConfigs, present <- Readable

\* Which devices carry a mount of this process.
EachMountedOnce ==
  \A d \in DeviceSet : mnt[d] = IF d \in Range(mounted) THEN mnt0[d] + 1 ELSE mnt0[d]

\* The mounts of the process, until its deferred function undoes them; without
\* -guid the loop has not mounted what it has not reached; with it there is
\* one mount.
MountsKnown ==
  /\ IF pc = "exit" /\ flags.guid = NoGuid
     THEN \A d \in DeviceSet : mnt[d] = mnt0[d]
     ELSE EachMountedOnce
  /\ pc \in {"start", "mountByGUID"} => mounted = <<>>
  /\ pc = "mount" =>
       /\ flags.guid = NoGuid
       /\ \A i \in 1..Len(mounted) : \E j \in 1..Len(Devices) : j < n /\ mounted[i] = Devices[j]
  /\ flags.guid # NoGuid => Len(mounted) <= 1
  /\ pc = "path" \/ (pc = "booting" /\ ~flags.grub) => flags.guid # NoGuid

\* What each place of the process knows of its mode.
ModeKnown ==
  /\ pc \in {"mount", "scan", "boot"} => flags.grub
  /\ pc = "path" => ~flags.grub /\ Len(mounted) = 1
  /\ pc \in {"start", "mount", "mountByGUID", "path"} => found = <<>>
  /\ pc \in {"boot", "booting"} => ~flags.dryrun
  /\ bpc # "idle" => pc = "booting"

\* The configurations tried so far, and the one that Boot is working on.
SelectionKnown ==
  /\ found \in Seq(GrubFound)
  /\ pc \notin {"boot", "booting", "exit"} => tried = {}
  /\ pc \in {"boot", "booting"} /\ flags.grub =>
       IF flags.config < 0 THEN tried = 1..(n - 1) /\ n <= Len(found) + 1
       ELSE n = flags.config + 1 /\ n <= Len(found)
  /\ pc = "booting" =>
       IF flags.grub THEN n <= Len(found) /\ bcfg = found[n]
       ELSE Len(mounted) = 1 /\ bcfg = PathConfig(mounted[1], flags)

\* The types of the variables that are not Boot's.
ProcessTypes ==
  /\ attached \subseteq DeviceSet
  /\ mnt \in [DeviceSet -> Nat] /\ mnt0 \in [DeviceSet -> Nat]
  /\ pc \in {"start", "mount", "mountByGUID", "scan", "boot", "booting", "path", "exit"}
  /\ flags \in CommandLines
  /\ mounted \in Seq(DeviceSet)
  /\ n \in Nat \ {0} /\ runs \in 1..MaxRuns
  /\ tried \subseteq 1..Len(found)

ProcessInv ==
  /\ ProcessTypes /\ MountsKnown /\ ModeKnown /\ SelectionKnown /\ TriesAllFound

Inv == BCP!Inv /\ ProcessInv

---------------------------------------------------------------------------
\* The configurations are what BootConfig expects, and Boot means the same in
\* both instances.
LEMMA SameType == BC!ConfigType = BCP!ConfigType
BY DEF BC!ConfigType, BCP!ConfigType

LEMMA GrubFoundType ==
  ASSUME NEW c \in GrubFound
  PROVE  c \in BC!ConfigType /\ BC!IsValid(c) /\ c \in AllConfigs
<1>1. PICK d \in DeviceSet : c \in Range(GrubConfigs[d])
  BY DEF GrubFound
<1>2. GrubConfigs[d] \in Seq(BC!ConfigType)
  BY LocalbootAssumption
<1>3. c \in BC!ConfigType
  BY <1>1, <1>2 DEF Range
<1> QED
  BY <1>1, <1>3, LocalbootAssumption DEF AllConfigs

LEMMA PathConfigType ==
  ASSUME NEW d \in DeviceSet, NEW f \in CommandLines
  PROVE  /\ PathConfig(d, f) \in BC!ConfigType
         /\ BC!IsValid(PathConfig(d, f))
         /\ PathConfig(d, f) \in AllConfigs
<1>1. f \in CommandLineType
  BY LocalbootAssumption
<1>2. f.kernel \in Names \cup {NoName} /\ f.initramfs \in Names \cup {NoName}
  BY <1>1 DEF CommandLineType
<1>3. <<d, f.kernel>> \in Paths /\ <<d, f.initramfs>> \in Paths
  BY <1>2 DEF Paths
<1>4. PathConfig(d, f) \in BC!ConfigType
  BY <1>3 DEF PathConfig, BC!ConfigType
<1>5. PathConfig(d, f).kernel # NoFile /\ PathConfig(d, f).multiboot = NoFile
  BY <1>3, LocalbootAssumption DEF PathConfig
<1> QED
  BY <1>4, <1>5 DEF BC!IsValid, AllConfigs

LEMMA AllConfigsType == AllConfigs \subseteq BC!ConfigType
<1>1. Unset \in BC!ConfigType
  BY DEF Unset, BC!ConfigType
<1> QED
  BY <1>1, GrubFoundType, PathConfigType DEF AllConfigs

LEMMA BootAssumption == BCP!BootConfigAssumption
<1>1. MountPoints \subseteq Paths
  BY DEF MountPoints, Paths
<1> QED
  BY <1>1, AllConfigsType, SameType, LocalbootAssumption DEF BCP!BootConfigAssumption

LEMMA SameInit ==
  ASSUME NEW c, BC!BootInit(c)
  PROVE  BCP!BootInit(c)
BY DEF BC!BootInit, BCP!BootInit

LEMMA SameCall ==
  ASSUME NEW c, BC!BootCall(c)
  PROVE  BCP!BootCall(c)
BY DEF BC!BootCall, BCP!BootCall, BC!Goto, BCP!Goto, BC!FirmwareRuns, BCP!FirmwareRuns

LEMMA SameStep ==
  ASSUME BC!BootStep
  PROVE  BCP!BootStep
<1> USE DEF BC!Goto, BCP!Goto, BC!FirmwareRuns, BCP!FirmwareRuns, BC!Return, BCP!Return,
     BC!Open, BCP!Open, BC!kexecVars, BCP!kexecVars, BC!measureVars, BCP!measureVars,
     BC!HeldByCall, BCP!HeldByCall
<1>1. ASSUME NEW c PROVE BC!ImageOf(c) = BCP!ImageOf(c)
  BY DEF BC!ImageOf, BCP!ImageOf
<1>2. ASSUME NEW i PROVE BC!LoadImage(i) = BCP!LoadImage(i)
  BY DEF BC!LoadImage, BCP!LoadImage
<1>3. BC!MeasureData = BCP!MeasureData
  BY DEF BC!MeasureData, BCP!MeasureData
<1>4. BC!MeasureFiles = BCP!MeasureFiles
  BY DEF BC!MeasureFiles, BCP!MeasureFiles, BC!AfterMeasuring, BCP!AfterMeasuring,
     BC!FileNames, BCP!FileNames
<1>5. BC!OpenKernel = BCP!OpenKernel
  BY DEF BC!OpenKernel, BCP!OpenKernel
<1>6. BC!OpenInitramfs = BCP!OpenInitramfs
  BY DEF BC!OpenInitramfs, BCP!OpenInitramfs
<1>7. BC!FileLoad = BCP!FileLoad
  BY <1>1, <1>2 DEF BC!FileLoad, BCP!FileLoad
<1>8. BC!Probe = BCP!Probe
  BY DEF BC!Probe, BCP!Probe
<1>9. BC!LoadMultiboot = BCP!LoadMultiboot
  BY <1>1, <1>2 DEF BC!LoadMultiboot, BCP!LoadMultiboot
<1>10. BC!Reboot = BCP!Reboot
  BY DEF BC!Reboot, BCP!Reboot, BC!RebootInto, BCP!RebootInto
<1> QED
  BY <1>3, <1>4, <1>5, <1>6, <1>7, <1>8, <1>9, <1>10 DEF BC!BootStep, BCP!BootStep

---------------------------------------------------------------------------
\* Files are read through the mounts only.
LEMMA ReadableType == Readable \subseteq Paths
BY LocalbootAssumption DEF Readable

\* What Boot and the steps around it do to what is known about Boot.
LEMMA BootInitKeeps ==
  ASSUME BC!BootInit(Unset)
  PROVE  BCP!Inv
<1>1. Unset \in AllConfigs
  BY DEF AllConfigs
<1> QED
  BY <1>1, BootAssumption, SameInit, ReadableType, BCP!BootInitInv

LEMMA BootCallKeeps ==
  ASSUME BCP!Inv, NEW c \in AllConfigs, BC!BootCall(c)
  PROVE  BCP!Inv'
BY BootAssumption, SameCall, BCP!BootCallInv

LEMMA BootStepKeeps ==
  ASSUME BCP!Inv, BC!BootStep
  PROVE  BCP!Inv'
BY BootAssumption, SameStep, BCP!BootStepInv

LEMMA MediaKeep ==
  ASSUME BCP!Inv, UNCHANGED bcVars, bpc = "idle" \/ Readable' \subseteq Readable,
         Content \subseteq Paths
  PROVE  BCP!Inv'
<1>1. Readable' \subseteq Paths
  BY DEF Readable
<1>2. BCP!kexecVars' = BCP!kexecVars /\ BCP!bootVars' = BCP!bootVars
  BY DEF bcVars, BCP!kexecVars, BCP!bootVars, BCP!measureVars
<1> QED
  BY <1>1, <1>2, BootAssumption, BCP!FilesChangeInv

LEMMA RestartKeeps ==
  ASSUME BCP!Inv, bpc = "idle", Restart
  PROVE  BCP!Inv'
<1>1. Readable' = Readable
  BY DEF Restart, mediaVars, Readable
<1> QED
  BY <1>1, BootAssumption, BCP!ProcessEndsInv DEF Restart, BCP!measureVars

---------------------------------------------------------------------------
\* What the invariant of Boot says in the terms of this module.
LEMMA BootKnown ==
  ASSUME BCP!Inv
  PROVE  /\ BC!TypeOK
         /\ running # NoImage => bpc = "reboot" /\ running = image
         /\ fresh => image = BC!ImageOf(bcfg)
         /\ bpc = "reboot" /\ BC!IsValid(bcfg) => fresh
<1>1. BC!TypeOK
  BY SameType DEF BCP!Inv, BCP!TypeOK, BC!TypeOK
<1>2. BC!ImageOf(bcfg) = BCP!ImageOf(bcfg)
  BY DEF BC!ImageOf, BCP!ImageOf
<1>3. bpc = "reboot" /\ BC!IsValid(bcfg) => fresh
  BY DEF BC!IsValid, BCP!Inv, BCP!ImageKnown
<1> QED
  BY <1>1, <1>2, <1>3 DEF BCP!Inv, BCP!ImageKnown

\* A step of Boot is made in a call, and keeps its receiver.
LEMMA BootStepIn ==
  ASSUME BC!BootStep
  PROVE  bpc # "idle" /\ running = NoImage /\ bcfg' = bcfg
BY DEF BC!BootStep, BC!MeasureData, BC!MeasureFiles, BC!OpenKernel, BC!OpenInitramfs,
   BC!FileLoad, BC!Probe, BC!LoadMultiboot, BC!Reboot, BC!Goto, BC!FirmwareRuns

\* The arguments of a command line are what it is typed as.
LEMMA FlagTypes ==
  ASSUME NEW f \in CommandLines
  PROVE  f.config \in Int /\ f.grub \in BOOLEAN /\ f.dryrun \in BOOLEAN
BY LocalbootAssumption DEF CommandLineType

\* A device that was not mounted is mounted once more than at the start.
LEMMA MountAdds ==
  ASSUME ProcessTypes, EachMountedOnce, mnt0' = mnt0,
         NEW d \in DeviceSet, d \notin Range(mounted), Mount(d)
  PROVE  /\ mnt' \in [DeviceSet -> Nat] /\ mounted' \in Seq(DeviceSet)
         /\ EachMountedOnce'
         /\ Len(mounted') = Len(mounted) + 1
         /\ \A i \in 1..Len(mounted) : mounted'[i] = mounted[i]
         /\ mounted'[Len(mounted) + 1] = d
<1>1. /\ mounted \in Seq(DeviceSet) /\ mounted' = Append(mounted, d)
      /\ mnt \in [DeviceSet -> Nat] /\ mnt' = [mnt EXCEPT ![d] = @ + 1]
  BY DEF ProcessTypes, Mount
<1>2. /\ mounted' \in Seq(DeviceSet)
      /\ Len(mounted') = Len(mounted) + 1
      /\ \A i \in 1..Len(mounted) : mounted'[i] = mounted[i]
      /\ mounted'[Len(mounted) + 1] = d
  BY <1>1
<1>3. Range(mounted') = Range(mounted) \cup {d}
  <2>1. Range(mounted) = {mounted[i] : i \in 1..Len(mounted)}
    BY <1>1 DEF Range
  <2>2. Range(mounted') = {mounted'[i] : i \in 1..(Len(mounted) + 1)}
    BY <1>2 DEF Range
  <2>3. Len(mounted) \in Nat
    BY <1>1
  <2>4. 1..(Len(mounted) + 1) = 1..Len(mounted) \cup {Len(mounted) + 1}
    BY <2>3
  <2> QED
    BY <1>2, <2>1, <2>2, <2>4
<1>4. mnt' \in [DeviceSet -> Nat]
  BY <1>1
<1>5. ASSUME NEW e \in DeviceSet
      PROVE  mnt'[e] = IF e \in Range(mounted') THEN mnt0[e] + 1 ELSE mnt0[e]
  BY <1>1, <1>3 DEF EachMountedOnce
<1> QED
  BY <1>2, <1>4, <1>5 DEF EachMountedOnce

\* The end of BootGrubMode undoes the mounts that it made without -guid.
LEMMA GrubReturnRestores ==
  ASSUME ProcessTypes, EachMountedOnce, flags.guid # NoGuid => Len(mounted) <= 1,
         GrubReturns, UNCHANGED <<flags, mnt0, mounted>>
  PROVE  MountsKnown' /\ mnt' \in [DeviceSet -> Nat] /\ pc' = "exit"
<1>1. pc' = "exit" /\ Unmount
  BY DEF GrubReturns
<1>2. CASE flags.guid = NoGuid
  <2>1. mnt' = [d \in DeviceSet |-> IF d \in Range(mounted) THEN mnt[d] - 1 ELSE mnt[d]]
    BY <1>1, <1>2 DEF Unmount
  <2>2. ASSUME NEW d \in DeviceSet PROVE mnt'[d] = mnt0[d] /\ mnt0[d] \in Nat
    <3>1. mnt0[d] \in Nat /\ mnt[d] = IF d \in Range(mounted) THEN mnt0[d] + 1 ELSE mnt0[d]
      BY DEF ProcessTypes, EachMountedOnce
    <3>2. mnt'[d] = IF d \in Range(mounted) THEN mnt[d] - 1 ELSE mnt[d]
      BY <2>1
    <3> QED
      BY <3>1, <3>2
  <2>3. mnt' \in [DeviceSet -> Nat]
    BY <2>1, <2>2
  <2> QED
    BY <1>1, <1>2, <2>2, <2>3 DEF MountsKnown
<1>3. CASE flags.guid # NoGuid
  <2>1. mnt' = mnt
    BY <1>1, <1>3 DEF Unmount
  <2>2. EachMountedOnce'
    BY <2>1 DEF EachMountedOnce
  <2> QED
    BY <1>1, <1>3, <2>1, <2>2 DEF MountsKnown, ProcessTypes
<1> QED
  BY <1>2, <1>3

---------------------------------------------------------------------------
\* The process starts with nothing mounted, found or tried.
LEMMA NothingYet ==
  ASSUME mounted' = <<>>, found' = <<>>, n' = 1, tried' = {}, mnt0' = mnt',
         mnt' \in [DeviceSet -> Nat], pc' = "start", bpc' = "idle", attached' \subseteq DeviceSet,
         flags' \in CommandLines, runs' \in 1..MaxRuns
  PROVE  ProcessInv'
<1>1. ProcessTypes'
  BY DEF ProcessTypes
<1>2. MountsKnown'
  BY DEF MountsKnown, EachMountedOnce, Range
<1>3. SelectionKnown'
  BY DEF SelectionKnown
<1> QED
  BY <1>1, <1>2, <1>3 DEF ProcessInv, ModeKnown, TriesAllFound

LEMMA InitInv ==
  ASSUME Init
  PROVE  Inv
<1>1. /\ mounted = <<>> /\ found = <<>> /\ n = 1 /\ tried = {} /\ pc = "start"
      /\ flags \in CommandLines /\ bpc = "idle"
      /\ attached = DeviceSet /\ mnt = [d \in DeviceSet |-> 0] /\ mnt0 = mnt
  BY DEF Init, Start, BC!BootInit
<1>2. ProcessTypes
  BY <1>1, LocalbootAssumption DEF Init, ProcessTypes
<1>3. MountsKnown
  <2>1. Range(mounted) = {}
    BY <1>1 DEF Range
  <2> QED
    BY <1>1, <2>1 DEF MountsKnown, EachMountedOnce
<1>4. SelectionKnown
  BY <1>1 DEF SelectionKnown
<1> QED
  BY <1>1, <1>2, <1>3, <1>4, BootInitKeeps DEF Init, Inv, ProcessInv, ModeKnown, TriesAllFound

\* The modes that the flags choose.
LEMMA AfterStartCases ==
  \/ AfterStart(flags) \in {"exit", "mountByGUID"}
  \/ AfterStart(flags) = "mount" /\ flags.grub /\ flags.guid = NoGuid
<1>1. CASE flags.grub /\ flags.kernel # NoName
  BY <1>1 DEF AfterStart
<1>2. CASE flags.grub /\ flags.kernel = NoName
  BY <1>2 DEF AfterStart
<1>3. CASE ~flags.grub /\ flags.kernel # NoName
  BY <1>3 DEF AfterStart
<1>4. CASE ~flags.grub /\ flags.kernel = NoName
  BY <1>4 DEF AfterStart
<1> QED
  BY <1>1, <1>2, <1>3, <1>4

LEMMA CheckFlagsKeeps ==
  ASSUME ProcessInv, CheckFlags
  PROVE  ProcessInv'
<1>1. /\ pc = "start" /\ UNCHANGED <<bpc, attached, mnt, flags, runs, mnt0, mounted, found, n, tried>>
      /\ \/ pc' \in {"exit", "mountByGUID"}
         \/ pc' = "mount" /\ flags.grub /\ flags.guid = NoGuid
  BY AfterStartCases DEF CheckFlags, At, bcVars, mediaVars, startVars, processVars
<1>2. /\ mounted = <<>> /\ found = <<>> /\ tried = {} /\ bpc = "idle" /\ EachMountedOnce
  BY <1>1 DEF ProcessInv, MountsKnown, ModeKnown, SelectionKnown
<1>3. ProcessTypes'
  BY <1>1 DEF ProcessInv, ProcessTypes
<1>4. MountsKnown'
  <2>1. EachMountedOnce'
    BY <1>1, <1>2 DEF EachMountedOnce
  <2>2. \A d \in DeviceSet : mnt'[d] = mnt0'[d]
    BY <1>1, <1>2 DEF EachMountedOnce, Range
  <2> QED
    BY <1>1, <1>2, <2>1, <2>2 DEF MountsKnown
<1>5. SelectionKnown'
  BY <1>1, <1>2 DEF ProcessInv, SelectionKnown
<1>6. ModeKnown' /\ TriesAllFound'
  BY <1>1, <1>2 DEF ModeKnown, TriesAllFound
<1> QED
  BY <1>3, <1>4, <1>5, <1>6 DEF ProcessInv

\* One device of the loop: it has not been mounted before, as the list of the
\* devices names each one once.
LEMMA MountNextKeeps ==
  ASSUME ProcessInv, MountNext
  PROVE  ProcessInv'
<1>1. /\ pc = "mount" /\ n <= Len(Devices) /\ n' = n + 1
      /\ UNCHANGED <<bpc, attached, pc, flags, runs, mnt0, found, tried>>
      /\ Mount(Devices[n]) \/ UNCHANGED <<mnt, mounted>>
  BY DEF MountNext, At, bcVars, startVars
<1>2. /\ flags.guid = NoGuid /\ EachMountedOnce /\ ProcessTypes
      /\ \A i \in 1..Len(mounted) : \E j \in 1..Len(Devices) : j < n /\ mounted[i] = Devices[j]
  BY <1>1 DEF ProcessInv, MountsKnown
<1>3. /\ n \in 1..Len(Devices) /\ n' \in Nat \ {0} /\ Devices[n] \in DeviceSet
      /\ Devices \in Seq(DeviceSet) /\ mounted \in Seq(DeviceSet)
  BY <1>1, <1>2, LocalbootAssumption DEF ProcessTypes
<1>4. ASSUME Mount(Devices[n])
      PROVE  /\ mnt' \in [DeviceSet -> Nat] /\ mounted' \in Seq(DeviceSet) /\ EachMountedOnce'
             /\ Len(mounted') = Len(mounted) + 1
             /\ \A i \in 1..Len(mounted) : mounted'[i] = mounted[i]
             /\ mounted'[Len(mounted) + 1] = Devices[n]
  <2>1. Devices[n] \notin Range(mounted)
    <3>1. ASSUME NEW i \in 1..Len(mounted), mounted[i] = Devices[n] PROVE FALSE
      <4>1. PICK j \in 1..Len(Devices) : j < n /\ Devices[n] = Devices[j]
        BY <1>2, <3>1
      <4>2. n = j
        BY <1>3, <4>1, LocalbootAssumption DEF IsInjective
      <4> QED
        BY <1>3, <4>1, <4>2
    <3>2. DOMAIN mounted = 1..Len(mounted)
      BY <1>3
    <3> QED
      BY <3>1, <3>2 DEF Range
  <2> QED
    BY <1>1, <1>2, <1>3, <1>4, <2>1, MountAdds
<1>5. ProcessTypes'
  BY <1>1, <1>2, <1>3, <1>4 DEF ProcessTypes
<1>6. MountsKnown'
  <2>1. EachMountedOnce'
    BY <1>1, <1>2, <1>4 DEF EachMountedOnce
  <2>2. ASSUME NEW i \in 1..Len(mounted')
        PROVE  \E j \in 1..Len(Devices) : j < n' /\ mounted'[i] = Devices[j]
    <3>1. CASE Mount(Devices[n])
      <4>1. CASE i \in 1..Len(mounted)
        <5>1. PICK j \in 1..Len(Devices) : j < n /\ mounted[i] = Devices[j]
          BY <1>2, <4>1
        <5> QED
          BY <1>1, <1>3, <1>4, <3>1, <4>1, <5>1
      <4>2. CASE i = Len(mounted) + 1
        <5>1. mounted'[i] = Devices[n] /\ n < n'
          BY <1>1, <1>3, <1>4, <3>1, <4>2
        <5> QED
          BY <1>3, <5>1
      <4>3. Len(mounted) \in Nat /\ i \in 1..(Len(mounted) + 1)
        BY <1>3, <1>4, <3>1
      <4> QED
        BY <4>1, <4>2, <4>3
    <3>2. CASE UNCHANGED <<mnt, mounted>>
      <4>1. PICK j \in 1..Len(Devices) : j < n /\ mounted[i] = Devices[j]
        BY <1>2, <3>2
      <4> QED
        BY <1>1, <1>3, <3>2, <4>1
    <3> QED
      BY <1>1, <3>1, <3>2
  <2> QED
    BY <1>1, <1>2, <2>1, <2>2 DEF MountsKnown
<1>7. ModeKnown' /\ SelectionKnown' /\ TriesAllFound'
  BY <1>1 DEF ProcessInv, ModeKnown, SelectionKnown, TriesAllFound
<1> QED
  BY <1>5, <1>6, <1>7 DEF ProcessInv

LEMMA MountDoneKeeps ==
  ASSUME ProcessInv, MountDone
  PROVE  ProcessInv'
<1>1. /\ pc = "mount" /\ pc' = "scan" /\ n' = 1
      /\ UNCHANGED <<bpc, attached, mnt, flags, runs, mnt0, mounted, found, tried>>
  BY DEF MountDone, At, bcVars, mediaVars, startVars
<1>2. ProcessTypes'
  BY <1>1 DEF ProcessInv, ProcessTypes
<1>3. MountsKnown'
  BY <1>1 DEF ProcessInv, MountsKnown, EachMountedOnce
<1> QED
  BY <1>1, <1>2, <1>3 DEF ProcessInv, ModeKnown, SelectionKnown, TriesAllFound

\* A process that mounts nothing and gives up leaves everything as it was.
LEMMA GivesUp ==
  ASSUME ProcessInv, pc \in {"start", "mountByGUID"}, pc' = "exit",
         UNCHANGED <<bpc, attached, mnt, flags, runs, mnt0, mounted, found, n, tried>>
  PROVE  ProcessInv'
<1>1. /\ mounted = <<>> /\ found = <<>> /\ tried = {} /\ bpc = "idle" /\ EachMountedOnce
      /\ found \in Seq(GrubFound)
  BY DEF ProcessInv, MountsKnown, ModeKnown, SelectionKnown
<1>2. ProcessTypes'
  BY DEF ProcessInv, ProcessTypes
<1>3. MountsKnown'
  <2>1. Range(mounted) = {}
    BY <1>1 DEF Range
  <2> QED
    BY <1>1, <2>1 DEF MountsKnown, EachMountedOnce
<1> QED
  BY <1>1, <1>2, <1>3 DEF ProcessInv, ModeKnown, SelectionKnown, TriesAllFound

\* The disk with the GUID is the only device that is mounted; without -guid
\* there is none.
LEMMA MountByGUIDKeeps ==
  ASSUME ProcessInv, MountByGUID
  PROVE  ProcessInv'
<1>1. /\ pc = "mountByGUID" /\ UNCHANGED <<bpc, attached, flags, runs, mnt0, found, n, tried>>
      /\ \/ /\ \E i \in PartitionsByGUID(flags.guid) : Mount(Devices[i])
            /\ pc' = IF flags.grub THEN "scan" ELSE "path"
         \/ pc' = "exit" /\ UNCHANGED <<mnt, mounted>>
  BY DEF MountByGUID, At, bcVars, startVars
<1>2. /\ mounted = <<>> /\ found = <<>> /\ tried = {} /\ bpc = "idle"
      /\ EachMountedOnce /\ ProcessTypes /\ found \in Seq(GrubFound)
  BY <1>1 DEF ProcessInv, MountsKnown, ModeKnown, SelectionKnown
<1>3. CASE pc' = "exit" /\ UNCHANGED <<mnt, mounted>>
  BY <1>1, <1>3, GivesUp
<1>4. CASE /\ \E i \in PartitionsByGUID(flags.guid) : Mount(Devices[i])
           /\ pc' = IF flags.grub THEN "scan" ELSE "path"
  <2>1. PICK i \in PartitionsByGUID(flags.guid) : Mount(Devices[i])
    BY <1>4
  <2>2. i \in 1..Len(Devices) /\ flags.guid # NoGuid
    BY LocalbootAssumption DEF PartitionsByGUID
  <2>3. Devices[i] \in DeviceSet
    BY <2>2, LocalbootAssumption
  <2>4. Devices[i] \notin Range(mounted) /\ Len(mounted) = 0
    BY <1>2 DEF Range
  <2>5. /\ mnt' \in [DeviceSet -> Nat] /\ mounted' \in Seq(DeviceSet)
        /\ EachMountedOnce' /\ Len(mounted') = 1
    <3>1. Len(mounted') = Len(mounted) + 1
      BY <1>1, <1>2, <2>1, <2>3, <2>4, MountAdds
    <3> QED
      BY <1>1, <1>2, <2>1, <2>3, <2>4, <3>1, MountAdds
  <2>6. pc' \in {"scan", "path"} /\ (pc' = "path" => ~flags.grub) /\ (pc' = "scan" => flags.grub)
    BY <1>4
  <2>7. ProcessTypes'
    BY <1>1, <1>2, <2>5, <2>6 DEF ProcessTypes
  <2>8. MountsKnown'
    BY <1>1, <2>2, <2>5, <2>6 DEF MountsKnown
  <2>9. ModeKnown' /\ SelectionKnown' /\ TriesAllFound'
    BY <1>1, <1>2, <2>5, <2>6 DEF ModeKnown, SelectionKnown, TriesAllFound
  <2> QED
    BY <2>7, <2>8, <2>9 DEF ProcessInv
<1> QED
  BY <1>1, <1>3, <1>4

LEMMA ScanNextKeeps ==
  ASSUME ProcessInv, ScanNext
  PROVE  ProcessInv'
<1>1. /\ pc = "scan" /\ n <= Len(mounted) /\ n' = n + 1
      /\ UNCHANGED <<bpc, attached, mnt, pc, flags, runs, mnt0, mounted, tried>>
  BY DEF ScanNext, At, bcVars, mediaVars, startVars
<1>2. found \in Seq(GrubFound) /\ tried = {} /\ n \in 1..Len(mounted) /\ mounted[n] \in DeviceSet
  BY <1>1 DEF ProcessInv, ProcessTypes, SelectionKnown
<1>3. found' \in Seq(GrubFound)
  <2>1. PICK k \in 0..Len(GrubConfigs[mounted[n]]) :
               found' = found \o SubSeq(GrubConfigs[mounted[n]], 1, k)
    BY DEF ScanNext
  <2>2. GrubConfigs[mounted[n]] \in Seq(BC!ConfigType)
    BY <1>2, LocalbootAssumption
  <2>3. ASSUME NEW i \in 1..Len(GrubConfigs[mounted[n]])
        PROVE  GrubConfigs[mounted[n]][i] \in GrubFound
    BY <1>2, <2>2 DEF GrubFound, Range
  <2>4. GrubConfigs[mounted[n]] \in Seq(GrubFound)
    BY <2>2, <2>3
  <2>5. SubSeq(GrubConfigs[mounted[n]], 1, k) \in Seq(GrubFound)
    BY <2>4
  <2> QED
    BY <1>2, <2>1, <2>5
<1>4. ProcessTypes'
  BY <1>1, <1>2 DEF ProcessInv, ProcessTypes
<1>5. MountsKnown'
  BY <1>1 DEF ProcessInv, MountsKnown, EachMountedOnce
<1> QED
  BY <1>1, <1>2, <1>3, <1>4, <1>5 DEF ProcessInv, ModeKnown, SelectionKnown, TriesAllFound

\* The choice of what to boot, or that there is nothing to boot.
LEMMA ScanDoneKeeps ==
  ASSUME ProcessInv, ScanDone
  PROVE  ProcessInv'
<1>1. /\ pc = "scan" /\ UNCHANGED <<bpc, attached, flags, runs, mnt0, mounted, found, tried>>
      /\ \/ ~Boots /\ GrubReturns /\ UNCHANGED n
         \/ Boots /\ StartBooting /\ n' = First
  BY DEF ScanDone, At, bcVars, startVars
<1>2. /\ ProcessTypes /\ EachMountedOnce /\ (flags.guid # NoGuid => Len(mounted) <= 1)
      /\ found \in Seq(GrubFound) /\ tried = {} /\ flags.grub /\ bpc = "idle"
      /\ flags.config \in Int
  BY <1>1, FlagTypes DEF ProcessInv, ProcessTypes, MountsKnown, ModeKnown, SelectionKnown
<1>3. CASE ~Boots /\ GrubReturns /\ UNCHANGED n
  <2>1. MountsKnown' /\ mnt' \in [DeviceSet -> Nat] /\ pc' = "exit"
    BY <1>1, <1>2, <1>3, GrubReturnRestores
  <2>2. ProcessTypes'
    BY <1>1, <1>2, <1>3, <2>1 DEF ProcessTypes
  <2>3. TriesAllFound'
    <3>1. flags.dryrun \/ found = <<>> \/ flags.config >= Len(found)
      BY <1>2, <1>3 DEF Boots
    <3>2. ASSUME flags.config < 0, ~flags.dryrun PROVE found = <<>>
      BY <1>2, <3>1, <3>2
    <3> QED
      BY <1>1, <1>2, <2>1, <3>2 DEF TriesAllFound
  <2> QED
    BY <1>1, <1>2, <2>1, <2>2, <2>3 DEF ProcessInv, ModeKnown, SelectionKnown
<1>4. CASE Boots /\ StartBooting /\ n' = First
  <2>1. pc' = "boot" /\ mnt' = mnt /\ ~flags.dryrun /\ found # <<>> /\ flags.config < Len(found)
    BY <1>4 DEF StartBooting, Boots
  <2>2. IF flags.config < 0 THEN n' = 1 ELSE n' = flags.config + 1
    BY <1>2, <1>4 DEF First
  <2>3. n' \in Nat \ {0} /\ Len(found) \in Nat
    BY <1>2, <2>2
  <2>4. ProcessTypes'
    BY <1>1, <1>2, <2>1, <2>3 DEF ProcessTypes
  <2>5. MountsKnown'
    BY <1>1, <1>2, <2>1 DEF MountsKnown, EachMountedOnce
  <2>6. SelectionKnown'
    <3>1. IF flags.config < 0 THEN tried = 1..(n' - 1) /\ n' <= Len(found) + 1
          ELSE n' = flags.config + 1 /\ n' <= Len(found)
      <4>1. CASE flags.config < 0
        <5>1. n' = 1 /\ n' <= Len(found) + 1
          BY <2>2, <2>3, <4>1
        <5>2. 1..(n' - 1) = {}
          BY <5>1
        <5> QED
          BY <1>2, <4>1, <5>1, <5>2
      <4>2. CASE ~(flags.config < 0)
        BY <1>2, <2>1, <2>2, <2>3, <4>2
      <4> QED
        BY <4>1, <4>2
    <3> QED
      BY <1>1, <1>2, <2>1, <3>1 DEF SelectionKnown
  <2> QED
    BY <1>1, <1>2, <2>1, <2>4, <2>5, <2>6 DEF ProcessInv, ModeKnown, TriesAllFound
<1> QED
  BY <1>1, <1>3, <1>4

LEMMA BootGrubKeeps ==
  ASSUME ProcessInv, BootGrub
  PROVE  ProcessInv' /\ found[n] \in AllConfigs
<1>1. /\ pc = "boot" /\ n <= Len(found) /\ pc' = "booting" /\ bcfg' = found[n]
      /\ UNCHANGED <<attached, mnt, flags, runs, mnt0, mounted, found, n, tried>>
  BY DEF BootGrub, At, BC!BootCall, mediaVars, startVars, processVars
<1>2. found[n] \in GrubFound
  BY <1>1 DEF ProcessInv, ProcessTypes, SelectionKnown
<1>3. ProcessTypes'
  BY <1>1 DEF ProcessInv, ProcessTypes
<1>4. MountsKnown'
  BY <1>1 DEF ProcessInv, ModeKnown, MountsKnown, EachMountedOnce
<1>5. ModeKnown' /\ SelectionKnown' /\ TriesAllFound'
  BY <1>1 DEF ProcessInv, ModeKnown, SelectionKnown, TriesAllFound
<1> QED
  BY <1>2, <1>3, <1>4, <1>5, GrubFoundType DEF ProcessInv

\* A configuration that failed has been tried; with -config it was the only one.
LEMMA BootGrubReturnedKeeps ==
  ASSUME ProcessInv, BootGrubReturned
  PROVE  ProcessInv'
<1>1. /\ pc = "booting" /\ bpc = "idle" /\ flags.grub /\ tried' = tried \cup {n}
      /\ UNCHANGED <<bpc, bcfg, attached, flags, runs, mnt0, mounted, found>>
      /\ IF Indexed THEN GrubReturns /\ UNCHANGED n
         ELSE pc' = "boot" /\ n' = n + 1 /\ UNCHANGED mnt
  BY DEF BootGrubReturned, At, bcVars, startVars
<1>2. /\ ProcessTypes /\ EachMountedOnce /\ (flags.guid # NoGuid => Len(mounted) <= 1)
      /\ found \in Seq(GrubFound) /\ n <= Len(found) /\ n \in Nat \ {0} /\ ~flags.dryrun
      /\ IF flags.config < 0 THEN tried = 1..(n - 1) ELSE n = flags.config + 1
      /\ flags.config \in Int
  BY <1>1, FlagTypes DEF ProcessInv, ProcessTypes, MountsKnown, ModeKnown, SelectionKnown
<1>3. Len(found) \in Nat /\ n \in 1..Len(found)
  BY <1>2
<1>4. tried' \subseteq 1..Len(found')
  BY <1>1, <1>2, <1>3 DEF ProcessTypes
<1>5. CASE Indexed
  <2>1. MountsKnown' /\ mnt' \in [DeviceSet -> Nat] /\ pc' = "exit" /\ n' = n
    BY <1>1, <1>2, <1>5, GrubReturnRestores
  <2>2. ProcessTypes'
    BY <1>1, <1>2, <1>4, <2>1 DEF ProcessTypes
  <2>3. ~(flags'.config < 0)
    BY <1>1, <1>2, <1>5 DEF Indexed
  <2> QED
    BY <1>1, <1>2, <2>1, <2>2, <2>3 DEF ProcessInv, ModeKnown, SelectionKnown, TriesAllFound
<1>6. CASE ~Indexed
  <2>1. pc' = "boot" /\ n' = n + 1 /\ mnt' = mnt /\ flags.config < 0
    BY <1>1, <1>2, <1>6 DEF Indexed
  <2>2. n' \in Nat \ {0} /\ n' <= Len(found) + 1 /\ tried' = 1..(n' - 1)
    <3>1. n' \in Nat \ {0} /\ n' <= Len(found) + 1 /\ n' - 1 = n
      BY <1>2, <1>3, <2>1
    <3>2. tried = 1..(n - 1)
      BY <1>2, <2>1
    <3>3. 1..(n - 1) \cup {n} = 1..n
      BY <1>2
    <3> QED
      BY <1>1, <3>1, <3>2, <3>3
  <2>3. ProcessTypes'
    BY <1>1, <1>2, <1>4, <2>1, <2>2 DEF ProcessTypes
  <2>4. MountsKnown'
    BY <1>1, <1>2, <2>1 DEF MountsKnown, EachMountedOnce
  <2>5. SelectionKnown'
    BY <1>1, <1>2, <2>1, <2>2 DEF SelectionKnown
  <2> QED
    BY <1>1, <1>2, <2>1, <2>3, <2>4, <2>5 DEF ProcessInv, ModeKnown, TriesAllFound
<1> QED
  BY <1>5, <1>6

\* The loop ends with everything tried.
LEMMA NoneSucceededKeeps ==
  ASSUME ProcessInv, NoneSucceeded
  PROVE  ProcessInv'
<1>1. /\ pc = "boot" /\ n > Len(found) /\ GrubReturns
      /\ UNCHANGED <<bpc, bcfg, attached, flags, runs, mnt0, mounted, found, n, tried>>
  BY DEF NoneSucceeded, At, bcVars, startVars, processVars
<1>2. /\ ProcessTypes /\ EachMountedOnce /\ (flags.guid # NoGuid => Len(mounted) <= 1)
      /\ found \in Seq(GrubFound) /\ flags.grub /\ n \in Nat /\ bpc = "idle"
      /\ IF flags.config < 0 THEN tried = 1..(n - 1) /\ n <= Len(found) + 1 ELSE n <= Len(found)
  BY <1>1 DEF ProcessInv, ProcessTypes, MountsKnown, ModeKnown, SelectionKnown
<1>3. MountsKnown' /\ mnt' \in [DeviceSet -> Nat] /\ pc' = "exit"
  BY <1>1, <1>2, GrubReturnRestores
<1>4. ProcessTypes'
  BY <1>1, <1>2, <1>3 DEF ProcessTypes
<1>5. tried = 1..Len(found)
  <2>1. Len(found) \in Nat
    BY <1>2
  <2>2. n - 1 = Len(found)
    BY <1>1, <1>2, <2>1
  <2>3. tried = 1..(n - 1)
    BY <1>1, <1>2, <2>1
  <2> QED
    BY <2>2, <2>3
<1> QED
  BY <1>1, <1>2, <1>3, <1>4, <1>5 DEF ProcessInv, ModeKnown, SelectionKnown, TriesAllFound

LEMMA BootPathKeeps ==
  ASSUME ProcessInv, BootPath
  PROVE  ProcessInv' /\ PathConfig(mounted[1], flags) \in AllConfigs
<1>1. /\ pc = "path" /\ UNCHANGED <<attached, mnt, flags, runs, mnt0, mounted, found, n, tried>>
      /\ \/ flags.dryrun /\ pc' = "exit" /\ UNCHANGED <<bpc, bcfg>>
         \/ ~flags.dryrun /\ pc' = "booting" /\ bcfg' = PathConfig(mounted[1], flags)
  BY DEF BootPath, At, BC!BootCall, bcVars, mediaVars, startVars, processVars
<1>2. /\ ProcessTypes /\ Len(mounted) = 1 /\ EachMountedOnce /\ ~flags.grub /\ tried = {}
      /\ found = <<>> /\ found \in Seq(GrubFound) /\ bpc = "idle"
  BY <1>1 DEF ProcessInv, MountsKnown, ModeKnown, SelectionKnown
<1>3. mounted[1] \in DeviceSet
  <2>1. mounted \in Seq(DeviceSet) /\ 1 \in 1..Len(mounted)
    BY <1>2 DEF ProcessTypes
  <2> QED
    BY <2>1
<1>4. flags \in CommandLines /\ flags.guid # NoGuid
  BY <1>1 DEF ProcessInv, ProcessTypes, MountsKnown
<1>5. ProcessTypes'
  BY <1>1, <1>2 DEF ProcessTypes
<1>6. MountsKnown'
  BY <1>1, <1>2, <1>4 DEF MountsKnown, EachMountedOnce
<1>7. ModeKnown' /\ SelectionKnown' /\ TriesAllFound'
  BY <1>1, <1>2 DEF ModeKnown, SelectionKnown, TriesAllFound
<1> QED
  BY <1>3, <1>4, <1>5, <1>6, <1>7, PathConfigType DEF ProcessInv

LEMMA BootPathReturnedKeeps ==
  ASSUME ProcessInv, BootPathReturned
  PROVE  ProcessInv'
<1>1. /\ pc = "booting" /\ bpc = "idle" /\ ~flags.grub /\ pc' = "exit"
      /\ UNCHANGED <<bpc, bcfg, attached, mnt, flags, runs, mnt0, mounted, found, n, tried>>
  BY DEF BootPathReturned, At, bcVars, mediaVars, startVars, processVars
<1>2. ProcessTypes'
  BY <1>1 DEF ProcessInv, ProcessTypes
<1>3. MountsKnown'
  BY <1>1 DEF ProcessInv, MountsKnown, EachMountedOnce
<1> QED
  BY <1>1, <1>2, <1>3 DEF ProcessInv, ModeKnown, SelectionKnown, TriesAllFound

\* What happens inside Boot, or to the media, while the process stands still.
LEMMA StandsStill ==
  ASSUME ProcessInv, attached' \subseteq attached, bpc # "idle" \/ bpc' = bpc, bcfg' = bcfg,
         UNCHANGED <<mnt, pc, flags, runs, mnt0, mounted, found, n, tried>>
  PROVE  ProcessInv'
<1>1. ProcessTypes'
  BY DEF ProcessInv, ProcessTypes
<1>2. MountsKnown'
  BY DEF ProcessInv, MountsKnown, EachMountedOnce
<1> QED
  BY <1>1, <1>2 DEF ProcessInv, ModeKnown, SelectionKnown, TriesAllFound

LEMMA RestartStarts ==
  ASSUME ProcessInv, Restart
  PROVE  ProcessInv'
<1>1. /\ mounted' = <<>> /\ found' = <<>> /\ n' = 1 /\ tried' = {} /\ mnt0' = mnt /\ mnt' = mnt
      /\ pc = "exit" /\ pc' = "start" /\ bpc' = bpc /\ attached' = attached
      /\ flags' \in CommandLines /\ runs' = runs + 1 /\ runs < MaxRuns
  BY DEF Restart, At, mediaVars
<1>2. /\ mnt \in [DeviceSet -> Nat] /\ attached \subseteq DeviceSet
      /\ runs \in 1..MaxRuns /\ bpc = "idle"
  BY <1>1 DEF ProcessInv, ProcessTypes, ModeKnown
<1>3. runs' \in 1..MaxRuns
  BY <1>1, <1>2, LocalbootAssumption
<1> QED
  BY <1>1, <1>2, <1>3, NothingYet

---------------------------------------------------------------------------
\* Inv is an inductive invariant.
LEMMA ProcessStep ==
  ASSUME Inv, [Next]_vars
  PROVE  ProcessInv'
<1>1. ProcessInv
  BY DEF Inv
<1>2. CASE CheckFlags \/ MountNext \/ MountDone \/ MountByGUID
  BY <1>1, <1>2, CheckFlagsKeeps, MountNextKeeps, MountDoneKeeps, MountByGUIDKeeps
<1>3. CASE ScanNext \/ ScanDone
  BY <1>1, <1>3, ScanNextKeeps, ScanDoneKeeps
<1>4. CASE BootGrub \/ BootGrubReturned \/ NoneSucceeded
  BY <1>1, <1>4, BootGrubKeeps, BootGrubReturnedKeeps, NoneSucceededKeeps
<1>5. CASE BootPath \/ BootPathReturned
  BY <1>1, <1>5, BootPathKeeps, BootPathReturnedKeeps
<1>6. CASE BootRuns
  BY <1>1, <1>6, BootStepIn, StandsStill DEF BootRuns, mediaVars, startVars, processVars
<1>7. CASE Restart
  BY <1>1, <1>7, RestartStarts
<1>8. CASE Detach \/ UNCHANGED vars
  <2>1. /\ attached' \subseteq attached /\ bpc' = bpc /\ bcfg' = bcfg
        /\ UNCHANGED <<mnt, pc, flags, runs, mnt0, mounted, found, n, tried>>
    BY <1>8 DEF Detach, vars, bcVars, mediaVars, startVars, processVars
  <2> QED
    BY <1>1, <2>1, StandsStill
<1> QED
  BY <1>2, <1>3, <1>4, <1>5, <1>6, <1>7, <1>8 DEF Next, Process

LEMMA BootStays ==
  ASSUME Inv, [Next]_vars
  PROVE  BCP!Inv'
<1>1. BCP!Inv /\ ProcessInv
  BY DEF Inv
<1>2. Content \subseteq Paths
  BY LocalbootAssumption
<1>3. CASE \/ CheckFlags \/ MountNext \/ MountDone \/ MountByGUID \/ ScanNext \/ ScanDone
           \/ BootGrubReturned \/ NoneSucceeded \/ BootPathReturned
  <2>1. UNCHANGED bcVars /\ (pc # "booting" \/ bpc = "idle")
    BY <1>3 DEF CheckFlags, MountNext, MountDone, MountByGUID, ScanNext, ScanDone,
       BootGrubReturned, NoneSucceeded, BootPathReturned, At
  <2>2. bpc = "idle"
    BY <1>1, <2>1 DEF ProcessInv, ModeKnown
  <2> QED
    BY <1>1, <1>2, <2>1, <2>2, MediaKeep
<1>4. CASE BootGrub
  <2>1. BC!BootCall(found[n])
    BY <1>4 DEF BootGrub
  <2> QED
    BY <1>1, <1>4, <2>1, BootGrubKeeps, BootCallKeeps
<1>5. CASE BootPath
  <2>1. CASE BC!BootCall(PathConfig(mounted[1], flags))
    BY <1>1, <1>5, <2>1, BootPathKeeps, BootCallKeeps
  <2>2. CASE UNCHANGED bcVars
    <3>1. bpc = "idle"
      BY <1>1, <1>5 DEF BootPath, At, ProcessInv, ModeKnown
    <3> QED
      BY <1>1, <1>2, <2>2, <3>1, MediaKeep
  <2> QED
    BY <1>5, <2>1, <2>2 DEF BootPath
<1>6. CASE BootRuns
  BY <1>1, <1>6, BootStepKeeps DEF BootRuns
<1>7. CASE Restart
  <2>1. bpc = "idle"
    BY <1>1, <1>7 DEF Restart, At, ProcessInv, ModeKnown
  <2> QED
    BY <1>1, <1>7, <2>1, RestartKeeps
<1>8. CASE Detach \/ UNCHANGED vars
  <2>1. UNCHANGED bcVars /\ mnt' = mnt /\ attached' \subseteq attached
    BY <1>8 DEF Detach, vars, mediaVars
  <2>2. Readable' \subseteq Readable
    BY <2>1 DEF Readable
  <2> QED
    BY <1>1, <1>2, <2>1, <2>2, MediaKeep
<1> QED
  BY <1>3, <1>4, <1>5, <1>6, <1>7, <1>8 DEF Next, Process

LEMMA Invariance == Spec => []Inv
<1>1. Init => Inv
  BY InitInv
<1>2. Inv /\ [Next]_vars => Inv'
  BY ProcessStep, BootStays DEF Inv
<1> QED
  BY <1>1, <1>2, PTL DEF Spec

---------------------------------------------------------------------------
\* Every variable keeps its type: no device is unmounted more often than it
\* was mounted, and no index leaves its list.
THEOREM Types == Spec => []TypeOK
<1>1. ASSUME Inv PROVE TypeOK
  <2>1. found \in Seq(AllConfigs)
    <3>1. GrubFound \subseteq AllConfigs
      BY DEF AllConfigs
    <3>2. found \in Seq(GrubFound)
      BY <1>1 DEF Inv, ProcessInv, SelectionKnown
    <3> QED
      BY <3>1, <3>2
  <2> QED
    BY <1>1, <2>1, BootKnown DEF Inv, ProcessInv, ProcessTypes, TypeOK
<1> QED
  BY Invariance, <1>1, PTL

\* Without -guid the mount table is restored, whichever return was taken; with
\* it at most one mount is left behind.
LEMMA LeavesAtMostOne == Inv => MountsRestored
<1> SUFFICES ASSUME Inv, pc = "exit"
             PROVE  LET changed == {d \in DeviceSet : mnt[d] # mnt0[d]}
                    IN /\ flags.guid = NoGuid => changed = {}
                       /\ Cardinality(changed) <= 1
                       /\ \A d \in changed : mnt[d] = mnt0[d] + 1
  BY DEF MountsRestored
<1> DEFINE changed == {d \in DeviceSet : mnt[d] # mnt0[d]}
<1>1. CASE flags.guid = NoGuid
  <2>1. changed = {}
    BY <1>1 DEF Inv, ProcessInv, MountsKnown
  <2> QED
    BY <2>1, FS_EmptySet
<1>2. CASE flags.guid # NoGuid
  <2>1. EachMountedOnce /\ mounted \in Seq(DeviceSet) /\ Len(mounted) <= 1
    BY <1>2 DEF Inv, ProcessInv, ProcessTypes, MountsKnown
  <2>2. changed \subseteq Range(mounted) /\ \A d \in changed : mnt[d] = mnt0[d] + 1
    BY <2>1 DEF EachMountedOnce
  <2>3. Cardinality(changed) <= 1
    <3>1. CASE changed = {}
      BY <3>1, FS_EmptySet
    <3>2. CASE changed # {}
      <4>1. PICK d \in changed : TRUE
        BY <3>2
      <4>2. Range(mounted) \subseteq {mounted[1]}
        BY <2>1 DEF Range
      <4>3. changed = {d}
        BY <2>2, <4>1, <4>2
      <4> QED
        BY <4>3, FS_Singleton
    <3> QED
      BY <3>1, <3>2
  <2> QED
    BY <1>2, <2>2, <2>3
<1> QED
  BY <1>1, <1>2

THEOREM MountTableIsRestored == Spec => []MountsRestored
BY Invariance, LeavesAtMostOne, PTL

\* From process to process: a device is never mounted more often than
\* processes were started, as each leaves at most one mount on it.
MountsPileUp == \A d \in DeviceSet : mnt[d] <= runs

EarlierMounts == \A d \in DeviceSet : mnt0[d] < runs

LEMMA AtMostOneMore ==
  ASSUME Inv, NEW d \in DeviceSet
  PROVE  mnt[d] \in Nat /\ mnt0[d] \in Nat /\ runs \in Nat /\ mnt[d] <= mnt0[d] + 1
<1>1. mnt[d] \in Nat /\ mnt0[d] \in Nat /\ runs \in Nat
  BY LocalbootAssumption DEF Inv, ProcessInv, ProcessTypes
<1>2. mnt[d] = mnt0[d] \/ mnt[d] = mnt0[d] + 1
  BY DEF Inv, ProcessInv, MountsKnown, EachMountedOnce
<1> QED
  BY <1>1, <1>2

LEMMA EarlierMountsStay ==
  ASSUME Inv, EarlierMounts, [Next]_vars
  PROVE  EarlierMounts'
<1>1. CASE Restart
  <2>1. ASSUME NEW d \in DeviceSet PROVE mnt0'[d] < runs'
    <3>1. mnt0'[d] = mnt[d] /\ runs' = runs + 1
      BY <1>1 DEF Restart
    <3> QED
      BY <3>1, AtMostOneMore DEF EarlierMounts
  <2> QED
    BY <2>1 DEF EarlierMounts
<1>2. CASE Process \/ Detach \/ UNCHANGED vars
  <2>1. mnt0' = mnt0 /\ runs' = runs
    BY <1>2 DEF Process, CheckFlags, MountNext, MountDone, MountByGUID, ScanNext, ScanDone,
       BootGrub, BootGrubReturned, NoneSucceeded, BootPath, BootPathReturned, BootRuns,
       Detach, vars, startVars
  <2> QED
    BY <2>1 DEF EarlierMounts
<1> QED
  BY <1>1, <1>2 DEF Next

THEOREM MountsPileUpByProcesses == Spec => []MountsPileUp
<1>1. Init => EarlierMounts
  BY DEF Init, EarlierMounts
<1>2. Inv /\ EarlierMounts => MountsPileUp
  BY AtMostOneMore DEF EarlierMounts, MountsPileUp
<1> QED
  BY Invariance, <1>1, EarlierMountsStay, <1>2, PTL DEF Spec

\* Boot finds everything mounted that the process has mounted.
LEMMA StillMounted == Inv => BootsWhileMounted
<1> SUFFICES ASSUME Inv, bpc # "idle", NEW d \in Range(mounted)
             PROVE  mnt[d] > mnt0[d]
  BY DEF BootsWhileMounted
<1>1. EachMountedOnce
  BY DEF Inv, ProcessInv, ModeKnown, MountsKnown
<1>2. d \in DeviceSet
  BY DEF Inv, ProcessInv, ProcessTypes, Range
<1>3. mnt0[d] \in Nat /\ mnt[d] = mnt0[d] + 1
  BY <1>1, <1>2 DEF Inv, ProcessInv, ProcessTypes, EachMountedOnce
<1> QED
  BY <1>3

THEOREM NothingIsUnmountedEarly == Spec => []BootsWhileMounted
BY Invariance, StillMounted, PTL

\* The configuration that Boot is working on is valid, so that Boot runs it or
\* nothing.
LEMMA BootsValid ==
  ASSUME Inv, pc = "booting"
  PROVE  BC!IsValid(bcfg)
<1>1. CASE flags.grub
  <2>1. bcfg \in GrubFound
    BY <1>1 DEF Inv, ProcessInv, ProcessTypes, SelectionKnown
  <2> QED
    BY <2>1, GrubFoundType
<1>2. CASE ~flags.grub
  <2>1. Len(mounted) = 1 /\ bcfg = PathConfig(mounted[1], flags)
    BY <1>2 DEF Inv, ProcessInv, SelectionKnown
  <2>2. mounted \in Seq(DeviceSet) /\ flags \in CommandLines
    BY DEF Inv, ProcessInv, ProcessTypes
  <2>3. mounted[1] \in DeviceSet
    BY <2>1, <2>2
  <2> QED
    BY <2>1, <2>2, <2>3, PathConfigType
<1> QED
  BY <1>1, <1>2

LEMMA RunsSelected == Inv => RunsTheSelection
<1> SUFFICES ASSUME Inv, running # NoImage
             PROVE  RunsTheSelection
  BY DEF RunsTheSelection
<1>1. bpc = "reboot" /\ running = image
  BY BootKnown DEF Inv
<1>2. pc = "booting"
  BY <1>1 DEF Inv, ProcessInv, ModeKnown
<1>3. fresh /\ running = BC!ImageOf(bcfg)
  BY <1>1, <1>2, BootsValid, BootKnown DEF Inv
<1>4. ~flags.dryrun
  BY <1>2 DEF Inv, ProcessInv, ModeKnown
<1> QED
  BY <1>2, <1>3, <1>4 DEF Inv, ProcessInv, SelectionKnown, RunsTheSelection

\* What runs is what the flags and the order of the configurations select,
\* whatever earlier processes left loaded in the kernel.
THEOREM TheSelectionRuns == Spec => []RunsTheSelection
BY Invariance, RunsSelected, PTL

\* Without -config the process does not give up before the last configuration.
THEOREM AllFoundAreTried == Spec => []TriesAllFound
<1>1. Inv => TriesAllFound
  BY DEF Inv, ProcessInv
<1> QED
  BY Invariance, <1>1, PTL

\* Nothing that localboot runs has escaped the measurement but by an error of it:
\* the result about Boot holds in this composition, where devices come and go
\* and processes follow each other.
LEMMA LocalbootMeasures == Inv => BC!MeasuredUnlessLost
<1>1. BCP!MeasuredUnlessLost = BC!MeasuredUnlessLost
  BY DEF BCP!MeasuredUnlessLost, BC!MeasuredUnlessLost
<1> QED
  BY <1>1, BootAssumption, BCP!RunsMeasured DEF Inv

THEOREM NothingLocalbootRunsIsUntried == Spec => []BC!MeasuredUnlessLost
BY Invariance, LocalbootMeasures, PTL

---------------------------------------------------------------------------
\* The mapping to the boot command: the process is running until it exits.
LEMMA CommandStarts == Init => Command!CommandInit
BY DEF Init, Start, BC!BootInit, Command!CommandInit

\* A step of Boot loads, reboots into what it loaded itself, or does not show.
LEMMA BootIsCommand ==
  ASSUME Inv, BootRuns
  PROVE  [Command!CommandNext]_Command!commandVars
<1>1. bpc # "idle" /\ running = NoImage /\ bcfg' = bcfg /\ pc' = pc
  BY BootStepIn DEF BootRuns
<1>2. pc = "booting" /\ bcfg \in AllConfigs
  BY <1>1, BootKnown DEF Inv, ProcessInv, ModeKnown, BC!TypeOK
<1>3. Command!Active /\ UNCHANGED (IF pc = "exit" THEN "idle" ELSE "running")
  BY <1>1, <1>2 DEF Command!Active, Command!FirmwareRuns
<1>4. CASE UNCHANGED <<image, running, fresh>>
  BY <1>3, <1>4 DEF Command!commandVars, Command!kexecVars
<1>5. CASE BC!LoadImage(BC!ImageOf(bcfg))
  <2>1. Command!LoadImage(BC!ImageOf(bcfg))
    BY <1>5 DEF BC!LoadImage, Command!LoadImage
  <2> QED
    BY <1>2, <1>3, <2>1 DEF Command!Load, Command!CommandStep, Command!CommandNext
<1>6. CASE bpc = "reboot" /\ BC!RebootInto
  <2>1. fresh
    BY <1>2, <1>6, BootsValid, BootKnown DEF Inv
  <2>2. Command!RebootInto
    BY <1>6 DEF BC!RebootInto, Command!RebootInto
  <2> QED
    BY <1>3, <2>1, <2>2 DEF Command!KexecReboot, Command!CommandStep, Command!CommandNext
<1> QED
  BY <1>4, <1>5, <1>6 DEF BootRuns, BC!BootStep, BC!MeasureData, BC!MeasureFiles,
     BC!OpenKernel, BC!OpenInitramfs, BC!FileLoad, BC!Probe, BC!LoadMultiboot, BC!Reboot,
     BC!kexecVars

\* The other steps touch the kexec state only to begin an attempt or a command.
LEMMA StepIsCommand ==
  ASSUME Inv, [Next]_vars
  PROVE  [Command!CommandNext]_Command!commandVars
<1> DEFINE status == IF pc = "exit" THEN "idle" ELSE "running"
<1> USE DEF Command!Active, Command!FirmwareRuns, Command!commandVars, Command!kexecVars
<1>1. CASE \/ CheckFlags \/ MountNext \/ MountDone \/ MountByGUID \/ ScanNext \/ ScanDone
           \/ BootGrubReturned \/ NoneSucceeded \/ BootPathReturned
           \/ BootPath /\ UNCHANGED bcVars
  <2>1. UNCHANGED <<image, running, fresh>> /\ running = NoImage /\ pc # "exit"
    BY <1>1 DEF CheckFlags, MountNext, MountDone, MountByGUID, ScanNext, ScanDone,
       BootGrubReturned, NoneSucceeded, BootPath, BootPathReturned, At, BC!FirmwareRuns, bcVars
  <2> QED
    BY <2>1 DEF Command!EndCommand, Command!CommandStep, Command!CommandNext
<1>2. CASE BootGrub \/ (BootPath /\ BC!BootCall(PathConfig(mounted[1], flags)))
  <2>1. /\ running = NoImage /\ pc # "exit" /\ pc' # "exit"
        /\ fresh' = FALSE /\ UNCHANGED <<image, running>>
    <3>1. CASE BootGrub
      BY <3>1 DEF BootGrub, At, BC!BootCall, BC!FirmwareRuns
    <3>2. CASE BootPath /\ BC!BootCall(PathConfig(mounted[1], flags))
      <4>1. pc = "path" /\ running = NoImage
        BY <3>2 DEF BootPath, At, BC!FirmwareRuns
      <4>2. fresh' = FALSE /\ UNCHANGED <<image, running>> /\ bpc # bpc'
        BY <3>2 DEF BC!BootCall, BC!Goto
      <4>3. pc' # "exit"
        BY <3>2, <4>2 DEF BootPath, bcVars
      <4> QED
        BY <4>1, <4>2, <4>3
    <3> QED
      BY <1>2, <3>1, <3>2
  <2> QED
    BY <2>1 DEF Command!Attempt, Command!CommandStep, Command!CommandNext
<1>3. CASE BootRuns
  BY <1>3, BootIsCommand
<1>4. CASE Restart
  BY <1>4 DEF Restart, At, BC!FirmwareRuns, Command!StartCommand, Command!CommandNext
<1>5. CASE Detach \/ UNCHANGED vars
  BY <1>5 DEF Detach, vars, bcVars
<1> QED
  BY <1>1, <1>2, <1>3, <1>4, <1>5 DEF Next, Process, BootPath

\* localboot implements the boot command that uinit is proved about: it never
\* reboots into what it did not load itself.
THEOREM LocalbootIsABootCommand == Spec => IsABootCommand
<1>1. Spec => [][Command!CommandNext]_Command!commandVars
  BY Invariance, StepIsCommand, PTL DEF Spec
<1> QED
  BY CommandStarts, <1>1, PTL DEF Spec, IsABootCommand, Command!CommandSpec
==============================================================================
