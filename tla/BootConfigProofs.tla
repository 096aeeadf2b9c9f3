---------------------------- MODULE BootConfigProofs ----------------------------
(***************************************************************************)
(* Proofs about BootConfig.Boot, for any configurations, files and limits: *)
(* what runs is what was asked for, its measurement was tried first, and   *)
(* only the known descriptor is lost.  The lemmas are about single steps,  *)
(* so that a program that composes Boot with its own steps can cite them.  *)
(***************************************************************************)
EXTENDS BootConfig, TLAPS

\* What the branches of Boot have found out about its receiver.
BranchKnown ==
  /\ bpc \in {"openKernel", "openInitramfs", "fileLoad"} => bcfg.kernel # NoFile
  /\ bpc = "openInitramfs" => bcfg.initramfs # NoFile
  /\ bpc \in {"probe", "loadMultiboot"} => bcfg.kernel = NoFile

\* The image that this call has loaded; and the machine leaves from the end.
ImageKnown ==
  /\ fresh => bpc \in {"idle", "reboot"} /\ image = ImageOf(bcfg)
  /\ bpc = "reboot" /\ (bcfg.kernel # NoFile \/ bcfg.multiboot # NoFile) => fresh
  /\ running # NoImage => bpc = "reboot" /\ running = image

Past == {"openKernel", "openInitramfs", "fileLoad", "probe", "loadMultiboot", "reboot"}

\* What has been tried to be measured, with success or without.
Handed == measured \cup lost

\* Handed to the TPM have been the configuration; the files that are still there;
\* those that were opened.
MeasuredKnown ==
  /\ bpc \in Past \cup {"measureFiles"} => recorded # "no"
  /\ bpc \in Past => FileNames(bcfg) \cap present \subseteq Handed
  /\ bpc \in {"openInitramfs", "fileLoad"} => bcfg.kernel \in Handed
  /\ bpc = "fileLoad" => {bcfg.kernel, bcfg.initramfs} \ {NoFile} \subseteq Handed
  /\ fresh => {image.kernel, image.initramfs} \ {NoFile} \subseteq Handed

Inv ==
  /\ TypeOK /\ BranchKnown /\ ImageKnown /\ MeasuredKnown /\ LeaksOnlyAKernel

---------------------------------------------------------------------------
\* The type of what is booted, and what of it is loaded.
LEMMA ConfigTypes ==
  ASSUME NEW c \in Configs
  PROVE  /\ c.kernel \in Files \cup {NoFile} /\ c.initramfs \in Files \cup {NoFile}
         /\ c.multiboot \in Files \cup {NoFile}
         /\ FileNames(c) \subseteq Files
         /\ ImageOf(c) \in ConfigType
<1>1. c \in ConfigType
  BY BootConfigAssumption
<1>2. FileNames(c) \subseteq Files
  BY <1>1 DEF ConfigType, FileNames
<1>3. ImageOf(c) \in ConfigType
  BY <1>1 DEF ConfigType, ImageOf
<1> QED
  BY <1>1, <1>2, <1>3 DEF ConfigType

\* Only the kernel and the initramfs of a configuration with a kernel are
\* among the files of its image that have to be measured.
LEMMA ImageFiles ==
  ASSUME NEW c \in Configs
  PROVE  {ImageOf(c).kernel, ImageOf(c).initramfs} \ {NoFile}
           = IF c.kernel = NoFile THEN {} ELSE {c.kernel, c.initramfs} \ {NoFile}
<1>1. c \in ConfigType
  BY BootConfigAssumption
<1>2. CASE c.kernel = NoFile
  <2>1. ImageOf(c).kernel = NoFile /\ ImageOf(c).initramfs = NoFile
    BY <1>1, <1>2 DEF ImageOf, ConfigType
  <2> QED
    BY <1>2, <2>1
<1>3. CASE c.kernel # NoFile
  <2>1. ImageOf(c).kernel = c.kernel /\ ImageOf(c).initramfs = c.initramfs
    BY <1>1, <1>3 DEF ImageOf, ConfigType
  <2> QED
    BY <1>3, <2>1
<1> QED
  BY <1>2, <1>3

\* The way of a configuration through Boot.
LEMMA AfterMeasuringCases ==
  ASSUME NEW c
  PROVE  \/ c.kernel # NoFile /\ AfterMeasuring(c) = "openKernel"
         \/ c.kernel = NoFile /\ c.multiboot # NoFile /\ AfterMeasuring(c) = "probe"
         \/ c.kernel = NoFile /\ c.multiboot = NoFile /\ AfterMeasuring(c) = "reboot"
BY DEF AfterMeasuring

\* The descriptors of a call, place by place.
LEMMA OpenNowCases ==
  /\ bpc = "openInitramfs" => OpenNow = 1
  /\ bpc \in {"fileLoad", "reboot"} =>
       OpenNow = IF bcfg.kernel = NoFile THEN 0 ELSE IF bcfg.initramfs = NoFile THEN 1 ELSE 2
  /\ bpc \notin {"openInitramfs", "fileLoad", "reboot"} => OpenNow = 0
<1>1. CASE bpc = "openInitramfs"
  BY <1>1 DEF OpenNow
<1>2. CASE bpc \in {"fileLoad", "reboot"} /\ bcfg.kernel # NoFile
  BY <1>2 DEF OpenNow
<1>3. CASE bpc \in {"fileLoad", "reboot"} /\ bcfg.kernel = NoFile
  BY <1>3 DEF OpenNow
<1>4. CASE bpc \notin {"openInitramfs", "fileLoad", "reboot"}
  BY <1>4 DEF OpenNow
<1> QED
  BY <1>1, <1>2, <1>3, <1>4

LEMMA OpenNowType == OpenNow \in {0, 1, 2}
BY OpenNowCases

LEMMA OpenNowPrimed ==
  /\ bpc' = "openInitramfs" => OpenNow' = 1
  /\ bpc' \in {"fileLoad", "reboot"} =>
       OpenNow' = IF bcfg'.kernel = NoFile THEN 0 ELSE IF bcfg'.initramfs = NoFile THEN 1 ELSE 2
  /\ bpc' \notin {"openInitramfs", "fileLoad", "reboot"} => OpenNow' = 0
<1>1. CASE bpc' = "openInitramfs"
  BY <1>1 DEF OpenNow
<1>2. CASE bpc' \in {"fileLoad", "reboot"} /\ bcfg'.kernel # NoFile
  BY <1>2 DEF OpenNow
<1>3. CASE bpc' \in {"fileLoad", "reboot"} /\ bcfg'.kernel = NoFile
  BY <1>3 DEF OpenNow
<1>4. CASE bpc' \notin {"openInitramfs", "fileLoad", "reboot"}
  BY <1>4 DEF OpenNow
<1> QED
  BY <1>1, <1>2, <1>3, <1>4

---------------------------------------------------------------------------
\* Before the first call nothing is known and nothing open.
LEMMA BootInitInv ==
  ASSUME NEW c \in Configs, BootInit(c), present \subseteq Files
  PROVE  Inv
<1>1. OpenNow = 0
  BY OpenNowCases DEF BootInit
<1>2. TypeOK
  BY DEF BootInit, TypeOK
<1>3. LeaksOnlyAKernel
  BY <1>1, BootConfigAssumption DEF BootInit, LeaksOnlyAKernel
<1> QED
  BY <1>2, <1>3 DEF BootInit, Inv, BranchKnown, ImageKnown, MeasuredKnown, Past, Handed

LEMMA BootCallInv ==
  ASSUME Inv, NEW c \in Configs, BootCall(c)
  PROVE  Inv'
<1> USE DEF BootCall, Goto
<1>1. TypeOK'
  BY DEF Inv, TypeOK
<1>2. bpc = "idle" /\ bpc' = "measureData" /\ running = NoImage /\ ~fresh'
  BY DEF FirmwareRuns
<1>3. LeaksOnlyAKernel'
  BY <1>2, OpenNowCases, OpenNowPrimed DEF Inv, LeaksOnlyAKernel
<1> QED
  BY <1>1, <1>2, <1>3 DEF Inv, BranchKnown, ImageKnown, MeasuredKnown, Past, Handed

LEMMA BootStepType ==
  ASSUME Inv, BootStep
  PROVE  TypeOK'
<1> USE DEF Inv, kexecVars, measureVars, Goto, Return
<1>1. CASE MeasureData
  BY <1>1 DEF MeasureData, TypeOK
<1>2. CASE MeasureFiles
  <2>1. measured' \subseteq Files /\ lost' \subseteq Files
    BY <1>2, ConfigTypes DEF MeasureFiles, TypeOK
  <2>2. bpc' \in {"openKernel", "probe", "reboot"}
    BY <1>2, AfterMeasuringCases DEF MeasureFiles
  <2> QED
    BY <1>2, <2>1, <2>2 DEF MeasureFiles, TypeOK
<1>3. CASE OpenKernel
  <2>1. fds' \in Nat
    BY <1>3 DEF OpenKernel, Open, TypeOK
  <2>2. bpc' \in {"fileLoad", "openInitramfs", "idle"}
    BY <1>3 DEF OpenKernel
  <2> QED
    BY <1>3, <2>1, <2>2 DEF OpenKernel, TypeOK
<1>4. CASE OpenInitramfs
  <2>1. fds' \in Nat /\ leaks' \in Nat
    BY <1>4 DEF OpenInitramfs, Open, TypeOK
  <2> QED
    BY <1>4, <2>1 DEF OpenInitramfs, TypeOK
<1>5. CASE FileLoad
  <2>1. fds' \in Nat
    <3>1. HeldByCall(bcfg) = OpenNow
      BY <1>5, OpenNowCases DEF FileLoad, HeldByCall
    <3> QED
      BY <1>5, <3>1, OpenNowType DEF FileLoad, TypeOK, LeaksOnlyAKernel
  <2>2. image' \in ConfigType \cup {NoImage} /\ running' = running /\ fresh' \in BOOLEAN
    BY <1>5, ConfigTypes DEF FileLoad, LoadImage, TypeOK
  <2> QED
    BY <1>5, <2>1, <2>2 DEF FileLoad, TypeOK
<1>6. CASE Probe
  BY <1>6 DEF Probe, TypeOK
<1>7. CASE LoadMultiboot
  <2>1. image' \in ConfigType \cup {NoImage} /\ running' = running /\ fresh' \in BOOLEAN
    BY <1>7, ConfigTypes DEF LoadMultiboot, LoadImage, TypeOK
  <2> QED
    BY <1>7, <2>1 DEF LoadMultiboot, TypeOK
<1>8. CASE Reboot
  <2>1. fds' \in Nat
    <3>1. HeldByCall(bcfg) = OpenNow
      BY <1>8, OpenNowCases DEF Reboot, HeldByCall
    <3> QED
      BY <1>8, <3>1, OpenNowType DEF Reboot, TypeOK, LeaksOnlyAKernel
  <2> QED
    BY <1>8, <2>1 DEF Reboot, RebootInto, TypeOK
<1> QED
  BY <1>1, <1>2, <1>3, <1>4, <1>5, <1>6, <1>7, <1>8 DEF BootStep

LEMMA BootStepLeaks ==
  ASSUME Inv, BootStep
  PROVE  LeaksOnlyAKernel'
<1> USE DEF Goto, Return, measureVars
<1>1. /\ fds \in Nat /\ leaks \in Nat /\ MaxFds \in Nat
      /\ fds = leaks + OpenNow /\ fds <= MaxFds /\ OpenNow \in {0, 1, 2}
  BY BootConfigAssumption, OpenNowType DEF Inv, TypeOK, LeaksOnlyAKernel
<1>2. CASE MeasureData
  BY <1>1, <1>2, OpenNowCases, OpenNowPrimed DEF MeasureData, LeaksOnlyAKernel
<1>3. CASE MeasureFiles
  <2>1. OpenNow = 0 /\ OpenNow' = 0 /\ UNCHANGED <<fds, leaks>>
    BY <1>3, OpenNowCases, OpenNowPrimed, AfterMeasuringCases DEF MeasureFiles
  <2> QED
    BY <1>1, <2>1 DEF LeaksOnlyAKernel
<1>4. CASE OpenKernel
  <2>1. bcfg.kernel # NoFile /\ OpenNow = 0 /\ UNCHANGED <<leaks, bcfg>>
    BY <1>4, OpenNowCases DEF OpenKernel, Inv, BranchKnown
  <2>2. CASE /\ Open(bcfg.kernel)
             /\ bpc' = IF bcfg.initramfs = NoFile THEN "fileLoad" ELSE "openInitramfs"
    <3>1. OpenNow' = 1
      BY <2>1, <2>2, OpenNowPrimed
    <3> QED
      BY <1>1, <2>1, <2>2, <3>1 DEF Open, LeaksOnlyAKernel
  <2>3. CASE bpc' = "idle" /\ fds' = fds - 0
    BY <1>1, <2>1, <2>3, OpenNowPrimed DEF LeaksOnlyAKernel
  <2> QED
    BY <1>4, <2>2, <2>3 DEF OpenKernel
<1>5. CASE OpenInitramfs
  <2>1. bcfg.kernel # NoFile /\ bcfg.initramfs # NoFile /\ OpenNow = 1 /\ UNCHANGED bcfg
    BY <1>5, OpenNowCases DEF OpenInitramfs, Inv, BranchKnown
  <2>2. CASE Open(bcfg.initramfs) /\ bpc' = "fileLoad" /\ UNCHANGED leaks
    <3>1. OpenNow' = 2
      BY <2>1, <2>2, OpenNowPrimed
    <3> QED
      BY <1>1, <2>1, <2>2, <3>1 DEF Open, LeaksOnlyAKernel
  <2>3. CASE bpc' = "idle" /\ fds' = fds - 0 /\ leaks' = leaks + 1
    BY <1>1, <2>1, <2>3, OpenNowPrimed DEF LeaksOnlyAKernel
  <2> QED
    BY <1>5, <2>2, <2>3 DEF OpenInitramfs
<1>6. CASE FileLoad \/ Reboot
  <2>1. HeldByCall(bcfg) = OpenNow /\ UNCHANGED <<leaks, bcfg>> /\ bpc \in {"fileLoad", "reboot"}
    BY <1>6, OpenNowCases DEF FileLoad, Reboot, HeldByCall
  <2>2. CASE bpc' = "reboot" /\ UNCHANGED fds
    <3>1. OpenNow' = OpenNow
      BY <2>1, <2>2, OpenNowCases, OpenNowPrimed
    <3> QED
      BY <1>1, <2>1, <2>2, <3>1 DEF LeaksOnlyAKernel
  <2>3. CASE bpc' = "idle" /\ fds' = fds - HeldByCall(bcfg)
    <3>1. OpenNow' = 0
      BY <2>3, OpenNowPrimed
    <3> QED
      BY <1>1, <2>1, <2>3, <3>1 DEF LeaksOnlyAKernel
  <2> QED
    BY <1>6, <2>2, <2>3 DEF FileLoad, Reboot
<1>7. CASE Probe \/ LoadMultiboot
  <2>1. bcfg.kernel = NoFile /\ UNCHANGED <<leaks, bcfg>> /\ fds' = fds
    BY <1>1, <1>7 DEF Probe, LoadMultiboot, Inv, BranchKnown
  <2>2. bpc \in {"probe", "loadMultiboot"} /\ bpc' \in {"idle", "loadMultiboot", "reboot"}
    BY <1>7 DEF Probe, LoadMultiboot
  <2>3. OpenNow = 0 /\ OpenNow' = 0
    BY <2>1, <2>2, OpenNowCases, OpenNowPrimed
  <2> QED
    BY <1>1, <2>1, <2>3 DEF LeaksOnlyAKernel
<1> QED
  BY <1>2, <1>3, <1>4, <1>5, <1>6, <1>7 DEF BootStep

\* A return of Boot: only what it has loaded is still known.
LEMMA Returned ==
  ASSUME Inv, bpc' = "idle", running = NoImage, UNCHANGED <<kexecVars, bcfg, measureVars>>
  PROVE  BranchKnown' /\ ImageKnown' /\ MeasuredKnown'
BY DEF Inv, BranchKnown, ImageKnown, MeasuredKnown, Past, Handed, kexecVars, measureVars

LEMMA BootStepKnown ==
  ASSUME Inv, BootStep
  PROVE  BranchKnown' /\ ImageKnown' /\ MeasuredKnown'
<1>1. running = NoImage /\ bcfg \in Configs /\ UNCHANGED <<bcfg, present>>
  BY DEF Inv, TypeOK, BootStep, MeasureData, MeasureFiles, OpenKernel, OpenInitramfs, FileLoad,
     Probe, LoadMultiboot, Reboot, Goto, FirmwareRuns
<1> USE DEF Goto, Return, kexecVars, measureVars
<1>2. CASE MeasureData
  <2>1. bpc = "measureData" /\ bpc' = "measureFiles" /\ recorded' # "no" /\ ~fresh
    BY <1>2 DEF MeasureData, Inv, ImageKnown
  <2> QED
    BY <1>1, <1>2, <2>1 DEF MeasureData, BranchKnown, ImageKnown, MeasuredKnown, Past, Handed
<1>3. CASE MeasureFiles
  <2>1. bpc = "measureFiles" /\ bpc' = AfterMeasuring(bcfg) /\ ~fresh /\ UNCHANGED <<kexecVars, recorded>>
    BY <1>3 DEF MeasureFiles, Inv, ImageKnown
  <2>2. bpc' \in {"openKernel", "probe", "reboot"} /\ BranchKnown'
    BY <1>1, <2>1, AfterMeasuringCases DEF BranchKnown
  <2>3. bpc' = "reboot" => bcfg.kernel = NoFile /\ bcfg.multiboot = NoFile
    BY <2>1, AfterMeasuringCases
  <2>4. FileNames(bcfg) \cap present \subseteq Handed' /\ recorded' # "no"
    BY <1>3, <2>1 DEF MeasureFiles, Handed, Inv, MeasuredKnown
  <2> QED
    BY <1>1, <2>1, <2>2, <2>3, <2>4 DEF ImageKnown, MeasuredKnown
<1>4. CASE OpenKernel
  <2>1. bpc = "openKernel" /\ UNCHANGED <<kexecVars, measureVars>> /\ ~fresh
    BY <1>4 DEF OpenKernel, Inv, ImageKnown
  <2>2. CASE /\ Open(bcfg.kernel)
             /\ bpc' = IF bcfg.initramfs = NoFile THEN "fileLoad" ELSE "openInitramfs"
    <3>1. bcfg.kernel # NoFile /\ bcfg.kernel \in present
      BY <2>1, <2>2 DEF Open, Inv, BranchKnown
    <3>2. bcfg.kernel \in Handed
      BY <2>1, <3>1 DEF Inv, MeasuredKnown, Past, Handed, FileNames
    <3>3. BranchKnown' /\ ImageKnown'
      BY <1>1, <2>1, <2>2, <3>1 DEF BranchKnown, ImageKnown
    <3>4. bpc' = "fileLoad" => bcfg.initramfs = NoFile
      BY <2>2
    <3>5. bpc' \in {"fileLoad", "openInitramfs"}
      BY <2>2
    <3> QED
      BY <1>1, <2>1, <3>2, <3>3, <3>4, <3>5 DEF Inv, MeasuredKnown, Past, Handed
  <2>3. CASE bpc' = "idle"
    BY <1>1, <2>1, <2>3, Returned
  <2> QED
    BY <1>4, <2>2, <2>3 DEF OpenKernel
<1>5. CASE OpenInitramfs
  <2>1. bpc = "openInitramfs" /\ UNCHANGED <<kexecVars, measureVars>> /\ ~fresh
    BY <1>5 DEF OpenInitramfs, Inv, ImageKnown
  <2>2. CASE Open(bcfg.initramfs) /\ bpc' = "fileLoad"
    <3>1. bcfg.kernel # NoFile /\ bcfg.initramfs # NoFile /\ bcfg.initramfs \in present
      BY <2>1, <2>2 DEF Open, Inv, BranchKnown
    <3>2. {bcfg.kernel, bcfg.initramfs} \ {NoFile} \subseteq Handed
      BY <2>1, <3>1 DEF Inv, MeasuredKnown, Past, Handed, FileNames
    <3>3. BranchKnown' /\ ImageKnown'
      BY <1>1, <2>1, <2>2, <3>1 DEF BranchKnown, ImageKnown
    <3> QED
      BY <1>1, <2>1, <2>2, <3>2, <3>3 DEF Inv, MeasuredKnown, Past, Handed
  <2>3. CASE bpc' = "idle"
    BY <1>1, <2>1, <2>3, Returned
  <2> QED
    BY <1>5, <2>2, <2>3 DEF OpenInitramfs
<1>6. CASE FileLoad \/ LoadMultiboot
  <2>1. bpc \in {"fileLoad", "loadMultiboot"} /\ UNCHANGED measureVars
    BY <1>6 DEF FileLoad, LoadMultiboot
  <2>2. CASE LoadImage(ImageOf(bcfg)) /\ bpc' = "reboot"
    <3>1. fresh' /\ image' = ImageOf(bcfg) /\ running' = NoImage
      BY <1>1, <2>2 DEF LoadImage
    <3>2. {image'.kernel, image'.initramfs} \ {NoFile} \subseteq Handed
      <4>1. CASE bpc = "fileLoad"
        BY <1>1, <3>1, <4>1, ImageFiles DEF Inv, BranchKnown, MeasuredKnown
      <4>2. CASE bpc = "loadMultiboot"
        BY <1>1, <3>1, <4>2, ImageFiles DEF Inv, BranchKnown
      <4> QED
        BY <2>1, <4>1, <4>2
    <3>3. BranchKnown' /\ ImageKnown'
      BY <1>1, <2>2, <3>1 DEF BranchKnown, ImageKnown
    <3>4. recorded # "no" /\ FileNames(bcfg) \cap present \subseteq Handed
      BY <2>1 DEF Inv, MeasuredKnown, Past, Handed
    <3> QED
      BY <1>1, <2>1, <2>2, <3>2, <3>3, <3>4 DEF MeasuredKnown, Past, Handed
  <2>3. CASE bpc' = "idle" /\ UNCHANGED kexecVars
    BY <1>1, <2>1, <2>3, Returned
  <2> QED
    BY <1>6, <2>2, <2>3 DEF FileLoad, LoadMultiboot
<1>7. CASE Probe
  <2>1. bpc = "probe" /\ UNCHANGED <<kexecVars, measureVars>> /\ ~fresh
    BY <1>7 DEF Probe, Inv, ImageKnown
  <2>2. CASE bpc' = "loadMultiboot"
    BY <1>1, <2>1, <2>2 DEF Inv, BranchKnown, ImageKnown, MeasuredKnown, Past, Handed
  <2>3. CASE bpc' = "idle"
    BY <1>1, <2>1, <2>3, Returned
  <2> QED
    BY <1>7, <2>2, <2>3 DEF Probe
<1>8. CASE Reboot
  <2>1. bpc = "reboot" /\ UNCHANGED measureVars
    BY <1>8 DEF Reboot
  <2>2. CASE RebootInto /\ bpc' = bpc
    BY <1>1, <2>1, <2>2 DEF RebootInto, Inv, BranchKnown, ImageKnown, MeasuredKnown, Past, Handed
  <2>3. CASE bpc' = "idle" /\ UNCHANGED kexecVars
    BY <1>1, <2>1, <2>3, Returned
  <2> QED
    BY <1>8, <2>2, <2>3 DEF Reboot
<1> QED
  BY <1>2, <1>3, <1>4, <1>5, <1>6, <1>7, <1>8 DEF BootStep

\* A step of Boot.
LEMMA BootStepInv ==
  ASSUME Inv, BootStep
  PROVE  Inv'
BY BootStepType, BootStepLeaks, BootStepKnown DEF Inv

\* Files go away during a call, or files come and go between two calls.
LEMMA FilesChangeInv ==
  ASSUME Inv, UNCHANGED <<kexecVars, bootVars>>, present' \subseteq Files,
         present' \subseteq present \/ bpc = "idle"
  PROVE  Inv'
<1>1. UNCHANGED <<image, running, fresh, bpc, bcfg, fds, leaks, recorded, measured, lost>>
  BY DEF kexecVars, bootVars, measureVars
<1>2. TypeOK'
  BY <1>1 DEF Inv, TypeOK
<1>3. LeaksOnlyAKernel'
  BY <1>1 DEF Inv, LeaksOnlyAKernel, OpenNow
<1> QED
  BY <1>1, <1>2, <1>3 DEF Inv, BranchKnown, ImageKnown, MeasuredKnown, Past, Handed

\* Between two calls the process ends, and another starts with no descriptor:
\* only what the kernel keeps is left.
LEMMA ProcessEndsInv ==
  ASSUME Inv, bpc = "idle", fresh' = FALSE, fds' = 0, leaks' = 0,
         UNCHANGED <<image, running, present, bpc, bcfg, measureVars>>
  PROVE  Inv'
<1>1. UNCHANGED <<recorded, measured, lost>>
  BY DEF measureVars
<1>2. TypeOK'
  BY <1>1 DEF Inv, TypeOK
<1>3. LeaksOnlyAKernel'
  BY OpenNowPrimed, BootConfigAssumption DEF LeaksOnlyAKernel
<1> QED
  BY <1>1, <1>2, <1>3 DEF Inv, BranchKnown, ImageKnown, MeasuredKnown, Past, Handed

LEMMA FinalizeInv ==
  ASSUME Inv, Finalize
  PROVE  Inv'
<1>1. UNCHANGED <<image, running, fresh, bpc, bcfg, recorded, measured, lost, present>>
  BY DEF Finalize, kexecVars, measureVars
<1>2. /\ fds \in Nat /\ leaks \in Nat /\ MaxFds \in Nat /\ leaks > 0
      /\ fds = leaks + OpenNow /\ fds <= MaxFds /\ OpenNow \in {0, 1, 2}
      /\ leaks' = leaks - 1 /\ fds' = fds - 1
  BY BootConfigAssumption, OpenNowType DEF Inv, TypeOK, LeaksOnlyAKernel, Finalize
<1>3. leaks' \in Nat /\ fds' \in Nat
  BY <1>2
<1>4. TypeOK'
  BY <1>1, <1>3 DEF Inv, TypeOK
<1>5. OpenNow' = OpenNow
  BY <1>1 DEF OpenNow
<1>6. LeaksOnlyAKernel'
  BY <1>2, <1>5 DEF LeaksOnlyAKernel
<1> QED
  BY <1>1, <1>4, <1>6 DEF Inv, BranchKnown, ImageKnown, MeasuredKnown, Past, Handed

---------------------------------------------------------------------------
\* Inv is an inductive invariant.
LEMMA Invariance == Spec => []Inv
<1>1. Init => Inv
  BY BootInitInv DEF Init
<1>2. ASSUME Inv, [Next]_vars PROVE Inv'
  <2>1. CASE \E c \in Configs : BootCall(c)
    BY <1>2, <2>1, BootCallInv
  <2>2. CASE BootStep
    BY <1>2, <2>2, BootStepInv
  <2>3. CASE Detach \/ UNCHANGED vars
    <3>1. UNCHANGED <<kexecVars, bootVars>> /\ present' \subseteq present /\ present \subseteq Files
      BY <1>2, <2>3 DEF Detach, vars, Inv, TypeOK
    <3> QED
      BY <1>2, <3>1, FilesChangeInv
  <2>4. CASE Finalize
    BY <1>2, <2>4, FinalizeInv
  <2> QED
    BY <1>2, <2>1, <2>2, <2>3, <2>4 DEF Next
<1> QED
  BY <1>1, <1>2, PTL DEF Spec

\* Every variable keeps its type: no more descriptors are closed than opened.
THEOREM Types == Spec => []TypeOK
<1>1. Inv => TypeOK
  BY DEF Inv
<1> QED
  BY Invariance, <1>1, PTL

\* A valid configuration boots itself or nothing, whatever was loaded before.
LEMMA BootsItself == Inv => ValidConfigBootsItself
BY DEF Inv, ImageKnown, ValidConfigBootsItself, IsValid

THEOREM ValidConfigsBootThemselves == Spec => []ValidConfigBootsItself
BY Invariance, BootsItself, PTL

\* What runs was measured first or its measurement was tried and failed,
\* although files may go away between the measurement and the load.
LEMMA RunsMeasured == Inv => MeasuredUnlessLost
BY DEF Inv, ImageKnown, MeasuredKnown, MeasuredUnlessLost, Past, Handed

THEOREM NothingRunsUntried == Spec => []MeasuredUnlessLost
BY Invariance, RunsMeasured, PTL

\* Boot loses no descriptor but a kernel whose initramfs did not open.
THEOREM OnlyAKernelLeaks == Spec => []LeaksOnlyAKernel
<1>1. Inv => LeaksOnlyAKernel
  BY DEF Inv
<1> QED
  BY Invariance, <1>1, PTL
==============================================================================
