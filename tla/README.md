# A TLA+ model of systemboot

systemboot is a firmware boot loader for LinuxBoot: a set of small Go programs
that run in the firmware's Linux and `kexec` the system to be booted. `uinit`
is started by init; it runs the boot entries stored in the VPD (vital product
data), and then for ever the default sequence `netboot`, `localboot`.

This directory holds TLA+ modules of these programs, TLC configurations that
check them on small instances, and proofs that TLAPS checks for every instance.
All paths and line numbers below are those of the repository.

## 1. Inventory

| Component | State it keeps | Operations | Hard behaviour | What makes it correct |
|---|---|---|---|---|
| `uinit` (`uinit/main.go`) | the list of entries, two loop indices, the child process | read the VPD, run each entry, run the defaults for ever | broken entries, children that fail or hang, interrupts, images left in the kernel by earlier children | every entry has its turn, in order, before the defaults; nobody can stop that without `-i`; the defaults for ever |
| boot entries and booters (`pkg/booter`) | none | `GetBootEntries`, `GetBooterFor`, `Boot` of `NetBooter`, `LocalBooter`, `NullBooter` | read errors, unknown types and methods, JSON that does not parse | the boot order is the VPD's; each entry runs the command it describes |
| VPD access (`pkg/vpd`) | files `rw/*`, `ro/*` | `Get`, `Set`, `GetAll` | `Set` truncates before it writes; no lock | no entry is lost |
| `vpdbootmanager` (`cmds/vpdbootmanager`) | a slot index | `add` | two processes at a time, failed writes, power loss | an earlier entry is never touched; slots fill from below; a reported add boots unless an overlapping one takes its slot |
| `netboot` (`netboot/main.go`) | interface, protocol, attempt, response, body, boot file | DHCP, HTTP with retries, save, kexec, `-fix`, dry run | late, wrong or missing answers in every order; a failure at any call | only a complete download of the right URL runs, after its measurement was tried; everything is tried; it ends |
| `localboot` (`localboot/main.go`) | the mount table, the configurations found | GRUB mode, path mode | devices that do not mount or go away; early returns between mounts and boots | mounts are undone; nothing but the selected configuration boots; all are tried |
| GRUB configurations (`localboot/grub.go`) | parser state | walk of a device, line parser | read errors, directives outside of entries | all configurations are found, each with its own directives |
| boot configurations (`pkg/bootconfig/bootconfig.go`) | file descriptors, the kernel's kexec image | `IsValid`, `Boot` | an early return after some of the steps; images of earlier calls | it boots itself or nothing; nothing runs whose measurement was not tried |
| manifests, zip files (`pkg/bootconfig/manifest.go`, `zipconfig.go`) | a temporary directory | verify, unpack, decode | files replaced during a call; errors between the steps; entries whose names lead to one file, or out of the directory | only what was signed is unpacked; a result is complete |
| storage (`pkg/storage`) | none | list devices, GPT look-ups, `Mount` | devices that fail one at a time | the partition that was asked for |
| measurement (`pkg/crypto/measure.go`) | PCR values | `TryMeasureData`, `TryMeasureFiles`, `TryMeasureBootConfig` | a TPM that does not open or fails, files that cannot be read, all passed over | measured before use, or that very measurement failed |
| keys (`pkg/crypto/ed25519.go`) | two key files | generate, load, sign | an error or a stop between the two files | after a success the files are a pair |
| checker, `fixmynetboot` | none | a list of checks with remediations, an emergency shell | interfaces that come and go; a remediation that does not help | the exit code is true |
| random numbers, recovery (`pkg/rng`, `pkg/recovery`) | the kernel's generator, descriptors, one goroutine per call | select, feed the kernel's pool, recover | reads and writes that fail in a loop without end; a recoverer that does not come back | only what was read is fed; the loop goes on and keeps its devices |

How they interact: `uinit` calls `GetBootEntries` (which reads the files that
`vpdbootmanager` writes), then `Boot` of each booter, which starts `netboot` or
`localboot` as a child process and waits for it; so does the default sequence.
`localboot` calls `ScanGrubConfigs`, `Mount` and `BootConfig.Boot`; `netboot`
calls kexec itself, and starts `fixmynetboot` as a child. The programs share no
memory. What they share, and where one can spoil it for another, is the
kernel's loaded kexec image, the mount table, the VPD and the TPM.

Every component is listed in `PROJECT.json`, with its status; every place where
something can go wrong that a test would hardly reach is listed there under
"hazards", with the properties that watch it.

## 2. Modules

    Kexec            image, running: the kernel's kexec state (external)
      BootCommand    abstract: what uinit expects of netboot and localboot
      Netboot        netboot/main.go             implements BootCommand
    BootConfig       BootConfig.Boot (uses Kexec)
      Localboot      localboot/main.go, composes BootConfig; implements BootCommand
    Storage          the list of block devices, the search by UUID
      GrubParser     ParseGrubCfg, a line at a time (uses Storage)
      GrubScan       ScanGrubConfigs: list, walk, parse; detail of Localboot!ScanNext
    Fixmynetboot     fixmynetboot and pkg/checker; detail of Netboot!Fix
    KeyFiles         pkg/crypto/ed25519.go
      ZipConfig      FromZip with signers and replaced files (composes KeyFiles)
    Entropy          pkg/rng with both recoverers of pkg/recovery
    Booters          entry -> booter -> command line (pure operators)
      VpdBootManager vpdbootmanager, VPD store, the next boot's view of it
      Uinit          uinit, GetBootEntries, composes BootCommand and Booters

An `MC<module>` module gives each a small instance; `<module>Proofs` modules
hold the proofs; `LocalbootProofs` instantiates `BootConfigProofs` as `Localboot`
instantiates `BootConfig`, and `NetbootProofs` has the proofs about Fixmynetboot at
its end (it extends both; they share no variable). In every module `Spec` is `Init /\ [][Next]_vars` (`FixSpec` in Fixmynetboot), with
fairness where a process has to go on; each handler or step of a function between two calls that can fail
is an action, and `pc` names the place in the function. Variables called
"history" in the comments are read by properties only, never by a guard.
Operators whose comment says "Mutant" are plausible errors that the properties
have to detect; no specification uses them.

**Kexec.** `image` is what `kexec.FileLoad` or `multiboot.Load` last loaded; it
belongs to the kernel and survives its process. `running` is what a successful
`kexec.Reboot` started. `fresh` (history) says that the current attempt loaded
the image. After `running # NoImage` nothing of the firmware moves.

**BootCommand.** The promise on which uinit rests: a command may load images,
reboots only into one that it has loaded in its latest attempt, and otherwise
ends or hangs. `Uinit` runs this abstraction as its child; `Netboot` and
`Localboot` are shown to implement it (`IsABootCommand`), so that the three
fit together.

**BootConfig.** Successive calls of `Boot` in one process: measure the byte
stream, measure the files, open the kernel and the initramfs, load, or probe
and load a multiboot image, then reboot. Each call may fail where the code
checks an error. `fds` counts open descriptors: `Boot` defers the close of the
kernel only after the initramfs was opened, so that `leaks` grows by one when
that fails; the finalizer of `os.File` may close it later (`Finalize`). `Detach`
takes files away between any two steps (a medium is removed). Of a measurement
three things can be lost, and the code passes over each: the TPM does not open
(`measure.go:23`, `35`), a file cannot be read (`42`: it is skipped), or the
extend fails, whose result is not looked at (`29`, `46`). `lost` (history) holds
the files that were there and got lost so, and `recorded` says the same of the
configuration.

**Localboot.** Up to `MaxRuns` processes, one after another (as uinit starts
them): flags, mounts in the order of the devices, scans, the boots in order,
and the deferred unmounts on each return. The kernel's image and the mount
table pass from one process to the next. Devices can go away at any time. Of the
scan of a device it says only that any prefix of the device's configurations may
be found (`ScanNext`); that this is what the scan does is shown in GrubScan.

**Storage, GrubParser, GrubScan.** `GetBlockStat` is a turn of the loop over
`/sys/class/block`, with the UUID of a VFAT or else an EXT4 superblock; one
device with a bad stat file makes the whole list fail (`ListFails`). A line of a
`grub.cfg` is the sequence of its words; `ParseLine` is a turn of the parser's
loop: the reset at a `menuentry`, the move of the kernel directory at a `search`,
the directives, unquoting in version 2. `Entries` is the reference: what a reader
takes the same lines to say, computed from the whole text by the numbers of the
lines (the last of an entry that names a kernel, the last before it that searches)
and without a parser's state. The tree of a device is the sequence of what
`filepath.Walk` would meet if nothing were skipped; `IsWalk` says which sequences
are one. `VisitDir` skips directories that are not searched and those too deep,
with all that is in them (`SkipDir`), `ReadFile` reads under the name without
nonspacing marks, and anything that cannot be read ends the walk (`WalkFails`).

**Fixmynetboot.** `main`'s loop over interfaces and `checker.Run`'s loop over the
five checks, with the remediation of the first, the emergency shell, and the exit
code that `Netboot!Fix` waits for. The facts that the checks ask for are the
kernel's and change between any two steps (`Change`).

**KeyFiles, ZipConfig.** `GeneratED25519Key` writes two files, and either write
may fail or the machine stop in it, leaving the file as it was or cut off.
`FromZip` reads the boot file once; then come the public key, the signature,
the directory, and one action per kind of entry. Meanwhile keys are generated
(`KeyStep`), archives signed (`Sign`), boot files replaced, also by ones that
carry the signature of another (`Replace`), and the public key file replaced by
something that is no key (`ReplacePublic`): a `PUBLIC KEY` block of another
length is loaded all the same, and `ed25519.Verify` panics. A signature is the
pair of the key and what was signed.

The name of an entry is a sequence of path components, among them `.` and `..`.
It is written to `path.Join(tempDir, f.Name)`, which cleans it (`Destination`),
but compared with `manifest.json` as it stands (`IsManifest`). So several names
lead to one file; `./manifest.json` or `boot/../manifest.json` is written over the
file of the manifest without being decoded, and the manifest returned need not
be the one among the files; `../x` is written outside of the directory. What is
`Outside` is not modelled further: such a write may succeed or fail.

**Entropy.** Calls of `UpdateLinuxRandomness` one after another: selection,
read-back, the two devices; each that succeeds starts a goroutine for ever.
What fails in a goroutine goes to the recoverer, which comes back
(`RecoverReturns`), or does not, or takes the machine down (`GoDown`, a secure
one only). `Finalize` is the collector closing a device that a failed call left
open. `SelectOther` is another program.

**Netboot.** One process: `main`'s loops over interfaces and protocols, `boot`,
the loop of HTTP attempts with the classification of errors and statuses, the
check of the response that may be nil (a panic ends the process with code 2),
the save, which can leave a torn file, the load, the reboot, `-fix`, dry run.
`Answer` and `Read` are the server's; everything else is `Local`.

**Booters.** `GetBooterFor` and the `Boot` methods as functions from an entry
to the command they execute, or `None`. JSON is abstracted to a record or
`Garbage`; both other modules use these operators.

**VpdBootManager.** Any number of `add` processes over the files of the VPD.
`Set` is two steps (the file is created or emptied, then written) and fails in
either, a power loss ends all processes between any two steps, the look for a
free slot and the write are separate. `BootValue` and `CommandOf` say what the
next boot makes of it. An add with `-vpd-dir` works on a directory that the next
boot does not read, and changes nothing here. Each add has a `number`; `beside`
(history) are those that ran at the same time, `claims` (history) those that
found a slot free. `Honours` relates the command that boots to the arguments of
the add. It is silent on two of them, which are accepted and then not passed on:
the MAC of netboot, whose field is documented as the interface to boot from
(`netbooter.go:39`), and `-ramfs` with `grub`.

**Uinit.** The scan of the VPD slot by slot with read errors, the turn of each
entry, the default sequence for ever, a child that runs in between, and the
operator's interrupt. The countdown and signal handling are reduced to
`interactive`: with `-i`, signals are not ignored, also after the countdown, so
`Interrupt` is possible until the end; without it, signals are ignored, by the
commands too, but only once `main` has come to `signal.Ignore`
(`uinit/main.go:46`), so it is possible at the start.

## 3. Runs

| Run | Instance | What it shows |
|---|---|---|
| `bootconfig` | the configurations of `MCBootConfig`, two open descriptors beyond those of a call | a valid configuration boots itself or nothing, the measurement of what runs was tried first, no descriptor is lost except the known one |
| `bootconfig_unmeasured` | the same | finding: files that run without having been measured |
| `localboot` | a disk and a partition, two processes, every mode, `-config` negative, at, below and beyond the number found, dry runs | mounts are restored but for one, boots happen while mounted, only the selection runs, all are tried, it implements BootCommand |
| `localboot_partition` | the same | finding: the disk is mounted, not the partition |
| `netboot` | 0 to 2 interfaces, both protocols, 3 attempts, two bodies, every kind of URL and flag | only a good download runs, handed to the TPM first; everything is tried in order before it gives up; the number of open bodies; it ends when servers answer; it implements BootCommand |
| `netboot_fix` | the same | finding: a panic instead of fixmynetboot |
| `vpdbootmanager` | two processes at a time, three adds, four slots, initial contents with a gap, with a damaged and with a read-only entry | no entry is touched, slots fill from below, reported adds boot with their arguments unless an overlapping one claimed the slot, and in order |
| `uinit` | three slots with entries of every kind in both stores, two images | the boot order, turns and defaults, and what an interrupt can cut short |
| `grub` | three devices with four kinds of contents, six trees, four lines of ten kinds over all files of a tree | the parser holds after each line what the lines so far say; the walk parses every relevant file up to an error and no other |
| `fixmynetboot` | two interfaces, any facts at the start and one change, all command lines | an exit code 0 or 1 means what it says |
| `entropy` | two calls, two accepted generators and another, every failure of a read, write or open | only what was read is fed, the devices stay open, the loop goes on |
| `zipconfig` | two key pairs, two signatures, two calls, three archives: empty, one with a damaged manifest and a file without its directory, and one with every kind of entry, two manifests, another file over theirs, and names that lead out of the directory | key files are a pair, nothing is unpacked that was not signed, a result is complete |

Why the bounds are enough. Two processes (`localboot`, adds) are the least that
can disturb each other, and a third add lets a later one meet what two left.
Two interfaces with two protocols have every kind of successor in the loops
(next protocol, next interface, end), and three HTTP attempts are the code's own
number. Four lines are a `menuentry` with a search and a directive and the line
after them, or two entries; directives do not depend on each other but through
the kernel directory and the configuration that is under way. One change of a
fact is enough to spoil any one check after or before its turn, and the initial
facts are arbitrary. Levels of the pool below and at the threshold are what the
feeding loop tells apart, beside one that does not parse and one out of range
(`ParseUint` then returns the maximum, and the loop goes back to sleep). Two key
pairs, calls and signatures give a stale one of
each; two goroutines differ only in when they run. Four slots hold an unusable Boot0000, a used, a damaged
and a free one and can be filled up. Two bodies or images are enough to tell a
stale one from the right one. `MaxRuns`, `MaxAdds`, `MaxFds`, `MaxInterfaces`,
`MaxLines`, `MaxChanges`, `MaxKeys`, `MaxSigned`, `MaxCalls` of FromZip, `Calls`
of UpdateLinuxRandomness and `MaxBootEntry` are the only bounds in guards or
ranges; `MaxBootEntry` and `EntropyBlockSize` are constants of the code made
small.

Deadlock is not checked: every program but uinit's default sequence ends, and a
machine that has left for another kernel does nothing more.

**Fairness.** Where a specification states fairness, it is weak fairness of the
sequential process it models, or of each goroutine, and of nothing else: a
Go program that is not blocked goes on, by the kernel's scheduler. No fairness is
assumed of HTTP servers (`Answer`, `Read`: the client sets no timeout,
`netboot/main.go:294-324`), of child commands (`CommandRuns`, which may hang), of
a recoverer's command, of operators, removed media, power losses, the garbage
collector, or of somebody who starts another process. The liveness properties say
so: netboot ends if servers always answer in the end (`EndsWhenAnswered`, whose
premise is that fairness); an entry gets its turn unless a command hangs
(`EveryEntryGetsItsTurn`); the feeding loop goes on if recoverers always come
back in the end (`KeepsWatching`, again as a premise).

## 4. Findings

Shown by a run:

- `pkg/bootconfig/bootconfig.go:35`: "FileNames returns a slice of all
  filenames". The multiboot kernel is not among them, and a multiboot module
  with arguments is no file name: both run unmeasured.
- `localboot/main.go:32`: `mountByGUID` "looks for a partition with the given
  GUID". `PartitionsByGUID` compares partition types and returns the disk.
- `netboot/main.go:42`: `-fix`, "Try to run fixmynetboot if netboot fails". When
  the last attempt times out, `resp` is nil at line 217 and netboot panics.

Seen while modelling, without a run of their own: `Boot` of a configuration with
neither kernel nor multiboot kernel reboots into any image loaded earlier
(`bootconfig.go:97`; no caller passes one). The device tree is measured but
never used (`bootconfig.go:55`). `-guid` is not ignored with `-grub`
(`localboot/main.go:27`). Without `-initramfs`, path mode gives the mount point
itself as initramfs (`localboot/main.go:192`). The booter's comment that only
the first GRUB entry is tried (`pkg/booter/localbooter.go:40`) is not what
localboot does. "Invalid arg -config" is logged also for a valid index whose
boot failed (`localboot/main.go:143`). A GRUB entry's device
(`localbooter.go:38`) and ramfs and a netboot entry's MAC, "the interface to boot
from" (`netbooter.go:39`), are not used.
`slaac` is a documented method, which `Boot` rejects (`pkg/booter/netbooter.go:38`).

`localboot/grub.go:83` says that valid configurations "have both kernel and
initramfs"; `IsValid` asks for no initramfs and takes multiboot kernels. The
comment above `ParseGrubCfg` promises one configuration for each menuentry, with
files relative to `basedir` (`grub.go:54-57`); invalid entries are dropped, and a
search directive moves the files to another device. `inMenuEntry` is never reset,
so that directives after the end of an entry change it (`grub.go:99`): the
reference definition `Entries` lets an entry go up to the next `menuentry`.

"At the top of the array is the highest priority" (`pkg/rng/entropy.go:49`): a
match ends the inner loop only, and the last match wins. The name read back from
`rng_current` is compared as it is (`entropy.go:97`); a kernel that ends it with a
newline makes every selection fail, and one that ends `rng_available` with a
newline hides the last generator.

fixmynetboot looks for global addresses on `eth0` whatever interface it was given
(`cmds/fixmynetboot/main.go:56`). The remediation of a missing interface only
looks for its name in the kernel's messages, and the check is not repeated
(`pkg/checker/checker.go:28`): a missing interface is noticed by the later check
of its link-local address. `GeneratED25519Key` encrypts the private key only when
the password is empty (`pkg/crypto/ed25519.go:98`). `FromZip` panics on a file
shorter than a signature, before it comes to the test for a short read, which
cannot be true (`pkg/bootconfig/zipconfig.go:57-72`); a call that fails while it
unpacks leaves its temporary directory. The manifest it returns is not always the
file `manifest.json` it leaves, and not all it writes is in the directory it
returns (`zipconfig.go:97`, `117`). What cannot be measured runs all the same,
without a trace where the extend fails or a file cannot be read
(`pkg/crypto/measure.go:29`, `43`, `46`). Two adds that overlap may write one slot;
both report success (`cmds/vpdbootmanager/add.go:120`).

## 5. Proofs

TLAPS checks these for every value of the constants (any number of processes,
slots, entries, interfaces, attempts, images, and any contents). They rest only
on the named assumptions of the modules, which say that the distinguished values
(`None`, `Absent`, `Garbage`, `NoImage`, ...) differ from the ordinary ones and
that the parameters have their types; TLC evaluates them in the passing runs.

**VpdBootManagerProofs**: all five invariants and `OnlyAddsChangeEntries`. The
invariants are not inductive alone. `KeepsEarlierEntries` needs that a slot in
use stays in use (`InUseGrows`: nothing removes a file, and what `Write` stores
is an entry, `ParsedIsEntry`), hence `BeforeInUse`. `AddedIsBooted` and
`AddsBootInOrder` need `AddedIsStored`: what a finished add has written is still
there, or one that overlapped with it and claimed the slot may have written; and
all slots up to it are in use, and were when an add started that did not overlap.
This rests on a writer having claimed its slot (`WritersClaim`) and on two that
run at the same time each having the other beside it (`KnowEachOther`). That the
entry keeps what the arguments said is a lemma about the operators
(`ParsedIsHonoured`).

**UinitProofs**: all three invariants. The strengthening says how many entries
have been read and had their turn at each place (`EntriesBound`, `GivenBound`);
`EntriesFaithful` follows from one lemma about a turn of the scan
(`ReadSlotCases`).

**NetbootProofs**, of Netboot: `TypeOK`, `RunsOnlyAGoodDownload`, `MeasuredUnlessLost`,
`DryRunTouchesNothing`, and the refinement `IsABootCommand`. The strengthening
says what `boot` knows at each place: the URL in force, whose body is held,
that the file and then the kernel hold that body, and that a body is open. All
ways out of `boot` share one lemma (`LeavesBoot`): nothing need be known there.
For the refinement each action maps to a step of BootCommand or to a stutter.
`TriesEverythingInOrder` and `UnclosedBound` have invariants of their own on top:
`TurnInv` says that the interfaces before the present one had their turns
(`HadItsTurn`), that the protocols before the present one were tried on it
(`IndicesSayWhatWasTried`), and that the order was kept (`TriedInOrder`);
`OpenKnown` counts the open bodies against the finished calls of `boot` and the
retries of the running one. It rests on each call adding a new pair to `tried`
(`CallIsNew`), a lemma about the cardinality of a set with one element more.

**BootConfigProofs**: all four invariants. Each is a part or a consequence of:
what the branches of `Boot` have tested (`BranchKnown`), that only the call that
loaded an image comes to the reboot with it (`ImageKnown`), and what has been
handed to the TPM at each place, with or without success, although files may go
away (`MeasuredKnown`). The lemmas
are about single steps (`BootCallInv`, `BootStepInv`, `FilesChangeInv`,
`ProcessEndsInv`), so that a program that composes Boot can cite them.

**LocalbootProofs**: all five invariants, the refinement `IsABootCommand`, and
that of what localboot runs the measurement was tried first. The invariant is that of BootConfig,
instantiated (its assumptions are proved of the configurations that localboot
boots, `BootAssumption`), and what the process knows: which devices carry one
mount more than at the start (`MountsKnown`; no device is mounted twice because
`/sys/class/block` lists it once), which places belong to which mode
(`ModeKnown`), and which configurations have been tried and which one Boot is
working on (`SelectionKnown`). A step is then either one of Boot, which the
process stands by (`StandsStill`), or one of the process, to which Boot's
invariant is indifferent (`MediaKeep`). `MountsPileUpByProcesses` looks across
processes: no device is mounted more often than processes were started.

The last part of NetbootProofs is about fixmynetboot: `ExitCodeIsTrue`.
Inductive together with: the interfaces before the present one are cleared by their last two checks or by the
shell, and the checks of the present one that stop have passed (`StoppersPassed`);
no check has passed that is still to come (`NothingAhead`); and what is known of
the list, the shell and the exit (`StartKnown`, `ShellKnown`, `ExitKnown`).

**GrubScanProofs**: `TypeOK`, `ReadsEntriesAsWritten` and `FindsAllUpToAnError`, for
any devices, any tree that `filepath.Walk` can meet, and any number of files and
lines. A reader looks at a whole text and the parser at one line, so that the
first half of the module is about what one more line changes in what a reader
takes a text to say: nothing in the entries before the last one (`SameEntryAt`);
in the last one what `Directive` changes (`EntryOfMore`, `DirOfMore`,
`ModulesOfMore`); and a `menuentry` ends it and starts another (`StartsOfMore`,
`EndType`). No induction is needed: sets of line numbers have a greatest and a
least element because each rank is taken by one of them (`EachRankIsTaken`, by
the pigeonhole theorems of the library), and lists in order grow at their end
(`InOrderOfMore`). The invariant then says that the parser is in the last entry
and has saved those before it (`ParserKnown`), which rests on the list of devices
being that of the machine (`DevicesKnown`), since a search directive asks it
(`SearchReads`). Of the walk it says that the place it is at is in no directory
that it has skipped (`WalkKnown`): so a file that it parses is relevant
(`FileIsRelevant`), and what it jumps over is not (`NothingBelow`); that this
stays true needs that a directory comes with all in it (`IsWalk`,
`NotBelowSkipped`). `ParsedKnown` says that what each file gave lies within what
is found.

**EntropyProofs**: `FeedsOnlyWhatItRead` and `HoldsItsDevices`. The
strengthening says which calls have been verified at each place (`CallKnown`)
and what the call under way holds (`HoldsNow`); the descriptors are counted by
two lemmas about the cardinality of a set with one element more or less.

**ZipConfigProofs**: `FilesAreAPair`, `UnpacksOnlyWhatWasSigned` and
`ReturnsTheArchive`. The strengthening: what the two files hold at each step of
the generation (`KeyKnown`); every signature there is was made by a signer
(`SigsSigned`); the locals at each place (`CallKnown`); and what is extracted is
what the entries before the present one hold (`ExtractedKnown`), by two lemmas
about `FilesOf` for an entry that adds a file and one that does not. Nothing is
used of `Destination` but that the same entry always leads to the same place, so
that they hold for any names.

That a dry run of netboot configures and loads nothing (`DryRunTouchesNothing`)
is proved and has no run of its own; nor have `MountsPileUpByProcesses` and
`NothingLocalbootRunsIsUntried` of Localboot.

Only model-checked: liveness (`EndsWhenAnswered`, `EveryEntryGetsItsTurn`,
`DefaultsForEver`, `KeepsWatching`), since liveness under fairness and ENABLED are
out of the prover's reach. Every invariant, the action property and both
refinements that the passing runs check are proved. That ranks give
the same order as sorting (`InOrder`, used by the reference of GrubScan) is also
compared by TLC with `SetToSortSeq`, for all sets of numbers up to six.

## 6. What is left out

- `kernel_args`, `-userclass`, `-d` and message texts: passed on or printed
  without a decision.
- Uinit: the measurement of VPD values (PCR 9), which has no effect on control;
  the lengths of sleeps.
- Netboot: DHCP packets, certificates and TLS are success or failure; the boot
  file's descriptor, which is not closed after a load; a body that is cut short
  without an error because it has no length.
- VpdBootManager: the MAC of netboot and `-ramfs` with GRUB are accepted and then
  not passed on; no property asks for them.
- BootConfig and Localboot: a file that is still there is unchanged, so that a
  swap between measurement and load is not seen; only the removal of media.
- VpdBootManager: contents of a torn write are one value, `Garbage`; a reader
  may meet it (`GetBooterFor` then gives the null booter).
- GrubScan: titles of entries; of quoting only that a backslash before a `$` is
  removed in version 2.
- Storage: the layout of partition tables and superblocks is reduced to what is
  found in them.
- ZipConfig: compression, JSON and PEM are a success or a failure; the
  measurement of what was read, whose result is ignored; files outside of the
  temporary directory and the modes of files.
- Entropy: the contents of random numbers; only their number.

**Not modelled.** `VPD.GetAll`, `GetMountpointByDevice` and
`InterfaceCanDoDHCPv6`, which no program of the repository calls.
`Manifest.GetBootConfig`, `NewManifest` and `ManifestToBytes`, which only build or
look up values. Collisions of `bytestream` (`bootconfig.go:46`), which are a
matter of characters. A file that is swapped between its measurement and its load
(`bootconfig.go:58`): nothing in the code could notice it, so a property would
only say what the model allows. `vpdbootmanager add` without a type
(`cmds/vpdbootmanager/main.go:45`), which ends before it reads anything. Vendored
code, scripts and CI files are not part of the model.

## 7. Plan

Done, in this order: Kexec, BootCommand, BootConfig, Localboot, Netboot,
Booters, VpdBootManager, Uinit; GrubParser and GrubScan; Fixmynetboot, Entropy,
KeyFiles and ZipConfig; proofs of VpdBootManager, Uinit, Netboot, Fixmynetboot,
Entropy, ZipConfig, BootConfig, Localboot and GrubScan.

Next, if the code grows: a composition of GrubScan into Localboot in the place of
`ScanNext`, which takes any prefix of a device's configurations.
