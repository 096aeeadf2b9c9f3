--------------------------------- MODULE Uinit ---------------------------------
(***************************************************************************)
(* uinit (uinit/main.go with pkg/booter): it reads the boot entries of the *)
(* VPD, gives each its turn, and then alternates between the two default   *)
(* boot commands for ever.  The commands are processes: while uinit waits  *)
(* for one, it loads images and may reboot the machine, exit, or hang      *)
(* (module BootCommand).  An operator may interrupt all of it.             *)
(***************************************************************************)
EXTENDS BootCommand, Booters

CONSTANTS
  InitialRW, InitialRO  \* contents of the VPD

ASSUME UinitAssumption ==
  /\ InitialRW \subseteq [Slots -> Values \cup {Absent}]
  /\ InitialRO \subseteq [Slots -> Values \cup {Absent}]
  /\ NoImage \notin Images

VARIABLES
  rw, ro,   \* the VPD: for each slot its value, or Absent
  flags,    \* the command line: interactive (-i), nodefault
  pc,       \* where uinit stands
  idx,      \* local variable idx of GetBootEntries
  entries,  \* bootEntries: the slots and values read
  turn,     \* loop index, from 1: over entries, later over the defaults
  misread,  \* history: the slots a variable of which could not be read
  given     \* history: the entries that had their turn, with the command

storeVars == <<rw, ro, flags>>
uinitVars == <<pc, idx, entries, turn, misread, given>>
vars == <<commandVars, storeVars, uinitVars>>

\* defaultBootsequence.
Defaults ==
  <<[program |-> "netboot", useV6 |-> TRUE, useV4 |-> FALSE, interface |-> None,
     skipDHCP |-> FALSE, overrideNetbootURL |-> None, dhcpRetries |-> 3, doFix |-> FALSE],
    [program |-> "localboot", grub |-> TRUE, kernel |-> None, guid |-> None,
     initramfs |-> None]>>

---------------------------------------------------------------------------
Init ==
  /\ CommandInit /\ image = NoImage /\ status = "idle"
  /\ rw \in InitialRW /\ ro \in InitialRO
  /\ flags \in [interactive : BOOLEAN, nodefault : BOOLEAN]
  /\ pc = "start" /\ idx = 0 /\ entries = <<>> /\ turn = 1
  /\ misread = {} /\ given = <<>>

At(label) == FirmwareRuns /\ pc = label

\* The countdown, or signal.Ignore().
Start ==
  /\ At("start") /\ pc' = "scan"
  /\ UNCHANGED <<commandVars, storeVars, idx, entries, turn, misread, given>>

\* Mutant: the error is not looked at.
ReadUnchecked(store) == entries' = Append(entries, [slot |-> idx, value |-> store[idx]])

\* A variable that is there is read, or there is an error reading it.
Read(store) == store[idx] # Absent /\ entries' = Append(entries, [slot |-> idx, value |-> store[idx]])
Fails(stores) ==
  misread' = IF \E store \in stores : store[idx] # Absent THEN misread \cup {idx} ELSE misread

\* Mutant: read-only variables come first.
ReadSlotReadOnlyFirst ==
  /\ At("scan") /\ idx \in Slots
  /\ \/ Read(ro) /\ UNCHANGED misread
     \/ Read(rw) /\ Fails({ro})
     \/ Fails({rw, ro}) /\ UNCHANGED entries
  /\ idx' = idx + 1
  /\ UNCHANGED <<commandVars, storeVars, pc, turn, given>>

\* One turn of GetBootEntries: any error of the read-write variable leads to
\* the read-only one, and any error of that one to the next key.
ReadSlot ==
  /\ At("scan") /\ idx \in Slots
  /\ \/ Read(rw) /\ UNCHANGED misread
     \/ Read(ro) /\ Fails({rw})
     \/ Fails({rw, ro}) /\ UNCHANGED entries
  /\ idx' = idx + 1
  /\ UNCHANGED <<commandVars, storeVars, pc, turn, given>>

ReadDone ==
  /\ At("scan") /\ idx \notin Slots
  /\ pc' = "entry"
  /\ UNCHANGED <<commandVars, storeVars, idx, entries, turn, misread, given>>

\* entry.Booter.Boot(): the command is started and waited for.  There may be
\* none to start, or it may fail to start; errors are only logged.
BootEntry ==
  /\ At("entry") /\ turn <= Len(entries)
  /\ LET entry == entries[turn]
         command == CommandOf(entry.value)
     IN /\ given' = Append(given, [slot |-> entry.slot, command |-> command])
        /\ \/ command # None /\ StartCommand /\ pc' = "entryRuns"
           \/ pc' = "entrySleep" /\ UNCHANGED commandVars
  /\ UNCHANGED <<storeVars, idx, entries, turn, misread>>

\* Mutant: the command is run again until it succeeds.
EntryRunAgain ==
  /\ At("entryRuns") /\ StartCommand
  /\ UNCHANGED <<storeVars, uinitVars>>

\* cmd.Run returns when the command has ended.
EntryReturned ==
  /\ At("entryRuns") /\ status = "idle"
  /\ pc' = "entrySleep"
  /\ UNCHANGED <<commandVars, storeVars, idx, entries, turn, misread, given>>

\* Mutant: the loop ends with the first Boot that returns nil.
EntrySleepBreaking ==
  /\ At("entrySleep") /\ pc' = "default" /\ turn' = 1
  /\ UNCHANGED <<commandVars, storeVars, idx, entries, misread, given>>

EntrySleep ==
  /\ At("entrySleep") /\ pc' = "entry" /\ turn' = turn + 1
  /\ UNCHANGED <<commandVars, storeVars, idx, entries, misread, given>>

EntriesDone ==
  /\ At("entry") /\ turn > Len(entries)
  /\ IF flags.nodefault THEN pc' = "stopped" /\ UNCHANGED turn
     ELSE pc' = "default" /\ turn' = 1
  /\ UNCHANGED <<commandVars, storeVars, idx, entries, misread, given>>

\* The inner loop over defaultBootsequence, and the sleep after it.
BootDefault ==
  /\ At("default") /\ turn <= Len(Defaults)
  /\ \/ StartCommand /\ pc' = "defaultRuns" /\ UNCHANGED turn
     \/ turn' = turn + 1 /\ UNCHANGED <<commandVars, pc>>
  /\ UNCHANGED <<storeVars, idx, entries, misread, given>>

\* Mutant: the sequence starts over after each command.
DefaultReturnedToFirst ==
  /\ At("defaultRuns") /\ status = "idle"
  /\ pc' = "default" /\ turn' = 1
  /\ UNCHANGED <<commandVars, storeVars, idx, entries, misread, given>>

DefaultReturned ==
  /\ At("defaultRuns") /\ status = "idle"
  /\ pc' = "default" /\ turn' = turn + 1
  /\ UNCHANGED <<commandVars, storeVars, idx, entries, misread, given>>

DefaultSleep ==
  /\ At("default") /\ turn > Len(Defaults)
  /\ turn' = 1
  /\ UNCHANGED <<commandVars, storeVars, pc, idx, entries, misread, given>>

Step ==
  \/ Start \/ ReadSlot \/ ReadDone \/ BootEntry \/ EntryReturned \/ EntrySleep
  \/ EntriesDone \/ BootDefault \/ DefaultReturned \/ DefaultSleep

\* The command that runs, which nothing obliges to go on.
CommandRuns == CommandStep /\ UNCHANGED <<storeVars, uinitVars>>

\* CTRL-C ends uinit and the command it runs.  Without -i signals are ignored,
\* by the commands too, but not before main has got to signal.Ignore.
Interrupt ==
  /\ FirmwareRuns /\ pc # "stopped"
  /\ flags.interactive \/ pc = "start"
  /\ pc' = "stopped" /\ status' = "idle"
  /\ UNCHANGED <<kexecVars, storeVars, idx, entries, turn, misread, given>>

Next == Step \/ CommandRuns \/ Interrupt

\* uinit itself goes on; commands may hang and operators need not interrupt.
Spec == Init /\ [][Next]_vars /\ WF_vars(Step)

---------------------------------------------------------------------------
\* Types of the variables.
TypeOK ==
  /\ image \in Images \cup {NoImage} /\ running \in Images \cup {NoImage}
  /\ fresh \in BOOLEAN /\ status \in {"idle", "running"}
  /\ rw \in InitialRW /\ ro \in InitialRO
  /\ flags \in [interactive : BOOLEAN, nodefault : BOOLEAN]
  /\ pc \in {"start", "scan", "entry", "entryRuns", "entrySleep", "default", "defaultRuns",
             "stopped"}
  /\ idx \in 0..MaxBootEntry /\ turn \in 1..(MaxBootEntry + 3)
  /\ entries \in Seq([slot : Slots, value : Values])
  /\ misread \subseteq Slots
  /\ given \in Seq([slot : Slots, command : Commands \cup {None}])

BootValue(s) == IF rw[s] # Absent THEN rw[s] ELSE ro[s]

\* The boot order: the entries read are in ascending order of their slots, no
\* slot twice, and each slot read so far that gave no error is among them with
\* its read-write value, or else its read-only one (bootentry.go:59-76).
EntriesFaithful ==
  /\ \A i, j \in 1..Len(entries) : i < j => entries[i].slot < entries[j].slot
  /\ \A i \in 1..Len(entries) : entries[i].slot < idx
  /\ \A s \in 0..(idx - 1) \ misread :
       LET read == {i \in 1..Len(entries) : entries[i].slot = s}
       IN IF BootValue(s) = Absent THEN read = {}
          ELSE \E i \in read : entries[i].value = BootValue(s)

\* No boot entry is skipped or started twice, and a default command runs only
\* after every entry had its turn, broken ones included.  Without -i nobody can
\* stop uinit once it reads the VPD: it ends only under -nodefault, and then
\* every entry had its turn as well (main.go:38-45, 55-72).
EveryEntryBeforeTheDefaults ==
  /\ \A i \in 1..Len(given) : given[i].slot = entries[i].slot
  /\ pc \in {"default", "defaultRuns"} => Len(given) = Len(entries)
  /\ pc = "stopped" /\ ~flags.interactive /\ idx > 0 =>
       flags.nodefault /\ Len(given) = Len(entries)

\* uinit was stopped where it can be: at any time with -i, and before it reads
\* the VPD without.
Interrupted == pc = "stopped" /\ (flags.interactive \/ idx = 0)

Over == running # NoImage \/ Interrupted
Hung == <>[](status = "running")

\* A broken entry never blocks the others: every entry has its turn, unless
\* the machine boots, uinit is interrupted where it can be, or a command hangs.
EveryEntryGetsItsTurn ==
  Hung \/ <>(Over \/ (pc = "entry" /\ turn > Len(entries)))

\* Then both default commands are tried again and again, unless -nodefault.
DefaultsForEver ==
  \/ Hung \/ <>Over \/ <>(pc = "stopped" /\ flags.nodefault)
  \/ \A k \in 1..Len(Defaults) : []<>(pc = "default" /\ turn = k)
==============================================================================
