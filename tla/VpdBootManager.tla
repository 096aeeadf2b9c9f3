---------------------------- MODULE VpdBootManager ----------------------------
(***************************************************************************)
(* cmds/vpdbootmanager: processes that add boot entries to the read-write  *)
(* VPD, possibly at the same time, with power losses in between, and what  *)
(* GetBootEntries reads back at the next boot.                             *)
(*                                                                         *)
(* The store is the directory vpd.go works on: Get reads a file, Set is an *)
(* ioutil.WriteFile, which truncates or creates the file and then writes   *)
(* it.  Nothing locks the directory and nothing removes an entry.          *)
(***************************************************************************)
EXTENDS Booters

CONSTANTS
  Adders,   \* processes
  Args,     \* the command lines of "vpdbootmanager add"
  InitialRW, InitialRO,  \* contents the VPD may start with
  MaxAdds   \* bound on the number of processes started

ArgsType ==
  [type : {"netboot", "localboot", "other"},
   method : {"dhcpv4", "dhcpv6", "slaac", "grub", "path"},
   mac : Text, validMAC : BOOLEAN, override_url : Text, retries : Int,
   guid : Text, kernel : Text, ramfs : Text, dryrun : BOOLEAN,
   elsewhere : BOOLEAN]  \* -vpd-dir names a directory the next boot does not read

\* Numbers of the processes in the order they start, and 0 for none.
Runs == 0..MaxAdds

ASSUME VpdBootManagerAssumption ==
  /\ Args \subseteq ArgsType /\ Args # {}
  /\ InitialRW \subseteq [Slots -> Values \cup {Absent}]
  /\ InitialRO \subseteq [Slots -> Values \cup {Absent}]
  /\ MaxAdds \in Nat

VARIABLES
  rw, ro,   \* the VPD: for each slot its value, or Absent
  pc,       \* where each process stands
  args,     \* its command line
  slot,     \* local variable i of addBootEntry
  adds,     \* history: processes started
  number,   \* history: which of them this one is
  beside,   \* history: those that have run at the same time
  before,   \* history: the slots in use when this process started
  claims,   \* history: for each slot, the processes that found it free
  added     \* history: the adds that returned without error, in that order

historyVars == <<number, beside, before>>
vars == <<rw, ro, pc, args, slot, adds, historyVars, claims, added>>

InUse(store) == {s \in Slots : store[s] # Absent}

---------------------------------------------------------------------------
\* Mutant: 0 is taken for no -retries.
RetriesAboveZero(a) == IF a.retries < 1 THEN None ELSE a.retries

\* -1 stands for no -retries.
Retries(a) == IF a.retries = -1 THEN None ELSE a.retries

\* parseNetbootFlags and parseLocalbootFlags: the entry, or None when the
\* arguments are refused.
Parse(a) ==
  LET entry == [type |-> a.type, method |-> a.method, mac |-> None, override_url |-> None,
                retries |-> None, debug_on_failure |-> FALSE,
                device_guid |-> None, kernel |-> None, ramfs |-> None]
  IN IF a.type = "netboot" /\ a.method \in {"dhcpv4", "dhcpv6"} /\ a.validMAC
     THEN [entry EXCEPT !.mac = a.mac, !.override_url = a.override_url, !.retries = Retries(a)]
     ELSE IF a.type = "localboot" /\ a.method = "grub"
     THEN [entry EXCEPT !.ramfs = a.ramfs]
     ELSE IF a.type = "localboot" /\ a.method = "path"
     THEN [entry EXCEPT !.device_guid = a.guid, !.kernel = a.kernel, !.ramfs = a.ramfs]
     ELSE None

\* Mutant: the loop starts at Boot0000.
FirstSlotZero == 0

\* addBootEntry never uses Boot0000, which GetBootEntries does read.
FirstSlot == 1

NextSlot(s) == s + 1

\* Mutant: a damaged entry is overwritten.
FreeOrDamaged(s) == rw[s] \in {Absent, Garbage}

Free(s) == rw[s] = Absent

Init ==
  /\ rw \in InitialRW /\ ro \in InitialRO
  /\ pc = [p \in Adders |-> "idle"]
  /\ args \in [Adders -> {CHOOSE a \in Args : TRUE}]
  /\ slot = [p \in Adders |-> FirstSlot]
  /\ adds = 0
  /\ number = [p \in Adders |-> 0] /\ beside = [p \in Adders |-> {}]
  /\ before = [p \in Adders |-> {}] /\ claims = [s \in Slots |-> {}]
  /\ added = <<>>

Goto(p, label) == pc' = [pc EXCEPT ![p] = label]

\* add starts: it parses its arguments; with -dryrun it prints the entry, and
\* with -vpd-dir all it does, it does to another directory.
Add(p, a) ==
  /\ pc[p] = "idle" /\ adds < MaxAdds
  /\ adds' = adds + 1
  /\ Goto(p, IF Parse(a) = None \/ a.dryrun \/ a.elsewhere THEN "idle" ELSE "look")
  /\ args' = [args EXCEPT ![p] = a]
  /\ slot' = [slot EXCEPT ![p] = FirstSlot]
  /\ before' = [before EXCEPT ![p] = InUse(rw)]
  /\ number' = [number EXCEPT ![p] = adds']
  /\ beside' = [q \in Adders |->
                 IF q = p THEN {number[r] : r \in {r \in Adders : pc[r] # "idle"}}
                 ELSE IF pc[q] # "idle" THEN beside[q] \cup {adds'} ELSE beside[q]]
  /\ UNCHANGED <<rw, ro, claims, added>>

\* The empty slot it will write to.
Claim(p) ==
  /\ slot[p] \in Slots /\ Free(slot[p])
  /\ Goto(p, "create") /\ UNCHANGED slot
  /\ claims' = [claims EXCEPT ![slot[p]] = @ \cup {number[p]}]

\* Mutant: an error of Get is taken for an entry.
LookPastErrors(p) ==
  /\ pc[p] = "look"
  /\ \/ Claim(p)
     \/ slot[p] \in Slots /\ slot' = [slot EXCEPT ![p] = NextSlot(@)] /\ UNCHANGED <<pc, claims>>
     \/ slot[p] \notin Slots /\ Goto(p, "idle") /\ UNCHANGED <<slot, claims>>
  /\ UNCHANGED <<rw, ro, args, adds, historyVars, added>>

\* One turn of the loop of addBootEntry: an empty slot is taken, a used one
\* is passed over, and any other error of Get, or no slot, ends it.
Look(p) ==
  /\ pc[p] = "look"
  /\ \/ Claim(p)
     \/ slot[p] \in Slots /\ ~Free(slot[p]) /\ UNCHANGED <<pc, claims>>
          /\ slot' = [slot EXCEPT ![p] = NextSlot(@)]
     \/ Goto(p, "idle") /\ UNCHANGED <<slot, claims>>
  /\ UNCHANGED <<rw, ro, args, adds, historyVars, added>>

\* Set opens the file, which creates it or empties it, unless that fails.
Create(p) ==
  /\ pc[p] = "create"
  /\ \/ rw' = [rw EXCEPT ![slot[p]] = Garbage] /\ Goto(p, "write")
     \/ Goto(p, "idle") /\ UNCHANGED rw
  /\ UNCHANGED <<ro, args, slot, adds, historyVars, claims, added>>

\* What is known of an add that reports success.
Report(p) == [slot |-> slot[p], args |-> args[p], add |-> number[p], beside |-> beside[p]]

\* Mutant: the file is removed when the write fails.
WriteOrRemove(p) ==
  /\ pc[p] = "write"
  /\ Goto(p, "idle")
  /\ \/ /\ rw' = [rw EXCEPT ![slot[p]] = Parse(args[p])]
        /\ added' = Append(added, Report(p))
     \/ rw' = [rw EXCEPT ![slot[p]] = Absent] /\ UNCHANGED added
  /\ UNCHANGED <<ro, args, slot, adds, historyVars, claims>>

\* Set writes the file, or fails and leaves it empty or cut short.
Write(p) ==
  /\ pc[p] = "write"
  /\ Goto(p, "idle")
  /\ \/ /\ rw' = [rw EXCEPT ![slot[p]] = Parse(args[p])]
        /\ added' = Append(added, Report(p))
     \/ UNCHANGED <<rw, added>>
  /\ UNCHANGED <<ro, args, slot, adds, historyVars, claims>>

\* A power loss ends every process where it stands.
PowerLoss ==
  /\ \E p \in Adders : pc[p] # "idle"
  /\ pc' = [p \in Adders |-> "idle"]
  /\ UNCHANGED <<rw, ro, args, slot, adds, historyVars, claims, added>>

AddStep(p) == Look(p) \/ Create(p) \/ Write(p)

Next ==
  \/ \E p \in Adders : (\E a \in Args : Add(p, a)) \/ AddStep(p)
  \/ PowerLoss

Spec == Init /\ [][Next]_vars /\ \A p \in Adders : WF_vars(AddStep(p))

---------------------------------------------------------------------------
\* GetBootEntries at the next boot, when every file can be read: for each
\* slot in ascending order the read-write value, or else the read-only one.
BootValue(s) == IF rw[s] # Absent THEN rw[s] ELSE ro[s]
BootSlots == {s \in Slots : BootValue(s) # Absent}

\* What the arguments of an add ask of the command that boots: netboot by the
\* protocol named, from the URL and with the retries if given (3 by default);
\* localboot by GRUB, or the kernel on the device with the ramfs if given.
\* What becomes of the MAC of netboot and of -ramfs with GRUB is left open: the
\* booters pass neither on.
Honours(c, a) ==
  LET path(argument) == IF a.method = "path" THEN argument ELSE None
  IN \E any \in Text :
       c = IF a.type = "netboot"
           THEN [program |-> "netboot",
                 useV6 |-> a.method = "dhcpv6", useV4 |-> a.method = "dhcpv4",
                 interface |-> any, skipDHCP |-> FALSE, overrideNetbootURL |-> a.override_url,
                 dhcpRetries |-> IF a.retries = -1 THEN 3 ELSE a.retries, doFix |-> FALSE]
           ELSE [program |-> "localboot", grub |-> a.method = "grub",
                 kernel |-> path(a.kernel), guid |-> path(a.guid),
                 initramfs |-> IF a.method = "grub" THEN any ELSE a.ramfs]

---------------------------------------------------------------------------
\* Types of the variables.
TypeOK ==
  /\ rw \in [Slots -> Values \cup {Absent}] /\ ro \in [Slots -> Values \cup {Absent}]
  /\ pc \in [Adders -> {"idle", "look", "create", "write"}]
  /\ args \in [Adders -> Args]
  /\ slot \in [Adders -> 1..MaxBootEntry]
  /\ adds \in 0..MaxAdds
  /\ number \in [Adders -> Runs] /\ beside \in [Adders -> SUBSET Runs]
  /\ before \in [Adders -> SUBSET Slots] /\ claims \in [Slots -> SUBSET Runs]
  /\ added \in Seq([slot : Slots, args : Args, add : Runs, beside : SUBSET Runs])

\* An add writes only to a slot that was free when it started: whatever other
\* adds, failed writes and power losses do meanwhile, it never touches an
\* entry that was there before (add.go:118-129).
KeepsEarlierEntries ==
  \A p \in Adders : pc[p] \in {"create", "write"} => slot[p] \notin before[p]

\* Boot entries are filled from below: an add takes a slot only when all slots
\* from 1 on below it are in use, so that no later add boots before it
\* (add.go:118-129).
NoGapBelow ==
  \A p \in Adders : pc[p] # "idle" => 1..(slot[p] - 1) \subseteq InUse(rw)

\* An add that reported success is what the next boot reads in its slot, and
\* its arguments reach the command that boot executes.  Only one thing can
\* undo it: an add that ran at the same time and had found that very slot free.
\* Later adds, failed writes and power losses cannot (add.go:61-71, 118-129,
\* bootentry.go:54-76).
AddedIsBooted ==
  \A i \in 1..Len(added) :
    \/ Honours(CommandOf(BootValue(added[i].slot)), added[i].args)
    \/ added[i].beside \cap claims[added[i].slot] # {}

\* Of two adds that did not run at the same time and reported success, the
\* later one gets the later place in the boot order, whatever runs beside
\* either of them (add.go:118-129).
AddsBootInOrder ==
  \A i, j \in 1..Len(added) : i < j /\ added[j].add \notin added[i].beside
    => added[i].slot < added[j].slot

\* An entry of the next boot never vanishes and never turns into another one,
\* except in a slot that an add is writing (vpd.go:47, nothing else writes).
OnlyAddsChangeEntries ==
  [][\A s \in Slots : BootValue(s)' # BootValue(s) =>
       /\ BootValue(s)' # Absent
       /\ \E p \in Adders : slot[p] = s /\ pc[p] \in {"create", "write"}]_vars

==============================================================================
