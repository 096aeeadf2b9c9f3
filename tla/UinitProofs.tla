------------------------------ MODULE UinitProofs ------------------------------
(***************************************************************************)
(* Proofs about Uinit, for any VPD contents, any number of slots and any   *)
(* images.  The inductive invariant adds to the properties how the loop    *)
(* variables go together: how many entries have been read (EntriesBound)   *)
(* and had their turn (GivenBound) at each place of the program.           *)
(***************************************************************************)
EXTENDS Uinit, TLAPS

\* No more entries than slots were read; before and during the scan, turn is 1.
EntriesBound ==
  /\ Len(entries) <= idx
  /\ pc = "start" => idx = 0
  /\ pc \in {"start", "scan"} => turn = 1

\* How many entries had their turn.
GivenBound ==
  /\ pc \in {"start", "scan"} => Len(given) = 0
  /\ pc = "entry" => Len(given) = turn - 1 /\ turn <= Len(entries) + 1
  /\ pc \in {"entryRuns", "entrySleep"} => Len(given) = turn /\ turn <= Len(entries)
  /\ pc = "default" => turn <= 3
  /\ pc = "defaultRuns" => turn <= 2
  /\ Len(given) <= Len(entries)

Inv ==
  /\ TypeOK /\ EntriesBound /\ GivenBound
  /\ EntriesFaithful /\ EveryEntryBeforeTheDefaults

---------------------------------------------------------------------------
\* Sequences.
LEMMA AppendType ==
  ASSUME NEW S, NEW q \in Seq(S), NEW e \in S
  PROVE  /\ Append(q, e) \in Seq(S) /\ Len(Append(q, e)) = Len(q) + 1
         /\ \A i \in 1..Len(q) : Append(q, e)[i] = q[i]
         /\ Append(q, e)[Len(q) + 1] = e
OBVIOUS

LEMMA ElementType ==
  ASSUME NEW S, NEW q \in Seq(S), NEW i \in 1..Len(q)
  PROVE  q[i] \in S
OBVIOUS

EntryRecords == [slot : Slots, value : Values]
GivenRecords == [slot : Slots, command : Commands \cup {None}]

\* Every boot entry has a command of the programs it may run, or none.
LEMMA CommandType ==
  ASSUME NEW v \in Values
  PROVE  CommandOf(v) \in Commands \cup {None}
<1>1. None \in Text
  BY DEF Text
<1>2. CASE v = Garbage
  BY <1>2 DEF CommandOf, GetBooterFor
<1>3. CASE v \in Entries /\ v # Garbage
  <2>1. /\ v.method \in {"dhcpv4", "dhcpv6", "slaac", "grub", "path"}
        /\ v.override_url \in Text /\ v.retries \in Int \cup {None}
        /\ v.debug_on_failure \in BOOLEAN
        /\ v.device_guid \in Text /\ v.kernel \in Text /\ v.ramfs \in Text
    BY <1>3 DEF Entries
  <2>2. (IF v.retries = None THEN 3 ELSE v.retries) \in Int
    BY <2>1
  <2>3. NetbootCommand(v) \in Commands \cup {None}
    BY <1>1, <2>1, <2>2 DEF NetbootCommand, Commands
  <2>4. LocalbootCommand(v) \in Commands \cup {None}
    BY <1>1, <2>1 DEF LocalbootCommand, Commands
  <2> QED
    BY <2>3, <2>4 DEF CommandOf
<1> QED
  BY <1>2, <1>3 DEF Values

\* The VPD holds values, and is never written.
LEMMA StoreType ==
  ASSUME TypeOK, NEW s \in Slots
  PROVE  rw[s] \in Values \cup {Absent} /\ ro[s] \in Values \cup {Absent}
BY UinitAssumption DEF TypeOK

---------------------------------------------------------------------------
LEMMA InitInv == Init => Inv
<1> SUFFICES ASSUME Init PROVE Inv
  OBVIOUS
<1> USE BootersAssumption DEF Init, CommandInit
<1>1. entries = <<>> /\ Len(entries) = 0 /\ given = <<>> /\ Len(given) = 0
  OBVIOUS
<1>2. TypeOK
  <2>1. entries \in Seq([slot : Slots, value : Values])
    BY <1>1
  <2>2. given \in Seq([slot : Slots, command : Commands \cup {None}])
    BY <1>1
  <2>3. idx \in 0..MaxBootEntry /\ turn \in 1..(MaxBootEntry + 3)
    OBVIOUS
  <2> QED
    BY <2>1, <2>2, <2>3 DEF TypeOK
<1>3. 0..(idx - 1) = {}
  OBVIOUS
<1> QED
  BY <1>1, <1>2, <1>3 DEF Inv, EntriesBound, GivenBound, EntriesFaithful,
     EveryEntryBeforeTheDefaults

\* What a turn of the scan does: it appends an entry, or misses the slot.
LEMMA ReadSlotCases ==
  ASSUME TypeOK, ReadSlot
  PROVE  /\ idx \in Slots /\ idx' = idx + 1 /\ pc = "scan" /\ misread \subseteq misread'
         /\ \/ \E v \in Values :
                 /\ entries' = Append(entries, [slot |-> idx, value |-> v])
                 /\ idx \in misread' \/ v = BootValue(idx)
            \/ entries' = entries /\ (idx \in misread' \/ BootValue(idx) = Absent)
<1>1. idx \in Slots /\ idx' = idx + 1 /\ pc = "scan"
  BY DEF ReadSlot, At
<1>2. rw[idx] \in Values \cup {Absent} /\ ro[idx] \in Values \cup {Absent}
  BY <1>1, StoreType
<1>3. CASE Read(rw) /\ UNCHANGED misread
  BY <1>1, <1>2, <1>3 DEF Read, BootValue
<1>4. CASE Read(ro) /\ Fails({rw})
  BY <1>1, <1>2, <1>4 DEF Read, Fails, BootValue
<1>5. CASE Fails({rw, ro}) /\ UNCHANGED entries
  BY <1>1, <1>5 DEF Fails, BootValue
<1> QED
  BY <1>3, <1>4, <1>5 DEF ReadSlot

\* What the start of an entry's turn does.
LEMMA BootEntryCases ==
  ASSUME Inv, BootEntry
  PROVE  /\ turn \in 1..Len(entries) /\ pc = "entry"
         /\ \E c \in Commands \cup {None} :
              given' = Append(given, [slot |-> entries[turn].slot, command |-> c])
         /\ entries[turn].slot \in Slots
<1>1. turn \in 1..Len(entries) /\ pc = "entry"
  BY DEF BootEntry, At, Inv, TypeOK
<1>2. entries \in Seq(EntryRecords)
  BY DEF Inv, TypeOK, EntryRecords
<1>3. entries[turn] \in EntryRecords
  BY <1>1, <1>2, ElementType
<1>4. CommandOf(entries[turn].value) \in Commands \cup {None}
  BY <1>3, CommandType DEF EntryRecords
<1>5. given' = Append(given, [slot |-> entries[turn].slot,
                              command |-> CommandOf(entries[turn].value)])
  BY DEF BootEntry
<1>6. entries[turn].slot \in Slots
  BY <1>3 DEF EntryRecords
<1> QED
  BY <1>1, <1>4, <1>5, <1>6

---------------------------------------------------------------------------
\* Steps that change neither what was read nor what had its turn.
Quiet == UNCHANGED <<rw, ro, flags, idx, entries, misread, given>>

LEMMA TypeStep ==
  ASSUME Inv, [Next]_vars
  PROVE  TypeOK'
<1> USE BootersAssumption DEF Inv
<1>1. CASE ReadSlot
  <2>1. entries' \in Seq([slot : Slots, value : Values])
    <3>1. CASE entries' = entries
      BY <3>1 DEF TypeOK
    <3>2. ASSUME NEW v \in Values, entries' = Append(entries, [slot |-> idx, value |-> v])
          PROVE  entries' \in Seq(EntryRecords)
      <4>1. [slot |-> idx, value |-> v] \in EntryRecords
        BY <1>1, ReadSlotCases DEF EntryRecords
      <4>2. entries \in Seq(EntryRecords)
        BY DEF TypeOK, EntryRecords
      <4> QED
        BY <3>2, <4>1, <4>2, AppendType
    <3> QED
      BY <1>1, <3>1, <3>2, ReadSlotCases DEF EntryRecords
  <2>2. idx' \in 0..MaxBootEntry /\ misread' \subseteq Slots
    <3>1. idx \in Slots /\ idx' = idx + 1
      BY <1>1 DEF ReadSlot
    <3>2. misread' = misread \/ misread' = misread \cup {idx}
      BY <1>1 DEF ReadSlot, Fails
    <3>3. idx' \in 0..MaxBootEntry
      BY <3>1 DEF Slots
    <3>4. misread' \subseteq Slots
      BY <3>1, <3>2 DEF TypeOK
    <3> QED
      BY <3>3, <3>4
  <2> QED
    BY <1>1, <2>1, <2>2 DEF ReadSlot, TypeOK, commandVars, kexecVars, storeVars
<1>2. CASE BootEntry
  <2>1. given' \in Seq([slot : Slots, command : Commands \cup {None}])
    <3>1. PICK c \in Commands \cup {None} :
             given' = Append(given, [slot |-> entries[turn].slot, command |-> c])
      BY <1>2, BootEntryCases
    <3>2. [slot |-> entries[turn].slot, command |-> c] \in GivenRecords
      BY <1>2, BootEntryCases DEF GivenRecords
    <3>3. given \in Seq(GivenRecords)
      BY DEF TypeOK, GivenRecords
    <3> QED
      BY <3>1, <3>2, <3>3, AppendType DEF GivenRecords
  <2> QED
    BY <1>2, <2>1 DEF BootEntry, StartCommand, FirmwareRuns, TypeOK, commandVars, kexecVars,
       storeVars
<1>3. CASE EntrySleep \/ BootDefault \/ DefaultReturned \/ DefaultSleep \/ EntriesDone
  <2>1. Len(entries) \in Nat /\ idx \in 0..MaxBootEntry /\ turn \in Nat
    BY DEF TypeOK
  <2>2. turn' \in 1..(MaxBootEntry + 3)
    BY <1>3, <2>1 DEF EntrySleep, BootDefault, DefaultReturned, DefaultSleep, EntriesDone, At,
       GivenBound, EntriesBound, TypeOK, Defaults
  <2>3. /\ pc' \in {"entry", "default", "defaultRuns", "stopped"} /\ Quiet
        /\ status' \in {"idle", "running"} /\ fresh' \in BOOLEAN /\ UNCHANGED <<image, running>>
    BY <1>3 DEF EntrySleep, BootDefault, DefaultReturned, DefaultSleep, EntriesDone, At, Quiet,
       TypeOK, commandVars, kexecVars, storeVars, StartCommand
  <2> QED
    BY <2>2, <2>3 DEF TypeOK, Quiet
<1>4. CASE Start \/ ReadDone \/ EntryReturned \/ Interrupt
  BY <1>4 DEF Start, ReadDone, EntryReturned, Interrupt, TypeOK, commandVars, kexecVars,
     storeVars
<1>5. CASE CommandRuns
  BY <1>5 DEF CommandRuns, CommandStep, Attempt, Load, LoadImage, KexecReboot, RebootInto,
     EndCommand, TypeOK, kexecVars, storeVars, uinitVars
<1>6. CASE UNCHANGED vars
  BY <1>6 DEF vars, commandVars, kexecVars, storeVars, uinitVars, TypeOK
<1> QED
  BY <1>1, <1>2, <1>3, <1>4, <1>5, <1>6 DEF Next, Step

LEMMA BoundsStep ==
  ASSUME Inv, [Next]_vars
  PROVE  EntriesBound' /\ GivenBound' /\ EveryEntryBeforeTheDefaults'
<1> USE DEF EntriesBound, GivenBound, EveryEntryBeforeTheDefaults
<1>1. /\ Len(entries) \in Nat /\ Len(given) \in Nat /\ idx \in Nat /\ turn \in Nat \ {0}
      /\ Len(given) <= Len(entries)
  BY DEF Inv, TypeOK
<1>2. CASE ReadSlot
  <2>1. given' = given /\ pc' = pc /\ turn' = turn /\ Len(given) = 0
    BY <1>2, ReadSlotCases DEF ReadSlot, Inv
  <2>2. Len(entries') \in {Len(entries), Len(entries) + 1}
    <3>1. ASSUME NEW v \in Values, entries' = Append(entries, [slot |-> idx, value |-> v])
          PROVE  Len(entries') = Len(entries) + 1
      <4>1. [slot |-> idx, value |-> v] \in EntryRecords
        BY <1>2, ReadSlotCases DEF Inv, EntryRecords
      <4>2. entries \in Seq(EntryRecords)
        BY DEF Inv, TypeOK, EntryRecords
      <4> QED
        BY <3>1, <4>1, <4>2, AppendType
    <3> QED
      BY <1>2, <3>1, ReadSlotCases DEF Inv
  <2>3. idx' = idx + 1 /\ pc = "scan" /\ pc' = "scan"
    BY <1>2, <2>1, ReadSlotCases DEF Inv
  <2>4. Len(entries) <= idx /\ turn = 1
    BY <1>2, ReadSlotCases DEF Inv
  <2> QED
    BY <1>1, <2>1, <2>2, <2>3, <2>4
<1>3. CASE BootEntry
  <2>1. turn \in 1..Len(entries) /\ Len(given) = turn - 1
    BY <1>3, BootEntryCases DEF Inv
  <2>2. /\ Len(given') = turn /\ given'[turn].slot = entries[turn].slot
        /\ \A i \in 1..(turn - 1) : given'[i] = given[i]
    <3>1. PICK c \in Commands \cup {None} :
             given' = Append(given, [slot |-> entries[turn].slot, command |-> c])
      BY <1>3, BootEntryCases
    <3>2. [slot |-> entries[turn].slot, command |-> c] \in GivenRecords
      BY <1>3, BootEntryCases DEF GivenRecords
    <3>3. given \in Seq(GivenRecords)
      BY DEF Inv, TypeOK, GivenRecords
    <3>4. /\ Len(given') = Len(given) + 1
          /\ \A i \in 1..Len(given) : given'[i] = given[i]
          /\ given'[Len(given) + 1] = [slot |-> entries[turn].slot, command |-> c]
      BY <3>1, <3>2, <3>3, AppendType
    <3> QED
      BY <1>1, <2>1, <3>4
  <2>3. /\ pc' \in {"entryRuns", "entrySleep"} /\ turn' = turn
        /\ entries' = entries /\ idx' = idx
    BY <1>3 DEF BootEntry
  <2>4. \A i \in 1..turn : given'[i].slot = entries[i].slot
    BY <1>1, <2>1, <2>2 DEF Inv
  <2> QED
    BY <1>1, <2>1, <2>2, <2>3, <2>4 DEF Inv
<1>4. CASE /\ Quiet
           /\ Start \/ ReadDone \/ EntryReturned \/ EntrySleep \/ EntriesDone \/ BootDefault
                \/ DefaultReturned \/ DefaultSleep \/ Interrupt \/ UNCHANGED <<pc, turn>>
  BY <1>1, <1>4 DEF Inv, Quiet, At, Start, ReadDone, EntryReturned, EntrySleep, EntriesDone,
     BootDefault, DefaultReturned, DefaultSleep, Interrupt, Defaults
<1>5. ReadSlot \/ BootEntry \/ Quiet
  BY DEF Next, Step, Quiet, Start, ReadDone, EntryReturned, EntrySleep, EntriesDone,
     BootDefault, DefaultReturned, DefaultSleep, Interrupt, CommandRuns, vars, storeVars,
     uinitVars
<1> QED
  BY <1>2, <1>3, <1>4, <1>5 DEF Next, Step, CommandRuns, vars, uinitVars

LEMMA EntriesFaithfulStep ==
  ASSUME Inv, [Next]_vars
  PROVE  EntriesFaithful'
<1> USE DEF EntriesFaithful
<1>1. CASE UNCHANGED <<rw, ro, idx, entries, misread>>
  BY <1>1 DEF Inv, BootValue
<1>2. CASE ReadSlot
  <2>1. entries \in Seq(EntryRecords) /\ Len(entries) \in Nat /\ idx \in Nat
    BY DEF Inv, TypeOK, EntryRecords
  <2>2. \A i \in 1..Len(entries) : entries[i].slot \in Nat
    <3>1. \A i \in 1..Len(entries) : entries[i] \in EntryRecords
      BY <2>1, ElementType
    <3> QED
      BY <3>1 DEF EntryRecords, Slots
  <2>3. rw' = rw /\ ro' = ro /\ \A s \in Slots : BootValue(s)' = BootValue(s)
    BY <1>2 DEF ReadSlot, storeVars, BootValue
  <2>4. idx \in Slots /\ idx' = idx + 1 /\ misread \subseteq misread'
    BY <1>2, ReadSlotCases DEF Inv
  <2>5. CASE entries' = entries /\ (idx \in misread' \/ BootValue(idx) = Absent)
    <3>1. \A i \in 1..Len(entries') : entries'[i].slot < idx'
      BY <2>1, <2>2, <2>4, <2>5 DEF Inv
    <3>2. ASSUME NEW s \in 0..(idx' - 1) \ misread'
          PROVE  LET read == {i \in 1..Len(entries') : entries'[i].slot = s}
                 IN IF BootValue(s)' = Absent THEN read = {}
                    ELSE \E i \in read : entries'[i].value = BootValue(s)'
      <4>1. CASE s = idx
        <5>1. BootValue(s)' = Absent
          BY <2>3, <2>4, <2>5, <3>2, <4>1
        <5>2. {i \in 1..Len(entries') : entries'[i].slot = s} = {}
          BY <2>1, <2>2, <2>5, <4>1 DEF Inv
        <5> QED
          BY <5>1, <5>2
      <4>2. CASE s # idx
        <5>1. s \in 0..(idx - 1) \ misread /\ s \in Slots
          BY <2>1, <2>4, <3>2, <4>2, BootersAssumption DEF Slots
        <5> QED
          BY <2>3, <2>5, <5>1 DEF Inv
      <4> QED
        BY <4>1, <4>2
    <3>3. \A i, j \in 1..Len(entries') : i < j => entries'[i].slot < entries'[j].slot
      BY <2>5 DEF Inv
    <3> QED
      BY <3>1, <3>2, <3>3
  <2>6. ASSUME NEW v \in Values, idx \in misread' \/ v = BootValue(idx),
               entries' = Append(entries, [slot |-> idx, value |-> v])
        PROVE  EntriesFaithful'
    <3>1. [slot |-> idx, value |-> v] \in EntryRecords
      BY <2>4 DEF EntryRecords
    <3>2. /\ Len(entries') = Len(entries) + 1
          /\ \A i \in 1..Len(entries) : entries'[i] = entries[i]
          /\ entries'[Len(entries) + 1] = [slot |-> idx, value |-> v]
      BY <2>1, <2>6, <3>1, AppendType
    <3>3. \A i, j \in 1..Len(entries') : i < j => entries'[i].slot < entries'[j].slot
      <4> SUFFICES ASSUME NEW i \in 1..Len(entries'), NEW j \in 1..Len(entries'), i < j
                   PROVE  entries'[i].slot < entries'[j].slot
        OBVIOUS
      <4>1. i \in 1..Len(entries)
        BY <2>1, <3>2
      <4>2. CASE j \in 1..Len(entries)
        BY <3>2, <4>1, <4>2 DEF Inv
      <4>3. CASE j = Len(entries) + 1
        BY <3>2, <4>1, <4>3 DEF Inv
      <4> QED
        BY <2>1, <3>2, <4>2, <4>3
    <3>4. \A i \in 1..Len(entries') : entries'[i].slot < idx'
      BY <2>1, <2>2, <2>4, <3>2 DEF Inv
    <3>5. ASSUME NEW s \in 0..(idx' - 1) \ misread'
          PROVE  LET read == {i \in 1..Len(entries') : entries'[i].slot = s}
                 IN IF BootValue(s)' = Absent THEN read = {}
                    ELSE \E i \in read : entries'[i].value = BootValue(s)'
      <4>1. CASE s = idx
        <5>1. v = BootValue(idx) /\ v # Absent
          BY <2>4, <2>6, <3>5, <4>1, BootersAssumption
        <5>2. Len(entries) + 1 \in 1..Len(entries')
          BY <2>1, <3>2
        <5> QED
          BY <2>3, <2>4, <3>2, <4>1, <5>1, <5>2
      <4>2. CASE s # idx
        <5>1. s \in 0..(idx - 1) \ misread /\ s \in Slots
          BY <2>1, <2>4, <3>5, <4>2, BootersAssumption DEF Slots
        <5>2. {i \in 1..Len(entries') : entries'[i].slot = s}
                = {i \in 1..Len(entries) : entries[i].slot = s}
          BY <2>1, <3>2, <4>2
        <5>3. 1..Len(entries) \subseteq 1..Len(entries')
          BY <2>1, <3>2
        <5>4. CASE BootValue(s) = Absent
          BY <2>3, <5>1, <5>2, <5>4 DEF Inv
        <5>5. CASE BootValue(s) # Absent
          <6>1. PICK i \in 1..Len(entries) :
                   entries[i].slot = s /\ entries[i].value = BootValue(s)
            BY <5>1, <5>5 DEF Inv
          <6> QED
            BY <2>3, <3>2, <5>1, <5>3, <5>5, <6>1
        <5> QED
          BY <5>4, <5>5
      <4> QED
        BY <4>1, <4>2
    <3> QED
      BY <3>3, <3>4, <3>5
  <2> QED
    BY <1>2, <2>5, <2>6, ReadSlotCases DEF Inv
<1> QED
  BY <1>1, <1>2 DEF Next, Step, Start, ReadDone, BootEntry, EntryReturned, EntrySleep,
     EntriesDone, BootDefault, DefaultReturned, DefaultSleep, Interrupt, CommandRuns, vars,
     storeVars, uinitVars

---------------------------------------------------------------------------
\* Inv is an inductive invariant.
LEMMA Invariance == Spec => []Inv
<1>1. Inv /\ [Next]_vars => Inv'
  BY TypeStep, BoundsStep, EntriesFaithfulStep DEF Inv
<1> QED
  BY InitInv, <1>1, PTL DEF Spec

\* Every variable keeps its type: the loops stay within the slots, the entries
\* read and the default sequence, and what is run is a command or nothing.
THEOREM Types == Spec => []TypeOK
<1>1. Inv => TypeOK
  BY DEF Inv
<1> QED
  BY Invariance, <1>1, PTL

\* The boot order is the VPD's, for every mixture of read-write, read-only,
\* missing and unreadable variables (GetBootEntries).
THEOREM BootOrderIsTheVPDs == Spec => []EntriesFaithful
<1>1. Inv => EntriesFaithful
  BY DEF Inv
<1> QED
  BY Invariance, <1>1, PTL

\* Every entry has had its turn, once and in order, before the default
\* sequence begins, and before uinit ends when it cannot be interrupted (main
\* of uinit).
THEOREM EntriesComeFirst == Spec => []EveryEntryBeforeTheDefaults
<1>1. Inv => EveryEntryBeforeTheDefaults
  BY DEF Inv
<1> QED
  BY Invariance, <1>1, PTL
==============================================================================
