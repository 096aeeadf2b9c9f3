------------------------- MODULE VpdBootManagerProofs -------------------------
(***************************************************************************)
(* Proofs about VpdBootManager, for any number of adders, adds and slots.  *)
(*                                                                         *)
(* The inductive invariant is Inv below.  Its core is that slots which are *)
(* in use stay in use, so that what an add finds in use when it starts     *)
(* (before) and passes over stays a lower bound of the store.              *)
(***************************************************************************)
EXTENDS VpdBootManager, TLAPS

Running(p) == pc[p] # "idle"

\* An add that gets past its arguments has an entry to write, and a slot.
HasEntry ==
  \A p \in Adders :
    /\ Running(p) => Parse(args[p]) # None
    /\ pc[p] \in {"create", "write"} => slot[p] \in Slots

\* What was in use when an add started is in use now.
BeforeInUse == \A p \in Adders : before[p] \subseteq InUse(rw)

\* Of two adds that run, each knows of the other.
KnowEachOther ==
  \A p, q \in Adders : p # q /\ Running(p) /\ Running(q) => number[q] \in beside[p]

\* An add that is about to write found its slot free.
WritersClaim ==
  \A p \in Adders : pc[p] \in {"create", "write"} => number[p] \in claims[slot[p]]

\* What an add has written is there, unless an add beside it found the slot
\* free.  All slots below it are in use, and were when any add started that
\* runs now and did not run beside it.
AddedIsStored ==
  \A i \in 1..Len(added) :
    /\ added[i].slot >= 1 /\ Parse(added[i].args) # None
    /\ \/ rw[added[i].slot] = Parse(added[i].args)
       \/ added[i].beside \cap claims[added[i].slot] # {}
    /\ 1..added[i].slot \subseteq InUse(rw)
    /\ \A q \in Adders : Running(q) =>
         number[q] \in added[i].beside \/ 1..added[i].slot \subseteq before[q]

Inv ==
  /\ TypeOK /\ HasEntry /\ BeforeInUse /\ KeepsEarlierEntries /\ NoGapBelow
  /\ KnowEachOther /\ WritersClaim /\ AddedIsStored /\ AddsBootInOrder

---------------------------------------------------------------------------
\* What parseNetbootFlags and parseLocalbootFlags accept is a boot entry.
LEMMA ParsedIsEntry ==
  ASSUME NEW a \in Args, Parse(a) # None
  PROVE  Parse(a) \in Entries
<1>1. a \in ArgsType
  BY VpdBootManagerAssumption
<1>2. Retries(a) \in Int \cup {None}
  BY <1>1 DEF ArgsType, Retries
<1>3. None \in Text
  BY DEF Text
<1> QED
  BY <1>1, <1>2, <1>3 DEF Parse, ArgsType, Entries

\* Its command line reaches the command that it boots with.
LEMMA ParsedIsHonoured ==
  ASSUME NEW a \in Args, Parse(a) # None
  PROVE  Honours(CommandOf(Parse(a)), a)
<1>1. a \in ArgsType
  BY VpdBootManagerAssumption
<1>2. Parse(a) # Garbage
  BY ParsedIsEntry, BootersAssumption
<1>0. None \in Text
  BY DEF Text
<1>3. CASE a.type = "netboot" /\ a.method \in {"dhcpv4", "dhcpv6"} /\ a.validMAC
  <2>1. /\ Parse(a).type = "netboot" /\ Parse(a).method = a.method
        /\ Parse(a).override_url = a.override_url /\ Parse(a).retries = Retries(a)
        /\ Parse(a).debug_on_failure = FALSE
    BY <1>1, <1>3 DEF Parse, ArgsType
  <2>2. (IF Retries(a) = None THEN 3 ELSE Retries(a)) = (IF a.retries = -1 THEN 3 ELSE a.retries)
    BY <1>1, BootersAssumption DEF Retries, ArgsType
  <2>3. CommandOf(Parse(a)) =
          [program |-> "netboot", useV6 |-> a.method = "dhcpv6", useV4 |-> a.method = "dhcpv4",
           interface |-> None, skipDHCP |-> FALSE, overrideNetbootURL |-> a.override_url,
           dhcpRetries |-> IF a.retries = -1 THEN 3 ELSE a.retries, doFix |-> FALSE]
    BY <1>2, <1>3, <2>1, <2>2 DEF CommandOf, GetBooterFor, NetbootCommand
  <2> QED
    BY <1>3, <2>3, <1>0 DEF Honours
<1>4. CASE a.type = "localboot" /\ a.method \in {"grub", "path"}
  <2>1. /\ Parse(a).type = "localboot" /\ Parse(a).method = a.method
        /\ a.method = "path" => /\ Parse(a).kernel = a.kernel /\ Parse(a).device_guid = a.guid
                                /\ Parse(a).ramfs = a.ramfs
    BY <1>1, <1>4 DEF Parse, ArgsType
  <2> DEFINE path(argument) == IF a.method = "path" THEN argument ELSE None
  <2>2. CommandOf(Parse(a)) =
          [program |-> "localboot", grub |-> a.method = "grub", kernel |-> path(a.kernel),
           guid |-> path(a.guid), initramfs |-> path(a.ramfs)]
    BY <1>2, <1>4, <2>1 DEF CommandOf, GetBooterFor, LocalbootCommand
  <2>3. path(a.ramfs) = IF a.method = "grub" THEN None ELSE a.ramfs
    BY <1>4
  <2> QED
    BY <1>4, <2>2, <2>3, <1>0 DEF Honours
<1> QED
  BY <1>1, <1>3, <1>4 DEF Parse, ArgsType

---------------------------------------------------------------------------
LEMMA InitInv == Init => Inv
<1> SUFFICES ASSUME Init PROVE Inv
  OBVIOUS
<1>1. (CHOOSE a \in Args : TRUE) \in Args
  BY VpdBootManagerAssumption
<1>2. MaxBootEntry \in Nat \ {0}
  BY BootersAssumption
<1>3. added = <<>> /\ Len(added) = 0
  BY DEF Init
<1>4. TypeOK
  BY <1>1, <1>2, <1>3, VpdBootManagerAssumption DEF Init, TypeOK, FirstSlot, Slots, Runs
<1>5. \A p \in Adders : ~Running(p)
  BY DEF Init, Running
<1> QED
  BY <1>3, <1>4, <1>5 DEF Init, Inv, HasEntry, BeforeInUse, KeepsEarlierEntries, NoGapBelow,
     KnowEachOther, WritersClaim, AddedIsStored, AddsBootInOrder, Running

\* A slot in use stays in use.
LEMMA InUseGrows ==
  ASSUME Inv, [Next]_vars
  PROVE  InUse(rw) \subseteq InUse(rw)'
<1>1. CASE UNCHANGED rw
  BY <1>1 DEF InUse
<1>2. CASE \E p \in Adders : Create(p)
  BY <1>2, BootersAssumption DEF Create, InUse, Inv, TypeOK, Values
<1>3. CASE \E p \in Adders : Write(p)
  <2> PICK p \in Adders : Write(p)
    BY <1>3
  <2>1. CASE UNCHANGED rw
    BY <2>1 DEF InUse
  <2>2. CASE rw' = [rw EXCEPT ![slot[p]] = Parse(args[p])]
    <3>1. Parse(args[p]) \in Entries
      BY ParsedIsEntry DEF Write, Inv, HasEntry, TypeOK, Running
    <3> QED
      BY <2>2, <3>1, BootersAssumption DEF InUse, Inv, TypeOK, Values
  <2> QED
    BY <2>1, <2>2 DEF Write
<1> QED
  BY <1>1, <1>2, <1>3 DEF Next, AddStep, Add, Look, PowerLoss, vars

\* Types.
LEMMA TypeStep ==
  ASSUME Inv, [Next]_vars
  PROVE  TypeOK'
<1> USE BootersAssumption, VpdBootManagerAssumption DEF Inv
<1>1. ASSUME NEW p \in Adders, NEW a \in Args, Add(p, a) PROVE TypeOK'
  <2>1. 1 \in 1..MaxBootEntry /\ InUse(rw) \in SUBSET Slots
    BY DEF InUse
  <2>2. adds' \in 0..MaxAdds
    BY <1>1 DEF Add, TypeOK
  <2>3. number' \in [Adders -> Runs] /\ beside' \in [Adders -> SUBSET Runs]
    BY <1>1, <2>2 DEF Add, TypeOK, Runs
  <2>4. pc' \in [Adders -> {"idle", "look", "create", "write"}]
    BY <1>1 DEF Add, TypeOK, Goto
  <2> QED
    BY <1>1, <2>1, <2>2, <2>3, <2>4 DEF Add, TypeOK, FirstSlot
<1>2. ASSUME NEW p \in Adders, Look(p) PROVE TypeOK'
  <2>1. slot' \in [Adders -> 1..MaxBootEntry]
    <3>1. CASE UNCHANGED slot
      BY <3>1 DEF TypeOK
    <3>2. CASE slot[p] \in Slots /\ slot' = [slot EXCEPT ![p] = NextSlot(@)]
      <4>1. NextSlot(slot[p]) \in 1..MaxBootEntry
        BY <3>2 DEF NextSlot, Slots
      <4> QED
        BY <3>2, <4>1 DEF TypeOK
    <3> QED
      BY <1>2, <3>1, <3>2 DEF Look, Claim
  <2>2. pc' \in [Adders -> {"idle", "look", "create", "write"}]
    BY <1>2 DEF Look, Claim, TypeOK, Goto
  <2>3. claims' \in [Slots -> SUBSET Runs]
    BY <1>2 DEF Look, Claim, TypeOK
  <2> QED
    BY <1>2, <2>1, <2>2, <2>3 DEF Look, TypeOK, historyVars
<1>3. ASSUME NEW p \in Adders, Create(p) PROVE TypeOK'
  BY <1>3 DEF Create, TypeOK, Goto, Values, historyVars
<1>4. ASSUME NEW p \in Adders, Write(p) PROVE TypeOK'
  <2>1. Parse(args[p]) \in Values
    BY <1>4, ParsedIsEntry DEF Write, HasEntry, TypeOK, Running, Values
  <2>2. slot[p] \in Slots /\ args[p] \in Args /\ number[p] \in Runs /\ beside[p] \in SUBSET Runs
    BY <1>4 DEF Write, HasEntry, TypeOK
  <2>3. rw' \in [Slots -> Values \cup {Absent}]
    BY <1>4, <2>1 DEF Write, TypeOK
  <2>4. added' \in Seq([slot : Slots, args : Args, add : Runs, beside : SUBSET Runs])
    <3> DEFINE R == [slot : Slots, args : Args, add : Runs, beside : SUBSET Runs]
               r == Report(p)
    <3>1. r \in R
      BY <2>2 DEF Report
    <3>2. added \in Seq(R)
      BY DEF TypeOK
    <3>3. added' = Append(added, r) \/ added' = added
      BY <1>4 DEF Write
    <3>4. ASSUME NEW S, NEW e \in S, NEW q \in Seq(S) PROVE Append(q, e) \in Seq(S)
      OBVIOUS
    <3> HIDE DEF R, r
    <3>5. added' \in Seq(R)
      BY <3>1, <3>2, <3>3, <3>4
    <3> QED
      BY <3>5 DEF R
  <2>5. pc' \in [Adders -> {"idle", "look", "create", "write"}]
    BY <1>4 DEF Write, TypeOK, Goto
  <2> QED
    BY <1>4, <2>3, <2>4, <2>5 DEF Write, TypeOK, historyVars
<1>5. CASE PowerLoss
  BY <1>5 DEF PowerLoss, TypeOK, historyVars
<1>6. CASE UNCHANGED vars
  BY <1>6 DEF vars, TypeOK, historyVars
<1> QED
  BY <1>1, <1>2, <1>3, <1>4, <1>5, <1>6 DEF Next, AddStep

\* The local facts about each add.
LEMMA HasEntryStep ==
  ASSUME Inv, [Next]_vars
  PROVE  HasEntry'
<1> USE DEF Inv, HasEntry, Running, Goto, TypeOK
<1>1. ASSUME NEW p \in Adders, NEW a \in Args, Add(p, a) PROVE HasEntry'
  BY <1>1 DEF Add
<1>2. ASSUME NEW p \in Adders, Look(p) PROVE HasEntry'
  BY <1>2 DEF Look, Claim
<1>3. ASSUME NEW p \in Adders, Create(p) PROVE HasEntry'
  BY <1>3 DEF Create
<1>4. ASSUME NEW p \in Adders, Write(p) PROVE HasEntry'
  BY <1>4 DEF Write
<1>5. CASE PowerLoss \/ UNCHANGED vars
  BY <1>5 DEF PowerLoss, vars
<1> QED
  BY <1>1, <1>2, <1>3, <1>4, <1>5 DEF Next, AddStep

LEMMA BeforeInUseStep ==
  ASSUME Inv, [Next]_vars
  PROVE  BeforeInUse'
<1>1. ASSUME NEW p \in Adders PROVE before'[p] = before[p] \/ before'[p] = InUse(rw)
  BY DEF Next, AddStep, Add, Look, Create, Write, PowerLoss, vars, historyVars, Inv, TypeOK
<1> QED
  BY <1>1, InUseGrows DEF BeforeInUse, Inv

LEMMA KeepsEarlierEntriesStep ==
  ASSUME Inv, [Next]_vars
  PROVE  KeepsEarlierEntries'
<1> USE DEF Inv, KeepsEarlierEntries, Goto, TypeOK, historyVars
<1>1. ASSUME NEW p \in Adders, NEW a \in Args, Add(p, a) PROVE KeepsEarlierEntries'
  BY <1>1 DEF Add
<1>2. ASSUME NEW p \in Adders, Look(p) PROVE KeepsEarlierEntries'
  BY <1>2 DEF Look, Claim, Free, BeforeInUse, InUse
<1>3. ASSUME NEW p \in Adders, Create(p) PROVE KeepsEarlierEntries'
  BY <1>3 DEF Create
<1>4. ASSUME NEW p \in Adders, Write(p) PROVE KeepsEarlierEntries'
  BY <1>4 DEF Write
<1>5. CASE PowerLoss \/ UNCHANGED vars
  BY <1>5 DEF PowerLoss, vars
<1> QED
  BY <1>1, <1>2, <1>3, <1>4, <1>5 DEF Next, AddStep

LEMMA NoGapBelowStep ==
  ASSUME Inv, [Next]_vars
  PROVE  NoGapBelow'
<1> USE DEF Inv, NoGapBelow, Goto, TypeOK
<1>1. ASSUME NEW p \in Adders, NEW a \in Args, Add(p, a) PROVE NoGapBelow'
  BY <1>1, InUseGrows DEF Add, FirstSlot
<1>2. ASSUME NEW p \in Adders, Look(p) PROVE NoGapBelow'
  <2>1. ASSUME NEW q \in Adders, pc'[q] # "idle" PROVE 1..(slot'[q] - 1) \subseteq InUse(rw)
    <3>a. pc[q] # "idle"
      BY <1>2, <2>1 DEF Look, Claim
    <3>b. slot[q] \in Nat
      BY DEF TypeOK
    <3>1. 1..(slot[q] - 1) \subseteq InUse(rw) /\ slot[q] \in Nat
      BY <3>a, <3>b DEF NoGapBelow
    <3>2. CASE slot'[q] = slot[q]
      BY <3>1, <3>2
    <3>3. CASE slot[q] \in InUse(rw) /\ slot'[q] = slot[q] + 1
      BY <3>1, <3>3
    <3> QED
      BY <1>2, <3>2, <3>3 DEF Look, Claim, NextSlot, Free, InUse
  <2> QED
    BY <2>1, <1>2, InUseGrows
<1>3. ASSUME NEW p \in Adders, Create(p) PROVE NoGapBelow'
  BY <1>3, InUseGrows DEF Create
<1>4. ASSUME NEW p \in Adders, Write(p) PROVE NoGapBelow'
  BY <1>4, InUseGrows DEF Write
<1>5. CASE PowerLoss \/ UNCHANGED vars
  BY <1>5, InUseGrows DEF PowerLoss, vars
<1> QED
  BY <1>1, <1>2, <1>3, <1>4, <1>5 DEF Next, AddStep

\* The number of an add is its own, what ran beside it and what claimed a
\* slot is never forgotten, and nothing else happens to an add while it runs.
LEMMA HistoryStep ==
  ASSUME Inv, [Next]_vars, NEW q \in Adders, pc'[q] # "idle"
  PROVE  \/ /\ pc[q] # "idle" /\ number'[q] = number[q] /\ before'[q] = before[q]
            /\ beside[q] \subseteq beside'[q]
         \/ before'[q] = InUse(rw) /\ \E a \in Args : Add(q, a)
<1> USE DEF Inv, TypeOK, Goto, historyVars
<1>1. ASSUME NEW p \in Adders, NEW a \in Args, Add(p, a)
      PROVE  IF q = p THEN before'[q] = InUse(rw)
             ELSE /\ pc[q] # "idle" /\ number'[q] = number[q] /\ before'[q] = before[q]
                  /\ beside[q] \subseteq beside'[q]
  BY <1>1 DEF Add
<1>2. CASE \E p \in Adders : AddStep(p)
  BY <1>2 DEF AddStep, Look, Claim, Create, Write
<1>3. CASE PowerLoss \/ UNCHANGED vars
  BY <1>3 DEF PowerLoss, vars
<1> QED
  BY <1>1, <1>2, <1>3 DEF Next

LEMMA ClaimsGrow ==
  ASSUME Inv, [Next]_vars, NEW s \in Slots
  PROVE  claims[s] \subseteq claims'[s]
BY DEF Next, AddStep, Add, Look, Claim, Create, Write, PowerLoss, vars, Inv, TypeOK

LEMMA KnowEachOtherStep ==
  ASSUME Inv, [Next]_vars
  PROVE  KnowEachOther'
<1> SUFFICES ASSUME NEW p \in Adders, NEW q \in Adders, p # q, pc'[p] # "idle", pc'[q] # "idle"
             PROVE  number'[q] \in beside'[p]
  BY DEF KnowEachOther, Running
<1>1. CASE pc[p] # "idle" /\ pc[q] # "idle" /\ number'[q] = number[q] /\ beside[p] \subseteq beside'[p]
  BY <1>1 DEF Inv, KnowEachOther, Running
<1>2. ASSUME NEW a \in Args, Add(p, a) PROVE number'[q] \in beside'[p]
  <2>1. pc[q] # "idle" /\ number'[q] = number[q]
    BY <1>2 DEF Add, Goto, Inv, TypeOK
  <2>2. beside'[p] = {number[r] : r \in {r \in Adders : pc[r] # "idle"}}
    BY <1>2 DEF Add
  <2> QED
    BY <2>1, <2>2
<1>3. ASSUME NEW a \in Args, Add(q, a) PROVE number'[q] \in beside'[p]
  <2>1. pc[p] # "idle" /\ number'[q] = adds'
    BY <1>3 DEF Add, Goto, Inv, TypeOK
  <2> QED
    BY <1>3, <2>1 DEF Add
<1> QED
  BY <1>1, <1>2, <1>3, HistoryStep

LEMMA WritersClaimStep ==
  ASSUME Inv, [Next]_vars
  PROVE  WritersClaim'
<1> USE DEF Inv, WritersClaim, HasEntry, Goto, TypeOK, historyVars
<1>1. ASSUME NEW p \in Adders, NEW a \in Args, Add(p, a) PROVE WritersClaim'
  BY <1>1 DEF Add
<1>2. ASSUME NEW p \in Adders, Look(p) PROVE WritersClaim'
  <2> SUFFICES ASSUME NEW q \in Adders, pc'[q] \in {"create", "write"}
               PROVE  number'[q] \in claims'[slot'[q]]
    OBVIOUS
  <2>1. CASE Claim(p) /\ q = p
    BY <1>2, <2>1 DEF Look, Claim
  <2>2. CASE q # p \/ ~Claim(p)
    <3>1. pc[q] \in {"create", "write"} /\ slot'[q] = slot[q] /\ number'[q] = number[q]
      BY <1>2, <2>2 DEF Look, Claim
    <3> QED
      BY <3>1, ClaimsGrow
  <2> QED
    BY <2>1, <2>2
<1>3. ASSUME NEW p \in Adders, Create(p) PROVE WritersClaim'
  BY <1>3 DEF Create
<1>4. ASSUME NEW p \in Adders, Write(p) PROVE WritersClaim'
  BY <1>4 DEF Write
<1>5. CASE PowerLoss \/ UNCHANGED vars
  BY <1>5 DEF PowerLoss, vars
<1> QED
  BY <1>1, <1>2, <1>3, <1>4, <1>5 DEF Next, AddStep

\* An entry of the store changes only while an add is writing it.
LEMMA StoreOnlyWhileWriting ==
  ASSUME Inv, [Next]_vars, NEW s \in Slots, rw'[s] # rw[s]
  PROVE  \E p \in Adders : pc[p] \in {"create", "write"} /\ slot[p] = s
BY DEF Next, AddStep, Add, Look, Create, Write, PowerLoss, vars, Inv, TypeOK

\* A Write that succeeds.
Appends(p) ==
  /\ Write(p)
  /\ rw' = [rw EXCEPT ![slot[p]] = Parse(args[p])]
  /\ added' = Append(added, Report(p))

LEMMA AddedCases ==
  ASSUME [Next]_vars
  PROVE  added' = added \/ \E p \in Adders : Appends(p)
BY DEF Next, AddStep, Add, Look, Create, Write, PowerLoss, vars, Appends

LEMMA AppendCases ==
  ASSUME TypeOK, NEW p \in Adders, Appends(p), NEW i \in 1..Len(added')
  PROVE  /\ Len(added') = Len(added) + 1
         /\ \/ i \in 1..Len(added) /\ added'[i] = added[i]
            \/ /\ i = Len(added) + 1
               /\ added'[i] = Report(p)
BY DEF Appends, TypeOK

LEMMA AddedType ==
  ASSUME TypeOK, NEW i \in 1..Len(added)
  PROVE  added[i].slot \in Slots /\ added[i].args \in Args
<1> DEFINE R == [slot : Slots, args : Args, add : Runs, beside : SUBSET Runs]
<1>1. added \in Seq(R)
  BY DEF TypeOK
<1>2. ASSUME NEW S, NEW q \in Seq(S), NEW k \in 1..Len(q) PROVE q[k] \in S
  OBVIOUS
<1>3. added[i] \in R
  <2> HIDE DEF R
  <2> QED
    BY <1>1, <1>2
<1> QED
  BY <1>3

\* What AddedIsStored says of one report, with the next state's store.
Kept(r) ==
  /\ r.slot >= 1 /\ Parse(r.args) # None
  /\ rw'[r.slot] = Parse(r.args) \/ r.beside \cap claims'[r.slot] # {}
  /\ 1..r.slot \subseteq InUse(rw)'
  /\ \A q \in Adders : pc'[q] # "idle" => number'[q] \in r.beside \/ 1..r.slot \subseteq before'[q]

\* Only an add beside it can write to the slot of a report.
LEMMA OldReportKept ==
  ASSUME Inv, [Next]_vars, NEW i \in 1..Len(added)
  PROVE  Kept(added[i])
<1> USE DEF Inv, Running, Goto
<1> DEFINE r == added[i]
<1>1. r.slot \in Slots /\ r.slot \in 1..r.slot
  BY AddedType DEF AddedIsStored, Slots
<1>2. rw'[r.slot] = Parse(r.args) \/ r.beside \cap claims'[r.slot] # {}
  <2>1. CASE r.beside \cap claims[r.slot] # {}
    BY <1>1, <2>1, ClaimsGrow
  <2>2. CASE rw'[r.slot] # rw[r.slot]
    <3>1. PICK p \in Adders : pc[p] \in {"create", "write"} /\ slot[p] = r.slot
      BY <1>1, <2>2, StoreOnlyWhileWriting
    <3>2. number[p] \in r.beside
      BY <1>1, <3>1 DEF AddedIsStored, KeepsEarlierEntries
    <3>3. number[p] \in claims[r.slot]
      BY <3>1 DEF WritersClaim
    <3> QED
      BY <2>1, <3>2, <3>3
  <2>3. CASE rw'[r.slot] = rw[r.slot] /\ rw[r.slot] = Parse(r.args)
    BY <2>3
  <2> QED
    BY <2>1, <2>2, <2>3 DEF AddedIsStored
<1>3. 1..r.slot \subseteq InUse(rw) /\ r.slot >= 1 /\ Parse(r.args) # None
  BY DEF AddedIsStored
<1>4. ASSUME NEW q \in Adders, pc'[q] # "idle"
      PROVE  number'[q] \in r.beside \/ 1..r.slot \subseteq before'[q]
  BY <1>3, <1>4, HistoryStep DEF AddedIsStored
<1> QED
  BY <1>2, <1>3, <1>4, InUseGrows DEF Kept

LEMMA NewReportKept ==
  ASSUME Inv, [Next]_vars, NEW p \in Adders, Appends(p)
  PROVE  Kept(Report(p))
<1> USE DEF Inv, Running, Goto
<1>1. slot[p] \in Slots /\ slot[p] >= 1 /\ slot[p] \in Nat /\ Parse(args[p]) # None
  BY DEF Appends, Write, HasEntry, TypeOK
<1>2. rw'[slot[p]] = Parse(args[p])
  BY <1>1 DEF Appends, TypeOK
<1>3. rw'[slot[p]] # Absent
  BY <1>1, <1>2, ParsedIsEntry, BootersAssumption DEF TypeOK, Values
<1>4. 1..(slot[p] - 1) \subseteq InUse(rw)'
  BY InUseGrows DEF Appends, Write, NoGapBelow
<1>5. 1..slot[p] \subseteq InUse(rw)'
  BY <1>1, <1>3, <1>4 DEF InUse
<1>6. ASSUME NEW q \in Adders, pc'[q] # "idle" PROVE number'[q] \in beside[p]
  BY <1>6 DEF Appends, Write, KnowEachOther, TypeOK, historyVars
<1> QED
  BY <1>1, <1>2, <1>5, <1>6 DEF Kept, Report

LEMMA AddedIsStoredStep ==
  ASSUME Inv, [Next]_vars
  PROVE  AddedIsStored'
<1> SUFFICES ASSUME NEW i \in 1..Len(added') PROVE Kept(added'[i])
  BY DEF AddedIsStored, Kept, Running
<1>1. CASE added' = added
  BY <1>1, OldReportKept
<1>2. ASSUME NEW p \in Adders, Appends(p) PROVE Kept(added'[i])
  <2>1. CASE i \in 1..Len(added) /\ added'[i] = added[i]
    BY <2>1, OldReportKept
  <2>2. CASE added'[i] = Report(p)
    BY <1>2, <2>2, NewReportKept
  <2> QED
    BY <1>2, <2>1, <2>2, AppendCases DEF Inv
<1> QED
  BY <1>1, <1>2, AddedCases

LEMMA AddsBootInOrderStep ==
  ASSUME Inv, [Next]_vars
  PROVE  AddsBootInOrder'
<1>1. CASE added' = added
  BY <1>1 DEF Inv, AddsBootInOrder
<1>2. ASSUME NEW p \in Adders, Appends(p) PROVE AddsBootInOrder'
  <2> SUFFICES ASSUME NEW i \in 1..Len(added'), NEW j \in 1..Len(added'),
                      i < j, added'[j].add \notin added'[i].beside
               PROVE  added'[i].slot < added'[j].slot
    BY DEF AddsBootInOrder
  <2>1. i \in 1..Len(added) /\ added'[i] = added[i]
    <3>1. Len(added') = Len(added) + 1
      BY <1>2, AppendCases DEF Inv
    <3>2. Len(added) \in Nat
      BY DEF Inv, TypeOK
    <3>3. i # Len(added) + 1
      BY <3>1, <3>2
    <3> QED
      BY <1>2, <3>3, AppendCases DEF Inv
  <2>2. CASE j \in 1..Len(added) /\ added'[j] = added[j]
    BY <2>1, <2>2 DEF Inv, AddsBootInOrder
  <2>3. CASE added'[j] = Report(p)
    <3>0. number[p] \notin added[i].beside
      BY <2>1, <2>3 DEF Report
    <3>1. 1..added[i].slot \subseteq before[p]
      BY <1>2, <2>1, <3>0 DEF Inv, AddedIsStored, Appends, Write, Running
    <3>2. slot[p] \notin before[p] /\ slot[p] \in Nat /\ slot[p] >= 1
      BY <1>2 DEF Inv, KeepsEarlierEntries, Appends, Write, TypeOK
    <3>3. added[i].slot \in Int
      BY <2>1, AddedType DEF Inv, Slots
    <3> QED
      BY <2>1, <2>3, <3>1, <3>2, <3>3 DEF Report
  <2> QED
    BY <1>2, <2>2, <2>3, AppendCases DEF Inv
<1> QED
  BY <1>1, <1>2, AddedCases

---------------------------------------------------------------------------
\* Inv is an inductive invariant.
LEMMA Invariance == Spec => []Inv
<1>1. Inv /\ [Next]_vars => Inv'
  BY TypeStep, HasEntryStep, BeforeInUseStep, KeepsEarlierEntriesStep, NoGapBelowStep,
     KnowEachOtherStep, WritersClaimStep, AddedIsStoredStep, AddsBootInOrderStep DEF Inv
<1> QED
  BY InitInv, <1>1, PTL DEF Spec

\* Every variable keeps its type: an add never leaves the slots of the VPD,
\* and what it stores is an entry that GetBootEntries decodes.
THEOREM Types == Spec => []TypeOK
<1>1. Inv => TypeOK
  BY DEF Inv
<1> QED
  BY Invariance, <1>1, PTL

\* Whatever adds, failures and power losses come together, no add touches an
\* entry that was in the VPD when it started (addBootEntry).
THEOREM EarlierEntriesAreKept == Spec => []KeepsEarlierEntries
<1>1. Inv => KeepsEarlierEntries
  BY DEF Inv
<1> QED
  BY Invariance, <1>1, PTL

\* An add passes over no free slot (addBootEntry).
THEOREM SlotsFillFromBelow == Spec => []NoGapBelow
<1>1. Inv => NoGapBelow
  BY DEF Inv
<1> QED
  BY Invariance, <1>1, PTL

\* Whatever adds, failed writes and power losses come, at every later time the
\* arguments of an add that reported success reach the command which its slot
\* boots, unless an add that ran beside it had found the same slot free (add,
\* Set, GetBootEntries and Booter.Boot).
THEOREM ReportedAddsBoot == Spec => []AddedIsBooted
<1>1. Inv => AddedIsBooted
  <2> SUFFICES ASSUME Inv, NEW i \in 1..Len(added),
                      added[i].beside \cap claims[added[i].slot] = {}
               PROVE  Honours(CommandOf(BootValue(added[i].slot)), added[i].args)
    BY DEF AddedIsBooted
  <2>1. added[i].args \in Args
    BY AddedType DEF Inv
  <2>2. Parse(added[i].args) # None /\ rw[added[i].slot] = Parse(added[i].args)
    BY DEF Inv, AddedIsStored
  <2>3. Parse(added[i].args) # Absent
    BY <2>1, <2>2, ParsedIsEntry, BootersAssumption DEF Values
  <2> QED
    BY <2>1, <2>2, <2>3, ParsedIsHonoured DEF BootValue
<1> QED
  BY Invariance, <1>1, PTL

\* Adds that did not run at the same time boot in the order in which they were
\* made.
THEOREM ReportedAddsBootInOrder == Spec => []AddsBootInOrder
<1>1. Inv => AddsBootInOrder
  BY DEF Inv
<1> QED
  BY Invariance, <1>1, PTL

\* The next boot loses no entry, and sees one changed only in a slot that an
\* add is writing.
THEOREM EntriesChangeOnlyByAdds == Spec => OnlyAddsChangeEntries
<1>1. ASSUME Inv, [Next]_vars, NEW s \in Slots, BootValue(s)' # BootValue(s)
      PROVE  /\ BootValue(s)' # Absent
             /\ \E p \in Adders : slot[p] = s /\ pc[p] \in {"create", "write"}
  <2>1. ro' = ro
    BY <1>1 DEF Next, AddStep, Add, Look, Create, Write, PowerLoss, vars
  <2>2. rw'[s] # rw[s]
    BY <1>1, <2>1 DEF BootValue
  <2>3. rw'[s] # Absent
    BY <1>1, <2>2, InUseGrows DEF InUse
  <2> QED
    BY <1>1, <2>2, <2>3, StoreOnlyWhileWriting DEF BootValue
<1>2. Inv /\ [Next]_vars =>
        [\A s \in Slots : BootValue(s)' # BootValue(s) =>
           /\ BootValue(s)' # Absent
           /\ \E p \in Adders : slot[p] = s /\ pc[p] \in {"create", "write"}]_vars
  BY <1>1
<1> QED
  BY Invariance, <1>2, PTL DEF Spec, OnlyAddsChangeEntries
==============================================================================
