----------------------------- MODULE NetbootProofs -----------------------------
(***************************************************************************)
(* Proofs about Netboot, for any number of interfaces, attempts and boot   *)
(* files and any command lines.  The inductive invariant says what each    *)
(* place of boot() knows: which URL is in force (URLKnown), whose body is  *)
(* held (BodyKnown), what the file and the kernel hold (FileKnown,         *)
(* ImageKnown), and that there is a body to close (BodyOpen).              *)
(* Further down, TurnInv says which turns of the loops are over, and       *)
(* OpenKnown how many bodies they have left open.                          *)
(* The last part is about fixmynetboot, which netboot runs with -fix.      *)
(***************************************************************************)
EXTENDS Netboot, Fixmynetboot, FiniteSetTheorems, TLAPS

InBoot == {"url", "get", "waiting", "status", "read", "save", "load", "reboot"}
HasBody == {"save", "load", "reboot"}

\* The loop indices are in range while they are used.
IndicesInRange ==
  /\ pc \in InBoot \cup {"dhcp", "fix"} => iface \in 1..iflist
  /\ pc = "waiting" => attempt < maxHTTPAttempts

\* -netboot-url wins over any lease.
URLKnown == pc \in InBoot => flags.overrideNetbootURL \in {NoURL, bootfile}

\* A body that is still to be closed.
BodyOpen ==
  /\ pc \in InBoot /\ resp # "nil" => unclosed >= 1
  /\ pc \in HasBody \cup {"read"} => resp = "200"

\* The body was read from the URL in force, and handed to the TPM.
BodyKnown ==
  pc \in HasBody =>
    /\ body \in Bodies /\ origin = <<bootfile, "200">>
    /\ body \in measured \cup lost

\* The file holds the body, and this is no dry run.
FileKnown ==
  pc \in {"load", "reboot"} => file = body /\ bootfile \in FileURLs /\ ~flags.dryRun

\* The kernel holds the body.
ImageKnown == pc = "reboot" => image = body /\ fresh

\* The machine can only leave from the last place of boot().
RebootsAtTheEnd == running # NoImage => pc = "reboot" /\ running = image

Inv ==
  /\ TypeOK /\ IndicesInRange /\ URLKnown /\ BodyOpen /\ BodyKnown /\ FileKnown
  /\ ImageKnown /\ RebootsAtTheEnd /\ DryRunTouchesNothing

---------------------------------------------------------------------------
\* The part of the type invariant that counts.
LEMMA Numbers ==
  ASSUME TypeOK
  PROVE  /\ iflist \in Nat /\ iface \in 1..(iflist + 1) /\ proto \in {1, 2}
         /\ unclosed \in Nat /\ attempt \in 0..maxHTTPAttempts /\ down \subseteq 1..iflist
BY NetbootAssumption DEF TypeOK

LEMMA InitInv == Init => Inv
<1> SUFFICES ASSUME Init PROVE Inv
  OBVIOUS
<1>1. iflist \in Nat /\ iflist \in 0..MaxInterfaces
  BY NetbootAssumption DEF Init
<1>2. iface \in 1..(iflist + 1) /\ attempt \in 0..maxHTTPAttempts
  BY <1>1, NetbootAssumption DEF Init
<1>3. TypeOK
  <2>1. tried \subseteq (1..iflist) \X {1, 2} /\ down \subseteq 1..iflist
    BY DEF Init
  <2>2. origin \in (URLs \cup {NoURL}) \X {"nil", "200", "404", "500", "502"}
    BY DEF Init
  <2>3. configured \subseteq 1..iflist /\ measured \subseteq Bodies
    BY DEF Init
  <2>4. /\ image \in Bodies \cup {NoImage} /\ running \in Bodies \cup {NoImage}
        /\ flags \in CommandLines /\ file \in Bodies \cup {NoFile, Torn}
        /\ body \in Bodies \cup {NoFile} /\ bootfile \in URLs \cup {NoURL}
    BY DEF Init
  <2>5. /\ pc \in {"start", "ifup", "dhcp", "url", "get", "waiting", "status", "read", "save",
                   "load", "reboot", "fix", "exit"}
        /\ resp \in {"nil", "200", "404", "500", "502"}
        /\ proto \in {1, 2} /\ code \in 0..2 /\ unclosed \in Nat
    BY DEF Init
  <2>6. fresh \in BOOLEAN /\ lost \subseteq Bodies /\ fixed \in BOOLEAN
    BY DEF Init
  <2> QED
    BY <1>1, <1>2, <2>1, <2>2, <2>3, <2>4, <2>5, <2>6 DEF TypeOK
<1> QED
  BY <1>3 DEF Init, Inv, IndicesInRange, URLKnown, BodyOpen, BodyKnown, FileKnown, ImageKnown,
     RebootsAtTheEnd, DryRunTouchesNothing, InBoot, HasBody

\* What main does next when boot() or fixmynetboot has ended.
LEMMA AdvanceCases ==
  ASSUME TypeOK, iface \in 1..iflist, Advance
  PROVE  /\ iface' \in 1..(iflist + 1) /\ proto' \in {1, 2}
         /\ pc' = "ifup" \/ (pc' = "dhcp" /\ iface' = iface)
<1>1. Len(Protocols(flags)) \in {0, 1, 2}
  BY DEF Protocols
<1>2. CASE pc' = "dhcp" /\ proto' = proto + 1 /\ iface' = iface /\ proto < Len(Protocols(flags))
  <2>1. proto \in {1, 2} /\ iface \in 1..(iflist + 1)
    BY Numbers
  <2>2. proto = 1
    <3> DEFINE len == Len(Protocols(flags))
    <3>1. len \in {0, 1, 2} /\ proto < len
      BY <1>1, <1>2
    <3> HIDE DEF len
    <3> QED
      BY <2>1, <3>1
  <2> QED
    BY <1>2, <2>1, <2>2
<1>3. CASE pc' = "ifup" /\ proto' = 1 /\ iface' = iface + 1
  BY <1>3, Numbers
<1> QED
  BY <1>2, <1>3 DEF Advance

LEMMA BootEnds ==
  ASSUME TypeOK, iface \in 1..iflist, BootReturns \/ BootFails
  PROVE  /\ iface' \in 1..(iflist + 1) /\ proto' \in {1, 2} /\ fixed' \in BOOLEAN
         /\ pc' = "ifup" \/ (pc' \in {"dhcp", "fix"} /\ iface' = iface)
BY AdvanceCases DEF BootReturns, BootFails, TypeOK

---------------------------------------------------------------------------
LEMMA TypeStep ==
  ASSUME Inv, [Next]_vars
  PROVE  TypeOK'
<1> USE NetbootAssumption DEF Inv
<1> USE DEF At, Exit, envVars, loopVars, bootVars, sideVars, kexecVars
<1>1. CASE CheckFlags
  BY <1>1 DEF CheckFlags, TypeOK
<1>2. CASE IfUp
  <2>1. iface \in 1..iflist
    BY <1>2, Numbers DEF IfUp
  <2>2. iface' \in {iface, iface + 1} /\ down' \in {down, down \cup {iface}}
    BY <1>2 DEF IfUp
  <2>3. iface' \in 1..(iflist + 1) /\ down' \subseteq 1..iflist
    BY <2>1, <2>2, Numbers
  <2>4. pc' \in {"dhcp", "ifup"}
    BY <1>2 DEF IfUp
  <2> QED
    BY <1>2, <2>3, <2>4 DEF IfUp, TypeOK
<1>14. CASE GiveUp
  BY <1>14 DEF GiveUp, TypeOK
<1>3. CASE Lease
  <2>1. iface \in 1..iflist
    BY <1>3 DEF Lease, IndicesInRange
  <2>2. /\ tried' \subseteq (1..iflist) \X {1, 2} /\ configured' \subseteq 1..iflist
        /\ bootfile' \in URLs \cup {NoURL}
        /\ origin' \in (URLs \cup {NoURL}) \X {"nil", "200", "404", "500", "502"}
    BY <1>3, <2>1 DEF Lease, Override, Configures, TypeOK, CommandLineType
  <2>3. /\ iface' \in 1..(iflist + 1) /\ proto' \in {1, 2} /\ fixed' \in BOOLEAN
        /\ pc' \in {"url", "ifup", "dhcp", "fix"}
    BY <1>3, <2>1, BootEnds DEF Lease, TypeOK
  <2>4. /\ attempt' \in 0..maxHTTPAttempts /\ measured' = {} /\ resp' = "nil" /\ body' = NoFile
        /\ UNCHANGED <<image, running, code, unclosed, flags, iflist, down, file>>
        /\ lost' = {} /\ fresh' = FALSE
    BY <1>3 DEF Lease
  <2> QED
    BY <2>2, <2>3, <2>4 DEF TypeOK
<1>4. CASE CheckURL
  BY <1>4, BootEnds DEF CheckURL, TypeOK, IndicesInRange, InBoot
<1>5. CASE Get
  BY <1>5 DEF Get, TypeOK
<1>6. CASE Answer
  <2>1. attempt' \in 0..maxHTTPAttempts /\ unclosed' \in Nat
    BY <1>6 DEF Answer, IndicesInRange, TypeOK
  <2>2. /\ iface' \in 1..(iflist + 1) /\ proto' \in {1, 2} /\ fixed' \in BOOLEAN
        /\ pc' \in {"get", "status", "ifup", "dhcp", "fix"}
        /\ resp' \in {"nil", "200", "404", "500", "502"}
    BY <1>6, BootEnds DEF Answer, TypeOK, IndicesInRange, InBoot
  <2> QED
    BY <1>6, <2>1, <2>2 DEF Answer, TypeOK
<1>7. CASE CheckStatus
  BY <1>7, BootEnds DEF CheckStatus, TypeOK, IndicesInRange, InBoot, BodyOpen
<1>8. CASE Read
  <2>1. iface \in 1..iflist /\ unclosed - 1 \in Nat /\ resp = "200"
    BY <1>8 DEF Read, TypeOK, IndicesInRange, InBoot, BodyOpen
  <2>2. /\ iface' \in 1..(iflist + 1) /\ proto' \in {1, 2} /\ fixed' \in BOOLEAN
        /\ pc' \in {"save", "ifup", "dhcp", "fix"} /\ unclosed' \in Nat
    BY <1>8, <2>1, BootEnds DEF Read, FailsAndCloses, TypeOK
  <2>3. /\ body' \in Bodies \cup {NoFile} /\ measured' \subseteq Bodies /\ lost' \subseteq Bodies
        /\ origin' \in (URLs \cup {NoURL}) \X {"nil", "200", "404", "500", "502"}
    <3>1. bootfile \in URLs \cup {NoURL} /\ measured \subseteq Bodies /\ lost \subseteq Bodies
          /\ body \in Bodies \cup {NoFile}
      BY DEF TypeOK
    <3>2. origin' \in {origin, <<bootfile, "200">>}
      BY <1>8, <2>1 DEF Read
    <3>3. origin \in (URLs \cup {NoURL}) \X {"nil", "200", "404", "500", "502"}
      BY DEF TypeOK
    <3>4. <<bootfile, "200">> \in (URLs \cup {NoURL}) \X {"nil", "200", "404", "500", "502"}
      BY <3>1
    <3>5. body' \in Bodies \cup {NoFile} /\ measured' \subseteq Bodies /\ lost' \subseteq Bodies
      BY <1>8, <3>1 DEF Read, Measure
    <3> QED
      BY <3>2, <3>3, <3>4, <3>5
  <2> QED
    BY <1>8, <2>2, <2>3 DEF Read, TypeOK
<1>9. CASE Save
  <2>1. iface \in 1..iflist /\ unclosed - 1 \in Nat
    BY <1>9 DEF Save, TypeOK, IndicesInRange, InBoot, BodyOpen, HasBody
  <2>2. /\ iface' \in 1..(iflist + 1) /\ proto' \in {1, 2} /\ fixed' \in BOOLEAN
        /\ pc' \in {"load", "ifup", "dhcp", "fix"} /\ unclosed' \in Nat
    BY <1>9, <2>1, BootEnds DEF Save, FailsAndCloses, TypeOK
  <2>3. file' \in Bodies \cup {NoFile, Torn}
    BY <1>9 DEF Save, TypeOK
  <2> QED
    BY <1>9, <2>2, <2>3 DEF Save, TypeOK
<1>10. CASE Load
  <2>1. iface \in 1..iflist /\ unclosed - 1 \in Nat /\ file \in Bodies
    BY <1>10 DEF Load, TypeOK, IndicesInRange, InBoot, BodyOpen, BodyKnown, FileKnown, HasBody
  <2>2. /\ iface' \in 1..(iflist + 1) /\ proto' \in {1, 2} /\ fixed' \in BOOLEAN
        /\ pc' \in {"reboot", "ifup", "dhcp", "fix"} /\ unclosed' \in Nat
    BY <1>10, <2>1, BootEnds DEF Load, FailsAndCloses, TypeOK
  <2>3. image' \in Bodies \cup {NoImage} /\ running' = running /\ fresh' \in BOOLEAN
    BY <1>10, <2>1 DEF Load, LoadImage, TypeOK
  <2> QED
    BY <1>10, <2>2, <2>3 DEF Load, TypeOK
<1>11. CASE Reboot
  BY <1>11, BootEnds DEF Reboot, RebootInto, FailsAndCloses, TypeOK, IndicesInRange, InBoot,
     BodyOpen, HasBody
<1>12. CASE Fix
  BY <1>12, AdvanceCases DEF Fix, TypeOK, IndicesInRange
<1>13. CASE UNCHANGED vars
  BY <1>13 DEF vars, TypeOK
<1> QED
  BY <1>1, <1>2, <1>3, <1>4, <1>5, <1>6, <1>7, <1>8, <1>9, <1>10, <1>11, <1>12, <1>13, <1>14
  DEF Next, Local, Remote

---------------------------------------------------------------------------
\* What boot() knows, apart from the types.
Known ==
  /\ IndicesInRange /\ URLKnown /\ BodyOpen /\ BodyKnown /\ FileKnown
  /\ ImageKnown /\ RebootsAtTheEnd /\ DryRunTouchesNothing

\* A step that ends boot(), or main, and leaves the kernel and the interfaces
\* alone: nothing has to be known afterwards.
LEMMA LeavesBoot ==
  ASSUME Inv, running = NoImage, UNCHANGED <<kexecVars, flags, iflist, configured>>,
         \/ iface \in 1..iflist /\ (BootReturns \/ BootFails \/ Advance)
         \/ pc' = "exit"
  PROVE  Known'
<1>1. pc' \in {"ifup", "exit"} \/ (pc' \in {"dhcp", "fix"} /\ iface' = iface /\ iface \in 1..iflist)
  BY BootEnds, AdvanceCases DEF Inv
<1>2. DryRunTouchesNothing'
  BY DEF Inv, DryRunTouchesNothing, kexecVars
<1> QED
  BY <1>1, <1>2 DEF Inv, Known, IndicesInRange, URLKnown, BodyOpen, BodyKnown, FileKnown,
     ImageKnown, RebootsAtTheEnd, InBoot, HasBody, kexecVars

LEMMA KnownStep ==
  ASSUME Inv, [Next]_vars
  PROVE  Known'
<1> USE DEF Known, IndicesInRange, URLKnown, BodyOpen, BodyKnown, FileKnown, ImageKnown,
     RebootsAtTheEnd, DryRunTouchesNothing, InBoot, HasBody
<1> USE DEF At, FirmwareRuns, envVars, loopVars, bootVars, sideVars, kexecVars
<1>1. CASE CheckFlags
  BY <1>1 DEF CheckFlags, Exit, Inv
<1>2. CASE IfUp
  <2>1. iface \in 1..iflist
    BY <1>2, Numbers DEF IfUp, Inv
  <2>2. pc' = "ifup" \/ (pc' = "dhcp" /\ iface' = iface)
    BY <1>2 DEF IfUp
  <2> QED
    BY <1>2, <2>1, <2>2 DEF IfUp, Inv
<1>3. CASE GiveUp
  BY <1>3 DEF GiveUp, Exit, Inv
<1>4. CASE Lease
  <2>1. running = NoImage /\ running' = NoImage /\ iface \in 1..iflist /\ fresh' = FALSE
    BY <1>4 DEF Lease, Inv
  <2>2. flags.dryRun => configured' = {}
    BY <1>4 DEF Lease, Configures, Inv
  <2>3. CASE ~flags.skipDHCP /\ bootfile' = NoURL /\ BootFails
    <3>1. pc' = "ifup" \/ (pc' \in {"dhcp", "fix"} /\ iface' = iface)
      BY <2>1, <2>3, BootEnds DEF Inv
    <3> QED
      BY <1>4, <2>1, <2>2, <3>1 DEF Lease
  <2>4. CASE pc' = "url" /\ iface' = iface /\ \E leased \in URLs \cup {NoURL} : bootfile' = Override(leased)
    <3>1. flags'.overrideNetbootURL \in {NoURL, bootfile'} /\ resp' = "nil"
      BY <1>4, <2>4 DEF Lease, Override
    <3> QED
      BY <1>4, <2>1, <2>2, <2>4, <3>1 DEF Lease
  <2> QED
    BY <1>4, <2>3, <2>4 DEF Lease
<1>5. CASE CheckURL
  <2>1. CASE BootFails
    BY <1>5, <2>1, LeavesBoot DEF CheckURL, Inv
  <2>2. CASE pc' = "get" /\ iface' = iface
    BY <1>5, <2>2 DEF CheckURL, Inv
  <2> QED
    BY <1>5, <2>1, <2>2 DEF CheckURL
<1>6. CASE Get
  BY <1>6 DEF Get, Inv
<1>7. CASE Answer
  <2>1. CASE BootFails
    BY <1>7, <2>1, LeavesBoot DEF Answer, Inv
  <2>2. CASE pc' \in {"get", "status"} /\ iface' = iface /\ (resp' = "nil" \/ unclosed' = unclosed + 1)
    BY <1>7, <2>2, Numbers DEF Answer, Inv
  <2> QED
    BY <1>7, <2>1, <2>2 DEF Answer
<1>8. CASE CheckStatus
  <2>1. CASE BootFails \/ pc' = "exit"
    BY <1>8, <2>1, LeavesBoot DEF CheckStatus, Inv
  <2>2. CASE resp = "200" /\ pc' = "read" /\ iface' = iface /\ unclosed' = unclosed
    BY <1>8, <2>2 DEF CheckStatus, Inv
  <2> QED
    BY <1>8, <2>1, <2>2 DEF CheckStatus, Exit
<1>9. CASE Read
  <2>1. CASE BootFails
    BY <1>9, <2>1, LeavesBoot DEF Read, Inv
  <2>2. CASE pc' = "save" /\ iface' = iface /\ unclosed' = unclosed /\ \E b \in Bodies : body' = b /\ Measure(b)
    <3>1. origin' = <<bootfile, "200">> /\ body' \in Bodies /\ body' \in measured' \cup lost'
      <4>1. PICK b \in Bodies : body' = b /\ Measure(b)
        BY <2>2
      <4>2. body' \in measured' \cup lost'
        BY <4>1 DEF Measure
      <4>3. pc = "read" /\ (origin' = <<bootfile, resp>> \/ BootFails)
        BY <1>9 DEF Read, FailsAndCloses
      <4>4. resp = "200"
        BY <4>3 DEF Inv
      <4>5. ~BootFails
        BY <2>2 DEF BootFails, BootReturns, Advance
      <4> QED
        BY <4>1, <4>2, <4>3, <4>4, <4>5
    <3> QED
      BY <1>9, <2>2, <3>1 DEF Read, Inv
  <2> QED
    BY <1>9, <2>1, <2>2 DEF Read, FailsAndCloses
<1>10. CASE Save
  <2>1. CASE BootFails \/ BootReturns
    BY <1>10, <2>1, LeavesBoot DEF Save, Inv
  <2>2. CASE /\ pc' = "load" /\ iface' = iface /\ unclosed' = unclosed
             /\ bootfile \in FileURLs /\ file' = body /\ ~flags.dryRun
    BY <1>10, <2>2 DEF Save, Inv
  <2> QED
    BY <1>10, <2>1, <2>2 DEF Save, FailsAndCloses
<1>11. CASE Load
  <2>1. CASE BootFails /\ UNCHANGED kexecVars
    BY <1>11, <2>1, LeavesBoot DEF Load, Inv
  <2>2. CASE LoadImage(file) /\ pc' = "reboot" /\ iface' = iface /\ unclosed' = unclosed
    BY <1>11, <2>2 DEF Load, LoadImage, Inv
  <2> QED
    BY <1>11, <2>1, <2>2 DEF Load, FailsAndCloses
<1>12. CASE Reboot
  <2>1. CASE (BootFails \/ BootReturns) /\ UNCHANGED kexecVars
    BY <1>12, <2>1, LeavesBoot DEF Reboot, Inv
  <2>2. CASE RebootInto /\ UNCHANGED <<pc, iface, proto, fixed, unclosed>>
    BY <1>12, <2>2 DEF Reboot, RebootInto, Inv
  <2> QED
    BY <1>12, <2>1, <2>2 DEF Reboot, FailsAndCloses
<1>13. CASE Fix
  BY <1>13, LeavesBoot DEF Fix, Exit, Inv
<1>14. CASE UNCHANGED vars
  BY <1>14 DEF vars, Inv
<1> QED
  BY <1>1, <1>2, <1>3, <1>4, <1>5, <1>6, <1>7, <1>8, <1>9, <1>10, <1>11, <1>12, <1>13, <1>14
  DEF Next, Local, Remote

---------------------------------------------------------------------------
\* Inv is an inductive invariant.
LEMMA Invariance == Spec => []Inv
<1>1. Inv /\ [Next]_vars => Inv'
  BY TypeStep, KnownStep DEF Inv, Known
<1> QED
  BY InitInv, <1>1, PTL DEF Spec

\* Every variable keeps its type: no more attempts than maxHTTPAttempts, no
\* interface beyond the list, and no body closed that was not open.
THEOREM Types == Spec => []TypeOK
<1>1. Inv => TypeOK
  BY DEF Inv
<1> QED
  BY Invariance, <1>1, PTL

\* What runs is the complete body of a 200 answer of the URL in force, written
\* to the file and loaded from it in the same call of boot().
THEOREM OnlyGoodDownloadsRun == Spec => []RunsOnlyAGoodDownload
<1>1. Inv => RunsOnlyAGoodDownload
  BY DEF Inv, RebootsAtTheEnd, ImageKnown, BodyKnown, FileKnown, URLKnown, HasBody, InBoot,
     RunsOnlyAGoodDownload
<1> QED
  BY Invariance, <1>1, PTL

\* What runs was handed to the TPM in this call of boot(), and measured unless
\* the TPM did not open or failed (netboot/main.go:225, measure.go:21-31).
THEOREM NothingRunsUntried == Spec => []MeasuredUnlessLost
<1>1. Inv => MeasuredUnlessLost
  BY DEF Inv, RebootsAtTheEnd, ImageKnown, BodyKnown, HasBody, MeasuredUnlessLost
<1> QED
  BY Invariance, <1>1, PTL

\* A dry run neither configures an interface nor loads an image.
THEOREM DryRunsAreDry == Spec => []DryRunTouchesNothing
<1>1. Inv => DryRunTouchesNothing
  BY DEF Inv
<1> QED
  BY Invariance, <1>1, PTL

---------------------------------------------------------------------------
\* netboot does what uinit expects of a boot command: it implements
\* BootCommand, for every number of interfaces, attempts and boot files.
THEOREM NetbootIsABootCommand == Spec => IsABootCommand
<1>1. Init => Command!CommandInit
  BY DEF Init, Command!CommandInit
<1>2. ASSUME Inv, [Next]_vars
      PROVE  [Command!CommandNext]_(Command!commandVars)
  <2> USE DEF Command!CommandNext, Command!CommandStep, Command!commandVars, Command!kexecVars,
      Command!Active, Command!FirmwareRuns, At, FirmwareRuns, kexecVars
  <2>1. CASE UNCHANGED kexecVars /\ (pc' = "exit" <=> pc = "exit")
    BY <2>1
  <2>2. CASE UNCHANGED kexecVars /\ pc # "exit" /\ running = NoImage /\ pc' = "exit"
    BY <2>2 DEF Command!EndCommand
  <2>3. CASE Lease
    BY <1>2, <2>3, BootEnds DEF Lease, Command!Attempt, Inv, IndicesInRange
  <2>4. CASE Load
    <3>1. pc = "load" /\ running = NoImage /\ iface \in 1..iflist /\ file \in Bodies /\ TypeOK
      BY <1>2, <2>4 DEF Load, Inv, IndicesInRange, FileKnown, BodyKnown, InBoot, HasBody
    <3>2. CASE LoadImage(file) /\ pc' = "reboot"
      BY <3>1, <3>2 DEF LoadImage, Command!Load, Command!LoadImage
    <3>3. CASE BootFails /\ UNCHANGED kexecVars
      BY <2>1, <3>1, <3>3, BootEnds
    <3> QED
      BY <2>4, <3>2, <3>3 DEF Load, FailsAndCloses
  <2>5. CASE Reboot
    <3>1. pc = "reboot" /\ running = NoImage /\ iface \in 1..iflist /\ fresh /\ TypeOK
      BY <1>2, <2>5 DEF Reboot, Inv, IndicesInRange, ImageKnown, InBoot
    <3>2. CASE RebootInto /\ UNCHANGED pc
      BY <3>1, <3>2 DEF RebootInto, Command!KexecReboot, Command!RebootInto
    <3>3. CASE (BootFails \/ BootReturns) /\ UNCHANGED kexecVars
      BY <2>1, <3>1, <3>3, BootEnds
    <3> QED
      BY <2>5, <3>2, <3>3 DEF Reboot, FailsAndCloses
  <2>6. CASE CheckFlags \/ IfUp \/ GiveUp \/ Get
    BY <2>1, <2>2, <2>6 DEF CheckFlags, IfUp, GiveUp, Get
  <2>7. CASE CheckURL \/ Answer \/ CheckStatus \/ Read \/ Save
    <3>1. /\ UNCHANGED kexecVars /\ running = NoImage /\ pc # "exit"
          /\ iface \in 1..iflist /\ TypeOK
      BY <1>2, <2>7 DEF CheckURL, Answer, CheckStatus, Read, Save, Inv, IndicesInRange, InBoot
    <3>2. CASE BootFails \/ BootReturns
      BY <2>1, <3>1, <3>2, BootEnds
    <3>3. CASE pc' \in {"get", "status", "read", "save", "load", "exit"}
      BY <2>1, <2>2, <3>1, <3>3
    <3> QED
      BY <2>7, <3>2, <3>3 DEF CheckURL, Answer, CheckStatus, Read, Save, FailsAndCloses, Exit
  <2>8. CASE Fix
    <3>1. /\ UNCHANGED kexecVars /\ running = NoImage /\ pc # "exit"
          /\ iface \in 1..iflist /\ TypeOK
      BY <1>2, <2>8 DEF Fix, Inv, IndicesInRange
    <3> QED
      BY <2>1, <2>2, <2>8, <3>1, AdvanceCases DEF Fix, Exit
  <2>9. CASE UNCHANGED vars
    BY <2>9 DEF vars
  <2> QED
    BY <1>2, <2>3, <2>4, <2>5, <2>6, <2>7, <2>8, <2>9 DEF Next, Local, Remote
<1> QED
  BY Invariance, <1>1, <1>2, PTL DEF Spec, IsABootCommand, Command!CommandSpec
---------------------------------------------------------------------------
\* An interface that main is through with.
HadItsTurn(i) == i \in down \/ {i} \X (1..Len(Protocols(flags))) \subseteq tried

\* The order of the calls of boot() so far.
TriedInOrder ==
  \A e \in tried : /\ {e[1]} \X (1..e[2]) \subseteq tried
                   /\ \A j \in 1..(e[1] - 1) : HadItsTurn(j)

\* What the loop indices say of the calls of boot() so far.
IndicesSayWhatWasTried ==
  /\ \A j \in 1..(iface - 1) : HadItsTurn(j)
  /\ {iface} \X (1..(proto - 1)) \subseteq tried
  /\ pc \in InBoot \cup {"fix"} => <<iface, proto>> \in tried
  /\ pc \in InBoot \cup {"fix", "dhcp"} => proto <= Len(Protocols(flags))
  /\ pc \in {"start", "ifup"} => proto = 1
  /\ pc \notin {"start", "exit"} => 1 <= Len(Protocols(flags))

\* No call was made twice.
TriedSoFar ==
  \A e \in tried :
    \/ e[1] < iface
    \/ e[1] = iface /\ e[2] < proto
    \/ e = <<iface, proto>> /\ pc \in InBoot \cup {"fix", "exit"}

\* The retries that the calls of boot() have spent when there were c.
Retries(c) == (maxHTTPAttempts - 1) * c

\* How many bodies may be open, by the place in boot().
OpenKnown ==
  /\ IsFiniteSet(tried)
  /\ LET most == Retries(Cardinality(tried))
     IN /\ pc \notin InBoot => unclosed <= most
        /\ pc = "url" => unclosed + (maxHTTPAttempts - 1) <= most
        /\ pc \in {"get", "waiting"} =>
             /\ unclosed + (maxHTTPAttempts - 1) <= most + attempt
             /\ resp = "nil" /\ attempt > 0 => unclosed + maxHTTPAttempts <= most + attempt
        /\ pc = "status" => unclosed <= most + (IF resp = "nil" THEN 0 ELSE 1)
        /\ pc \in HasBody \cup {"read"} => unclosed <= most + 1

TurnInv == TriedInOrder /\ IndicesSayWhatWasTried /\ TriedSoFar

LEMMA TurnInit == Init => TurnInv /\ OpenKnown
<1> SUFFICES ASSUME Init PROVE TurnInv /\ OpenKnown
  OBVIOUS
<1>1. tried = {} /\ iface = 1 /\ proto = 1 /\ pc = "start" /\ unclosed = 0
  BY DEF Init
<1>2. TurnInv
  <2>1. 1..(1 - 1) = {}
    OBVIOUS
  <2> QED
    BY <1>1, <2>1 DEF TurnInv, TriedInOrder, IndicesSayWhatWasTried, TriedSoFar, InBoot
<1>3. Cardinality(tried) = 0 /\ IsFiniteSet(tried)
  BY <1>1, FS_EmptySet
<1>4. Retries(Cardinality(tried)) = 0
  BY <1>3, NetbootAssumption DEF Retries
<1> QED
  BY <1>1, <1>2, <1>3, <1>4 DEF OpenKnown, InBoot, HasBody

\* main's next turn, after a call of boot() that has ended, or fixmynetboot.
LEMMA AdvanceTurns ==
  ASSUME Advance
  PROVE  \/ pc' = "dhcp" /\ iface' = iface /\ proto' = proto + 1 /\ proto < Len(Protocols(flags))
         \/ pc' = "ifup" /\ iface' = iface + 1 /\ proto' = 1 /\ ~(proto < Len(Protocols(flags)))
BY DEF Advance

\* A call of boot() goes on, or it ends and main goes on.
Goes ==
  \/ pc' \in InBoot \cup {"fix", "exit"} /\ UNCHANGED <<iface, proto>>
  \/ Advance

\* What a step of main's loops does to their variables.
LEMMA LoopSteps ==
  ASSUME Inv, [Next]_vars
  PROVE  /\ UNCHANGED flags /\ UNCHANGED iflist
         /\ \/ /\ pc = "dhcp" /\ tried' = tried \cup {<<iface, proto>>} /\ UNCHANGED down /\ Goes
            \/ /\ pc = "ifup" /\ iface <= iflist /\ iface' = iface + 1 /\ pc' = pc
               /\ down' = down \cup {iface} /\ UNCHANGED <<proto, tried>>
            \/ /\ pc = "ifup" /\ iface <= iflist /\ pc' = "dhcp"
               /\ UNCHANGED <<iface, proto, tried, down>>
            \/ /\ pc = "start" /\ pc' = "ifup" /\ (flags.useV6 \/ flags.useV4)
               /\ UNCHANGED <<iface, proto, tried, down>>
            \/ /\ pc \in InBoot \cup {"fix"} /\ UNCHANGED <<tried, down>> /\ Goes
            \/ /\ pc' \in {pc, "exit"} /\ UNCHANGED <<iface, proto, tried, down>>
<1> USE DEF At, Exit, envVars, loopVars, bootVars, sideVars, InBoot, Goes
<1>1. ASSUME BootReturns \/ BootFails PROVE Goes
  BY <1>1 DEF BootReturns, BootFails
<1>2. CASE CheckFlags
  BY <1>2 DEF CheckFlags
<1>3. CASE IfUp
  BY <1>3 DEF IfUp
<1>4. CASE GiveUp
  BY <1>4 DEF GiveUp
<1>5. CASE Lease
  <2>1. pc = "dhcp" /\ tried' = tried \cup {<<iface, proto>>} /\ UNCHANGED <<down, flags, iflist>>
    BY <1>5 DEF Lease
  <2>2. Goes
    BY <1>1, <1>5 DEF Lease
  <2> QED
    BY <2>1, <2>2
<1>6. CASE CheckURL \/ Get \/ Answer \/ CheckStatus \/ Read \/ Save \/ Load \/ Reboot
  <2>1. pc \in InBoot /\ UNCHANGED <<tried, down, flags, iflist>>
    BY <1>6 DEF CheckURL, Get, Answer, CheckStatus, Read, Save, Load, Reboot
  <2>2. Goes
    BY <1>1, <1>6 DEF CheckURL, Get, Answer, CheckStatus, Read, Save, Load, Reboot, FailsAndCloses
  <2> QED
    BY <2>1, <2>2
<1>7. CASE Fix
  BY <1>7 DEF Fix
<1>8. CASE UNCHANGED vars
  BY <1>8 DEF vars
<1> QED
  BY <1>2, <1>3, <1>4, <1>5, <1>6, <1>7, <1>8 DEF Next, Local, Remote

\* The protocols asked for: none, one or two.
LEMMA ProtocolCount ==
  /\ Len(Protocols(flags)) \in {0, 1, 2}
  /\ flags.useV6 \/ flags.useV4 => 1 <= Len(Protocols(flags))
BY DEF Protocols

\* Nothing that has been tried is forgotten.
LEMMA TurnsStay ==
  ASSUME UNCHANGED flags, tried \subseteq tried', down \subseteq down', NEW i, HadItsTurn(i)
  PROVE  HadItsTurn(i)'
BY DEF HadItsTurn

LEMMA TurnStep ==
  ASSUME Inv, TurnInv, [Next]_vars
  PROVE  TurnInv'
<1> DEFINE count == Len(Protocols(flags))
<1>1. /\ iface \in Nat \ {0} /\ proto \in {1, 2} /\ count \in {0, 1, 2} /\ iflist \in Nat
      /\ tried \subseteq Nat \X {1, 2}
  <2>1. tried \subseteq (1..iflist) \X {1, 2}
    BY DEF Inv, TypeOK
  <2> QED
    BY <2>1, Numbers, ProtocolCount DEF Inv
<1>2. UNCHANGED flags /\ tried \subseteq tried' /\ down \subseteq down' /\ count' = count
  BY LoopSteps
<1>3. \A i : HadItsTurn(i) => HadItsTurn(i)'
  BY <1>2, TurnsStay
<1>4. \A j \in 1..(iface - 1) : HadItsTurn(j)'
  BY <1>3 DEF TurnInv, IndicesSayWhatWasTried
<1>5. {iface} \X (1..(proto - 1)) \subseteq tried'
  BY <1>2 DEF TurnInv, IndicesSayWhatWasTried
<1>6. TriedInOrder'
  <2>1. ASSUME NEW e \in tried
        PROVE  /\ {e[1]} \X (1..e[2]) \subseteq tried' /\ \A j \in 1..(e[1] - 1) : HadItsTurn(j)'
    BY <1>2, <1>3 DEF TurnInv, TriedInOrder
  <2>2. CASE tried' = tried \cup {<<iface, proto>>}
    <3>1. {iface} \X (1..proto) \subseteq tried'
      <4>1. 1..proto = (1..(proto - 1)) \cup {proto}
        BY <1>1
      <4>2. {iface} \X (1..proto) = ({iface} \X (1..(proto - 1))) \cup {<<iface, proto>>}
        BY <4>1
      <4> QED
        BY <1>5, <2>2, <4>2
    <3> QED
      BY <1>4, <2>1, <2>2, <3>1 DEF TriedInOrder
  <2>3. CASE tried' = tried
    BY <2>1, <2>3 DEF TriedInOrder
  <2> QED
    BY <2>2, <2>3, LoopSteps
<1>7. ASSUME Goes, <<iface, proto>> \in tried', proto <= count,
             \A e \in tried' : e[1] < iface \/ (e[1] = iface /\ e[2] < proto) \/ e = <<iface, proto>>
      PROVE  IndicesSayWhatWasTried' /\ TriedSoFar'
  <2> HIDE DEF count
  <2>1. CASE pc' \in InBoot \cup {"fix", "exit"} /\ UNCHANGED <<iface, proto>>
    <3>1. TriedSoFar'
      BY <1>7, <2>1 DEF TriedSoFar
    <3>2. pc' \notin {"start", "ifup"} /\ 1 <= count' /\ proto' <= count'
      BY <1>1, <1>2, <1>7, <2>1 DEF InBoot
    <3> QED
      BY <1>4, <1>5, <1>7, <2>1, <3>1, <3>2 DEF IndicesSayWhatWasTried, count
  <2>2. {iface} \X (1..proto) \subseteq tried'
    <3>1. 1..proto = (1..(proto - 1)) \cup {proto}
      BY <1>1
    <3>2. {iface} \X (1..proto) = ({iface} \X (1..(proto - 1))) \cup {<<iface, proto>>}
      BY <3>1
    <3> QED
      BY <1>5, <1>7, <3>2
  <2>3. CASE pc' = "dhcp" /\ iface' = iface /\ proto' = proto + 1 /\ proto < count
    <3>1. proto' - 1 = proto /\ proto' <= count' /\ 1 <= count'
      BY <1>1, <1>2, <2>3
    <3>2. TriedSoFar'
      <4>1. ASSUME NEW e \in tried' PROVE e[1] < iface' \/ (e[1] = iface' /\ e[2] < proto')
        <5>1. CASE e = <<iface, proto>>
          BY <1>1, <2>3, <5>1
        <5>2. CASE e[1] < iface
          BY <2>3, <5>2
        <5>3. CASE e[1] = iface /\ e[2] < proto
          <6>1. e \in Nat \X {1, 2} \/ e = <<iface, proto>>
            BY <1>1, LoopSteps
          <6> QED
            BY <1>1, <2>3, <5>3, <6>1
        <5> QED
          BY <1>7, <5>1, <5>2, <5>3
      <4> QED
        BY <4>1 DEF TriedSoFar
    <3>3. {iface'} \X (1..(proto' - 1)) \subseteq tried'
      BY <2>2, <2>3, <3>1
    <3>4. \A j \in 1..(iface' - 1) : HadItsTurn(j)'
      BY <1>4, <2>3
    <3>5. pc' \notin InBoot \cup {"fix", "start", "ifup", "exit"}
      BY <2>3 DEF InBoot
    <3> QED
      BY <3>1, <3>2, <3>3, <3>4, <3>5 DEF IndicesSayWhatWasTried, count
  <2>4. CASE pc' = "ifup" /\ iface' = iface + 1 /\ proto' = 1 /\ ~(proto < count)
    <3>1. proto = count /\ 1 <= count /\ count' = count
      BY <1>1, <1>2, <1>7, <2>4
    <3>2. ASSUME NEW i, i = iface PROVE HadItsTurn(i)'
      BY <1>2, <2>2, <3>1, <3>2 DEF HadItsTurn, count
    <3>3. \A j \in 1..(iface' - 1) : HadItsTurn(j)'
      <4>1. 1..(iface' - 1) = (1..(iface - 1)) \cup {iface}
        BY <1>1, <2>4
      <4> QED
        BY <1>4, <3>2, <4>1
    <3>4. {iface'} \X (1..(proto' - 1)) \subseteq tried'
      <4>1. 1..(proto' - 1) = {}
        BY <2>4
      <4> QED
        BY <4>1
    <3>5. TriedSoFar'
      <4>1. ASSUME NEW e \in tried' PROVE e[1] < iface'
        <5>1. e[1] = iface \/ e[1] < iface
          BY <1>7
        <5>2. e[1] \in Nat
          BY <1>1, LoopSteps
        <5> QED
          BY <1>1, <2>4, <5>1, <5>2
      <4> QED
        BY <4>1 DEF TriedSoFar
    <3>6. pc' \notin InBoot \cup {"fix", "dhcp"}
      BY <2>4 DEF InBoot
    <3> QED
      BY <2>4, <3>1, <3>3, <3>4, <3>5, <3>6 DEF IndicesSayWhatWasTried, count
  <2> QED
    BY <1>7, <2>1, <2>3, <2>4, AdvanceTurns DEF Goes, count
<1>8. CASE pc = "dhcp" /\ tried' = tried \cup {<<iface, proto>>} /\ Goes
  <2>1. proto <= count
    BY <1>8 DEF TurnInv, IndicesSayWhatWasTried
  <2>2. \A e \in tried' : e[1] < iface \/ (e[1] = iface /\ e[2] < proto) \/ e = <<iface, proto>>
    BY <1>8 DEF TurnInv, TriedSoFar
  <2> QED
    BY <1>6, <1>7, <1>8, <2>1, <2>2 DEF TurnInv
<1>9. CASE pc \in InBoot \cup {"fix"} /\ UNCHANGED tried /\ Goes
  <2>1. proto <= count /\ <<iface, proto>> \in tried'
    BY <1>9 DEF TurnInv, IndicesSayWhatWasTried
  <2>2. \A e \in tried' : e[1] < iface \/ (e[1] = iface /\ e[2] < proto) \/ e = <<iface, proto>>
    BY <1>9 DEF TurnInv, TriedSoFar
  <2> QED
    BY <1>6, <1>7, <1>9, <2>1, <2>2 DEF TurnInv
<1>10. CASE /\ pc = "ifup" /\ iface' = iface + 1 /\ pc' = pc
            /\ down' = down \cup {iface} /\ UNCHANGED <<proto, tried>>
  <2>1. ASSUME NEW i, i = iface PROVE HadItsTurn(i)'
    BY <1>10, <2>1 DEF HadItsTurn
  <2>2. \A j \in 1..(iface' - 1) : HadItsTurn(j)'
    <3>1. 1..(iface' - 1) = (1..(iface - 1)) \cup {iface}
      BY <1>1, <1>10
    <3> QED
      BY <1>4, <2>1, <3>1
  <2>3. pc \notin InBoot \cup {"fix", "dhcp", "exit", "start"} /\ proto = 1 /\ 1..(proto - 1) = {}
    <3>1. proto = 1
      BY <1>10 DEF TurnInv, IndicesSayWhatWasTried
    <3> QED
      BY <1>10, <3>1 DEF InBoot
  <2>4. TriedSoFar'
    <3>1. ASSUME NEW e \in tried PROVE e[1] < iface'
      <4>1. e[1] < iface \/ (e[1] = iface /\ e[2] < proto)
        BY <2>3 DEF TurnInv, TriedSoFar
      <4>2. e[1] \in Nat /\ e[2] \in {1, 2}
        BY <1>1
      <4> QED
        BY <1>1, <1>10, <4>1, <4>2
    <3> QED
      BY <1>10, <3>1 DEF TriedSoFar
  <2>5. {iface'} \X (1..(proto' - 1)) \subseteq tried'
    BY <1>10, <2>3
  <2> QED
    BY <1>2, <1>6, <1>10, <2>2, <2>3, <2>4, <2>5 DEF TurnInv, IndicesSayWhatWasTried
<1>11. CASE /\ \/ pc = "ifup" /\ pc' = "dhcp"
               \/ pc = "start" /\ pc' = "ifup" /\ (flags.useV6 \/ flags.useV4)
            /\ UNCHANGED <<iface, proto, tried, down>>
  <2>1. proto = 1 /\ pc \notin InBoot \cup {"fix", "exit"} /\ pc' \notin InBoot \cup {"fix", "exit", "start"}
    BY <1>11 DEF TurnInv, IndicesSayWhatWasTried, InBoot
  <2>2. 1 <= count
    BY <1>11, ProtocolCount DEF TurnInv, IndicesSayWhatWasTried
  <2>3. TriedSoFar'
    BY <1>11, <2>1 DEF TurnInv, TriedSoFar
  <2> QED
    BY <1>2, <1>4, <1>5, <1>6, <1>11, <2>1, <2>2, <2>3 DEF TurnInv, IndicesSayWhatWasTried
<1>12. CASE pc' \in {pc, "exit"} /\ UNCHANGED <<iface, proto, tried, down>>
  <2>1. TriedSoFar'
    BY <1>12 DEF TurnInv, TriedSoFar
  <2>2. IndicesSayWhatWasTried'
    BY <1>2, <1>4, <1>5, <1>12 DEF TurnInv, IndicesSayWhatWasTried, InBoot
  <2> QED
    BY <1>6, <2>1, <2>2 DEF TurnInv
<1> QED
  BY <1>8, <1>9, <1>10, <1>11, <1>12, LoopSteps

\* Every protocol of every interface that came up gets its turn, in order, and
\* main gives up only when all have had theirs: for any number of interfaces.
THEOREM EverythingIsTried == Spec => []TriesEverythingInOrder
<1>1. ASSUME Inv, TurnInv PROVE TriesEverythingInOrder
  <2>1. ASSUME iface > iflist PROVE \A i \in 1..iflist : HadItsTurn(i)
    <3>1. iface \in Nat /\ iflist \in Nat
      BY <1>1, Numbers DEF Inv
    <3>2. 1..iflist \subseteq 1..(iface - 1)
      BY <2>1, <3>1
    <3> QED
      BY <1>1, <3>2 DEF TurnInv, IndicesSayWhatWasTried
  <2> QED
    BY <1>1, <2>1 DEF TriesEverythingInOrder, TurnInv, TriedInOrder, HadItsTurn
<1>2. Inv /\ TurnInv /\ [Next]_vars => TurnInv'
  BY TurnStep
<1> QED
  BY TurnInit, Invariance, <1>1, <1>2, PTL DEF Spec

\* Another call of boot() may leave maxHTTPAttempts - 1 more bodies open.
LEMMA RetriesGrow ==
  ASSUME NEW c \in Nat
  PROVE  /\ Retries(c) \in Nat
         /\ Retries(c + 1) = Retries(c) + (maxHTTPAttempts - 1)
<1>1. maxHTTPAttempts \in Nat \ {0}
  BY NetbootAssumption
<1> DEFINE m == maxHTTPAttempts - 1
<1>2. m \in Nat
  BY <1>1
<1> HIDE DEF m
<1>3. m * c \in Nat /\ m * (c + 1) = m * c + m
  BY <1>2
<1> QED
  BY <1>3 DEF Retries, m

\* boot() is not called again for what has been tried.
LEMMA CallIsNew ==
  ASSUME Inv, TurnInv, pc = "dhcp"
  PROVE  <<iface, proto>> \notin tried
<1>1. SUFFICES ASSUME <<iface, proto>> \in tried PROVE FALSE
  OBVIOUS
<1>2. iface < iface \/ (iface = iface /\ proto < proto)
  BY <1>1 DEF TurnInv, TriedSoFar, InBoot
<1> QED
  BY <1>2, Numbers DEF Inv

LEMMA OpenStep ==
  ASSUME Inv, TurnInv, OpenKnown, [Next]_vars
  PROVE  OpenKnown'
<1> DEFINE most == Retries(Cardinality(tried))
<1>1. /\ unclosed \in Nat /\ attempt \in 0..maxHTTPAttempts /\ maxHTTPAttempts \in Nat \ {0}
  BY Numbers, NetbootAssumption DEF Inv
<1>2. IsFiniteSet(tried) /\ Cardinality(tried) \in Nat /\ most \in Nat
  BY FS_CardinalityType, RetriesGrow DEF OpenKnown
<1>3. ASSUME UNCHANGED tried PROVE IsFiniteSet(tried)' /\ most' = most
  BY <1>2, <1>3
<1>4. ASSUME BootReturns \/ BootFails \/ Advance PROVE pc' \notin InBoot
  BY <1>4 DEF BootReturns, BootFails, Advance, InBoot
<1> USE DEF At, Exit, envVars, loopVars, bootVars, sideVars
<1>5. ASSUME UNCHANGED tried, pc' \notin InBoot, unclosed' <= most PROVE OpenKnown'
  BY <1>3, <1>5 DEF OpenKnown, InBoot, HasBody
<1>6. CASE CheckFlags \/ IfUp \/ GiveUp \/ Fix
  <2>1. UNCHANGED <<tried, unclosed>> /\ pc \notin InBoot /\ pc' \notin InBoot
    BY <1>4, <1>6 DEF CheckFlags, IfUp, GiveUp, Fix, InBoot
  <2> QED
    BY <1>5, <2>1 DEF OpenKnown
<1>7. CASE Lease
  <2>1. /\ pc = "dhcp" /\ tried' = tried \cup {<<iface, proto>>}
        /\ unclosed' = unclosed /\ (pc' = "url" \/ pc' \notin InBoot)
    BY <1>4, <1>7 DEF Lease
  <2>2. IsFiniteSet(tried') /\ Cardinality(tried') = Cardinality(tried) + 1
    BY <1>2, <2>1, CallIsNew, FS_AddElement
  <2>3. most' = most + (maxHTTPAttempts - 1)
    BY <1>2, <2>2, RetriesGrow
  <2>4. unclosed <= most /\ unclosed' = unclosed
    BY <1>7, <2>1 DEF OpenKnown, InBoot, Lease
  <2> HIDE DEF most
  <2>5. unclosed' <= most' /\ unclosed' + (maxHTTPAttempts - 1) <= most'
    BY <1>1, <1>2, <2>3, <2>4
  <2>6. pc' \notin {"get", "waiting", "status", "read", "save", "load", "reboot"}
    BY <2>1 DEF InBoot
  <2> QED
    BY <2>2, <2>5, <2>6 DEF OpenKnown, InBoot, HasBody, most
<1>8. CASE CheckURL
  <2>1. UNCHANGED <<tried, unclosed, attempt, resp>> /\ pc = "url" /\ (pc' = "get" \/ pc' \notin InBoot)
    BY <1>4, <1>8 DEF CheckURL
  <2>2. unclosed + (maxHTTPAttempts - 1) <= most
    BY <2>1 DEF OpenKnown
  <2> HIDE DEF most
  <2>3. unclosed <= most /\ unclosed + (maxHTTPAttempts - 1) <= most + attempt
        /\ (attempt > 0 => unclosed + maxHTTPAttempts <= most + attempt)
    BY <1>1, <1>2, <2>2
  <2>4. CASE pc' = "get"
    BY <1>3, <2>1, <2>3, <2>4 DEF OpenKnown, InBoot, HasBody, most
  <2> QED
    BY <1>5, <2>1, <2>3, <2>4 DEF most
<1>9. CASE Get
  <2>1. /\ UNCHANGED <<tried, unclosed, attempt, resp>> /\ pc = "get"
        /\ pc' = IF attempt < maxHTTPAttempts THEN "waiting" ELSE "status"
    BY <1>9 DEF Get
  <2>2. /\ unclosed + (maxHTTPAttempts - 1) <= most + attempt
        /\ resp = "nil" /\ attempt > 0 => unclosed + maxHTTPAttempts <= most + attempt
    BY <2>1 DEF OpenKnown
  <2> HIDE DEF most
  <2>3. ~(attempt < maxHTTPAttempts) =>
          unclosed <= most + 1 /\ (resp = "nil" => unclosed <= most)
    BY <1>1, <1>2, <2>2
  <2>4. CASE pc' = "waiting"
    BY <1>3, <2>1, <2>2, <2>4 DEF OpenKnown, InBoot, HasBody, most
  <2>5. CASE pc' = "status" /\ ~(attempt < maxHTTPAttempts)
    <3>1. unclosed <= most + (IF resp = "nil" THEN 0 ELSE 1)
      BY <1>1, <1>2, <2>3, <2>5
    <3> QED
      BY <1>3, <2>1, <2>5, <3>1 DEF OpenKnown, InBoot, HasBody, most
  <2> QED
    BY <2>1, <2>4, <2>5
<1>10. CASE Answer
  <2>1. UNCHANGED tried /\ pc = "waiting" /\ attempt < maxHTTPAttempts
    BY <1>10 DEF Answer, Inv, IndicesInRange
  <2>2. unclosed + (maxHTTPAttempts - 1) <= most + attempt
        /\ (resp = "nil" /\ attempt > 0 => unclosed + maxHTTPAttempts <= most + attempt)
    BY <2>1 DEF OpenKnown
  <2> HIDE DEF most
  <2>3. unclosed <= most
    BY <1>1, <1>2, <2>1, <2>2
  <2>4. CASE resp' # "nil" /\ unclosed' = unclosed + 1 /\ pc' = "get" /\ attempt' = attempt + 1
    <3>1. unclosed' + (maxHTTPAttempts - 1) <= most + attempt'
      BY <1>1, <1>2, <2>2, <2>4
    <3> QED
      BY <1>3, <2>1, <2>4, <3>1 DEF OpenKnown, InBoot, HasBody, most
  <2>5. CASE resp' # "nil" /\ unclosed' = unclosed + 1 /\ pc' = "status"
    <3>1. unclosed' <= most + 1
      BY <1>1, <1>2, <2>3, <2>5
    <3> QED
      BY <1>3, <2>1, <2>5, <3>1 DEF OpenKnown, InBoot, HasBody, most
  <2>6. CASE pc' = "get" /\ attempt' = attempt + 1 /\ unclosed' = unclosed
    <3>1. /\ unclosed' + (maxHTTPAttempts - 1) <= most + attempt'
          /\ unclosed' + maxHTTPAttempts <= most + attempt'
      BY <1>1, <1>2, <2>2, <2>6
    <3> QED
      BY <1>3, <2>1, <2>6, <3>1 DEF OpenKnown, InBoot, HasBody, most
  <2>7. CASE BootFails /\ UNCHANGED unclosed
    BY <1>4, <1>5, <2>1, <2>3, <2>7 DEF most
  <2>8. ASSUME NEW status \in {"200", "404", "500", "502"}, resp' = status PROVE resp' # "nil"
    BY <2>8
  <2> QED
    BY <1>10, <2>4, <2>5, <2>6, <2>7, <2>8 DEF Answer
<1>11. CASE CheckStatus
  <2>1. UNCHANGED <<tried, resp>> /\ pc = "status" /\ unclosed <= most + (IF resp = "nil" THEN 0 ELSE 1)
    BY <1>11 DEF CheckStatus, OpenKnown
  <2> HIDE DEF most
  <2>2. CASE resp = "nil" /\ pc' = "exit" /\ unclosed' = unclosed
    BY <1>1, <1>2, <1>5, <2>1, <2>2 DEF InBoot, most
  <2>3. CASE resp = "200" /\ pc' = "read" /\ unclosed' = unclosed
    <3>1. unclosed' <= most + 1
      BY <1>1, <1>2, <2>1, <2>3
    <3> QED
      BY <1>3, <2>1, <2>3, <3>1 DEF OpenKnown, InBoot, HasBody, most
  <2>4. CASE resp \notin {"nil", "200"} /\ BootFails /\ unclosed' = unclosed - 1
    <3>1. unclosed' <= most
      BY <1>1, <1>2, <2>1, <2>4
    <3> QED
      BY <1>4, <1>5, <2>1, <2>4, <3>1 DEF most
  <2> QED
    BY <1>11, <2>2, <2>3, <2>4 DEF CheckStatus
<1>12. CASE Read \/ Save \/ Load \/ Reboot
  <2>1. UNCHANGED tried /\ pc \in HasBody \cup {"read"} /\ unclosed <= most + 1
    BY <1>12 DEF Read, Save, Load, Reboot, OpenKnown, HasBody
  <2>2. CASE (BootFails \/ BootReturns) /\ unclosed' = unclosed - 1
    <3> HIDE DEF most
    <3>1. unclosed' <= most
      BY <1>1, <1>2, <2>1, <2>2
    <3> QED
      BY <1>4, <1>5, <2>1, <2>2, <3>1 DEF most
  <2>3. CASE pc' \in HasBody /\ unclosed' = unclosed
    BY <1>3, <2>1, <2>3 DEF OpenKnown, InBoot, HasBody
  <2> QED
    BY <1>12, <2>1, <2>2, <2>3 DEF Read, Save, Load, Reboot, FailsAndCloses, HasBody
<1>13. CASE UNCHANGED vars
  <2>1. UNCHANGED <<tried, pc, unclosed, attempt, resp>>
    BY <1>13 DEF vars
  <2> QED
    BY <2>1 DEF OpenKnown
<1> QED
  BY <1>6, <1>7, <1>8, <1>9, <1>10, <1>11, <1>12, <1>13 DEF Next, Local, Remote

\* The bodies that stay open are those of answers that were retried: at most
\* maxHTTPAttempts - 1 for each call of boot(), and one in the call under way.
THEOREM OpenBodiesAreBounded == Spec => []UnclosedBound
<1>1. ASSUME Inv, OpenKnown PROVE UnclosedBound
  <2> DEFINE most == Retries(Cardinality(tried))
  <2>1. /\ unclosed \in Nat /\ attempt \in 0..maxHTTPAttempts /\ maxHTTPAttempts \in Nat \ {0}
    BY <1>1, Numbers, NetbootAssumption DEF Inv
  <2>2. most \in Nat
    BY <1>1, FS_CardinalityType, RetriesGrow DEF OpenKnown
  <2>3. \/ unclosed <= most + 1 \/ unclosed <= most \/ unclosed + (maxHTTPAttempts - 1) <= most
        \/ unclosed + (maxHTTPAttempts - 1) <= most + attempt
        \/ unclosed <= most + (IF resp = "nil" THEN 0 ELSE 1)
    BY <1>1 DEF OpenKnown, InBoot, HasBody
  <2> HIDE DEF most
  <2>4. unclosed <= most + 1
    BY <2>1, <2>2, <2>3
  <2> QED
    BY <2>4 DEF UnclosedBound, Retries, most
<1>2. Inv /\ TurnInv /\ OpenKnown /\ [Next]_vars => TurnInv' /\ OpenKnown'
  BY TurnStep, OpenStep
<1> QED
  BY TurnInit, Invariance, <1>1, <1>2, PTL DEF Spec
---------------------------------------------------------------------------
(* fixmynetboot, which netboot runs with -fix: its exit code says what its *)
(* checks have seen, for any interfaces that come and go in any way.       *)

Cleared(j) == j \in shells \/ {<<j, 4>>, <<j, 5>>} \subseteq passed

\* The interfaces before this one, and the checks that stop before this one.
StoppersPassed ==
  /\ \A j \in 1..(nth - 1) : Cleared(j)
  /\ idx > 4 => <<nth, 4>> \in passed
  /\ idx > 5 => <<nth, 5>> \in passed

\* No check has passed that is still to come.
NothingAhead == \A x \in passed : x[1] < nth \/ (x[1] = nth /\ x[2] < idx)

StartKnown == fixpc = "start" => interfaces = <<>>
ShellKnown == fixpc = "shell" => nth <= Len(interfaces) /\ idx \in {1, 4, 5}
ExitKnown ==
  fixpc = "exit" => IF exitcode = 0 THEN nth > Len(interfaces) ELSE interfaces # <<>> => idx \in {1, 4, 5}

FixInv ==
  /\ FixTypeOK /\ StoppersPassed /\ NothingAhead
  /\ StartKnown /\ ShellKnown /\ ExitKnown
---------------------------------------------------------------------------
\* An element of a sequence is one of the set it is made of.
LEMMA NameType ==
  ASSUME NEW S, NEW s \in Seq(S), NEW j \in 1..Len(s)
  PROVE  s[j] \in S
  OBVIOUS

\* The numbers of a state.
LEMMA FixNumbers ==
  ASSUME FixTypeOK
  PROVE  Len(interfaces) \in Nat /\ nth \in 1..(Len(interfaces) + 1) /\ idx \in 1..6
  BY DEF FixTypeOK

\* The list has five checks: the first, fourth and fifth stop the run, and the
\* first has a remediation.
LEMMA Checks5 ==
  ASSUME NEW f, NEW c \in 1..5
  PROVE  /\ Len(Checklist(f)) = 5
         /\ Checklist(f)[c].stop <=> c \in {1, 4, 5}
         /\ Checklist(f)[c].remediate <=> c = 1
<1>1. CASE c = 1  BY <1>1 DEF Checklist
<1>2. CASE c = 2  BY <1>2 DEF Checklist
<1>3. CASE c = 3  BY <1>3 DEF Checklist
<1>4. CASE c = 4  BY <1>4 DEF Checklist
<1>5. CASE c = 5  BY <1>5 DEF Checklist
<1> QED  BY <1>1, <1>2, <1>3, <1>4, <1>5

\* Where a check runs there are an interface and a check.
LEMMA CheckNumber ==
  ASSUME FixTypeOK, Checks
  PROVE  nth \in 1..Len(interfaces) /\ idx \in 1..5
<1>1. Len(Checklist(interfaces[nth])) = 5
  BY Checks5, 1 \in 1..5
<1> QED  BY <1>1, FixNumbers DEF Checks

\* The list of interfaces that a run starts with.
LEMMA InterfacesType ==
  ASSUME FixTypeOK, Start
  PROVE  interfaces' \in Seq(Names)
<1>1. CASE UNCHANGED interfaces
  BY <1>1 DEF FixTypeOK
<1>2. CASE arg # NoIface /\ interfaces' = <<arg>>
  <2>1. arg \in Names
    BY <1>2 DEF FixTypeOK, Names
  <2> QED  BY <1>2, <2>1
<1>3. CASE interfaces' \in SetToSeqs({f \in Ifaces : <<f, "exists">> \in facts})
  <2> DEFINE S == {f \in Ifaces : <<f, "exists">> \in facts}
  <2>1. S \subseteq Names
    BY FixmynetbootAssumption DEF Names
  <2>2. IsFiniteSet(Ifaces) /\ S \subseteq Ifaces
    BY FixmynetbootAssumption
  <2>3. Cardinality(S) \in Nat
    BY <2>2, FS_Subset, FS_CardinalityType
  <2>4. interfaces' \in [1..Cardinality(S) -> S]
    BY <1>3 DEF SetToSeqs
  <2> HIDE DEF S
  <2> QED  BY <2>1, <2>3, <2>4
<1> QED  BY <1>1, <1>2, <1>3 DEF Start

LEMMA FixInitInv == FixInit => FixInv
<1> SUFFICES ASSUME FixInit PROVE FixInv
  OBVIOUS
<1>1. FixTypeOK
  BY FixmynetbootAssumption DEF FixInit, FixTypeOK
<1> QED
  BY <1>1 DEF FixInit, FixInv, StoppersPassed, NothingAhead, StartKnown, ShellKnown, ExitKnown

LEMMA FixNextInv == FixInv /\ [FixNext]_fixVars => FixInv'
<1> SUFFICES ASSUME FixInv, [FixNext]_fixVars PROVE FixInv'
  OBVIOUS
<1> USE DEF FixInv
<1>0. Len(interfaces) \in Nat /\ nth \in 1..(Len(interfaces) + 1) /\ idx \in 1..6
  BY FixNumbers
<1>p. \A x \in passed : x[1] \in 1..Len(interfaces) /\ x[2] \in 1..5
  BY <1>0 DEF FixTypeOK
<1>1. CASE Start
  <2>1. interfaces = <<>> /\ Len(interfaces) = 0
    BY <1>1 DEF Start, StartKnown
  <2>2. nth = 1 /\ passed = {} /\ shells = {}
    BY <1>0, <2>1 DEF FixTypeOK
  <2>3. interfaces' \in Seq(Names)
    BY <1>1, InterfacesType
  <2>4. UNCHANGED <<nth, idx, passed, shells, facts, changes, arg, shell>>
    BY <1>1 DEF Start, worldVars, argVars
  <2>5. nth' \in 1..(Len(interfaces') + 1)
    BY <2>2, <2>3, <2>4
  <2>6. fixpc' \in {"check", "exit"} /\ exitcode' \in {0, 1}
    BY <1>1 DEF Start, ExitWith, FixTypeOK
  <2>7. FixTypeOK'
    BY <2>2, <2>3, <2>4, <2>5, <2>6 DEF FixTypeOK
  <2>8. StoppersPassed' /\ NothingAhead'
    BY <2>2, <2>4 DEF StoppersPassed, NothingAhead, Cleared
  <2>9. StartKnown' /\ ShellKnown'
    BY <2>6 DEF StartKnown, ShellKnown
  <2>10. ExitKnown'
    BY <1>1, <2>1 DEF Start, ExitWith, ExitKnown
  <2> QED  BY <2>7, <2>8, <2>9, <2>10
<1>2. CASE Pass
  <2>1. nth \in 1..Len(interfaces) /\ idx \in 1..5
    BY <1>2, CheckNumber DEF Pass
  <2>2. /\ fixpc = "check" /\ passed' = passed \cup {<<nth, idx>>} /\ idx' = idx + 1
        /\ UNCHANGED <<facts, changes, arg, shell, fixpc, exitcode, interfaces, nth, shells>>
    BY <1>2 DEF Pass, Checks, worldVars, argVars
  <2>3. FixTypeOK'
    BY <2>1, <2>2 DEF FixTypeOK
  <2>4. StoppersPassed'
    BY <1>0, <2>1, <2>2 DEF StoppersPassed, Cleared
  <2>5. NothingAhead'
    BY <1>0, <1>p, <2>1, <2>2 DEF NothingAhead
  <2>6. StartKnown' /\ ShellKnown' /\ ExitKnown'
    BY <2>2 DEF StartKnown, ShellKnown, ExitKnown
  <2> QED  BY <2>3, <2>4, <2>5, <2>6
<1>3. CASE GoOn
  <2>1. nth \in 1..Len(interfaces) /\ idx \in 1..5
    BY <1>3, CheckNumber DEF GoOn
  <2>2. idx \in {1, 2, 3}
    BY <1>3, <2>1, Checks5 DEF GoOn, Stops, Check
  <2>3. /\ fixpc = "check" /\ idx' = idx + 1
        /\ UNCHANGED <<facts, changes, arg, shell, fixpc, exitcode, interfaces, nth, passed, shells>>
    BY <1>3 DEF GoOn, Checks, worldVars, argVars
  <2>4. FixTypeOK'
    BY <2>1, <2>3 DEF FixTypeOK
  <2>5. StoppersPassed'
    BY <1>0, <2>2, <2>3 DEF StoppersPassed, Cleared
  <2>6. NothingAhead'
    BY <1>0, <1>p, <2>2, <2>3 DEF NothingAhead
  <2>7. StartKnown' /\ ShellKnown' /\ ExitKnown'
    BY <2>3 DEF StartKnown, ShellKnown, ExitKnown
  <2> QED  BY <2>4, <2>5, <2>6, <2>7
<1>4. CASE CheckFails
  <2>1. nth \in 1..Len(interfaces) /\ idx \in 1..5
    BY <1>4, CheckNumber DEF CheckFails
  <2>2. idx \in {1, 4, 5}
    BY <1>4, <2>1, Checks5 DEF CheckFails, Stops, Check
  <2>3. UNCHANGED <<facts, changes, arg, shell, interfaces, nth, idx, passed, shells>>
    BY <1>4 DEF CheckFails, worldVars, argVars
  <2>4. (fixpc' = "shell" /\ exitcode' = exitcode) \/ (fixpc' = "exit" /\ exitcode' = 1)
    BY <1>4 DEF CheckFails, ExitWith
  <2>5. FixTypeOK'
    BY <2>3, <2>4 DEF FixTypeOK
  <2>6. StoppersPassed' /\ NothingAhead'
    BY <2>3 DEF StoppersPassed, NothingAhead, Cleared
  <2>7. StartKnown' /\ ShellKnown' /\ ExitKnown'
    BY <1>0, <2>1, <2>2, <2>3, <2>4 DEF StartKnown, ShellKnown, ExitKnown
  <2> QED  BY <2>5, <2>6, <2>7
<1>5. CASE ShellReturns
  <2>1. /\ fixpc = "shell" /\ fixpc' = "check" /\ nth' = nth + 1 /\ idx' = 1
        /\ shells' = shells \cup {nth}
        /\ UNCHANGED <<facts, changes, arg, shell, exitcode, interfaces, passed>>
    BY <1>5 DEF ShellReturns, worldVars, argVars
  <2>2. nth \in 1..Len(interfaces)
    BY <1>0, <2>1 DEF ShellKnown
  <2>3. FixTypeOK'
    BY <1>0, <2>1, <2>2 DEF FixTypeOK
  <2>4. StoppersPassed'
    BY <1>0, <2>1, <2>2 DEF StoppersPassed, Cleared
  <2>5. NothingAhead'
    BY <1>0, <1>p, <2>1 DEF NothingAhead
  <2>6. StartKnown' /\ ShellKnown' /\ ExitKnown'
    BY <2>1 DEF StartKnown, ShellKnown, ExitKnown
  <2> QED  BY <2>3, <2>4, <2>5, <2>6
<1>6. CASE ShellFails
  <2>1. /\ fixpc = "shell" /\ fixpc' = "exit" /\ exitcode' = 1
        /\ UNCHANGED <<facts, changes, arg, shell, interfaces, nth, idx, passed, shells>>
    BY <1>6 DEF ShellFails, ExitWith, worldVars, argVars
  <2>2. FixTypeOK'
    BY <2>1 DEF FixTypeOK
  <2>3. StoppersPassed' /\ NothingAhead'
    BY <2>1 DEF StoppersPassed, NothingAhead, Cleared
  <2>4. StartKnown' /\ ShellKnown' /\ ExitKnown'
    BY <2>1 DEF StartKnown, ShellKnown, ExitKnown
  <2> QED  BY <2>2, <2>3, <2>4
<1>7. CASE NextInterface
  <2>1. /\ fixpc = "check" /\ nth <= Len(interfaces) /\ idx > Len(Checklist(interfaces[nth]))
        /\ nth' = nth + 1 /\ idx' = 1
        /\ UNCHANGED <<facts, changes, arg, shell, fixpc, exitcode, interfaces, passed, shells>>
    BY <1>7 DEF NextInterface, worldVars, argVars
  <2>2. Len(Checklist(interfaces[nth])) = 5
    BY Checks5, 1 \in 1..5
  <2>3. idx = 6 /\ nth \in 1..Len(interfaces)
    BY <1>0, <2>1, <2>2
  <2>4. FixTypeOK'
    BY <1>0, <2>1, <2>3 DEF FixTypeOK
  <2>5. StoppersPassed'
    <3>1. Cleared(nth) /\ \A j \in 1..(nth - 1) : Cleared(j)
      BY <2>3 DEF StoppersPassed, Cleared
    <3>2. \A j \in 1..nth : Cleared(j)
      BY <1>0, <2>3, <3>1
    <3>3. nth' - 1 = nth /\ ~(idx' > 4) /\ ~(idx' > 5)
      BY <1>0, <2>1
    <3>4. ASSUME NEW j \in 1..(nth' - 1) PROVE Cleared(j)'
      BY <2>1, <3>2, <3>3 DEF Cleared
    <3> QED  BY <3>3, <3>4 DEF StoppersPassed
  <2>6. NothingAhead'
    BY <1>0, <1>p, <2>1, <2>3 DEF NothingAhead
  <2>7. StartKnown' /\ ShellKnown' /\ ExitKnown'
    BY <2>1 DEF StartKnown, ShellKnown, ExitKnown
  <2> QED  BY <2>4, <2>5, <2>6, <2>7
<1>8. CASE Done
  <2>1. /\ fixpc = "check" /\ nth > Len(interfaces) /\ fixpc' = "exit" /\ exitcode' = 0
        /\ UNCHANGED <<facts, changes, arg, shell, interfaces, nth, idx, passed, shells>>
    BY <1>8 DEF Done, ExitWith, worldVars, argVars
  <2>2. FixTypeOK'
    BY <2>1 DEF FixTypeOK
  <2>3. StoppersPassed' /\ NothingAhead'
    BY <2>1 DEF StoppersPassed, NothingAhead, Cleared
  <2>4. StartKnown' /\ ShellKnown' /\ ExitKnown'
    BY <2>1 DEF StartKnown, ShellKnown, ExitKnown
  <2> QED  BY <2>2, <2>3, <2>4
<1>9. CASE Change
  <2>1. /\ changes < MaxChanges /\ changes' = changes + 1
        /\ UNCHANGED <<arg, shell, fixpc, exitcode, interfaces, nth, idx, passed, shells>>
    BY <1>9 DEF Change, argVars
  <2>2. facts' \subseteq Names \X Facts
    BY <1>9 DEF Change, FixTypeOK
  <2>3. changes' \in 0..MaxChanges
    BY <2>1, FixmynetbootAssumption DEF FixTypeOK
  <2>4. FixTypeOK'
    BY <2>1, <2>2, <2>3 DEF FixTypeOK
  <2>5. StoppersPassed' /\ NothingAhead'
    BY <2>1 DEF StoppersPassed, NothingAhead, Cleared
  <2>6. StartKnown' /\ ShellKnown' /\ ExitKnown'
    BY <2>1 DEF StartKnown, ShellKnown, ExitKnown
  <2> QED  BY <2>4, <2>5, <2>6
<1>10. CASE UNCHANGED fixVars
  <2>1. UNCHANGED <<facts, changes, arg, shell, fixpc, exitcode, interfaces, nth, idx, passed, shells>>
    BY <1>10 DEF fixVars, worldVars, argVars
  <2>2. FixTypeOK'
    BY <2>1 DEF FixTypeOK
  <2> QED
    BY <2>1, <2>2 DEF StoppersPassed, NothingAhead, Cleared, StartKnown, ShellKnown, ExitKnown
<1> QED
  BY <1>1, <1>2, <1>3, <1>4, <1>5, <1>6, <1>7, <1>8, <1>9, <1>10 DEF FixNext

LEMMA FixInvTrue == FixInv => ExitCodeIsTrue
<1> SUFFICES ASSUME FixInv, fixpc = "exit" PROVE ExitCodeIsTrue
  BY DEF ExitCodeIsTrue
<1>0. Len(interfaces) \in Nat /\ nth \in 1..(Len(interfaces) + 1) /\ idx \in 1..6
  BY FixNumbers DEF FixInv
<1>1. CASE exitcode = 0
  <2>1. nth = Len(interfaces) + 1
    BY <1>0, <1>1 DEF FixInv, ExitKnown
  <2> QED
    BY <1>0, <1>1, <2>1 DEF FixInv, StoppersPassed, Cleared, ExitCodeIsTrue
<1>2. CASE exitcode # 0
  <2>1. interfaces # <<>> => idx \in {1, 4, 5}
    BY <1>2 DEF FixInv, ExitKnown
  <2>2. <<nth, idx>> \notin passed
    BY <1>0 DEF FixInv, NothingAhead
  <2>3. \A j \in 1..(nth - 1) : Cleared(j)
    BY DEF FixInv, StoppersPassed
  <2> QED
    BY <1>2, <2>1, <2>2, <2>3 DEF ExitCodeIsTrue, Cleared
<1> QED  BY <1>1, <1>2

LEMMA FixAlwaysInv == FixSpec => []FixInv
  BY FixInitInv, FixNextInv, PTL DEF FixSpec

\* The local variables of fixmynetboot stay within the lists, and what passed or
\* was cleared belongs to an interface of the list.
THEOREM FixTypes == FixSpec => []FixTypeOK
<1>1. FixInv => FixTypeOK
  BY DEF FixInv
<1> QED  BY <1>1, FixAlwaysInv, PTL

\* After exit code 0 of fixmynetboot each interface had its addresses or an
\* operator has been in the shell; a run that ends with 1 stopped at a check that
\* stops, or had no list of interfaces.
THEOREM ExitCodesAreTrue == FixSpec => []ExitCodeIsTrue
  BY FixAlwaysInv, FixInvTrue, PTL
==============================================================================
