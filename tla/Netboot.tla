-------------------------------- MODULE Netboot --------------------------------
(***************************************************************************)
(* The netboot command (netboot/main.go): over the network interfaces, and *)
(* over DHCPv6 and DHCPv4 on each, it obtains a boot file URL, downloads   *)
(* it, and kexecs the result.  The process is sequential; the network, the *)
(* DHCP and HTTP servers and the kernel answer as they like, late, wrongly *)
(* or never.                                                               *)
(***************************************************************************)
EXTENDS Kexec, Naturals, Sequences, FiniteSets

CONSTANTS
  NoFile, Torn,      \* a file that does not exist, or that was half written
  Bodies,            \* what an HTTP server can serve as a boot file
  FileURLs,          \* http and https URLs that end in a file name
  DirURLs,           \* http and https URLs that end in "/" or have no path
  OtherURLs,         \* strings that are not http or https URLs
  NoURL,             \* the empty string
  CommandLines,      \* the flags netboot is started with
  MaxInterfaces,     \* bound on the number of network interfaces
  maxHTTPAttempts    \* main.go:47

URLs == FileURLs \cup DirURLs \cup OtherURLs

CommandLineType ==
  [useV4 : BOOLEAN, useV6 : BOOLEAN, skipDHCP : BOOLEAN, dryRun : BOOLEAN,
   doFix : BOOLEAN, overrideNetbootURL : URLs \cup {NoURL}]

ASSUME NetbootAssumption ==
  /\ CommandLines \subseteq CommandLineType
  /\ NoImage \notin Bodies /\ NoFile \notin Bodies /\ Torn \notin Bodies
  /\ NoURL \notin URLs /\ DirURLs \cap OtherURLs = {}
  /\ FileURLs \cap DirURLs = {} /\ FileURLs \cap OtherURLs = {}
  /\ MaxInterfaces \in Nat /\ maxHTTPAttempts \in Nat \ {0}

VARIABLES
  pc,         \* where the process stands
  flags,      \* its command line
  iflist,     \* number of interfaces in iflist
  iface,      \* loop index over them, from 1
  proto,      \* loop index over the protocols, from 1
  bootfile,   \* local variable bootfile of boot()
  attempt,    \* local variable attempt
  resp,       \* local variable resp: its status code, or "nil"
  body,       \* local variable body
  file,       \* content of the saved boot file
  configured, \* the interfaces whose addresses were changed
  code,       \* exit code: 0 while running, 1 by os.Exit, 2 by panic
  unclosed,   \* history: HTTP response bodies that were not closed
  tried,      \* history: <<iface, proto>> for which boot() was called
  down,       \* history: interfaces that did not come up
  origin,     \* history: the URL and the status body was read with
  measured,   \* history: what this call of boot() extended PCR 8 with
  lost,       \* history: what it should have measured, and could not
  fixed       \* history: fixmynetboot was run for the latest failure

envVars == <<flags, iflist>>
loopVars == <<iface, proto, tried, down>>
bootVars == <<bootfile, attempt, resp, body, origin, measured, lost>>
sideVars == <<file, configured>>
vars == <<kexecVars, pc, code, fixed, unclosed, envVars, loopVars, bootVars, sideVars>>

---------------------------------------------------------------------------
Protocols(f) == (IF f.useV6 THEN <<"dhcp6">> ELSE <<>>)
                  \o (IF f.useV4 THEN <<"dhcp4">> ELSE <<>>)

Init ==
  /\ image \in {NoImage} \cup Bodies  \* an earlier boot command may have loaded one
  /\ running = NoImage /\ fresh = FALSE
  /\ pc = "start" /\ code = 0 /\ fixed = FALSE /\ unclosed = 0
  /\ flags \in CommandLines /\ iflist \in 0..MaxInterfaces
  /\ iface = 1 /\ proto = 1 /\ tried = {} /\ down = {}
  /\ bootfile = NoURL /\ attempt = 0 /\ resp = "nil" /\ body = NoFile
  /\ origin = <<NoURL, "nil">> /\ measured = {} /\ lost = {}
  /\ file = NoFile /\ configured = {}

At(label) == FirmwareRuns /\ pc = label

Exit(c) == pc' = "exit" /\ code' = c

\* Mutant: the other protocol is not tried.
AdvanceSkipping == pc' = "ifup" /\ proto' = 1 /\ iface' = iface + 1

\* main goes on to the next protocol, or the next interface.
Advance ==
  IF proto < Len(Protocols(flags))
  THEN pc' = "dhcp" /\ proto' = proto + 1 /\ UNCHANGED iface
  ELSE pc' = "ifup" /\ proto' = 1 /\ iface' = iface + 1

\* boot() returns nil, or an error, with which main runs fixmynetboot first
\* if it was told to.
BootReturns == Advance /\ fixed' = FALSE
BootFails ==
  IF flags.doFix THEN pc' = "fix" /\ fixed' = FALSE /\ UNCHANGED <<iface, proto>>
  ELSE BootReturns

---------------------------------------------------------------------------
\* main: inconsistent flags and an interface that is not found are fatal.
CheckFlags ==
  /\ At("start")
  /\ \/ /\ flags.skipDHCP => flags.overrideNetbootURL # NoURL
        /\ flags.useV6 \/ flags.useV4
        /\ pc' = "ifup" /\ UNCHANGED code
     \/ Exit(1)
  /\ UNCHANGED <<kexecVars, fixed, unclosed, envVars, loopVars, bootVars, sideVars>>

\* An interface that does not come up in ten seconds is skipped.
IfUp ==
  /\ At("ifup") /\ iface <= iflist
  /\ \/ pc' = "dhcp" /\ UNCHANGED <<iface, down>>
     \/ iface' = iface + 1 /\ down' = down \cup {iface} /\ UNCHANGED pc
  /\ UNCHANGED <<kexecVars, code, fixed, unclosed, envVars, proto, tried, bootVars, sideVars>>

\* Mutant: it starts over.
GiveUpNever ==
  /\ At("ifup") /\ iface > iflist
  /\ iface' = 1
  /\ UNCHANGED <<kexecVars, pc, code, fixed, unclosed, envVars, proto, tried, down, bootVars,
                 sideVars>>

GiveUp ==
  /\ At("ifup") /\ iface > iflist
  /\ Exit(1)
  /\ UNCHANGED <<kexecVars, fixed, unclosed, envVars, loopVars, bootVars, sideVars>>

\* Mutant: the URL of the lease wins.
OverrideIgnored(leased) == IF leased # NoURL THEN leased ELSE flags.overrideNetbootURL

\* The URL given on the command line wins over the one leased.
Override(leased) ==
  IF flags.overrideNetbootURL # NoURL THEN flags.overrideNetbootURL ELSE leased

Configures == ~flags.skipDHCP /\ ~flags.dryRun

\* boot() starts: the lease gives addresses and a URL.  ConfigureInterface
\* may have changed the interface even when it reports an error.
Lease ==
  /\ At("dhcp")
  /\ tried' = tried \cup {<<iface, proto>>}
  /\ fresh' = FALSE /\ measured' = {} /\ lost' = {}
  /\ resp' = "nil" /\ attempt' = 0 /\ body' = NoFile /\ origin' = <<NoURL, "nil">>
  /\ configured' \in {configured} \cup
       (IF Configures THEN {configured \cup {iface}} ELSE {})
  /\ \/ /\ \E leased \in IF flags.skipDHCP THEN {NoURL} ELSE URLs \cup {NoURL} :
             bootfile' = Override(leased)
        /\ Configures => iface \in configured'
        /\ pc' = "url" /\ UNCHANGED <<iface, proto, fixed>>
     \/ ~flags.skipDHCP /\ bootfile' = NoURL /\ BootFails
  /\ UNCHANGED <<image, running, code, unclosed, envVars, down, file>>

\* getScheme, and getClientForBootfile, which reads the CA certificates.
CheckURL ==
  /\ At("url")
  /\ \/ bootfile \in FileURLs \cup DirURLs /\ pc' = "get" /\ UNCHANGED <<iface, proto, fixed>>
     \/ BootFails
  /\ UNCHANGED <<kexecVars, code, unclosed, envVars, tried, down, bootVars, sideVars>>

\* Mutant: off by one.
GetOnceMore ==
  /\ At("get")
  /\ pc' = IF attempt <= maxHTTPAttempts THEN "waiting" ELSE "status"
  /\ UNCHANGED <<kexecVars, code, fixed, unclosed, envVars, loopVars, bootVars, sideVars>>

\* The loop over attempts.  Without a break it falls through to the check of
\* the last response, which may be nil.
Get ==
  /\ At("get")
  /\ pc' = IF attempt < maxHTTPAttempts THEN "waiting" ELSE "status"
  /\ UNCHANGED <<kexecVars, code, fixed, unclosed, envVars, loopVars, bootVars, sideVars>>

Retryable(status) == status \in {"500", "502"}

\* client.Do returns: a response, a timeout, or another error.
Answer ==
  /\ At("waiting")
  /\ \/ \E status \in {"200", "404", "500", "502"} :
          /\ resp' = status /\ unclosed' = unclosed + 1
          /\ IF Retryable(status) THEN pc' = "get" /\ attempt' = attempt + 1
             ELSE pc' = "status" /\ UNCHANGED attempt
          /\ UNCHANGED <<iface, proto, fixed>>
     \/ /\ resp' = "nil" /\ pc' = "get" /\ attempt' = attempt + 1
        /\ UNCHANGED <<iface, proto, fixed, unclosed>>
     \/ /\ resp' = "nil" /\ BootFails
        /\ UNCHANGED <<attempt, unclosed>>
  /\ UNCHANGED <<kexecVars, code, envVars, tried, down, bootfile, body, origin,
                 measured, lost, sideVars>>

\* defer resp.Body.Close(), which does not survive a nil response.
CheckStatus ==
  /\ At("status")
  /\ \/ resp = "nil" /\ Exit(2) /\ UNCHANGED <<iface, proto, fixed, unclosed>>
     \/ resp = "200" /\ pc' = "read" /\ UNCHANGED <<code, iface, proto, fixed, unclosed>>
     \/ resp \notin {"nil", "200"} /\ BootFails /\ unclosed' = unclosed - 1 /\ UNCHANGED code
  /\ UNCHANGED <<kexecVars, envVars, tried, down, bootVars, sideVars>>

\* Mutant: the body stays open on the way out.
FailsWithoutClosing == BootFails /\ UNCHANGED unclosed

\* From here on every return of boot() closes the body.
FailsAndCloses == BootFails /\ unclosed' = unclosed - 1

\* Mutant: what the variable held before is measured.
MeasurePrevious(b) ==
  \/ measured' = {body} \ {NoFile} /\ UNCHANGED lost
  \/ lost' = {body} \ {NoFile} /\ UNCHANGED measured

\* TryMeasureData.  That the TPM does not open is only logged, and that it
\* fails to extend the register is not even noticed.
Measure(b) ==
  \/ measured' = {b} /\ UNCHANGED lost
  \/ lost' = {b} /\ UNCHANGED measured

\* The whole body is read into memory and measured.
Read ==
  /\ At("read")
  /\ \/ /\ \E b \in Bodies : body' = b /\ Measure(b)
        /\ origin' = <<bootfile, resp>>
        /\ pc' = "save" /\ UNCHANGED <<iface, proto, fixed, unclosed>>
     \/ FailsAndCloses /\ UNCHANGED <<body, origin, measured, lost>>
  /\ UNCHANGED <<kexecVars, code, envVars, tried, down, bootfile, attempt, resp, sideVars>>

\* The file is truncated before it is written.  A dry run ends here.
Save ==
  /\ At("save")
  /\ \/ /\ bootfile \in FileURLs /\ file' = body
        /\ IF flags.dryRun THEN BootReturns /\ unclosed' = unclosed - 1
           ELSE pc' = "load" /\ UNCHANGED <<iface, proto, fixed, unclosed>>
     \/ /\ file' \in IF bootfile \in FileURLs THEN {file, Torn} ELSE {file}
        /\ FailsAndCloses
  /\ UNCHANGED <<kexecVars, code, envVars, tried, down, bootVars, configured>>

\* Mutant: the error of kexec.FileLoad is ignored.
LoadIgnoringErrors ==
  /\ At("load") /\ pc' = "reboot"
  /\ LoadImage(file) \/ UNCHANGED kexecVars
  /\ UNCHANGED <<iface, proto, fixed, unclosed, code, envVars, tried, down, bootVars, sideVars>>

Load ==
  /\ At("load")
  /\ \/ LoadImage(file) /\ pc' = "reboot" /\ UNCHANGED <<iface, proto, fixed, unclosed>>
     \/ FailsAndCloses /\ UNCHANGED kexecVars
  /\ UNCHANGED <<code, envVars, tried, down, bootVars, sideVars>>

\* kexec.Reboot may also return without an error; boot() then returns nil.
Reboot ==
  /\ At("reboot")
  /\ \/ RebootInto /\ UNCHANGED <<pc, iface, proto, fixed, unclosed>>
     \/ /\ FailsAndCloses \/ (BootReturns /\ unclosed' = unclosed - 1)
        /\ UNCHANGED kexecVars
  /\ UNCHANGED <<code, envVars, tried, down, bootVars, sideVars>>

\* fixmynetboot: when it fails, so does netboot.
Fix ==
  /\ At("fix") /\ fixed' = TRUE
  /\ \/ Advance /\ UNCHANGED code
     \/ Exit(1) /\ UNCHANGED <<iface, proto>>
  /\ UNCHANGED <<kexecVars, unclosed, envVars, tried, down, bootVars, sideVars>>

\* What goes on by itself, and what waits for an HTTP server: the client has
\* no timeout.
Local == \/ CheckFlags \/ IfUp \/ GiveUp \/ Lease \/ CheckURL \/ Get \/ CheckStatus
         \/ Save \/ Load \/ Reboot \/ Fix
Remote == Answer \/ Read

Next == Local \/ Remote

Spec == Init /\ [][Next]_vars /\ WF_vars(Local)
---------------------------------------------------------------------------
\* Types of the variables.
TypeOK ==
  /\ image \in Bodies \cup {NoImage} /\ running \in Bodies \cup {NoImage} /\ fresh \in BOOLEAN
  /\ pc \in {"start", "ifup", "dhcp", "url", "get", "waiting", "status", "read", "save",
             "load", "reboot", "fix", "exit"}
  /\ flags \in CommandLines /\ iflist \in 0..MaxInterfaces
  /\ iface \in 1..(iflist + 1) /\ proto \in {1, 2}
  /\ bootfile \in URLs \cup {NoURL} /\ attempt \in 0..maxHTTPAttempts
  /\ resp \in {"nil", "200", "404", "500", "502"}
  /\ body \in Bodies \cup {NoFile} /\ file \in Bodies \cup {NoFile, Torn}
  /\ configured \subseteq 1..iflist /\ code \in 0..2 /\ unclosed \in Nat
  /\ tried \subseteq (1..iflist) \X {1, 2} /\ down \subseteq 1..iflist
  /\ origin \in (URLs \cup {NoURL}) \X {"nil", "200", "404", "500", "502"}
  /\ measured \subseteq Bodies /\ lost \subseteq Bodies /\ fixed \in BOOLEAN

\* What runs was read completely from a 200 answer of the URL in force, the
\* one of -netboot-url if it is given, and written completely to the file
\* that was loaded, in this call of boot(): not left over from an earlier
\* protocol, interface or boot command (netboot/main.go:180-253).
RunsOnlyAGoodDownload ==
  running # NoImage =>
    /\ running = body /\ fresh
    /\ origin = <<bootfile, "200">> /\ bootfile \in FileURLs
    /\ flags.overrideNetbootURL \in {NoURL, bootfile}

\* What runs was handed to the TPM in this call of boot(), before it was
\* loaded: it was measured, unless the TPM could not be opened or failed for
\* this very body (netboot/main.go:225, measure.go:21-31).
MeasuredUnlessLost == running # NoImage => running \in measured \cup lost

\* A dry run neither assigns addresses nor changes what the kernel would
\* kexec (netboot/main.go:33, 169, 242).
DryRunTouchesNothing ==
  flags.dryRun => configured = {} /\ ~fresh /\ running = NoImage

\* Every protocol of every interface that came up gets its turn, in order:
\* before boot() is called for one, it was called for the earlier protocols of
\* that interface and for all those of the earlier interfaces, whatever became
\* of these calls and of the fixmynetboot after them; and main gives up past
\* the last interface only when none is left (netboot/main.go:94-128).
TriesEverythingInOrder ==
  LET Done(i) == i \in down \/ {i} \X (1..Len(Protocols(flags))) \subseteq tried
  IN /\ \A e \in tried : /\ {e[1]} \X (1..e[2]) \subseteq tried
                         /\ \A j \in 1..(e[1] - 1) : Done(j)
     /\ code = 1 /\ iface > iflist => \A i \in 1..iflist : Done(i)

\* The response bodies that stay open are those of answers that were retried:
\* at most maxHTTPAttempts - 1 for each finished call of boot(), and one more
\* in the call that is in progress (netboot/main.go:200-217).
UnclosedBound ==
  unclosed <= (maxHTTPAttempts - 1) * Cardinality(tried) + 1

\* With HTTP servers that always answer in the end, netboot comes to an end:
\* it never goes round in its own loops (netboot/main.go:94-128, 200-215).
EndsWhenAnswered == WF_vars(Remote) => <>(pc = "exit" \/ running # NoImage)

\* netboot is a boot command as uinit expects it.
Command == INSTANCE BootCommand WITH
  Images <- Bodies, status <- IF pc = "exit" THEN "idle" ELSE "running"
IsABootCommand == Command!CommandSpec

---------------------------------------------------------------------------
\* "Try to run fixmynetboot if netboot fails", netboot/main.go:42: whenever
\* netboot with -fix has ended a call of boot() in a failure, and so ends
\* without having booted, it has run fixmynetboot.
FixRunsOnFailure == code = 2 /\ flags.doFix => fixed
==============================================================================
