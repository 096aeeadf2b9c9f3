-------------------------------- MODULE Booters --------------------------------
(***************************************************************************)
(* pkg/booter: what a boot entry of the VPD means.  A value of the store   *)
(* is the JSON object it decodes to, or Garbage when it is not the JSON of *)
(* a boot entry (an empty or half-written file is not).  A command is the  *)
(* command line, decoded by the flags of netboot or localboot.             *)
(***************************************************************************)
EXTENDS Integers, Sequences, FiniteSets

CONSTANTS
  Absent,    \* no such variable in the VPD
  Garbage,   \* a value that is no boot entry
  None,      \* an empty or omitted string
  Strings,   \* MACs, URLs, GUIDs and paths
  MaxBootEntry   \* vpd.go:14; bounded to keep instances small

\* The keys Boot0000 .. of GetBootEntries.
Slots == 0..(MaxBootEntry - 1)

Text == Strings \cup {None}

\* The union of NetBooter and LocalBooter, with None for what is omitted.
\* kernel_args is left out: it is passed on like ramfs.
Entries ==
  [type : {"netboot", "localboot", "other"},
   method : {"dhcpv4", "dhcpv6", "slaac", "grub", "path"},
   mac : Text, override_url : Text, retries : Int \cup {None}, debug_on_failure : BOOLEAN,
   device_guid : Text, kernel : Text, ramfs : Text]

Values == Entries \cup {Garbage}

ASSUME BootersAssumption ==
  /\ None \notin Strings /\ None \notin Int
  /\ Absent \notin Values /\ Garbage \notin Entries /\ None \notin Entries
  /\ MaxBootEntry \in Nat \ {0}

Commands ==
  [program : {"netboot"}, useV6 : BOOLEAN, useV4 : BOOLEAN, interface : Text,
   skipDHCP : BOOLEAN, overrideNetbootURL : Text, dhcpRetries : Int, doFix : BOOLEAN]
  \cup
  [program : {"localboot"}, grub : BOOLEAN, kernel : Text, guid : Text, initramfs : Text]

---------------------------------------------------------------------------
\* GetBooterFor: the parsers are tried in order; each rejects what does not
\* decode and what has another type.
GetBooterFor(v) ==
  IF v # Garbage /\ v.type \in {"netboot", "localboot"} THEN v.type ELSE "null"

\* NetBooter.Boot: the command it runs, or None for an unknown method.  The
\* flags it does not give keep netboot's defaults.
NetbootCommand(v) ==
  IF v.method \notin {"dhcpv4", "dhcpv6"} THEN None
  ELSE [program |-> "netboot",
        useV6 |-> v.method = "dhcpv6", useV4 |-> v.method = "dhcpv4",
        interface |-> None, skipDHCP |-> FALSE,
        overrideNetbootURL |-> v.override_url,
        dhcpRetries |-> IF v.retries = None THEN 3 ELSE v.retries,
        doFix |-> v.debug_on_failure]

\* LocalBooter.Boot.
LocalbootCommand(v) ==
  IF v.method \notin {"grub", "path"} THEN None
  ELSE LET path(field) == IF v.method = "path" THEN field ELSE None
       IN [program |-> "localboot", grub |-> v.method = "grub",
           kernel |-> path(v.kernel), guid |-> path(v.device_guid),
           initramfs |-> path(v.ramfs)]

\* What Boot of an entry executes.  The NullBooter executes nothing.
CommandOf(v) ==
  IF GetBooterFor(v) = "netboot" THEN NetbootCommand(v)
  ELSE IF GetBooterFor(v) = "localboot" THEN LocalbootCommand(v)
  ELSE None
==============================================================================
