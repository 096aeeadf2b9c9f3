--------------------------- MODULE MCVpdBootManager ---------------------------
(***************************************************************************)
(* A small instance of VpdBootManager: two processes at a time, three in   *)
(* all, four slots, and initial contents with a gap, with a read-only      *)
(* entry and with a damaged one.                                           *)
(***************************************************************************)
EXTENDS VpdBootManager

CONSTANTS mac, url, guid, vmlinuz

MCStrings == {mac, url, guid, vmlinuz}

Empty == [s \in Slots |-> Absent]
GrubEntry == [type |-> "localboot", method |-> "grub", mac |-> None, override_url |-> None,
              retries |-> None, debug_on_failure |-> FALSE,
              device_guid |-> None, kernel |-> None, ramfs |-> None]

MCInitialRW == {Empty, [Empty EXCEPT ![2] = GrubEntry], [Empty EXCEPT ![1] = Garbage]}
MCInitialRO == {Empty, [Empty EXCEPT ![1] = GrubEntry]}

NetArgs == [type |-> "netboot", method |-> "dhcpv6", mac |-> mac, validMAC |-> TRUE,
            override_url |-> None, retries |-> -1, guid |-> None, kernel |-> None,
            ramfs |-> None, dryrun |-> FALSE, elsewhere |-> FALSE]
PathArgs == [NetArgs EXCEPT !.type = "localboot", !.method = "path", !.guid = guid,
                            !.kernel = vmlinuz]

MCArgs ==
  {NetArgs, [NetArgs EXCEPT !.method = "dhcpv4", !.override_url = url, !.retries = 0],
   [NetArgs EXCEPT !.method = "slaac", !.override_url = url],
   PathArgs, [PathArgs EXCEPT !.method = "grub"], [PathArgs EXCEPT !.dryrun = TRUE],
   [PathArgs EXCEPT !.elsewhere = TRUE]}
==============================================================================
