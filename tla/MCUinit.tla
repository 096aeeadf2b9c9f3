-------------------------------- MODULE MCUinit --------------------------------
(***************************************************************************)
(* A small instance of Uinit: three slots, with entries of every booter,   *)
(* one with an unknown method, one damaged, and one slot in both stores.   *)
(***************************************************************************)
EXTENDS Uinit

CONSTANTS mac, url, guid, vmlinuz

MCStrings == {mac, url, guid, vmlinuz}

Entry == [type |-> "localboot", method |-> "grub", mac |-> None, override_url |-> None,
          retries |-> None, debug_on_failure |-> FALSE,
          device_guid |-> None, kernel |-> None, ramfs |-> None]
GrubEntry == [Entry EXCEPT !.device_guid = guid]
PathEntry == [Entry EXCEPT !.method = "path", !.device_guid = guid, !.kernel = vmlinuz]
NetEntry == [Entry EXCEPT !.type = "netboot", !.method = "dhcpv4", !.mac = mac]
SlaacEntry == [NetEntry EXCEPT !.method = "slaac", !.override_url = url]

MCInitialRW ==
  {<<Absent, Absent, Absent>>, <<Absent, GrubEntry, NetEntry>>, <<SlaacEntry, Garbage, Absent>>,
   <<[Entry EXCEPT !.type = "other"], Absent, PathEntry>>}
MCInitialRO == {<<Absent, Absent, Absent>>, <<Absent, PathEntry, NetEntry>>}

\* A triple of values as the contents of slots 0, 1 and 2.
Store(t) == [s \in Slots |-> t[s + 1]]
MCRW == {Store(t) : t \in MCInitialRW}
MCRO == {Store(t) : t \in MCInitialRO}
==============================================================================
