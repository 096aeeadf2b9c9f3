-------------------------------- MODULE Storage --------------------------------
(***************************************************************************)
(* The list of block devices that pkg/storage makes from /sys, and the     *)
(* search in it for the file system that a UUID names.                     *)
(*                                                                         *)
(* What is on a device is a record: fields and numeric describe its stat   *)
(* file, opens says whether /dev/<name> can be read, vfat and ext4 are the *)
(* UUIDs in the two kinds of superblock on it, NoUuid without one.         *)
(***************************************************************************)
EXTENDS Naturals, Sequences, SequencesExt

CONSTANTS
  Sys,            \* names of the devices, in the order of /sys/class/block
  Uuids, NoUuid

SysDevices == Range(Sys)

MediaType == [fields  : Nat,
              numeric : BOOLEAN,
              opens   : BOOLEAN,
              vfat    : Uuids \cup {NoUuid},
              ext4    : Uuids \cup {NoUuid}]

ASSUME StorageAssumption ==
  Sys \in Seq(SysDevices) /\ NoUuid \notin Uuids

BlockDev == [name : SysDevices, uuid : Uuids \cup {NoUuid}]

\* A stat file parses when it has at least 11 numbers; kernels write 11 to 17.
BlockStatFromBytes(m) == m.fields >= 11 /\ m.numeric

\* Each of the two reads a magic number, compares it, and reads the UUID.  All
\* errors and another magic number give the empty string.
tryVFAT(m) == IF m.opens THEN m.vfat ELSE NoUuid
tryEXT4(m) == IF m.opens THEN m.ext4 ELSE NoUuid

getUUID(m) == IF tryVFAT(m) # NoUuid THEN tryVFAT(m) ELSE tryEXT4(m)

VARIABLES
  media,   \* what is on each device
  devices  \* blockdevs, the list that GetBlockStats makes

\* One turn of the loop of GetBlockStats.  It has no turn for a device whose
\* stat file is bad: the whole list is given up.
GetBlockStat(d) ==
  /\ BlockStatFromBytes(media[d])
  /\ devices' = Append(devices, [name |-> d, uuid |-> getUUID(media[d])])

\* The positions of the partitions found, in the list.
PartitionsByFsUUID(uuid) == {i \in 1..Len(devices) : devices[i].uuid = uuid}
================================================================================
