------------------------------ MODULE BootCommand ------------------------------
(***************************************************************************)
(* What uinit relies on when it runs a boot command, netboot or localboot: *)
(* the command may load images, reboots only into one that it has loaded   *)
(* itself in its latest attempt, and otherwise comes back without success  *)
(* or does not come back at all.  Netboot and Localboot implement it.      *)
(***************************************************************************)
EXTENDS Kexec

CONSTANT Images   \* the images a boot command may load

VARIABLE status   \* "idle" between two commands, "running" during one

commandVars == <<kexecVars, status>>

CommandInit ==
  /\ image \in Images \cup {NoImage} /\ running = NoImage /\ fresh = FALSE
  /\ status \in {"idle", "running"}

Active == FirmwareRuns /\ status = "running"

StartCommand ==
  /\ FirmwareRuns /\ status = "idle"
  /\ status' = "running" /\ fresh' = FALSE
  /\ UNCHANGED <<image, running>>

\* The command turns to another configuration, protocol or interface.
Attempt ==
  /\ Active /\ fresh' = FALSE
  /\ UNCHANGED <<image, running, status>>

Load ==
  /\ Active /\ \E img \in Images : LoadImage(img)
  /\ UNCHANGED status

KexecReboot ==
  /\ Active /\ fresh /\ RebootInto
  /\ UNCHANGED status

EndCommand ==
  /\ Active /\ status' = "idle"
  /\ UNCHANGED kexecVars

CommandStep == Attempt \/ Load \/ KexecReboot \/ EndCommand

CommandNext == StartCommand \/ CommandStep

CommandSpec == CommandInit /\ [][CommandNext]_commandVars
==============================================================================
