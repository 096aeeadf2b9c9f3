---------------------------- MODULE MCFixmynetboot ----------------------------
(* A small instance of Fixmynetboot: two interfaces, each there or not, and *)
(* runs for all of them or for the second one alone.                       *)
EXTENDS Fixmynetboot

CONSTANTS eth1

MCIfaces == {eth0, eth1}
MCArguments == {NoIface, eth1}
================================================================================
