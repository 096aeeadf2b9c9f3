------------------------------- MODULE MCNetboot -------------------------------
(***************************************************************************)
(* A small instance of Netboot: up to two interfaces, two boot files, two  *)
(* good URLs, one of each bad kind, and command lines with every flag.     *)
(***************************************************************************)
EXTENDS Netboot

CONSTANTS body1, body2, fileURL, otherURL, dirURL, ftpURL

MCBodies == {body1, body2}
MCFileURLs == {fileURL, otherURL}
MCDirURLs == {dirURL}
MCOtherURLs == {ftpURL}

Default == [useV4 |-> FALSE, useV6 |-> TRUE, skipDHCP |-> FALSE, dryRun |-> FALSE,
            doFix |-> FALSE, overrideNetbootURL |-> NoURL]

MCCommandLines ==
  {Default,
   [Default EXCEPT !.useV4 = TRUE, !.doFix = TRUE],
   [Default EXCEPT !.useV4 = TRUE, !.dryRun = TRUE],
   [Default EXCEPT !.useV4 = TRUE, !.overrideNetbootURL = fileURL],
   [Default EXCEPT !.skipDHCP = TRUE],
   [Default EXCEPT !.skipDHCP = TRUE, !.overrideNetbootURL = fileURL],
   [Default EXCEPT !.useV6 = FALSE]}
==============================================================================
