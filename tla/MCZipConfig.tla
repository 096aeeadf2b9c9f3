------------------------------ MODULE MCZipConfig ------------------------------
(* A small instance of ZipConfig: two key pairs, two calls, and archives    *)
(* with two manifests, without one, with a directory, with names that lead  *)
(* to one file or out of the directory, and none at all.                    *)
EXTENDS ZipConfig

CONSTANTS kernel, boot, m1, m2, garbage, keins

MCNames == {"manifest.json", kernel, boot}
MCPasswords == {NoPassword, keins}
MCBodies == {m1, m2, garbage}
MCManifests == {m1, m2}

File(name, body) == [name |-> name, dir |-> FALSE, body |-> body]
Dir(name) == [name |-> name, dir |-> TRUE, body |-> garbage]
Manifest(body) == File(<<"manifest.json">>, body)

MCArchives ==
  {<<>>, <<Manifest(garbage), File(<<boot, kernel>>, garbage)>>,
   <<Dir(<<kernel, "..", boot>>), Manifest(m1), File(<<>>, garbage),
     File(<<boot, kernel>>, garbage), Manifest(m2), File(<<"..", kernel>>, garbage),
     File(<<boot, "..", ".", "manifest.json">>, m1), Dir(<<"..", boot>>)>>}
================================================================================
