------------------------------- MODULE ZipConfig -------------------------------
(***************************************************************************)
(* bootconfig.FromZip: a boot file, a zip archive with a signature at its  *)
(* end, is read, verified with the public key file and unpacked, and its   *)
(* manifest decoded; and then Manifest.GetBootConfig.  Meanwhile keys are  *)
(* generated and boot files signed.  An archive is the sequence of its     *)
(* entries.  A signature is the key and what it was made for.              *)
(***************************************************************************)
EXTENDS KeyFiles

CONSTANTS
  Names,     \* the names of files and directories, manifestName among them
  manifestName,
  Outside,   \* any place outside the temporary directory
  Bodies,    \* contents of files
  Manifests, \* those that decode as a manifest
  Archives,  \* archives
  NotZip,    \* a file of at least 64 bytes that is no archive
  NoSig,     \* no signature is appended
  None,      \* nil
  MaxCalls,  \* bound on the calls of FromZip
  MaxSigned  \* bound on what is signed

\* An entry has a name as it stands in the archive, cut at its slashes; nothing
\* between two slashes counts as ".".  It is a directory if a slash ends it.
Entry == [name : Seq(Names \cup {".", ".."}), dir : BOOLEAN, body : Bodies]

ASSUME ZipConfigAssumption ==
  /\ Archives \subseteq Seq(Entry) /\ manifestName \in Names
  /\ {".", ".."} \cap Names = {} /\ Outside \notin Seq(Names)
  /\ NotZip \notin Archives /\ NoSig \notin (Keys \cup {OddKey}) \X (Archives \cup {NotZip})
  /\ Manifests \subseteq Bodies /\ None \notin Manifests /\ MaxCalls \in Nat /\ MaxSigned \in Nat

VARIABLES
  file,      \* the boot file [zip, sig]
  signed,    \* history: pairs <<key, archive>> that a signer has signed
  pc,        \* "idle"; "key", "verify", "unzip", "entry"; "panic"
  withKey,   \* whether the call got a public key file
  data,      \* local variable data
  pubkey,    \* local variable pubkey
  n,         \* the entry to extract
  manifest,  \* local variable manifest: None, or the body it was decoded from
  dirs,      \* the directories in tempDir, itself <<>>
  extracted, \* the files in tempDir and their contents
  result,    \* what the last call returned [manifest, files], None for an error
  calls,     \* calls so far
  left       \* temporary directories that failed calls have left behind

fileVars == <<file, signed>>
tempVars == <<dirs, extracted>>
callVars == <<withKey, data, pubkey, n, manifest, tempVars>>
vars == <<keyVars, fileVars, callVars, pc, result, calls, left>>

Init ==
  /\ KeyInit
  /\ file = [zip |-> NotZip, sig |-> NoSig] /\ signed = {}
  /\ pc = "idle" /\ withKey = FALSE /\ data = file /\ pubkey = None /\ n = 1
  /\ manifest = None /\ dirs = {} /\ extracted = {}
  /\ result = None /\ calls = 0 /\ left = 0

KeyStep ==
  GenerateStep /\ UNCHANGED <<fileVars, callVars, pc, result, calls, left>>

FileStep == UNCHANGED <<keyVars, callVars, pc, result, calls, left>>

\* An archive is signed with the private key file and appended to.
Sign ==
  /\ \E a \in Archives, pw \in Passwords : \E k \in LoadPrivateKey(pw) :
       file' = [zip |-> a, sig |-> <<k, a>>] /\ signed' = signed \cup {<<k, a>>}
  /\ Cardinality(signed') <= MaxSigned
  /\ FileStep

\* The boot file is replaced: no signature, or one made for something else.
Replace ==
  /\ \E a \in Archives \cup {NotZip} : file' \in [zip : {a}, sig : {NoSig, file.sig}]
  /\ UNCHANGED signed /\ FileStep
---------------------------------------------------------------------------
At(label) ==
  pc = label /\ UNCHANGED <<keyVars, fileVars, withKey, data, calls>>

\* An error before there is a temporary directory.
Fails == pc' = "idle" /\ UNCHANGED <<result, left, pubkey, n, manifest, tempVars>>

Continues(label) == pc' = label /\ UNCHANGED <<result, left, pubkey, n, manifest, tempVars>>

\* Without entries and signature it has 22 bytes, less than a signature.
Short(f) == f.zip = <<>> /\ f.sig = NoSig

\* FromZip reads the file.  It cuts the signature off before it looks at the
\* length: that panics for a short file.  The measurement of what was read,
\* whose result is ignored, is left out.
Call ==
  /\ pc = "idle" /\ calls < MaxCalls /\ calls' = calls + 1
  /\ data' = file /\ withKey' \in BOOLEAN /\ result' = None
  /\ pc' \in {IF ~withKey' THEN "unzip" ELSE IF Short(file) THEN "panic" ELSE "key", "idle"}
  /\ pubkey' = None /\ n' = 1 /\ manifest' = None /\ dirs' = {} /\ extracted' = {}
  /\ UNCHANGED <<keyVars, fileVars, left>>

\* Mutant: a file without a public key is not noticed.
LoadPublicKeyUnchecked ==
  /\ At("key") /\ pubkey' = pub /\ pc' = "verify"
  /\ UNCHANGED <<result, left, n, manifest, tempVars>>

LoadPublicKey ==
  /\ At("key")
  /\ \/ /\ pub # NoPem /\ pubkey' = pub /\ pc' = "verify"
        /\ UNCHANGED <<result, left, n, manifest, tempVars>>
     \/ Fails

\* Mutant: the signature is not compared with the content.
VerifiesKeyOnly == data.sig # NoSig /\ data.sig[1] = pubkey

Verifies == data.sig = <<pubkey, data.zip>>

\* ed25519.Verify, which panics when the key has not its length.
Verify ==
  /\ At("verify")
  /\ \/ Verifies /\ Continues("unzip")
     \/ pubkey = OddKey /\ Continues("panic")
     \/ ~Verifies /\ pubkey # OddKey /\ Fails

\* The archive is opened and a temporary directory made.
Unzip ==
  /\ At("unzip")
  /\ \/ /\ data.zip # NotZip /\ pc' = "entry" /\ dirs' = {<<>>}
        /\ UNCHANGED <<result, left, pubkey, n, manifest, extracted>>
     \/ Fails

Extracts == At("entry") /\ n <= Len(data.zip)
Goes == n' = n + 1 /\ UNCHANGED <<pc, result, left, pubkey>>

\* One step into a path below the temporary directory.  What has left it does
\* not come back: its name is random, and no archive can know it.
Enter(path, part) ==
  IF path = Outside \/ part = "." THEN path
  ELSE IF part # ".." THEN Append(path, part)
  ELSE IF path = <<>> THEN Outside ELSE Front(path)

\* path.Join(tempDir, f.Name), which cleans the name.
Destination(e) == FoldLeft(Enter, <<>>, e.name)

\* The places that the archives can write to, and the directories above them.
Destinations == (UNION {{Destination(a[j]) : j \in DOMAIN a} : a \in Archives}) \ {Outside}
UpTo(path) == {SubSeq(path, 1, k) : k \in 0..Len(path)}
Paths == UNION {UpTo(path) : path \in Destinations}

\* The empty name: an entry that is skipped.
Nameless(e) == e.name = <<>> /\ ~e.dir

SkipNameless ==
  /\ Extracts /\ Nameless(data.zip[n])
  /\ Goes /\ UNCHANGED <<manifest, tempVars>>

IsFile(path) == \E x \in extracted : x[1] = path

\* MkdirAll.  Nothing is known of what is outside.
MakeDir ==
  /\ Extracts
  /\ LET e == data.zip[n]  path == Destination(e)
     IN /\ e.dir /\ Goes
        /\ IF path = Outside THEN UNCHANGED dirs
           ELSE /\ \A above \in UpTo(path) : ~IsFile(above)
                /\ dirs' = dirs \cup UpTo(path)
  /\ UNCHANGED <<manifest, extracted>>

\* The name is compared as it stands in the archive.
IsManifest(e) == ~e.dir /\ e.name = <<manifestName>>

\* Mutant: the first manifest is kept.
DecodeFirst(e) == IF IsManifest(e) /\ manifest = None THEN e.body ELSE manifest

\* ManifestFromBytes: the last manifest wins.
Decode(e) == IF IsManifest(e) THEN e.body ELSE manifest

\* A file is written over an earlier one of the same path, in a directory that
\* is there already.
WriteFile ==
  /\ Extracts
  /\ LET e == data.zip[n]  path == Destination(e)
     IN /\ ~e.dir /\ ~Nameless(e) /\ Goes
        /\ IsManifest(e) => e.body \in Manifests
        /\ manifest' = Decode(e)
        /\ IF path = Outside THEN UNCHANGED extracted
           ELSE /\ path \notin dirs /\ Front(path) \in dirs
                /\ extracted' = {x \in extracted : x[1] # path} \cup {<<path, e.body>>}
  /\ UNCHANGED dirs

\* An entry that cannot be extracted, or an archive without a manifest.
ExtractionFails ==
  /\ At("entry") /\ IF n <= Len(data.zip) THEN ~Nameless(data.zip[n]) ELSE manifest = None
  /\ pc' = "idle" /\ left' = left + 1
  /\ UNCHANGED <<result, pubkey, n, manifest, tempVars>>

Returns ==
  /\ At("entry") /\ n > Len(data.zip) /\ manifest # None
  /\ pc' = "idle" /\ result' = [manifest |-> manifest, files |-> extracted]
  /\ UNCHANGED <<left, pubkey, n, manifest, tempVars>>

Next ==
  \/ KeyStep \/ Sign \/ Replace \/ Call \/ LoadPublicKey \/ Verify \/ Unzip
  \/ SkipNameless \/ MakeDir \/ WriteFile \/ ExtractionFails \/ Returns

Spec == Init /\ [][Next]_vars
---------------------------------------------------------------------------
BootFile == [zip : Archives \cup {NotZip}, sig : (Keys \X Archives) \cup {NoSig}]

\* Types of the variables.
TypeOK ==
  /\ priv \in PrivateFile \cup {NoPem} /\ pub \in Keys \cup {NoPem, OddKey}
  /\ gen \in {"idle", "private", "public"} /\ keys \in 0..MaxKeys
  /\ password \in Passwords /\ accident \in BOOLEAN
  /\ file \in BootFile /\ signed \subseteq Keys \X Archives
  /\ pc \in {"idle", "key", "verify", "unzip", "entry", "panic"}
  /\ withKey \in BOOLEAN /\ data \in BootFile /\ pubkey \in Keys \cup {OddKey, None}
  /\ n \in Nat \ {0} /\ manifest \in Manifests \cup {None}
  /\ dirs \subseteq Paths \cup {<<>>} /\ extracted \subseteq Destinations \X Bodies
  /\ calls \in 0..MaxCalls /\ left \in 0..calls

\* After a call of GeneratED25519Key that succeeded, and until the next one,
\* the two files are a pair, whatever became of earlier calls, and the private
\* one can be loaded with the password it was generated with
\* (pkg/crypto/ed25519.go:50-112).
FilesAreAPair ==
  gen = "idle" /\ ~accident =>
    pub = keys /\ priv # NoPem /\ LoadPrivateKey(password) = {pub}

\* With a public key file nothing of a boot file is decoded or unpacked, let
\* alone returned, that was not signed with its private key just as it is,
\* although keys and boot file may be replaced during the call
\* (pkg/bootconfig/zipconfig.go:43-78).
UnpacksOnlyWhatWasSigned ==
  withKey /\ (pc \in {"unzip", "entry"} \/ result # None)
    => <<pubkey, data.zip>> \in signed

\* The files that the first m entries leave in the temporary directory: of each
\* path the last one, whatever names it has in the archive.
Writes(e) == ~e.dir /\ ~Nameless(e) /\ Destination(e) # Outside
IsLastFile(z, m, j) ==
  /\ Writes(z[j])
  /\ \A k \in (j + 1)..m : Writes(z[k]) => Destination(z[k]) # Destination(z[j])
FilesOf(z, m) ==
  {<<Destination(z[j]), z[j].body>> : j \in {k \in 1..m : IsLastFile(z, m, k)}}

\* The last of the first m entries that is named manifest.json has this body.
LastManifest(z, m, body) ==
  \E j \in 1..m :
    /\ IsManifest(z[j]) /\ z[j].body = body
    /\ \A k \in (j + 1)..m : ~IsManifest(z[k])

\* What FromZip returns is complete: the directory holds the files of all
\* entries, of each path the last one, except those whose names lead out of it;
\* and the manifest is the last one named manifest.json.  The two need not
\* agree: under another name an entry may overwrite the file of the manifest,
\* and is not decoded (pkg/bootconfig/zipconfig.go:96-138).
ReturnsTheArchive ==
  result # None =>
    /\ result.files = FilesOf(data.zip, Len(data.zip))
    /\ LastManifest(data.zip, Len(data.zip), result.manifest)
================================================================================
