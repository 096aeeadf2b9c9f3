----------------------------- MODULE ZipConfigProofs -----------------------------
(***************************************************************************)
(* For any archives, keys and order of steps: FromZip unpacks only what    *)
(* was signed and returns all of it, and a pair of key files that was      *)
(* written without an error is a pair.                                     *)
(***************************************************************************)
EXTENDS ZipConfig, TLAPS

\* The private key file is that of the last call.
PrivIsCurrent ==
  /\ priv \in PrivateFile /\ priv.key = keys
  /\ priv.encrypted => priv.password = password

\* What is known of the two files, by the step of GeneratED25519Key.
KeyKnown ==
  /\ gen # "idle" => accident /\ keys \in Keys
  /\ gen = "public" => PrivIsCurrent
  /\ ~accident => gen = "idle" /\ pub = keys /\ keys \in Keys /\ PrivIsCurrent

\* Every signature there is has been made by a signer.
SigsSigned ==
  /\ file.sig # NoSig => file.sig \in signed
  /\ data.sig # NoSig => data.sig \in signed

\* The local variables of FromZip, by its step.
CallKnown ==
  /\ pc # "idle" => result = None /\ left < calls
  /\ pc = "verify" => pubkey \in Keys \cup {OddKey}
  /\ pc = "entry" => data.zip \in Archives
  /\ pc \in {"key", "verify", "unzip"} => n = 1 /\ manifest = None /\ extracted = {}

\* What has been extracted: the files of the entries so far.
ExtractedKnown ==
  pc = "entry" =>
    /\ n \in 1..(Len(data.zip) + 1)
    /\ extracted = FilesOf(data.zip, n - 1)
    /\ manifest # None => LastManifest(data.zip, n - 1, manifest)

Inv ==
  /\ TypeOK /\ KeyKnown /\ SigsSigned /\ CallKnown /\ ExtractedKnown
  /\ UnpacksOnlyWhatWasSigned /\ ReturnsTheArchive
---------------------------------------------------------------------------
\* An archive has a length.
LEMMA ArchiveLength == ASSUME NEW z \in Archives PROVE Len(z) \in Nat
<1>1. z \in Seq(Entry)
  BY ZipConfigAssumption
<1> QED  BY <1>1

\* The entries of an archive.
LEMMA EntryType ==
  ASSUME NEW z \in Archives, NEW j \in 1..Len(z)
  PROVE  z[j].body \in Bodies /\ Destination(z[j]) \in Destinations \cup {Outside}
<1>1. z \in Seq(Entry)
  BY ZipConfigAssumption
<1>2. z[j] \in Entry /\ j \in DOMAIN z
  BY <1>1
<1>3. Destination(z[j]) \in {Destination(z[k]) : k \in DOMAIN z}
  BY <1>2
<1> QED  BY <1>2, <1>3 DEF Entry, Destinations

\* An entry that writes nothing in the directory adds no file.
LEMMA NoFileAdded ==
  ASSUME NEW z \in Archives, NEW m \in 1..Len(z), ~Writes(z[m])
  PROVE  FilesOf(z, m) = FilesOf(z, m - 1)
<1>z. Len(z) \in Nat
  BY ArchiveLength
<1>0. m \in Nat \ {0} /\ m - 1 \in Nat
  BY <1>z
<1>1. ASSUME NEW j \in 1..(m - 1)
      PROVE  IsLastFile(z, m, j) <=> IsLastFile(z, m - 1, j)
  <2>1. \A k \in (j + 1)..m : k \in (j + 1)..(m - 1) \/ k = m
    BY <1>0
  <2>2. \A k \in (j + 1)..(m - 1) : k \in (j + 1)..m
    BY <1>0
  <2> QED  BY <2>1, <2>2 DEF IsLastFile
<1>2. ~IsLastFile(z, m, m)
  BY DEF IsLastFile
<1>3. \A j \in 1..m : j \in 1..(m - 1) \/ j = m
  BY <1>0
<1>4. \A j \in 1..(m - 1) : j \in 1..m
  BY <1>0
<1>5. {k \in 1..m : IsLastFile(z, m, k)} = {k \in 1..(m - 1) : IsLastFile(z, m - 1, k)}
  BY <1>1, <1>2, <1>3, <1>4
<1> QED  BY <1>5 DEF FilesOf

\* A file takes the place of the one with its path.
LEMMA FileAdded ==
  ASSUME NEW z \in Archives, NEW m \in 1..Len(z), Writes(z[m])
  PROVE  FilesOf(z, m) =
           {x \in FilesOf(z, m - 1) : x[1] # Destination(z[m])}
             \cup {<<Destination(z[m]), z[m].body>>}
<1>z. Len(z) \in Nat
  BY ArchiveLength
<1>0. m \in Nat \ {0} /\ m - 1 \in Nat
  BY <1>z
<1>1. IsLastFile(z, m, m)
  BY <1>0 DEF IsLastFile
<1>2. ASSUME NEW j \in 1..(m - 1)
      PROVE  IsLastFile(z, m, j) <=>
               IsLastFile(z, m - 1, j) /\ Destination(z[j]) # Destination(z[m])
  <2>1. \A k \in (j + 1)..m : k \in (j + 1)..(m - 1) \/ k = m
    BY <1>0
  <2>2. m \in (j + 1)..m /\ \A k \in (j + 1)..(m - 1) : k \in (j + 1)..m
    BY <1>0
  <2> QED  BY <2>1, <2>2 DEF IsLastFile
<1>3. \A j \in 1..m : j \in 1..(m - 1) \/ j = m
  BY <1>0
<1>4. \A j \in 1..(m - 1) : j \in 1..m
  BY <1>0
<1> DEFINE R == {x \in FilesOf(z, m - 1) : x[1] # Destination(z[m])}
                  \cup {<<Destination(z[m]), z[m].body>>}
<1>5. ASSUME NEW x \in FilesOf(z, m) PROVE x \in R
  <2>1. PICK j \in 1..m : IsLastFile(z, m, j) /\ x = <<Destination(z[j]), z[j].body>>
    BY <1>5 DEF FilesOf
  <2>2. CASE j = m
    BY <2>1, <2>2
  <2>3. CASE j \in 1..(m - 1)
    <3>1. IsLastFile(z, m - 1, j) /\ Destination(z[j]) # Destination(z[m])
      BY <1>2, <2>1, <2>3
    <3>2. x \in FilesOf(z, m - 1)
      BY <2>1, <2>3, <3>1 DEF FilesOf
    <3> QED  BY <2>1, <3>1, <3>2
  <2> QED  BY <1>3, <2>2, <2>3
<1>6. ASSUME NEW x \in R PROVE x \in FilesOf(z, m)
  <2>1. CASE x = <<Destination(z[m]), z[m].body>>
    <3>1. m \in 1..m
      BY <1>0
    <3> QED  BY <1>1, <2>1, <3>1 DEF FilesOf
  <2>2. CASE x \in FilesOf(z, m - 1) /\ x[1] # Destination(z[m])
    <3>1. PICK j \in 1..(m - 1) :
            IsLastFile(z, m - 1, j) /\ x = <<Destination(z[j]), z[j].body>>
      BY <2>2 DEF FilesOf
    <3>2. IsLastFile(z, m, j)
      BY <1>2, <2>2, <3>1
    <3> QED  BY <1>4, <3>1, <3>2 DEF FilesOf
  <2> QED  BY <1>6, <2>1, <2>2
<1> HIDE DEF R
<1>7. FilesOf(z, m) = R
  BY <1>5, <1>6
<1> QED  BY <1>7 DEF R

\* With one more entry the last manifest is that one, or the one before.
LEMMA ManifestAdded ==
  ASSUME NEW z, NEW m \in Nat \ {0}, NEW body,
         IF IsManifest(z[m]) THEN body = z[m].body ELSE LastManifest(z, m - 1, body)
  PROVE  LastManifest(z, m, body)
<1>1. CASE IsManifest(z[m])
  <2>1. m \in 1..m /\ (m + 1)..m = {}
    OBVIOUS
  <2> QED  BY <1>1, <2>1 DEF LastManifest
<1>2. CASE ~IsManifest(z[m])
  <2>1. PICK j \in 1..(m - 1) : /\ IsManifest(z[j]) /\ z[j].body = body
                                /\ \A k \in (j + 1)..(m - 1) : ~IsManifest(z[k])
    BY <1>2 DEF LastManifest
  <2>2. j \in 1..m /\ \A k \in (j + 1)..m : k \in (j + 1)..(m - 1) \/ k = m
    OBVIOUS
  <2> QED  BY <1>2, <2>1, <2>2 DEF LastManifest
<1> QED  BY <1>1, <1>2

\* Of no entries there are no files.
LEMMA NoFiles == ASSUME NEW z PROVE FilesOf(z, 0) = {}
  BY DEF FilesOf
---------------------------------------------------------------------------
LEMMA InitInv == Init => Inv
<1> SUFFICES ASSUME Init PROVE Inv
  OBVIOUS
<1>0. MaxKeys \in Nat /\ MaxCalls \in Nat /\ NoPassword \in Passwords
  BY KeyFilesAssumption, ZipConfigAssumption
<1>1. file \in BootFile /\ data = file /\ file.sig = NoSig
  BY DEF Init, BootFile
<1>2. TypeOK
  <2>1. /\ priv = NoPem /\ pub = NoPem /\ gen = "idle" /\ keys \in 0..MaxKeys
        /\ password \in Passwords /\ accident \in BOOLEAN
    BY <1>0 DEF Init, KeyInit
  <2>2. /\ signed = {} /\ pc = "idle" /\ withKey \in BOOLEAN /\ pubkey = None
        /\ manifest = None /\ dirs = {} /\ extracted = {}
    BY DEF Init
  <2>3. n \in Nat \ {0} /\ calls \in 0..MaxCalls /\ left \in 0..calls
    BY <1>0 DEF Init
  <2> QED  BY <1>1, <2>1, <2>2, <2>3 DEF TypeOK
<1>3. KeyKnown /\ SigsSigned /\ CallKnown /\ ExtractedKnown
  BY <1>1 DEF Init, KeyInit, KeyKnown, SigsSigned, CallKnown, ExtractedKnown
<1>4. UnpacksOnlyWhatWasSigned /\ ReturnsTheArchive
  BY DEF Init, UnpacksOnlyWhatWasSigned, ReturnsTheArchive
<1> QED  BY <1>2, <1>3, <1>4 DEF Inv

\* What leaves FromZip alone, and takes no signature back, keeps what is known of it.
LEMMA CallUntouched ==
  ASSUME Inv, signed \subseteq signed', UNCHANGED <<callVars, pc, result, calls, left>>
  PROVE  /\ CallKnown' /\ ExtractedKnown'
         /\ UnpacksOnlyWhatWasSigned' /\ ReturnsTheArchive'
<1>1. UNCHANGED <<withKey, data, pubkey, n, manifest, dirs, extracted, pc, result, calls, left>>
  BY DEF callVars, tempVars
<1>2. CallKnown' /\ ExtractedKnown'
  BY <1>1 DEF Inv, CallKnown, ExtractedKnown
<1>3. UnpacksOnlyWhatWasSigned'
  BY <1>1 DEF Inv, UnpacksOnlyWhatWasSigned
<1>4. ReturnsTheArchive'
  BY <1>1 DEF Inv, ReturnsTheArchive
<1> QED  BY <1>2, <1>3, <1>4

\* The types of the variables that are not those of the key files.
LEMMA CallTypes ==
  ASSUME TypeOK, UNCHANGED <<fileVars, callVars, pc, result, calls, left>>,
         priv' \in PrivateFile \cup {NoPem}, pub' \in Keys \cup {NoPem, OddKey},
         gen' \in {"idle", "private", "public"}, keys' \in 0..MaxKeys,
         password' \in Passwords, accident' \in BOOLEAN
  PROVE  TypeOK'
<1>1. UNCHANGED <<file, signed, withKey, data, pubkey, n, manifest, dirs, extracted,
                  pc, result, calls, left>>
  BY DEF fileVars, callVars, tempVars
<1> QED  BY <1>1 DEF TypeOK

\* The steps of GeneratED25519Key.
LEMMA KeyInv == Inv /\ KeyStep => Inv'
<1> SUFFICES ASSUME Inv, KeyStep PROVE Inv'
  OBVIOUS
<1> USE DEF Inv
<1>0. /\ UNCHANGED <<fileVars, callVars, pc, result, calls, left>>
      /\ UNCHANGED <<file, signed, data>>
  BY DEF KeyStep, fileVars, callVars
<1>1. /\ CallKnown' /\ ExtractedKnown'
      /\ UnpacksOnlyWhatWasSigned' /\ ReturnsTheArchive'
  BY <1>0, CallUntouched
<1>2. SigsSigned'
  BY <1>0 DEF SigsSigned
<1>n. MaxKeys \in Nat
  BY KeyFilesAssumption
<1>t. /\ priv \in PrivateFile \cup {NoPem} /\ pub \in Keys \cup {NoPem, OddKey}
      /\ keys \in 0..MaxKeys /\ password \in Passwords
  BY DEF TypeOK
<1>a. accident \in BOOLEAN
  BY DEF TypeOK
<1>3. TypeOK' /\ KeyKnown'
  <2>1. CASE Generate
    <3>1. /\ gen = "idle" /\ keys < MaxKeys /\ keys' = keys + 1 /\ password' \in Passwords
          /\ gen' = "private" /\ accident' = TRUE /\ UNCHANGED <<priv, pub>>
      BY <2>1 DEF Generate
    <3>2. keys' \in 0..MaxKeys /\ keys' \in Keys
      BY <1>n, <1>t, <3>1 DEF Keys
    <3>3. TypeOK'
      BY <1>0, <1>t, <3>1, <3>2, CallTypes
    <3>4. KeyKnown'
      BY <3>1, <3>2 DEF KeyKnown
    <3> QED  BY <3>3, <3>4
  <2>2. CASE WritePrivate
    <3>1. /\ gen = "private" /\ priv' = PrivatePem /\ gen' = "public"
          /\ UNCHANGED <<pub, keys, password, accident>>
      BY <2>2 DEF WritePrivate
    <3>2. accident /\ keys \in Keys
      BY <3>1 DEF KeyKnown
    <3>3. /\ PrivatePem \in PrivateFile /\ PrivatePem.key = keys
          /\ PrivatePem.password = password
      BY <1>t, <3>2 DEF PrivatePem, PrivateFile
    <3>4. TypeOK'
      BY <1>0, <1>t, <1>a, <3>1, <3>3, CallTypes
    <3>5. PrivIsCurrent'
      BY <3>1, <3>3 DEF PrivIsCurrent
    <3>6. KeyKnown'
      BY <3>1, <3>2, <3>5 DEF KeyKnown
    <3> QED  BY <3>4, <3>6
  <2>3. CASE WritePublic
    <3>1. /\ gen = "public" /\ pub' = keys /\ gen' = "idle" /\ accident' = FALSE
          /\ UNCHANGED <<priv, keys, password>>
      BY <2>3 DEF WritePublic
    <3>2. keys \in Keys /\ PrivIsCurrent
      BY <3>1 DEF KeyKnown
    <3>3. TypeOK'
      BY <1>0, <1>t, <3>1, <3>2, CallTypes
    <3>4. PrivIsCurrent'
      BY <3>1, <3>2 DEF PrivIsCurrent
    <3>5. KeyKnown'
      BY <3>1, <3>2, <3>4 DEF KeyKnown
    <3> QED  BY <3>3, <3>5
  <2>4. CASE PrivateFails
    <3>1. /\ gen = "private" /\ priv' \in {priv, NoPem} /\ gen' = "idle"
          /\ UNCHANGED <<pub, keys, password, accident>>
      BY <2>4 DEF PrivateFails
    <3>2. accident
      BY <3>1 DEF KeyKnown
    <3>3. TypeOK'
      BY <1>0, <1>t, <1>a, <3>1, CallTypes
    <3>4. KeyKnown'
      BY <3>1, <3>2 DEF KeyKnown
    <3> QED  BY <3>3, <3>4
  <2>5. CASE PublicFails
    <3>1. /\ gen = "public" /\ pub' \in {pub, NoPem} /\ gen' = "idle"
          /\ UNCHANGED <<priv, keys, password, accident>>
      BY <2>5 DEF PublicFails
    <3>2. accident
      BY <3>1 DEF KeyKnown
    <3>3. TypeOK'
      BY <1>0, <1>t, <1>a, <3>1, CallTypes
    <3>4. KeyKnown'
      BY <3>1, <3>2 DEF KeyKnown
    <3> QED  BY <3>3, <3>4
  <2>6. CASE ReplacePublic
    <3>1. /\ pub' \in {NoPem, OddKey} /\ accident' = TRUE
          /\ UNCHANGED <<priv, gen, keys, password>>
      BY <2>6 DEF ReplacePublic
    <3>2. gen \in {"idle", "private", "public"}
      BY DEF TypeOK
    <3>3. TypeOK'
      BY <1>0, <1>t, <3>1, <3>2, CallTypes
    <3>4. KeyKnown'
      BY <3>1 DEF KeyKnown, PrivIsCurrent
    <3> QED  BY <3>3, <3>4
  <2> QED  BY <2>1, <2>2, <2>3, <2>4, <2>5, <2>6 DEF KeyStep, GenerateStep
<1> QED  BY <1>1, <1>2, <1>3
---------------------------------------------------------------------------
\* A step that leaves the key files alone, and takes no signature back.
LEMMA KeysUntouched ==
  ASSUME Inv, UNCHANGED keyVars
  PROVE  KeyKnown'
<1>1. UNCHANGED <<priv, pub, gen, keys, password, accident>>
  BY DEF keyVars
<1> QED  BY <1>1 DEF Inv, KeyKnown, PrivIsCurrent

\* The type of the local variables of FromZip.
LEMMA ZipTypes ==
  ASSUME TypeOK, UNCHANGED keyVars,
         file' \in BootFile, signed' \subseteq Keys \X Archives,
         pc' \in {"idle", "key", "verify", "unzip", "entry", "panic"},
         withKey' \in BOOLEAN, data' \in BootFile, pubkey' \in Keys \cup {OddKey, None},
         n' \in Nat \ {0}, manifest' \in Manifests \cup {None},
         dirs' \subseteq Paths \cup {<<>>},
         extracted' \subseteq Destinations \X Bodies,
         calls' \in 0..MaxCalls, left' \in 0..calls'
  PROVE  TypeOK'
<1>1. UNCHANGED <<priv, pub, gen, keys, password, accident>>
  BY DEF keyVars
<1> QED  BY <1>1 DEF TypeOK

\* A boot file is signed or replaced.
LEMMA FileInv == Inv /\ (Sign \/ Replace) => Inv'
<1> SUFFICES ASSUME Inv, Sign \/ Replace PROVE Inv'
  OBVIOUS
<1> USE DEF Inv
<1>0. /\ UNCHANGED <<keyVars, callVars, pc, result, calls, left>>
      /\ UNCHANGED <<withKey, data, pubkey, n, manifest, dirs, extracted>>
  BY DEF Sign, Replace, FileStep, callVars, tempVars
<1>1. /\ file' \in BootFile /\ signed' \subseteq Keys \X Archives
      /\ signed \subseteq signed' /\ (file'.sig # NoSig => file'.sig \in signed')
  <2>1. CASE Sign
    <3>1. PICK a \in Archives, pw \in Passwords : \E k \in LoadPrivateKey(pw) :
            file' = [zip |-> a, sig |-> <<k, a>>] /\ signed' = signed \cup {<<k, a>>}
      BY <2>1 DEF Sign
    <3>2. PICK k \in LoadPrivateKey(pw) :
            file' = [zip |-> a, sig |-> <<k, a>>] /\ signed' = signed \cup {<<k, a>>}
      BY <3>1
    <3>3. k \in Keys
      <4>1. priv # NoPem /\ k = priv.key
        BY <3>2 DEF LoadPrivateKey
      <4> QED  BY <4>1 DEF TypeOK, PrivateFile
    <3>4. signed \subseteq Keys \X Archives
      BY DEF TypeOK
    <3> QED  BY <3>2, <3>3, <3>4 DEF BootFile
  <2>2. CASE Replace
    <3>1. PICK a \in Archives \cup {NotZip} : file' \in [zip : {a}, sig : {NoSig, file.sig}]
      BY <2>2 DEF Replace
    <3>2. signed' = signed
      BY <2>2 DEF Replace
    <3>3. file \in BootFile /\ signed \subseteq Keys \X Archives
      BY DEF TypeOK
    <3>4. file' \in BootFile
      BY <3>1, <3>3 DEF BootFile
    <3>5. file'.sig = NoSig \/ file'.sig = file.sig
      BY <3>1
    <3> QED  BY <3>2, <3>3, <3>4, <3>5 DEF SigsSigned
  <2> QED  BY <2>1, <2>2
<1>2. TypeOK'
  <2>1. /\ pc' \in {"idle", "key", "verify", "unzip", "entry", "panic"}
        /\ data' \in BootFile /\ pubkey' \in Keys \cup {OddKey, None}
        /\ n' \in Nat \ {0} /\ manifest' \in Manifests \cup {None}
        /\ dirs' \subseteq Paths \cup {<<>>}
        /\ extracted' \subseteq Destinations \X Bodies
        /\ calls' \in 0..MaxCalls /\ left' \in 0..calls'
    BY <1>0 DEF TypeOK
  <2>2. withKey' \in BOOLEAN
    BY <1>0 DEF TypeOK
  <2> QED  BY <1>0, <1>1, <2>1, <2>2, ZipTypes
<1>3. KeyKnown'
  BY <1>0, KeysUntouched
<1>4. SigsSigned'
  BY <1>0, <1>1 DEF SigsSigned
<1>5. /\ CallKnown' /\ ExtractedKnown'
      /\ UnpacksOnlyWhatWasSigned' /\ ReturnsTheArchive'
  BY <1>0, <1>1, CallUntouched
<1> QED  BY <1>2, <1>3, <1>4, <1>5

\* A step of FromZip after its first: what it leaves alone, and what is left
\* to be shown of it.
LEMMA StepInv ==
  ASSUME Inv, NEW label, At(label),
         pc' \in {"idle", "verify", "unzip", "entry", "panic"}, pubkey' \in Keys \cup {OddKey, None},
         n' \in Nat \ {0}, manifest' \in Manifests \cup {None},
         dirs' \subseteq Paths \cup {<<>>},
         extracted' \subseteq Destinations \X Bodies,
         left' \in 0..calls,
         CallKnown', ExtractedKnown', UnpacksOnlyWhatWasSigned', ReturnsTheArchive'
  PROVE  Inv'
<1>1. UNCHANGED <<keyVars, file, signed, withKey, data, calls>>
  BY DEF At, fileVars
<1>2. file \in BootFile /\ data \in BootFile /\ signed \subseteq Keys \X Archives
  BY DEF Inv, TypeOK
<1>3. calls \in 0..MaxCalls
  BY DEF Inv, TypeOK
<1>4. withKey \in BOOLEAN
  BY DEF Inv, TypeOK
<1>5. TypeOK
  BY DEF Inv
<1>6. TypeOK'
  BY <1>1, <1>2, <1>3, <1>4, <1>5, ZipTypes
<1>7. KeyKnown'
  BY <1>1, KeysUntouched
<1>8. SigsSigned'
  BY <1>1 DEF Inv, SigsSigned
<1> QED  BY <1>6, <1>7, <1>8 DEF Inv
---------------------------------------------------------------------------
\* FromZip is called.
LEMMA StartInv == Inv /\ Call => Inv'
<1> SUFFICES ASSUME Inv, Call PROVE Inv'
  OBVIOUS
<1> USE DEF Inv
<1>1. /\ calls < MaxCalls /\ calls' = calls + 1
      /\ data' = file /\ withKey' \in BOOLEAN /\ result' = None
      /\ pc' \in {"unzip", "panic", "key", "idle"} /\ (pc' = "unzip" => ~withKey')
      /\ pubkey' = None /\ n' = 1 /\ manifest' = None /\ dirs' = {} /\ extracted' = {}
      /\ UNCHANGED <<keyVars, file, signed, left>>
  BY DEF Call, fileVars
<1>2. /\ MaxCalls \in Nat /\ calls \in 0..MaxCalls /\ left \in 0..calls
  BY ZipConfigAssumption DEF TypeOK
<1>3. calls' \in 0..MaxCalls /\ left' \in 0..calls' /\ left' < calls'
  BY <1>1, <1>2
<1>4. file \in BootFile /\ signed \subseteq Keys \X Archives
  BY DEF TypeOK
<1>5. TypeOK'
  BY <1>1, <1>3, <1>4, ZipTypes
<1>6. KeyKnown'
  BY <1>1, KeysUntouched
<1>7. SigsSigned'
  BY <1>1 DEF SigsSigned
<1>8. CallKnown' /\ ExtractedKnown'
  BY <1>1, <1>3 DEF CallKnown, ExtractedKnown
<1>9. UnpacksOnlyWhatWasSigned' /\ ReturnsTheArchive'
  BY <1>1 DEF UnpacksOnlyWhatWasSigned, ReturnsTheArchive
<1> QED  BY <1>5, <1>6, <1>7, <1>8, <1>9

\* The types that a step finds.
LEMMA FoundTypes ==
  ASSUME Inv
  PROVE  /\ pubkey \in Keys \cup {OddKey, None} /\ n \in Nat \ {0}
         /\ manifest \in Manifests \cup {None} /\ dirs \subseteq Paths \cup {<<>>}
         /\ extracted \subseteq Destinations \X Bodies
         /\ calls \in Nat /\ left \in 0..calls
  BY ZipConfigAssumption DEF Inv, TypeOK

\* A step that ends the call with an error.
LEMMA FailsInv ==
  ASSUME Inv, NEW label \in {"key", "verify", "unzip"}, At(label), Fails
  PROVE  Inv'
<1>1. /\ pc = label /\ pc' = "idle"
      /\ UNCHANGED <<result, left, pubkey, n, manifest, dirs, extracted, calls>>
  BY DEF At, Fails, tempVars
<1>2. result = None
  BY <1>1 DEF Inv, CallKnown
<1>3. CallKnown' /\ ExtractedKnown' /\ UnpacksOnlyWhatWasSigned' /\ ReturnsTheArchive'
  BY <1>1, <1>2
  DEF CallKnown, ExtractedKnown, UnpacksOnlyWhatWasSigned, ReturnsTheArchive
<1> QED  BY <1>1, <1>3, FoundTypes, StepInv

\* The steps up to the temporary directory.
LEMMA VerifyInv == Inv /\ (LoadPublicKey \/ Verify \/ Unzip) => Inv'
<1> SUFFICES ASSUME Inv, LoadPublicKey \/ Verify \/ Unzip PROVE Inv'
  OBVIOUS
<1>1. CASE LoadPublicKey /\ ~Fails
  <2>1. /\ At("key") /\ pc = "key" /\ pub # NoPem /\ pubkey' = pub /\ pc' = "verify"
        /\ UNCHANGED <<result, left, n, manifest, dirs, extracted, calls>>
    BY <1>1 DEF LoadPublicKey, At, tempVars
  <2>2. pubkey' \in Keys \cup {OddKey}
    BY <2>1 DEF Inv, TypeOK
  <2>3. result = None /\ left < calls /\ n = 1 /\ manifest = None /\ extracted = {}
    BY <2>1 DEF Inv, CallKnown
  <2>4. CallKnown' /\ ExtractedKnown' /\ UnpacksOnlyWhatWasSigned' /\ ReturnsTheArchive'
    BY <2>1, <2>2, <2>3
    DEF CallKnown, ExtractedKnown, UnpacksOnlyWhatWasSigned, ReturnsTheArchive
  <2> QED  BY <2>1, <2>2, <2>4, FoundTypes, StepInv
<1>2. CASE Verify /\ Verifies /\ Continues("unzip")
  <2>1. /\ At("verify") /\ pc = "verify" /\ pc' = "unzip"
        /\ UNCHANGED <<result, left, pubkey, n, manifest, dirs, extracted>>
        /\ UNCHANGED <<calls, signed, data, withKey>>
    BY <1>2 DEF Verify, Continues, At, tempVars, fileVars
  <2>2. /\ result = None /\ left < calls /\ pubkey \in Keys \cup {OddKey}
        /\ n = 1 /\ manifest = None /\ extracted = {}
    BY <2>1 DEF Inv, CallKnown
  <2>3. data.sig = <<pubkey, data.zip>> /\ data.zip \in Archives \cup {NotZip}
    BY <1>2 DEF Verifies, Inv, TypeOK, BootFile
  <2>4. data.sig # NoSig
    BY <2>2, <2>3, ZipConfigAssumption
  <2>5. <<pubkey, data.zip>> \in signed
    BY <2>3, <2>4 DEF Inv, SigsSigned
  <2>6. CallKnown' /\ ExtractedKnown' /\ UnpacksOnlyWhatWasSigned' /\ ReturnsTheArchive'
    BY <2>1, <2>2, <2>5
    DEF CallKnown, ExtractedKnown, UnpacksOnlyWhatWasSigned, ReturnsTheArchive
  <2> QED  BY <2>1, <2>6, FoundTypes, StepInv
<1>3. CASE Unzip /\ ~Fails
  <2>1. /\ At("unzip") /\ pc = "unzip" /\ pc' = "entry" /\ data.zip # NotZip /\ dirs' = {<<>>}
        /\ UNCHANGED <<result, left, pubkey, n, manifest, extracted>>
        /\ UNCHANGED <<calls, signed, data, withKey>>
    BY <1>3 DEF Unzip, At, fileVars
  <2>2. result = None /\ left < calls /\ n = 1 /\ manifest = None /\ extracted = {}
    BY <2>1 DEF Inv, CallKnown
  <2>3. data.zip \in Archives
    BY <2>1 DEF Inv, TypeOK, BootFile
  <2>4. n \in 1..(Len(data.zip) + 1) /\ n - 1 = 0
    BY <2>2, <2>3, ArchiveLength
  <2>5. ExtractedKnown'
    BY <2>1, <2>2, <2>4, NoFiles DEF ExtractedKnown
  <2>6. withKey => <<pubkey, data.zip>> \in signed
    BY <2>1 DEF Inv, UnpacksOnlyWhatWasSigned
  <2>7. CallKnown' /\ UnpacksOnlyWhatWasSigned' /\ ReturnsTheArchive'
    BY <2>1, <2>2, <2>3, <2>6 DEF CallKnown, UnpacksOnlyWhatWasSigned, ReturnsTheArchive
  <2> QED  BY <2>1, <2>5, <2>7, FoundTypes, StepInv
<1>4. CASE Fails
  BY <1>4, FailsInv DEF LoadPublicKey, Verify, Unzip
<1>5. CASE Verify /\ Continues("panic")
  <2>1. /\ At("verify") /\ pc = "verify" /\ pc' = "panic"
        /\ UNCHANGED <<result, left, pubkey, n, manifest, dirs, extracted>>
        /\ UNCHANGED <<calls, signed, data, withKey>>
    BY <1>5 DEF Verify, Continues, At, tempVars, fileVars
  <2>2. result = None /\ left < calls
    BY <2>1 DEF Inv, CallKnown
  <2>3. CallKnown' /\ ExtractedKnown' /\ UnpacksOnlyWhatWasSigned' /\ ReturnsTheArchive'
    BY <2>1, <2>2
    DEF CallKnown, ExtractedKnown, UnpacksOnlyWhatWasSigned, ReturnsTheArchive
  <2> QED  BY <2>1, <2>3, FoundTypes, StepInv
<1> QED  BY <1>1, <1>2, <1>3, <1>4, <1>5 DEF Verify
---------------------------------------------------------------------------
\* What is known where an entry is extracted.
LEMMA EntryKnown ==
  ASSUME Inv, Extracts
  PROVE  /\ data.zip \in Archives /\ n \in 1..Len(data.zip) /\ Len(data.zip) \in Nat
         /\ extracted = FilesOf(data.zip, n - 1)
         /\ manifest # None => LastManifest(data.zip, n - 1, manifest)
         /\ result = None /\ left < calls
         /\ withKey => <<pubkey, data.zip>> \in signed
<1>1. pc = "entry" /\ n <= Len(data.zip)
  BY DEF Extracts, At
<1>2. data.zip \in Archives /\ result = None /\ left < calls
  BY <1>1 DEF Inv, CallKnown
<1>3. withKey => <<pubkey, data.zip>> \in signed
  BY <1>1 DEF Inv, UnpacksOnlyWhatWasSigned
<1>4. /\ n \in 1..(Len(data.zip) + 1)
      /\ extracted = FilesOf(data.zip, n - 1)
      /\ manifest # None => LastManifest(data.zip, n - 1, manifest)
  BY <1>1 DEF Inv, ExtractedKnown
<1>5. Len(data.zip) \in Nat
  BY <1>2, ArchiveLength
<1>6. n \in 1..Len(data.zip)
  BY <1>1, <1>4, <1>5
<1> QED  BY <1>2, <1>3, <1>4, <1>5, <1>6

\* A step that goes to the next entry.
LEMMA GoesInv ==
  ASSUME Inv, Extracts, Goes,
         manifest' \in Manifests \cup {None}, dirs' \subseteq Paths \cup {<<>>},
         extracted' \subseteq Destinations \X Bodies,
         extracted' = FilesOf(data.zip, n),
         manifest' # None => LastManifest(data.zip, n, manifest')
  PROVE  Inv'
<1>1. /\ At("entry") /\ pc = "entry" /\ pc' = "entry" /\ n' = n + 1
      /\ UNCHANGED <<result, left, pubkey, calls, data, withKey, signed>>
  BY DEF Extracts, Goes, At, fileVars
<1>2. /\ data.zip \in Archives /\ n \in 1..Len(data.zip) /\ Len(data.zip) \in Nat
      /\ result = None /\ left < calls
      /\ withKey => <<pubkey, data.zip>> \in signed
  BY EntryKnown
<1>3. n' \in 1..(Len(data.zip) + 1) /\ n' - 1 = n /\ n' \in Nat \ {0}
  BY <1>1, <1>2
<1>4. ExtractedKnown'
  BY <1>1, <1>3 DEF ExtractedKnown
<1>5. CallKnown' /\ UnpacksOnlyWhatWasSigned' /\ ReturnsTheArchive'
  BY <1>1, <1>2 DEF CallKnown, UnpacksOnlyWhatWasSigned, ReturnsTheArchive
<1> QED  BY <1>1, <1>3, <1>4, <1>5, FoundTypes, StepInv

\* The extraction of an entry.
LEMMA ExtractInv == Inv /\ (SkipNameless \/ MakeDir \/ WriteFile) => Inv'
<1> SUFFICES ASSUME Inv, SkipNameless \/ MakeDir \/ WriteFile PROVE Inv'
  OBVIOUS
<1> DEFINE e == data.zip[n]
<1>1. Extracts /\ Goes
  BY DEF SkipNameless, MakeDir, WriteFile
<1>2. /\ data.zip \in Archives /\ n \in 1..Len(data.zip)
      /\ extracted = FilesOf(data.zip, n - 1)
      /\ manifest # None => LastManifest(data.zip, n - 1, manifest)
  BY <1>1, EntryKnown
<1>3. e.body \in Bodies /\ Destination(e) \in Destinations \cup {Outside}
  BY <1>2, EntryType
<1>4. /\ manifest \in Manifests \cup {None} /\ dirs \subseteq Paths \cup {<<>>}
      /\ extracted \subseteq Destinations \X Bodies
  BY FoundTypes
<1>n. Len(data.zip) \in Nat /\ n \in Nat \ {0}
  BY <1>2, ArchiveLength
<1>5. CASE SkipNameless \/ MakeDir
  <2>1. ~Writes(e) /\ ~IsManifest(e)
    BY <1>5 DEF SkipNameless, MakeDir, Nameless, Writes, IsManifest
  <2>2. UNCHANGED <<manifest, extracted>>
    BY <1>5 DEF SkipNameless, MakeDir, tempVars
  <2>3. dirs' \subseteq Paths \cup {<<>>}
    BY <1>3, <1>4, <1>5 DEF SkipNameless, MakeDir, tempVars, Paths
  <2>4. extracted' = FilesOf(data.zip, n)
    BY <1>2, <2>1, <2>2, NoFileAdded
  <2>5. manifest' # None => LastManifest(data.zip, n, manifest')
    BY <1>2, <1>n, <2>1, <2>2, ManifestAdded
  <2> QED  BY <1>1, <1>4, <2>2, <2>3, <2>4, <2>5, GoesInv
<1>6. CASE WriteFile
  <2> DEFINE path == Destination(e)
  <2>1. /\ ~e.dir /\ ~Nameless(e)
        /\ IsManifest(e) => e.body \in Manifests
        /\ manifest' = Decode(e) /\ UNCHANGED dirs
        /\ IF path = Outside THEN UNCHANGED extracted
           ELSE extracted' = {x \in extracted : x[1] # path} \cup {<<path, e.body>>}
    BY <1>6 DEF WriteFile
  <2>2. extracted' = FilesOf(data.zip, n)
    <3>1. CASE path = Outside
      BY <1>2, <2>1, <3>1, NoFileAdded DEF Writes
    <3>2. CASE path # Outside
      BY <1>2, <2>1, <3>2, FileAdded DEF Writes
    <3> QED  BY <3>1, <3>2
  <2>3. extracted' \subseteq Destinations \X Bodies
    BY <1>3, <1>4, <2>1
  <2>4. manifest' \in Manifests \cup {None}
    BY <1>4, <2>1 DEF Decode
  <2>5. manifest' # None => LastManifest(data.zip, n, manifest')
    <3>1. CASE IsManifest(e)
      BY <1>n, <2>1, <3>1, ManifestAdded DEF Decode
    <3>2. CASE ~IsManifest(e)
      BY <1>2, <1>n, <2>1, <3>2, ManifestAdded DEF Decode
    <3> QED  BY <3>1, <3>2
  <2> QED  BY <1>1, <1>4, <2>1, <2>2, <2>3, <2>4, <2>5, GoesInv
<1> QED  BY <1>5, <1>6

\* The end of the extraction.
LEMMA ReturnInv == Inv /\ (ExtractionFails \/ Returns) => Inv'
<1> SUFFICES ASSUME Inv, ExtractionFails \/ Returns PROVE Inv'
  OBVIOUS
<1>1. /\ At("entry") /\ pc = "entry" /\ pc' = "idle"
      /\ UNCHANGED <<pubkey, n, manifest, dirs, extracted, calls, data, withKey, signed>>
  BY DEF ExtractionFails, Returns, At, tempVars, fileVars
<1>2. result = None /\ left < calls /\ data.zip \in Archives
  BY <1>1 DEF Inv, CallKnown
<1>3. withKey => <<pubkey, data.zip>> \in signed
  BY <1>1 DEF Inv, UnpacksOnlyWhatWasSigned
<1>4. calls \in Nat /\ left \in 0..calls
  BY FoundTypes
<1>5. left' \in 0..calls /\ ReturnsTheArchive'
  <2>1. CASE ExtractionFails
    <3>1. left' = left + 1 /\ result' = None
      BY <1>2, <2>1 DEF ExtractionFails
    <3>2. left' \in 0..calls
      BY <1>2, <1>4, <3>1
    <3> QED  BY <3>1, <3>2 DEF ReturnsTheArchive
  <2>2. CASE Returns
    <3>1. /\ n > Len(data.zip) /\ manifest # None /\ left' = left
          /\ result' = [manifest |-> manifest, files |-> extracted]
      BY <2>2 DEF Returns
    <3>2. /\ n \in 1..(Len(data.zip) + 1)
          /\ extracted = FilesOf(data.zip, n - 1)
          /\ LastManifest(data.zip, n - 1, manifest)
      BY <1>1, <3>1 DEF Inv, ExtractedKnown
    <3>3. Len(data.zip) \in Nat
      BY <1>2, ArchiveLength
    <3>4. n - 1 = Len(data.zip)
      BY <3>1, <3>2, <3>3
    <3>5. result'.files = FilesOf(data.zip, Len(data.zip)) /\ result'.manifest = manifest
      BY <3>1, <3>2, <3>4
    <3>6. ReturnsTheArchive'
      BY <1>1, <1>2, <3>1, <3>2, <3>5 DEF ReturnsTheArchive
    <3> QED  BY <1>4, <3>1, <3>6
  <2> QED  BY <2>1, <2>2
<1>6. CallKnown' /\ ExtractedKnown' /\ UnpacksOnlyWhatWasSigned'
  BY <1>1, <1>3 DEF CallKnown, ExtractedKnown, UnpacksOnlyWhatWasSigned
<1> QED  BY <1>1, <1>5, <1>6, FoundTypes, StepInv

LEMMA NextInv == Inv /\ [Next]_vars => Inv'
<1> SUFFICES ASSUME Inv, [Next]_vars PROVE Inv'
  OBVIOUS
<1>1. CASE UNCHANGED vars
  <2>1. UNCHANGED <<keyVars, fileVars, callVars, pc, result, calls, left>>
    BY <1>1 DEF vars
  <2>2. UNCHANGED <<file, signed, data>>
    BY <2>1 DEF fileVars, callVars
  <2>3. UNCHANGED <<priv, pub, gen, keys, password, accident>>
    BY <2>1 DEF keyVars
  <2>4. TypeOK'
    BY <2>1, <2>3, CallTypes DEF Inv, TypeOK
  <2>5. KeyKnown' /\ SigsSigned'
    BY <2>1, <2>2, KeysUntouched DEF Inv, SigsSigned
  <2>6. /\ CallKnown' /\ ExtractedKnown'
        /\ UnpacksOnlyWhatWasSigned' /\ ReturnsTheArchive'
    BY <2>1, <2>2, CallUntouched
  <2> QED  BY <2>4, <2>5, <2>6 DEF Inv
<1> QED
  BY <1>1, KeyInv, FileInv, StartInv, VerifyInv, ExtractInv, ReturnInv DEF Next

LEMMA AlwaysInv == Spec => []Inv
  BY InitInv, NextInv, PTL DEF Spec

\* The local variables of FromZip and the two key files stay within their types.
THEOREM Types == Spec => []TypeOK
<1>1. Inv => TypeOK
  BY DEF Inv
<1> QED  BY <1>1, AlwaysInv, PTL

\* What was generated without an error is a pair, and can be loaded.
THEOREM FilesArePairs == Spec => []FilesAreAPair
<1>1. Inv => FilesAreAPair
  <2> SUFFICES ASSUME Inv, gen = "idle", ~accident
               PROVE  pub = keys /\ priv # NoPem /\ LoadPrivateKey(password) = {pub}
    BY DEF FilesAreAPair
  <2>1. pub = keys /\ PrivIsCurrent
    BY DEF Inv, KeyKnown
  <2>2. priv # NoPem
    BY <2>1, KeyFilesAssumption DEF PrivIsCurrent
  <2>3. ~(priv.encrypted /\ priv.password # password) /\ priv.key = keys
    BY <2>1 DEF PrivIsCurrent
  <2> QED  BY <2>1, <2>2, <2>3 DEF LoadPrivateKey
<1> QED  BY <1>1, AlwaysInv, PTL

\* With a public key file nothing is unpacked, decoded or returned that was
\* not signed with its private key.
THEOREM OnlyTheSignedIsUnpacked == Spec => []UnpacksOnlyWhatWasSigned
<1>1. Inv => UnpacksOnlyWhatWasSigned
  BY DEF Inv
<1> QED  BY <1>1, AlwaysInv, PTL

\* For any archive, with any names: of each path in the directory what is there
\* is the last entry that leads to it, and the manifest is the last entry that
\* is named manifest.json.
THEOREM TheArchiveIsReturned == Spec => []ReturnsTheArchive
<1>1. Inv => ReturnsTheArchive
  BY DEF Inv
<1> QED  BY <1>1, AlwaysInv, PTL
================================================================================
