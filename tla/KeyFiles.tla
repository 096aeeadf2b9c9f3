-------------------------------- MODULE KeyFiles --------------------------------
(***************************************************************************)
(* pkg/crypto/ed25519.go: a key pair is generated and stored in two PEM    *)
(* files, one written after the other, and the files are loaded again to   *)
(* sign and to verify.  Key pairs are numbered in the order in which they  *)
(* are generated.                                                          *)
(***************************************************************************)
EXTENDS Integers, Sequences, FiniteSets, SequencesExt

CONSTANTS
  NoPem,       \* the content of a file without a PEM block of the right type
  OddKey,      \* a public key block that has not the length of a key
  Passwords, NoPassword,  \* NoPassword is the empty one
  MaxKeys      \* bound on the number of key pairs generated

Keys == 1..MaxKeys

PrivateFile == [key : Keys, encrypted : BOOLEAN, password : Passwords]

ASSUME KeyFilesAssumption ==
  /\ NoPem \notin Keys \cup PrivateFile \cup {OddKey} /\ OddKey \notin Keys
  /\ NoPassword \in Passwords /\ MaxKeys \in Nat

VARIABLES
  priv,      \* the private key file
  pub,       \* the public key file
  gen,       \* step of GeneratED25519Key: "idle", "private", "public"
  keys,      \* pairs generated so far
  password,  \* the argument of the last call
  accident   \* history: the last call did not succeed, or its file was replaced

keyVars == <<priv, pub, gen, keys, password, accident>>

KeyInit ==
  /\ priv = NoPem /\ pub = NoPem /\ gen = "idle" /\ keys = 0
  /\ password = NoPassword /\ accident = TRUE

\* A pair is generated.
Generate ==
  /\ gen = "idle" /\ keys < MaxKeys
  /\ keys' = keys + 1 /\ password' \in Passwords
  /\ gen' = "private" /\ accident' = TRUE
  /\ UNCHANGED <<priv, pub>>

\* The private key in PEM: it is encrypted when the password is empty.
PrivatePem == [key |-> keys, encrypted |-> password = NoPassword, password |-> password]

WritePrivate ==
  /\ gen = "private" /\ priv' = PrivatePem /\ gen' = "public"
  /\ UNCHANGED <<pub, keys, password, accident>>

WritePublic ==
  /\ gen = "public" /\ pub' = keys /\ gen' = "idle" /\ accident' = FALSE
  /\ UNCHANGED <<priv, keys, password>>

\* Mutant: an error of the first write is ignored.
PrivateFailsUnnoticed ==
  /\ gen = "private" /\ priv' \in {priv, NoPem} /\ gen' = "public"
  /\ UNCHANGED <<pub, keys, password, accident>>

\* A write fails, or the machine stops: the file is as it was, or cut off.
PrivateFails ==
  /\ gen = "private" /\ priv' \in {priv, NoPem} /\ gen' = "idle"
  /\ UNCHANGED <<pub, keys, password, accident>>

PublicFails ==
  /\ gen = "public" /\ pub' \in {pub, NoPem} /\ gen' = "idle"
  /\ UNCHANGED <<priv, keys, password, accident>>

\* Somebody puts something else in the place of the public key file.
ReplacePublic ==
  /\ pub' \in {NoPem, OddKey} /\ accident' = TRUE
  /\ UNCHANGED <<priv, gen, keys, password>>

GenerateStep ==
  Generate \/ WritePrivate \/ WritePublic \/ PrivateFails \/ PublicFails \/ ReplacePublic

\* The keys that LoadPrivateKeyFromFile may return, none for an error.  With
\* another password the decryption gives an error or garbage.
LoadPrivateKey(pw) ==
  IF priv = NoPem \/ (priv # NoPem /\ priv.encrypted /\ priv.password # pw)
  THEN {} ELSE {priv.key}
================================================================================
