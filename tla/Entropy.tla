-------------------------------- MODULE Entropy --------------------------------
(***************************************************************************)
(* pkg/rng: UpdateLinuxRandomness selects a hardware random number         *)
(* generator, opens it and the random device, and starts a goroutine that  *)
(* feeds the one into the other for ever.  Each call starts another        *)
(* goroutine.  Whatever fails in a goroutine is reported to a recoverer of *)
(* pkg/recovery: a secure one reboots or powers off, a permissive one runs *)
(* a command; if the recoverer comes back, the goroutine goes on.          *)
(***************************************************************************)
EXTENDS Integers, Sequences, FiniteSets, SequencesExt

CONSTANTS
  trngList,    \* the generators that are accepted
  Generators,  \* all generators of the kernel
  None,        \* no generator
  Levels,      \* the fill levels of the pool that make a difference
  EntropyThreshold,
  EntropyBlockSize,
  Calls        \* bound on the calls of UpdateLinuxRandomness, 1..Calls

ASSUME EntropyAssumption ==
  /\ trngList \in Seq(Generators) /\ None \notin Generators
  /\ Levels \subseteq Nat /\ EntropyThreshold \in Nat \ {0}
  /\ EntropyBlockSize \in Nat \ {0} /\ Calls \in Nat

VARIABLES
  available,  \* the words of rng_available; a newline is part of the last one
  current,    \* the generator of the kernel
  newline,    \* the kernel ends the name in rng_current with a newline
  up,         \* the machine runs
  secure,     \* the recoverer is a SecureRecoverer
  pc,         \* of the caller: "idle", "select", "verify", "openHw", "openRng"
  call,       \* calls so far
  selected,   \* local variable selectedRNG
  loop,       \* the step each call's goroutine is at, "none" without one
  recovers,   \* the goroutines that are in the recoverer before that step
  length,     \* local variable length of each goroutine
  hwFds, rngFds,  \* descriptors open on the two devices
  got,        \* history: bytes it has read from the generator in this round
  verified    \* history: the calls whose generator was read back

kernelVars == <<available, current, newline, up, secure>>
callVars == <<pc, call, selected, verified>>
fdVars == <<hwFds, rngFds>>
loopVars == <<loop, recovers, length, got>>
vars == <<kernelVars, callVars, fdVars, loopVars>>

Steps == {"sleep", "pool", "parse", "hwrng", "write"}

Init ==
  /\ available \in SUBSET Generators /\ current \in Generators \cup {None}
  /\ newline \in BOOLEAN /\ up = TRUE /\ secure \in BOOLEAN
  /\ pc = "idle" /\ call = 0 /\ selected = None /\ verified = {}
  /\ loop = [c \in 1..Calls |-> "none"] /\ recovers = {} /\ length = [c \in 1..Calls |-> 0] /\ got = length
  /\ hwFds = 0 /\ rngFds = 0
---------------------------------------------------------------------------
At(label) == up /\ pc = label

\* A call returns an error; what it has opened stays open.
Fails == pc' = "idle" /\ UNCHANGED <<selected, verified, current, loop, fdVars>>

Update ==
  /\ At("idle") /\ call < Calls
  /\ pc' = "select" /\ call' = call + 1 /\ selected' = None
  /\ UNCHANGED <<kernelVars, verified, fdVars, loopVars>>

CallStep == UNCHANGED <<available, newline, up, secure, call, recovers, length, got>>

\* g is the last match in trngList: a match ends the inner loop only.
Match(g) ==
  \E i \in 1..Len(trngList) :
    /\ g = trngList[i] /\ g \in available
    /\ \A j \in (i + 1)..Len(trngList) : trngList[j] \notin available

\* setAvailableTRNG up to the write of rng_current.
Select ==
  /\ At("select") /\ CallStep
  /\ \/ /\ \E g \in Range(trngList) : Match(g) /\ selected' = g /\ current' = g
        /\ pc' = "verify" /\ UNCHANGED <<verified, loop, fdVars>>
     \/ Fails

\* setAvailableTRNG reads rng_current back.
Verify ==
  /\ At("verify") /\ CallStep
  /\ \/ /\ current = selected /\ ~newline
        /\ verified' = verified \cup {call} /\ pc' = "openHw"
        /\ UNCHANGED <<selected, current, loop, fdVars>>
     \/ Fails

OpenHwRng ==
  /\ At("openHw") /\ CallStep
  /\ \/ hwFds' = hwFds + 1 /\ pc' = "openRng" /\ UNCHANGED <<selected, verified, current, loop, rngFds>>
     \/ Fails

\* Mutant: the generator is closed as the call returns.
StartClosing ==
  /\ rngFds' = rngFds + 1 /\ hwFds' = hwFds - 1 /\ pc' = "idle"
  /\ loop' = [loop EXCEPT ![call] = "sleep"]
  /\ UNCHANGED <<selected, verified, current>>

\* The random device is open too; the goroutine starts.
Start ==
  /\ rngFds' = rngFds + 1 /\ pc' = "idle"
  /\ loop' = [loop EXCEPT ![call] = "sleep"]
  /\ UNCHANGED <<selected, verified, current, hwFds>>

OpenRandom == At("openRng") /\ CallStep /\ (Start \/ Fails)

\* The collector finds a generator that a failed call has left open.
Finalize ==
  /\ up /\ hwFds > rngFds + (IF pc = "openRng" THEN 1 ELSE 0)
  /\ hwFds' = hwFds - 1
  /\ UNCHANGED <<kernelVars, callVars, rngFds, loopVars>>
---------------------------------------------------------------------------
AtStep(c, step) ==
  up /\ loop[c] = step /\ c \notin recovers /\ UNCHANGED <<kernelVars, callVars, fdVars>>

Goto(c, step) == loop' = [loop EXCEPT ![c] = step] /\ UNCHANGED recovers

\* Mutant: the goroutine ends.
RecoverAndEnd(c, step) == loop' = [loop EXCEPT ![c] = "none"] /\ UNCHANGED recovers

\* Call the recoverer, whose result is ignored, and go on with a step.
RecoverThen(c, step) ==
  loop' = [loop EXCEPT ![c] = step] /\ recovers' = recovers \cup {c}

Sleep(c) ==
  /\ AtStep(c, "sleep") /\ Goto(c, "pool")
  /\ length' = [length EXCEPT ![c] = 0] /\ got' = [got EXCEPT ![c] = 0]

\* The level is read and parsed: what is no number is taken to be 0, and a number
\* out of range the greatest there is.
ReadPool(c) ==
  /\ AtStep(c, "pool") /\ UNCHANGED <<length, got>>
  /\ \/ \E level \in Levels : Goto(c, IF level >= EntropyThreshold THEN "sleep" ELSE "hwrng")
     \/ RecoverThen(c, "parse")   \* the file cannot be read
     \/ RecoverThen(c, "hwrng")   \* it holds no number
     \/ RecoverThen(c, "sleep")   \* a number out of range

\* What could not be read does not parse either.
ParseNothing(c) ==
  /\ AtStep(c, "parse") /\ RecoverThen(c, "hwrng") /\ UNCHANGED <<length, got>>

\* Mutant: the whole block is fed, whatever was read of it.
BytesFed(n) == EntropyBlockSize

\* random[:length]
Bytes(n) == n

ReadHwRng(c) ==
  /\ AtStep(c, "hwrng")
  /\ \E n \in 0..EntropyBlockSize :
       /\ got' = [got EXCEPT ![c] = n] /\ length' = [length EXCEPT ![c] = Bytes(n)]
       /\ IF n > 0 THEN Goto(c, "write") ELSE RecoverThen(c, "write")

WriteRandom(c) ==
  /\ AtStep(c, "write") /\ UNCHANGED <<length, got>>
  /\ Goto(c, "sleep") \/ RecoverThen(c, "sleep")

\* The recoverer comes back: a system call or a command has failed, or the
\* command has ended, if there is one.
RecoverReturns(c) ==
  /\ up /\ c \in recovers /\ recovers' = recovers \ {c}
  /\ UNCHANGED <<kernelVars, callVars, fdVars, loop, length, got>>

\* syscall.Reboot
GoDown(c) ==
  /\ up /\ c \in recovers /\ secure /\ up' = FALSE
  /\ UNCHANGED <<available, current, newline, secure, callVars, fdVars, loopVars>>

\* Another program selects a generator.
SelectOther ==
  /\ up /\ current' \in available
  /\ UNCHANGED <<available, newline, up, secure, callVars, fdVars, loopVars>>

Feed(c) ==
  \/ Sleep(c) \/ ReadPool(c) \/ ParseNothing(c) \/ ReadHwRng(c) \/ WriteRandom(c)

Next ==
  \/ Update \/ Select \/ Verify \/ OpenHwRng \/ OpenRandom \/ Finalize \/ SelectOther
  \/ \E c \in 1..Calls : Feed(c) \/ RecoverReturns(c) \/ GoDown(c)

\* A goroutine runs on; a command of a permissive recoverer need not end.
Spec == Init /\ [][Next]_vars /\ \A c \in 1..Calls : WF_vars(Feed(c))
---------------------------------------------------------------------------
\* Types of the variables.
TypeOK ==
  /\ available \subseteq Generators /\ current \in Generators \cup {None}
  /\ newline \in BOOLEAN /\ up \in BOOLEAN /\ secure \in BOOLEAN
  /\ pc \in {"idle", "select", "verify", "openHw", "openRng"} /\ call \in 0..Calls
  /\ selected \in Range(trngList) \cup {None} /\ verified \subseteq 1..call
  /\ loop \in [1..Calls -> Steps \cup {"none"}] /\ recovers \subseteq 1..Calls
  /\ length \in [1..Calls -> 0..EntropyBlockSize] /\ got \in [1..Calls -> 0..EntropyBlockSize]
  /\ hwFds \in Nat /\ rngFds \in Nat

\* Whatever failed before, a goroutine writes only what it has read in the
\* same round, nothing after a failed read, and it exists only if the kernel
\* had taken over the generator of its call (pkg/rng/entropy.go:90-101, 147-155).
FeedsOnlyWhatItRead ==
  \A c \in 1..Calls : loop[c] # "none" =>
    /\ c \in verified
    /\ loop[c] = "write" => length[c] = got[c] /\ (c \in recovers => got[c] = 0)

Loops == {c \in 1..Calls : loop[c] # "none"}
Failed == verified \ Loops

\* Each goroutine holds both of its devices for ever, whatever the collector
\* closes.  A call that fails leaves at most the generator open, and only if
\* it got as far as that (pkg/rng/entropy.go:114-126).
HoldsItsDevices ==
  rngFds = Cardinality(Loops) /\ rngFds <= hwFds /\ hwFds <= rngFds + Cardinality(Failed)

\* If the recoverer always comes back or stops the machine, no failure ends a
\* goroutine: it looks at the pool again and again (pkg/rng/entropy.go:128-154).
KeepsWatching ==
  (\A c \in 1..Calls : WF_vars(RecoverReturns(c))) =>
    \A c \in 1..Calls : loop[c] # "none" ~> (loop[c] = "pool" \/ ~up)
================================================================================
