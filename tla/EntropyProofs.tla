------------------------------ MODULE EntropyProofs ------------------------------
(***************************************************************************)
(* For any number of calls of UpdateLinuxRandomness: what is fed to the    *)
(* random device is what was read, and the devices stay open.              *)
(***************************************************************************)
EXTENDS Entropy, FiniteSetTheorems, TLAPS

\* What is known of the call under way, and of those that are still to come.
CallKnown ==
  /\ \A c \in 1..Calls : c > call => loop[c] = "none"
  /\ pc # "idle" => call \in 1..Calls /\ loop[call] = "none"
  /\ pc \in {"select", "verify"} => call \notin verified
  /\ pc = "verify" => selected \in Range(trngList)
  /\ pc \in {"openHw", "openRng"} => call \in verified

\* The descriptors of the call under way.
HoldsNow ==
  /\ pc = "openHw" => hwFds < rngFds + Cardinality(Failed)
  /\ pc = "openRng" => hwFds > rngFds

Inv == TypeOK /\ CallKnown /\ FeedsOnlyWhatItRead /\ HoldsItsDevices /\ HoldsNow
---------------------------------------------------------------------------
\* A set of calls is finite.
LEMMA FiniteCalls ==
  ASSUME NEW S, S \subseteq 1..Calls
  PROVE  IsFiniteSet(S) /\ Cardinality(S) \in Nat
<1>1. IsFiniteSet(1..Calls)
  BY EntropyAssumption, FS_Interval
<1> QED  BY <1>1, FS_Subset, FS_CardinalityType

\* One call more in a set of calls.
LEMMA OneMore ==
  ASSUME NEW S, S \subseteq 1..Calls, NEW c \in 1..Calls, c \notin S
  PROVE  Cardinality(S \cup {c}) = Cardinality(S) + 1
  BY FiniteCalls, FS_AddElement

\* One call less.
LEMMA OneLess ==
  ASSUME NEW S, S \subseteq 1..Calls, NEW c \in S
  PROVE  Cardinality(S \ {c}) = Cardinality(S) - 1
  BY FiniteCalls, FS_RemoveElement

\* The numbers of a state.
LEMMA Numbers ==
  ASSUME TypeOK
  PROVE  /\ Calls \in Nat /\ call \in 0..Calls /\ EntropyBlockSize \in Nat \ {0}
         /\ hwFds \in Nat /\ rngFds \in Nat
         /\ Loops \subseteq 1..Calls /\ Failed \subseteq 1..Calls
         /\ Cardinality(Loops) \in Nat /\ Cardinality(Failed) \in Nat
<1>1. Calls \in Nat /\ call \in 0..Calls /\ EntropyBlockSize \in Nat \ {0}
  BY EntropyAssumption DEF TypeOK
<1>2. hwFds \in Nat /\ rngFds \in Nat
  BY DEF TypeOK
<1>3. Loops \subseteq 1..Calls
  BY DEF Loops
<1>4. verified \subseteq 1..call /\ 1..call \subseteq 1..Calls
  BY <1>1 DEF TypeOK
<1>5. Failed \subseteq 1..Calls
  BY <1>4 DEF Failed
<1> QED  BY <1>1, <1>2, <1>3, <1>5, FiniteCalls

\* The generators that are accepted are generators.
LEMMA AcceptedType == Range(trngList) \subseteq Generators
  BY EntropyAssumption DEF Range

\* What leaves the descriptors and the goroutines alone keeps the balance.
LEMMA HoldsUnchanged ==
  ASSUME Inv, UNCHANGED <<fdVars, loop, verified, pc>>
  PROVE  HoldsItsDevices' /\ HoldsNow'
<1>1. Loops' = Loops /\ Failed' = Failed
  BY DEF Loops, Failed
<1>2. UNCHANGED <<hwFds, rngFds, pc>>
  BY DEF fdVars
<1> QED  BY <1>1, <1>2 DEF Inv, HoldsItsDevices, HoldsNow

\* So does a goroutine that goes to its next step.
LEMMA HoldsInTheLoop ==
  ASSUME Inv, NEW c \in 1..Calls, loop[c] # "none",
         NEW step \in Steps, loop' = [loop EXCEPT ![c] = step],
         UNCHANGED <<fdVars, verified, pc>>
  PROVE  HoldsItsDevices' /\ HoldsNow'
<1>1. loop \in [1..Calls -> Steps \cup {"none"}] /\ step # "none"
  BY DEF Inv, TypeOK, Steps
<1>2. Loops' = Loops
  BY <1>1 DEF Loops
<1>3. Failed' = Failed
  BY <1>2 DEF Failed
<1>4. UNCHANGED <<hwFds, rngFds, pc>>
  BY DEF fdVars
<1> QED  BY <1>2, <1>3, <1>4 DEF Inv, HoldsItsDevices, HoldsNow

LEMMA InitInv == Init => Inv
<1> SUFFICES ASSUME Init PROVE Inv
  OBVIOUS
<1>0. Calls \in Nat /\ EntropyBlockSize \in Nat
  BY EntropyAssumption
<1>1. TypeOK
  BY <1>0 DEF Init, TypeOK
<1>2. CallKnown /\ FeedsOnlyWhatItRead /\ HoldsNow
  BY <1>0 DEF Init, CallKnown, FeedsOnlyWhatItRead, HoldsNow
<1>3. Loops = {} /\ Failed = {}
  BY DEF Init, Loops, Failed
<1>4. HoldsItsDevices
  BY <1>3, FS_EmptySet DEF Init, HoldsItsDevices
<1> QED  BY <1>1, <1>2, <1>4 DEF Inv
---------------------------------------------------------------------------
\* A step at which the call returns an error.
LEMMA FailsInv ==
  ASSUME Inv, up, pc # "idle", CallStep, Fails
  PROVE  Inv'
<1> USE DEF Inv
<1>1. /\ pc' = "idle"
      /\ UNCHANGED <<selected, verified, current, loop, hwFds, rngFds>>
      /\ UNCHANGED <<available, newline, up, secure, call, recovers, length, got>>
  BY DEF Fails, CallStep, fdVars
<1>2. TypeOK'
  BY <1>1 DEF TypeOK
<1>3. CallKnown' /\ FeedsOnlyWhatItRead' /\ HoldsNow'
  BY <1>1 DEF CallKnown, FeedsOnlyWhatItRead, HoldsNow
<1>4. Loops' = Loops /\ Failed' = Failed
  BY <1>1 DEF Loops, Failed
<1>5. HoldsItsDevices'
  BY <1>1, <1>4 DEF HoldsItsDevices
<1> QED  BY <1>2, <1>3, <1>5

\* The steps of a call.
LEMMA CallInv ==
  ASSUME Inv, Update \/ Select \/ Verify \/ OpenHwRng \/ OpenRandom
  PROVE  Inv'
<1> USE DEF Inv
<1>0. /\ Calls \in Nat /\ call \in 0..Calls
      /\ hwFds \in Nat /\ rngFds \in Nat
      /\ Loops \subseteq 1..Calls /\ Failed \subseteq 1..Calls
      /\ Cardinality(Loops) \in Nat /\ Cardinality(Failed) \in Nat
  BY Numbers
<1>1. CASE Update
  <2>1. /\ pc = "idle" /\ call < Calls
        /\ pc' = "select" /\ call' = call + 1 /\ selected' = None
        /\ UNCHANGED <<available, current, newline, up, secure, verified,
                       hwFds, rngFds, loop, recovers, length, got>>
    BY <1>1 DEF Update, At, kernelVars, fdVars, loopVars
  <2>2. call' \in 1..Calls /\ verified \subseteq 1..call
    BY <1>0, <2>1 DEF TypeOK
  <2>3. verified' \subseteq 1..call'
    BY <1>0, <2>1, <2>2
  <2>4. TypeOK'
    BY <2>1, <2>2, <2>3 DEF TypeOK
  <2>5. call' \notin verified /\ loop[call'] = "none"
    BY <1>0, <2>1, <2>2 DEF CallKnown
  <2>6. \A c \in 1..Calls : c > call' => loop[c] = "none"
    BY <1>0, <2>1 DEF CallKnown
  <2>7. CallKnown'
    BY <2>1, <2>2, <2>5, <2>6 DEF CallKnown
  <2>8. FeedsOnlyWhatItRead' /\ HoldsNow'
    BY <2>1 DEF FeedsOnlyWhatItRead, HoldsNow
  <2>9. Loops' = Loops /\ Failed' = Failed
    BY <2>1 DEF Loops, Failed
  <2>10. HoldsItsDevices'
    BY <2>1, <2>9 DEF HoldsItsDevices
  <2> QED  BY <2>4, <2>7, <2>8, <2>10
<1>2. CASE Select /\ ~Fails
  <2>1. PICK g \in Range(trngList) : selected' = g /\ current' = g
    BY <1>2 DEF Select
  <2>2. /\ pc = "select" /\ pc' = "verify"
        /\ UNCHANGED <<verified, loop, hwFds, rngFds>>
        /\ UNCHANGED <<available, newline, up, secure, call, recovers, length, got>>
    BY <1>2 DEF Select, At, CallStep, fdVars
  <2>3. TypeOK'
    BY <2>1, <2>2, AcceptedType DEF TypeOK
  <2>4. CallKnown' /\ FeedsOnlyWhatItRead' /\ HoldsNow'
    BY <2>1, <2>2 DEF CallKnown, FeedsOnlyWhatItRead, HoldsNow
  <2>5. Loops' = Loops /\ Failed' = Failed
    BY <2>2 DEF Loops, Failed
  <2>6. HoldsItsDevices'
    BY <2>2, <2>5 DEF HoldsItsDevices
  <2> QED  BY <2>3, <2>4, <2>6
<1>3. CASE Verify /\ ~Fails
  <2>1. /\ pc = "verify" /\ pc' = "openHw" /\ verified' = verified \cup {call}
        /\ UNCHANGED <<selected, current, loop, hwFds, rngFds>>
        /\ UNCHANGED <<available, newline, up, secure, call, recovers, length, got>>
    BY <1>3 DEF Verify, At, CallStep, fdVars
  <2>2. call \in 1..Calls /\ loop[call] = "none" /\ call \notin verified
    BY <2>1 DEF CallKnown
  <2>3. call \in 1..call
    BY <1>0, <2>2
  <2>4. TypeOK'
    BY <2>1, <2>3 DEF TypeOK
  <2>5. CallKnown' /\ FeedsOnlyWhatItRead'
    BY <2>1, <2>2 DEF CallKnown, FeedsOnlyWhatItRead
  <2>6. Loops' = Loops /\ call \notin Loops
    BY <2>1, <2>2 DEF Loops
  <2>7. Failed' = Failed \cup {call} /\ call \notin Failed
    BY <2>1, <2>2, <2>6 DEF Failed
  <2>8. Cardinality(Failed') = Cardinality(Failed) + 1
    BY <1>0, <2>2, <2>7, OneMore
  <2>9. HoldsItsDevices' /\ HoldsNow'
    BY <1>0, <2>1, <2>6, <2>8 DEF HoldsItsDevices, HoldsNow
  <2> QED  BY <2>4, <2>5, <2>9
<1>4. CASE OpenHwRng /\ ~Fails
  <2>1. /\ pc = "openHw" /\ pc' = "openRng" /\ hwFds' = hwFds + 1
        /\ UNCHANGED <<selected, verified, current, loop, rngFds>>
        /\ UNCHANGED <<available, newline, up, secure, call, recovers, length, got>>
    BY <1>4 DEF OpenHwRng, At, CallStep
  <2>2. TypeOK'
    BY <1>0, <2>1 DEF TypeOK
  <2>3. CallKnown' /\ FeedsOnlyWhatItRead'
    BY <2>1 DEF CallKnown, FeedsOnlyWhatItRead
  <2>4. Loops' = Loops /\ Failed' = Failed
    BY <2>1 DEF Loops, Failed
  <2>5. HoldsItsDevices' /\ HoldsNow'
    BY <1>0, <2>1, <2>4 DEF HoldsItsDevices, HoldsNow
  <2> QED  BY <2>2, <2>3, <2>5
<1>5. CASE OpenRandom /\ ~Fails
  <2>1. /\ pc = "openRng" /\ pc' = "idle" /\ rngFds' = rngFds + 1
        /\ loop' = [loop EXCEPT ![call] = "sleep"]
        /\ UNCHANGED <<selected, verified, current, hwFds>>
        /\ UNCHANGED <<available, newline, up, secure, call, recovers, length, got>>
    BY <1>5 DEF OpenRandom, Start, At, CallStep
  <2>2. call \in 1..Calls /\ loop[call] = "none" /\ call \in verified
    BY <2>1 DEF CallKnown
  <2>3. loop \in [1..Calls -> Steps \cup {"none"}] /\ "sleep" \in Steps
    BY DEF TypeOK, Steps
  <2>4. TypeOK'
    <3>0. rngFds' \in Nat
      BY <1>0, <2>1
    <3>1. loop' \in [1..Calls -> Steps \cup {"none"}]
      BY <2>1, <2>3
    <3>2. (newline \in BOOLEAN /\ up \in BOOLEAN /\ secure \in BOOLEAN)'
      BY <2>1 DEF TypeOK
    <3>3. /\ available' \subseteq Generators /\ current' \in Generators \cup {None}
          /\ pc' = "idle" /\ call' \in 0..Calls
          /\ selected' \in Range(trngList) \cup {None} /\ verified' \subseteq 1..call'
      BY <2>1 DEF TypeOK
    <3>4. /\ recovers' \subseteq 1..Calls /\ hwFds' \in Nat
          /\ length' \in [1..Calls -> 0..EntropyBlockSize]
          /\ got' \in [1..Calls -> 0..EntropyBlockSize]
      BY <2>1 DEF TypeOK
    <3> QED  BY <3>0, <3>1, <3>2, <3>3, <3>4 DEF TypeOK
  <2>5. \A c \in 1..Calls : c > call => loop'[c] = "none"
    BY <1>0, <2>1, <2>2, <2>3 DEF CallKnown
  <2>6. CallKnown'
    BY <2>1, <2>5 DEF CallKnown
  <2>7. FeedsOnlyWhatItRead'
    BY <2>1, <2>2, <2>3 DEF FeedsOnlyWhatItRead
  <2>8. Loops' = Loops \cup {call} /\ call \notin Loops
    BY <2>1, <2>2, <2>3 DEF Loops
  <2>9. Failed' = Failed \ {call} /\ call \in Failed
    BY <2>1, <2>2, <2>8 DEF Failed
  <2>10. /\ Cardinality(Loops') = Cardinality(Loops) + 1
         /\ Cardinality(Failed') = Cardinality(Failed) - 1
    BY <1>0, <2>2, <2>8, <2>9, OneMore, OneLess
  <2>11. HoldsItsDevices' /\ HoldsNow'
    BY <1>0, <2>1, <2>10 DEF HoldsItsDevices, HoldsNow
  <2> QED  BY <2>4, <2>6, <2>7, <2>11
<1>6. CASE (Select \/ Verify \/ OpenHwRng \/ OpenRandom) /\ Fails
  <2>1. up /\ pc # "idle" /\ CallStep
    BY <1>6 DEF Select, Verify, OpenHwRng, OpenRandom, At
  <2> QED  BY <1>6, <2>1, FailsInv
<1> QED  BY <1>1, <1>2, <1>3, <1>4, <1>5, <1>6
---------------------------------------------------------------------------
\* The steps of a goroutine.
LEMMA FeedInv ==
  ASSUME Inv, NEW c \in 1..Calls, Feed(c)
  PROVE  Inv'
<1> USE DEF Inv
<1>0. Calls \in Nat /\ EntropyBlockSize \in Nat \ {0}
  BY Numbers
<1>1. /\ loop[c] \in Steps /\ loop[c] # "none" /\ c \notin recovers
      /\ UNCHANGED <<kernelVars, callVars, fdVars>>
  BY DEF Feed, Sleep, ReadPool, ParseNothing, ReadHwRng, WriteRandom, AtStep, Steps
<1>t. /\ loop \in [1..Calls -> Steps \cup {"none"}]
      /\ length \in [1..Calls -> 0..EntropyBlockSize]
      /\ got \in [1..Calls -> 0..EntropyBlockSize]
      /\ recovers \subseteq 1..Calls
  BY DEF TypeOK
<1>2. \E step \in Steps :
        /\ loop' = [loop EXCEPT ![c] = step]
        /\ recovers' = recovers \/ recovers' = recovers \cup {c}
        /\ length' \in [1..Calls -> 0..EntropyBlockSize]
        /\ got' \in [1..Calls -> 0..EntropyBlockSize]
        /\ \A d \in 1..Calls : d # c => length'[d] = length[d] /\ got'[d] = got[d]
        /\ step = "write" => length'[c] = got'[c] /\ (c \in recovers' => got'[c] = 0)
  <2>1. CASE Sleep(c)
    <3>1. /\ loop' = [loop EXCEPT ![c] = "pool"] /\ recovers' = recovers
          /\ length' = [length EXCEPT ![c] = 0] /\ got' = [got EXCEPT ![c] = 0]
      BY <2>1 DEF Sleep, Goto
    <3> QED  BY <1>0, <1>t, <3>1 DEF Steps
  <2>2. CASE ReadPool(c)
    <3>1. UNCHANGED <<length, got>>
      BY <2>2 DEF ReadPool
    <3>2. CASE \E step \in {"parse", "hwrng", "sleep"} : RecoverThen(c, step)
      BY <1>t, <3>1, <3>2 DEF RecoverThen, Steps
    <3>3. CASE \E level \in Levels :
                 Goto(c, IF level >= EntropyThreshold THEN "sleep" ELSE "hwrng")
      <4>1. Goto(c, "sleep") \/ Goto(c, "hwrng")
        BY <3>3
      <4> QED  BY <1>t, <3>1, <4>1 DEF Goto, Steps
    <3> QED  BY <2>2, <3>2, <3>3 DEF ReadPool
  <2>3. CASE ParseNothing(c)
    BY <1>t, <2>3 DEF ParseNothing, RecoverThen, Steps
  <2>4. CASE ReadHwRng(c)
    <3>1. PICK n \in 0..EntropyBlockSize :
            /\ got' = [got EXCEPT ![c] = n] /\ length' = [length EXCEPT ![c] = n]
            /\ IF n > 0 THEN Goto(c, "write") ELSE RecoverThen(c, "write")
      BY <2>4 DEF ReadHwRng, Bytes
    <3>2. /\ length' \in [1..Calls -> 0..EntropyBlockSize]
          /\ got' \in [1..Calls -> 0..EntropyBlockSize]
          /\ \A d \in 1..Calls : d # c => length'[d] = length[d] /\ got'[d] = got[d]
          /\ length'[c] = n /\ got'[c] = n
      BY <1>t, <3>1
    <3>3. CASE n > 0
      BY <1>1, <3>1, <3>2, <3>3 DEF Goto, Steps
    <3>4. CASE ~(n > 0)
      <4>1. n = 0
        BY <1>0, <3>4
      <4> QED  BY <3>1, <3>2, <3>4, <4>1 DEF RecoverThen, Steps
    <3> QED  BY <3>3, <3>4
  <2>5. CASE WriteRandom(c)
    BY <1>t, <2>5 DEF WriteRandom, Goto, RecoverThen, Steps
  <2> QED  BY <2>1, <2>2, <2>3, <2>4, <2>5 DEF Feed
<1>3. PICK step \in Steps :
        /\ loop' = [loop EXCEPT ![c] = step]
        /\ recovers' = recovers \/ recovers' = recovers \cup {c}
        /\ length' \in [1..Calls -> 0..EntropyBlockSize]
        /\ got' \in [1..Calls -> 0..EntropyBlockSize]
        /\ \A d \in 1..Calls : d # c => length'[d] = length[d] /\ got'[d] = got[d]
        /\ step = "write" => length'[c] = got'[c] /\ (c \in recovers' => got'[c] = 0)
  BY <1>2
<1>4. UNCHANGED <<available, current, newline, up, secure, pc, call, selected, verified, hwFds, rngFds>>
  BY <1>1 DEF kernelVars, callVars, fdVars
<1>5. TypeOK'
  <2>1. /\ loop' \in [1..Calls -> Steps \cup {"none"}]
        /\ recovers' \subseteq 1..Calls
    BY <1>t, <1>3
  <2> QED  BY <1>3, <1>4, <2>1 DEF TypeOK
<1>6. /\ loop'[c] = step
      /\ \A d \in 1..Calls : d # c => loop'[d] = loop[d] /\ (d \in recovers' <=> d \in recovers)
  BY <1>t, <1>3
<1>7. CallKnown'
  BY <1>1, <1>4, <1>6 DEF CallKnown
<1>8. FeedsOnlyWhatItRead'
  BY <1>1, <1>3, <1>4, <1>6 DEF FeedsOnlyWhatItRead
<1>9. HoldsItsDevices' /\ HoldsNow'
  BY <1>1, <1>3, <1>4, HoldsInTheLoop DEF fdVars
<1> QED  BY <1>5, <1>7, <1>8, <1>9

LEMMA NextInv == Inv /\ [Next]_vars => Inv'
<1> SUFFICES ASSUME Inv, [Next]_vars PROVE Inv'
  OBVIOUS
<1> USE DEF Inv
<1>1. CASE Update \/ Select \/ Verify \/ OpenHwRng \/ OpenRandom
  BY <1>1, CallInv
<1>2. CASE Finalize
  <2>1. /\ hwFds > rngFds /\ (pc = "openRng" => hwFds > rngFds + 1) /\ hwFds' = hwFds - 1
        /\ UNCHANGED <<available, current, newline, up, secure, pc, call, selected, verified,
                       rngFds, loop, recovers, length, got>>
    BY <1>2, Numbers DEF Finalize, kernelVars, callVars, loopVars
  <2>2. hwFds' \in Nat
    BY <2>1, Numbers
  <2>3. TypeOK'
    BY <2>1, <2>2 DEF TypeOK
  <2>4. CallKnown' /\ FeedsOnlyWhatItRead'
    BY <2>1 DEF CallKnown, FeedsOnlyWhatItRead
  <2>5. Loops' = Loops /\ Failed' = Failed
    BY <2>1 DEF Loops, Failed
  <2>6. HoldsItsDevices' /\ HoldsNow'
    BY <2>1, <2>5, Numbers DEF HoldsItsDevices, HoldsNow
  <2> QED  BY <2>3, <2>4, <2>6
<1>3. CASE SelectOther
  <2>1. /\ current' \in Generators
        /\ UNCHANGED <<available, newline, up, secure, pc, call, selected, verified,
                       hwFds, rngFds, loop, recovers, length, got>>
    BY <1>3 DEF SelectOther, callVars, fdVars, loopVars, TypeOK
  <2>2. TypeOK'
    BY <2>1 DEF TypeOK
  <2>3. CallKnown' /\ FeedsOnlyWhatItRead'
    BY <2>1 DEF CallKnown, FeedsOnlyWhatItRead
  <2> QED  BY <2>1, <2>2, <2>3, HoldsUnchanged DEF fdVars
<1>4. ASSUME NEW c \in 1..Calls, Feed(c) PROVE Inv'
  BY <1>4, FeedInv
<1>5. ASSUME NEW c \in 1..Calls, RecoverReturns(c) PROVE Inv'
  <2>1. /\ recovers' = recovers \ {c}
        /\ UNCHANGED <<available, current, newline, up, secure, pc, call, selected, verified,
                       hwFds, rngFds, loop, length, got>>
    BY <1>5 DEF RecoverReturns, kernelVars, callVars, fdVars
  <2>2. TypeOK'
    BY <2>1 DEF TypeOK
  <2>3. CallKnown' /\ FeedsOnlyWhatItRead'
    BY <2>1 DEF CallKnown, FeedsOnlyWhatItRead
  <2> QED  BY <2>1, <2>2, <2>3, HoldsUnchanged DEF fdVars
<1>6. ASSUME NEW c \in 1..Calls, GoDown(c) PROVE Inv'
  <2>1. /\ up' = FALSE
        /\ UNCHANGED <<available, current, newline, secure, pc, call, selected, verified,
                       hwFds, rngFds, loop, recovers, length, got>>
    BY <1>6 DEF GoDown, callVars, fdVars, loopVars
  <2>2. TypeOK'
    BY <2>1 DEF TypeOK
  <2>3. CallKnown' /\ FeedsOnlyWhatItRead'
    BY <2>1 DEF CallKnown, FeedsOnlyWhatItRead
  <2> QED  BY <2>1, <2>2, <2>3, HoldsUnchanged DEF fdVars
<1>7. CASE UNCHANGED vars
  <2>1. UNCHANGED <<available, current, newline, up, secure, pc, call, selected, verified,
                    hwFds, rngFds, loop, recovers, length, got>>
    BY <1>7 DEF vars, kernelVars, callVars, fdVars, loopVars
  <2>2. TypeOK'
    BY <2>1 DEF TypeOK
  <2>3. CallKnown' /\ FeedsOnlyWhatItRead'
    BY <2>1 DEF CallKnown, FeedsOnlyWhatItRead
  <2> QED  BY <2>1, <2>2, <2>3, HoldsUnchanged DEF fdVars
<1> QED  BY <1>1, <1>2, <1>3, <1>4, <1>5, <1>6, <1>7 DEF Next

LEMMA AlwaysInv == Spec => []Inv
  BY InitInv, NextInv, PTL DEF Spec

\* The call and its goroutines stay within their types.
THEOREM Types == Spec => []TypeOK
<1>1. Inv => TypeOK
  BY DEF Inv
<1> QED  BY <1>1, AlwaysInv, PTL

\* Whatever fails, a goroutine writes to the random device just what it has
\* read in the same round, of a generator that its call had read back.
THEOREM OnlyWhatWasReadIsFed == Spec => []FeedsOnlyWhatItRead
<1>1. Inv => FeedsOnlyWhatItRead
  BY DEF Inv
<1> QED  BY <1>1, AlwaysInv, PTL

\* Each goroutine holds both devices for ever, and at most one generator
\* stays open for each call that failed.
THEOREM DevicesAreHeld == Spec => []HoldsItsDevices
<1>1. Inv => HoldsItsDevices
  BY DEF Inv
<1> QED  BY <1>1, AlwaysInv, PTL
================================================================================
