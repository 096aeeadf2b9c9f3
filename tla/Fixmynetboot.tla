------------------------------ MODULE Fixmynetboot ------------------------------
(***************************************************************************)
(* fixmynetboot, which netboot runs with -fix and an operator runs by      *)
(* hand, and the check lists of pkg/checker that it is made of.  The state *)
(* of the network interfaces is the kernel's: it changes between any two   *)
(* checks.  Names that netboot's own module has too begin with "fix", so   *)
(* that one module can hold proofs about both.                             *)
(***************************************************************************)
EXTENDS Naturals, Sequences, FiniteSets, SequencesExt

CONSTANTS
  Ifaces,     \* the non-loopback interfaces a kernel may have
  eth0,       \* the interface whose name is in the code
  NoIface,    \* no argument
  Arguments,  \* the arguments fixmynetboot may get
  MaxChanges  \* bound on the changes of the interfaces

Names == (Ifaces \cup Arguments \cup {eth0}) \ {NoIface}
Facts == {"exists", "speed", "autoneg", "linklocal", "global"}

ASSUME FixmynetbootAssumption ==
  /\ IsFiniteSet(Ifaces) /\ NoIface \notin Ifaces \cup {eth0}
  /\ MaxChanges \in Nat

VARIABLES
  facts,       \* the pairs <<interface, fact>> that are true now
  changes,     \* changes of facts so far
  arg, shell,  \* the command line: the interface, -shell
  fixpc,       \* "start"; "check"; "shell" in the emergency shell; "exit"
  exitcode,    \* exit code
  interfaces,  \* local variable of main
  nth, idx,    \* the interface, and the check in its list
  passed,      \* history: pairs <<nth, idx>> that passed when they were run
  shells       \* history: the nth for which the emergency shell came back

worldVars == <<facts, changes>>
argVars == <<arg, shell>>
fixVars == <<worldVars, argVars, fixpc, exitcode, interfaces, nth, idx, passed, shells>>

\* A check asks the kernel: what is not there has no other property.
Holds(name, fact) == {<<name, "exists">>, <<name, fact>>} \subseteq facts

Checklist(ifname) ==
  <<[on |-> ifname, fact |-> "exists",    remediate |-> TRUE,  stop |-> TRUE],
    [on |-> ifname, fact |-> "speed",     remediate |-> FALSE, stop |-> FALSE],
    [on |-> ifname, fact |-> "autoneg",   remediate |-> FALSE, stop |-> FALSE],
    [on |-> ifname, fact |-> "linklocal", remediate |-> FALSE, stop |-> TRUE],
    [on |-> eth0,   fact |-> "global",    remediate |-> FALSE, stop |-> TRUE]>>

FixInit ==
  /\ facts \in SUBSET (Names \X Facts) /\ changes = 0
  /\ arg \in Arguments /\ shell \in BOOLEAN
  /\ fixpc = "start" /\ exitcode = 0 /\ interfaces = <<>> /\ nth = 1 /\ idx = 1
  /\ passed = {} /\ shells = {}

ExitWith(c) == fixpc' = "exit" /\ exitcode' = c

\* Without an argument all interfaces that are there now are checked, in the
\* order in which the kernel has them, and net.Interfaces may fail.
Start ==
  /\ fixpc = "start"
  /\ \/ /\ interfaces' \in IF arg # NoIface THEN {<<arg>>}
                           ELSE SetToSeqs({f \in Ifaces : <<f, "exists">> \in facts})
        /\ fixpc' = "check" /\ UNCHANGED exitcode
     \/ arg = NoIface /\ ExitWith(1) /\ UNCHANGED interfaces
  /\ UNCHANGED <<worldVars, argVars, nth, idx, passed, shells>>

Checks == fixpc = "check" /\ nth <= Len(interfaces) /\ idx <= Len(Checklist(interfaces[nth]))
Check == Checklist(interfaces[nth])[idx]

\* Mutant: a check without a remediation never stops the run.
StopsIfRemediated == Check.stop /\ Check.remediate

Stops == Check.stop

Pass ==
  /\ Checks /\ Holds(Check.on, Check.fact)
  /\ passed' = passed \cup {<<nth, idx>>} /\ idx' = idx + 1
  /\ UNCHANGED <<worldVars, argVars, fixpc, exitcode, interfaces, nth, shells>>

\* The run goes on after a check that failed: a remediation came back without
\* an error, or the check is not one that stops.  InterfaceRemediate looks for
\* the name in the kernel's messages; it repairs nothing.
GoOn ==
  /\ Checks /\ ~Holds(Check.on, Check.fact)
  /\ Check.remediate \/ ~Stops
  /\ idx' = idx + 1
  /\ UNCHANGED <<worldVars, argVars, fixpc, exitcode, interfaces, nth, passed, shells>>

\* checkInterface returns the error of the remediation or of the check.
CheckFails ==
  /\ Checks /\ ~Holds(Check.on, Check.fact) /\ Stops
  /\ IF shell THEN fixpc' = "shell" /\ UNCHANGED exitcode ELSE ExitWith(1)
  /\ UNCHANGED <<worldVars, argVars, interfaces, nth, idx, passed, shells>>

\* The shell comes back, after any time; main goes on to the next interface.
ShellReturns ==
  /\ fixpc = "shell" /\ fixpc' = "check"
  /\ nth' = nth + 1 /\ idx' = 1 /\ shells' = shells \cup {nth}
  /\ UNCHANGED <<worldVars, argVars, exitcode, interfaces, passed>>

ShellFails ==
  /\ fixpc = "shell" /\ ExitWith(1)
  /\ UNCHANGED <<worldVars, argVars, interfaces, nth, idx, passed, shells>>

NextInterface ==
  /\ fixpc = "check" /\ nth <= Len(interfaces) /\ idx > Len(Checklist(interfaces[nth]))
  /\ nth' = nth + 1 /\ idx' = 1
  /\ UNCHANGED <<worldVars, argVars, fixpc, exitcode, interfaces, passed, shells>>

Done ==
  /\ fixpc = "check" /\ nth > Len(interfaces) /\ ExitWith(0)
  /\ UNCHANGED <<worldVars, argVars, interfaces, nth, idx, passed, shells>>

\* An interface comes or goes, or one of its properties does.
Change ==
  /\ changes < MaxChanges /\ changes' = changes + 1
  /\ \E x \in Names \X Facts :
       facts' = IF x \in facts THEN facts \ {x} ELSE facts \cup {x}
  /\ UNCHANGED <<argVars, fixpc, exitcode, interfaces, nth, idx, passed, shells>>

FixNext ==
  \/ Start \/ Pass \/ GoOn \/ CheckFails \/ ShellReturns \/ ShellFails
  \/ NextInterface \/ Done \/ Change

FixSpec == FixInit /\ [][FixNext]_fixVars
---------------------------------------------------------------------------
\* Types of the variables.
FixTypeOK ==
  /\ facts \subseteq Names \X Facts /\ changes \in 0..MaxChanges
  /\ arg \in Arguments /\ shell \in BOOLEAN
  /\ fixpc \in {"start", "check", "shell", "exit"} /\ exitcode \in {0, 1}
  /\ interfaces \in Seq(Names) /\ nth \in 1..(Len(interfaces) + 1) /\ idx \in 1..6
  /\ passed \subseteq (1..Len(interfaces)) \X (1..5) /\ shells \subseteq 1..Len(interfaces)

\* What the exit code says, although a failed check may be passed over and a
\* remediation is not checked again.  After 0, each interface had a link-local
\* address and the machine a global one on eth0, or an operator has been in
\* the shell; so a missing interface is always noticed in the end.  A run that
\* ends with 1 had no interface list, or ended at a check that stops, or in
\* the shell (pkg/checker/checker.go:26-54, cmds/fixmynetboot/main.go:32-62, 95-104).
ExitCodeIsTrue ==
  fixpc = "exit" =>
    IF exitcode = 0
    THEN \A j \in 1..Len(interfaces) : j \in shells \/ {<<j, 4>>, <<j, 5>>} \subseteq passed
    ELSE interfaces # <<>> =>
           idx \in {1, 4, 5} /\ <<nth, idx>> \notin passed /\ \A j \in 1..(nth - 1) :
             j \in shells \/ {<<j, 4>>, <<j, 5>>} \subseteq passed
================================================================================
