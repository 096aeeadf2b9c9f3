------------------------------- MODULE GrubParser -------------------------------
(***************************************************************************)
(* ParseGrubCfg of localboot/grub.go, one line of a grub.cfg at a time.    *)
(* A line is the sequence of its words.  The kernel directory, basedir or  *)
(* the sibling directory of another partition, is the name of the device   *)
(* that is mounted there.  The title of an entry is left out.              *)
(***************************************************************************)
EXTENDS Storage

CONSTANTS
  Words,     \* the words of the lines
  HexWords,  \* those that isValidFsUUID takes for a UUID
  Plain,     \* a word without its backslashes before $, for each word
  NoFile, NoConfig

Linux == {"linux", "linux16", "linuxefi"}
Initrd == {"initrd", "initrd16", "initrdefi"}
Multiboot == {"multiboot", "multiboot2"}
Module == {"module", "module2"}

Line == Seq(Words)
Path == SysDevices \X Words
ConfigType == [kernel : Path \cup {NoFile},    args : Line,
               initramfs : Path \cup {NoFile},
               multiboot : Path \cup {NoFile}, mbargs : Line,
               modules : Seq(Path \X Line)]

ASSUME GrubParserAssumption ==
  /\ HexWords \subseteq Words /\ HexWords \subseteq Uuids
  /\ Plain \in [Words -> Words]
  /\ NoFile \notin SysDevices \X Words /\ NoConfig \notin ConfigType

EmptyConfig == [kernel |-> NoFile, args |-> <<>>, initramfs |-> NoFile,
                multiboot |-> NoFile, mbargs |-> <<>>, modules |-> <<>>]

IsValid(c) == (c.kernel # NoFile) # (c.multiboot # NoFile)

VARIABLES
  basedir,        \* the device that the grub.cfg is on
  ver,            \* 1 for grub.cfg, 2 for grub2.cfg
  kernelBasedir,
  cfg,            \* NoConfig for nil, that is, while inMenuEntry is false
  bootconfigs,    \* the configurations of the file that are complete
  text            \* history: the lines read

parserVars == <<ver, kernelBasedir, cfg, bootconfigs, text>>

\* strings.Join(sline[2:], " "), unquoted
Cmdline(sline) ==
  [i \in 1..(Len(sline) - 2) |-> IF ver = 2 THEN Plain[sline[i + 2]] ELSE sline[i + 2]]

isValidFsUUID(word) == word \in HexWords

\* The places of the words that name a partition on the list.
Hits(sline) ==
  {i \in 1..Len(sline) : isValidFsUUID(sline[i]) /\ PartitionsByFsUUID(sline[i]) # {}}

\* The kernel directory after a line: a search directive moves it to the last
\* partition it names, the first of those with the same UUID.
Search(sline) ==
  IF sline[1] = "search" /\ Contains(sline, "--set=root") /\ Hits(sline) # {}
  THEN devices[Min(PartitionsByFsUUID(sline[Max(Hits(sline))]))].name
  ELSE kernelBasedir

\* Mutant: the arguments of a module are lost.
DirectiveWithoutArgs(sline) ==
  IF sline[1] \in Module
  THEN [cfg EXCEPT !.modules = Append(@, <<Search(sline), sline[2]>>)]
  ELSE cfg

\* The configuration after a line with at least two words.
Directive(sline) ==
  LET path == <<Search(sline), sline[2]>>
      args == Cmdline(sline)
  IN CASE sline[1] \in Linux     -> [cfg EXCEPT !.kernel = path, !.args = args]
       [] sline[1] \in Initrd    -> [cfg EXCEPT !.initramfs = path]
       [] sline[1] \in Multiboot -> [cfg EXCEPT !.multiboot = path, !.mbargs = args]
       [] sline[1] \in Module    -> [cfg EXCEPT !.modules = Append(@, <<path, args>>)]
       [] OTHER                  -> cfg

\* The list with the entry that ends here, if it is one and is valid.
WithEntry ==
  IF cfg # NoConfig /\ IsValid(cfg) THEN Append(bootconfigs, cfg) ELSE bootconfigs

StartParse(version) ==
  /\ ver' = version /\ kernelBasedir' = basedir
  /\ cfg' = NoConfig /\ bootconfigs' = <<>> /\ text' = <<>>

\* Mutant: the kernel directory of one entry is kept for the next.
MenuentryKeepingDir ==
  bootconfigs' = WithEntry /\ cfg' = EmptyConfig /\ UNCHANGED kernelBasedir

\* At the first menuentry the kernel directory is still basedir.
Menuentry ==
  /\ bootconfigs' = WithEntry /\ cfg' = EmptyConfig
  /\ kernelBasedir' = basedir

InMenuEntry(sline) ==
  /\ kernelBasedir' = Search(sline)
  /\ cfg' = IF Len(sline) < 2 THEN cfg ELSE Directive(sline)
  /\ UNCHANGED bootconfigs

ParseLine(sline) ==
  /\ text' = Append(text, sline)
  /\ CASE sline[1] = "menuentry"                      -> Menuentry
       [] sline[1] # "menuentry" /\ cfg # NoConfig    -> InMenuEntry(sline)
       [] OTHER -> UNCHANGED <<kernelBasedir, cfg, bootconfigs>>
  /\ UNCHANGED ver
---------------------------------------------------------------------------
(* What a reader of the file takes it to say, without a parser.            *)

\* A finite set of numbers in their order: each at the place of its rank.
InOrder(J) ==
  [k \in 1..Cardinality(J) |->
     CHOOSE j \in {i \in J : Cardinality({h \in J : h <= i}) = k} : TRUE]

Starts(t) == {p \in 1..Len(t) : t[p][1] = "menuentry"}

\* The last line of the entry that starts at line p: there are no other ends.
End(t, p) == LET later == {q \in Starts(t) : q > p}
             IN IF later = {} THEN Len(t) ELSE Min(later) - 1

\* The words of a line that are the UUID of a device, and the first device
\* with the last of them.
Having(uuid) == {i \in 1..Len(Sys) : getUUID(media[Sys[i]]) = uuid}
Named(sline) ==
  {i \in 1..Len(sline) : sline[i] \in HexWords /\ Having(sline[i]) # {}}
Searches(sline) ==
  sline[1] = "search" /\ Contains(sline, "--set=root") /\ Named(sline) # {}
Searched(sline) == Sys[Min(Having(sline[Max(Named(sline))]))]

\* The directory that line j of the entry at p takes its files from.
DirAt(t, p, j) ==
  LET S == {k \in p..j : Searches(t[k])}
  IN IF S = {} THEN basedir ELSE Searched(t[Max(S)])

PathAt(t, p, j) == <<DirAt(t, p, j), t[j][2]>>

\* The lines of an entry that begin with one of some words, and have a second.
Lines(t, p, e, ops) == {j \in p..e : t[j][1] \in ops /\ Len(t[j]) > 1}

FileOf(t, p, e, ops) ==
  LET J == Lines(t, p, e, ops) IN IF J = {} THEN NoFile ELSE PathAt(t, p, Max(J))
ArgsOf(t, p, e, ops) ==
  LET J == Lines(t, p, e, ops) IN IF J = {} THEN <<>> ELSE Cmdline(t[Max(J)])
ModuleOf(t, p, j) == <<PathAt(t, p, j), Cmdline(t[j])>>
ModulesOf(t, p, e) ==
  LET J == Lines(t, p, e, Module)
  IN [k \in 1..Cardinality(J) |-> ModuleOf(t, p, InOrder(J)[k])]

\* The configuration in lines p to e.
Entry(t, p, e) ==
  [kernel    |-> FileOf(t, p, e, Linux),     args   |-> ArgsOf(t, p, e, Linux),
   initramfs |-> FileOf(t, p, e, Initrd),
   multiboot |-> FileOf(t, p, e, Multiboot), mbargs |-> ArgsOf(t, p, e, Multiboot),
   modules   |-> ModulesOf(t, p, e)]

EntryAt(t, p) == Entry(t, p, End(t, p))

\* All valid configurations of a file, in its order.
Entries(t) ==
  LET ps == {p \in Starts(t) : IsValid(EntryAt(t, p))}
  IN [k \in 1..Cardinality(ps) |-> EntryAt(t, InOrder(ps)[k])]
================================================================================
