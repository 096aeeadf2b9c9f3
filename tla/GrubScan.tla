-------------------------------- MODULE GrubScan --------------------------------
(***************************************************************************)
(* How localboot comes to its list of configurations: GetBlockStats lists  *)
(* the block devices, and ScanGrubConfigs walks the files of one that is   *)
(* mounted and parses each grub.cfg and grub2.cfg it meets.                *)
(*                                                                         *)
(* filepath.Walk calls a function for each file and directory, a directory *)
(* before what is in it.  The tree is the sequence of what it would meet   *)
(* if no directory were skipped; paths are relative to the mount point.    *)
(***************************************************************************)
EXTENDS GrubParser

CONSTANTS
  Names,      \* names of files and directories
  SearchDirs, \* GrubSearchDirectories
  Stripped,   \* a name without its nonspacing marks, for each name
  Trees,      \* the trees a mount point may have
  Medias,     \* what may be on the devices
  Cfgs,       \* the lines a grub.cfg may have
  MaxLines    \* bound on the lines of all files together

searchDepth == 4

Node == [path : Seq(Names), dir : BOOLEAN]

\* What filepath.Walk meets: the mount point is a directory, a file or directory
\* comes after all the directories it is in, and a directory with all in it.
IsWalk(t) ==
  /\ \A k \in 1..Len(t) : \A m \in 0..(Len(t[k].path) - 1) :
       [path |-> SubSeq(t[k].path, 1, m), dir |-> TRUE] \in {t[i] : i \in 1..(k - 1)}
  /\ \A k \in 1..Len(t) : t[k].path = <<>> => t[k].dir
  /\ \A i, k \in 1..Len(t) : i < k /\ IsStrictPrefix(t[i].path, t[k].path) =>
       \A j \in (i + 1)..k : IsStrictPrefix(t[i].path, t[j].path)

ASSUME GrubScanAssumption ==
  /\ Trees \subseteq {t \in Seq(Node) : IsWalk(t)} /\ Stripped \in [Names -> Names]
  /\ Medias \subseteq [SysDevices -> MediaType]
  /\ Cfgs \subseteq Line \ {<<>>} /\ MaxLines \in Nat

VARIABLES
  pc,      \* "list" in GetBlockStats; "walk", "parse"; "done" or "fatal"
  tree,    \* what is on the mount point
  n,       \* the device to list, or the place of the walk in the tree
  found,   \* bootconfigs of ScanGrubConfigs
  failed,  \* the walk ended with an error, which is only logged
  parsed   \* history: of each file parsed its place, the configurations it
           \* should give, and how many were found before

worldVars == <<media, basedir, tree>>
scanVars == <<found, failed, parsed>>
vars == <<worldVars, devices, parserVars, pc, n, scanVars>>

Init ==
  /\ media \in Medias /\ tree \in Trees /\ basedir \in SysDevices
  /\ devices = <<>> /\ ver = 1 /\ kernelBasedir = basedir
  /\ cfg = NoConfig /\ bootconfigs = <<>> /\ text = <<>>
  /\ pc = "list" /\ n = 1 /\ found = <<>> /\ failed = FALSE /\ parsed = <<>>

ListDevice ==
  /\ pc = "list" /\ n <= Len(Sys)
  /\ GetBlockStat(Sys[n]) /\ n' = n + 1
  /\ UNCHANGED <<worldVars, parserVars, pc, scanVars>>

\* An error of GetBlockStats is fatal for localboot.
ListFails ==
  /\ pc = "list" /\ n <= Len(Sys) /\ ~BlockStatFromBytes(media[Sys[n]])
  /\ pc' = "fatal"
  /\ UNCHANGED <<worldVars, devices, parserVars, n, scanVars>>

ListDone ==
  /\ pc = "list" /\ n > Len(Sys)
  /\ pc' = "walk" /\ n' = 1
  /\ UNCHANGED <<worldVars, devices, parserVars, scanVars>>

Visits(dir) == pc = "walk" /\ n <= Len(tree) /\ tree[n].dir = dir

StripMarks(p) == [i \in 1..Len(p) |-> Stripped[p[i]]]

\* Mutant: the mount point counts as a level of its own.
DepthFromRoot(p) == Len(p) + 1

\* The mount point itself is ".", of depth 1 like the directories in it.
Depth(p) == IF p = <<>> THEN 1 ELSE Len(p)

Skips(p) ==
  \/ Len(p) = 1 /\ StripMarks(p)[1] \notin SearchDirs
  \/ Depth(p) > searchDepth

\* A directory is skipped with all that is in it.
SkipDir ==
  LET below(j) == IsStrictPrefix(tree[n].path, tree[j].path)
  IN /\ n' \in (n + 1)..(Len(tree) + 1)
     /\ \A j \in (n + 1)..(n' - 1) : below(j)
     /\ n' <= Len(tree) => ~below(n')

VisitDir ==
  /\ Visits(TRUE)
  /\ IF Skips(tree[n].path) THEN SkipDir ELSE n' = n + 1
  /\ UNCHANGED <<worldVars, devices, parserVars, pc, scanVars>>

\* The GRUB version by the name of a file, 0 for all other files.
Version(p) == CASE Last(p) = "grub.cfg" -> 1 [] Last(p) = "grub2.cfg" -> 2 [] OTHER -> 0

PassFile ==
  /\ Visits(FALSE) /\ Version(tree[n].path) = 0
  /\ n' = n + 1
  /\ UNCHANGED <<worldVars, devices, parserVars, pc, scanVars>>

\* The file is read under its name without marks, if there is such a file.
ReadFile ==
  /\ Visits(FALSE) /\ Version(tree[n].path) > 0
  /\ [path |-> StripMarks(tree[n].path), dir |-> FALSE] \in Range(tree)
  /\ StartParse(Version(tree[n].path)) /\ pc' = "parse"
  /\ UNCHANGED <<worldVars, devices, n, scanVars>>

\* What cannot be read, a file or a directory to be skipped too, ends the walk.
WalkFails ==
  /\ pc = "walk" /\ n <= Len(tree)
  /\ failed' = TRUE /\ pc' = "done"
  /\ UNCHANGED <<worldVars, devices, parserVars, n, found, parsed>>

LinesRead == FoldLeft(LAMBDA s, p : s + p.lines, Len(text), parsed)

NextLine ==
  /\ pc = "parse" /\ LinesRead < MaxLines
  /\ \E sline \in Cfgs : ParseLine(sline)
  /\ UNCHANGED <<worldVars, devices, pc, n, scanVars>>

ParseReturns ==
  /\ pc = "parse" /\ pc' = "walk" /\ n' = n + 1
  /\ found' = found \o WithEntry
  /\ parsed' = Append(parsed, [place |-> n, lines |-> Len(text), before |-> Len(found),
                               configs |-> Entries(text)])
  /\ UNCHANGED <<worldVars, devices, parserVars, failed>>

WalkReturns ==
  /\ pc = "walk" /\ n > Len(tree) /\ pc' = "done"
  /\ UNCHANGED <<worldVars, devices, parserVars, n, scanVars>>

Next ==
  \/ ListDevice \/ ListFails \/ ListDone \/ VisitDir \/ PassFile \/ ReadFile
  \/ WalkFails \/ NextLine \/ ParseReturns \/ WalkReturns

Spec == Init /\ [][Next]_vars
---------------------------------------------------------------------------
\* Types of the variables.
TypeOK ==
  /\ media \in Medias /\ tree \in Trees /\ basedir \in SysDevices
  /\ devices \in Seq(BlockDev)
  /\ ver \in {1, 2} /\ kernelBasedir \in SysDevices
  /\ cfg \in ConfigType \cup {NoConfig} /\ bootconfigs \in Seq(ConfigType)
  /\ text \in Seq(Cfgs)
  /\ pc \in {"list", "walk", "parse", "done", "fatal"}
  /\ n \in Nat \ {0} /\ found \in Seq(ConfigType) /\ failed \in BOOLEAN
  /\ parsed \in Seq([place : Nat, lines : Nat, before : Nat, configs : Seq(ConfigType)])

\* After each line the parser holds what a reader takes the lines so far to
\* say: the last directive of each kind in an entry, up to the next menuentry
\* and never across it, its files on the partition last searched in the entry
\* or else beside the grub.cfg (localboot/grub.go:63-153, and the list of
\* devices, pkg/storage/blockdev.go:157-172, 364-374).
ReadsEntriesAsWritten == pc = "parse" => WithEntry = Entries(text)

\* Whether a file is in the directories to search, and not too deep in them.
Relevant(k) ==
  LET p == tree[k].path
  IN /\ ~tree[k].dir /\ Last(p) \in {"grub.cfg", "grub2.cfg"}
     /\ Len(p) = 1 \/ Stripped[p[1]] \in SearchDirs
     /\ Len(p) <= searchDepth + 1

\* How many configurations the first i files give.
FoundBy(i) == IF i = 0 THEN 0 ELSE parsed[i].before + Len(parsed[i].configs)

\* The walk parses every relevant file it has come by, no other, in their
\* order, and returns all their configurations; only an error ends it before
\* the last file (localboot/grub.go:178-243).
FindsAllUpToAnError ==
  /\ pc # "list" /\ pc # "fatal" =>
       {p.place : p \in Range(parsed)} = {k \in 1..(n - 1) : k <= Len(tree) /\ Relevant(k)}
  /\ \A i, j \in 1..Len(parsed) : i < j => parsed[i].place < parsed[j].place
  /\ \A i \in 1..Len(parsed) :
       /\ parsed[i].before = FoundBy(i - 1)
       /\ \A k \in 1..Len(parsed[i].configs) :
            found[parsed[i].before + k] = parsed[i].configs[k]
  /\ Len(found) = FoundBy(Len(parsed))
  /\ pc = "done" => failed \/ n > Len(tree)
================================================================================
