------------------------------- MODULE Files -------------------------------
(***************************************************************************)
(* The FAT file words of AApen (src/src/sdcard.f): the walk through a      *)
(* directory's clusters, FIND-FILE and what is built on it, and the table  *)
(* of open files.                                                          *)
(*                                                                         *)
(* A word runs from one block read to the next.  Any read may throw, and   *)
(* the throw leaves the variables as they are at that point.  The disk is  *)
(* given by its directories, each a sequence of 32-byte entries laid out   *)
(* in a chain of clusters; the cluster <<d, k>> is the k-th of the chain   *)
(* that begins at d.  Only where the entries go depends on the geometry.   *)
(***************************************************************************)
EXTENDS Integers, Sequences

CONSTANTS
  Names,      \* names a program looks for
  Root,       \* root-cluster
  Directory,  \* first cluster of a chain -> its entries [name, first, size]
  Other,      \* a name no program looks for: deleted entries, long names, data
  None,       \* cluster 0
  EndMark,    \* an entry that begins with a zero byte
  PerRead,    \* directory entries in a sector: 16
  Sectors,    \* sectors-per-cluster: one or two.  bbuf has 1032 bytes; a larger
              \*   cluster overruns it into the FAT's parameters behind it
  NFiles,     \* 20 in the code
  Span        \* buffers of 128 bytes a cluster fills: 4 * Sectors

Starts == DOMAIN Directory

ASSUME DiskAssumption ==
  /\ Root \in Starts /\ None \notin Starts
  /\ PerRead \in Nat \ {0} /\ Sectors \in {1, 2}
  /\ NFiles \in Nat \ {0} /\ Span \in Nat \ {0}
  /\ \A d \in Starts :
       /\ Directory[d] \in Seq([name : Names \union {Other},
                                 first : Starts \union {None}, size : Nat])
       /\ Directory[d] # << >> /\ \A i \in 1..Len(Directory[d]) : Directory[d][i] # EndMark

VARIABLES
  pc,       \* the step the word being executed has reached
  call,     \* that word and its arguments
  curdir,   \* curdir: None before MOUNT
  cur,      \* dirwalk-cur-cluster
  index,    \* dirwalk-cur-index
  saw,      \* dirwalk-saw-last?
  bbuf,     \* the cluster in bbuf
  under,    \* cells the walk has left under FIND-FILE's own
  files,    \* the table of open files
  intact,   \* no read has run over the end of the buffers
  held      \* history: the file ids a program was given and has not closed

walk == << cur, index, saw, bbuf, under >>
table == << files, intact, held >>
vars == << pc, call, curdir, walk, table >>

Fids == 0..NFiles - 1
Free == [flags |-> 0, first |-> None, size |-> 0, position |-> 0, cluster |-> None]
Idle == [word |-> "none"]

Init ==
  /\ pc = "idle" /\ call = Idle /\ curdir = None
  /\ cur = None /\ index = -1 /\ saw = FALSE /\ bbuf = None /\ under = 0
  /\ files = [f \in Fids |-> Free]
  /\ intact = TRUE /\ held = {}

----------------------------------------------------------------------------
(* The disk.                                                               *)

PerCluster == PerRead * Sectors
Clusters(d) == (Len(Directory[d]) + PerCluster - 1) \div PerCluster

\* fat@: the cluster behind c in its chain, or the end (FAT-END?).
End == << None, 0 >>
Fat(c) == IF c[2] < Clusters(c[1]) THEN << c[1], c[2] + 1 >> ELSE End

\* dirent: entry i of the cluster in bbuf.
EntryAt(c, i) ==
  LET k == (c[2] - 1) * PerCluster + i + 1 IN
    IF k <= Len(Directory[c[1]]) THEN Directory[c[1]][k] ELSE EndMark
Dirent == EntryAt(bbuf, index)

----------------------------------------------------------------------------
(* Mounting.                                                               *)

\* MOUNT reads the partition table and the boot sector; a read that throws
\* leaves the volume unmounted (see Throw).
Mount ==
  /\ pc = "idle" /\ intact
  /\ pc' = "mount" /\ call' = [word |-> "mount"] /\ bbuf' = None
  /\ UNCHANGED << curdir, cur, index, saw, under, table >>

\* fat-info: cd/
FatInfo ==
  /\ pc = "mount" /\ pc' = "idle" /\ call' = Idle /\ curdir' = Root
  /\ UNCHANGED << walk, table >>

----------------------------------------------------------------------------
(* Words that walk a directory.                                            *)

Ready == pc = "idle" /\ intact /\ curdir # None

\* DIRWALK-START, up to the read in DIRWALK-NEXT-BLOCK.
DirwalkStart(d) ==
  /\ pc' = "start" /\ cur' = (IF d \in Starts THEN << d, 1 >> ELSE End) /\ saw' = FALSE /\ under' = 0
  /\ UNCHANGED << index, bbuf >>

\* Slip: a slot counts as free until its file has been found.
AllocFidEarly == {f \in Fids : files[f].cluster = None /\ \A g \in 0..f - 1 : files[g].cluster # None}
\* alloc-fid takes the first slot whose flags are 0.
AllocFid == {f \in Fids : files[f].flags = 0 /\ \A g \in 0..f - 1 : files[g].flags # 0}

\* OPEN-FILE marks its slot before it looks for the name.
OpenFile(n, fam) ==
  /\ Ready
  /\ \E f \in AllocFid :
       /\ files' = [files EXCEPT ![f].flags = fam]
       /\ call' = [word |-> "open", name |-> n, dir |-> curdir, fid |-> f]
  /\ DirwalkStart(curdir)
  /\ UNCHANGED << curdir, intact, held >>

\* "too many files": the name stays on the stack, nothing else changes.
TooMany == Ready /\ AllocFid = {} /\ UNCHANGED vars

Cd(n) ==
  /\ Ready /\ call' = [word |-> "cd", name |-> n, dir |-> curdir]
  /\ DirwalkStart(curdir) /\ UNCHANGED << curdir, table >>

FileStatus(n) ==
  /\ Ready /\ call' = [word |-> "status", name |-> n, dir |-> curdir]
  /\ DirwalkStart(curdir) /\ UNCHANGED << curdir, table >>

Dir ==
  /\ Ready /\ call' = [word |-> "dir"]
  /\ DirwalkStart(curdir) /\ UNCHANGED << curdir, table >>

\* DIR/ keeps the current directory on the stack and goes to the root.
DirRoot ==
  /\ Ready /\ call' = [word |-> "dir/", back |-> curdir]
  /\ curdir' = Root /\ DirwalkStart(Root) /\ UNCHANGED table

CdRoot == Ready /\ curdir' = Root /\ UNCHANGED << pc, call, walk, table >>

----------------------------------------------------------------------------
(* The walk.                                                               *)

Seeking == call.word \in {"open", "cd", "status"}
Seeks(n) == Seeking /\ call.name = n

\* What follows in the loop of FIND-FILE or DIR once DIRWALK-NEXT-ENTRY has
\* the entry e of cluster c.
Examine(e) ==
  IF e = EndMark THEN saw' = TRUE /\ pc' = "walk"
  ELSE /\ UNCHANGED saw
       /\ IF Seeks(e.name) THEN pc' = "found" ELSE pc' = "walk"

\* next-cluster: the cluster into bbuf, and the one behind it from the FAT.
NextCluster == bbuf' = cur /\ cur' = Fat(cur)

\* Slip: the index is set to the first entry, and then advanced.
StartReadSkips ==
  /\ pc = "start" /\ cur # End /\ pc' = "walk"
  /\ NextCluster /\ index' = 0
  /\ UNCHANGED << call, curdir, saw, under, table >>

StartRead ==
  /\ pc = "start" /\ cur # End /\ pc' = "walk"
  /\ NextCluster /\ index' = -1
  /\ UNCHANGED << call, curdir, saw, under, table >>

\* Slip: one entry too many is taken from a cluster.
NeedNextBlockLate == index + 1 > PerRead
\* dirwalk-need-next-block? on the index that was just advanced.
NeedNextBlock == index + 1 >= PerRead

NextEntry ==
  /\ pc = "walk" /\ ~ saw /\ ~ NeedNextBlock
  /\ index' = index + 1
  /\ Examine(EntryAt(bbuf, index + 1))
  /\ UNCHANGED << call, curdir, cur, bbuf, under, table >>

NextBlock ==
  /\ pc = "walk" /\ ~ saw /\ NeedNextBlock /\ cur # End
  /\ NextCluster /\ index' = 0
  /\ Examine(EntryAt(cur, 0))
  /\ UNCHANGED << call, curdir, under, table >>

\* Slip: the end of the chain does not count as the last entry.
EndOfChainUnseen ==
  /\ cur = End /\ (pc = "start" \/ (pc = "walk" /\ ~ saw /\ NeedNextBlock))
  /\ pc' = "walk" /\ index' = -1 /\ under' = 1
  /\ UNCHANGED << call, curdir, cur, saw, bbuf, table >>

\* The chain ends without an end mark: DIRWALK-NEXT-BLOCK leaves the cluster
\* number under its result.
EndOfChain ==
  /\ cur = End /\ (pc = "start" \/ (pc = "walk" /\ ~ saw /\ NeedNextBlock))
  /\ pc' = "walk" /\ saw' = TRUE /\ cur' = None /\ index' = -1 /\ under' = 1
  /\ UNCHANGED << call, curdir, bbuf, table >>

\* dirwalk-end
WalkEnds ==
  /\ pc = "walk" /\ saw
  /\ pc' = "absent" /\ cur' = None /\ index' = -1
  /\ UNCHANGED << call, curdir, saw, bbuf, under, table >>

----------------------------------------------------------------------------
(* What is done with the result.                                           *)

Return == pc' = "idle" /\ call' = Idle

CdFound ==
  /\ pc = "found" /\ call.word = "cd" /\ Return
  /\ curdir' = IF Dirent.first = None THEN Root ELSE Dirent.first
  /\ UNCHANGED << walk, table >>

StatusFound ==
  /\ pc = "found" /\ call.word = "status" /\ Return
  /\ UNCHANGED << curdir, walk, table >>

OpenFound ==
  /\ pc = "found" /\ call.word = "open" /\ pc' = "load"
  /\ files' = [files EXCEPT ![call.fid] =
       [flags |-> @.flags, first |-> Dirent.first, size |-> Dirent.size,
        position |-> 0, cluster |-> Dirent.first]]
  /\ UNCHANGED << call, curdir, walk, intact, held >>

\* file-load-curclst: the whole cluster, into the buffer of the slot and as
\* many behind it as it fills.
LoadCluster(f) == intact' = (intact /\ f + Span <= NFiles)

OpenDone ==
  /\ pc = "load" /\ Return /\ LoadCluster(call.fid)
  /\ held' = held \union {call.fid}
  /\ UNCHANGED << curdir, walk, files >>

OpenAbsent ==
  /\ pc = "absent" /\ call.word = "open" /\ under = 0 /\ Return
  /\ files' = [files EXCEPT ![call.fid] = Free]
  /\ UNCHANGED << curdir, walk, intact, held >>

\* With a cell left under its result FREE-FID is given the name's address:
\* the bounds check of []buffer aborts and the slot stays taken.
OpenAbsentAborts ==
  /\ pc = "absent" /\ call.word = "open" /\ under = 1 /\ Return
  /\ UNCHANGED << curdir, walk, table >>

\* What DIR leaves under, DIR/ takes for the directory it was called in.
OtherAbsent ==
  /\ pc = "absent" /\ call.word # "open" /\ Return
  /\ curdir' = IF call.word # "dir/" THEN curdir ELSE IF under = 1 THEN End ELSE call.back
  /\ UNCHANGED << walk, table >>

\* A block read throws (time-out or error).  What bbuf and the buffers hold
\* then is not used before it is read again, but the read may have run over
\* the end of the buffers.
Reading ==
  \/ pc \in {"mount", "load"}
  \/ pc = "start" /\ cur # End
  \/ pc = "walk" /\ ~ saw /\ NeedNextBlock /\ cur # End

Throw ==
  /\ Reading /\ Return
  /\ \/ pc = "load" /\ LoadCluster(call.fid)
     \/ UNCHANGED intact
  /\ index' = IF pc = "walk" THEN index + 1 ELSE index
  /\ UNCHANGED << curdir, cur, saw, bbuf, under, files, held >>

----------------------------------------------------------------------------
(* Words that work on the table.                                           *)

Open(f) == files[f].flags # 0   \* file-inuse?

CloseFile(f) ==
  /\ pc = "idle" /\ intact /\ Open(f)
  /\ files' = [files EXCEPT ![f] = Free] /\ held' = held \ {f}
  /\ UNCHANGED << pc, call, curdir, walk, intact >>

RepositionFile(u, f) ==
  /\ pc = "idle" /\ intact /\ Open(f) /\ u >= 0 /\ ~ files[f].size < u
  /\ files' = [files EXCEPT ![f].position = u]
  /\ UNCHANGED << pc, call, curdir, walk, intact, held >>

\* A CPU exception or a reset: sdcard.f is evaluated again (files-init).
Restart ==
  /\ pc' = "idle" /\ call' = Idle /\ curdir' = None
  /\ cur' = None /\ index' = -1 /\ saw' = FALSE /\ bbuf' = None /\ under' = 0
  /\ files' = [f \in Fids |-> Free]
  /\ intact' = TRUE /\ held' = {}

Modes == {1}   \* a bound: R/O, W/O and R/W are not told apart

Walk ==
  \/ FatInfo \/ StartRead \/ NextEntry \/ NextBlock \/ EndOfChain \/ WalkEnds
  \/ CdFound \/ StatusFound \/ OpenFound \/ OpenDone
  \/ OpenAbsent \/ OpenAbsentAborts \/ OtherAbsent

Command ==
  \/ Mount \/ TooMany \/ Dir \/ DirRoot \/ CdRoot
  \/ \E n \in Names : Cd(n) \/ FileStatus(n) \/ \E fam \in Modes : OpenFile(n, fam)
  \/ \E f \in Fids : CloseFile(f) \/ \E u \in -1..files[f].size + 1 : RepositionFile(u, f)

Next == Walk \/ Throw \/ Command \/ Restart

Spec == Init /\ [][Next]_vars
FairSpec == Spec /\ WF_vars(Walk)

----------------------------------------------------------------------------
(* Properties.                                                             *)

Cluster == Starts \X (Nat \ {0})
FileRecord ==
  [flags : {0} \union Modes, first : Starts \union {None}, size : Nat, position : Nat,
   cluster : Starts \union {None}]
TypeOK ==
  /\ pc \in {"idle", "mount", "start", "walk", "found", "absent", "load"}
  /\ curdir \in Starts \union {None, End}
  /\ cur \in Cluster \union {None, End} /\ bbuf \in Cluster \union {None}
  /\ index \in -1..PerRead /\ saw \in BOOLEAN /\ under \in {0, 1}
  /\ files \in [Fids -> FileRecord] /\ intact \in BOOLEAN /\ held \subseteq Fids
  /\ pc = "found" => bbuf \in Cluster /\ index \in 0..PerRead - 1 /\ Dirent # EndMark

\* FIND-FILE, over any number of clusters, deleted entries and repeated names,
\* with or without an end mark: it finds the first entry of the directory that
\* has the name, and none only if there is none ("find file matching string",
\* sdcard.f:1043).
Matching == {i \in 1..Len(Directory[call.dir]) : Directory[call.dir][i].name = call.name}
FindsFile ==
  /\ pc = "found" => /\ bbuf[1] = call.dir
                     /\ LET i == (bbuf[2] - 1) * PerCluster + index + 1 IN
                          i \in Matching /\ \A j \in Matching : i <= j
  /\ pc = "absent" /\ Seeking /\ call.dir \in Starts => Matching = {}

\* What a program can tell of the files it holds.
Shown(t, f) == [first |-> t[f].first, size |-> t[f].size, position |-> t[f].position]
View == [f \in held |-> Shown(files, f)]
Promise == INSTANCE OpenFiles WITH open <- View

\* A file id a program was given stands for the file it opened, at a position
\* inside it, until the program closes it: whatever other files are opened,
\* looked for in vain or abandoned when a read throws (sdcard.f:1088).
KeepsFiles == Promise!Spec

\* Every step brings the word being executed closer to its end, by a number the
\* directory alone determines: the walk reads no cluster twice and does not go
\* back in one, whatever a throw left of the walk before (sdcard.f:833-1010).
ClustersLeft == IF cur \in Cluster THEN Clusters(cur[1]) + 1 - cur[2] ELSE 0
Distance ==
  CASE pc = "idle" -> 0
    [] pc \in {"mount", "load", "absent"} -> 1
    [] pc = "found" \/ (pc = "walk" /\ saw) -> 2
    [] pc = "walk" /\ ~ saw -> 2 + ClustersLeft * (PerRead + 1) + PerRead - index
    [] pc = "start" -> 3 + ClustersLeft * (PerRead + 1)
ComesCloser == [][pc # "idle" => Distance' \in 0..Distance - 1]_vars

\* Every word comes back: the walk ends in every directory, also one that
\* fills its last cluster, whatever a throw left of the walk before.
Returns == pc # "idle" ~> pc = "idle"
=============================================================================
