---------------------------- MODULE Files_proofs ----------------------------
(* Proofs about Files, for every number of open files and every disk whose *)
(* clusters have one or two sectors, the clusters that bbuf can hold.      *)
EXTENDS Files, TLAPS

\* A word in progress has the arguments it will use.
CallOK ==
  /\ Seeking => call.dir \in Starts \union {End}
  /\ call.word = "open" => call.fid \in Fids
  /\ call.word = "dir/" => call.back \in Starts \union {End}

\* The walk stands on a cluster while it goes on.
Walking ==
  /\ pc = "start" => cur \in Cluster \union {End}
  /\ pc = "walk" /\ ~ saw => /\ bbuf \in Cluster /\ cur \in Cluster \union {End}
                             /\ index <= PerRead - 1
  /\ pc = "found" => Seeking

\* A file id the program holds is taken, and OPEN-FILE works on another one.
Held ==
  /\ \A f \in held : files[f].flags # 0
  /\ pc # "idle" /\ call.word = "open" =>
       call.fid \notin held /\ files[call.fid].flags # 0
  /\ pc = "load" => call.word = "open" /\ files[call.fid].position = 0

IInv == TypeOK /\ CallOK /\ Walking /\ Held

----------------------------------------------------------------------------
(* The disk.                                                               *)

Before(c) == (c[2] - 1) * PerCluster

LEMMA Disk ==
  /\ PerRead \in Nat \ {0} /\ PerCluster \in Nat \ {0}
  /\ NFiles \in Nat \ {0} /\ 0 \in Fids
  /\ Root \in Starts /\ << Root, 1 >> \in Cluster
  /\ \A d \in Starts : /\ Len(Directory[d]) \in Nat
                       /\ \A i \in 1..Len(Directory[d]) :
                            /\ Directory[d][i] # EndMark
                            /\ Directory[d][i].first \in Starts \union {None}
                            /\ Directory[d][i].size \in Nat
<1>1. PerRead \in Nat \ {0} /\ Sectors \in Nat \ {0}
  BY DiskAssumption
<1>2. PerRead * Sectors \in Nat /\ PerRead * Sectors # 0
  BY <1>1
<1>3. ASSUME NEW d \in Starts
      PROVE  /\ Len(Directory[d]) \in Nat
             /\ \A i \in 1..Len(Directory[d]) :
                  /\ Directory[d][i] # EndMark
                  /\ Directory[d][i].first \in Starts \union {None}
                  /\ Directory[d][i].size \in Nat
  <2> DEFINE Entries == [name : Names \union {Other}, first : Starts \union {None}, size : Nat]
  <2>1. /\ Directory[d] \in Seq(Entries)
        /\ \A i \in 1..Len(Directory[d]) : Directory[d][i] # EndMark
    BY DiskAssumption
  <2>2. \A e \in Entries : e.first \in Starts \union {None} /\ e.size \in Nat
    OBVIOUS
  <2> HIDE DEF Entries
  <2>3. Len(Directory[d]) \in Nat /\ \A i \in 1..Len(Directory[d]) : Directory[d][i] \in Entries
    BY <2>1
  <2>4. QED
    BY <2>1, <2>2, <2>3
<1>4. NFiles \in Nat \ {0} /\ 0 \in Fids
  BY DiskAssumption DEF Fids
<1>5. Root \in Starts /\ << Root, 1 >> \in Cluster
  BY DiskAssumption DEF Cluster
<1>6. QED
  BY <1>1, <1>2, <1>3, <1>4, <1>5 DEF PerCluster

LEMMA BeforeNat == ASSUME NEW c \in Cluster PROVE Before(c) \in Nat
<1>1. c[2] - 1 \in Nat /\ PerCluster \in Nat
  BY Disk DEF Cluster
<1>2. QED
  BY <1>1 DEF Before

LEMMA FatCluster ==
  ASSUME NEW c \in Cluster PROVE Fat(c) \in Cluster \union {End}
BY DEF Fat, Cluster

\* An entry is one of the directory, or the end mark behind the last.
LEMMA EntryIs ==
  ASSUME NEW c \in Cluster, NEW i \in Nat
  PROVE  LET k == Before(c) + i + 1
             e == EntryAt(c, i)
         IN  /\ k \in Nat /\ k >= 1 /\ c[1] \in Starts
             /\ e = EndMark <=> k > Len(Directory[c[1]])
             /\ e # EndMark => /\ k \in 1..Len(Directory[c[1]])
                               /\ e = Directory[c[1]][k]
                               /\ e.first \in Starts \union {None} /\ e.size \in Nat
<1> DEFINE k == Before(c) + i + 1
<1>1. Before(c) \in Nat /\ c[1] \in Starts
  BY BeforeNat DEF Cluster
<1>2. EntryAt(c, i) = IF k <= Len(Directory[c[1]]) THEN Directory[c[1]][k] ELSE EndMark
  BY DEF EntryAt, Before
<1>3. k \in Nat /\ k >= 1 /\ Len(Directory[c[1]]) \in Nat
  BY <1>1, Disk
<1> HIDE DEF k
<1>4. CASE k <= Len(Directory[c[1]])
  <2>1. k \in 1..Len(Directory[c[1]])
    BY <1>3, <1>4
  <2>2. EntryAt(c, i) = Directory[c[1]][k]
    BY <1>2, <1>4
  <2>3. /\ Directory[c[1]][k] # EndMark
        /\ Directory[c[1]][k].first \in Starts \union {None}
        /\ Directory[c[1]][k].size \in Nat
    BY <2>1, <1>1, Disk
  <2>4. QED
    BY <1>1, <1>3, <1>4, <2>1, <2>2, <2>3 DEF k
<1>5. CASE ~ (k <= Len(Directory[c[1]]))
  <2>1. k > Len(Directory[c[1]]) /\ EntryAt(c, i) = EndMark
    BY <1>2, <1>3, <1>5
  <2>2. QED
    BY <1>1, <1>3, <2>1 DEF k
<1>6. QED
  BY <1>4, <1>5

\* What the walk's result is copied from.
LEMMA FoundEntry ==
  ASSUME IInv, pc = "found"
  PROVE  Dirent.first \in Starts \union {None} /\ Dirent.size \in Nat
<1>1. bbuf \in Cluster /\ index \in Nat /\ Dirent # EndMark
  BY Disk DEF IInv, TypeOK
<1>2. QED
  BY <1>1, EntryIs DEF Dirent

----------------------------------------------------------------------------
(* Every step keeps IInv.                                                  *)

LEMMA InitInv == Init => IInv
<1> SUFFICES ASSUME Init PROVE IInv
  OBVIOUS
<1>1. Free \in FileRecord
  BY DEF Free, FileRecord
<1>2. TypeOK
  BY <1>1, Disk DEF Init, TypeOK
<1>3. CallOK /\ Walking /\ Held
  BY DEF Init, CallOK, Walking, Held, Idle, Seeking
<1>4. QED
  BY <1>2, <1>3 DEF IInv

LEMMA RestartInv == ASSUME Restart PROVE IInv'
<1>1. Free \in FileRecord
  BY DEF Free, FileRecord
<1>2. TypeOK'
  <2>1. (files \in [Fids -> FileRecord])'
    BY <1>1 DEF Restart
  <2>2. (cur \in Cluster \union {None, End} /\ bbuf \in Cluster \union {None})'
    BY DEF Restart
  <2>3. (pc \in {"idle", "mount", "start", "walk", "found", "absent", "load"})'
    BY DEF Restart
  <2>4. (index \in -1..PerRead)'
    BY Disk DEF Restart
  <2>5. (pc = "found" => bbuf \in Cluster /\ index \in 0..PerRead - 1 /\ Dirent # EndMark)'
    BY DEF Restart
  <2> QED
    BY <2>1, <2>2, <2>3, <2>4, <2>5 DEF Restart, TypeOK
<1>3. (CallOK /\ Walking /\ Held)'
  BY DEF Restart, CallOK, Walking, Held, Idle, Seeking
<1>4. QED
  BY <1>2, <1>3 DEF IInv

\* The step that looks at the entry the walk has just come to.
LEMMA ExamineInv ==
  ASSUME IInv, pc = "walk", ~ saw, NEW c \in Cluster, NEW i \in 0..PerRead - 1,
         bbuf' = c, index' = i, Examine(EntryAt(c, i)),
         cur' \in Cluster \union {End}, UNCHANGED << call, curdir, under, table >>
  PROVE  IInv'
<1>1. Dirent' = EntryAt(c, i)
  BY DEF Dirent, EntryAt, PerCluster
<1>2. pc' = "found" => EntryAt(c, i) # EndMark
  BY DEF Examine
<1>3. TypeOK'
  <2>1. (pc = "found" => bbuf \in Cluster /\ index \in 0..PerRead - 1 /\ Dirent # EndMark)'
    BY <1>1, <1>2
  <2>2. index' \in -1..PerRead
    BY Disk
  <2>3. saw' \in BOOLEAN /\ pc' \in {"walk", "found"}
    BY DEF Examine, IInv, TypeOK
  <2>4. QED
    BY <2>1, <2>2, <2>3 DEF IInv, TypeOK, table
<1>4. CallOK'
  BY DEF IInv, CallOK, Seeking, table
<1>5. Walking'
  BY Disk DEF Walking, Examine, Seeks, Seeking
<1>6. Held'
  BY DEF IInv, Held, table, Examine
<1>7. QED
  BY <1>3, <1>4, <1>5, <1>6 DEF IInv

\* Whatever the word, its walk starts on the first cluster of a directory.
LEMMA StartedInv ==
  ASSUME IInv, NEW d \in Starts \union {End}, DirwalkStart(d),
         curdir' \in Starts \union {End}, CallOK',
         files' \in [Fids -> FileRecord], UNCHANGED << intact, held >>, Held'
  PROVE  IInv'
<1>1. cur' \in Cluster \union {End}
  BY DEF DirwalkStart, Cluster
<1>2. TypeOK'
  <2>1. (pc = "found" => bbuf \in Cluster /\ index \in 0..PerRead - 1 /\ Dirent # EndMark)'
    BY DEF DirwalkStart
  <2>2. QED
    BY <1>1, <2>1 DEF IInv, TypeOK, DirwalkStart
<1>3. Walking'
  BY <1>1 DEF DirwalkStart, Walking
<1>4. QED
  BY <1>2, <1>3 DEF IInv

LEMMA OpenFileInv ==
  ASSUME IInv, NEW n \in Names, NEW fam \in Modes, OpenFile(n, fam) PROVE IInv'
<1>1. PICK f \in AllocFid :
        /\ files' = [files EXCEPT ![f].flags = fam]
        /\ call' = [word |-> "open", name |-> n, dir |-> curdir, fid |-> f]
  BY DEF OpenFile
<1>2. f \in Fids /\ files[f].flags = 0 /\ curdir \in Starts \union {End} /\ fam # 0
  BY <1>1 DEF AllocFid, OpenFile, Ready, IInv, TypeOK, Modes
<1>3. f \notin held
  BY <1>2 DEF IInv, Held
<1>4. files \in [Fids -> FileRecord]
  BY DEF IInv, TypeOK
<1>5. [files[f] EXCEPT !.flags = fam] \in FileRecord
  BY <1>2, <1>4 DEF FileRecord
<1>6. files' \in [Fids -> FileRecord] /\ files'[f].flags = fam
      /\ \A g \in Fids : g # f => files'[g] = files[g]
  BY <1>1, <1>2, <1>4, <1>5 DEF FileRecord
<1>7. CallOK'
  BY <1>1, <1>2 DEF CallOK, Seeking, OpenFile
<1>8. held' = held /\ held \subseteq Fids /\ pc' = "start"
  BY DEF OpenFile, DirwalkStart, IInv, TypeOK
<1>9. Held'
  BY <1>1, <1>2, <1>3, <1>6, <1>8 DEF Held, IInv
<1>10. QED
  BY <1>2, <1>6, <1>7, <1>9, StartedInv DEF OpenFile

LEMMA CommandInv == ASSUME IInv, Command PROVE IInv'
<1>1. ASSUME Mount PROVE IInv'
  <2>1. TypeOK'
    BY <1>1 DEF Mount, IInv, TypeOK, table
  <2>2. (CallOK /\ Walking /\ Held)'
    BY <1>1 DEF Mount, IInv, CallOK, Walking, Held, Seeking, table
  <2>3. QED
    BY <2>1, <2>2 DEF IInv
<1>2. ASSUME TooMany PROVE IInv'
  BY <1>2 DEF TooMany, vars, walk, table, IInv, TypeOK, CallOK, Walking, Held, Seeking,
              Dirent, EntryAt, PerCluster
<1>3. ASSUME Dir PROVE IInv'
  <2>1. curdir \in Starts \union {End} /\ DirwalkStart(curdir) /\ curdir' = curdir
    BY <1>3 DEF Dir, Ready, IInv, TypeOK
  <2>2. CallOK' /\ Held'
    BY <1>3 DEF Dir, IInv, CallOK, Held, Seeking, DirwalkStart, table
  <2>3. QED
    BY <1>3, <2>1, <2>2, StartedInv DEF Dir, table, IInv, TypeOK
<1>4. ASSUME DirRoot PROVE IInv'
  <2>1. curdir \in Starts \union {End} /\ DirwalkStart(Root) /\ curdir' = Root
    BY <1>4 DEF DirRoot, Ready, IInv, TypeOK
  <2>2. CallOK' /\ Held'
    BY <1>4, <2>1 DEF DirRoot, IInv, CallOK, Held, Seeking, DirwalkStart, table
  <2>3. QED
    BY <1>4, <2>1, <2>2, Disk, StartedInv DEF DirRoot, table, IInv, TypeOK
<1>5. ASSUME CdRoot PROVE IInv'
  <2>1. TypeOK'
    BY <1>5, Disk DEF CdRoot, IInv, TypeOK, walk, table, Ready, Dirent, EntryAt, PerCluster
  <2>2. (CallOK /\ Walking /\ Held)'
    BY <1>5 DEF CdRoot, Ready, IInv, CallOK, Walking, Held, Seeking, walk, table
  <2>3. QED
    BY <2>1, <2>2 DEF IInv
<1>6. ASSUME NEW n \in Names, Cd(n) \/ FileStatus(n) PROVE IInv'
  <2>1. curdir \in Starts \union {End} /\ DirwalkStart(curdir) /\ curdir' = curdir /\ UNCHANGED table
    BY <1>6 DEF Cd, FileStatus, Ready, IInv, TypeOK
  <2>2. call'.word # "open" /\ call'.word # "dir/" /\ call'.dir = curdir
    BY <1>6 DEF Cd, FileStatus
  <2>3. CallOK' /\ Held'
    BY <2>1, <2>2 DEF IInv, CallOK, Held, Seeking, DirwalkStart, table
  <2>4. QED
    BY <2>1, <2>3, StartedInv DEF table, IInv, TypeOK
<1>7. ASSUME NEW f \in Fids, CloseFile(f) PROVE IInv'
  <2>1. Free \in FileRecord
    BY DEF Free, FileRecord
  <2>2. files' = [files EXCEPT ![f] = Free] /\ held' = held \ {f} /\ pc' = "idle"
        /\ UNCHANGED << pc, call, curdir, cur, index, saw, bbuf, under, intact >>
    BY <1>7 DEF CloseFile, walk
  <2>3. files' \in [Fids -> FileRecord] /\ held' \subseteq Fids
    BY <2>1, <2>2 DEF IInv, TypeOK
  <2>4. TypeOK'
    BY <2>2, <2>3 DEF IInv, TypeOK
  <2>5. (CallOK /\ Walking)'
    BY <2>2 DEF IInv, CallOK, Walking, Seeking
  <2>6. Held'
    BY <2>2 DEF IInv, TypeOK, Held
  <2>7. QED
    BY <2>4, <2>5, <2>6 DEF IInv
<1>8. ASSUME NEW f \in Fids, NEW u \in -1..files[f].size + 1, RepositionFile(u, f)
      PROVE  IInv'
  <2>1. files' = [files EXCEPT ![f].position = u] /\ held' = held /\ pc' = "idle"
        /\ UNCHANGED << pc, call, curdir, cur, index, saw, bbuf, under, intact >>
    BY <1>8 DEF RepositionFile, walk
  <2>2. files \in [Fids -> FileRecord] /\ files[f].size \in Nat
    BY DEF IInv, TypeOK, FileRecord
  <2>3. u \in Nat
    BY <1>8, <2>2 DEF RepositionFile
  <2>4. [files[f] EXCEPT !.position = u] \in FileRecord
    BY <2>2, <2>3 DEF FileRecord
  <2>5. files' \in [Fids -> FileRecord] /\ \A g \in Fids : files'[g].flags = files[g].flags
    BY <2>1, <2>2, <2>4 DEF FileRecord
  <2>6. TypeOK'
    BY <2>1, <2>5 DEF IInv, TypeOK
  <2>7. (CallOK /\ Walking)'
    BY <2>1 DEF IInv, CallOK, Walking, Seeking
  <2>8. Held'
    BY <2>1, <2>5 DEF IInv, TypeOK, Held
  <2>9. QED
    BY <2>6, <2>7, <2>8 DEF IInv
<1>9. QED
  BY <1>1, <1>2, <1>3, <1>4, <1>5, <1>6, <1>7, <1>8, OpenFileInv DEF Command

\* A word that comes back leaves everything else as the invariant wants it.
LEMMA ReturnInv ==
  ASSUME IInv, Return, curdir' \in Starts \union {None, End},
         cur' \in Cluster \union {None, End}, index' \in -1..PerRead,
         saw' \in BOOLEAN, bbuf' \in Cluster \union {None}, under' \in {0, 1},
         files' \in [Fids -> FileRecord], intact' \in BOOLEAN,
         held' \subseteq Fids, \A f \in held' : files'[f].flags # 0
  PROVE  IInv'
<1>1. pc' = "idle" /\ call' = Idle
  BY DEF Return
<1>2. TypeOK'
  <2>1. (pc = "found" => bbuf \in Cluster /\ index \in 0..PerRead - 1 /\ Dirent # EndMark)'
    BY <1>1
  <2>2. QED
    BY <1>1, <2>1 DEF TypeOK
<1>3. (CallOK /\ Walking /\ Held)'
  BY <1>1 DEF CallOK, Walking, Held, Seeking, Idle
<1>4. QED
  BY <1>2, <1>3 DEF IInv

LEMMA IndexStart == -1 \in -1..PerRead /\ 0 \in -1..PerRead /\ 0 \in 0..PerRead - 1
BY Disk

LEMMA WalkInv == ASSUME IInv, Walk PROVE IInv'
<1>1. ASSUME FatInfo PROVE IInv'
  BY <1>1, Disk, ReturnInv DEF FatInfo, Return, IInv, TypeOK, Held, walk, table
<1>2. ASSUME StartRead PROVE IInv'
  <2>1. cur \in Cluster /\ bbuf' = cur /\ cur' \in Cluster \union {End}
        /\ pc' = "walk" /\ index' = -1 /\ pc = "start"
        /\ UNCHANGED << call, curdir, saw, under, files, intact, held >>
    BY <1>2, FatCluster DEF StartRead, NextCluster, IInv, Walking, table
  <2>2. TypeOK'
    BY <2>1, IndexStart DEF IInv, TypeOK
  <2>3. (CallOK /\ Walking /\ Held)'
    BY <2>1, Disk DEF IInv, CallOK, Walking, Held, Seeking
  <2>4. QED
    BY <2>2, <2>3 DEF IInv
<1>3. ASSUME NextEntry PROVE IInv'
  <2>1. pc = "walk" /\ ~ saw /\ bbuf \in Cluster /\ cur \in Cluster \union {End}
    BY <1>3 DEF NextEntry, IInv, Walking
  <2>2. index + 1 \in 0..PerRead - 1
    BY <1>3, Disk DEF NextEntry, NeedNextBlock, IInv, TypeOK
  <2>3. QED
    BY <1>3, <2>1, <2>2, ExamineInv DEF NextEntry
<1>4. ASSUME NextBlock PROVE IInv'
  <2>1. pc = "walk" /\ ~ saw /\ cur \in Cluster /\ bbuf' = cur
        /\ cur' \in Cluster \union {End}
    BY <1>4, FatCluster DEF NextBlock, NextCluster, IInv, Walking
  <2>2. QED
    BY <1>4, <2>1, IndexStart, ExamineInv DEF NextBlock
<1>5. ASSUME EndOfChain PROVE IInv'
  <2>1. TypeOK'
    BY <1>5, IndexStart DEF EndOfChain, IInv, TypeOK, table
  <2>2. (CallOK /\ Walking /\ Held)'
    BY <1>5 DEF EndOfChain, IInv, CallOK, Walking, Held, Seeking, table
  <2>3. QED
    BY <2>1, <2>2 DEF IInv
<1>6. ASSUME WalkEnds PROVE IInv'
  <2>1. TypeOK'
    BY <1>6, IndexStart DEF WalkEnds, IInv, TypeOK, table
  <2>2. (CallOK /\ Walking /\ Held)'
    BY <1>6 DEF WalkEnds, IInv, CallOK, Walking, Held, Seeking, table
  <2>3. QED
    BY <2>1, <2>2 DEF IInv
<1>7. ASSUME CdFound PROVE IInv'
  <2>1. curdir' \in Starts
    BY <1>7, FoundEntry, Disk DEF CdFound
  <2>2. QED
    BY <1>7, <2>1, ReturnInv DEF CdFound, IInv, TypeOK, Held, walk, table
<1>8. ASSUME StatusFound PROVE IInv'
  BY <1>8, ReturnInv DEF StatusFound, IInv, TypeOK, Held, walk, table
<1>9. ASSUME OpenFound PROVE IInv'
  <2> DEFINE f == call.fid
             r == [flags |-> files[f].flags, first |-> Dirent.first, size |-> Dirent.size,
                   position |-> 0, cluster |-> Dirent.first]
  <2>1. f \in Fids /\ f \notin held /\ files[f].flags # 0 /\ files \in [Fids -> FileRecord]
        /\ call.word = "open" /\ pc' = "load" /\ files' = [files EXCEPT ![f] = r]
        /\ UNCHANGED << call, curdir, cur, index, saw, bbuf, under, intact, held >>
    BY <1>9 DEF OpenFound, IInv, TypeOK, CallOK, Held, walk
  <2>2. r \in FileRecord
    BY <1>9, <2>1, FoundEntry DEF OpenFound, FileRecord
  <2>3. r.flags = files[f].flags /\ r.position = 0
    OBVIOUS
  <2> HIDE DEF f, r
  <2>4. files' \in [Fids -> FileRecord] /\ files'[f] = r
        /\ \A g \in Fids : files'[g].flags = files[g].flags
    BY <2>1, <2>2, <2>3
  <2>5. TypeOK'
    BY <2>1, <2>4 DEF IInv, TypeOK
  <2>6. (CallOK /\ Walking)'
    BY <2>1 DEF IInv, CallOK, Walking, Seeking
  <2>7. Held'
    BY <2>1, <2>3, <2>4 DEF IInv, TypeOK, Held, f
  <2>8. QED
    BY <2>5, <2>6, <2>7 DEF IInv
<1>10. ASSUME OpenDone PROVE IInv'
  <2>1. call.fid \in Fids /\ files[call.fid].flags # 0
    BY <1>10 DEF OpenDone, IInv, CallOK, Held
  <2>2. intact' \in BOOLEAN
    BY <1>10 DEF OpenDone, LoadCluster
  <2>3. QED
    BY <1>10, <2>1, <2>2, ReturnInv DEF OpenDone, IInv, TypeOK, Held, walk
<1>11. ASSUME OpenAbsent PROVE IInv'
  <2>1. Free \in FileRecord
    BY DEF Free, FileRecord
  <2>2. call.fid \notin held /\ files' = [files EXCEPT ![call.fid] = Free]
    BY <1>11 DEF OpenAbsent, IInv, Held
  <2>3. files' \in [Fids -> FileRecord] /\ \A f \in held : files'[f].flags # 0
    BY <2>1, <2>2 DEF IInv, TypeOK, Held
  <2>4. QED
    BY <1>11, <2>3, ReturnInv DEF OpenAbsent, IInv, TypeOK, walk
<1>12. ASSUME OpenAbsentAborts PROVE IInv'
  BY <1>12, ReturnInv DEF OpenAbsentAborts, IInv, TypeOK, Held, walk, table
<1>13. ASSUME OtherAbsent PROVE IInv'
  <2>1. curdir' \in Starts \union {None, End}
    BY <1>13 DEF OtherAbsent, IInv, TypeOK, CallOK
  <2>2. QED
    BY <1>13, <2>1, ReturnInv DEF OtherAbsent, IInv, TypeOK, Held, walk, table
<1>14. QED
  BY <1>1, <1>2, <1>3, <1>4, <1>5, <1>6, <1>7, <1>8, <1>9, <1>10, <1>11, <1>12, <1>13
  DEF Walk

LEMMA ThrowInv == ASSUME IInv, Throw PROVE IInv'
<1>1. intact' \in BOOLEAN
  BY DEF Throw, LoadCluster, IInv, TypeOK
<1>2. index' \in -1..PerRead
  BY Disk DEF Throw, Reading, IInv, TypeOK, Walking
<1>3. QED
  BY <1>1, <1>2, ReturnInv DEF Throw, IInv, TypeOK, Held

LEMMA StepInv == IInv /\ [Next]_vars => IInv'
<1>1. ASSUME IInv, UNCHANGED vars PROVE IInv'
  BY <1>1 DEF vars, walk, table, IInv, TypeOK, CallOK, Walking, Held, Seeking,
              Dirent, EntryAt, PerCluster
<1>2. QED
  BY <1>1, WalkInv, ThrowInv, CommandInv, RestartInv DEF Next

LEMMA Invariant == Spec => []IInv
BY InitInv, StepInv, PTL DEF Spec

\* The directory walk stays inside its directory and its clusters, wherever a
\* read throws, on any disk whose clusters have one or two sectors
\* (DIRWALK-NEXT-ENTRY); a larger cluster overruns bbuf (sdcard.f:963).
THEOREM Typed == Spec => []TypeOK
<1>1. IInv => TypeOK
  BY DEF IInv
<1>2. QED
  BY <1>1, Invariant, PTL

----------------------------------------------------------------------------
(* The file ids a program holds.                                           *)

LEMMA SameView ==
  ASSUME held' = held, \A f \in held : Shown(files', f) = Shown(files, f)
  PROVE  View' = View
BY DEF View

LEMMA InitShows == Init => Promise!Init
BY DEF Init, Promise!Init, View

LEMMA StepShows == ASSUME IInv, [Next]_vars PROVE [Promise!Next]_View
<1>1. ASSUME UNCHANGED << files, held >> PROVE View' = View
  BY <1>1 DEF View
<1>2. ASSUME Restart PROVE Promise!Reset
  BY <1>2 DEF Restart, Promise!Reset, View
<1>3. ASSUME Throw PROVE View' = View
  BY <1>1, <1>3 DEF Throw
<1>4. ASSUME NEW n \in Names, NEW fam \in Modes, OpenFile(n, fam) PROVE View' = View
  <2>1. PICK f \in AllocFid : files' = [files EXCEPT ![f].flags = fam]
    BY <1>4 DEF OpenFile
  <2>2. f \notin held /\ held' = held
    BY <1>4, <2>1 DEF IInv, Held, AllocFid, OpenFile
  <2>3. \A g \in held : files'[g] = files[g]
    BY <2>1, <2>2 DEF IInv, TypeOK
  <2>4. QED
    BY <2>2, <2>3, SameView DEF Shown
<1>5. ASSUME NEW f \in Fids, CloseFile(f) PROVE Promise!Close(f)
  <2>1. held' = held \ {f} /\ files' = [files EXCEPT ![f] = Free]
    BY <1>5 DEF CloseFile
  <2>2. \A g \in held' : files'[g] = files[g]
    BY <2>1 DEF IInv, TypeOK
  <2>3. DOMAIN View = held
    BY DEF View
  <2>4. QED
    BY <2>1, <2>2, <2>3 DEF Promise!Close, Promise!Without, View, Shown
<1>6. ASSUME NEW f \in Fids, NEW u \in -1..files[f].size + 1, RepositionFile(u, f)
      PROVE  \/ View' = View
             \/ f \in held /\ u \in 0..View[f].size /\ Promise!Reposition(f, u)
  <2>1. /\ files' = [files EXCEPT ![f].position = u] /\ held' = held
        /\ u >= 0 /\ ~ files[f].size < u
    BY <1>6 DEF RepositionFile
  <2>2. files \in [Fids -> FileRecord] /\ files[f].size \in Nat /\ u \in Int /\ held \subseteq Fids
    BY DEF IInv, TypeOK, FileRecord
  <2>3. \A g \in held : g # f => files'[g] = files[g]
    BY <2>1, <2>2
  <2>4. Shown(files', f) = [Shown(files, f) EXCEPT !.position = u]
    BY <2>1, <2>2 DEF Shown, FileRecord
  <2>5. CASE f \in held
    <3>1. View[f] = Shown(files, f) /\ Shown(files, f).size = files[f].size
      BY <2>5 DEF View, Shown
    <3>2. View' = [View EXCEPT ![f].position = u]
      BY <2>1, <2>3, <2>4, <2>5 DEF View, Shown
    <3>3. QED
      BY <2>1, <2>2, <2>5, <3>1, <3>2 DEF Promise!Reposition
  <2>6. CASE f \notin held
    BY <2>1, <2>3, <2>6, SameView DEF Shown
  <2>7. QED
    BY <2>5, <2>6
<1>7. ASSUME OpenFound PROVE View' = View
  <2>1. call.fid \notin held /\ held' = held
    BY <1>7 DEF OpenFound, IInv, Held
  <2>2. \A f \in held : files'[f] = files[f]
    BY <1>7, <2>1 DEF OpenFound, IInv, TypeOK
  <2>3. QED
    BY <2>1, <2>2, SameView DEF Shown
<1>8. ASSUME OpenDone PROVE Promise!Open(call.fid, View'[call.fid]) /\ call.fid \in DOMAIN View'
  <2>1. /\ call.fid \notin held /\ held' = held \union {call.fid} /\ files' = files
        /\ files[call.fid].position = 0
    BY <1>8 DEF OpenDone, IInv, Held
  <2>2. DOMAIN View = held /\ DOMAIN View' = held'
    BY DEF View
  <2>3. View'[call.fid] = Shown(files, call.fid) /\ View'[call.fid].position = 0
    BY <2>1 DEF View, Shown
  <2>4. View' = Promise!Extended(View, call.fid, View'[call.fid])
    BY <2>1, <2>2, <2>3 DEF View, Promise!Extended
  <2>5. QED
    BY <2>1, <2>2, <2>3, <2>4 DEF Promise!Open
<1>9. ASSUME OpenAbsent PROVE View' = View
  <2>1. call.fid \notin held /\ held' = held
    BY <1>9 DEF OpenAbsent, IInv, Held
  <2>2. \A f \in held : files'[f] = files[f]
    BY <1>9, <2>1 DEF OpenAbsent, IInv, TypeOK
  <2>3. QED
    BY <2>1, <2>2, SameView DEF Shown
<1>10. ASSUME Walk PROVE View' = View \/ OpenDone
  BY <1>1, <1>7, <1>9, <1>10
  DEF Walk, FatInfo, StartRead, NextEntry, NextBlock, EndOfChain, WalkEnds, CdFound,
      StatusFound, OpenAbsentAborts, OtherAbsent, table
<1>11. CASE Command
  <2>1. CASE Mount \/ TooMany \/ Dir \/ DirRoot \/ CdRoot \/ \E n \in Names : Cd(n) \/ FileStatus(n)
    BY <1>1, <2>1 DEF Mount, TooMany, Dir, DirRoot, CdRoot, Cd, FileStatus, table, vars
  <2>2. CASE \E f \in Fids : CloseFile(f)
    <3>1. PICK f \in Fids : CloseFile(f)
      BY <2>2
    <3>2. CASE f \in held
      BY <1>5, <3>1, <3>2 DEF Promise!Next, View
    <3>3. CASE f \notin held
      <4>1. held' = held /\ \A g \in held : files'[g] = files[g]
        BY <3>1, <3>3 DEF CloseFile, IInv, TypeOK
      <4>2. QED
        BY <4>1, SameView DEF Shown
    <3>4. QED
      BY <3>2, <3>3
  <2>3. CASE \E f \in Fids : \E u \in -1..files[f].size + 1 : RepositionFile(u, f)
    <3>1. DOMAIN View = held
      BY DEF View
    <3>2. QED
      BY <1>6, <2>3, <3>1 DEF Promise!Next
  <2>4. QED
    BY <1>4, <1>11, <2>1, <2>2, <2>3 DEF Command
<1>12. QED
  BY <1>1, <1>2, <1>3, <1>8, <1>10, <1>11 DEF Next, vars, table, Promise!Next

\* The file words implement what they promise: no open, failed open, thrown
\* read or walk disturbs a file id that somebody else holds (OPEN-FILE), on any
\* disk whose clusters have one or two sectors.
THEOREM Keeps == Spec => KeepsFiles
<1>1. Spec => Promise!Spec
  BY InitShows, StepShows, Invariant, PTL DEF Spec, Promise!Spec
<1>2. QED
  BY <1>1 DEF KeepsFiles

----------------------------------------------------------------------------
(* FIND-FILE, on a volume with one sector in a cluster.                    *)

\* How far the search has come: no entry before the walk's place matches.
Passed(c, k) == c[1] = call.dir /\ \A j \in Matching : j > Before(c) + k
Searched ==
  Seeking =>
    /\ pc = "start" => ~ saw /\ (call.dir \in Starts => cur = << call.dir, 1 >>)
                                 /\ (call.dir \notin Starts => cur = End)
    /\ pc = "walk" /\ ~ saw => Passed(bbuf, index + 1) /\ cur = Fat(bbuf)
    /\ pc = "walk" /\ saw /\ call.dir \in Starts => Matching = {}

SInv == IInv /\ Searched /\ FindsFile

\* A chain has room for all entries of its directory.
LEMMA RoundedUp ==
  ASSUME NEW n \in Nat, NEW p \in Nat \ {0}, NEW k \in Nat, k >= (n + p - 1) \div p
  PROVE  k * p >= n
<1> DEFINE q == (n + p - 1) \div p
<1>1. q \in Int /\ p * q + p >= n + p
  OBVIOUS
<1> HIDE DEF q
<1>2. (k - q) * p >= 0
  <2>1. k - q \in Nat
    BY <1>1 DEF q
  <2>2. QED
    BY <2>1
<1>3. k * p = (k - q) * p + p * q
  BY <1>1
<1>4. QED
  BY <1>1, <1>2, <1>3

LEMMA Advanced ==
  ASSUME NEW c \in Cluster
  PROVE  /\ Fat(c) # End => /\ Fat(c)[1] = c[1]
                            /\ Before(Fat(c)) = Before(c) + PerCluster
         /\ Fat(c) = End => Before(c) + PerCluster >= Len(Directory[c[1]])
<1>1. c[1] \in Starts /\ c[2] \in Nat /\ PerCluster \in Nat \ {0} /\ Len(Directory[c[1]]) \in Nat
  BY Disk DEF Cluster
<1>2. Before(c) + PerCluster = c[2] * PerCluster
  BY <1>1 DEF Before
<1>3. Before(<< c[1], c[2] + 1 >>) = c[2] * PerCluster
  BY <1>1 DEF Before
<1>4. ASSUME Fat(c) = End PROVE c[2] >= Clusters(c[1])
  <2>1. << c[1], c[2] + 1 >> # End
    BY <1>1 DEF End
  <2>2. Clusters(c[1]) \in Int
    BY <1>1 DEF Clusters
  <2>3. QED
    BY <1>1, <1>4, <2>1, <2>2 DEF Fat
<1>5. ASSUME Fat(c) = End PROVE c[2] * PerCluster >= Len(Directory[c[1]])
  BY <1>1, <1>4, <1>5, RoundedUp DEF Clusters
<1>6. QED
  BY <1>1, <1>2, <1>3, <1>5 DEF Fat

\* Looking at one more entry keeps the search sound.
LEMMA ExamineFinds ==
  ASSUME IInv, pc = "walk", ~ saw, NEW c \in Cluster, NEW i \in 0..PerRead - 1,
         bbuf' = c, index' = i, call' = call, Examine(EntryAt(c, i)),
         Seeking => Passed(c, i) /\ cur' = Fat(c)
  PROVE  (Searched /\ FindsFile)'
<1> DEFINE k == Before(c) + i + 1
           e == EntryAt(c, i)
<1>1. k \in Nat /\ i \in Nat /\ Before(c) \in Nat /\ c[1] \in Starts
  BY BeforeNat, Disk DEF Cluster
<1>2. /\ e = EndMark <=> k > Len(Directory[c[1]])
      /\ e # EndMark => k \in 1..Len(Directory[c[1]]) /\ e = Directory[c[1]][k]
  BY <1>1, EntryIs
<1>3. pc' \in {"walk", "found"}
  BY DEF Examine
<1>4. Matching' = Matching /\ (Seeking' <=> Seeking) /\ \A j \in Matching : j \in Nat
  BY DEF Matching, Seeking
<1>5. ASSUME Seeking PROVE c[1] = call.dir /\ \A j \in Matching : j >= k
  BY <1>1, <1>4, <1>5 DEF Passed
<1> HIDE DEF k, e
<1>6. CASE e = EndMark
  <2>1. saw' = TRUE /\ pc' = "walk"
    BY <1>6 DEF Examine, e
  <2>2. ASSUME Seeking PROVE Matching = {}
    BY <1>1, <1>2, <1>5, <1>6, <2>2, Disk DEF Matching
  <2>3. QED
    BY <1>4, <2>1, <2>2 DEF Searched, FindsFile
<1>7. CASE e # EndMark /\ pc' = "walk"
  <2>1. saw' = saw /\ ~ Seeks(e.name)
    BY <1>7 DEF Examine, e
  <2>2. ASSUME Seeking PROVE k \notin Matching
    BY <1>2, <1>5, <1>7, <2>1, <2>2 DEF Matching, Seeks
  <2>3. ASSUME Seeking PROVE Passed(c, i + 1)'
    BY <1>1, <1>4, <1>5, <2>2, <2>3 DEF Passed, Before, PerCluster, k
  <2>4. QED
    BY <1>4, <1>7, <2>1, <2>3 DEF Searched, FindsFile, Fat
<1>8. CASE e # EndMark /\ pc' = "found"
  <2>1. Seeks(e.name)
    BY <1>8 DEF Examine, e
  <2>2. k \in Matching /\ c[1] = call.dir /\ \A j \in Matching : k <= j
    BY <1>2, <1>4, <1>5, <1>8, <2>1, <1>1 DEF Matching, Seeks
  <2>3. k = (bbuf'[2] - 1) * PerCluster + index' + 1
    BY DEF k, Before
  <2>4. QED
    BY <1>4, <1>8, <2>2, <2>3 DEF Searched, FindsFile
<1>9. QED
  BY <1>3, <1>6, <1>7, <1>8

LEMMA StepFinds ==
  ASSUME Sectors = 1, SInv, [Next]_vars PROVE (Searched /\ FindsFile)'
<1>1. PerCluster = PerRead /\ PerRead \in Nat \ {0}
  BY Disk DEF PerCluster
<1>2. ASSUME pc' \in {"idle", "mount", "load"} PROVE (Searched /\ FindsFile)'
  BY <1>2 DEF Searched, FindsFile
<1>3. ASSUME UNCHANGED << pc, call, cur, index, saw, bbuf >> PROVE (Searched /\ FindsFile)'
  BY <1>3 DEF SInv, Searched, FindsFile, Matching, Seeking, Passed, Before, Fat, PerCluster
<1>4. ASSUME NEW d \in Starts \union {End}, DirwalkStart(d), Seeking' => call'.dir = d
      PROVE (Searched /\ FindsFile)'
  BY <1>4 DEF DirwalkStart, Searched, FindsFile
<1>5. CASE StartRead
  <2>1. cur \in Cluster /\ bbuf' = cur /\ cur' = Fat(cur) /\ index' = -1 /\ pc' = "walk"
        /\ pc = "start" /\ call' = call /\ saw' = saw
    BY <1>5 DEF StartRead, NextCluster, SInv, IInv, Walking
  <2>2. ASSUME Seeking PROVE Passed(bbuf, index + 1)' /\ ~ saw
    <3>1. ~ saw /\ cur = << call.dir, 1 >>
      BY <1>5, <2>1, <2>2 DEF StartRead, SInv, Searched
    <3>2. Before(cur) = 0
      BY <3>1, <1>1 DEF Before
    <3>3. QED
      BY <2>1, <3>1, <3>2 DEF Passed, Before, PerCluster, Matching
  <2>3. QED
    BY <2>1, <2>2 DEF Searched, FindsFile, Seeking, Fat
<1>6. CASE NextEntry
  <2>1. pc = "walk" /\ ~ saw /\ bbuf \in Cluster /\ index + 1 \in 0..PerRead - 1
    BY <1>6, <1>1 DEF NextEntry, NeedNextBlock, SInv, IInv, Walking, TypeOK
  <2>2. Seeking => Passed(bbuf, index + 1) /\ cur = Fat(bbuf)
    BY <2>1 DEF SInv, Searched
  <2>3. QED
    BY <1>6, <2>1, <2>2, ExamineFinds DEF NextEntry, SInv
<1>7. CASE NextBlock
  <2>1. /\ pc = "walk" /\ ~ saw /\ bbuf \in Cluster /\ cur \in Cluster /\ cur # End
        /\ index = PerRead - 1
    BY <1>7, <1>1 DEF NextBlock, NeedNextBlock, SInv, IInv, Walking, TypeOK
  <2>2. Seeking => Passed(cur, 0)
    <3>1. SUFFICES ASSUME Seeking PROVE Passed(cur, 0)
      OBVIOUS
    <3>2. Passed(bbuf, PerRead) /\ cur = Fat(bbuf)
      BY <2>1, <1>1, <3>1 DEF SInv, Searched
    <3>3. cur[1] = bbuf[1] /\ Before(cur) = Before(bbuf) + PerRead
      BY <1>1, <2>1, <3>2, Advanced
    <3>4. Before(bbuf) \in Nat
      BY <2>1, BeforeNat
    <3>5. QED
      BY <1>1, <3>2, <3>3, <3>4 DEF Passed
  <2>3. 0 \in 0..PerRead - 1 /\ bbuf' = cur /\ cur' = Fat(cur)
    BY <1>1, <1>7 DEF NextBlock, NextCluster
  <2>4. QED
    BY <1>7, <2>1, <2>2, <2>3, ExamineFinds DEF NextBlock, SInv
<1>8. CASE EndOfChain
  <2>1. cur = End /\ pc' = "walk" /\ saw' = TRUE /\ call' = call
    BY <1>8 DEF EndOfChain
  <2>2. CASE pc = "start"
    <3>1. ASSUME Seeking PROVE call.dir \notin Starts
      BY <2>1, <2>2, <3>1 DEF SInv, Searched, End
    <3>2. QED
      BY <2>1, <3>1 DEF Searched, FindsFile, Seeking
  <2>3. CASE pc # "start"
    <3>1. pc = "walk" /\ ~ saw /\ bbuf \in Cluster /\ index = PerRead - 1
      BY <1>8, <1>1, <2>3 DEF EndOfChain, NeedNextBlock, SInv, IInv, Walking, TypeOK
    <3>2. ASSUME Seeking PROVE Matching = {}
      <4>1. Passed(bbuf, PerRead) /\ End = Fat(bbuf)
        BY <2>1, <1>1, <3>1, <3>2 DEF SInv, Searched
      <4>2. bbuf[1] = call.dir /\ call.dir \in Starts
        BY <3>1, <4>1 DEF Passed, Cluster
      <4>3. Before(bbuf) + PerRead >= Len(Directory[call.dir])
        BY <1>1, <3>1, <4>1, <4>2, Advanced
      <4>4. Before(bbuf) \in Nat /\ Len(Directory[call.dir]) \in Nat
        BY <3>1, <4>2, BeforeNat, Disk
      <4>5. QED
        BY <1>1, <4>1, <4>3, <4>4 DEF Passed, Matching
    <3>3. QED
      BY <2>1, <3>2 DEF Searched, FindsFile, Matching, Seeking
  <2>4. QED
    BY <2>2, <2>3
<1>9. CASE WalkEnds
  <2>1. pc = "walk" /\ saw /\ pc' = "absent" /\ call' = call
    BY <1>9 DEF WalkEnds
  <2>2. QED
    BY <2>1 DEF SInv, Searched, FindsFile, Matching, Seeking
<1>10. CASE Walk
  BY <1>2, <1>5, <1>6, <1>7, <1>8, <1>9, <1>10
  DEF Walk, FatInfo, CdFound, StatusFound, OpenFound, OpenDone, OpenAbsent,
      OpenAbsentAborts, OtherAbsent, Return
<1>11. CASE Command
  <2>1. CASE Mount \/ \E f \in Fids : CloseFile(f) \/ \E u \in -1..files[f].size + 1 : RepositionFile(u, f)
    BY <1>2, <2>1 DEF Mount, CloseFile, RepositionFile
  <2>2. CASE TooMany \/ CdRoot
    BY <1>3, <2>2 DEF TooMany, CdRoot, vars, walk
  <2>3. CASE Dir \/ DirRoot
    <3>1. ~ Seeking' /\ \E d \in Starts \union {End} : DirwalkStart(d)
      BY <2>3, Disk DEF Dir, DirRoot, Seeking, Ready, SInv, IInv, TypeOK
    <3>2. QED
      BY <1>4, <3>1
  <2>4. CASE \E n \in Names : Cd(n) \/ FileStatus(n) \/ \E fam \in Modes : OpenFile(n, fam)
    <3>1. call'.dir = curdir /\ curdir \in Starts \union {End} /\ DirwalkStart(curdir)
      BY <2>4 DEF Cd, FileStatus, OpenFile, Ready, SInv, IInv, TypeOK
    <3>2. QED
      BY <1>4, <3>1
  <2>5. QED
    BY <1>11, <2>1, <2>2, <2>3, <2>4 DEF Command
<1>12. QED
  BY <1>2, <1>3, <1>10, <1>11 DEF Next, Throw, Restart, Return, vars, walk

\* With one sector in a cluster FIND-FILE finds the first entry that has the
\* name, however many clusters the directory has and whether or not it ends
\* in the middle of one; a name it does not find is not there.
THEOREM Finds == ASSUME Sectors = 1 PROVE Spec => []FindsFile
<1>1. Init => SInv
  BY InitInv DEF Init, SInv, Searched, FindsFile
<1>2. SInv /\ [Next]_vars => SInv'
  BY StepInv, StepFinds DEF SInv
<1>3. SInv => FindsFile
  BY DEF SInv
<1>4. QED
  BY <1>1, <1>2, <1>3, PTL DEF Spec

----------------------------------------------------------------------------
(* The way that is left.                                                   *)

\* The cluster read next is one of its chain.
InChain ==
  (pc = "start" \/ (pc = "walk" /\ ~ saw)) /\ cur \in Cluster => cur[2] <= Clusters(cur[1])

LEMMA ChainLength == ASSUME NEW d \in Starts PROVE Clusters(d) \in Nat /\ Clusters(d) >= 1
<1>1. Directory[d] # << >> /\ Len(Directory[d]) \in Nat /\ PerCluster \in Nat \ {0}
  BY Disk, DiskAssumption
<1>2. Len(Directory[d]) >= 1
  BY <1>1, DiskAssumption
<1>3. ASSUME NEW n \in Nat, n >= 1, NEW p \in Nat \ {0}
      PROVE  (n + p - 1) \div p \in Nat /\ (n + p - 1) \div p >= 1
  <2>1. PICK q \in Int : q = (n + p - 1) \div p
    OBVIOUS
  <2>2. q * p + p > n + p - 1
    BY <1>3, <2>1
  <2>3. ASSUME q <= 0 PROVE FALSE
    <3>1. -q \in Nat
      BY <2>3
    <3>2. (-q) * p >= 0
      BY <3>1
    <3>3. QED
      BY <1>3, <2>2, <3>2
  <2>4. QED
    BY <2>1, <2>3
<1>4. QED
  BY <1>1, <1>2, <1>3 DEF Clusters

\* What reading a cluster leaves of the chain.
LEMMA NextInChain ==
  ASSUME IInv, InChain, pc = "start" \/ (pc = "walk" /\ ~ saw), NEW n, n = ClustersLeft
  PROVE  /\ n \in Nat
         /\ cur # End /\ cur' = Fat(cur) => /\ n >= 1 /\ ClustersLeft' = n - 1
                                            /\ cur' \in Cluster => cur'[2] <= Clusters(cur'[1])
<1>1. cur \in Cluster \union {End} /\ End \notin Cluster
  BY DEF IInv, Walking, Cluster, End
<1>2. CASE cur = End
  BY <1>1, <1>2 DEF ClustersLeft
<1>3. CASE cur \in Cluster
  <2>1. /\ cur[1] \in Starts /\ cur[2] \in Nat /\ cur[2] >= 1 /\ cur = << cur[1], cur[2] >>
        /\ Clusters(cur[1]) \in Nat /\ cur[2] <= Clusters(cur[1])
    BY <1>3, ChainLength DEF Cluster, InChain
  <2>2. n = Clusters(cur[1]) + 1 - cur[2]
    BY <1>3 DEF ClustersLeft
  <2>3. ASSUME cur' = Fat(cur), cur[2] < Clusters(cur[1])
        PROVE  ClustersLeft' = n - 1 /\ cur' \in Cluster /\ cur'[2] <= Clusters(cur'[1])
    <3>1. cur' = << cur[1], cur[2] + 1 >>
      BY <2>3 DEF Fat
    <3>2. cur' \in Cluster /\ cur'[1] = cur[1] /\ cur'[2] = cur[2] + 1
      BY <2>1, <3>1 DEF Cluster
    <3>3. ClustersLeft' = Clusters(cur[1]) + 1 - (cur[2] + 1)
      BY <3>2 DEF ClustersLeft, Clusters, Cluster, PerCluster
    <3>4. cur'[2] <= Clusters(cur'[1])
      BY <2>1, <2>3, <3>2
    <3>5. QED
      BY <2>1, <2>2, <3>2, <3>3, <3>4
  <2>4. ASSUME cur' = Fat(cur), ~ (cur[2] < Clusters(cur[1]))
        PROVE  ClustersLeft' = n - 1 /\ cur' \notin Cluster
    <3>1. cur' = End
      BY <2>4 DEF Fat
    <3>2. ClustersLeft' = 0
      BY <1>1, <3>1 DEF ClustersLeft, Cluster
    <3>3. QED
      BY <1>1, <2>1, <2>2, <2>4, <3>1, <3>2
  <2>5. n \in Nat /\ n >= 1
    BY <2>1, <2>2
  <2>6. QED
    BY <2>3, <2>4, <2>5
<1>4. QED
  BY <1>1, <1>2, <1>3

LEMMA Products ==
  ASSUME NEW n \in Nat, NEW p \in Nat
  PROVE  n * p \in Nat /\ (n >= 1 => n - 1 \in Nat /\ (n - 1) * p \in Nat /\ n * p = (n - 1) * p + p)
OBVIOUS

\* One step of the walk.
LEMMA WalkCloser ==
  ASSUME IInv, InChain, Walk
  PROVE  Distance' \in 0..Distance - 1 /\ InChain'
<1> SUFFICES ASSUME NEW n, n = ClustersLeft, NEW p, p = PerRead + 1, NEW x, x = n * p
             PROVE  Distance' \in 0..Distance - 1 /\ InChain'
  OBVIOUS
<1>1. PerRead \in Nat /\ PerRead >= 1 /\ p \in Nat /\ index \in -1..PerRead
  BY Disk DEF IInv, TypeOK
<1>2. ASSUME pc = "start" \/ (pc = "walk" /\ ~ saw) PROVE n \in Nat /\ x \in Nat
  BY <1>1, <1>2, NextInChain, Products
<1>3. CASE FatInfo
  BY <1>3 DEF FatInfo, Distance, InChain
<1>4. CASE StartRead
  <2>1. pc = "start" /\ pc' = "walk" /\ index' = -1 /\ cur # End /\ cur' = Fat(cur) /\ saw' = saw
    BY <1>4 DEF StartRead, NextCluster
  <2>2. n >= 1 /\ ClustersLeft' = n - 1 /\ (cur' \in Cluster => cur'[2] <= Clusters(cur'[1]))
    BY <2>1, NextInChain
  <2>3. (n - 1) * p \in Nat /\ x = (n - 1) * p + p
    BY <1>1, <1>2, <2>1, <2>2, Products
  <2>4. Distance = 3 + x
    BY <2>1 DEF Distance
  <2>5. Distance' = IF saw THEN 2 ELSE 2 + (n - 1) * p + PerRead - (-1)
    BY <2>1, <2>2 DEF Distance
  <2>6. InChain'
    BY <2>1, <2>2 DEF InChain, Clusters, Cluster, PerCluster
  <2>7. QED
    BY <1>1, <2>3, <2>4, <2>5, <2>6
<1>5. CASE NextEntry
  <2>1. /\ pc = "walk" /\ ~ saw /\ index' = index + 1 /\ cur' = cur /\ index + 1 < PerRead
        /\ pc' \in {"walk", "found"} /\ (pc' = "found" => saw' = saw)
    BY <1>1, <1>5 DEF NextEntry, NeedNextBlock, Examine
  <2>2. Distance = 2 + x + PerRead - index
    BY <2>1 DEF Distance
  <2>3. ClustersLeft' = n
    BY <2>1 DEF ClustersLeft, Clusters, Cluster, PerCluster
  <2>4. Distance' = IF pc' = "found" \/ saw' THEN 2 ELSE 2 + x + PerRead - (index + 1)
    BY <2>1, <2>3 DEF Distance
  <2>5. InChain'
    BY <2>1 DEF InChain, Clusters, Cluster, PerCluster
  <2>6. QED
    BY <1>1, <1>2, <2>1, <2>2, <2>4, <2>5
<1>6. CASE NextBlock
  <2>1. /\ pc = "walk" /\ ~ saw /\ index' = 0 /\ cur # End /\ cur' = Fat(cur) /\ index + 1 >= PerRead
        /\ index <= PerRead - 1 /\ pc' \in {"walk", "found"}
    BY <1>6 DEF NextBlock, NextCluster, NeedNextBlock, Examine, IInv, Walking
  <2>2. n >= 1 /\ ClustersLeft' = n - 1 /\ (cur' \in Cluster => cur'[2] <= Clusters(cur'[1]))
    BY <2>1, NextInChain
  <2>3. (n - 1) * p \in Nat /\ x = (n - 1) * p + p
    BY <1>1, <1>2, <2>1, <2>2, Products
  <2>4. Distance = 2 + x + PerRead - index
    BY <2>1 DEF Distance
  <2>5. Distance' = IF pc' = "found" \/ saw' THEN 2 ELSE 2 + (n - 1) * p + PerRead - 0
    BY <2>1, <2>2 DEF Distance
  <2>6. InChain'
    BY <2>1, <2>2 DEF InChain, Clusters, Cluster, PerCluster
  <2>7. QED
    BY <1>1, <1>2, <2>1, <2>3, <2>4, <2>5, <2>6
<1>7. CASE EndOfChain
  <2>1. /\ pc = "start" \/ (pc = "walk" /\ ~ saw /\ index <= PerRead - 1)
        /\ pc' = "walk" /\ saw'
    BY <1>7 DEF EndOfChain, IInv, Walking
  <2>2. Distance' = 2 /\ InChain'
    BY <2>1 DEF Distance, InChain
  <2>3. \/ Distance = 3 + x
        \/ Distance = 2 + x + PerRead - index /\ index <= PerRead - 1
    BY <2>1 DEF Distance
  <2>4. QED
    BY <1>1, <1>2, <2>1, <2>2, <2>3
<1>8. CASE WalkEnds
  BY <1>8 DEF WalkEnds, Distance, InChain
<1>9. CASE CdFound \/ StatusFound \/ OpenFound \/ OpenDone \/ OpenAbsent \/ OpenAbsentAborts \/ OtherAbsent
  <2>1. /\ pc \in {"found", "load", "absent"}
        /\ pc' = "idle" \/ (pc = "found" /\ pc' = "load")
    BY <1>9 DEF CdFound, StatusFound, OpenFound, OpenDone, OpenAbsent, OpenAbsentAborts, OtherAbsent, Return
  <2>2. QED
    BY <2>1 DEF Distance, InChain
<1>10. QED
  BY <1>3, <1>4, <1>5, <1>6, <1>7, <1>8, <1>9 DEF Walk

LEMMA StepCloser ==
  ASSUME IInv, InChain, [Next]_vars
  PROVE  InChain' /\ (pc # "idle" /\ ~ UNCHANGED vars => Distance' \in 0..Distance - 1)
<1>1. CASE Walk
  BY <1>1, WalkCloser
<1>2. CASE Throw \/ Restart
  <2>1. pc' = "idle"
    BY <1>2 DEF Throw, Return, Restart
  <2>2. ASSUME pc # "idle" PROVE Distance \in Nat /\ Distance >= 1
    <3>1. PerRead \in Nat /\ index \in -1..PerRead /\ PerRead + 1 \in Nat
      BY Disk DEF IInv, TypeOK
    <3>2. pc \in {"mount", "start", "walk", "found", "absent", "load"}
      BY <2>2 DEF IInv, TypeOK
    <3>3. CASE pc = "start" \/ (pc = "walk" /\ ~ saw)
      <4>1. ClustersLeft \in Nat
        BY <3>3, NextInChain
      <4>2. ClustersLeft * (PerRead + 1) \in Nat
        BY <3>1, <4>1, Products
      <4>3. \/ Distance = 3 + ClustersLeft * (PerRead + 1)
            \/ Distance = 2 + ClustersLeft * (PerRead + 1) + PerRead - index
        BY <3>3 DEF Distance
      <4>4. QED
        BY <3>1, <4>2, <4>3
    <3>4. CASE ~ (pc = "start" \/ (pc = "walk" /\ ~ saw))
      BY <3>2, <3>4 DEF Distance
    <3>5. QED
      BY <3>3, <3>4
  <2>3. Distance' = 0 /\ InChain'
    BY <2>1 DEF Distance, InChain
  <2>4. QED
    BY <2>2, <2>3
<1>3. CASE Command
  <2>1. pc = "idle"
    BY <1>3 DEF Command, Mount, TooMany, Dir, DirRoot, CdRoot, Cd, FileStatus, OpenFile, CloseFile,
                RepositionFile, Ready
  <2>2. InChain'
    <3>1. CASE pc' = "start" /\ \E d : cur' = (IF d \in Starts THEN << d, 1 >> ELSE End)
      <4>1. PICK d : cur' = IF d \in Starts THEN << d, 1 >> ELSE End
        BY <3>1
      <4>2. CASE d \in Starts
        <5>1. cur'[1] = d /\ cur'[2] = 1 /\ Clusters(d) \in Nat /\ Clusters(d) >= 1
          BY <4>1, <4>2, ChainLength
        <5>2. QED
          BY <5>1 DEF InChain, Clusters, PerCluster
      <4>3. CASE d \notin Starts
        <5>1. cur' \notin Cluster
          BY <4>1, <4>3 DEF End, Cluster
        <5>2. QED
          BY <5>1 DEF InChain, Cluster
      <4>4. QED
        BY <4>2, <4>3
    <3>2. CASE pc' \in {"idle", "mount"}
      BY <3>2 DEF InChain
    <3>3. QED
      BY <1>3, <2>1, <3>1, <3>2
         DEF Command, Mount, TooMany, Dir, DirRoot, CdRoot, Cd, FileStatus, OpenFile, CloseFile,
             RepositionFile, DirwalkStart, vars
  <2>3. QED
    BY <2>1, <2>2
<1>4. CASE UNCHANGED vars
  BY <1>4 DEF InChain, vars, walk, Clusters, Cluster, PerCluster
<1>5. QED
  BY <1>1, <1>2, <1>3, <1>4 DEF Next

\* Whatever the directory, on any disk whose clusters have one or two sectors,
\* a walk has only so many steps, and every other word fewer: none waits, starts
\* again or goes round (DIRWALK-NEXT-ENTRY).
THEOREM Closer == Spec => ComesCloser
<1>1. Init => InChain
  BY DEF Init, InChain
<1>2. IInv /\ InChain /\ [Next]_vars => InChain' /\ [pc # "idle" => Distance' \in 0..Distance - 1]_vars
  BY StepCloser DEF vars
<1>3. QED
  BY <1>1, <1>2, Invariant, PTL DEF Spec, ComesCloser

=============================================================================
