------------------------------- MODULE Fat16 --------------------------------
(***************************************************************************)
(* The FAT16 driver of FLOS (inc/fat16_code_v127.asm) on one volume: the   *)
(* two file allocation tables, the root directory, the clusters of the     *)
(* data area, and the commands that change them.                           *)
(*                                                                         *)
(* The driver is not concurrent; what interrupts it is a device that       *)
(* fails, or the power switch, between two sector writes.  So a step is    *)
(* one sector write.  A command works in stages: a stage (an action named  *)
(* after the code) reads, decides, and queues in "todo" the writes the     *)
(* code then makes in a straight line; each write is a step of its own,    *)
(* and the next stage begins when the queue is empty.                      *)
(*                                                                         *)
(* Data is counted in units, SU units to a sector; the 16 directory        *)
(* entries of a sector are ES here, and clusters are numbered from 2.      *)
(***************************************************************************)
EXTENDS Integers, Sequences, FiniteSets, SequencesExt

CONSTANTS
  Clusters,     \* how many data clusters the volume has
  SPC,          \* fs_cluster_size, sectors in a cluster
  SU,           \* units of data in a sector, 512 bytes in the source
  ES,           \* directory entries in a sector, 16 in the source
  RootSectors,  \* fs_root_dir_sectors
  ByteRange,    \* values of the 8-bit sector countdown, 256 in the source
  Names,        \* file and directory names
  AppendData,   \* sequences of units a program may append
  Beyond,       \* where FAT 1 and FAT 2 would hold cluster $ffff, see StrayWrite
  MaxDepth,     \* bound on the depth of directories
  DeviceMayFail,    \* workload: one sector access may fail
  MkdirInFullDir,   \* workload: may make a directory in a full subdirectory
  AppendToDamaged   \* workload: may append to a file a failed append left

ASSUME Fat16Assumption ==
  /\ {Clusters, SPC, SU, ES, RootSectors} \subseteq Nat \ {0}
  /\ ES >= 2
  /\ ByteRange \in Nat /\ ByteRange \div 2 > SPC
  /\ MaxDepth \in Nat
  /\ \A d \in AppendData : d \in Seq(Range(d))
  /\ {DeviceMayFail, MkdirInFullDir, AppendToDamaged} \subseteq BOOLEAN

\* A name (fs_hl_to_filename ends one at its first dot) is none of the marks
\* that stand for the first byte of an entry that has no name, and not one of
\* the two entries a new directory has.
ASSUME NamesAreNames == Names \cap {"$00", "$e5", "?", ".", ".."} = {}

MaxCluster == Clusters + 1      \* the highest cluster number
Data   == 2 .. MaxCluster
EOC    == MaxCluster + 1        \* stands for $fff8 .. $ffff
Table  == 0 .. MaxCluster       \* the entries of a FAT, two are reserved
CU     == SPC * SU              \* units in a cluster
Root   == 0                     \* the directory cluster that means root
Slots(c) == IF c = Root THEN 0 .. RootSectors * ES - 1 ELSE 0 .. SPC * ES - 1
Sectors  == 0 .. Clusters * SPC - 1

\* Entries told by their first byte; what else a deleted entry holds is not
\* looked at.
Empty   == [name |-> "$00", dir |-> FALSE, start |-> 0, len |-> 0]
Deleted == [name |-> "$e5", dir |-> FALSE, start |-> 0, len |-> 0]
Garbage == [name |-> "?", dir |-> FALSE, start |-> 0, len |-> 0]
DirEntry(n, c) == [name |-> n, dir |-> TRUE, start |-> c, len |-> 0]

\* A sector is used for directory entries or for data.  A cleared sector is
\* a directory sector without entries.
Zero == "zero"
Junk == "junk"
DirSector(e)  == [entries |-> e, units |-> [i \in 0 .. SU - 1 |-> Zero]]
DataSector(u) == [entries |-> [i \in 0 .. ES - 1 |-> Garbage], units |-> u]
Cleared    == DirSector([i \in 0 .. ES - 1 |-> Empty])
NeverUsed  == DataSector([i \in 0 .. SU - 1 |-> Junk])

VARIABLES
  fat1, fat2,   \* the two tables
  root,         \* the entries of the root directory
  sector,       \* the sectors of the data area
  cur,          \* cluster of the current directory of the volume
  pc,           \* the stage the running command is at
  todo,         \* sector writes queued by the stage
  r,            \* the driver's variables while a command runs
  req,          \* the running command
  done,         \* the last command and its result, for its caller
  files,        \* history: the tree of files at the last return to a caller
  cwd,          \* history: the path of the current directory
  failed        \* history: a sector access has failed

disk == <<fat1, fat2, root, sector>>
vars == <<disk, cur, pc, todo, r, req, done, files, cwd, failed>>

-----------------------------------------------------------------------------
(* Reading the disk.                                                       *)

Sector(c, s) == (c - 2) * SPC + s        \* cluster_and_offset_to_lba

Entry(loc) ==
  IF loc.c = Root THEN root[loc.i]
  ELSE sector[Sector(loc.c, loc.i \div ES)].entries[loc.i % ES]

(* get_fat_entry_for_cluster, k times.  Whatever is not a cluster ends a   *)
(* chain here; on a sound disk that is the end of chain mark.              *)
Follow == [c \in 0 .. EOC |-> IF c \in Data THEN fat1[c] ELSE EOC]
Hop(c, k) ==
  LET hop[j \in 0 .. Clusters] == IF j = 0 THEN c ELSE Follow[hop[j - 1]]
  IN  hop[k]

ChainLength(c) == Cardinality({k \in 0 .. Clusters - 1 : Hop(c, k) \in Data})
ChainEnd(c)    == Hop(c, ChainLength(c) - 1)
Chain(c)       == {Hop(c, k) : k \in 0 .. Clusters - 1} \cap Data

(* The slots of a directory, numbered in the order it is searched.         *)
Slot(d, k) ==
  IF d = Root THEN [c |-> Root, i |-> k]
  ELSE [c |-> Hop(d, k \div (SPC * ES)), i |-> k % (SPC * ES)]

Positions(d) ==
  0 .. (IF d = Root THEN RootSectors ELSE ChainLength(d) * SPC) * ES - 1

EntryAt(d, k) == Entry(Slot(d, k))

(* An entry that was never used ends the search.                           *)
Used(d) == {k \in Positions(d) : \A j \in 0 .. k : EntryAt(d, j) # Empty}

(* fs_find_filename and fs_find_free_dir_entry: the first slot with the    *)
(* name, unless the search ends before it, and the first slot that is not  *)
(* taken.  Each is a set of one slot, or of none.                          *)
Found(n) ==
  {Slot(cur, k) : k \in {p \in Positions(cur) :
     /\ EntryAt(cur, p).name = n
     /\ \A j \in 0 .. p - 1 : EntryAt(cur, j).name \notin {n, Empty.name}}}
FreeSlot ==
  {Slot(cur, k) : k \in {p \in Positions(cur) :
     /\ EntryAt(cur, p) \in {Empty, Deleted}
     /\ \A j \in 0 .. p - 1 : EntryAt(cur, j) \notin {Empty, Deleted}}}

(* fs_find_free_cluster: the lowest entry that is zero, in FAT 1.  A zero  *)
(* in the two reserved entries, or past the last cluster, means the disk   *)
(* is full.                                                                *)
FreeCluster == {c \in Data : fat1[c] = 0 /\ \A b \in 0 .. c - 1 : fat1[b] # 0}
DiskFull    == FreeCluster = {}

-----------------------------------------------------------------------------
(* The tree of files a reader of the disk finds.                           *)

Damaged == <<"damaged">>

(* What fs_open_file_command and fs_read_data_command return for a whole   *)
(* file; Damaged where they run past the chain.                            *)
Contents(e) ==
  IF e.len = 0 THEN <<>>
  ELSE IF e.start \notin Data \/ ChainLength(e.start) * CU < e.len THEN Damaged
  ELSE [k \in 1 .. e.len |->
          sector[Sector(Hop(e.start, (k - 1) \div CU), ((k - 1) % CU) \div SU)]
            .units[(k - 1) % SU]]

Live(d) == {EntryAt(d, k) : k \in Used(d)} \ {Deleted}

(* The files and directories, each with its path.                          *)
Below(p, d) == {[path |-> Append(p, e.name), e |-> e] :
                  e \in {x \in Live(d) : x.name \notin {".", ".."}}}
Nodes ==
  LET level[k \in 0 .. MaxDepth] ==
        IF k = 0 THEN Below(<<>>, Root)
        ELSE UNION {Below(n.path, n.e.start) :
                      n \in {m \in level[k - 1] : m.e.dir /\ m.e.start \in Data}}
  IN  UNION {level[k] : k \in 0 .. MaxDepth}

(* A file with its contents, a directory.                                  *)
Node(p, e) ==
  [path |-> p, dir |-> e.dir, data |-> IF e.dir THEN <<>> ELSE Contents(e)]

Tree == {Node(n.path, n.e) : n \in Nodes}

(* The path of a directory.                                                *)
PathOf(d) ==
  IF d = Root THEN <<>>
  ELSE (CHOOSE n \in Nodes : n.e.dir /\ n.e.start = d).path

(* The length of a sound file needs exactly the clusters it has.           *)
Sound(e) ==
  (IF e.start = 0 THEN 0 ELSE ChainLength(e.start)) = (e.len + CU - 1) \div CU

-----------------------------------------------------------------------------
(* Sector writes.                                                          *)

FatWrite(t, c, v)    == [to |-> t, c |-> c, v |-> v]
EntryWrite(loc, e)   == [to |-> "entry", loc |-> loc, e |-> e]
SectorWrite(s, x)    == [to |-> "sector", s |-> s, x |-> x]
UpdateFat(c, v)      == <<FatWrite("fat1", c, v), FatWrite("fat2", c, v)>>

ClearCluster(c, from) ==
  [k \in 1 .. SPC - from |-> SectorWrite(Sector(c, from + k - 1), Cleared)]

Write(to) == /\ todo # <<>> /\ Head(todo).to = to
             /\ todo' = Tail(todo)
             /\ UNCHANGED <<cur, pc, r, req, done, files, cwd, failed>>

WriteFat1 ==
  /\ Write("fat1") /\ Head(todo).c \in Table
  /\ fat1' = [fat1 EXCEPT ![Head(todo).c] = Head(todo).v]
  /\ UNCHANGED <<fat2, root, sector>>

WriteFat2 ==
  /\ Write("fat2") /\ Head(todo).c \in Table
  /\ fat2' = [fat2 EXCEPT ![Head(todo).c] = Head(todo).v]
  /\ UNCHANGED <<fat1, root, sector>>

(* The word of cluster $ffff is the last one of the 256th sector after the *)
(* start of the FAT.  Only a FAT of 256 sectors has that sector; behind a  *)
(* shorter one it is a sector of the other FAT, the root directory or the  *)
(* data area, and there the word is the end of a unit.                     *)
StrayWrite ==
  \E t \in {"fat1", "fat2"} :
    /\ Write(t) /\ Head(todo).c \notin Table
    /\ sector' = IF Beyond[t] \in Sectors
                   THEN [sector EXCEPT ![Beyond[t]].units[SU - 1] = Zero]
                   ELSE sector
    /\ UNCHANGED <<fat1, fat2, root>>

WriteEntry ==
  LET loc == Head(todo).loc
      e   == Head(todo).e
  IN  /\ Write("entry")
      /\ IF loc.c = Root
           THEN root' = [root EXCEPT ![loc.i] = e] /\ UNCHANGED sector
           ELSE /\ sector' = [sector EXCEPT
                      ![Sector(loc.c, loc.i \div ES)].entries[loc.i % ES] = e]
                /\ UNCHANGED root
      /\ UNCHANGED <<fat1, fat2>>

(* A sector past the end of the volume belongs to something else.          *)
WriteSector ==
  /\ Write("sector")
  /\ sector' = IF Head(todo).s \in Sectors
                 THEN [sector EXCEPT ![Head(todo).s] = Head(todo).x] ELSE sector
  /\ UNCHANGED <<fat1, fat2, root>>

-----------------------------------------------------------------------------
(* Commands begin at "idle" and return a code to their caller.             *)

NoReq  == [op |-> "none", name |-> "", new |-> "", data |-> <<>>]
NoDone == [req |-> NoReq, err |-> 0, out |-> <<>>]
NoLoc  == [c |-> Root, i |-> -1]
NoRegs == [loc |-> NoLoc, nfc |-> 0, clu |-> 0, pos |-> 0, cnt |-> 0,
           off |-> 0, have |-> 0, left |-> 0]
Req(op, n) == [NoReq EXCEPT !.op = op, !.name = n]

Ok == 0
ErrDiskFull    == 1
ErrNotFound    == 2
ErrDirFull     == 3
ErrNotDir      == 4
ErrNotEmpty    == 5
ErrNotFile     == 6
ErrZeroLength  == 7
ErrMemory      == 8
ErrExists      == 9
ErrAtRoot      == 10
ErrBeyondEof   == 27
ErrDirNotFound == 35
ErrHardware    == 255     \* carry set, a code of the device

(* What the disk holds after a failed access is checked, but no command is  *)
(* given after one.                                                        *)
Idle  == pc = "idle"
Ready == Idle /\ ~failed

Return(q, err, out) ==
  /\ pc' = "idle" /\ todo' = <<>> /\ r' = NoRegs /\ req' = NoReq
  /\ done' = [req |-> q, err |-> err, out |-> out]
  /\ UNCHANGED disk

(* A command that only reads, or fails before it writes.                   *)
Answer(q, err, out) ==
  /\ Ready /\ Return(q, err, out)
  /\ UNCHANGED <<cur, files, cwd, failed>>
Refuse(q, err) == Answer(q, err, <<>>)

(* A command that goes on to the given stage after the given writes.       *)
Begin(q, stage, writes, regs) ==
  /\ Ready
  /\ pc' = stage /\ todo' = writes /\ r' = regs /\ req' = q
  /\ done' = NoDone
  /\ UNCHANGED <<disk, cur, files, cwd, failed>>

At(stage) == pc = stage /\ todo = <<>>

Continue(stage, writes, regs) ==
  /\ pc' = stage /\ todo' = writes /\ r' = regs
  /\ UNCHANGED <<disk, cur, req, done, files, cwd, failed>>

Finish(err) ==
  /\ Return(req, err, <<>>)
  /\ files' = Tree
  /\ UNCHANGED <<cur, cwd, failed>>

End == At("end") /\ Finish(Ok)

-----------------------------------------------------------------------------
(* The current directory.                                                  *)

MoveTo(q, d) ==
  /\ Ready /\ Return(q, Ok, <<>>)
  /\ cur' = d /\ cwd' = PathOf(d)
  /\ UNCHANGED <<files, failed>>

ChangeDir(n) ==
  LET q == Req("chdir", n)
  IN  \/ Found(n) = {} /\ Refuse(q, ErrDirNotFound)
      \/ \E loc \in Found(n) :
           \/ ~Entry(loc).dir /\ Refuse(q, ErrNotDir)
           \/ Entry(loc).dir /\ MoveTo(q, Entry(loc).start)

(* A subdirectory always has the entry "..".                              *)
ParentDir ==
  LET q == Req("parent", "..")
  IN  \/ cur = Root /\ Refuse(q, ErrAtRoot)
      \/ cur # Root /\ \E loc \in Found("..") : MoveTo(q, Entry(loc).start)

RootDir == MoveTo(Req("root", ""), Root)

-----------------------------------------------------------------------------
(* Making files and directories.                                           *)

CreateFile(n) ==
  LET q == Req("create", n)
  IN  \/ Found(n) # {} /\ Refuse(q, ErrExists)
      \/ Found(n) = {} /\ Begin(q, "slot", <<>>, NoRegs)

(* The free cluster is found here, and marked used by the last writes of   *)
(* the command.                                                            *)
MakeDir(n) ==
  LET q == Req("mkdir", n)
  IN  /\ Len(cwd) < MaxDepth
      /\ MkdirInFullDir \/ cur = Root \/ FreeSlot # {}
      /\ \/ Found(n) # {} /\ Refuse(q, ErrExists)
         \/ Found(n) = {} /\ DiskFull /\ Refuse(q, ErrDiskFull)
         \/ /\ Found(n) = {}
            /\ \E c \in FreeCluster : Begin(q, "slot", <<>>, [NoRegs EXCEPT !.nfc = c])

NewDirSector(c) ==
  DirSector([i \in 0 .. ES - 1 |->
    IF i = 0 THEN DirEntry(".", c) ELSE IF i = 1 THEN DirEntry("..", cur) ELSE Empty])

(* fs_find_free_dir_entry finds a slot, and what the two commands write.   *)
EnterName ==
  /\ At("slot")
  /\ \E loc \in FreeSlot :
       Continue("end",
         IF req.op = "create"
           THEN <<EntryWrite(loc, [Empty EXCEPT !.name = req.name])>>
           ELSE <<EntryWrite(loc, DirEntry(req.name, r.nfc)),
                  SectorWrite(Sector(r.nfc, 0), NewDirSector(r.nfc))>>
                \o ClearCluster(r.nfc, 1) \o UpdateFat(r.nfc, EOC),
         NoRegs)

(* It finds none.                                                          *)
NoSlot ==
  /\ At("slot") /\ FreeSlot = {}
  /\ \/ cur = Root /\ Finish(ErrDirFull)
     \/ cur # Root /\ DiskFull /\ Finish(ErrDiskFull)

(* It adds a cluster to the directory and looks again.                     *)
ExtendDir ==
  /\ At("slot") /\ FreeSlot = {} /\ cur # Root
  /\ \E c \in FreeCluster :
       Continue("slot",
         UpdateFat(ChainEnd(cur), c) \o UpdateFat(c, EOC) \o ClearCluster(c, 0), r)

-----------------------------------------------------------------------------
(* Removing and renaming.                                                  *)

(* fs_delco: the entry is marked first, then the chain is set free.        *)
Delete(q, loc) ==
  Begin(q, IF Entry(loc).start = 0 THEN "end" ELSE "free",
        <<EntryWrite(loc, Deleted)>>, [NoRegs EXCEPT !.clu = Entry(loc).start])

EraseFile(n) ==
  LET q == Req("erase", n)
  IN  \/ Found(n) = {} /\ Refuse(q, ErrNotFound)
      \/ \E loc \in Found(n) :
           \/ Entry(loc).dir /\ Refuse(q, ErrNotFile)
           \/ ~Entry(loc).dir /\ Delete(q, loc)

DirIsEmpty(d) ==
  \A k \in Positions(d) : EntryAt(d, k).name \in {"$00", "$e5", ".", ".."}

DeleteDir(n) ==
  LET q == Req("rmdir", n)
  IN  \/ Found(n) = {} /\ Refuse(q, ErrDirNotFound)
      \/ \E loc \in Found(n) :
           \/ ~Entry(loc).dir /\ Refuse(q, ErrNotDir)
           \/ Entry(loc).dir /\ ~DirIsEmpty(Entry(loc).start) /\ Refuse(q, ErrNotEmpty)
           \/ Entry(loc).dir /\ DirIsEmpty(Entry(loc).start) /\ Delete(q, loc)

\* A slip: only the first cluster is set free.
FreeFirstClusterOnly ==
  /\ At("free")
  /\ Continue("end", UpdateFat(r.clu, 0), r)

(* clrfatlp: the loop compares the cluster it has just set free, not the   *)
(* one that follows, with the end of chain mark, and so runs once more     *)
(* with the mark itself as the cluster.                                    *)
FreeNextCluster ==
  /\ At("free")
  /\ Continue(IF r.clu >= EOC THEN "end" ELSE "free", UpdateFat(r.clu, 0),
       [r EXCEPT !.clu = IF r.clu \in Table THEN fat1[r.clu] ELSE 0])

\* A slip: the new name is not looked for.
RenameUnchecked(n, new) ==
  LET q == [Req("rename", n) EXCEPT !.new = new]
  IN  \/ Found(n) = {} /\ Refuse(q, ErrNotFound)
      \/ \E loc \in Found(n) :
           Begin(q, "end", <<EntryWrite(loc, [Entry(loc) EXCEPT !.name = new])>>, NoRegs)

Rename(n, new) ==
  LET q == [Req("rename", n) EXCEPT !.new = new]
  IN  \/ Found(new) # {} /\ Refuse(q, ErrExists)
      \/ Found(new) = {} /\ Found(n) = {} /\ Refuse(q, ErrNotFound)
      \/ /\ Found(new) = {}
         /\ \E loc \in Found(n) :
              Begin(q, "end", <<EntryWrite(loc, [Entry(loc) EXCEPT !.name = new])>>, NoRegs)

-----------------------------------------------------------------------------
(* fs_write_bytes_to_file_command: append.                                 *)

(* The new length is written before there is room for it.                  *)
AppendTo(n, data) ==
  LET q == [Req("append", n) EXCEPT !.data = data]
  IN  \/ data = <<>> /\ Refuse(q, ErrZeroLength)
      \/ data # <<>> /\ Found(n) = {} /\ Refuse(q, ErrNotFound)
      \/ /\ data # <<>>
         /\ \E loc \in Found(n) :
              \/ Entry(loc).dir /\ Refuse(q, ErrNotFile)
              \/ /\ ~Entry(loc).dir
                 /\ AppendToDamaged \/ Sound(Entry(loc))
                 /\ Begin(q, IF Entry(loc).start = 0 THEN "first" ELSE "walk",
                          <<EntryWrite(loc, [Entry(loc) EXCEPT !.len = @ + Len(data)])>>,
                          [NoRegs EXCEPT !.loc = loc, !.clu = Entry(loc).start,
                                         !.have = Entry(loc).len, !.left = Len(data)])

FirstCluster ==
  /\ At("first")
  /\ \/ DiskFull /\ Finish(ErrDiskFull)
     \/ \E c \in FreeCluster :
          Continue("walk",
            UpdateFat(c, EOC) \o <<EntryWrite(r.loc, [Entry(r.loc) EXCEPT !.start = c])>>,
            [r EXCEPT !.clu = c])

\* A slip: the chain is not followed.
FindEndInFirstCluster ==
  /\ At("walk")
  /\ LET have == r.have - (ChainLength(r.clu) - 1) * CU
         pos  == have \div SU
     IN  Continue(IF pos = SPC THEN "link" ELSE "fill", <<>>,
           [r EXCEPT !.have = 0, !.pos = pos, !.cnt = SPC - pos, !.off = have % SU])

(* apenclch and atlclif: to the last cluster of the chain, and from what   *)
(* is left of the old length to the sector in it and the 8-bit count of    *)
(* the sectors that remain.                                                *)
FindEnd ==
  /\ At("walk")
  /\ LET have == r.have - (ChainLength(r.clu) - 1) * CU
         pos  == (have \div SU) % (ByteRange \div 2)
         cnt  == (SPC - pos) % ByteRange
     IN  Continue(IF cnt = 0 THEN "link" ELSE "fill", <<>>,
           [r EXCEPT !.clu = ChainEnd(@), !.have = 0,
                     !.pos = pos, !.cnt = cnt, !.off = have % SU])

(* fs_dcsb .. fs_sadok: one sector is filled and written.                  *)
Filled(old, from, n) ==
  DataSector([i \in 0 .. SU - 1 |->
    IF i \in r.off .. r.off + n - 1 THEN req.data[from + i - r.off + 1] ELSE old[i]])

\* A slip: every sector is filled from the offset of the first.
FillSectorKeepOffset ==
  /\ At("fill")
  /\ LET s   == Sector(r.clu, r.pos)
         n   == IF r.left < SU - r.off THEN r.left ELSE SU - r.off
         cnt == (r.cnt - 1) % ByteRange
     IN  Continue(
           IF r.left = n THEN "end" ELSE IF cnt = 0 THEN "link" ELSE "fill",
           <<SectorWrite(s, Filled(sector[s].units, Len(req.data) - r.left, n))>>,
           [r EXCEPT !.pos = @ + 1, !.cnt = cnt, !.left = @ - n])

FillSector ==
  /\ At("fill")
  /\ LET s   == Sector(r.clu, r.pos)
         n   == IF r.left < SU - r.off THEN r.left ELSE SU - r.off
         old == IF r.off = 0 \/ s \notin Sectors THEN Cleared.units ELSE sector[s].units
         cnt == (r.cnt - 1) % ByteRange
     IN  Continue(
           IF r.left = n THEN "end" ELSE IF cnt = 0 THEN "link" ELSE "fill",
           <<SectorWrite(s, Filled(old, Len(req.data) - r.left, n))>>,
           [r EXCEPT !.pos = @ + 1, !.cnt = cnt, !.off = 0, !.left = @ - n])

(* The source of the data runs past the last bank of memory: the sector in *)
(* the buffer is not written.                                              *)
OutOfMemory == At("fill") /\ Finish(ErrMemory)

\* A slip: the position is not set back.
LinkClusterKeepPosition ==
  /\ At("link")
  /\ \/ DiskFull /\ Finish(ErrDiskFull)
     \/ \E c \in FreeCluster :
          Continue("fill", UpdateFat(r.clu, c) \o UpdateFat(c, EOC),
            [r EXCEPT !.clu = c, !.cnt = SPC])

\* A slip: the new cluster is not marked as the last one.
LinkClusterUnmarked ==
  /\ At("link")
  /\ \/ DiskFull /\ Finish(ErrDiskFull)
     \/ \E c \in FreeCluster :
          Continue("fill", UpdateFat(r.clu, c), [r EXCEPT !.clu = c, !.pos = 0, !.cnt = SPC])

(* fs_sfncl: the chain is linked to the new cluster, then the new cluster  *)
(* is marked.                                                              *)
LinkCluster ==
  /\ At("link")
  /\ \/ DiskFull /\ Finish(ErrDiskFull)
     \/ \E c \in FreeCluster :
          Continue("fill", UpdateFat(r.clu, c) \o UpdateFat(c, EOC),
            [r EXCEPT !.clu = c, !.pos = 0, !.cnt = SPC])

-----------------------------------------------------------------------------
(* Loading a whole file.  A file without clusters that claims a length is  *)
(* read from "cluster 0": wrong data for the first cluster, no error.      *)

LoadFile(n) ==
  LET q == Req("load", n)
  IN  \/ Found(n) = {} /\ Refuse(q, ErrNotFound)
      \/ \E loc \in Found(n) :
           LET e    == Entry(loc)
               fits == Contents(e) # Damaged \/ (e.start = 0 /\ e.len <= CU)
           IN  \/ e.dir /\ Refuse(q, ErrNotFile)
               \/ ~e.dir /\ e.len = 0 /\ Refuse(q, ErrZeroLength)
               \/ ~e.dir /\ e.len > 0 /\ ~fits /\ Refuse(q, ErrBeyondEof)
               \/ ~e.dir /\ e.len > 0 /\ fits /\ Answer(q, Ok, Contents(e))

-----------------------------------------------------------------------------
\* A slip: the loop that sets clusters free does not look at the error.
FailUnseenInErase ==
  /\ DeviceMayFail /\ ~Idle
  /\ Return(req, IF pc = "free" THEN Ok ELSE ErrHardware, <<>>)
  /\ files' = Tree
  /\ failed' = TRUE
  /\ UNCHANGED <<cur, cwd>>

(* A sector access fails, of a command that has begun to write: every      *)
(* routine returns the error at once, but fs_make_dir_command, whose last  *)
(* call, of update_fat_entry_for_cluster, is followed by "xor a".          *)
Fail ==
  /\ DeviceMayFail /\ ~Idle
  /\ LET unseen == /\ req.op = "mkdir" /\ pc = "end"
                   /\ \A k \in 1 .. Len(todo) : todo[k].to \in {"fat1", "fat2"}
     IN  Return(req, IF unseen THEN Ok ELSE ErrHardware, <<>>)
  /\ files' = Tree
  /\ failed' = TRUE
  /\ UNCHANGED <<cur, cwd>>

-----------------------------------------------------------------------------
(* fs_format_device_command leaves an empty volume.                        *)
Init ==
  /\ fat1 = [c \in Table |-> IF c \in Data THEN 0 ELSE EOC]
  /\ fat2 = fat1
  /\ root = [i \in Slots(Root) |-> Empty]
  /\ sector = [s \in Sectors |-> NeverUsed]
  /\ cur = Root
  /\ pc = "idle" /\ todo = <<>> /\ r = NoRegs /\ req = NoReq
  /\ done = NoDone /\ files = {} /\ cwd = <<>> /\ failed = FALSE

DirCommand ==
  \/ ParentDir \/ RootDir
  \/ \E n \in Names : ChangeDir(n) \/ MakeDir(n) \/ DeleteDir(n)

FileCommand ==
  \E n \in Names :
    \/ CreateFile(n) \/ EraseFile(n) \/ LoadFile(n)
    \/ \E data \in AppendData : AppendTo(n, data)
    \/ \E new \in Names : Rename(n, new)

Stage ==
  \/ EnterName \/ NoSlot \/ ExtendDir \/ FreeNextCluster
  \/ FirstCluster \/ FindEnd \/ FillSector \/ OutOfMemory \/ LinkCluster \/ End

DiskWrite == WriteFat1 \/ WriteFat2 \/ StrayWrite \/ WriteEntry \/ WriteSector

Next == DirCommand \/ FileCommand \/ Stage \/ DiskWrite \/ Fail

Spec == Init /\ [][Next]_vars

-----------------------------------------------------------------------------
(* The clusters of everything in the tree.                                 *)
Owners == {n \in Nodes : n.e.start # 0}
Owned(n) == Chain(n.e.start)

(* The contents of every variable.                                         *)
EntryType == [name : STRING, dir : BOOLEAN, start : Nat, len : Nat]
TypeOK ==
  /\ fat1 \in [Table -> Table \cup {EOC}]
  /\ fat2 \in [Table -> Table \cup {EOC}]
  /\ DOMAIN root = Slots(Root)
  /\ DOMAIN sector = Sectors
  /\ cur \in {Root} \cup Data
  /\ pc \in {"idle", "slot", "free", "first", "walk", "fill", "link", "end"}
  /\ r.cnt \in 0 .. ByteRange - 1 /\ r.pos \in 0 .. SPC
  /\ failed \in BOOLEAN

(* No cluster belongs to two files or directories, at any moment of any    *)
(* command, so never to two after the power fails.                         *)
NoCrossLinks ==
  LET owners == Owners
  IN  \A m, n \in owners : m # n => Owned(m) \cap Owned(n) = {}

(* Between commands the clusters in use are those of the tree: none is     *)
(* lost, and none in use is marked free.                                   *)
NoLostClusters ==
  Ready => {c \in Data : fat1[c] # 0} = UNION {Owned(n) : n \in Owners}

(* The two tables are written one after the other: they are the same       *)
(* between commands, and never differ in more than one cluster.            *)
FatsAgree ==
  LET differ == {c \in Table : fat1[c] # fat2[c]}
  IN  /\ Ready => differ = {}
      /\ Cardinality(differ) <= 1

(* The files a command is not about can be read back as they were, after   *)
(* each of its sector writes: a command cut short by the device or the     *)
(* power damages nothing but its own file.                                 *)
Target ==
  {Append(cwd, req.name)} \cup (IF req.op = "rename" THEN {Append(cwd, req.new)} ELSE {})
Untouched(X) == {f \in X : \A t \in Target : ~IsPrefix(t, f.path)}
OthersIntact == ~Idle => Untouched(files) \subseteq Tree

(* At any sector write, and when a command returns: every cluster belongs  *)
(* to one file or to none, is used just when it belongs to one, is the     *)
(* same in both tables, and no command touches the files of others.        *)
DiskSound == NoCrossLinks /\ NoLostClusters /\ FatsAgree /\ OthersIntact

(* A sector access that failed is reported to the caller (lines 53 to 55)  *)
(* by every command but fs_make_dir_command, and by that when anything but *)
(* the entries of the new directory in the tables is missing.              *)
OnlyMakeDirHidesErrors ==
  failed /\ done.err = Ok =>
    /\ done.req.op = "mkdir"
    /\ \E n \in Nodes : /\ n.e.dir /\ n.path = Append(cwd, done.req.name)
                       /\ DirIsEmpty(n.e.start)

(* The comments of fs_append on its registers: "c = sectors into this      *)
(* cluster", "b = remaining sectors in cluster" (lines 1173 and 1176).     *)
AppendStaysInCluster ==
  pc = "fill" => r.pos < SPC /\ r.pos + r.cnt = SPC

(* The commands together are a file store: each does all of its work or    *)
(* reports an error, and what was appended is what is loaded.              *)
Store == INSTANCE FileStore WITH tree <- files
IsFileStore == Store!Spec
=============================================================================
