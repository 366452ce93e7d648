-------------------------- MODULE Fat16TreeProofs ---------------------------
(***************************************************************************)
(* Proofs about the tree of files on a volume of the FAT16 driver, for all *)
(* volumes, names and data.                                                *)
(*                                                                         *)
(* The argument.  Entries that name files and directories, with the chains *)
(* of a table, have a Shape: the directories are a tree, and no two chains *)
(* meet.  Between the writes of a command a disk need not look like that   *)
(* of its beginning or its end, so the invariant TreeInv follows the queue *)
(* of writes: there is a Shape, and a Plan of what is still to be written, *)
(* with the clusters that are in use and in no chain, or in a chain and    *)
(* not yet in use.  Each write takes a plan to a plan (the lemmas ...      *)
(* Written), each stage and command begins with one (... Tree).  OthersInv *)
(* adds that the files a command is not about are in the tree, HidesInv    *)
(* that a new directory is there before the tables are.                    *)
(***************************************************************************)
EXTENDS Fat16Proofs

-----------------------------------------------------------------------------
(* What the writes still queued do to a sound disk.  Each plan says what   *)
(* is queued (w), and which clusters are marked used, and in no chain, or  *)
(* in a chain, and not yet marked, for the entries E, the table t and the  *)
(* command k.                                                              *)
Cmd == [pc |-> pc, op |-> req.op, name |-> req.name, loc |-> r.loc, clu |-> r.clu,
        nfc |-> r.nfc, cur |-> cur, depth |-> Len(cwd)]

InUse(t) == {c \in Data : t[c] # 0}
Balance(E, t, A, B) == InUse(t) \ Taken(E, t) = A /\ Taken(E, t) \ InUse(t) = B

Inert(x) == x.to = "fat2" \/ (x.to = "fat1" /\ x.c \notin Table)
Quiet(w) == \A j \in 1 .. Len(w) : Inert(w[j])

\* The chain that is being set free.
Left(t, k) == IF k.pc = "free" THEN ChainIn(t, k.clu) ELSE {}

\* The entry the command is about.
Aimed(E, t, k, l) == l \in In(t, k.cur) /\ E[l].name = k.name

\* The variables of the driver fit the disk.
Settled(E, t, k) ==
  /\ k.pc = "slot" => k.op = "create"
  /\ k.pc = "free" =>
       \/ k.clu = EOC
       \/ k.clu \in Data /\ Ended(t, k.clu) /\ t[EndIn(t, k.clu)] = EOC
  /\ k.pc \in {"first", "walk", "fill", "link"} =>
       k.loc \in Props(E) /\ ~E[k.loc].dir /\ Aimed(E, t, k, k.loc)
  /\ k.pc = "first" => E[k.loc].start = 0
  /\ k.pc = "walk" => E[k.loc].start = k.clu /\ k.clu # 0
  /\ k.pc \in {"fill", "link"} =>
       E[k.loc].start # 0 /\ k.clu = EndIn(t, E[k.loc].start)

\* The writes to a cluster c that is the last of the chain of an entry e.
Stuff(e, c, k) ==
  IF e.dir
    THEN {Empty} \cup (IF e.start = c THEN {DirEntry(".", c), DirEntry("..", k.cur)} ELSE {})
    ELSE {Garbage}
Fills(x, e, c, k) ==
  /\ x.to = "sector" /\ \E s \in 0 .. SPC - 1 : x.s = Sector(c, s)
  /\ \A i \in 0 .. ES - 1 : x.x.entries[i] \in Stuff(e, c, k)
Mark(c) == FatWrite("fat1", c, EOC)
Filling(e, c, w, k) ==
  \A j \in 1 .. Len(w) : w[j].to = "fat2" \/ w[j] = Mark(c) \/ Fills(w[j], e, c, k)
Marks(c, w)  == \E j \in 1 .. Len(w) : w[j] = Mark(c)
Pending(l, w) ==
  l.c # Root /\ \E j \in 1 .. Len(w) : w[j].to = "sector" /\ w[j].s = Sector(l.c, l.i \div ES)
Covers(c, w) == \A l \in LocSet : l.c = c => Pending(l, w)

\* A place for a new entry in the current directory.
FreePlace(E, t, k, loc) ==
  /\ loc \in In(t, k.cur) /\ E[loc] \in {Empty, Deleted}
  /\ \A m \in In(t, k.cur) : Earlier(t, k.cur, m, loc) => E[m] # Empty

QuietPlan(E, t, w, k) == Quiet(w) /\ Settled(E, t, k) /\ Balance(E, t, Left(t, k), {})
MkdirPlan(E, t, w, k) ==
  /\ k.pc = "slot" /\ k.op = "mkdir" /\ w = <<>>
  /\ k.nfc \in Data /\ t[k.nfc] = 0 /\ k.depth < MaxDepth
  /\ Balance(E, t, {}, {})
FreePlan(E, t, w, k) ==
  /\ k.pc \in {"free", "end"} /\ Settled(E, t, k)
  /\ w # <<>> /\ w[1].to = "fat1" /\ w[1].v = 0 /\ w[1].c \in Data /\ w[1].c \notin Left(t, k)
  /\ Quiet(Tail(w))
  /\ Balance(E, t, {w[1].c} \cup Left(t, k), {})
FillPlan(E, t, w, k) ==
  /\ k.pc \in {"slot", "fill", "link", "end"} /\ Settled(E, t, k)
  /\ \E c \in Data, o \in Props(E) :
       /\ E[o].start # 0 /\ c = EndIn(t, E[o].start)
       /\ E[o].dir /\ E[o].start = c => o \in In(t, k.cur)
       /\ ~E[o].dir => Aimed(E, t, k, o)
       /\ Filling(E[o], c, w, k) /\ (t[c] = 0 => Marks(c, w))
       /\ \A l \in Props(E) : l.c # c
       /\ Balance(E, t, {}, {y \in {c} : t[y] = 0})
LinkPlan(E, t, w, k) ==
  \E c \in Data, o \in Props(E) :
    /\ E[o].start # 0 /\ t[c] = 0
    /\ \/ k.pc = "slot" /\ k.op = "create" /\ E[o].dir /\ Covers(c, Tail(w))
       \/ k.pc = "fill" /\ ~E[o].dir /\ o = k.loc /\ c = k.clu /\ Aimed(E, t, k, o)
    /\ w # <<>> /\ w[1] = FatWrite("fat1", EndIn(t, E[o].start), c)
    /\ Filling(E[o], c, Tail(w), k) /\ Marks(c, Tail(w))
    /\ Balance(E, t, {}, {})
DirPlan(E, t, w, k) ==
  \E c \in Data, loc \in LocSet :
    /\ k.pc = "end" /\ k.name \in Names /\ t[c] = 0 /\ FreePlace(E, t, k, loc) /\ k.depth < MaxDepth
    /\ w # <<>> /\ w[1] = EntryWrite(loc, DirEntry(k.name, c))
    /\ Filling(DirEntry(k.name, c), c, Tail(w), k) /\ Marks(c, Tail(w)) /\ Covers(c, Tail(w))
    /\ Balance(E, t, {}, {})
ErasePlan(E, t, w, k) ==
  \E loc \in Props(E) :
    /\ w = <<EntryWrite(loc, Deleted)>> /\ Aimed(E, t, k, loc)
    /\ IF E[loc].start = 0 THEN k.pc = "end" ELSE k.pc = "free" /\ k.clu = E[loc].start
    /\ E[loc].dir => \A l \in In(t, E[loc].start) : ~Proper(E[l])
    /\ Balance(E, t, {}, {})
OverPlan(E, t, w, k) ==
  \E loc \in Props(E), e \in EntrySet :
    /\ k.pc \in {"end", "first", "walk"} /\ Settled(E, t, k)
    /\ w = <<EntryWrite(loc, e)>> /\ Proper(e) /\ e.start = E[loc].start /\ e.dir = E[loc].dir
    /\ Aimed(E, t, k, loc) /\ (k.pc # "end" => e.name = E[loc].name)
    /\ Balance(E, t, {}, {})
CreatePlan(E, t, w, k) ==
  \E loc \in LocSet, e \in EntrySet :
    /\ k.pc = "end" /\ FreePlace(E, t, k, loc)
    /\ w = <<EntryWrite(loc, e)>> /\ Proper(e) /\ e.start = 0 /\ ~e.dir
    /\ Balance(E, t, {}, {})
FirstPlan(E, t, w, k) ==
  \E c \in Data :
    /\ k.pc = "walk" /\ k.loc \in Props(E) /\ ~E[k.loc].dir /\ E[k.loc].start = 0 /\ k.clu = c
    /\ Aimed(E, t, k, k.loc)
    /\ c \notin Taken(E, t) /\ t[c] \in {0, EOC} /\ (t[c] = 0 => Marks(c, w))
    /\ w # <<>> /\ w[Len(w)] = EntryWrite(k.loc, [E[k.loc] EXCEPT !.start = c])
    /\ \A j \in 1 .. Len(w) - 1 : w[j].to = "fat2" \/ w[j] = Mark(c)
    /\ Balance(E, t, {y \in {c} : t[y] # 0}, {})
Plan(E, t, w, k) ==
  \/ QuietPlan(E, t, w, k) \/ MkdirPlan(E, t, w, k) \/ FreePlan(E, t, w, k)
  \/ FillPlan(E, t, w, k) \/ LinkPlan(E, t, w, k) \/ DirPlan(E, t, w, k)
  \/ ErasePlan(E, t, w, k) \/ OverPlan(E, t, w, k) \/ CreatePlan(E, t, w, k)
  \/ FirstPlan(E, t, w, k)

\* A directory holds entries, and ".." leads to the directory it is in.
Clean(E, t, R, d, l) ==
  \/ E[l] \in {Empty, Deleted}
  \/ Proper(E[l])
  \/ E[l].name = "." /\ d # Root
  \/ /\ E[l].name = ".." /\ d # Root /\ E[l].start \in Dirs(R)
     /\ \A m \in Props(E) : E[m].dir /\ E[m].start = d => m \in In(t, E[l].start)
AllClean(E, t, R, w) ==
  \A d \in Dirs(R) : \A l \in In(t, d) : Pending(l, w) \/ Clean(E, t, R, d, l)

Working(E, t, w, k, R, P) ==
  /\ k.cur \in Dirs(R) /\ P[k.cur] = k.depth
  /\ AllClean(E, t, R, w)
  /\ Plan(E, t, w, k)

\* The queue without its first write.
LEMMA Rest ==
  ASSUME NEW w \in Seq(WriteSet), w # <<>>
  PROVE  /\ w[1] \in WriteSet /\ Tail(w) \in Seq(WriteSet)
         /\ Len(w) \in Nat \ {0} /\ Len(Tail(w)) = Len(w) - 1
         /\ \A j \in 1 .. Len(Tail(w)) : Tail(w)[j] = w[j + 1] /\ j + 1 \in 1 .. Len(w)
         /\ \A j \in 2 .. Len(w) : w[j] = Tail(w)[j - 1] /\ j - 1 \in 1 .. Len(Tail(w))
         /\ Len(w) = 1 => Tail(w) = <<>>
<1>1. /\ Head(w) = w[1] /\ Head(w) \in WriteSet /\ Len(w) \in Nat \ {0}
      /\ Tail(w) \in Seq(WriteSet) /\ Len(Tail(w)) = Len(w) - 1
      /\ \A j \in 1 .. Len(w) - 1 : Tail(w)[j] = w[j + 1]
  BY FirstWrite
<1> DEFINE v == Tail(w)
           n == Len(w)
<1>a. v = <<>> \/ Len(v) \in Nat \ {0}
  BY <1>1, EmptySeq, Zenon
<1> HIDE DEF v, n
<1>2. n = 1 => v = <<>>
  BY <1>1, <1>a DEF v, n
<1>3. n \in Nat \ {0} /\ Len(v) = n - 1 /\ \A j \in 1 .. n - 1 : v[j] = w[j + 1]
  BY <1>1 DEF v, n
<1>4. \A j \in 1 .. Len(v) : v[j] = w[j + 1] /\ j + 1 \in 1 .. n
  BY <1>3
<1>5. ASSUME NEW j \in 2 .. n PROVE w[j] = v[j - 1] /\ j - 1 \in 1 .. Len(v)
  <2>1. j - 1 \in 1 .. n - 1 /\ (j - 1) + 1 = j
    BY <1>3
  <2> QED BY <1>3, <2>1
<1> QED BY <1>1, <1>2, <1>4, <1>5 DEF v, n

\* What is said of a queue, of its first write and of the rest.
LEMMA RestParts ==
  ASSUME NEW w \in Seq(WriteSet), w # <<>>
  PROVE  /\ Quiet(w) => Inert(w[1]) /\ Quiet(Tail(w))
         /\ \A e, c, k : Filling(e, c, w, k) =>
              /\ w[1].to = "fat2" \/ w[1] = Mark(c) \/ Fills(w[1], e, c, k)
              /\ Filling(e, c, Tail(w), k)
         /\ \A c : Marks(c, w) => w[1] = Mark(c) \/ Marks(c, Tail(w))
         /\ \A l \in LocSet : Pending(l, w) =>
              \/ w[1].to = "sector" /\ l.c # Root /\ w[1].s = Sector(l.c, l.i \div ES)
              \/ Pending(l, Tail(w))
<1>1. /\ Len(w) \in Nat \ {0} /\ 1 \in 1 .. Len(w)
      /\ \A j \in 1 .. Len(Tail(w)) : Tail(w)[j] = w[j + 1] /\ j + 1 \in 1 .. Len(w)
  BY Rest
<1>2. \A j \in 1 .. Len(w) : j = 1 \/ \E i \in 1 .. Len(Tail(w)) : w[j] = Tail(w)[i]
  <2> TAKE j \in 1 .. Len(w)
  <2>1. j = 1 \/ j \in 2 .. Len(w)
    BY <1>1
  <2> QED BY <2>1, Rest
<1> DEFINE v == Tail(w)
<1>3. Quiet(w) => Inert(w[1]) /\ Quiet(v)
  BY <1>1 DEF Quiet
<1>4. ASSUME NEW e, NEW c, NEW k, Filling(e, c, w, k)
      PROVE  /\ w[1].to = "fat2" \/ w[1] = Mark(c) \/ Fills(w[1], e, c, k)
             /\ Filling(e, c, v, k)
  BY <1>1, <1>4 DEF Filling
<1>5. ASSUME NEW c, Marks(c, w) PROVE w[1] = Mark(c) \/ Marks(c, v)
  BY <1>2, <1>5 DEF Marks
<1>6. ASSUME NEW l \in LocSet, Pending(l, w)
      PROVE  \/ w[1].to = "sector" /\ l.c # Root /\ w[1].s = Sector(l.c, l.i \div ES)
             \/ Pending(l, v)
  BY <1>2, <1>6 DEF Pending
<1> QED BY <1>3, <1>4, <1>5, <1>6

\* A write that is not of a sector takes no sector off the queue.
LEMMA CoversRest ==
  ASSUME NEW w \in Seq(WriteSet), w # <<>>, w[1].to # "sector"
  PROVE  /\ \A c : Covers(c, w) => Covers(c, Tail(w))
         /\ \A E, t, R : AllClean(E, t, R, w) => AllClean(E, t, R, Tail(w))
<1>1. \A l \in LocSet : Pending(l, w) => Pending(l, Tail(w))
  BY RestParts
<1>2. ASSUME NEW c, Covers(c, w) PROVE Covers(c, Tail(w))
  BY <1>1, <1>2 DEF Covers
<1>3. ASSUME NEW E, NEW t, NEW R, AllClean(E, t, R, w) PROVE AllClean(E, t, R, Tail(w))
  BY <1>1, <1>3 DEF AllClean, In
<1> QED BY <1>2, <1>3

\* The rest of the writes of a first cluster.
LEMMA OtherRest ==
  ASSUME NEW w \in Seq(WriteSet), w # <<>>, Len(w) # 1, NEW c,
         \A j \in 1 .. Len(w) - 1 : w[j].to = "fat2" \/ w[j] = Mark(c)
  PROVE  /\ Tail(w) # <<>> /\ Tail(w)[Len(Tail(w))] = w[Len(w)]
         /\ \A j \in 1 .. Len(Tail(w)) - 1 : Tail(w)[j].to = "fat2" \/ Tail(w)[j] = Mark(c)
<1> DEFINE n == Len(w)
           v == Tail(w)
<1>1. /\ n \in Nat \ {0} /\ n # 1 /\ Len(v) = n - 1
      /\ \A j \in 1 .. Len(v) : v[j] = w[j + 1]
  BY Rest
<1>2. \A j \in 1 .. n - 1 : w[j].to = "fat2" \/ w[j] = Mark(c)
  OBVIOUS
<1> HIDE DEF v, n
<1>3. v # <<>>
  BY <1>1
<1>4. v[Len(v)] = w[n]
  <2>1. n - 1 \in 1 .. Len(v) /\ (n - 1) + 1 = n
    BY <1>1
  <2> QED BY <1>1, <2>1
<1>5. ASSUME NEW j \in 1 .. Len(v) - 1 PROVE v[j].to = "fat2" \/ v[j] = Mark(c)
  <2>1. j \in 1 .. Len(v) /\ j + 1 \in 1 .. n - 1
    BY <1>1
  <2> QED BY <1>1, <1>2, <2>1
<1> QED BY <1>3, <1>4, <1>5 DEF n, v

\* The parts of a write, and the numbers that are no cluster.
LEMMA KindsOfWrite ==
  /\ \A c, v : FatWrite("fat1", c, v).to = "fat1" /\ FatWrite("fat1", c, v).c = c
               /\ FatWrite("fat1", c, v).v = v
  /\ \A loc, e : EntryWrite(loc, e).to = "entry" /\ EntryWrite(loc, e).loc = loc
                 /\ EntryWrite(loc, e).e = e
  /\ Data \subseteq Table /\ EOC \notin Table /\ EOC \notin Data /\ 0 \notin Data /\ EOC # 0
BY Sizes DEF FatWrite, EntryWrite

\* A write that changes nothing that counts.
LEMMA InertWritten ==
  ASSUME NEW E \in Entries, NEW t \in Tables, NEW R, NEW P, Shape(E, t, R, P), NEW k,
         NEW w \in Seq(WriteSet), w # <<>>, Inert(w[1]), Working(E, t, w, k, R, P)
  PROVE  Working(E, t, Tail(w), k, R, P)
<1> DEFINE v == Tail(w)
<1>1. w[1].to \in {"fat1", "fat2"} /\ (w[1].to = "fat1" => w[1].c \notin Data)
  BY KindsOfWrite DEF Inert
<1>2. AllClean(E, t, R, v)
  BY <1>1, CoversRest DEF Working
<1> SUFFICES Plan(E, t, v, k)
  BY <1>2 DEF Working
<1>3. ASSUME NEW l \in Props(E), E[l].start # 0 PROVE EndIn(t, E[l].start) \in Data
  <2>1. E[l].start \in 0 .. EOC /\ E[l].start \in Data
    BY <1>3, EntryParts DEF Props
  <2> QED BY <2>1, ChainParts
<1>4. /\ ~MkdirPlan(E, t, w, k) /\ ~FreePlan(E, t, w, k) /\ ~DirPlan(E, t, w, k)
      /\ ~ErasePlan(E, t, w, k) /\ ~OverPlan(E, t, w, k) /\ ~CreatePlan(E, t, w, k)
  <2>1. ~MkdirPlan(E, t, w, k) /\ ~FreePlan(E, t, w, k)
    BY <1>1 DEF MkdirPlan, FreePlan
  <2>2. \A loc, e : w[1] # EntryWrite(loc, e)
    BY <1>1, KindsOfWrite
  <2>3. \A loc, e : w # <<EntryWrite(loc, e)>>
    <3> SUFFICES ASSUME NEW loc, NEW e, w = <<EntryWrite(loc, e)>> PROVE FALSE
      OBVIOUS
    <3>1. w[1] = EntryWrite(loc, e)
      OBVIOUS
    <3> QED BY <2>2, <3>1
  <2> QED BY <2>1, <2>2, <2>3 DEF DirPlan, ErasePlan, OverPlan, CreatePlan
<1>5. ~LinkPlan(E, t, w, k)
  <2> SUFFICES ASSUME NEW c \in Data, NEW o \in Props(E), E[o].start # 0,
                      w[1] = FatWrite("fat1", EndIn(t, E[o].start), c)
               PROVE  FALSE
    BY DEF LinkPlan
  <2> QED BY <1>1, <1>3, KindsOfWrite
<1>6. CASE QuietPlan(E, t, w, k)
  BY <1>6, RestParts DEF QuietPlan, Plan
<1>7. \A c \in Data : w[1] # Mark(c)
  BY <1>1, KindsOfWrite DEF Mark
<1>8. CASE FillPlan(E, t, w, k)
  <2>1. PICK c \in Data, o \in Props(E) :
          /\ E[o].start # 0 /\ c = EndIn(t, E[o].start)
          /\ E[o].dir /\ E[o].start = c => o \in In(t, k.cur)
          /\ ~E[o].dir => Aimed(E, t, k, o)
          /\ Filling(E[o], c, w, k) /\ (t[c] = 0 => Marks(c, w))
          /\ \A l \in Props(E) : l.c # c
          /\ Balance(E, t, {}, {y \in {c} : t[y] = 0})
    BY <1>8 DEF FillPlan
  <2>2. Filling(E[o], c, v, k) /\ (t[c] = 0 => Marks(c, v))
    BY <1>7, <2>1, RestParts
  <2>3. FillPlan(E, t, v, k)
    BY <1>8, <2>1, <2>2 DEF FillPlan
  <2> QED BY <2>3 DEF Plan
<1>9. CASE FirstPlan(E, t, w, k)
  <2>1. PICK c \in Data :
          /\ k.pc = "walk" /\ k.loc \in Props(E) /\ ~E[k.loc].dir /\ E[k.loc].start = 0 /\ k.clu = c
          /\ Aimed(E, t, k, k.loc)
          /\ c \notin Taken(E, t) /\ t[c] \in {0, EOC} /\ (t[c] = 0 => Marks(c, w))
          /\ w # <<>> /\ w[Len(w)] = EntryWrite(k.loc, [E[k.loc] EXCEPT !.start = c])
          /\ \A j \in 1 .. Len(w) - 1 : w[j].to = "fat2" \/ w[j] = Mark(c)
          /\ Balance(E, t, {y \in {c} : t[y] # 0}, {})
    BY <1>9 DEF FirstPlan
  <2>2. t[c] = 0 => Marks(c, v)
    BY <1>7, <2>1, RestParts
  <2>3. Len(w) # 1
    BY <1>1, <2>1, KindsOfWrite
  <2>4. v # <<>> /\ v[Len(v)] = w[Len(w)] /\ \A j \in 1 .. Len(v) - 1 : v[j].to = "fat2" \/ v[j] = Mark(c)
    BY <2>1, <2>3, OtherRest
  <2>5. FirstPlan(E, t, v, k)
    BY <2>1, <2>2, <2>4 DEF FirstPlan
  <2> QED BY <2>5 DEF Plan
<1> QED BY <1>4, <1>5, <1>6, <1>8, <1>9 DEF Working, Plan


\* Directories whose places are the same, or more that are still to be written,
\* stay as they were.
LEMMA CleanKept ==
  ASSUME NEW E, NEW t, NEW u, NEW R, NEW w, NEW v,
         \A d \in Dirs(R) : In(t, d) \subseteq In(u, d),
         \A d \in Dirs(R) : \A l \in In(u, d) : l \in In(t, d) \/ Pending(l, v),
         \A l \in LocSet : Pending(l, w) => Pending(l, v),
         AllClean(E, t, R, w)
  PROVE  AllClean(E, u, R, v)
<1> SUFFICES ASSUME NEW d \in Dirs(R), NEW l \in In(u, d), l \in In(t, d), ~Pending(l, w)
             PROVE  Clean(E, u, R, d, l)
  BY DEF AllClean, In
<1>1. Clean(E, t, R, d, l)
  BY DEF AllClean
<1> QED BY <1>1 DEF Clean

\* A table that is one of the two with another value in one place.
PutIn(t, u, x, v) == u \in Tables /\ \A y \in Table : u[y] = IF y = x THEN v ELSE t[y]

\* A cluster is set free.
LEMMA FreeWritten ==
  ASSUME NEW E \in Entries, NEW t \in Tables, NEW R, NEW P, Shape(E, t, R, P), NEW k,
         NEW w \in Seq(WriteSet), FreePlan(E, t, w, k), NEW u, PutIn(t, u, w[1].c, w[1].v),
         k.clu \in 0 .. EOC, AllClean(E, t, R, w)
  PROVE  Shape(E, u, R, P) /\ QuietPlan(E, u, Tail(w), k) /\ AllClean(E, u, R, Tail(w))
<1> DEFINE x == w[1].c
<1>1. /\ k.pc \in {"free", "end"} /\ Settled(E, t, k)
      /\ w # <<>> /\ w[1].to = "fat1" /\ w[1].v = 0 /\ x \in Data /\ x \notin Left(t, k)
      /\ Quiet(Tail(w)) /\ Balance(E, t, {x} \cup Left(t, k), {})
  BY DEF FreePlan
<1>2. u \in Tables /\ \A y \in Table : u[y] = IF y = x THEN 0 ELSE t[y]
  BY <1>1 DEF PutIn
<1> HIDE DEF x
<1>3. x \notin Taken(E, t) /\ Taken(E, t) \subseteq InUse(t) /\ Taken(E, t) \subseteq Data
  BY <1>1 DEF Balance, InUse
<1>4. u[x] = 0 /\ \A y \in Data : y # x => u[y] = t[y]
  BY <1>1, <1>2, KindsOfWrite
<1>5. \A y \in Taken(E, t) : u[y] = t[y] \/ (u[y] \in {0, EOC} /\ t[y] \notin Data)
  BY <1>3, <1>4
<1>6. /\ Taken(E, u) = Taken(E, t) /\ \A d \in Dirs(R) : In(u, d) = In(t, d)
      /\ Shape(E, u, R, P)
  BY <1>2, <1>5, SameChains
<1>7. Left(u, k) = Left(t, k) /\ Settled(E, u, k)
  <2>1. CASE k.pc # "free"
    BY <1>1, <2>1 DEF Left, Settled
  <2>2. CASE k.pc = "free" /\ k.clu = EOC
    <3>1. ChainIn(u, k.clu) = {} /\ ChainIn(t, k.clu) = {}
      BY <1>2, <2>2, ChainParts, KindsOfWrite
    <3> QED BY <2>2, <3>1 DEF Left, Settled
  <2>3. CASE k.pc = "free" /\ k.clu # EOC
    <3>1. k.clu \in Data /\ Ended(t, k.clu) /\ t[EndIn(t, k.clu)] = EOC
      BY <1>1, <2>3 DEF Settled
    <3>2. EndIn(t, k.clu) \in ChainIn(t, k.clu) /\ ChainIn(t, k.clu) \subseteq Data
      BY <3>1, ChainParts
    <3>3. \A y \in ChainIn(t, k.clu) : u[y] = t[y]
      BY <1>1, <1>4, <2>3, <3>2 DEF Left
    <3>4. ChainIn(u, k.clu) = ChainIn(t, k.clu) /\ EndIn(u, k.clu) = EndIn(t, k.clu)
      BY <1>2, <3>1, <3>3, ChainKept
    <3>5. Ended(u, k.clu)
      BY <1>2, <3>1, <3>3, EndedKept
    <3>6. u[EndIn(u, k.clu)] = EOC
      BY <3>1, <3>2, <3>3, <3>4
    <3> QED BY <2>3, <3>1, <3>4, <3>5, <3>6 DEF Left, Settled
  <2> QED BY <2>1, <2>2, <2>3
<1>8. Balance(E, u, Left(u, k), {})
  <2>1. InUse(u) = InUse(t) \ {x}
    BY <1>4 DEF InUse
  <2>2. InUse(t) \ Taken(E, t) = {x} \cup Left(t, k) /\ Taken(E, t) \ InUse(t) = {}
    BY <1>1 DEF Balance
  <2>3. InUse(u) \ Taken(E, t) = Left(t, k) /\ Taken(E, t) \ InUse(u) = {}
    BY <1>1, <1>3, <2>1, <2>2
  <2> QED BY <1>6, <1>7, <2>3 DEF Balance
<1>9. AllClean(E, u, R, Tail(w))
  <2>1. \A l \in LocSet : Pending(l, w) => Pending(l, Tail(w))
    BY <1>1, RestParts
  <2> QED BY <1>6, <2>1, CleanKept
<1> QED BY <1>1, <1>6, <1>7, <1>8, <1>9 DEF QuietPlan

\* The last cluster of a file or directory.
LEMMA EndHas ==
  ASSUME NEW E \in Entries, NEW t \in Tables, NEW R, NEW P, Shape(E, t, R, P),
         NEW o \in Props(E), E[o].start # 0, NEW c, c = EndIn(t, E[o].start)
  PROVE  /\ c \in Data /\ c \in Taken(E, t) /\ t[c] \in {0, EOC} /\ c \in ChainIn(t, E[o].start)
         /\ E[o].start \in Data /\ E[o].start \in Taken(E, t) /\ E[o].start \in ChainIn(t, E[o].start)
<1>1. E[o].start \in 0 .. EOC /\ E[o].start \in Data
  BY EntryParts DEF Props
<1>2. E[o].start \in ChainIn(t, E[o].start) /\ EndIn(t, E[o].start) \in ChainIn(t, E[o].start)
      /\ ChainIn(t, E[o].start) \subseteq Data
  BY <1>1, ChainParts
<1>3. Ended(t, E[o].start)
  BY DEF Shape, Lies
<1>4. ChainIn(t, E[o].start) \subseteq Taken(E, t)
  BY DEF Taken
<1> QED BY <1>1, <1>2, <1>3, <1>4 DEF Ended

\* The last cluster of a chain is marked.
LEMMA MarkWritten ==
  ASSUME NEW E \in Entries, NEW t \in Tables, NEW R, NEW P, Shape(E, t, R, P), NEW k,
         NEW w \in Seq(WriteSet), w # <<>>, w[1].to = "fat1", FillPlan(E, t, w, k),
         NEW u, PutIn(t, u, w[1].c, w[1].v), AllClean(E, t, R, w), k.cur \in Dirs(R)
  PROVE  Shape(E, u, R, P) /\ FillPlan(E, u, Tail(w), k) /\ AllClean(E, u, R, Tail(w))
<1>1. k.pc \in {"slot", "fill", "link", "end"} /\ Settled(E, t, k)
  BY DEF FillPlan
<1>2. PICK c \in Data, o \in Props(E) :
       /\ E[o].start # 0 /\ c = EndIn(t, E[o].start)
       /\ E[o].dir /\ E[o].start = c => o \in In(t, k.cur)
       /\ ~E[o].dir => Aimed(E, t, k, o)
       /\ Filling(E[o], c, w, k) /\ (t[c] = 0 => Marks(c, w))
       /\ \A l \in Props(E) : l.c # c
       /\ Balance(E, t, {}, {y \in {c} : t[y] = 0})
  BY DEF FillPlan
<1>3. w[1] = Mark(c) /\ Filling(E[o], c, Tail(w), k)
  BY <1>2, RestParts DEF Fills
<1>4. u \in Tables /\ \A y \in Table : u[y] = IF y = c THEN EOC ELSE t[y]
  BY <1>3, KindsOfWrite DEF PutIn, Mark
<1>5. c \in Taken(E, t) /\ t[c] \in {0, EOC}
  BY <1>2, EndHas
<1>6. \A y \in Data : u[y] = IF y = c THEN EOC ELSE t[y]
  BY <1>4, KindsOfWrite
<1>7. Taken(E, t) \subseteq Data
  <2>1. \A l \in Props(E) : ChainIn(t, E[l].start) \subseteq Data
    BY EntryParts, ChainParts DEF Props
  <2> QED BY <2>1 DEF Taken
<1>8. \A y \in Taken(E, t) : u[y] = t[y] \/ (u[y] \in {0, EOC} /\ t[y] \notin Data)
  BY <1>5, <1>6, <1>7, KindsOfWrite
<1>9. /\ \A l \in Props(E) : E[l].start # 0 => EndIn(u, E[l].start) = EndIn(t, E[l].start)
      /\ Taken(E, u) = Taken(E, t) /\ \A d \in Dirs(R) : In(u, d) = In(t, d)
      /\ Shape(E, u, R, P)
  BY <1>4, <1>8, SameChains
<1>10. Balance(E, u, {}, {y \in {c} : u[y] = 0})
  <2>1. InUse(u) = InUse(t) \cup {c}
    BY <1>2, <1>6, KindsOfWrite DEF InUse
  <2>2. InUse(t) \ Taken(E, t) = {} /\ Taken(E, t) \ InUse(t) = {y \in {c} : t[y] = 0}
    BY <1>2 DEF Balance
  <2>3. u[c] = EOC /\ EOC # 0
    BY <1>6, KindsOfWrite
  <2>4. InUse(u) \ Taken(E, t) = {} /\ Taken(E, t) \ InUse(u) = {}
    BY <1>5, <2>1, <2>2
  <2>5. {y \in {c} : u[y] = 0} = {}
    BY <2>3
  <2> QED BY <1>9, <2>4, <2>5 DEF Balance
<1>a. \A l : Aimed(E, t, k, l) => Aimed(E, u, k, l)
  BY <1>9 DEF Aimed
<1>11. Settled(E, u, k)
  BY <1>1, <1>9, <1>a DEF Settled
<1>12. AllClean(E, u, R, Tail(w))
  <2>1. \A l \in LocSet : Pending(l, w) => Pending(l, Tail(w))
    BY RestParts
  <2> QED BY <1>9, <2>1, CleanKept
<1>13. E[o].dir /\ E[o].start = c => o \in In(u, k.cur)
  <2>1. ASSUME E[o].dir, E[o].start = c PROVE o \in In(u, k.cur)
    <3>1. o \in In(t, k.cur)
      BY <1>2, <2>1
    <3> QED BY <1>9, <3>1
  <2> QED BY <2>1
<1>14. FillPlan(E, u, Tail(w), k)
  <2>1. u[c] # 0 /\ c = EndIn(u, E[o].start)
    BY <1>2, <1>6, <1>9, KindsOfWrite
  <2> QED BY <1>1, <1>2, <1>3, <1>10, <1>11, <1>13, <1>a, <2>1 DEF FillPlan
<1> QED BY <1>9, <1>12, <1>14

\* The cluster queued for the end of a chain is linked to it.
LEMMA LinkWritten ==
  ASSUME NEW E \in Entries, NEW t \in Tables, NEW R, NEW P, Shape(E, t, R, P), NEW k,
         NEW w \in Seq(WriteSet), LinkPlan(E, t, w, k),
         NEW u, PutIn(t, u, w[1].c, w[1].v), AllClean(E, t, R, w), k.cur \in Dirs(R)
  PROVE  Shape(E, u, R, P) /\ FillPlan(E, u, Tail(w), k) /\ AllClean(E, u, R, Tail(w))
<1>1. PICK c \in Data, o \in Props(E) :
        /\ E[o].start # 0 /\ t[c] = 0
        /\ \/ k.pc = "slot" /\ k.op = "create" /\ E[o].dir /\ Covers(c, Tail(w))
           \/ k.pc = "fill" /\ ~E[o].dir /\ o = k.loc /\ c = k.clu /\ Aimed(E, t, k, o)
        /\ w # <<>> /\ w[1] = FatWrite("fat1", EndIn(t, E[o].start), c)
        /\ Filling(E[o], c, Tail(w), k) /\ Marks(c, Tail(w))
        /\ Balance(E, t, {}, {})
  BY DEF LinkPlan
<1> DEFINE z == EndIn(t, E[o].start)
<1>2. /\ z \in Data /\ z \in Taken(E, t) /\ E[o].start \in Data /\ E[o].start \in Taken(E, t)
      /\ E[o].start \in ChainIn(t, E[o].start)
  BY <1>1, EndHas
<1>3. u \in Tables /\ \A y \in Table : u[y] = IF y = z THEN c ELSE t[y]
  BY <1>1, KindsOfWrite DEF PutIn
<1>4. c \notin Taken(E, t) /\ Taken(E, t) = InUse(t)
  BY <1>1 DEF Balance, InUse
<1>5. /\ Shape(E, u, R, P) /\ Taken(E, u) = Taken(E, t) \cup {c}
      /\ EndIn(u, E[o].start) = c
      /\ \A d \in Dirs(R) : In(u, d) = IF d = E[o].start THEN In(t, d) \cup {l \in LocSet : l.c = c}
                                       ELSE In(t, d)
      /\ \A l \in Props(E) : l.c # c
  BY <1>1, <1>3, <1>4, LinkGrows
<1> HIDE DEF z
<1>6. c # z /\ c # 0 /\ E[o].start # c
  BY <1>1, <1>2, <1>4, KindsOfWrite
<1>7. \A y \in Data : u[y] = IF y = z THEN c ELSE t[y]
  BY <1>3, KindsOfWrite
<1>8. Balance(E, u, {}, {y \in {c} : u[y] = 0})
  <2>1. u[c] = 0 /\ {y \in {c} : u[y] = 0} = {c}
    BY <1>1, <1>6, <1>7
  <2>2. t[z] # 0
    BY <1>2, <1>4 DEF InUse
  <2>3. InUse(u) = InUse(t)
    BY <1>2, <1>6, <1>7, <2>2 DEF InUse
  <2>4. c \notin InUse(u)
    BY <2>1 DEF InUse
  <2> QED BY <1>4, <1>5, <2>1, <2>3, <2>4 DEF Balance
<1>a. \A l : Aimed(E, t, k, l) => Aimed(E, u, k, l)
  BY <1>5 DEF Aimed
<1>9. k.pc \in {"slot", "fill"} /\ Settled(E, u, k)
  BY <1>1, <1>5, <1>a DEF Settled
<1>10. FillPlan(E, u, Tail(w), k)
  BY <1>1, <1>5, <1>6, <1>8, <1>9, <1>a DEF FillPlan
<1>11. AllClean(E, u, R, Tail(w))
  <2>1. \A l \in LocSet : Pending(l, w) => Pending(l, Tail(w))
    BY <1>1, RestParts, KindsOfWrite
  <2>2. \A d \in Dirs(R) : In(t, d) \subseteq In(u, d)
    BY <1>5
  <2>3. ASSUME NEW d \in Dirs(R), NEW l \in In(u, d), l \notin In(t, d) PROVE Pending(l, Tail(w))
    <3>1. d = E[o].start /\ l \in LocSet /\ l.c = c
      BY <1>5, <2>3
    <3>2. E[o].dir
      <4>1. d \in R
        BY <1>1, <3>1 DEF Dirs, Root
      <4>2. PICK m \in Props(E) : E[m].dir /\ E[m].start = d
        BY <4>1 DEF Shape, Named
      <4>3. m = o
        BY <1>2, <3>1, <4>2, OneOwner
      <4> QED BY <4>2, <4>3
    <3> QED BY <1>1, <3>1, <3>2 DEF Covers
  <2> QED BY <2>1, <2>2, <2>3, CleanKept
<1> QED BY <1>5, <1>10, <1>11

\* The first cluster of a file is marked.
LEMMA FirstMarkWritten ==
  ASSUME NEW E \in Entries, NEW t \in Tables, NEW R, NEW P, Shape(E, t, R, P), NEW k,
         NEW w \in Seq(WriteSet), w # <<>>, w[1].to = "fat1", FirstPlan(E, t, w, k),
         NEW u, PutIn(t, u, w[1].c, w[1].v), AllClean(E, t, R, w), k.cur \in Dirs(R)
  PROVE  Shape(E, u, R, P) /\ FirstPlan(E, u, Tail(w), k) /\ AllClean(E, u, R, Tail(w))
<1>1. PICK c \in Data :
        /\ k.pc = "walk" /\ k.loc \in Props(E) /\ ~E[k.loc].dir /\ E[k.loc].start = 0 /\ k.clu = c
        /\ Aimed(E, t, k, k.loc)
        /\ c \notin Taken(E, t) /\ t[c] \in {0, EOC} /\ (t[c] = 0 => Marks(c, w))
        /\ w[Len(w)] = EntryWrite(k.loc, [E[k.loc] EXCEPT !.start = c])
        /\ \A j \in 1 .. Len(w) - 1 : w[j].to = "fat2" \/ w[j] = Mark(c)
        /\ Balance(E, t, {y \in {c} : t[y] # 0}, {})
  BY DEF FirstPlan
<1>2. Len(w) # 1
  BY <1>1, KindsOfWrite
<1>3. /\ Tail(w) # <<>> /\ Tail(w)[Len(Tail(w))] = w[Len(w)]
      /\ \A j \in 1 .. Len(Tail(w)) - 1 : Tail(w)[j].to = "fat2" \/ Tail(w)[j] = Mark(c)
  BY <1>1, <1>2, OtherRest
<1>4. w[1] = Mark(c)
  <2> DEFINE n == Len(w)
  <2>1. n \in Nat \ {0} /\ n # 1
    BY <1>2, Rest
  <2> HIDE DEF n
  <2>2. 1 \in 1 .. n - 1
    BY <2>1
  <2>3. 1 \in 1 .. Len(w) - 1
    BY <2>2 DEF n
  <2> QED BY <1>1, <2>3, KindsOfWrite
<1>5. u \in Tables /\ \A y \in Data : u[y] = IF y = c THEN EOC ELSE t[y]
  BY <1>4, KindsOfWrite DEF PutIn, Mark
<1>6. Taken(E, t) \subseteq Data
  <2>1. \A l \in Props(E) : ChainIn(t, E[l].start) \subseteq Data
    BY EntryParts, ChainParts DEF Props
  <2> QED BY <2>1 DEF Taken
<1>7. \A y \in Taken(E, t) : u[y] = t[y] \/ (u[y] \in {0, EOC} /\ t[y] \notin Data)
  BY <1>1, <1>5, <1>6
<1>8. /\ Taken(E, u) = Taken(E, t) /\ \A d \in Dirs(R) : In(u, d) = In(t, d)
      /\ Shape(E, u, R, P)
  BY <1>5, <1>7, SameChains
<1>9. u[c] = EOC /\ EOC # 0
  BY <1>5, KindsOfWrite
<1>10. Balance(E, u, {y \in {c} : u[y] # 0}, {})
  <2>1. InUse(u) = InUse(t) \cup {c}
    BY <1>5, <1>9 DEF InUse
  <2>2. InUse(t) \ Taken(E, t) = {y \in {c} : t[y] # 0} /\ Taken(E, t) \ InUse(t) = {}
    BY <1>1 DEF Balance
  <2>3. InUse(u) \ Taken(E, t) = {c} /\ Taken(E, t) \ InUse(u) = {}
    BY <1>1, <2>1, <2>2
  <2>4. {y \in {c} : u[y] # 0} = {c}
    BY <1>9
  <2> QED BY <1>8, <2>3, <2>4 DEF Balance
<1>a. Aimed(E, u, k, k.loc)
  BY <1>1, <1>8 DEF Aimed
<1>11. FirstPlan(E, u, Tail(w), k)
  BY <1>1, <1>3, <1>8, <1>9, <1>10, <1>a DEF FirstPlan
<1>12. AllClean(E, u, R, Tail(w))
  <2>1. \A l \in LocSet : Pending(l, w) => Pending(l, Tail(w))
    BY RestParts
  <2> QED BY <1>8, <2>1, CleanKept
<1> QED BY <1>8, <1>11, <1>12


\* Four plans begin with a write of an entry.
LEMMA NoEntryFirst ==
  ASSUME NEW w, w # <<>> => w[1].to # "entry", NEW E, NEW t, NEW k
  PROVE  /\ ~DirPlan(E, t, w, k) /\ ~ErasePlan(E, t, w, k)
         /\ ~OverPlan(E, t, w, k) /\ ~CreatePlan(E, t, w, k)
<1>1. \A loc, e : w # <<EntryWrite(loc, e)>>
  <2> SUFFICES ASSUME NEW loc, NEW e, w = <<EntryWrite(loc, e)>> PROVE FALSE
    OBVIOUS
  <2>1. w[1] = EntryWrite(loc, e) /\ w # <<>>
    OBVIOUS
  <2> QED BY <2>1, KindsOfWrite
<1>2. \A loc, e : w # <<>> => w[1] # EntryWrite(loc, e)
  BY KindsOfWrite
<1> QED BY <1>1, <1>2 DEF DirPlan, ErasePlan, OverPlan, CreatePlan

\* A write to FAT 1.
LEMMA FatWritten ==
  ASSUME NEW E \in Entries, NEW t \in Tables, NEW R, NEW P, Shape(E, t, R, P), NEW k,
         NEW w \in Seq(WriteSet), w # <<>>, w[1].to = "fat1", w[1].c \in Table,
         NEW u, PutIn(t, u, w[1].c, w[1].v), k.clu \in 0 .. EOC, Working(E, t, w, k, R, P)
  PROVE  Shape(E, u, R, P) /\ Working(E, u, Tail(w), k, R, P)
<1>1. k.cur \in Dirs(R) /\ P[k.cur] = k.depth /\ AllClean(E, t, R, w) /\ Plan(E, t, w, k)
  BY DEF Working
<1>2. ~QuietPlan(E, t, w, k) /\ ~MkdirPlan(E, t, w, k)
  <2>1. ~Inert(w[1])
    BY DEF Inert
  <2> QED BY <2>1, RestParts DEF QuietPlan, MkdirPlan
<1>3. /\ ~DirPlan(E, t, w, k) /\ ~ErasePlan(E, t, w, k) /\ ~OverPlan(E, t, w, k)
      /\ ~CreatePlan(E, t, w, k)
  BY NoEntryFirst
<1>4. CASE FreePlan(E, t, w, k)
  BY <1>1, <1>4, FreeWritten DEF Plan, Working
<1>5. CASE FillPlan(E, t, w, k)
  BY <1>1, <1>5, MarkWritten DEF Plan, Working
<1>6. CASE LinkPlan(E, t, w, k)
  BY <1>1, <1>6, LinkWritten DEF Plan, Working
<1>7. CASE FirstPlan(E, t, w, k)
  BY <1>1, <1>7, FirstMarkWritten DEF Plan, Working
<1> QED BY <1>1, <1>2, <1>3, <1>4, <1>5, <1>6, <1>7 DEF Plan

-----------------------------------------------------------------------------
(* Writes of one entry: entries E become F, in the place loc.              *)

\* A queue of one write.
LEMMA AlonePlan ==
  ASSUME NEW x \in WriteSet, NEW w, w = <<x>>
  PROVE  w[1] = x /\ Tail(w) = <<>> /\ w # <<>> /\ Quiet(Tail(w))
         /\ \A l : (x.to # "sector" => ~Pending(l, w)) /\ ~Pending(l, Tail(w))
<1>1. w[1] = x /\ Tail(w) = <<>> /\ w # <<>> /\ Len(w) = 1
  OBVIOUS
<1>2. Quiet(Tail(w))
  BY <1>1 DEF Quiet
<1>3. ASSUME NEW l, x.to # "sector" PROVE ~Pending(l, w)
  <2>1. \A j \in 1 .. Len(w) : w[j] = x
    BY <1>1
  <2> QED BY <1>3, <2>1 DEF Pending
<1>4. \A l : ~Pending(l, Tail(w))
  BY <1>1 DEF Pending
<1> QED BY <1>1, <1>2, <1>3, <1>4

\* An entry is written over by one with the same chain.
LEMMA OverWritten ==
  ASSUME NEW E \in Entries, NEW t \in Tables, NEW R, NEW P, Shape(E, t, R, P), NEW k,
         NEW w \in Seq(WriteSet), OverPlan(E, t, w, k),
         NEW F, OneEntry(E, F, w[1].loc), F[w[1].loc] = w[1].e, AllClean(E, t, R, w)
  PROVE  Shape(F, t, R, P) /\ QuietPlan(F, t, Tail(w), k) /\ AllClean(F, t, R, Tail(w))
<1>1. PICK loc \in Props(E), e \in EntrySet :
        /\ k.pc \in {"end", "first", "walk"} /\ Settled(E, t, k)
        /\ w = <<EntryWrite(loc, e)>> /\ Proper(e) /\ e.start = E[loc].start /\ e.dir = E[loc].dir
        /\ Aimed(E, t, k, loc) /\ (k.pc # "end" => e.name = E[loc].name)
        /\ Balance(E, t, {}, {})
  BY DEF OverPlan
<1>2. EntryWrite(loc, e) \in WriteSet
  BY <1>1, EntryWriteHas DEF Props
<1>3. /\ w[1] = EntryWrite(loc, e) /\ Quiet(Tail(w)) /\ w # <<>>
      /\ \A l : ~Pending(l, w) /\ ~Pending(l, Tail(w))
  BY <1>1, <1>2, AlonePlan, KindsOfWrite
<1>4. OneEntry(E, F, loc) /\ F[loc] = e
  BY <1>3, KindsOfWrite
<1>5. /\ Shape(F, t, R, P) /\ Props(F) = Props(E) /\ Taken(F, t) = Taken(E, t)
      /\ \A l \in Props(E) : F[l].start = E[l].start /\ F[l].dir = E[l].dir
  BY <1>1, <1>4, EntryOver
<1>6. Settled(F, t, k) /\ Left(t, k) = {}
  <2>1. ASSUME k.pc \in {"first", "walk"} PROVE Aimed(F, t, k, k.loc)
    <3>1. k.loc \in In(t, k.cur) /\ E[k.loc].name = k.name /\ k.loc \in LocSet
      BY <1>1, <2>1 DEF Settled, Aimed, In
    <3>2. F[k.loc].name = E[k.loc].name
      BY <1>1, <1>4, <2>1, <3>1 DEF OneEntry
    <3> QED BY <3>1, <3>2 DEF Aimed
  <2>2. k.pc \in {"end", "first", "walk"} /\ Settled(E, t, k)
    BY <1>1
  <2> QED BY <1>5, <2>1, <2>2 DEF Settled, Left
<1>7. Balance(F, t, {}, {})
  BY <1>1, <1>5 DEF Balance
<1>8. AllClean(F, t, R, Tail(w))
  <2> SUFFICES ASSUME NEW d \in Dirs(R), NEW l \in In(t, d) PROVE Clean(F, t, R, d, l)
    BY DEF AllClean
  <2>1. Clean(E, t, R, d, l) /\ l \in LocSet
    BY <1>3 DEF AllClean, In
  <2>2. CASE l = loc
    BY <1>1, <1>4, <2>2 DEF Clean
  <2>3. CASE l # loc
    <3>1. F[l] = E[l]
      BY <1>4, <2>1, <2>3 DEF OneEntry
    <3> QED BY <1>5, <2>1, <3>1 DEF Clean
  <2> QED BY <2>2, <2>3
<1> QED BY <1>3, <1>5, <1>6, <1>7, <1>8 DEF QuietPlan

\* The entry of a new file is written.
LEMMA CreateWritten ==
  ASSUME NEW E \in Entries, NEW t \in Tables, NEW R, NEW P, Shape(E, t, R, P), NEW k,
         NEW w \in Seq(WriteSet), CreatePlan(E, t, w, k), k.cur \in Dirs(R),
         NEW F, OneEntry(E, F, w[1].loc), F[w[1].loc] = w[1].e, AllClean(E, t, R, w)
  PROVE  Shape(F, t, R, P) /\ QuietPlan(F, t, Tail(w), k) /\ AllClean(F, t, R, Tail(w))
<1>1. PICK loc \in LocSet, e \in EntrySet :
        /\ k.pc = "end" /\ FreePlace(E, t, k, loc)
        /\ w = <<EntryWrite(loc, e)>> /\ Proper(e) /\ e.start = 0 /\ ~e.dir
        /\ Balance(E, t, {}, {})
  BY DEF CreatePlan
<1>2. EntryWrite(loc, e) \in WriteSet
  BY <1>1, EntryWriteHas
<1>3. /\ w[1] = EntryWrite(loc, e) /\ Quiet(Tail(w)) /\ w # <<>>
      /\ \A l : ~Pending(l, w) /\ ~Pending(l, Tail(w))
  BY <1>1, <1>2, AlonePlan, KindsOfWrite
<1>4. OneEntry(E, F, loc) /\ F[loc] = e
  BY <1>3, KindsOfWrite
<1>5. /\ loc \in In(t, k.cur) /\ ~Proper(E[loc])
      /\ \A m \in In(t, k.cur) : Earlier(t, k.cur, m, loc) => E[m] # Empty
  BY <1>1 DEF FreePlace, Proper, Special, Empty, Deleted
<1>6. /\ Shape(F, t, R, P) /\ Props(F) = Props(E) \cup {loc} /\ Taken(F, t) = Taken(E, t)
  <2>1. P \in [Dirs(R) -> 0 .. MaxDepth] /\ F[loc].start = 0 /\ ~F[loc].dir
    BY <1>1, <1>4 DEF Shape, DepthsAre
  <2>2. With(F, R, loc, 0) = R /\ Deeper(F, P, loc, 0, k.cur, R) = P
    BY <2>1 DEF With, Deeper
  <2>3. /\ OneEntry(E, F, loc) /\ Proper(F[loc]) /\ (Proper(E[loc]) => E[loc].start = 0 /\ ~E[loc].dir)
        /\ ~Proper(E[loc]) => \A m \in In(t, k.cur) : Earlier(t, k.cur, m, loc) => E[m] # Empty
        /\ 0 = F[loc].start /\ (F[loc].dir => 0 # 0 /\ P[k.cur] < MaxDepth)
    BY <1>1, <1>4, <1>5, <2>1
  <2>4. /\ Shape(F, t, R, P) /\ Props(F) = Props(E) \cup {loc}
        /\ Taken(F, t) = Taken(E, t) \cup ChainIn(t, 0)
        /\ ChainIn(t, 0) = {}
    BY <1>5, <2>2, <2>3, EntryGets
  <2> QED BY <2>4
<1>7. Settled(F, t, k) /\ Left(t, k) = {}
  BY <1>1 DEF Settled, Left
<1>8. Balance(F, t, {}, {})
  BY <1>1, <1>6 DEF Balance
<1>9. AllClean(F, t, R, Tail(w))
  <2> SUFFICES ASSUME NEW d \in Dirs(R), NEW l \in In(t, d) PROVE Clean(F, t, R, d, l)
    BY DEF AllClean
  <2>1. Clean(E, t, R, d, l) /\ l \in LocSet
    BY <1>3 DEF AllClean, In
  <2>2. CASE l = loc
    BY <1>1, <1>4, <2>2 DEF Clean
  <2>3. CASE l # loc
    <3>1. F[l] = E[l] /\ ~F[loc].dir
      BY <1>1, <1>4, <2>1, <2>3 DEF OneEntry
    <3>2. \A m \in Props(F) : F[m].dir => m \in Props(E) /\ E[m] = F[m]
      BY <1>4, <1>6, <3>1 DEF OneEntry, Props
    <3> QED BY <2>1, <3>1, <3>2 DEF Clean
  <2> QED BY <2>2, <2>3
<1> QED BY <1>3, <1>6, <1>7, <1>8, <1>9 DEF QuietPlan


\* An entry is marked deleted, and its chain is still to be set free.
LEMMA EraseWritten ==
  ASSUME NEW E \in Entries, NEW t \in Tables, NEW R, NEW P, Shape(E, t, R, P), NEW k,
         NEW w \in Seq(WriteSet), ErasePlan(E, t, w, k), k.cur \in Dirs(R), P[k.cur] = k.depth,
         NEW F, OneEntry(E, F, w[1].loc), F[w[1].loc] = w[1].e, AllClean(E, t, R, w)
  PROVE  \E Q, O : Shape(F, t, Q, O) /\ Working(F, t, Tail(w), k, Q, O)
<1>1. PICK loc \in Props(E) :
        /\ w = <<EntryWrite(loc, Deleted)>> /\ Aimed(E, t, k, loc) /\ loc \in In(t, k.cur)
        /\ IF E[loc].start = 0 THEN k.pc = "end" ELSE k.pc = "free" /\ k.clu = E[loc].start
        /\ E[loc].dir => \A l \in In(t, E[loc].start) : ~Proper(E[l])
        /\ Balance(E, t, {}, {})
  BY DEF ErasePlan, Aimed
<1>2. EntryWrite(loc, Deleted) \in WriteSet
  BY <1>1, EntryWriteHas, EntriesAre DEF Props
<1>3. /\ w[1] = EntryWrite(loc, Deleted) /\ Quiet(Tail(w)) /\ w # <<>>
      /\ \A l : ~Pending(l, w) /\ ~Pending(l, Tail(w))
  BY <1>1, <1>2, AlonePlan, KindsOfWrite
<1>4. OneEntry(E, F, loc) /\ F[loc] = Deleted
  BY <1>3, KindsOfWrite
<1> DEFINE s == E[loc].start
           Q == Without(E, R, loc)
           O == Within(P, Q)
<1>5. /\ Shape(F, t, Q, O) /\ Props(F) = Props(E) \ {loc} /\ Taken(F, t) = Taken(E, t) \ ChainIn(t, s)
  <2>1. E[loc].dir => \A l \in In(t, E[loc].start) : ~Proper(E[l])
    BY <1>1
  <2> QED BY <1>4, <2>1, EntryGone
<1>6. k.cur \in Dirs(Q) /\ O[k.cur] = k.depth
  <2>1. PICK d \in Dirs(R) : loc \in In(t, d) /\ (E[loc].dir => s \in R /\ P[s] = P[d] + 1)
    BY DEF Shape, Lies
  <2>2. d = k.cur /\ loc \in LocSet
    BY <1>1, <2>1, OneDirectory DEF Props
  <2>3. P[k.cur] \in Nat
    BY Fat16Assumption DEF Shape, DepthsAre
  <2>4. E[loc].dir => s # k.cur
    BY <2>1, <2>2, <2>3
  <2>5. k.cur \in Dirs(Q)
    BY <2>4 DEF Dirs, Without
  <2> QED BY <2>5 DEF Within
<1>7. s \in 0 .. EOC /\ (s # 0 => s \in Data /\ Ended(t, s) /\ t[EndIn(t, s)] = EOC)
  <2>1. s \in 0 .. EOC /\ (s # 0 => s \in Data)
    BY EntryParts DEF Props
  <2>2. s # 0 => Ended(t, s)
    BY DEF Shape, Lies
  <2>3. s # 0 => EndIn(t, s) \in Taken(E, t) /\ t[EndIn(t, s)] \in {0, EOC}
    BY EndHas
  <2>4. Taken(E, t) \subseteq InUse(t)
    BY <1>1 DEF Balance
  <2> QED BY <2>1, <2>2, <2>3, <2>4 DEF InUse
<1>8. Settled(F, t, k)
  BY <1>1, <1>7 DEF Settled
<1>9. Balance(F, t, Left(t, k), {})
  <2>1. Left(t, k) = ChainIn(t, s)
    <3>1. CASE s = 0
      BY <1>1, <1>7, <3>1, ChainParts, KindsOfWrite DEF Left
    <3>2. CASE s # 0
      BY <1>1, <3>2 DEF Left
    <3> QED BY <3>1, <3>2
  <2>2. ChainIn(t, s) \subseteq Taken(E, t)
    BY DEF Taken
  <2>3. InUse(t) = Taken(E, t)
    BY <1>1 DEF Balance
  <2> QED BY <1>5, <2>1, <2>2, <2>3 DEF Balance
<1>10. AllClean(F, t, Q, Tail(w))
  <2> SUFFICES ASSUME NEW d \in Dirs(Q), NEW l \in In(t, d) PROVE Clean(F, t, Q, d, l)
    BY DEF AllClean
  <2>1. d \in Dirs(R)
    BY DEF Dirs, Without
  <2>2. Clean(E, t, R, d, l) /\ l \in LocSet
    BY <1>3, <2>1 DEF AllClean, In
  <2>3. CASE l = loc
    BY <1>4, <2>3 DEF Clean
  <2>4. CASE l # loc
    <3>1. F[l] = E[l]
      BY <1>4, <2>2, <2>4 DEF OneEntry
    <3>2. \A m \in Props(F) : m \in Props(E) /\ E[m] = F[m]
      BY <1>4, <1>5 DEF OneEntry, Props
    <3>3. ASSUME d # Root, E[l].start \in Dirs(R),
                 \A m \in Props(E) : E[m].dir /\ E[m].start = d => m \in In(t, E[l].start)
          PROVE  E[l].start \in Dirs(Q)
      <4>1. d \in Q
        BY <3>3 DEF Dirs
      <4>2. PICK m \in Props(F) : F[m].dir /\ F[m].start = d
        BY <1>5, <4>1 DEF Shape, Named
      <4>3. m \in In(t, E[l].start) /\ Proper(E[m])
        BY <3>2, <3>3, <4>2 DEF Props
      <4>4. ~(E[loc].dir /\ E[l].start = s)
        BY <1>1, <4>3
      <4> QED BY <3>3, <4>4 DEF Dirs, Without
    <3>4. CASE /\ E[l].name = ".." /\ d # Root /\ E[l].start \in Dirs(R)
               /\ \A m \in Props(E) : E[m].dir /\ E[m].start = d => m \in In(t, E[l].start)
      <4>1. E[l].start \in Dirs(Q)
        BY <3>3, <3>4
      <4> HIDE DEF Q
      <4> QED BY <3>1, <3>2, <3>4, <4>1 DEF Clean
    <3> HIDE DEF Q
    <3> QED BY <2>2, <3>1, <3>4 DEF Clean
  <2> QED BY <2>3, <2>4
<1>11. Working(F, t, Tail(w), k, Q, O)
  <2>1. QuietPlan(F, t, Tail(w), k)
    BY <1>3, <1>8, <1>9 DEF QuietPlan
  <2> HIDE DEF Q, O
  <2> QED BY <1>6, <1>10, <2>1 DEF Working, Plan
<1> QED BY <1>5, <1>11

\* A file gets its first cluster.
LEMMA FirstWritten ==
  ASSUME NEW E \in Entries, NEW t \in Tables, NEW R, NEW P, Shape(E, t, R, P), NEW k,
         NEW w \in Seq(WriteSet), w # <<>>, w[1].to = "entry", FirstPlan(E, t, w, k),
         NEW F, OneEntry(E, F, w[1].loc), F[w[1].loc] = w[1].e, AllClean(E, t, R, w)
  PROVE  Shape(F, t, R, P) /\ QuietPlan(F, t, Tail(w), k) /\ AllClean(F, t, R, Tail(w))
<1>1. PICK c \in Data :
        /\ k.pc = "walk" /\ k.loc \in Props(E) /\ ~E[k.loc].dir /\ E[k.loc].start = 0 /\ k.clu = c
        /\ Aimed(E, t, k, k.loc)
        /\ c \notin Taken(E, t) /\ t[c] \in {0, EOC} /\ (t[c] = 0 => Marks(c, w))
        /\ w[Len(w)] = EntryWrite(k.loc, [E[k.loc] EXCEPT !.start = c])
        /\ \A j \in 1 .. Len(w) - 1 : w[j].to = "fat2" \/ w[j] = Mark(c)
        /\ Balance(E, t, {y \in {c} : t[y] # 0}, {})
  BY DEF FirstPlan
<1> DEFINE loc == k.loc
           e == [E[loc] EXCEPT !.start = c]
<1>2. Len(w) = 1
  <2> DEFINE n == Len(w)
  <2>1. n \in Nat \ {0} /\ (n = 1 \/ 1 \notin 1 .. n - 1)
    <3>1. n \in Nat \ {0}
      BY Rest
    <3>2. 1 \notin 1 .. n - 1
      BY <1>1, KindsOfWrite DEF Mark
    <3> QED BY <3>1, <3>2
  <2> HIDE DEF n
  <2>2. n = 1
    BY <2>1
  <2> QED BY <2>2 DEF n
<1>3. w[1] = EntryWrite(loc, e) /\ Tail(w) = <<>>
  BY <1>1, <1>2, Rest
<1>4. \A l : ~Pending(l, w) /\ ~Pending(l, Tail(w))
  <2>1. ASSUME NEW l PROVE ~Pending(l, w)
    <3>1. \A j \in 1 .. 1 : w[j].to = "entry"
      BY <1>3, KindsOfWrite
    <3> QED BY <1>2, <3>1 DEF Pending
  <2>2. ASSUME NEW l PROVE ~Pending(l, Tail(w))
    BY <1>3 DEF Pending
  <2> QED BY <2>1, <2>2
<1>5. Quiet(Tail(w))
  BY <1>3 DEF Quiet
<1>6. OneEntry(E, F, loc) /\ F[loc] = e
  BY <1>3, KindsOfWrite
<1>7. E[loc] \in EntrySet /\ loc \in LocSet
  BY <1>1, EntryParts DEF Props
<1>8. e.start = c /\ e.dir = E[loc].dir /\ e.name = E[loc].name
  BY <1>7, Zenon DEF EntrySet
<1>9. t[c] = EOC
  <2>1. ~Marks(c, w)
    <3>1. \A j \in 1 .. 1 : w[j].to = "entry"
      BY <1>3, KindsOfWrite
    <3>2. \A j \in 1 .. 1 : w[j] # Mark(c)
      BY <3>1, KindsOfWrite DEF Mark
    <3> QED BY <1>2, <3>2 DEF Marks
  <2> QED BY <1>1, <2>1
<1> HIDE DEF e, loc
<1>10. /\ Shape(F, t, R, P) /\ Props(F) = Props(E) \cup {loc} /\ Taken(F, t) = Taken(E, t) \cup {c}
  <2>0. loc \in Props(E)
    BY <1>1 DEF loc
  <2>1. PICK d \in Dirs(R) : loc \in In(t, d)
    BY <2>0 DEF Shape, Lies
  <2>2. P \in [Dirs(R) -> 0 .. MaxDepth] /\ F[loc].start = c /\ ~F[loc].dir
    BY <1>1, <1>6, <1>8 DEF Shape, DepthsAre, loc
  <2>3. With(F, R, loc, c) = R /\ Deeper(F, P, loc, c, d, R) = P
    BY <2>2 DEF With, Deeper
  <2>6. /\ OneEntry(E, F, loc) /\ Proper(F[loc]) /\ (Proper(E[loc]) => E[loc].start = 0 /\ ~E[loc].dir)
        /\ ~Proper(E[loc]) => \A m \in In(t, d) : Earlier(t, d, m, loc) => E[m] # Empty
        /\ c = F[loc].start /\ (F[loc].dir => c # 0 /\ P[d] < MaxDepth)
        /\ c # 0 => c \notin Taken(E, t) /\ t[c] \in {0, EOC}
    <3>1. Proper(E[loc])
      BY <2>0 DEF Props
    <3>2. Proper(F[loc])
      BY <3>1, <1>6, <1>8 DEF Proper
    <3> QED BY <1>1, <1>6, <2>2, <3>1, <3>2 DEF loc
  <2>7. /\ Shape(F, t, R, P) /\ Props(F) = Props(E) \cup {loc}
        /\ Taken(F, t) = Taken(E, t) \cup ChainIn(t, c)
        /\ ChainIn(t, c) = (IF c = 0 THEN {} ELSE {c})
    <3>1. /\ c # 0 /\ c \notin Taken(E, t) /\ t[c] \in {0, EOC} /\ Proper(E[loc]) /\ ~F[loc].dir
          /\ E[loc].start = 0 /\ ~E[loc].dir /\ c = F[loc].start
      BY <1>1, <2>0, <2>2, KindsOfWrite DEF Props, loc
    <3>2. R = With(F, R, loc, c) /\ P = Deeper(F, P, loc, c, d, R)
      BY <2>3
    <3>3. d \in Dirs(R) /\ loc \in In(t, d) /\ OneEntry(E, F, loc) /\ Proper(F[loc])
      BY <2>1, <2>6
    <3> DEFINE Q == With(F, R, loc, c)
               O == Deeper(F, P, loc, c, d, Q)
    <3> HIDE DEF Q, O
    <3>7. Q = With(F, R, loc, c) /\ O = Deeper(F, P, loc, c, d, Q)
      BY DEF Q, O
    <3>8. /\ Shape(F, t, Q, O) /\ Props(F) = Props(E) \cup {loc}
          /\ Taken(F, t) = Taken(E, t) \cup ChainIn(t, c)
          /\ ChainIn(t, c) = (IF c = 0 THEN {} ELSE {c})
      BY <3>1, <3>3, <3>7, EntryGets
    <3>9. Q = R /\ O = P
      BY <3>2, <3>7
    <3> QED BY <3>8, <3>9
  <2> QED BY <2>7, KindsOfWrite
<1>11. Settled(F, t, k)
  <2>1. F[loc].name = E[loc].name
    BY <1>6, <1>8
  <2>2. Aimed(F, t, k, k.loc)
    BY <1>1, <2>1 DEF Aimed, loc
  <2> QED BY <1>1, <1>6, <1>8, <1>10, <2>2, KindsOfWrite DEF Settled, loc
<1>12. Balance(F, t, Left(t, k), {})
  <2>1. InUse(t) \ Taken(E, t) = {c} /\ Taken(E, t) \ InUse(t) = {}
    BY <1>1, <1>9, KindsOfWrite DEF Balance
  <2>2. Left(t, k) = {}
    BY <1>1 DEF Left
  <2> QED BY <1>10, <2>1, <2>2 DEF Balance
<1>13. AllClean(F, t, R, Tail(w))
  <2> SUFFICES ASSUME NEW d \in Dirs(R), NEW l \in In(t, d) PROVE Clean(F, t, R, d, l)
    BY DEF AllClean
  <2>1. Clean(E, t, R, d, l) /\ l \in LocSet
    BY <1>4 DEF AllClean, In
  <2>2. CASE l = loc
    <3>1. Proper(F[loc])
      BY <1>10 DEF Props
    <3> QED BY <2>2, <3>1 DEF Clean
  <2>3. CASE l # loc
    <3>1. F[l] = E[l] /\ ~F[loc].dir
      BY <1>1, <1>6, <1>8, <2>1, <2>3 DEF OneEntry, loc
    <3>2. \A m \in Props(F) : F[m].dir => m \in Props(E) /\ E[m] = F[m]
      BY <1>6, <1>10, <3>1 DEF OneEntry, Props
    <3> QED BY <2>1, <3>1, <3>2 DEF Clean
  <2> QED BY <2>2, <2>3
<1> QED BY <1>5, <1>10, <1>11, <1>12, <1>13 DEF QuietPlan


\* The entry of a new directory is written: its cluster is still to be filled.
LEMMA DirWritten ==
  ASSUME NEW E \in Entries, NEW t \in Tables, NEW R, NEW P, Shape(E, t, R, P), NEW k,
         NEW w \in Seq(WriteSet), DirPlan(E, t, w, k), k.cur \in Dirs(R), P[k.cur] = k.depth,
         NEW F, OneEntry(E, F, w[1].loc), F[w[1].loc] = w[1].e, AllClean(E, t, R, w)
  PROVE  \E Q, O : Shape(F, t, Q, O) /\ Working(F, t, Tail(w), k, Q, O)
<1>1. PICK c \in Data, loc \in LocSet :
        /\ k.pc = "end" /\ k.name \in Names /\ t[c] = 0 /\ FreePlace(E, t, k, loc) /\ k.depth < MaxDepth
        /\ w # <<>> /\ w[1] = EntryWrite(loc, DirEntry(k.name, c))
        /\ Filling(DirEntry(k.name, c), c, Tail(w), k) /\ Marks(c, Tail(w)) /\ Covers(c, Tail(w))
        /\ Balance(E, t, {}, {})
  BY DEF DirPlan
<1> DEFINE e == DirEntry(k.name, c)
<1>2. OneEntry(E, F, loc) /\ F[loc] = e
  BY <1>1, KindsOfWrite
<1>3. Proper(e) /\ e.dir /\ e.start = c
  BY <1>1, NamesAreNames DEF Proper, DirEntry, Special
<1> HIDE DEF e
<1>4. loc \in In(t, k.cur) /\ ~Proper(E[loc])
      /\ \A m \in In(t, k.cur) : Earlier(t, k.cur, m, loc) => E[m] # Empty
  BY <1>1 DEF FreePlace, Proper, Special, Empty, Deleted
<1>5. InUse(t) = Taken(E, t) /\ c \notin Taken(E, t) /\ c # 0
  BY <1>1, KindsOfWrite DEF Balance, InUse
<1> DEFINE Q == With(F, R, loc, c)
           O == Deeper(F, P, loc, c, k.cur, Q)
<1>6. Dirs(Q) = Dirs(R) \cup {c} /\ Dirs(R) \subseteq Dirs(Q)
  BY <1>2, <1>3 DEF With, Dirs
<1> HIDE DEF Q
<1>7. /\ Shape(F, t, Q, O)
      /\ Props(F) = Props(E) \cup {loc}
      /\ Taken(F, t) = Taken(E, t) \cup ChainIn(t, c)
      /\ ChainIn(t, c) = (IF c = 0 THEN {} ELSE {c})
      /\ c # 0 => EndIn(t, c) = c /\ c \in Data
      /\ \A l \in LocSet : l.c = c /\ c # 0 => ~Proper(E[l]) /\ l # loc
      /\ \A x \in Dirs(R) : O[x] = P[x] /\ x \in Dirs(Q)
      /\ c # 0 => c \notin Dirs(R)
  <2>1. /\ c # 0 /\ c \notin Taken(E, t) /\ t[c] \in {0, EOC} /\ ~Proper(E[loc]) /\ F[loc].dir
        /\ c = F[loc].start /\ Proper(F[loc]) /\ OneEntry(E, F, loc) /\ P[k.cur] < MaxDepth
    BY <1>1, <1>2, <1>3, <1>4, <1>5
  <2>2. Q = With(F, R, loc, c) /\ O = Deeper(F, P, loc, c, k.cur, Q)
    BY DEF Q
  <2> HIDE DEF O
  <2>3. \A m \in In(t, k.cur) : Earlier(t, k.cur, m, loc) => E[m] # Empty
    BY <1>4
  <2> QED BY <1>4, <2>1, <2>2, <2>3, EntryGets, SMTT(60)
<1> HIDE DEF O
<1>8. /\ Taken(F, t) = Taken(E, t) \cup {c} /\ EndIn(t, c) = c /\ c \notin Dirs(R)
      /\ \A l \in LocSet : l.c = c => ~Proper(E[l]) /\ l # loc
      /\ \A x \in Dirs(R) : O[x] = P[x]
  BY <1>5, <1>7
<1>9. FillPlan(F, t, Tail(w), k)
  <2>1. Settled(F, t, k)
    BY <1>1 DEF Settled
  <2>2. loc \in Props(F)
    BY <1>7
  <2>3. \A l \in Props(F) : l.c # c
    BY <1>7, <1>8 DEF Props
  <2>4. Balance(F, t, {}, {y \in {c} : t[y] = 0})
    <3>1. {y \in {c} : t[y] = 0} = {c}
      BY <1>1
    <3> QED BY <1>5, <1>8, <3>1 DEF Balance
  <2>5. /\ F[loc].start # 0 /\ c = EndIn(t, F[loc].start) /\ loc \in In(t, k.cur)
        /\ Filling(F[loc], c, Tail(w), k) /\ (t[c] = 0 => Marks(c, Tail(w)))
    BY <1>1, <1>2, <1>3, <1>4, <1>5, <1>8 DEF e
  <2>6. F[loc].dir
    BY <1>2, <1>3
  <2> QED BY <1>1, <2>1, <2>2, <2>3, <2>4, <2>5, <2>6 DEF FillPlan
<1>10. AllClean(F, t, Q, Tail(w))
  <2> SUFFICES ASSUME NEW d \in Dirs(Q), NEW l \in In(t, d), ~Pending(l, Tail(w))
               PROVE  Clean(F, t, Q, d, l)
    BY DEF AllClean
  <2>0. l \in LocSet /\ c # Root
    BY <1>5 DEF In, Root
  <2>1. d # c
    <3>1. ASSUME d = c PROVE l.c = c
      BY <1>5, <1>7, <2>0, <3>1 DEF In, ClustersOf
    <3> QED BY <1>1, <2>0, <3>1 DEF Covers
  <2>2. d \in Dirs(R)
    BY <1>6, <2>1
  <2>3. Clean(E, t, R, d, l)
    <3>1. ~Pending(l, w)
      BY <1>1, <2>0, RestParts, KindsOfWrite
    <3> QED BY <2>2, <3>1 DEF AllClean
  <2>4. CASE l = loc
    BY <1>2, <1>3, <2>4 DEF Clean
  <2>5. CASE l # loc
    <3>1. F[l] = E[l]
      BY <1>2, <2>0, <2>5 DEF OneEntry
    <3>2. \A m \in Props(F) : F[m].dir /\ F[m].start = d => m \in Props(E) /\ E[m] = F[m]
      BY <1>2, <1>3, <1>7, <2>1 DEF OneEntry, Props
    <3> QED BY <1>6, <2>3, <3>1, <3>2 DEF Clean
  <2> QED BY <2>4, <2>5
<1>11. Working(F, t, Tail(w), k, Q, O)
  BY <1>6, <1>8, <1>9, <1>10 DEF Working, Plan
<1> QED BY <1>7, <1>11

\* A write of an entry.
LEMMA EntryIsWritten ==
  ASSUME NEW E \in Entries, NEW t \in Tables, NEW R, NEW P, Shape(E, t, R, P), NEW k,
         NEW w \in Seq(WriteSet), w # <<>>, w[1].to = "entry", Working(E, t, w, k, R, P),
         NEW F, OneEntry(E, F, w[1].loc), F[w[1].loc] = w[1].e
  PROVE  \E Q, O : Shape(F, t, Q, O) /\ Working(F, t, Tail(w), k, Q, O)
<1>1. k.cur \in Dirs(R) /\ P[k.cur] = k.depth /\ AllClean(E, t, R, w) /\ Plan(E, t, w, k)
  BY DEF Working
<1>2. ~QuietPlan(E, t, w, k) /\ ~MkdirPlan(E, t, w, k) /\ ~FreePlan(E, t, w, k)
  <2>1. ~Inert(w[1])
    BY DEF Inert
  <2> QED BY <2>1, RestParts DEF QuietPlan, MkdirPlan, FreePlan
<1>3. ~FillPlan(E, t, w, k) /\ ~LinkPlan(E, t, w, k)
  <2>1. \A e, c : ~Filling(e, c, w, k)
    BY RestParts, KindsOfWrite DEF Mark, Fills
  <2>2. \A a, b : w[1] # FatWrite("fat1", a, b)
    BY KindsOfWrite
  <2> QED BY <2>1, <2>2 DEF FillPlan, LinkPlan
<1>4. CASE DirPlan(E, t, w, k)
  BY <1>1, <1>4, DirWritten
<1>5. CASE ErasePlan(E, t, w, k)
  BY <1>1, <1>5, EraseWritten
<1>6. CASE OverPlan(E, t, w, k)
  BY <1>1, <1>6, OverWritten DEF Plan, Working
<1>7. CASE CreatePlan(E, t, w, k)
  BY <1>1, <1>7, CreateWritten DEF Plan, Working
<1>8. CASE FirstPlan(E, t, w, k)
  BY <1>1, <1>8, FirstWritten DEF Plan, Working
<1> QED BY <1>1, <1>2, <1>3, <1>4, <1>5, <1>6, <1>7, <1>8 DEF Plan


-----------------------------------------------------------------------------
(* A sector of a cluster that is the last of a chain.                      *)

\* What is written to a sector is no entry of a file.
LEMMA StuffIs ==
  ASSUME NEW e, NEW c \in Data, NEW k, NEW x \in Stuff(e, c, k)
  PROVE  /\ ~Proper(x) /\ (x.name \in {"$00", "$e5", "?"} => x \in {Empty, Deleted, Garbage})
         /\ e.dir => \/ x = Empty
                     \/ e.start = c /\ x.name = "."
                     \/ e.start = c /\ x.name = ".." /\ x.start = k.cur
<1>1. \/ x = Empty /\ e.dir
      \/ x = Garbage /\ ~e.dir
      \/ e.start = c /\ x \in {DirEntry(".", c), DirEntry("..", k.cur)}
  BY DEF Stuff
<1> QED BY <1>1 DEF Proper, Special, Empty, Garbage, DirEntry

\* The places in the last cluster of a chain: which directory they are in, and
\* that no entry is behind them.
LEMMA InLast ==
  ASSUME NEW E \in Entries, NEW t \in Tables, NEW R, NEW P, Shape(E, t, R, P),
         NEW o \in Props(E), E[o].start # 0, NEW c, c = EndIn(t, E[o].start),
         NEW d \in Dirs(R), NEW m \in In(t, d), m.c = c
  PROVE  /\ d = E[o].start /\ E[o].dir /\ d # Root
         /\ \A l \in LocSet : Earlier(t, d, m, l) => l.c = c
         /\ \A n \in Props(E) : E[n].dir /\ E[n].start = d => n = o
<1>1. c \in Data /\ c \in ChainIn(t, E[o].start) /\ c # Root
  BY EndHas, KindsOfWrite DEF Root
<1>2. d # Root /\ d \in R
  BY <1>1 DEF In, ClustersOf, Dirs
<1>3. c \in ChainIn(t, d)
  BY <1>2 DEF In, ClustersOf
<1>4. ASSUME NEW n \in Props(E), E[n].dir, E[n].start = d PROVE n = o
  BY <1>1, <1>3, <1>4, OneOwner
<1>5. d = E[o].start /\ E[o].dir
  BY <1>2, <1>4 DEF Shape, Named
<1>6. ASSUME NEW l \in LocSet, Earlier(t, d, m, l) PROVE l.c = c
  <2> DEFINE n == LengthIn(t, d)
             h == HopsIn(t, d)
  <2>1. PICK i \in 0 .. n - 1, j \in 0 .. n - 1 :
          h[i] = c /\ h[j] = l.c /\ (i < j \/ i = j)
    BY <1>2, <1>6 DEF Earlier
  <2>2. Ended(t, d)
    BY <1>2, DirTaken
  <2>3. d \in Data /\ d \in 0 .. EOC
    BY <1>5, EndHas, Sizes
  <2>4. n \in 1 .. Clusters
    BY <2>3, ChainParts
  <2>5. h[n - 1] = c
    BY <1>5 DEF EndIn
  <2>6. \A a, b \in 0 .. n - 1 : h[a] = h[b] => a = b
    BY <2>2 DEF Ended
  <2> HIDE DEF n, h
  <2>7. n - 1 \in 0 .. n - 1 /\ n \in Int
    BY <2>4, Sizes
  <2>8. i = n - 1
    BY <2>1, <2>5, <2>6, <2>7
  <2>9. j = n - 1
    BY <2>1, <2>7, <2>8
  <2> QED BY <2>1, <2>5, <2>9
<1> QED BY <1>2, <1>4, <1>5, <1>6

\* The plans whose first write is of a sector.
LEMMA SectorIsFill ==
  ASSUME NEW E, NEW t, NEW R, NEW P, NEW k,
         NEW w \in Seq(WriteSet), w # <<>>, w[1].to = "sector", Working(E, t, w, k, R, P)
  PROVE  FillPlan(E, t, w, k)
<1>1. Plan(E, t, w, k)
  BY DEF Working
<1>2. ~QuietPlan(E, t, w, k) /\ ~MkdirPlan(E, t, w, k) /\ ~FreePlan(E, t, w, k)
  <2>1. ~Inert(w[1])
    BY DEF Inert
  <2> QED BY <2>1, RestParts DEF QuietPlan, MkdirPlan, FreePlan
<1>3. /\ ~DirPlan(E, t, w, k) /\ ~ErasePlan(E, t, w, k) /\ ~OverPlan(E, t, w, k)
      /\ ~CreatePlan(E, t, w, k)
  BY NoEntryFirst
<1>4. ~LinkPlan(E, t, w, k)
  BY KindsOfWrite DEF LinkPlan
<1>5. ~FirstPlan(E, t, w, k)
  <2> SUFFICES ASSUME NEW c, NEW loc, NEW e, w[Len(w)] = EntryWrite(loc, e),
                      \A j \in 1 .. Len(w) - 1 : w[j].to = "fat2" \/ w[j] = Mark(c)
               PROVE  FALSE
    BY DEF FirstPlan
  <2>1. Len(w) # 1
    BY KindsOfWrite
  <2> DEFINE n == Len(w)
  <2>2. n \in Nat \ {0} /\ n # 1
    BY <2>1, Rest
  <2>3. 1 \notin 1 .. n - 1
    BY KindsOfWrite DEF Mark
  <2> HIDE DEF n
  <2> QED BY <2>2, <2>3
<1> QED BY <1>1, <1>2, <1>3, <1>4, <1>5 DEF Plan

\* A sector of the new cluster is written.
LEMMA SectorIsWritten ==
  ASSUME NEW E \in Entries, NEW t \in Tables, NEW R, NEW P, Shape(E, t, R, P), NEW k,
         NEW w \in Seq(WriteSet), w # <<>>, w[1].to = "sector", Working(E, t, w, k, R, P),
         NEW F \in Entries,
         \A l \in LocSet : F[l] = IF l.c # Root /\ Sector(l.c, l.i \div ES) = w[1].s
                                    THEN w[1].x.entries[l.i % ES] ELSE E[l]
  PROVE  Shape(F, t, R, P) /\ Working(F, t, Tail(w), k, R, P)
<1> DEFINE v == Tail(w)
<1>1. k.cur \in Dirs(R) /\ P[k.cur] = k.depth /\ AllClean(E, t, R, w)
  BY DEF Working
<1>6. FillPlan(E, t, w, k)
  BY SectorIsFill
<1>7. k.pc \in {"slot", "fill", "link", "end"} /\ Settled(E, t, k)
  BY <1>6 DEF FillPlan
<1>8. PICK c \in Data, o \in Props(E) :
       /\ E[o].start # 0 /\ c = EndIn(t, E[o].start)
       /\ E[o].dir /\ E[o].start = c => o \in In(t, k.cur)
       /\ ~E[o].dir => Aimed(E, t, k, o)
       /\ Filling(E[o], c, w, k) /\ (t[c] = 0 => Marks(c, w))
       /\ \A l \in Props(E) : l.c # c
       /\ Balance(E, t, {}, {y \in {c} : t[y] = 0})
  BY <1>6 DEF FillPlan
<1>9. Fills(w[1], E[o], c, k) /\ Filling(E[o], c, v, k) /\ w[1] # Mark(c)
  BY <1>8, RestParts, KindsOfWrite DEF Mark
<1>10. PICK s \in 0 .. SPC - 1 : w[1].s = Sector(c, s)
  BY <1>9 DEF Fills
<1> DEFINE Q == {l \in LocSet : l.c # Root /\ Sector(l.c, l.i \div ES) = w[1].s}
<1>11. ASSUME NEW l \in Q PROVE l \in LocSet /\ l.c = c /\ F[l] \in Stuff(E[o], c, k)
  <2>1. l \in LocSet /\ l.c # Root /\ Sector(l.c, l.i \div ES) = Sector(c, s)
    BY <1>10
  <2>2. l.c \in Data /\ l.i \div ES \in 0 .. SPC - 1 /\ l.i % ES \in 0 .. ES - 1
    BY <2>1, PlaceParts
  <2>3. l.c = c
    BY <2>1, <2>2, OneSector
  <2>4. F[l] = w[1].x.entries[l.i % ES]
    BY <2>1
  <2> QED BY <1>9, <2>1, <2>2, <2>3, <2>4 DEF Fills
<1>12. \A l \in LocSet : l \notin Q => F[l] = E[l]
  OBVIOUS
<1> HIDE DEF Q, v
<1>13. Shape(F, t, R, P) /\ Props(F) = Props(E) /\ (\A l \in Props(E) : F[l] = E[l])
       /\ Taken(F, t) = Taken(E, t)
  <2>1. ASSUME NEW l \in Q
        PROVE  /\ ~Proper(E[l]) /\ ~Proper(F[l])
               /\ F[l].name \in {"$00", "$e5", "?"} => F[l] \in {Empty, Deleted, Garbage}
    <3>1. l \in LocSet /\ l.c = c /\ F[l] \in Stuff(E[o], c, k)
      BY <1>11
    <3>2. ~Proper(E[l])
      BY <1>8, <3>1 DEF Props
    <3> QED BY <3>1, <3>2, StuffIs
  <2>2. Over(E, F, Q)
    BY <1>12, <2>1 DEF Over
  <2>3. ASSUME NEW d \in Dirs(R), NEW l \in Props(E), NEW m \in Q, l \in In(t, d), m \in In(t, d)
        PROVE  ~Earlier(t, d, m, l)
    <3>1. m.c = c /\ l.c # c /\ l \in LocSet
      BY <1>8, <1>11 DEF Props
    <3> QED BY <1>8, <2>3, <3>1, InLast
  <2>4. ~Hides(E, t, R, F, Q)
    BY <2>3 DEF Hides
  <2>5. Q \in SUBSET LocSet
    BY <1>11
  <2> QED BY <2>2, <2>4, <2>5, OthersOver
<1>14. Settled(F, t, k)
  BY <1>7, <1>13 DEF Settled, Aimed
<1>15. Balance(F, t, {}, {y \in {c} : t[y] = 0})
  BY <1>8, <1>13 DEF Balance
<1>16. FillPlan(F, t, v, k)
  <2>1. t[c] = 0 => Marks(c, v)
    BY <1>8, <1>9, RestParts DEF v
  <2>2. F[o] = E[o] /\ o \in Props(F)
    BY <1>13
  <2>3. ~F[o].dir => Aimed(F, t, k, o)
    BY <1>8, <2>2 DEF Aimed
  <2> QED BY <2>3, <1>7, <1>8, <1>9, <1>13, <1>14, <1>15, <2>1, <2>2 DEF FillPlan
<1>17. AllClean(F, t, R, v)
  <2> SUFFICES ASSUME NEW d \in Dirs(R), NEW l \in In(t, d), ~Pending(l, v)
               PROVE  Clean(F, t, R, d, l)
    BY DEF AllClean
  <2>0. l \in LocSet
    BY DEF In
  <2>1. CASE l \in Q
    <3>1. l.c = c /\ F[l] \in Stuff(E[o], c, k)
      BY <1>11, <2>1
    <3>2. /\ d = E[o].start /\ E[o].dir /\ d # Root
          /\ \A n \in Props(E) : E[n].dir /\ E[n].start = d => n = o
      BY <1>8, <3>1, InLast
    <3>3. \/ F[l] = Empty
          \/ E[o].start = c /\ F[l].name = "."
          \/ E[o].start = c /\ F[l].name = ".." /\ F[l].start = k.cur
      BY <3>1, <3>2, StuffIs
    <3>4. \A n \in Props(F) : F[n].dir /\ F[n].start = d => n = o
      BY <1>13, <3>2
    <3> QED BY <1>1, <1>8, <3>2, <3>3, <3>4 DEF Clean
  <2>2. CASE l \notin Q
    <3>1. F[l] = E[l]
      BY <1>12, <2>0, <2>2
    <3>2. ~Pending(l, w)
      BY <2>0, <2>2, RestParts DEF Q, v
    <3>3. Clean(E, t, R, d, l)
      BY <1>1, <3>2 DEF AllClean
    <3> QED BY <1>13, <3>1, <3>3 DEF Clean
  <2> QED BY <2>1, <2>2
<1> QED BY <1>1, <1>13, <1>16, <1>17 DEF Working, Plan, v


-----------------------------------------------------------------------------
(* The disk is sound, and the writes that are queued keep it so; after the *)
(* device has failed no command goes on.                                   *)
TreeInv ==
  /\ failed => pc = "idle"
  /\ pc = "slot" /\ req.op = "mkdir" => cur = Root \/ FreeSlot # {}
  /\ \E R, P : Shape(Es, fat1, R, P) /\ (failed \/ Working(Es, fat1, todo, Cmd, R, P))

\* What a write finds.
LEMMA WriteBegins ==
  ASSUME FatInv, FatInv', TreeInv, NEW to, Write(to)
  PROVE  /\ Es \in Entries /\ fat1 \in Tables /\ Es' \in Entries /\ fat1' \in Tables
         /\ todo \in Seq(WriteSet) /\ todo # <<>> /\ todo[1].to = to /\ todo[1] = Head(todo)
         /\ todo[1] \in WriteSet
         /\ todo' = Tail(todo) /\ Cmd' = Cmd /\ Cmd.clu \in 0 .. EOC /\ ~failed
         /\ \E R, P : Shape(Es, fat1, R, P) /\ Working(Es, fat1, todo, Cmd, R, P)
<1>1. Es \in Entries /\ fat1 \in Tables
  BY EsHas DEF FatInv
<1>2. Es' \in Entries /\ fat1' \in Tables
  BY EsType DEF FatInv, EsTyped, DiskHas, Tables
<1>3. /\ todo # <<>> /\ todo' = Tail(todo) /\ Head(todo) = todo[1] /\ todo[1] \in WriteSet
      /\ todo[1].to = to /\ pc # "idle"
  BY WriteTakes
<1>4. ~failed
  BY <1>3 DEF TreeInv
<1>5. Cmd' = Cmd
  BY DEF Cmd, Write
<1>6. todo \in Seq(WriteSet) /\ Cmd.clu \in 0 .. EOC
  BY DEF FatInv, CommandHas, RegSet, Cmd
<1> QED BY <1>1, <1>2, <1>3, <1>4, <1>5, <1>6 DEF TreeInv

\* What a write must leave.
LEMMA WriteEnds ==
  ASSUME FatInv, TreeInv, NEW to, Write(to),
         \E R, P : Shape(Es', fat1', R, P) /\ Working(Es', fat1', todo', Cmd, R, P)
  PROVE  TreeInv'
<1>1. failed' = failed /\ pc' = pc /\ req' = req /\ Cmd' = Cmd
  BY DEF Write, Cmd
<1>2. PICK R, P : Shape(Es, fat1, R, P) /\ (failed \/ Working(Es, fat1, todo, Cmd, R, P))
  BY DEF TreeInv
<1>3. todo # <<>> /\ ~failed
  BY WriteTakes DEF TreeInv
<1>4. ~(pc = "slot" /\ req.op = "mkdir")
  <2>1. Plan(Es, fat1, todo, Cmd)
    BY <1>2, <1>3 DEF Working
  <2>2. Cmd.pc = pc /\ Cmd.op = req.op
    BY DEF Cmd
  <2> HIDE DEF Cmd
  <2> QED BY <1>3, <2>1, <2>2 DEF Plan, QuietPlan, MkdirPlan, FreePlan, FillPlan, LinkPlan,
           DirPlan, ErasePlan, OverPlan, CreatePlan, FirstPlan, Settled
<1> QED BY <1>1, <1>3, <1>4 DEF TreeInv

\* WriteFat1 keeps the tree.
LEMMA Fat1Tree ==
  ASSUME FatInv, FatInv', TreeInv, WriteFat1
  PROVE  TreeInv'
<1>1. Write("fat1") /\ Head(todo).c \in Table /\ fat1' = [fat1 EXCEPT ![Head(todo).c] = Head(todo).v]
      /\ root' = root /\ sector' = sector
  BY DEF WriteFat1
<1>2. /\ Es \in Entries /\ fat1 \in Tables /\ fat1' \in Tables
      /\ todo \in Seq(WriteSet) /\ todo # <<>> /\ todo[1].to = "fat1" /\ todo[1] = Head(todo)
      /\ todo' = Tail(todo) /\ Cmd.clu \in 0 .. EOC
      /\ \E R, P : Shape(Es, fat1, R, P) /\ Working(Es, fat1, todo, Cmd, R, P)
  BY <1>1, WriteBegins
<1>3. Es' = Es
  BY <1>1, SameEntries
<1>4. PutIn(fat1, fat1', todo[1].c, todo[1].v)
  BY <1>1, <1>2 DEF PutIn, Tables
<1>5. PICK R, P : Shape(Es, fat1, R, P) /\ Working(Es, fat1, todo, Cmd, R, P)
  BY <1>2
<1>6. Shape(Es, fat1', R, P) /\ Working(Es, fat1', Tail(todo), Cmd, R, P)
  BY <1>1, <1>2, <1>4, <1>5, FatWritten
<1> QED BY <1>1, <1>2, <1>3, <1>6, WriteEnds

\* WriteFat2 and StrayWrite keep the tree.
LEMMA InertTree ==
  ASSUME FatInv, FatInv', TreeInv, WriteFat2 \/ StrayWrite
  PROVE  TreeInv'
<1>1. PICK to : Write(to) /\ Inert(Head(todo)) /\ Es' = Es /\ fat1' = fat1
  <2>1. CASE WriteFat2
    <3>1. Es' = Es
      BY <2>1, SameEntries DEF WriteFat2
    <3> QED BY <2>1, <3>1 DEF WriteFat2, Write, Inert
  <2>2. CASE StrayWrite
    <3>1. Es' = Es /\ fat1' = fat1
      BY <2>2, StrayKeeps DEF FatInv
    <3> QED BY <2>2, <3>1 DEF StrayWrite, Write, Inert
  <2> QED BY <2>1, <2>2
<1>2. /\ Es \in Entries /\ fat1 \in Tables
      /\ todo \in Seq(WriteSet) /\ todo # <<>> /\ todo[1] = Head(todo) /\ todo' = Tail(todo)
      /\ \E R, P : Shape(Es, fat1, R, P) /\ Working(Es, fat1, todo, Cmd, R, P)
  BY <1>1, WriteBegins
<1>3. PICK R, P : Shape(Es, fat1, R, P) /\ Working(Es, fat1, todo, Cmd, R, P)
  BY <1>2
<1>4. Working(Es, fat1, Tail(todo), Cmd, R, P)
  BY <1>1, <1>2, <1>3, InertWritten
<1> QED BY <1>1, <1>2, <1>3, <1>4, WriteEnds

\* WriteEntry keeps the tree.
LEMMA EntryTree ==
  ASSUME FatInv, FatInv', TreeInv, WriteEntry
  PROVE  TreeInv'
<1> DEFINE loc == Head(todo).loc
           e   == Head(todo).e
<1>1. /\ Write("entry") /\ fat1' = fat1
      /\ IF loc.c = Root
           THEN root' = [root EXCEPT ![loc.i] = e] /\ sector' = sector
           ELSE /\ sector' = [sector EXCEPT
                      ![Sector(loc.c, loc.i \div ES)].entries[loc.i % ES] = e]
                /\ root' = root
  BY DEF WriteEntry
<1>2. /\ Es \in Entries /\ fat1 \in Tables
      /\ todo \in Seq(WriteSet) /\ todo # <<>> /\ todo[1].to = "entry" /\ todo[1] = Head(todo)
      /\ todo[1] \in WriteSet /\ todo' = Tail(todo)
      /\ \E R, P : Shape(Es, fat1, R, P) /\ Working(Es, fat1, todo, Cmd, R, P)
  BY <1>1, WriteBegins
<1>3. loc \in LocSet
  BY <1>2, KindsAre
<1>4. OneEntry(Es, Es', loc) /\ Es'[loc] = e
  <2> HIDE DEF loc, e
  <2> QED BY <1>1, <1>3, EntryWritten DEF FatInv
<1>5. PICK R, P : Shape(Es, fat1, R, P) /\ Working(Es, fat1, todo, Cmd, R, P)
  BY <1>2
<1>6. \E Q, O : Shape(Es', fat1, Q, O) /\ Working(Es', fat1, Tail(todo), Cmd, Q, O)
  BY <1>2, <1>4, <1>5, EntryIsWritten
<1> QED BY <1>1, <1>2, <1>6, WriteEnds

\* WriteSector keeps the tree.
LEMMA SectorTree ==
  ASSUME FatInv, FatInv', TreeInv, WriteSector
  PROVE  TreeInv'
<1>1. /\ Write("sector") /\ fat1' = fat1 /\ root' = root
      /\ sector' = IF Head(todo).s \in Sectors
                     THEN [sector EXCEPT ![Head(todo).s] = Head(todo).x] ELSE sector
  BY DEF WriteSector
<1>2. /\ Es \in Entries /\ fat1 \in Tables /\ Es' \in Entries
      /\ todo \in Seq(WriteSet) /\ todo # <<>> /\ todo[1].to = "sector" /\ todo[1] = Head(todo)
      /\ todo' = Tail(todo)
      /\ \E R, P : Shape(Es, fat1, R, P) /\ Working(Es, fat1, todo, Cmd, R, P)
  BY <1>1, WriteBegins
<1>3. \A l \in LocSet :
         Es'[l] = IF l.c # Root /\ Sector(l.c, l.i \div ES) = todo[1].s
                    THEN todo[1].x.entries[l.i % ES] ELSE Es[l]
  <2> DEFINE s == todo[1].s
             x == todo[1].x
  <2>1. sector' = IF s \in Sectors THEN [sector EXCEPT ![s] = x] ELSE sector
    BY <1>1, <1>2
  <2> HIDE DEF s, x
  <2>2. \A l \in LocSet : Es'[l] = IF l.c # Root /\ Sector(l.c, l.i \div ES) = s
                                    THEN x.entries[l.i % ES] ELSE Es[l]
    BY <1>1, <2>1, SectorWritten DEF FatInv
  <2> QED BY <2>2 DEF s, x
<1>4. PICK R, P : Shape(Es, fat1, R, P) /\ Working(Es, fat1, todo, Cmd, R, P)
  BY <1>2
<1>5. Shape(Es', fat1, R, P) /\ Working(Es', fat1, Tail(todo), Cmd, R, P)
  BY <1>2, <1>3, <1>4, SectorIsWritten
<1> QED BY <1>1, <1>2, <1>5, WriteEnds


-----------------------------------------------------------------------------
(* The writes in a queue.                                                  *)
Parts(w) == {w[j] : j \in 1 .. Len(w)}

\* What is true of a queue when it is true of its writes.
LEMMA ByParts ==
  ASSUME NEW w
  PROVE  /\ \A e, c, k : (\A x \in Parts(w) : x.to = "fat2" \/ x = Mark(c) \/ Fills(x, e, c, k))
                         => Filling(e, c, w, k)
         /\ \A c : Mark(c) \in Parts(w) => Marks(c, w)
         /\ \A l : l.c # Root /\ (\E x \in Parts(w) : x.to = "sector" /\ x.s = Sector(l.c, l.i \div ES))
                   => Pending(l, w)
         /\ (\A x \in Parts(w) : Inert(x)) => Quiet(w)
BY DEF Parts, Filling, Marks, Pending, Quiet

\* The writes of two queues.
LEMMA PartsOfJoin ==
  ASSUME NEW s \in Seq(WriteSet), NEW u \in Seq(WriteSet)
  PROVE  /\ s \o u \in Seq(WriteSet) /\ Parts(s \o u) = Parts(s) \cup Parts(u)
         /\ Len(s \o u) = Len(s) + Len(u)
         /\ s # <<>> => /\ (s \o u)[1] = s[1] /\ s \o u # <<>>
                        /\ Parts(Tail(s \o u)) = Parts(Tail(s)) \cup Parts(u)
<1> DEFINE w == s \o u
           m == Len(s)
           n == Len(u)
<1>1. /\ w \in Seq(WriteSet) /\ Len(w) = m + n
      /\ \A i \in 1 .. m + n : w[i] = IF i <= m THEN s[i] ELSE u[i - m]
  BY ConcatProperties
<1>2. m \in Nat /\ n \in Nat
  BY LenProperties
<1>3. Parts(s) = {s[j] : j \in 1 .. m} /\ Parts(u) = {u[j] : j \in 1 .. n}
      /\ Parts(w) = {w[j] : j \in 1 .. m + n}
  BY <1>1 DEF Parts
<1> HIDE DEF w, m, n
<1>4. \A j \in 1 .. m : w[j] = s[j]
  BY <1>1, <1>2
<1>5. \A j \in 1 .. n : w[m + j] = u[j] /\ m + j \in 1 .. m + n
  <2> TAKE j \in 1 .. n
  <2>1. m + j \in 1 .. m + n /\ ~(m + j <= m) /\ (m + j) - m = j
    BY <1>2
  <2> QED BY <1>1, <2>1
<1>6. \A i \in 1 .. m + n : i \in 1 .. m \/ \E j \in 1 .. n : i = m + j
  <2> TAKE i \in 1 .. m + n
  <2>1. CASE i <= m
    BY <1>2, <2>1
  <2>2. CASE ~(i <= m)
    <3>1. i - m \in 1 .. n /\ i = m + (i - m)
      BY <1>2, <2>2
    <3> QED BY <3>1
  <2> QED BY <2>1, <2>2
<1>7. Parts(w) = Parts(s) \cup Parts(u)
  <2>1. \A j \in 1 .. m : j \in 1 .. m + n
    BY <1>2
  <2>2. Parts(s) \cup Parts(u) \subseteq Parts(w)
    BY <1>3, <1>4, <1>5, <2>1
  <2>3. Parts(w) \subseteq Parts(s) \cup Parts(u)
    BY <1>3, <1>4, <1>5, <1>6
  <2> QED BY <2>2, <2>3
<1>8. ASSUME s # <<>>
      PROVE  w[1] = s[1] /\ w # <<>> /\ Parts(Tail(w)) = Parts(Tail(s)) \cup Parts(u)
  <2>1. m \in Nat \ {0}
    BY <1>8, EmptySeq, Zenon DEF m
  <2>2. w # <<>>
    <3>1. Len(w) # 0
      BY <1>1, <1>2, <2>1
    <3>2. Len(<<>>) = 0
      BY EmptySeq
    <3> QED BY <3>1, <3>2, Zenon
  <2>3. w[1] = s[1]
    BY <1>4, <2>1
  <2>4. /\ Len(Tail(w)) = m + n - 1 /\ \A j \in 1 .. m + n - 1 : Tail(w)[j] = w[j + 1]
        /\ Len(Tail(s)) = m - 1 /\ \A j \in 1 .. m - 1 : Tail(s)[j] = s[j + 1]
    <3> DEFINE x == Tail(w)
               y == Tail(s)
    <3>1. Len(x) = Len(w) - 1 /\ \A j \in 1 .. Len(w) - 1 : x[j] = w[j + 1]
      BY <1>1, <2>2, FirstWrite
    <3>2. Len(y) = Len(s) - 1 /\ \A j \in 1 .. Len(s) - 1 : y[j] = s[j + 1]
      BY <1>8, FirstWrite
    <3>3. Len(w) = m + n /\ Len(s) = m
      BY <1>1 DEF m
    <3> HIDE DEF x, y
    <3>4. Len(x) = m + n - 1 /\ \A j \in 1 .. m + n - 1 : x[j] = w[j + 1]
      BY <1>2, <3>1, <3>3
    <3>5. Len(y) = m - 1 /\ \A j \in 1 .. m - 1 : y[j] = s[j + 1]
      BY <3>2, <3>3
    <3> QED BY <3>4, <3>5 DEF x, y
  <2> DEFINE a == Tail(w)
             b == Tail(s)
  <2> HIDE DEF a, b
  <2>5. Parts(a) = {a[j] : j \in 1 .. m + n - 1} /\ Parts(b) = {b[j] : j \in 1 .. m - 1}
    BY <2>4 DEF Parts, a, b
  <2>6. \A j \in 1 .. m - 1 : a[j] = b[j] /\ j \in 1 .. m + n - 1
    <3> TAKE j \in 1 .. m - 1
    <3>1. j \in 1 .. m + n - 1 /\ j + 1 \in 1 .. m
      BY <1>2, <2>1
    <3> QED BY <1>4, <2>4, <3>1 DEF a, b
  <2>7. \A j \in 1 .. n : a[m + j - 1] = u[j] /\ m + j - 1 \in 1 .. m + n - 1
    <3> TAKE j \in 1 .. n
    <3>1. m + j - 1 \in 1 .. m + n - 1 /\ (m + j - 1) + 1 = m + j
      BY <1>2, <2>1
    <3> QED BY <1>5, <2>4, <3>1 DEF a
  <2>8. \A i \in 1 .. m + n - 1 : i \in 1 .. m - 1 \/ \E j \in 1 .. n : i = m + j - 1
    <3> TAKE i \in 1 .. m + n - 1
    <3>1. CASE i < m
      BY <1>2, <2>1, <3>1
    <3>2. CASE ~(i < m)
      <4>1. i - m + 1 \in 1 .. n /\ i = m + (i - m + 1) - 1
        BY <1>2, <2>1, <3>2
      <4> QED BY <4>1
    <3> QED BY <3>1, <3>2
  <2>9. Parts(a) = Parts(b) \cup Parts(u)
    <3>1. Parts(b) \cup Parts(u) \subseteq Parts(a)
      BY <1>3, <2>5, <2>6, <2>7
    <3>2. Parts(a) \subseteq Parts(b) \cup Parts(u)
      BY <1>3, <2>5, <2>6, <2>7, <2>8
    <3> QED BY <3>1, <3>2
  <2> QED BY <2>2, <2>3, <2>9 DEF a, b
<1> QED BY <1>1, <1>7, <1>8 DEF w, m, n

\* The writes of a queue of one or two.
LEMMA PartsOfShort ==
  ASSUME NEW x \in WriteSet, NEW y \in WriteSet
  PROVE  /\ <<x>> \in Seq(WriteSet) /\ Parts(<<x>>) = {x} /\ <<x>> # <<>> /\ <<x>>[1] = x
         /\ Parts(Tail(<<x>>)) = {} /\ Len(<<x>>) = 1
         /\ <<x, y>> \in Seq(WriteSet) /\ Parts(<<x, y>>) = {x, y} /\ <<x, y>> # <<>>
         /\ <<x, y>>[1] = x /\ Parts(Tail(<<x, y>>)) = {y} /\ Len(<<x, y>>) = 2
<1>1. <<x>> \in Seq(WriteSet) /\ Len(<<x>>) = 1 /\ <<x>>[1] = x /\ <<x>> # <<>> /\ Tail(<<x>>) = <<>>
  OBVIOUS
<1>2. /\ <<x, y>> \in Seq(WriteSet) /\ Len(<<x, y>>) = 2 /\ <<x, y>>[1] = x /\ <<x, y>>[2] = y
      /\ <<x, y>> # <<>> /\ Tail(<<x, y>>) = <<y>>
  OBVIOUS
<1>3. ASSUME NEW z \in WriteSet PROVE Parts(<<z>>) = {z}
  <2>1. Len(<<z>>) = 1 /\ <<z>>[1] = z
    OBVIOUS
  <2>2. 1 .. 1 = {1}
    OBVIOUS
  <2> QED BY <2>1, <2>2, Zenon DEF Parts
<1>4. Parts(Tail(<<x>>)) = {}
  BY <1>1 DEF Parts
<1>5. Parts(<<x, y>>) = {x, y}
  <2>1. 1 .. 2 = {1, 2}
    OBVIOUS
  <2>2. Parts(<<x, y>>) = {<<x, y>>[j] : j \in {1, 2}}
    BY <1>2, <2>1 DEF Parts
  <2> QED BY <1>2, <2>2
<1> QED BY <1>1, <1>2, <1>3, <1>4, <1>5

\* The writes of update_fat_entry_for_cluster.
LEMMA PartsOfUpdate ==
  ASSUME NEW c \in 0 .. EOC, NEW v \in 0 .. EOC
  PROVE  /\ UpdateFat(c, v) \in Seq(WriteSet) /\ UpdateFat(c, v) # <<>> /\ Len(UpdateFat(c, v)) = 2
         /\ UpdateFat(c, v)[1] = FatWrite("fat1", c, v)
         /\ Parts(UpdateFat(c, v)) = {FatWrite("fat1", c, v), FatWrite("fat2", c, v)}
         /\ Parts(Tail(UpdateFat(c, v))) = {FatWrite("fat2", c, v)}
<1>1. FatWrite("fat1", c, v) \in WriteSet /\ FatWrite("fat2", c, v) \in WriteSet
  BY FatWriteHas
<1> QED BY <1>1, PartsOfShort DEF UpdateFat

\* The writes that clear a cluster.
LEMMA PartsOfClear ==
  ASSUME NEW c \in Data, NEW from \in 0 .. SPC
  PROVE  /\ ClearCluster(c, from) \in Seq(WriteSet)
         /\ Parts(ClearCluster(c, from)) = {SectorWrite(Sector(c, p), Cleared) : p \in from .. SPC - 1}
<1> DEFINE w == ClearCluster(c, from)
           n == SPC - from
<1>1. w \in Seq(WriteSet)
  BY ClearIsQueued DEF Queued
<1>2. n \in Nat /\ SPC \in Nat /\ from \in Nat
  BY Sizes
<1>3. Len(w) = n /\ \A j \in 1 .. n : w[j] = SectorWrite(Sector(c, from + j - 1), Cleared)
  BY <1>2 DEF ClearCluster
<1>4. \A j \in 1 .. n : from + j - 1 \in from .. SPC - 1
  BY <1>2
<1>5. \A p \in from .. SPC - 1 : p - from + 1 \in 1 .. n /\ from + (p - from + 1) - 1 = p
  BY <1>2
<1>6. Parts(w) = {w[j] : j \in 1 .. n}
  BY <1>3 DEF Parts
<1> HIDE DEF w, n
<1>7. Parts(w) \subseteq {SectorWrite(Sector(c, p), Cleared) : p \in from .. SPC - 1}
  BY <1>3, <1>4, <1>6
<1>8. {SectorWrite(Sector(c, p), Cleared) : p \in from .. SPC - 1} \subseteq Parts(w)
  <2> SUFFICES ASSUME NEW p \in from .. SPC - 1
               PROVE  SectorWrite(Sector(c, p), Cleared) \in Parts(w)
    OBVIOUS
  <2>1. p - from + 1 \in 1 .. n /\ from + (p - from + 1) - 1 = p
    BY <1>5
  <2>2. w[p - from + 1] = SectorWrite(Sector(c, p), Cleared)
    BY <1>3, <2>1
  <2> QED BY <1>6, <2>1, <2>2
<1> QED BY <1>1, <1>7, <1>8 DEF w


-----------------------------------------------------------------------------
(* Between the writes of two stages.                                       *)

\* The command when a stage of it is to begin with the given registers.
After(stage, q, g) ==
  [pc |-> stage, op |-> q.op, name |-> q.name, loc |-> g.loc, clu |-> g.clu, nfc |-> g.nfc,
   cur |-> cur, depth |-> Len(cwd)]

\* The parts of a command.
LEMMA AfterIs ==
  ASSUME NEW stage, NEW q, NEW g
  PROVE  /\ After(stage, q, g).pc = stage /\ After(stage, q, g).op = q.op
         /\ After(stage, q, g).name = q.name
         /\ After(stage, q, g).loc = g.loc /\ After(stage, q, g).clu = g.clu
         /\ After(stage, q, g).nfc = g.nfc /\ After(stage, q, g).cur = cur
         /\ After(stage, q, g).depth = Len(cwd)
         /\ Cmd = After(pc, req, r)
BY DEF After, Cmd

\* Nothing is queued: a disk that is sound has every cluster in the place where
\* it belongs.
LEMMA NothingQueued ==
  ASSUME NEW E, NEW t, NEW k, NEW R, NEW P, Working(E, t, <<>>, k, R, P)
  PROVE  QuietPlan(E, t, <<>>, k) \/ MkdirPlan(E, t, <<>>, k)
<1>1. \A c : ~Marks(c, <<>>)
  BY DEF Marks
<1>2. CASE FillPlan(E, t, <<>>, k)
  <2>1. PICK c \in Data : t[c] # 0 /\ Balance(E, t, {}, {y \in {c} : t[y] = 0})
    BY <1>1, <1>2 DEF FillPlan
  <2>2. {y \in {c} : t[y] = 0} = {}
    BY <2>1
  <2>3. k.pc # "free" /\ Settled(E, t, k)
    BY <1>2 DEF FillPlan
  <2>4. Balance(E, t, Left(t, k), {})
    BY <2>1, <2>2, <2>3 DEF Left
  <2>5. Quiet(<<>>)
    BY DEF Quiet
  <2> QED BY <2>3, <2>4, <2>5 DEF QuietPlan
<1>3. /\ ~FreePlan(E, t, <<>>, k) /\ ~LinkPlan(E, t, <<>>, k) /\ ~DirPlan(E, t, <<>>, k)
      /\ ~ErasePlan(E, t, <<>>, k) /\ ~OverPlan(E, t, <<>>, k) /\ ~CreatePlan(E, t, <<>>, k)
      /\ ~FirstPlan(E, t, <<>>, k)
  <2>1. \A x : <<>> # <<x>>
    OBVIOUS
  <2> QED BY <2>1 DEF FreePlan, LinkPlan, DirPlan, ErasePlan, OverPlan, CreatePlan, FirstPlan
<1> QED BY <1>2, <1>3 DEF Working, Plan

\* What a stage, or a command, finds.
AtRest(R, P) ==
  /\ Shape(Es, fat1, R, P) /\ cur \in Dirs(R) /\ P[cur] = Len(cwd)
  /\ AllClean(Es, fat1, R, <<>>)

\* What a stage finds.
LEMMA StageBegins ==
  ASSUME FatInv, TreeInv, todo = <<>>, ~failed
  PROVE  /\ Es \in Entries /\ fat1 \in Tables /\ cur \in Starts
         /\ \E R, P : /\ AtRest(R, P)
                      /\ QuietPlan(Es, fat1, <<>>, Cmd) \/ MkdirPlan(Es, fat1, <<>>, Cmd)
         /\ req.op # "mkdir" \/ pc # "slot" => QuietPlan(Es, fat1, <<>>, Cmd)
<1>1. Es \in Entries /\ fat1 \in Tables
  BY EsHas DEF FatInv
<1>2. PICK R, P : Shape(Es, fat1, R, P) /\ Working(Es, fat1, <<>>, Cmd, R, P)
  BY DEF TreeInv
<1>3. Cmd.cur = cur /\ Cmd.depth = Len(cwd) /\ Cmd.pc = pc /\ Cmd.op = req.op
  BY DEF Cmd
<1>4. AtRest(R, P)
  <2> HIDE DEF Cmd
  <2> QED BY <1>2, <1>3 DEF AtRest, Working
<1>5. QuietPlan(Es, fat1, <<>>, Cmd) \/ MkdirPlan(Es, fat1, <<>>, Cmd)
  BY <1>2, NothingQueued
<1>6. cur \in Starts
  BY DEF FatInv, CommandHas
<1>7. MkdirPlan(Es, fat1, <<>>, Cmd) => pc = "slot" /\ req.op = "mkdir"
  BY <1>3 DEF MkdirPlan
<1> QED BY <1>1, <1>4, <1>5, <1>6, <1>7

\* The current directory on a sound disk.
LEMMA CurrentHas ==
  ASSUME NEW R, NEW P, AtRest(R, P), Es \in Entries, fat1 \in Tables
  PROVE  cur # Root => /\ cur \in Data /\ cur \in 0 .. EOC /\ Ended(fat1, cur)
                       /\ \E o \in Props(Es) : Es[o].dir /\ Es[o].start = cur
<1>1. ASSUME cur # Root
      PROVE  /\ cur \in Data /\ cur \in 0 .. EOC /\ Ended(fat1, cur)
             /\ \E o \in Props(Es) : Es[o].dir /\ Es[o].start = cur
  <2>1. cur \in R /\ Shape(Es, fat1, R, P)
    BY <1>1 DEF AtRest, Dirs
  <2>2. cur \in Data /\ Ended(fat1, cur)
    BY <2>1, DirTaken
  <2> QED BY <2>1, <2>2, Sizes DEF Shape, Named
<1> QED BY <1>1

\* The free slot depends on the disk only.
LEMMA SameFreeSlot ==
  ASSUME fat1' = fat1, root' = root, sector' = sector, cur' = cur
  PROVE  FreeSlot' = FreeSlot
<1>1. Follow' = Follow
  BY DEF Follow
<1>2. \A c, k : Hop(c, k)' = Hop(c, k)
  BY <1>1 DEF Hop
<1>3. \A c : ChainLength(c)' = ChainLength(c)
  BY <1>2 DEF ChainLength
<1>4. \A d : Positions(d)' = Positions(d)
  BY <1>3 DEF Positions
<1>5. \A d, k : Slot(d, k)' = Slot(d, k)
  BY <1>2 DEF Slot
<1>6. \A d, k : EntryAt(d, k)' = EntryAt(d, k)
  BY <1>5 DEF EntryAt, Entry
<1>7. /\ \A k : Slot(cur, k)' = Slot(cur, k) /\ EntryAt(cur, k)' = EntryAt(cur, k)
      /\ Positions(cur)' = Positions(cur)
  BY <1>4, <1>5, <1>6
<1> QED BY <1>7 DEF FreeSlot

\* A stage, or the beginning of a command, queues the writes w.
LEMMA StageQueues ==
  ASSUME NEW R, NEW P, AtRest(R, P), NEW stage, NEW w, NEW g, NEW q,
         Plan(Es, fat1, w, After(stage, q, g)),
         ~failed, UNCHANGED <<disk, cur, cwd, failed>>,
         pc' = stage, todo' = w, r' = g, req' = q,
         stage = "slot" /\ q.op = "mkdir" => cur = Root \/ FreeSlot # {}
  PROVE  TreeInv'
<1>1. Es' = Es /\ fat1' = fat1 /\ FreeSlot' = FreeSlot
  <2>1. fat1' = fat1 /\ fat2' = fat2 /\ root' = root /\ sector' = sector /\ cur' = cur
    BY DEF disk
  <2>2. Es' = Es
    BY <2>1, SameEntries
  <2>3. FreeSlot' = FreeSlot
    BY <2>1, SameFreeSlot
  <2> QED BY <2>1, <2>2, <2>3
<1>2. Cmd' = After(stage, q, g)
  BY DEF Cmd, After
<1>3. Working(Es, fat1, w, After(stage, q, g), R, P)
  <2>1. AllClean(Es, fat1, R, w)
    <3>1. \A l : ~Pending(l, <<>>)
      BY DEF Pending
    <3> QED BY <3>1 DEF AtRest, AllClean
  <2> QED BY <2>1, AfterIs DEF Working, AtRest
<1>4. Shape(Es, fat1, R, P)
  BY DEF AtRest
<1> QED BY <1>1, <1>2, <1>3, <1>4 DEF TreeInv

\* A command ends.
LEMMA EndsTree ==
  ASSUME NEW R, NEW P, AtRest(R, P), ~failed, UNCHANGED <<disk, cur, cwd, failed>>,
         pc' = "idle", todo' = <<>>, Balance(Es, fat1, {}, {})
  PROVE  TreeInv'
<1>1. Plan(Es, fat1, <<>>, After("idle", req', r'))
  <2> DEFINE k == After("idle", req', r')
  <2>1. k.pc = "idle"
    BY AfterIs
  <2> HIDE DEF k
  <2>2. QuietPlan(Es, fat1, <<>>, k)
    BY <2>1 DEF QuietPlan, Quiet, Settled, Left
  <2> QED BY <2>2 DEF Plan, k
<1> QED BY <1>1, StageQueues

\* A command that ends keeps the tree.
LEMMA FinishTree ==
  ASSUME FatInv, TreeInv, NEW now, now \notin {"free", "idle"}, At(now), NEW err, Finish(err)
  PROVE  TreeInv'
<1>1. ~failed /\ todo = <<>> /\ pc = now
  BY DEF At, TreeInv
<1>2. PICK R, P : /\ AtRest(R, P)
                  /\ QuietPlan(Es, fat1, <<>>, Cmd) \/ MkdirPlan(Es, fat1, <<>>, Cmd)
  BY <1>1, StageBegins
<1>3. Balance(Es, fat1, {}, {})
  <2>1. Cmd.pc = now
    BY <1>1 DEF Cmd
  <2> HIDE DEF Cmd
  <2> QED BY <1>2, <2>1 DEF QuietPlan, MkdirPlan, Left
<1> QED BY <1>1, <1>2, <1>3, EndsTree DEF Finish, Return

\* A command that writes nothing keeps the tree.
LEMMA AnswerTree ==
  ASSUME FatInv, TreeInv, NEW q, NEW err, NEW out, Answer(q, err, out)
  PROVE  TreeInv'
<1>1. ~failed /\ pc = "idle" /\ todo = <<>>
  BY DEF Answer, Ready, Idle, FatInv, StageHas, Needs
<1>2. PICK R, P : AtRest(R, P) /\ QuietPlan(Es, fat1, <<>>, Cmd)
  BY <1>1, StageBegins
<1>3. Balance(Es, fat1, {}, {})
  <2>1. Cmd.pc = "idle"
    BY <1>1 DEF Cmd
  <2> HIDE DEF Cmd
  <2> QED BY <1>2, <2>1 DEF QuietPlan, Left
<1> QED BY <1>1, <1>2, <1>3, EndsTree DEF Answer, Return

\* A failed access leaves the tree as the last write left it.
LEMMA FailTree ==
  ASSUME TreeInv, Fail
  PROVE  TreeInv'
<1>1. failed' /\ pc' = "idle" /\ Es' = Es /\ fat1' = fat1
  BY SameEntries DEF Fail, Return, disk
<1> QED BY <1>1 DEF TreeInv


-----------------------------------------------------------------------------
(* The stages of the commands that make files and directories.             *)

\* What ClearCluster and NewDirSector write fills a cluster of a directory, what
\* FillSector writes one of a file.
LEMMA SectorFills ==
  ASSUME NEW c \in Data, NEW p \in 0 .. SPC - 1, NEW e, NEW k
  PROVE  /\ \A x : /\ SectorWrite(Sector(c, p), x).to = "sector"
                   /\ SectorWrite(Sector(c, p), x).s = Sector(c, p)
         /\ e.dir => Fills(SectorWrite(Sector(c, p), Cleared), e, c, k)
         /\ \A u : ~e.dir => Fills(SectorWrite(Sector(c, p), DataSector(u)), e, c, k)
         /\ e.dir /\ e.start = c /\ k.cur = cur
              => Fills(SectorWrite(Sector(c, p), NewDirSector(c)), e, c, k)
<1>1. \A x : /\ SectorWrite(Sector(c, p), x).to = "sector"
             /\ SectorWrite(Sector(c, p), x).s = Sector(c, p)
             /\ SectorWrite(Sector(c, p), x).x = x
  BY DEF SectorWrite
<1>2. ASSUME NEW x, \A i \in 0 .. ES - 1 : x.entries[i] \in Stuff(e, c, k)
      PROVE  Fills(SectorWrite(Sector(c, p), x), e, c, k)
  BY <1>1, <1>2 DEF Fills
<1>3. \A i \in 0 .. ES - 1 : Cleared.entries[i] = Empty
  BY DEF Cleared, DirSector
<1>4. \A u : \A i \in 0 .. ES - 1 : DataSector(u).entries[i] = Garbage
  BY DEF DataSector
<1>5. \A i \in 0 .. ES - 1 :
        NewDirSector(c).entries[i] \in {Empty, DirEntry(".", c), DirEntry("..", cur)}
  BY DEF NewDirSector, DirSector
<1>6. ASSUME e.dir PROVE Fills(SectorWrite(Sector(c, p), Cleared), e, c, k)
  BY <1>2, <1>3, <1>6 DEF Stuff
<1>7. ASSUME NEW u, ~e.dir PROVE Fills(SectorWrite(Sector(c, p), DataSector(u)), e, c, k)
  BY <1>2, <1>4, <1>7 DEF Stuff
<1>8. ASSUME e.dir, e.start = c, k.cur = cur
      PROVE  Fills(SectorWrite(Sector(c, p), NewDirSector(c)), e, c, k)
  <2>1. {Empty, DirEntry(".", c), DirEntry("..", cur)} \subseteq Stuff(e, c, k)
    BY <1>8 DEF Stuff
  <2> QED BY <1>2, <1>5, <2>1
<1> QED BY <1>1, <1>6, <1>7, <1>8

\* A cluster all of whose sectors are still to be written.
LEMMA ByCovers ==
  ASSUME NEW c \in Data, NEW w,
         \A p \in 0 .. SPC - 1 : \E x : SectorWrite(Sector(c, p), x) \in Parts(w)
  PROVE  Covers(c, w)
<1> SUFFICES ASSUME NEW l \in LocSet, l.c = c PROVE Pending(l, w)
  BY DEF Covers
<1>1. c # Root
  BY Sizes
<1>2. l.i \div ES \in 0 .. SPC - 1
  BY <1>1, PlaceParts
<1>3. PICK x : SectorWrite(Sector(c, l.i \div ES), x) \in Parts(w)
  BY <1>2
<1>4. /\ SectorWrite(Sector(c, l.i \div ES), x).to = "sector"
      /\ SectorWrite(Sector(c, l.i \div ES), x).s = Sector(l.c, l.i \div ES)
  BY DEF SectorWrite
<1> QED BY <1>1, <1>3, <1>4, ByParts

\* EnterName of a file keeps the tree.
LEMMA CreateTree ==
  ASSUME FatInv, TreeInv, EnterName, req.op = "create"
  PROVE  TreeInv'
<1>1. PICK loc \in FreeSlot : /\ At("slot")
        /\ Continue("end", <<EntryWrite(loc, [Empty EXCEPT !.name = req.name])>>, NoRegs)
  BY DEF EnterName
<1> DEFINE e == [Empty EXCEPT !.name = req.name]
           w == <<EntryWrite(loc, e)>>
           k == After("end", req, NoRegs)
<1>2. todo = <<>> /\ pc = "slot" /\ ~failed
  BY <1>1 DEF At, TreeInv
<1>3. PICK R, P : /\ AtRest(R, P)
                  /\ QuietPlan(Es, fat1, <<>>, Cmd) \/ MkdirPlan(Es, fat1, <<>>, Cmd)
  BY <1>2, StageBegins
<1>4. Es \in Entries /\ fat1 \in Tables /\ cur \in Starts
  BY <1>2, StageBegins
<1>5. Balance(Es, fat1, {}, {})
  <2>1. Cmd.pc = "slot"
    BY <1>2 DEF Cmd
  <2> HIDE DEF Cmd
  <2> QED BY <1>3, <2>1 DEF QuietPlan, MkdirPlan, Left
<1>6. cur # Root => Ended(fat1, cur)
  BY <1>3, <1>4, CurrentHas
<1>7. /\ loc \in In(fat1, cur) /\ loc \in LocSet /\ Es[loc] \in {Empty, Deleted}
      /\ \A m \in In(fat1, cur) : Earlier(fat1, cur, m, loc) => Es[m] \notin {Empty, Deleted}
  BY <1>4, <1>6, FreeIs DEF FatInv
<1>8. req.name \in Names
  BY <1>2 DEF FatInv, StageHas, Needs
<1>9. e \in EntrySet /\ e.name = req.name /\ e.start = 0 /\ ~e.dir
  <2>1. e \in EntrySet
    BY <1>8, EntriesAre
  <2> QED BY <2>1 DEF Empty
<1> HIDE DEF e
<1>10. Proper(e)
  BY <1>8, <1>9, NamesAreNames DEF Proper, Special
<1>11. k.pc = "end" /\ k.cur = cur
  BY AfterIs
<1> HIDE DEF k
<1>12. FreePlace(Es, fat1, k, loc)
  BY <1>7, <1>11 DEF FreePlace
<1>13. CreatePlan(Es, fat1, w, k)
  BY <1>5, <1>7, <1>9, <1>10, <1>11, <1>12 DEF CreatePlan
<1>14. Plan(Es, fat1, w, After("end", req, NoRegs))
  BY <1>13 DEF Plan, k
<1>15. pc' = "end" /\ todo' = w /\ r' = NoRegs /\ req' = req /\ UNCHANGED <<disk, cur, cwd, failed>>
  BY <1>1 DEF Continue, e
<1>16. AtRest(R, P)
  BY <1>3
<1> HIDE DEF w
<1> QED BY <1>2, <1>14, <1>15, <1>16, StageQueues

\* EnterName of a directory queues what DirPlan says.
LEMMA EnterDirPlans ==
  ASSUME FatInv, TreeInv, EnterName, req.op # "create"
  PROVE  /\ DirPlan(Es, fat1, todo', After("end", req, NoRegs))
         /\ pc' = "end" /\ r' = NoRegs /\ req' = req /\ UNCHANGED <<disk, cur, cwd, failed>>
<1> DEFINE c == r.nfc
           e == DirEntry(req.name, c)
           U == UpdateFat(c, EOC)
           C == ClearCluster(c, 1)
           k == After("end", req, NoRegs)
<1>1. PICK loc \in FreeSlot : /\ At("slot")
        /\ Continue("end", <<EntryWrite(loc, e), SectorWrite(Sector(c, 0), NewDirSector(c))>>
                             \o C \o U, NoRegs)
  BY DEF EnterName
<1> DEFINE x == EntryWrite(loc, e)
           y == SectorWrite(Sector(c, 0), NewDirSector(c))
           w == <<x, y>> \o C \o U
<1>2. todo = <<>> /\ pc = "slot" /\ ~failed
  BY <1>1 DEF At, TreeInv
<1>3. PICK R, P : /\ AtRest(R, P)
                  /\ QuietPlan(Es, fat1, <<>>, Cmd) \/ MkdirPlan(Es, fat1, <<>>, Cmd)
  BY <1>2, StageBegins
<1>4. Es \in Entries /\ fat1 \in Tables /\ cur \in Starts
  BY <1>2, StageBegins
<1>5. Balance(Es, fat1, {}, {}) /\ c \in Data /\ fat1[c] = 0 /\ Len(cwd) < MaxDepth
  <2>1. Cmd.pc = "slot" /\ Cmd.op # "create" /\ Cmd.nfc = c /\ Cmd.depth = Len(cwd)
    BY <1>2 DEF Cmd
  <2> HIDE DEF Cmd, c
  <2>2. MkdirPlan(Es, fat1, <<>>, Cmd)
    BY <1>3, <2>1 DEF QuietPlan, Settled
  <2> QED BY <2>1, <2>2 DEF MkdirPlan
<1> HIDE DEF c
<1>6. cur # Root => Ended(fat1, cur)
  BY <1>3, <1>4, CurrentHas
<1>7. /\ loc \in In(fat1, cur) /\ loc \in LocSet /\ Es[loc] \in {Empty, Deleted}
      /\ \A m \in In(fat1, cur) : Earlier(fat1, cur, m, loc) => Es[m] \notin {Empty, Deleted}
  BY <1>4, <1>6, FreeIs DEF FatInv
<1>8. req.name \in Names
  BY <1>2 DEF FatInv, StageHas, Needs
<1>9. e \in EntrySet /\ e.start = c /\ e.dir
  <2>1. e \in EntrySet
    BY <1>5, <1>8, EntriesAre DEF AllNames, Starts
  <2> QED BY <2>1 DEF DirEntry
<1>10. k.pc = "end" /\ k.cur = cur /\ k.depth = Len(cwd) /\ k.name = req.name
  BY AfterIs
<1> HIDE DEF k
<1>11. /\ x \in WriteSet /\ y \in WriteSet
       /\ C \in Seq(WriteSet) /\ Parts(C) = {SectorWrite(Sector(c, p), Cleared) : p \in 1 .. SPC - 1}
       /\ U \in Seq(WriteSet) /\ Parts(U) = {FatWrite("fat1", c, EOC), FatWrite("fat2", c, EOC)}
  <2>1. x \in WriteSet
    BY <1>7, <1>9, EntryWriteHas
  <2>2. y \in WriteSet
    <3>1. Sector(c, 0) \in Int
      BY <1>5, Sizes, SectorIsInt
    <3> QED BY <1>4, <1>5, <3>1, SectorsAre, SectorWriteHas
  <2>3. 1 \in 0 .. SPC /\ c \in 0 .. EOC /\ EOC \in 0 .. EOC
    BY <1>5, Sizes
  <2> QED BY <1>5, <2>1, <2>2, <2>3, PartsOfClear, PartsOfUpdate
<1> HIDE DEF x, y, C, U
<1>12. /\ w # <<>> /\ w[1] = x
       /\ Parts(Tail(w)) = {y} \cup Parts(C) \cup Parts(U)
  <2> DEFINE a == <<x, y>>
             b == a \o C
  <2>1. a \in Seq(WriteSet) /\ a # <<>> /\ a[1] = x /\ Parts(Tail(a)) = {y}
    BY <1>11, PartsOfShort
  <2>2. b \in Seq(WriteSet) /\ b # <<>> /\ b[1] = x /\ Parts(Tail(b)) = {y} \cup Parts(C)
    <3> HIDE DEF a
    <3> QED BY <1>11, <2>1, PartsOfJoin
  <2>3. w = b \o U
    OBVIOUS
  <2> HIDE DEF b
  <2>4. b \o U # <<>> /\ (b \o U)[1] = x /\ Parts(Tail(b \o U)) = Parts(Tail(b)) \cup Parts(U)
    BY <1>11, <2>2, PartsOfJoin
  <2> QED BY <2>2, <2>3, <2>4
<1> DEFINE v == Tail(w)
<1> HIDE DEF w
<1>13. \A z \in Parts(v) : z.to = "fat2" \/ z = Mark(c) \/ Fills(z, e, c, k)
  <2>1. Fills(y, e, c, k)
    <3>1. 0 \in 0 .. SPC - 1
      BY Sizes
    <3> HIDE DEF e
    <3> QED BY <1>5, <1>9, <1>10, <3>1, SectorFills DEF y
  <2>2. ASSUME NEW z \in Parts(C) PROVE Fills(z, e, c, k)
    <3>1. PICK p \in 1 .. SPC - 1 : z = SectorWrite(Sector(c, p), Cleared)
      BY <1>11
    <3>2. p \in 0 .. SPC - 1
      BY Sizes
    <3> HIDE DEF e
    <3> QED BY <1>5, <1>9, <3>1, <3>2, SectorFills
  <2>3. ASSUME NEW z \in Parts(U) PROVE z.to = "fat2" \/ z = Mark(c)
    BY <1>11 DEF Mark, FatWrite
  <2> QED BY <1>12, <2>1, <2>2, <2>3
<1>14. Filling(e, c, v, k)
  BY <1>13, ByParts
<1>15. Marks(c, v)
  <2>1. Mark(c) \in Parts(v)
    BY <1>11, <1>12 DEF Mark
  <2> QED BY <2>1, ByParts
<1>16. Covers(c, v)
  <2>1. ASSUME NEW p \in 0 .. SPC - 1
        PROVE  \E z : SectorWrite(Sector(c, p), z) \in Parts(v)
    <3>1. CASE p = 0
      BY <1>12, <3>1 DEF y
    <3>2. CASE p # 0
      <4>1. p \in 1 .. SPC - 1
        BY <3>2
      <4> QED BY <1>11, <1>12, <4>1
    <3> QED BY <3>1, <3>2
  <2> QED BY <1>5, <2>1, ByCovers
<1>17. FreePlace(Es, fat1, k, loc)
  BY <1>7, <1>10 DEF FreePlace
<1>18. DirPlan(Es, fat1, w, k)
  <2>1. w[1] = EntryWrite(loc, DirEntry(req.name, c))
    BY <1>12 DEF x
  <2>2. Filling(DirEntry(req.name, c), c, Tail(w), k) /\ Marks(c, Tail(w)) /\ Covers(c, Tail(w))
    BY <1>14, <1>15, <1>16
  <2> QED BY <1>5, <1>7, <1>8, <1>10, <1>12, <1>17, <2>1, <2>2 DEF DirPlan
<1>19. pc' = "end" /\ todo' = w /\ r' = NoRegs /\ req' = req /\ UNCHANGED <<disk, cur, cwd, failed>>
  BY <1>1 DEF Continue, w, x, y, C, U
<1> QED BY <1>18, <1>19 DEF k

\* EnterName of a directory keeps the tree.
LEMMA EnterDirTree ==
  ASSUME FatInv, TreeInv, EnterName, req.op # "create"
  PROVE  TreeInv'
<1> DEFINE k == After("end", req, NoRegs)
<1>1. /\ DirPlan(Es, fat1, todo', k)
      /\ pc' = "end" /\ r' = NoRegs /\ req' = req /\ UNCHANGED <<disk, cur, cwd, failed>>
  BY EnterDirPlans
<1>2. todo = <<>> /\ ~failed
  BY DEF EnterName, At, TreeInv
<1>3. PICK R, P : AtRest(R, P)
  BY <1>2, StageBegins
<1>4. Plan(Es, fat1, todo', k)
  BY <1>1 DEF Plan
<1> QED BY <1>1, <1>2, <1>3, <1>4, StageQueues

\* NoSlot, OutOfMemory and End keep the tree.
LEMMA EndTree ==
  ASSUME FatInv, TreeInv, NoSlot \/ OutOfMemory \/ End
  PROVE  TreeInv'
BY FinishTree DEF NoSlot, OutOfMemory, End


-----------------------------------------------------------------------------
(* The stages that change chains.                                          *)

\* A free cluster.
LEMMA FreeClusterHas ==
  ASSUME NEW c \in FreeCluster
  PROVE  c \in Data /\ c \in 0 .. EOC /\ fat1[c] = 0 /\ EOC \in 0 .. EOC /\ c # Root
BY Sizes DEF FreeCluster

\* What a stage other than "slot" of a new directory finds.
LEMMA QuietBegins ==
  ASSUME FatInv, TreeInv, NEW now, now # "idle", At(now), now = "slot" => req.op # "mkdir"
  PROVE  /\ Es \in Entries /\ fat1 \in Tables /\ cur \in Starts /\ ~failed
         /\ Cmd.pc = now /\ Cmd.op = req.op /\ Cmd.loc = r.loc /\ Cmd.clu = r.clu /\ Cmd.cur = cur
         /\ \E R, P : AtRest(R, P) /\ QuietPlan(Es, fat1, <<>>, Cmd)
<1>1. todo = <<>> /\ pc = now /\ ~failed
  BY DEF At, TreeInv
<1>2. /\ Es \in Entries /\ fat1 \in Tables /\ cur \in Starts
      /\ \E R, P : /\ AtRest(R, P)
                   /\ QuietPlan(Es, fat1, <<>>, Cmd) \/ MkdirPlan(Es, fat1, <<>>, Cmd)
      /\ QuietPlan(Es, fat1, <<>>, Cmd)
  BY <1>1, StageBegins
<1>3. Cmd.pc = now /\ Cmd.op = req.op /\ Cmd.loc = r.loc /\ Cmd.clu = r.clu /\ Cmd.cur = cur
  BY <1>1 DEF Cmd
<1> QED BY <1>1, <1>2, <1>3

\* ExtendDir keeps the tree.
LEMMA ExtendTree ==
  ASSUME FatInv, TreeInv, ExtendDir
  PROVE  TreeInv'
<1>1. PICK c \in FreeCluster :
        /\ At("slot") /\ FreeSlot = {} /\ cur # Root
        /\ Continue("slot", UpdateFat(ChainEnd(cur), c) \o UpdateFat(c, EOC) \o ClearCluster(c, 0), r)
  BY DEF ExtendDir
<1> DEFINE z == ChainEnd(cur)
           A == UpdateFat(z, c)
           U == UpdateFat(c, EOC)
           C == ClearCluster(c, 0)
           w == A \o U \o C
           k == After("slot", req, r)
<1>2. req.op # "mkdir"
  BY <1>1 DEF At, TreeInv
<1>3. /\ Es \in Entries /\ fat1 \in Tables /\ cur \in Starts /\ ~failed
      /\ Cmd.pc = "slot" /\ Cmd.op = req.op
      /\ \E R, P : AtRest(R, P) /\ QuietPlan(Es, fat1, <<>>, Cmd)
  BY <1>1, <1>2, QuietBegins
<1>4. PICK R, P : AtRest(R, P) /\ QuietPlan(Es, fat1, <<>>, Cmd)
  BY <1>3
<1>5. Balance(Es, fat1, {}, {}) /\ req.op = "create"
  <2> HIDE DEF Cmd
  <2> QED BY <1>3, <1>4 DEF QuietPlan, Settled, Left
<1>6. cur \in Data /\ cur \in 0 .. EOC /\ Ended(fat1, cur)
  BY <1>1, <1>3, <1>4, CurrentHas
<1>7. PICK o \in Props(Es) : Es[o].dir /\ Es[o].start = cur
  BY <1>1, <1>3, <1>4, CurrentHas
<1>8. z = EndIn(fat1, cur) /\ z \in 0 .. EOC
  BY <1>3, <1>6, HopIs, ChainEndIsData DEF ChainEnd, EndIn
<1>9. c \in Data /\ c \in 0 .. EOC /\ fat1[c] = 0 /\ EOC \in 0 .. EOC
  BY FreeClusterHas
<1> HIDE DEF z
<1>10. /\ A \in Seq(WriteSet) /\ A # <<>> /\ A[1] = FatWrite("fat1", z, c)
       /\ Parts(Tail(A)) = {FatWrite("fat2", z, c)}
       /\ U \in Seq(WriteSet) /\ Parts(U) = {FatWrite("fat1", c, EOC), FatWrite("fat2", c, EOC)}
       /\ C \in Seq(WriteSet) /\ Parts(C) = {SectorWrite(Sector(c, p), Cleared) : p \in 0 .. SPC - 1}
  <2>1. 0 \in 0 .. SPC
    BY Sizes
  <2> QED BY <1>8, <1>9, <2>1, PartsOfUpdate, PartsOfClear
<1> HIDE DEF A, U, C
<1>11. /\ w # <<>> /\ w[1] = FatWrite("fat1", z, c)
       /\ Parts(Tail(w)) = Parts(Tail(A)) \cup Parts(U) \cup Parts(C)
  <2> DEFINE b == A \o U
  <2>1. b \in Seq(WriteSet) /\ b # <<>> /\ b[1] = A[1] /\ Parts(Tail(b)) = Parts(Tail(A)) \cup Parts(U)
    BY <1>10, PartsOfJoin
  <2>2. w = b \o C
    OBVIOUS
  <2> HIDE DEF b
  <2>3. b \o C # <<>> /\ (b \o C)[1] = b[1] /\ Parts(Tail(b \o C)) = Parts(Tail(b)) \cup Parts(C)
    BY <1>10, <2>1, PartsOfJoin
  <2> QED BY <1>10, <2>1, <2>2, <2>3
<1> DEFINE v == Tail(w)
<1> HIDE DEF w
<1>12. k.pc = "slot" /\ k.op = "create"
  BY <1>5, AfterIs
<1> HIDE DEF k
<1>13. \A x \in Parts(v) : x.to = "fat2" \/ x = Mark(c) \/ Fills(x, Es[o], c, k)
  <2>1. ASSUME NEW x \in Parts(C) PROVE Fills(x, Es[o], c, k)
    BY <1>7, <1>9, <1>10, SectorFills
  <2>2. ASSUME NEW x \in Parts(U) \cup Parts(Tail(A)) PROVE x.to = "fat2" \/ x = Mark(c)
    BY <1>10 DEF Mark, FatWrite
  <2> QED BY <1>11, <2>1, <2>2
<1>14. Filling(Es[o], c, v, k)
  BY <1>13, ByParts
<1>15. Marks(c, v)
  <2>1. Mark(c) \in Parts(v)
    BY <1>10, <1>11 DEF Mark
  <2> QED BY <2>1, ByParts
<1>16. Covers(c, v)
  <2>1. \A p \in 0 .. SPC - 1 : \E x : SectorWrite(Sector(c, p), x) \in Parts(v)
    BY <1>10, <1>11
  <2> QED BY <1>9, <2>1, ByCovers
<1>17. LinkPlan(Es, fat1, w, k)
  <2>1. Es[o].start # 0
    BY <1>6, <1>7, KindsOfWrite
  <2>2. w[1] = FatWrite("fat1", EndIn(fat1, Es[o].start), c)
    BY <1>7, <1>8, <1>11
  <2> QED BY <1>5, <1>7, <1>9, <1>11, <1>12, <1>14, <1>15, <1>16, <2>1, <2>2 DEF LinkPlan
<1>18. Plan(Es, fat1, w, After("slot", req, r))
  BY <1>17 DEF Plan, k
<1>19. pc' = "slot" /\ todo' = w /\ r' = r /\ req' = req /\ UNCHANGED <<disk, cur, cwd, failed>>
  BY <1>1 DEF Continue, w, A, U, C, z
<1> QED BY <1>2, <1>3, <1>4, <1>18, <1>19, StageQueues

\* FreeNextCluster keeps the tree.
LEMMA FreeNextTree ==
  ASSUME FatInv, TreeInv, FreeNextCluster
  PROVE  TreeInv'
<1> DEFINE s     == r.clu
           stage == IF r.clu >= EOC THEN "end" ELSE "free"
           w     == UpdateFat(r.clu, 0)
           g     == [r EXCEPT !.clu = IF r.clu \in Table THEN fat1[r.clu] ELSE 0]
           k     == After(stage, req, g)
<1>1. At("free") /\ Continue(stage, w, g)
  BY DEF FreeNextCluster
<1>2. /\ Es \in Entries /\ fat1 \in Tables /\ ~failed
      /\ Cmd.pc = "free" /\ Cmd.clu = r.clu
      /\ \E R, P : AtRest(R, P) /\ QuietPlan(Es, fat1, <<>>, Cmd)
  BY <1>1, QuietBegins
<1>3. PICK R, P : AtRest(R, P) /\ QuietPlan(Es, fat1, <<>>, Cmd)
  BY <1>2
<1>4. /\ s = EOC \/ (s \in Data /\ Ended(fat1, s) /\ fat1[EndIn(fat1, s)] = EOC)
      /\ Balance(Es, fat1, ChainIn(fat1, s), {})
  <2> HIDE DEF Cmd
  <2> QED BY <1>2, <1>3 DEF QuietPlan, Settled, Left
<1>5. g.clu = (IF s \in Table THEN fat1[s] ELSE 0) /\ g.loc = r.loc
  BY DEF FatInv, CommandHas, RegSet
<1>6. pc' = stage /\ todo' = w /\ r' = g /\ req' = req /\ UNCHANGED <<disk, cur, cwd, failed>>
  BY <1>1 DEF Continue
<1>7. k.pc = stage /\ k.clu = g.clu
  <2> HIDE DEF stage, g
  <2> QED BY AfterIs
<1>8. stage # "slot"
  OBVIOUS
<1> HIDE DEF g, k
<1>9. 0 \in 0 .. EOC /\ s \in 0 .. EOC
  BY <1>4, Sizes
<1>10. /\ w # <<>> /\ w[1] = FatWrite("fat1", s, 0)
       /\ Parts(w) = {FatWrite("fat1", s, 0), FatWrite("fat2", s, 0)}
       /\ Parts(Tail(w)) = {FatWrite("fat2", s, 0)}
  BY <1>9, PartsOfUpdate
<1>11. CASE s = EOC
  <2>1. stage = "end"
    BY <1>11, Sizes
  <2>2. ChainIn(fat1, s) = {}
    BY <1>2, <1>9, <1>11, KindsOfWrite, ChainParts
  <2>3. Quiet(w)
    <3>1. \A x \in Parts(w) : Inert(x)
      BY <1>10, <1>11, KindsOfWrite DEF Inert, FatWrite
    <3> HIDE DEF w
    <3> QED BY <3>1, ByParts
  <2>4. QuietPlan(Es, fat1, w, k)
    BY <1>4, <1>7, <2>1, <2>2, <2>3 DEF QuietPlan, Settled, Left
  <2>5. Plan(Es, fat1, w, After(stage, req, g))
    BY <2>4 DEF Plan, k
  <2> HIDE DEF w, stage
  <2> QED BY <1>2, <1>3, <1>6, <1>8, <2>5, StageQueues
<1>12. CASE s \in Data
  <2> DEFINE n == fat1[s]
  <2>1. stage = "free" /\ s \in Table
    BY <1>12, Sizes
  <2>2. g.clu = n /\ n \in 0 .. EOC
    BY <1>2, <1>5, <2>1, Sizes DEF Tables
  <2>3. Ended(fat1, s) /\ fat1[EndIn(fat1, s)] = EOC
    BY <1>4, <1>12, KindsOfWrite
  <2>4. /\ ChainIn(fat1, s) = {s} \cup ChainIn(fat1, n) /\ s \notin ChainIn(fat1, n)
        /\ n \in Data => Ended(fat1, n)
    BY <1>2, <1>12, <2>3, ChainBehind
  <2>5. n \notin Data => n = EOC
    <3> SUFFICES ASSUME n \notin Data PROVE n = EOC
      OBVIOUS
    <3>1. EndIn(fat1, s) = s
      BY <1>2, <1>12, ChainOfOne
    <3> QED BY <2>3, <3>1
  <2> HIDE DEF n
  <2>6. n \in Data => fat1[EndIn(fat1, n)] = EOC
    <3> SUFFICES ASSUME n \in Data PROVE fat1[EndIn(fat1, n)] = EOC
      OBVIOUS
    <3>1. EndIn(fat1, n) \in ChainIn(fat1, n) /\ fat1[EndIn(fat1, n)] \in {0, EOC}
      BY <1>2, <2>2, <2>4, ChainParts DEF Ended
    <3>2. EndIn(fat1, n) \in InUse(fat1)
      BY <1>4, <2>4, <3>1 DEF Balance
    <3> QED BY <3>1, <3>2 DEF InUse
  <2>7. Settled(Es, fat1, k) /\ Left(fat1, k) = ChainIn(fat1, n) /\ k.pc = "free"
    BY <1>7, <2>1, <2>2, <2>4, <2>5, <2>6 DEF Settled, Left
  <2>8. w[1].to = "fat1" /\ w[1].v = 0 /\ w[1].c = s
    BY <1>10, KindsOfWrite
  <2>9. Quiet(Tail(w))
    <3>1. \A x \in Parts(Tail(w)) : Inert(x)
      BY <1>10 DEF Inert, FatWrite
    <3> HIDE DEF w
    <3> QED BY <3>1, ByParts
  <2>10. FreePlan(Es, fat1, w, k)
    <3> HIDE DEF w
    <3> QED BY <1>4, <1>10, <1>12, <2>4, <2>7, <2>8, <2>9 DEF FreePlan
  <2>11. Plan(Es, fat1, w, After(stage, req, g))
    BY <2>10 DEF Plan, k
  <2> HIDE DEF w, stage
  <2> QED BY <1>2, <1>3, <1>6, <1>8, <2>11, StageQueues
<1> QED BY <1>4, <1>11, <1>12


-----------------------------------------------------------------------------
(* The stages of an append.                                                *)

\* The file that grows.
LEMMA AppendHas ==
  ASSUME FatInv, TreeInv, NEW now, now \in {"first", "walk", "fill", "link"}, At(now)
  PROVE  /\ Es \in Entries /\ fat1 \in Tables /\ ~failed
         /\ r.loc \in Props(Es) /\ r.loc \in LocSet /\ ~Es[r.loc].dir /\ Entry(r.loc) = Es[r.loc]
         /\ r.loc \in In(fat1, cur) /\ Es[r.loc].name = req.name
         /\ now = "first" => Es[r.loc].start = 0
         /\ now = "walk" => Es[r.loc].start = r.clu /\ r.clu # 0
         /\ now \in {"fill", "link"} =>
              Es[r.loc].start # 0 /\ r.clu = EndIn(fat1, Es[r.loc].start)
         /\ Balance(Es, fat1, {}, {})
         /\ \E R, P : AtRest(R, P)
<1>1. /\ Es \in Entries /\ fat1 \in Tables /\ ~failed
      /\ Cmd.pc = now /\ Cmd.loc = r.loc /\ Cmd.clu = r.clu
      /\ \E R, P : AtRest(R, P) /\ QuietPlan(Es, fat1, <<>>, Cmd)
  BY QuietBegins
<1>2. QuietPlan(Es, fat1, <<>>, Cmd) /\ \E R, P : AtRest(R, P)
  BY <1>1
<1>6. Cmd.cur = cur /\ Cmd.name = req.name
  BY DEF Cmd
<1> HIDE DEF Cmd
<1>3. Settled(Es, fat1, Cmd) /\ Balance(Es, fat1, {}, {})
  BY <1>1, <1>2 DEF QuietPlan, Left
<1>4. /\ r.loc \in Props(Es) /\ ~Es[r.loc].dir
      /\ r.loc \in In(fat1, cur) /\ Es[r.loc].name = req.name
  BY <1>1, <1>3, <1>6 DEF Settled, Aimed
<1>5. r.loc \in LocSet /\ Entry(r.loc) = Es[r.loc]
  BY <1>4, EsHas DEF Props, FatInv
<1> QED BY <1>1, <1>2, <1>3, <1>4, <1>5 DEF Settled

\* The writes of two queues, in their order.
LEMMA Joined ==
  ASSUME NEW s \in Seq(WriteSet), NEW u \in Seq(WriteSet)
  PROVE  /\ Len(s \o u) = Len(s) + Len(u)
         /\ \A j \in 1 .. Len(s) : (s \o u)[j] = s[j]
         /\ \A j \in 1 .. Len(u) : (s \o u)[Len(s) + j] = u[j]
OBVIOUS

\* FirstCluster keeps the tree.
LEMMA FirstTree ==
  ASSUME FatInv, TreeInv, FirstCluster
  PROVE  TreeInv'
<1>1. At("first")
  BY DEF FirstCluster
<1>2. CASE Finish(ErrDiskFull)
  BY <1>1, <1>2, FinishTree
<1>3. CASE ~Finish(ErrDiskFull)
  <2>1. PICK c \in FreeCluster :
          Continue("walk",
            UpdateFat(c, EOC) \o <<EntryWrite(r.loc, [Entry(r.loc) EXCEPT !.start = c])>>,
            [r EXCEPT !.clu = c])
    BY <1>3 DEF FirstCluster
  <2>2. /\ Es \in Entries /\ fat1 \in Tables /\ ~failed
        /\ r.loc \in Props(Es) /\ r.loc \in LocSet /\ ~Es[r.loc].dir /\ Entry(r.loc) = Es[r.loc]
        /\ Es[r.loc].start = 0 /\ Balance(Es, fat1, {}, {})
        /\ r.loc \in In(fat1, cur) /\ Es[r.loc].name = req.name
        /\ \E R, P : AtRest(R, P)
    BY <1>1, AppendHas
  <2>3. PICK R, P : AtRest(R, P)
    BY <2>2
  <2>4. c \in Data /\ c \in 0 .. EOC /\ fat1[c] = 0 /\ EOC \in 0 .. EOC /\ c # Root
    BY FreeClusterHas
  <2> DEFINE U == UpdateFat(c, EOC)
             x == EntryWrite(r.loc, [Es[r.loc] EXCEPT !.start = c])
             w == U \o <<x>>
             g == [r EXCEPT !.clu = c]
             k == After("walk", req, g)
  <2>5. pc' = "walk" /\ todo' = w /\ r' = g /\ req' = req /\ UNCHANGED <<disk, cur, cwd, failed>>
    BY <2>1, <2>2 DEF Continue
  <2>6. g.clu = c /\ g.loc = r.loc
    BY DEF FatInv, CommandHas, RegSet
  <2>7. k.pc = "walk" /\ k.clu = c /\ k.loc = r.loc /\ k.cur = cur /\ k.name = req.name
    <3> HIDE DEF g
    <3> QED BY <2>6, AfterIs
  <2> HIDE DEF g, k
  <2>8. /\ U \in Seq(WriteSet) /\ Len(U) = 2 /\ U[1] = Mark(c)
        /\ Parts(U) = {FatWrite("fat1", c, EOC), FatWrite("fat2", c, EOC)}
    BY <2>4, PartsOfUpdate DEF Mark
  <2>9. x \in WriteSet
    <3>1. [Es[r.loc] EXCEPT !.start = c] \in EntrySet
      BY <2>2, <2>4, EntryParts, EntriesAre DEF Starts
    <3> QED BY <2>2, <3>1, EntryWriteHas
  <2> HIDE DEF U, x
  <2>10. /\ Len(w) = 3 /\ w[3] = x /\ w # <<>>
         /\ \A j \in 1 .. Len(w) - 1 : w[j] = U[j] /\ U[j] \in Parts(U)
         /\ w[1] = Mark(c)
    <3> DEFINE b == <<x>>
    <3>1. b \in Seq(WriteSet) /\ Len(b) = 1 /\ b[1] = x /\ w = U \o b
      BY <2>9
    <3> HIDE DEF b, w
    <3>2. Len(w) = 3 /\ w[3] = x /\ \A j \in 1 .. 2 : w[j] = U[j]
      <4>1. /\ Len(U \o b) = Len(U) + Len(b)
            /\ \A j \in 1 .. Len(U) : (U \o b)[j] = U[j]
            /\ \A j \in 1 .. Len(b) : (U \o b)[Len(U) + j] = b[j]
        BY <2>8, <3>1, Joined
      <4>2. 1 \in 1 .. Len(b) /\ Len(U) + 1 = 3 /\ Len(U) + Len(b) = 3
        BY <2>8, <3>1
      <4>3. w[3] = b[1]
        BY <3>1, <4>1, <4>2
      <4> QED BY <2>8, <3>1, <4>1, <4>2, <4>3
    <3>3. w # <<>>
      <4>1. Len(<<>>) = 0
        OBVIOUS
      <4> QED BY <3>2, <4>1
    <3>4. w[1] = Mark(c)
      BY <2>8, <3>2
    <3> QED BY <2>8, <3>2, <3>3, <3>4 DEF Parts
  <2> HIDE DEF w
  <2>11. \A j \in 1 .. Len(w) - 1 : w[j].to = "fat2" \/ w[j] = Mark(c)
    <3>1. \A y \in Parts(U) : y.to = "fat2" \/ y = Mark(c)
      BY <2>8 DEF Mark, FatWrite
    <3> QED BY <2>10, <3>1
  <2>12. Marks(c, w)
    <3>1. 1 \in 1 .. Len(w)
      BY <2>10
    <3> QED BY <2>10, <3>1 DEF Marks
  <2>13. c \notin Taken(Es, fat1) /\ {y \in {c} : fat1[y] # 0} = {}
    <3>1. c \notin InUse(fat1)
      BY <2>4 DEF InUse
    <3> QED BY <2>2, <2>4, <3>1 DEF Balance
  <2>14. FirstPlan(Es, fat1, w, k)
    <3>1. w[Len(w)] = EntryWrite(k.loc, [Es[k.loc] EXCEPT !.start = c])
      BY <2>7, <2>10 DEF x
    <3> QED BY <2>2, <2>4, <2>7, <2>10, <2>11, <2>12, <2>13, <3>1 DEF FirstPlan, Aimed
  <2>15. Plan(Es, fat1, w, After("walk", req, g))
    BY <2>14 DEF Plan, k
  <2> QED BY <2>2, <2>3, <2>5, <2>15, StageQueues
<1> QED BY <1>2, <1>3

\* FindEnd keeps the tree.
LEMMA FindEndTree ==
  ASSUME FatInv, TreeInv, FindEnd
  PROVE  TreeInv'
<1>1. PICK stage, g :
        /\ At("walk") /\ Continue(stage, <<>>, g) /\ stage \in {"link", "fill"}
        /\ g.clu = ChainEnd(r.clu) /\ g.loc = r.loc
  <2> DEFINE have == r.have - (ChainLength(r.clu) - 1) * CU
             pos  == (have \div SU) % (ByteRange \div 2)
             cnt  == (SPC - pos) % ByteRange
             h    == [r EXCEPT !.clu = ChainEnd(@), !.have = 0,
                     !.pos = pos, !.cnt = cnt, !.off = have % SU]
             to   == IF cnt = 0 THEN "link" ELSE "fill"
  <2>1. At("walk") /\ Continue(to, <<>>, h)
    BY DEF FindEnd
  <2>2. to \in {"link", "fill"}
    OBVIOUS
  <2> HIDE DEF have, pos, cnt
  <2>3. h.clu = ChainEnd(r.clu) /\ h.loc = r.loc
    BY DEF FatInv, CommandHas, RegSet
  <2> HIDE DEF h, to
  <2> QED BY <2>1, <2>2, <2>3
<1>2. /\ Es \in Entries /\ fat1 \in Tables /\ ~failed
      /\ r.loc \in Props(Es) /\ ~Es[r.loc].dir
      /\ Es[r.loc].start = r.clu /\ r.clu # 0 /\ Balance(Es, fat1, {}, {})
      /\ r.loc \in In(fat1, cur) /\ Es[r.loc].name = req.name
      /\ \E R, P : AtRest(R, P)
  BY <1>1, AppendHas
<1>3. PICK R, P : AtRest(R, P)
  BY <1>2
<1> DEFINE k == After(stage, req, g)
<1>4. k.pc = stage /\ k.clu = g.clu /\ k.loc = r.loc /\ k.cur = cur /\ k.name = req.name
  BY <1>1, AfterIs
<1> HIDE DEF k
<1>5. g.clu = EndIn(fat1, r.clu)
  BY <1>1, HopIs DEF ChainEnd, EndIn
<1>6. QuietPlan(Es, fat1, <<>>, k)
  <2>1. Settled(Es, fat1, k) /\ Left(fat1, k) = {}
    BY <1>1, <1>2, <1>4, <1>5 DEF Settled, Left, Aimed
  <2>2. Quiet(<<>>)
    BY DEF Quiet
  <2> QED BY <1>2, <2>1, <2>2 DEF QuietPlan
<1>7. Plan(Es, fat1, <<>>, After(stage, req, g))
  BY <1>6 DEF Plan, k
<1>8. pc' = stage /\ todo' = <<>> /\ r' = g /\ req' = req /\ UNCHANGED <<disk, cur, cwd, failed>>
  BY <1>1 DEF Continue
<1> QED BY <1>1, <1>2, <1>3, <1>7, <1>8, StageQueues

\* FillSector keeps the tree.
LEMMA FillTree ==
  ASSUME FatInv, TreeInv, FillSector
  PROVE  TreeInv'
<1>1. PICK stage, g, u :
        /\ At("fill") /\ stage \in {"end", "link", "fill"}
        /\ Continue(stage, <<SectorWrite(Sector(r.clu, r.pos), DataSector(u))>>, g)
        /\ g.clu = r.clu /\ g.loc = r.loc
  <2> DEFINE s   == Sector(r.clu, r.pos)
             n   == IF r.left < SU - r.off THEN r.left ELSE SU - r.off
             old == IF r.off = 0 \/ s \notin Sectors THEN Cleared.units ELSE sector[s].units
             cnt == (r.cnt - 1) % ByteRange
             to  == IF r.left = n THEN "end" ELSE IF cnt = 0 THEN "link" ELSE "fill"
             x   == Filled(old, Len(req.data) - r.left, n)
             h   == [r EXCEPT !.pos = @ + 1, !.cnt = cnt, !.off = 0, !.left = @ - n]
  <2>1. At("fill") /\ Continue(to, <<SectorWrite(s, x)>>, h)
    BY DEF FillSector
  <2>2. to \in {"end", "link", "fill"}
    OBVIOUS
  <2> HIDE DEF n, old, cnt
  <2>3. h.clu = r.clu /\ h.loc = r.loc
    BY DEF FatInv, CommandHas, RegSet
  <2>4. \E u : x = DataSector(u)
    BY DEF Filled
  <2> HIDE DEF to, x, h
  <2> QED BY <2>1, <2>2, <2>3, <2>4
<1>2. /\ Es \in Entries /\ fat1 \in Tables /\ ~failed
      /\ r.loc \in Props(Es) /\ ~Es[r.loc].dir
      /\ Es[r.loc].start # 0 /\ r.clu = EndIn(fat1, Es[r.loc].start)
      /\ r.loc \in In(fat1, cur) /\ Es[r.loc].name = req.name
      /\ Balance(Es, fat1, {}, {})
      /\ \E R, P : AtRest(R, P)
  BY <1>1, AppendHas
<1>3. PICK R, P : AtRest(R, P)
  BY <1>2
<1>4. r.pos \in 0 .. SPC - 1
  BY <1>1, Sizes DEF At, FatInv, StageHas, Needs, CommandHas, RegSet
<1> DEFINE k == After(stage, req, g)
           c == r.clu
           o == r.loc
           x == SectorWrite(Sector(c, r.pos), DataSector(u))
           w == <<x>>
<1>5. k.pc = stage /\ k.clu = c /\ k.loc = o /\ k.cur = cur /\ k.name = req.name
  BY <1>1, AfterIs
<1> HIDE DEF k
<1>6. c \in Data /\ c \in Taken(Es, fat1)
  BY <1>2, <1>3, EndHas DEF AtRest
<1>7. fat1[c] # 0
  BY <1>2, <1>6 DEF Balance, InUse
<1>8. Filling(Es[o], c, w, k)
  <2>1. Fills(x, Es[o], c, k)
    BY <1>2, <1>4, <1>6, SectorFills
  <2> HIDE DEF x
  <2>2. Parts(w) = {x}
    BY DEF Parts
  <2> HIDE DEF w
  <2> QED BY <2>1, <2>2, ByParts
<1>9. \A l \in Props(Es) : l.c # c
  <2> SUFFICES ASSUME NEW l \in Props(Es), l.c = c PROVE FALSE
    OBVIOUS
  <2>1. PICK d \in Dirs(R) : l \in In(fat1, d)
    BY <1>3 DEF AtRest, Shape, Lies
  <2> QED BY <1>2, <1>3, <2>1, InLast DEF AtRest
<1>10. {y \in {c} : fat1[y] = 0} = {}
  BY <1>7
<1>11. Settled(Es, fat1, k)
  BY <1>1, <1>2, <1>5 DEF Settled, Aimed
<1>12. FillPlan(Es, fat1, w, k)
  <2>1. k.pc \in {"slot", "fill", "link", "end"}
    BY <1>1, <1>5
  <2>2. Aimed(Es, fat1, k, o)
    BY <1>2, <1>5 DEF Aimed
  <2> HIDE DEF w
  <2> QED BY <1>2, <1>6, <1>7, <1>8, <1>9, <1>10, <1>11, <2>1, <2>2 DEF FillPlan
<1>13. Plan(Es, fat1, w, After(stage, req, g))
  BY <1>12 DEF Plan, k
<1>14. pc' = stage /\ todo' = w /\ r' = g /\ req' = req /\ UNCHANGED <<disk, cur, cwd, failed>>
  BY <1>1 DEF Continue
<1> HIDE DEF w
<1> QED BY <1>1, <1>2, <1>3, <1>13, <1>14, StageQueues

\* LinkCluster keeps the tree.
LEMMA LinkTree ==
  ASSUME FatInv, TreeInv, LinkCluster
  PROVE  TreeInv'
<1>1. At("link")
  BY DEF LinkCluster
<1>2. CASE Finish(ErrDiskFull)
  BY <1>1, <1>2, FinishTree
<1>3. CASE ~Finish(ErrDiskFull)
  <2>1. PICK c \in FreeCluster :
          Continue("fill", UpdateFat(r.clu, c) \o UpdateFat(c, EOC),
            [r EXCEPT !.clu = c, !.pos = 0, !.cnt = SPC])
    BY <1>3 DEF LinkCluster
  <2>2. /\ Es \in Entries /\ fat1 \in Tables /\ ~failed
        /\ r.loc \in Props(Es) /\ ~Es[r.loc].dir
        /\ Es[r.loc].start # 0 /\ r.clu = EndIn(fat1, Es[r.loc].start)
        /\ r.loc \in In(fat1, cur) /\ Es[r.loc].name = req.name
        /\ Balance(Es, fat1, {}, {})
        /\ \E R, P : AtRest(R, P)
    BY <1>1, AppendHas
  <2>3. PICK R, P : AtRest(R, P)
    BY <2>2
  <2>4. c \in Data /\ c \in 0 .. EOC /\ fat1[c] = 0 /\ EOC \in 0 .. EOC /\ c # Root
    BY FreeClusterHas
  <2> DEFINE z == r.clu
             A == UpdateFat(z, c)
             U == UpdateFat(c, EOC)
             w == A \o U
             g == [r EXCEPT !.clu = c, !.pos = 0, !.cnt = SPC]
             k == After("fill", req, g)
  <2>5. pc' = "fill" /\ todo' = w /\ r' = g /\ req' = req /\ UNCHANGED <<disk, cur, cwd, failed>>
    BY <2>1 DEF Continue
  <2>6. g.clu = c /\ g.loc = r.loc
    BY DEF FatInv, CommandHas, RegSet
  <2>7. k.pc = "fill" /\ k.clu = c /\ k.loc = r.loc /\ k.cur = cur /\ k.name = req.name
    <3> HIDE DEF g
    <3> QED BY <2>6, AfterIs
  <2> HIDE DEF g, k
  <2>8. z \in 0 .. EOC
    BY DEF FatInv, CommandHas, RegSet
  <2>9. /\ A \in Seq(WriteSet) /\ A # <<>> /\ A[1] = FatWrite("fat1", z, c)
        /\ Parts(Tail(A)) = {FatWrite("fat2", z, c)}
        /\ U \in Seq(WriteSet) /\ Parts(U) = {FatWrite("fat1", c, EOC), FatWrite("fat2", c, EOC)}
    BY <2>4, <2>8, PartsOfUpdate
  <2> HIDE DEF A, U
  <2>10. /\ w # <<>> /\ w[1] = FatWrite("fat1", z, c)
         /\ Parts(Tail(w)) = Parts(Tail(A)) \cup Parts(U)
    BY <2>9, PartsOfJoin
  <2> HIDE DEF w
  <2>11. Filling(Es[r.loc], c, Tail(w), k) /\ Marks(c, Tail(w))
    <3>1. \A y \in Parts(Tail(w)) : y.to = "fat2" \/ y = Mark(c) \/ Fills(y, Es[r.loc], c, k)
      BY <2>9, <2>10 DEF Mark, FatWrite
    <3>2. Mark(c) \in Parts(Tail(w))
      BY <2>9, <2>10 DEF Mark
    <3> QED BY <3>1, <3>2, ByParts
  <2>12. LinkPlan(Es, fat1, w, k)
    BY <2>2, <2>4, <2>7, <2>10, <2>11 DEF LinkPlan, Aimed
  <2>13. Plan(Es, fat1, w, After("fill", req, g))
    BY <2>12 DEF Plan, k
  <2>14. pc' # "slot"
    BY <2>5
  <2> QED BY <2>2, <2>3, <2>5, <2>13, <2>14, StageQueues DEF w, A, U
<1> QED BY <1>2, <1>3


-----------------------------------------------------------------------------
(* The commands.                                                           *)

\* What a command finds.
LEMMA ReadyHas ==
  ASSUME FatInv, TreeInv, Ready
  PROVE  /\ Es \in Entries /\ fat1 \in Tables /\ cur \in Starts /\ ~failed
         /\ Balance(Es, fat1, {}, {})
         /\ \E R, P : AtRest(R, P)
<1>1. ~failed /\ pc = "idle" /\ todo = <<>>
  BY DEF Ready, Idle, FatInv, StageHas, Needs
<1>2. /\ Es \in Entries /\ fat1 \in Tables /\ cur \in Starts
      /\ QuietPlan(Es, fat1, <<>>, Cmd) /\ \E R, P : AtRest(R, P)
  BY <1>1, StageBegins
<1>3. Balance(Es, fat1, {}, {})
  <2>1. Cmd.pc = "idle"
    BY <1>1 DEF Cmd
  <2> HIDE DEF Cmd
  <2> QED BY <1>2, <2>1 DEF QuietPlan, Left
<1> QED BY <1>1, <1>2, <1>3

\* A command that begins with a plan keeps the tree.
LEMMA BeginTree ==
  ASSUME FatInv, TreeInv, NEW q, NEW stage, NEW w, NEW g, Begin(q, stage, w, g),
         Plan(Es, fat1, w, After(stage, q, g)),
         stage = "slot" /\ q.op = "mkdir" => cur = Root \/ FreeSlot # {}
  PROVE  TreeInv'
<1>1. /\ Ready /\ pc' = stage /\ todo' = w /\ r' = g /\ req' = q
      /\ UNCHANGED <<disk, cur, cwd, failed>>
  BY DEF Begin
<1>2. ~failed /\ \E R, P : AtRest(R, P)
  BY <1>1, ReadyHas
<1>3. PICK R, P : AtRest(R, P)
  BY <1>2
<1> QED BY <1>1, <1>2, <1>3, StageQueues

\* The parts of a request.
LEMMA RequestIs ==
  ASSUME NEW op, NEW n
  PROVE  /\ Req(op, n).op = op /\ Req(op, n).name = n
         /\ \A x : [Req(op, n) EXCEPT !.new = x].name = n
         /\ \A x : [Req(op, n) EXCEPT !.data = x].name = n
BY DEF Req, NoReq

\* CreateFile keeps the tree.
LEMMA CreateFileTree ==
  ASSUME FatInv, TreeInv, NEW n, CreateFile(n)
  PROVE  TreeInv'
<1> DEFINE q == Req("create", n)
<1>1. Refuse(q, ErrExists) \/ Begin(q, "slot", <<>>, NoRegs)
  BY DEF CreateFile
<1>2. CASE Refuse(q, ErrExists)
  BY <1>2, AnswerTree DEF Refuse
<1>3. CASE Begin(q, "slot", <<>>, NoRegs)
  <2>1. q.op = "create" /\ Ready
    BY <1>3, RequestIs DEF Begin
  <2>2. Balance(Es, fat1, {}, {})
    BY <2>1, ReadyHas
  <2> HIDE DEF q
  <2> DEFINE k == After("slot", q, NoRegs)
  <2>3. k.pc = "slot" /\ k.op = "create"
    BY <2>1, AfterIs
  <2> HIDE DEF k
  <2>4. Plan(Es, fat1, <<>>, k)
    BY <2>2, <2>3 DEF Plan, QuietPlan, Quiet, Settled, Left
  <2> QED BY <1>3, <2>1, <2>4, BeginTree DEF k
<1> QED BY <1>1, <1>2, <1>3

\* MakeDir keeps the tree, if the directory it is in has room.
LEMMA MakeDirTree ==
  ASSUME ~MkdirInFullDir, FatInv, TreeInv, NEW n, MakeDir(n)
  PROVE  TreeInv'
<1> DEFINE q == Req("mkdir", n)
<1>1. CASE Refuse(q, ErrExists) \/ Refuse(q, ErrDiskFull)
  BY <1>1, AnswerTree DEF Refuse
<1>2. ASSUME NEW c \in FreeCluster, Begin(q, "slot", <<>>, [NoRegs EXCEPT !.nfc = c])
      PROVE  TreeInv'
  <2> DEFINE g == [NoRegs EXCEPT !.nfc = c]
             k == After("slot", q, g)
  <2>1. q.op = "mkdir" /\ Ready
    BY <1>2, RequestIs DEF Begin
  <2>2. Balance(Es, fat1, {}, {})
    BY <2>1, ReadyHas
  <2>3. c \in Data /\ fat1[c] = 0
    BY FreeClusterHas
  <2>4. g.nfc = c
    BY DEF NoRegs
  <2> HIDE DEF q, g
  <2>5. k.pc = "slot" /\ k.op = "mkdir" /\ k.nfc = c /\ k.depth = Len(cwd)
    BY <2>1, <2>4, AfterIs
  <2> HIDE DEF k
  <2>6. Len(cwd) < MaxDepth /\ (cur = Root \/ FreeSlot # {})
    BY DEF MakeDir
  <2>7. Plan(Es, fat1, <<>>, k)
    BY <2>2, <2>3, <2>5, <2>6 DEF Plan, MkdirPlan
  <2> QED BY <1>2, <2>6, <2>7, BeginTree DEF k, g
<1> QED BY <1>1, <1>2 DEF MakeDir

\* What a search for a name finds.
LEMMA FoundProper ==
  ASSUME FatInv, TreeInv, Ready, NEW n \in Names, NEW loc \in Found(n)
  PROVE  /\ loc \in Props(Es) /\ loc \in In(fat1, cur) /\ loc \in LocSet
         /\ Entry(loc) = Es[loc] /\ Es[loc].name = n /\ Es[loc] \in EntrySet
<1>1. DiskHas /\ cur \in Starts
  BY DEF FatInv, CommandHas
<1>2. loc \in In(fat1, cur) /\ loc \in LocSet /\ Es[loc].name = n /\ Entry(loc) = Es[loc]
  BY <1>1, FoundIs
<1>3. Proper(Es[loc])
  BY <1>2, NamesAreNames DEF Proper, Special
<1>4. Es[loc] \in EntrySet
  BY <1>1, <1>2, EsHas, EntryParts
<1> QED BY <1>2, <1>3, <1>4 DEF Props

\* Delete keeps the tree.
LEMMA DeleteTree ==
  ASSUME FatInv, TreeInv, NEW n \in Names, NEW loc \in Found(n), NEW q, q.name = n,
         Entry(loc).dir => DirIsEmpty(Entry(loc).start), Delete(q, loc)
  PROVE  TreeInv'
<1> DEFINE stage == IF Entry(loc).start = 0 THEN "end" ELSE "free"
           g == [NoRegs EXCEPT !.clu = Entry(loc).start]
           w == <<EntryWrite(loc, Deleted)>>
           k == After(stage, q, g)
<1>1. Begin(q, stage, w, g)
  BY DEF Delete
<1>2. Ready
  BY <1>1 DEF Begin
<1>3. /\ loc \in Props(Es) /\ loc \in In(fat1, cur) /\ loc \in LocSet /\ Entry(loc) = Es[loc]
      /\ Es[loc].name = n
  BY <1>2, FoundProper
<1>4. Balance(Es, fat1, {}, {}) /\ Es \in Entries
  BY <1>2, ReadyHas
<1>5. Es[loc].dir => \A l \in In(fat1, Es[loc].start) : ~Proper(Es[l])
  <2>1. Es[loc].start \in Starts
    BY <1>3, <1>4, EntryParts
  <2> QED BY <1>3, <2>1, EmptyIs DEF FatInv
<1>6. g.clu = Es[loc].start
  BY <1>3 DEF NoRegs
<1>7. stage = (IF Es[loc].start = 0 THEN "end" ELSE "free") /\ stage # "slot"
  BY <1>3
<1> HIDE DEF g, stage, w
<1>8. k.pc = stage /\ k.cur = cur /\ k.clu = Es[loc].start /\ k.name = n
  BY <1>6, AfterIs
<1> HIDE DEF k
<1>9. ErasePlan(Es, fat1, w, k)
  BY <1>3, <1>4, <1>5, <1>7, <1>8 DEF ErasePlan, Aimed, w
<1>10. Plan(Es, fat1, w, k)
  BY <1>9 DEF Plan
<1> QED BY <1>1, <1>7, <1>10, BeginTree DEF k

\* EraseFile and DeleteDir keep the tree.
LEMMA EraseTree ==
  ASSUME FatInv, TreeInv, NEW n \in Names, EraseFile(n) \/ DeleteDir(n)
  PROVE  TreeInv'
<1>1. CASE \E q, err : Refuse(q, err)
  BY <1>1, AnswerTree DEF Refuse
<1>2. CASE ~\E q, err : Refuse(q, err)
  <2>1. PICK loc \in Found(n) :
          \E q : /\ Entry(loc).dir => DirIsEmpty(Entry(loc).start)
                 /\ q.name = n /\ Delete(q, loc)
    BY <1>2, RequestIs DEF EraseFile, DeleteDir
  <2>2. PICK q : /\ Entry(loc).dir => DirIsEmpty(Entry(loc).start)
                 /\ q.name = n /\ Delete(q, loc)
    BY <2>1
  <2> QED BY <2>1, <2>2, DeleteTree
<1> QED BY <1>1, <1>2

\* Rename keeps the tree.
LEMMA RenameTree ==
  ASSUME FatInv, TreeInv, NEW n \in Names, NEW new \in Names, Rename(n, new)
  PROVE  TreeInv'
<1>1. CASE \E q, err : Refuse(q, err)
  BY <1>1, AnswerTree DEF Refuse
<1>2. CASE ~\E q, err : Refuse(q, err)
  <2> DEFINE q == [Req("rename", n) EXCEPT !.new = new]
  <2>0. q.name = n
    BY RequestIs
  <2>1. PICK loc \in Found(n) :
          /\ Begin(q, "end", <<EntryWrite(loc, [Entry(loc) EXCEPT !.name = new])>>, NoRegs)
    BY <1>2 DEF Rename
  <2> HIDE DEF q
  <2>2. Ready
    BY <2>1 DEF Begin
  <2>3. /\ loc \in Props(Es) /\ Entry(loc) = Es[loc] /\ Es[loc] \in EntrySet
        /\ loc \in In(fat1, cur) /\ Es[loc].name = n
    BY <2>2, FoundProper
  <2>4. Balance(Es, fat1, {}, {})
    BY <2>2, ReadyHas
  <2> DEFINE e == [Es[loc] EXCEPT !.name = new]
             w == <<EntryWrite(loc, e)>>
             k == After("end", q, NoRegs)
  <2>5. e \in EntrySet
    BY <2>3, EntriesAre
  <2>6. e.start = Es[loc].start /\ e.dir = Es[loc].dir /\ e.name = new
    BY <2>3 DEF EntrySet
  <2>7. Begin(q, "end", w, NoRegs)
    BY <2>1, <2>3
  <2>8. k.pc = "end" /\ k.cur = cur /\ k.name = n
    BY <2>0, AfterIs
  <2> HIDE DEF k, e
  <2>9. Proper(e)
    BY <2>6, NamesAreNames DEF Proper, Special
  <2>10. OverPlan(Es, fat1, w, k)
    BY <2>3, <2>4, <2>5, <2>6, <2>8, <2>9 DEF OverPlan, Settled, Aimed
  <2>11. Plan(Es, fat1, w, k)
    BY <2>10 DEF Plan
  <2> HIDE DEF w
  <2> QED BY <2>7, <2>11, BeginTree DEF k
<1> QED BY <1>1, <1>2

\* AppendTo keeps the tree.
LEMMA AppendTree ==
  ASSUME FatInv, TreeInv, NEW n \in Names, NEW data \in AppendData,
         AppendTo(n, data)
  PROVE  TreeInv'
<1>1. CASE \E q, err : Refuse(q, err)
  BY <1>1, AnswerTree DEF Refuse
<1>2. CASE ~\E q, err : Refuse(q, err)
  <2> DEFINE G(loc) == [NoRegs EXCEPT !.loc = loc, !.clu = Entry(loc).start,
                                     !.have = Entry(loc).len, !.left = Len(data)]
             StageOf(loc) == IF Entry(loc).start = 0 THEN "first" ELSE "walk"
             New(loc) == [Entry(loc) EXCEPT !.len = @ + Len(data)]
  <2> DEFINE q == [Req("append", n) EXCEPT !.data = data]
  <2>0. q.name = n
    BY RequestIs
  <2>1. PICK loc \in Found(n) :
          /\ ~Entry(loc).dir
          /\ Begin(q, StageOf(loc), <<EntryWrite(loc, New(loc))>>, G(loc))
    BY <1>2 DEF AppendTo
  <2> HIDE DEF q
  <2>2. Ready
    BY <2>1 DEF Begin
  <2>3. /\ loc \in Props(Es) /\ Entry(loc) = Es[loc] /\ Es[loc].name = n /\ Es[loc] \in EntrySet
        /\ loc \in In(fat1, cur)
    BY <2>2, FoundProper
  <2>4. Balance(Es, fat1, {}, {})
    BY <2>2, ReadyHas
  <2> DEFINE e == New(loc)
             g == G(loc)
             stage == StageOf(loc)
             w == <<EntryWrite(loc, e)>>
             k == After(stage, q, g)
  <2>5. e \in EntrySet /\ Len(data) \in Nat
    <3>1. Len(data) \in Nat
      BY Fat16Assumption, LenProperties
    <3> QED BY <2>3, <3>1, EntriesAre
  <2>6. e.start = Es[loc].start /\ e.dir = Es[loc].dir /\ e.name = n
    BY <2>3, <2>5 DEF EntrySet
  <2>7. g.loc = loc /\ g.clu = Es[loc].start
    BY <2>3 DEF NoRegs
  <2>8. stage = (IF Es[loc].start = 0 THEN "first" ELSE "walk") /\ stage # "slot"
    BY <2>3
  <2>9. Begin(q, stage, w, g)
    BY <2>1
  <2> HIDE DEF e, g, stage
  <2>10. /\ k.pc = stage /\ k.loc = loc /\ k.clu = Es[loc].start
         /\ k.cur = cur /\ k.name = n
    BY <2>0, <2>7, AfterIs
  <2> HIDE DEF k
  <2>11. Proper(e)
    BY <2>6, NamesAreNames DEF Proper, Special
  <2>12. Settled(Es, fat1, k) /\ k.pc \in {"end", "first", "walk"}
    BY <2>1, <2>3, <2>8, <2>10 DEF Settled, Aimed
  <2>13. OverPlan(Es, fat1, w, k)
    BY <2>3, <2>4, <2>5, <2>6, <2>10, <2>11, <2>12 DEF OverPlan, Aimed
  <2>14. Plan(Es, fat1, w, k)
    BY <2>13 DEF Plan
  <2> HIDE DEF w
  <2> QED BY <2>8, <2>9, <2>14, BeginTree DEF k
<1> QED BY <1>1, <1>2

\* LoadFile keeps the tree.
LEMMA LoadTree ==
  ASSUME FatInv, TreeInv, NEW n, LoadFile(n)
  PROVE  TreeInv'
<1>1. \E q, err, out : Answer(q, err, out)
  BY DEF LoadFile, Refuse
<1> QED BY <1>1, AnswerTree

\* Another current directory, of those there are.
LEMMA MoveTree ==
  ASSUME FatInv, TreeInv, NEW q, NEW d, MoveTo(q, d),
         NEW R, NEW P, AtRest(R, P), d \in Dirs(R)
  PROVE  TreeInv'
<1>1. /\ Ready /\ pc' = "idle" /\ todo' = <<>> /\ failed' = failed /\ cur' = d /\ cwd' = PathOf(d)
      /\ UNCHANGED disk
  BY DEF MoveTo, Return
<1>2. ~failed /\ Balance(Es, fat1, {}, {})
  BY <1>1, ReadyHas
<1>3. Es' = Es /\ fat1' = fat1
  BY <1>1, SameEntries DEF disk
<1>4. P[d] = Len(PathOf(d))
  BY ShapeIsSound DEF FatInv, AtRest
<1> DEFINE k == Cmd'
<1>5. k.pc = "idle" /\ k.cur = d /\ k.depth = Len(PathOf(d))
  BY <1>1 DEF Cmd
<1> HIDE DEF k
<1>6. Plan(Es, fat1, <<>>, k)
  BY <1>2, <1>5 DEF Plan, QuietPlan, Quiet, Settled, Left
<1>7. Shape(Es, fat1, R, P) /\ Working(Es, fat1, <<>>, k, R, P)
  BY <1>4, <1>5, <1>6 DEF Working, AtRest
<1> QED BY <1>1, <1>2, <1>3, <1>7 DEF TreeInv, k

\* A change of directory goes to a directory of the disk.
LEMMA MovesWithin ==
  ASSUME FatInv, TreeInv, ParentDir \/ RootDir \/ \E n \in Names : ChangeDir(n)
  PROVE  \/ \E q, err : Refuse(q, err)
         \/ \E q, d, R, P : MoveTo(q, d) /\ AtRest(R, P) /\ d \in Dirs(R)
<1> SUFFICES ASSUME ~\E q, err : Refuse(q, err)
             PROVE  \E q, d, R, P : MoveTo(q, d) /\ AtRest(R, P) /\ d \in Dirs(R)
  OBVIOUS
<1>1. CASE ParentDir
  <2>0. PICK loc \in Found("..") : \E q : cur # Root /\ MoveTo(q, Entry(loc).start)
    BY <1>1 DEF ParentDir
  <2>1. loc \in Found("..") /\ \E q : cur # Root /\ MoveTo(q, Entry(loc).start)
    BY <2>0
  <2>2. Ready
    BY <2>1 DEF MoveTo
  <2>3. PICK R, P : AtRest(R, P)
    BY <2>2, ReadyHas
  <2>4. loc \in In(fat1, cur) /\ Es[loc].name = ".." /\ Entry(loc) = Es[loc]
    BY FoundIs DEF FatInv, CommandHas
  <2>5. Clean(Es, fat1, R, cur, loc)
    <3>1. ~Pending(loc, <<>>)
      BY DEF Pending
    <3> QED BY <2>3, <2>4, <3>1 DEF AtRest, AllClean
  <2>6. Es[loc].start \in Dirs(R)
    BY <2>4, <2>5 DEF Clean, Proper, Special, Empty, Deleted
  <2> QED BY <2>1, <2>3, <2>4, <2>6
<1>2. CASE RootDir
  <2>1. PICK q : MoveTo(q, Root)
    BY <1>2 DEF RootDir
  <2>2. PICK R, P : AtRest(R, P)
    BY <2>1, ReadyHas DEF MoveTo
  <2>3. Root \in Dirs(R)
    BY DEF Dirs
  <2> QED BY <2>1, <2>2, <2>3
<1>3. ASSUME NEW n \in Names, ChangeDir(n)
      PROVE  \E q, d, R, P : MoveTo(q, d) /\ AtRest(R, P) /\ d \in Dirs(R)
  <2>0. PICK loc \in Found(n) : \E q : Entry(loc).dir /\ MoveTo(q, Entry(loc).start)
    BY <1>3 DEF ChangeDir
  <2>1. loc \in Found(n) /\ \E q : Entry(loc).dir /\ MoveTo(q, Entry(loc).start)
    BY <2>0
  <2>2. Ready
    BY <2>1 DEF MoveTo
  <2>3. PICK R, P : AtRest(R, P)
    BY <2>2, ReadyHas
  <2>4. loc \in Props(Es) /\ Entry(loc) = Es[loc]
    BY <2>2, FoundProper
  <2>5. Es[loc].start \in R
    BY <2>1, <2>3, <2>4 DEF AtRest, Shape, Lies
  <2>6. Es[loc].start \in Dirs(R)
    BY <2>5 DEF Dirs
  <2> QED BY <2>1, <2>3, <2>4, <2>6
<1> QED BY <1>1, <1>2, <1>3

\* ChangeDir, ParentDir and RootDir keep the tree.
LEMMA DirectoryTree ==
  ASSUME FatInv, TreeInv, ParentDir \/ RootDir \/ \E n \in Names : ChangeDir(n)
  PROVE  TreeInv'
<1>1. CASE \E q, err : Refuse(q, err)
  BY <1>1, AnswerTree DEF Refuse
<1>2. CASE \E q, d, R, P : MoveTo(q, d) /\ AtRest(R, P) /\ d \in Dirs(R)
  BY <1>2, MoveTree
<1> QED BY <1>1, <1>2, MovesWithin


-----------------------------------------------------------------------------
(* The invariant                                                           *)

\* A formatted volume has no entries.
LEMMA InitEntries ==
  ASSUME Init
  PROVE  \A l \in LocSet : /\ Es[l] = IF l.c = Root THEN Empty ELSE Garbage
                           /\ ~Proper(Es[l])
<1>0. DiskHas
  BY InitFatInv DEF FatInv
<1> SUFFICES ASSUME NEW l \in LocSet
             PROVE  Es[l] = IF l.c = Root THEN Empty ELSE Garbage
  BY DEF Proper, Special, Empty, Garbage
<1>1. Es[l] = Entry(l)
  BY <1>0, EsHas
<1>2. CASE l.c = Root
  <2>1. l.i \in Slots(Root)
    BY <1>2 DEF LocSet
  <2> QED BY <1>1, <1>2, <2>1 DEF Init, Entry
<1>3. CASE l.c # Root
  <2>1. l.i % ES \in 0 .. ES - 1 /\ Sector(l.c, l.i \div ES) \in Sectors
    BY <1>3, PlaceParts
  <2>2. Entry(l) = NeverUsed.entries[l.i % ES]
    BY <1>3, <2>1 DEF Init, Entry
  <2> QED BY <1>1, <1>3, <2>1, <2>2 DEF NeverUsed, DataSector
<1> QED BY <1>2, <1>3

\* A formatted volume has a tree, of nothing.
LEMMA InitTree ==
  ASSUME Init
  PROVE  TreeInv
<1> DEFINE R == {}
           P == [d \in Dirs({}) |-> 0]
<1>1. DiskHas
  BY InitFatInv DEF FatInv
<1>2. Es \in Entries /\ fat1 \in Tables
  BY <1>1, EsHas
<1>3. \A l \in LocSet : /\ Es[l] = IF l.c = Root THEN Empty ELSE Garbage
                        /\ ~Proper(Es[l])
  BY InitEntries
<1>4. Props(Es) = {}
  BY <1>3 DEF Props
<1>5. Taken(Es, fat1) = {} /\ InUse(fat1) = {}
  <2>1. InUse(fat1) = {}
    BY Sizes DEF InUse, Init
  <2> QED BY <1>4, <2>1 DEF Taken
<1>6. DepthsAre(R, P)
  BY Sizes, NodesAre DEF DepthsAre, Dirs
<1>7. Shape(Es, fat1, R, P)
  <2>1. Blank(Es)
    BY <1>3 DEF Blank
  <2>2. Ordered(Es, fat1, R)
    BY <1>3 DEF Ordered, In
  <2>3. Named(Es, R)
    BY DEF Named
  <2> QED BY <1>4, <1>6, <2>1, <2>2, <2>3 DEF Shape
<1>8. Cmd.pc = "idle" /\ Cmd.cur = Root /\ Cmd.depth = 0 /\ todo = <<>> /\ pc = "idle" /\ ~failed
  <2>1. cwd = <<>> /\ pc = "idle" /\ cur = Root /\ todo = <<>> /\ ~failed
    BY DEF Init
  <2>2. Len(cwd) = 0
    BY <2>1
  <2> QED BY <2>1, <2>2 DEF Cmd
<1>9. AllClean(Es, fat1, R, <<>>)
  <2> SUFFICES ASSUME NEW d \in Dirs(R), NEW l \in In(fat1, d) PROVE Clean(Es, fat1, R, d, l)
    BY DEF AllClean
  <2>1. l \in LocSet /\ l.c = Root
    BY DEF Dirs, In, ClustersOf
  <2> QED BY <1>3, <2>1 DEF Clean
<1>10. Working(Es, fat1, <<>>, Cmd, R, P)
  <2>1. Cmd.cur \in Dirs(R) /\ P[Cmd.cur] = Cmd.depth
    BY <1>8 DEF Dirs
  <2> HIDE DEF Cmd, R, P
  <2>2. QuietPlan(Es, fat1, <<>>, Cmd)
    BY <1>5, <1>8 DEF QuietPlan, Quiet, Settled, Left, Balance
  <2> QED BY <1>9, <2>1, <2>2 DEF Working, Plan
<1> HIDE DEF R, P
<1> QED BY <1>7, <1>8, <1>10 DEF TreeInv

\* A step that changes nothing keeps the tree.
LEMMA StutterTree ==
  ASSUME TreeInv, UNCHANGED vars
  PROVE  TreeInv'
<1>1. /\ fat1' = fat1 /\ root' = root /\ sector' = sector /\ cur' = cur /\ pc' = pc
      /\ todo' = todo /\ r' = r /\ req' = req /\ cwd' = cwd /\ failed' = failed
  BY DEF vars, disk
<1>2. Es' = Es /\ FreeSlot' = FreeSlot
  BY <1>1, SameEntries, SameFreeSlot
<1>3. Cmd' = Cmd
  BY <1>1 DEF Cmd
<1> QED BY <1>1, <1>2, <1>3 DEF TreeInv

\* Every step keeps the tree.
LEMMA TreeStep ==
  ASSUME ~MkdirInFullDir
  PROVE  FatInv /\ FatInv' /\ TreeInv /\ [Next]_vars => TreeInv'
<1> SUFFICES ASSUME FatInv, FatInv', TreeInv, [Next]_vars PROVE TreeInv'
  OBVIOUS
<1>1. CASE DirCommand
  <2>1. CASE ParentDir \/ RootDir \/ \E n \in Names : ChangeDir(n)
    BY <2>1, DirectoryTree
  <2>2. ASSUME NEW n \in Names, MakeDir(n) PROVE TreeInv'
    BY <2>2, MakeDirTree
  <2>3. ASSUME NEW n \in Names, DeleteDir(n) PROVE TreeInv'
    BY <2>3, EraseTree
  <2> QED BY <1>1, <2>1, <2>2, <2>3 DEF DirCommand
<1>2. CASE FileCommand
  <2>1. PICK n \in Names :
          \/ CreateFile(n) \/ EraseFile(n) \/ LoadFile(n)
          \/ \E data \in AppendData : AppendTo(n, data)
          \/ \E new \in Names : Rename(n, new)
    BY <1>2 DEF FileCommand
  <2> QED BY <2>1, CreateFileTree, EraseTree, LoadTree, AppendTree, RenameTree
<1>3. CASE Stage
  BY <1>3, CreateTree, EnterDirTree, EndTree, ExtendTree, FreeNextTree, FirstTree, FindEndTree,
     FillTree, LinkTree DEF Stage
<1>4. CASE DiskWrite
  BY <1>4, Fat1Tree, InertTree, EntryTree, SectorTree DEF DiskWrite
<1>5. CASE Fail
  BY <1>5, FailTree
<1>6. CASE UNCHANGED vars
  BY <1>6, StutterTree
<1> QED BY <1>1, <1>2, <1>3, <1>4, <1>5, <1>6 DEF Next

\* The tables and the tree are sound in every state.
LEMMA TreeInvHolds ==
  ASSUME ~MkdirInFullDir, ~AppendToDamaged
  PROVE  Spec => [](FatInv /\ TreeInv)
<1>1. Init => FatInv /\ TreeInv
  BY InitFatInv, InitTree
<1>2. FatInv /\ TreeInv /\ [Next]_vars => (FatInv /\ TreeInv)'
  <2>1. FatInv /\ [Next]_vars => FatInv'
    BY FatStep
  <2>2. FatInv /\ FatInv' /\ TreeInv /\ [Next]_vars => TreeInv'
    BY TreeStep
  <2> QED BY <2>1, <2>2
<1> QED BY <1>1, <1>2, PTL DEF Spec

\* NoCrossLinks: no cluster belongs to two files or directories, after every sector
\* write of every command and wherever the device fails, for all volumes, names and data.
THEOREM ChainsAreApart ==
  ASSUME ~MkdirInFullDir, ~AppendToDamaged
  PROVE  Spec => []NoCrossLinks
<1>1. FatInv /\ TreeInv => NoCrossLinks
  BY ShapeIsSound DEF FatInv, TreeInv
<1>2. Spec => [](FatInv /\ TreeInv)
  BY TreeInvHolds
<1> QED BY <1>1, <1>2, PTL

\* NoLostClusters: between commands the clusters in use are just those of the tree,
\* so erasing and deleting give back all that making and appending took.
THEOREM ClustersAreFound ==
  ASSUME ~MkdirInFullDir, ~AppendToDamaged
  PROVE  Spec => []NoLostClusters
<1>1. FatInv /\ TreeInv => NoLostClusters
  <2> SUFFICES ASSUME FatInv, TreeInv, Ready
               PROVE  {c \in Data : fat1[c] # 0} = UNION {Owned(n) : n \in Owners}
    BY DEF NoLostClusters
  <2>1. Balance(Es, fat1, {}, {}) /\ \E R, P : AtRest(R, P)
    BY ReadyHas
  <2>2. PICK R, P : Shape(Es, fat1, R, P)
    BY <2>1 DEF AtRest
  <2>3. UNION {Owned(n) : n \in Owners} = Taken(Es, fat1)
    BY <2>2, ShapeIsSound DEF FatInv
  <2>4. InUse(fat1) = Taken(Es, fat1)
    BY <2>1 DEF Balance
  <2> QED BY <2>3, <2>4 DEF InUse
<1>2. Spec => [](FatInv /\ TreeInv)
  BY TreeInvHolds
<1> QED BY <1>1, <1>2, PTL


-----------------------------------------------------------------------------
(* What a write leaves alone: every entry but the one the command is about *)
(* stays in its directory, with its chain if it is one of a file.          *)
SameChain(t, u, s) ==
  /\ LengthIn(u, s) = LengthIn(t, s)
  /\ \A j \in 0 .. LengthIn(t, s) - 1 : HopsIn(u, s)[j] = HopsIn(t, s)[j]
Kept(E, t, R, F, u, k) ==
  /\ \A d \in Dirs(R) : In(t, d) \subseteq In(u, d)
  /\ \A l \in Props(E) : \/ Aimed(E, t, k, l)
                         \/ F[l] = E[l] /\ (E[l].dir \/ SameChain(t, u, E[l].start))

\* Nothing is written to the clusters of a chain, but for the mark of its end.
LEMMA ChainsKept ==
  ASSUME NEW E \in Entries, NEW t \in Tables, NEW u \in Tables, NEW R, NEW P, Shape(E, t, R, P),
         \A x \in Taken(E, t) : u[x] = t[x] \/ (u[x] \in {0, EOC} /\ t[x] \notin Data), NEW k
  PROVE  Kept(E, t, R, E, u, k)
<1>1. /\ \A l \in Props(E) :
           /\ LengthIn(u, E[l].start) = LengthIn(t, E[l].start)
           /\ \A j \in 0 .. LengthIn(t, E[l].start) - 1 :
                HopsIn(u, E[l].start)[j] = HopsIn(t, E[l].start)[j]
      /\ \A d \in Dirs(R) : In(u, d) = In(t, d)
  BY SameChains
<1> QED BY <1>1 DEF Kept, SameChain

\* A link to a new cluster.
LEMMA LinkKeeps ==
  ASSUME NEW E \in Entries, NEW t \in Tables, NEW R, NEW P, Shape(E, t, R, P), NEW k,
         NEW w \in Seq(WriteSet), LinkPlan(E, t, w, k),
         NEW u, PutIn(t, u, w[1].c, w[1].v)
  PROVE  Kept(E, t, R, E, u, k)
<1>1. PICK c \in Data, o \in Props(E) :
        /\ E[o].start # 0 /\ t[c] = 0
        /\ E[o].dir \/ Aimed(E, t, k, o)
        /\ w[1] = FatWrite("fat1", EndIn(t, E[o].start), c)
        /\ Balance(E, t, {}, {})
  BY DEF LinkPlan
<1> DEFINE z == EndIn(t, E[o].start)
<1>2. u \in Tables /\ \A y \in Table : u[y] = IF y = z THEN c ELSE t[y]
  BY <1>1, KindsOfWrite DEF PutIn
<1>3. c \notin Taken(E, t)
  BY <1>1 DEF Balance, InUse
<1>4. /\ \A l \in Props(E) \ {o} :
           /\ LengthIn(u, E[l].start) = LengthIn(t, E[l].start)
           /\ \A j \in 0 .. LengthIn(t, E[l].start) - 1 :
                HopsIn(u, E[l].start)[j] = HopsIn(t, E[l].start)[j]
      /\ \A d \in Dirs(R) : In(u, d) = IF d = E[o].start THEN In(t, d) \cup {l \in LocSet : l.c = c}
                                       ELSE In(t, d)
  BY <1>1, <1>2, <1>3, LinkGrows
<1> QED BY <1>1, <1>4 DEF Kept, SameChain

\* A write to FAT 1.
LEMMA FatKeeps ==
  ASSUME NEW E \in Entries, NEW t \in Tables, NEW R, NEW P, Shape(E, t, R, P), NEW k,
         NEW w \in Seq(WriteSet), w # <<>>, w[1].to = "fat1", w[1].c \in Table,
         NEW u, PutIn(t, u, w[1].c, w[1].v), Working(E, t, w, k, R, P)
  PROVE  Kept(E, t, R, E, u, k)
<1>1. Plan(E, t, w, k)
  BY DEF Working
<1>2. ~QuietPlan(E, t, w, k) /\ ~MkdirPlan(E, t, w, k)
  <2>1. ~Inert(w[1])
    BY DEF Inert
  <2> QED BY <2>1, RestParts DEF QuietPlan, MkdirPlan
<1>3. /\ ~DirPlan(E, t, w, k) /\ ~ErasePlan(E, t, w, k) /\ ~OverPlan(E, t, w, k)
      /\ ~CreatePlan(E, t, w, k)
  BY NoEntryFirst
<1>4. u \in Tables /\ \A y \in Table : u[y] = IF y = w[1].c THEN w[1].v ELSE t[y]
  BY DEF PutIn
<1>5. Taken(E, t) \subseteq Data /\ Data \subseteq Table
  <2>1. \A l \in Props(E) : ChainIn(t, E[l].start) \subseteq Data
    BY EntryParts, ChainParts DEF Props
  <2> QED BY <2>1, KindsOfWrite DEF Taken
<1>6. ASSUME w[1].c \notin Taken(E, t) PROVE Kept(E, t, R, E, u, k)
  <2>1. \A x \in Taken(E, t) : u[x] = t[x] \/ (u[x] \in {0, EOC} /\ t[x] \notin Data)
    BY <1>4, <1>5, <1>6
  <2> QED BY <1>4, <2>1, ChainsKept
<1>7. CASE FreePlan(E, t, w, k)
  <2>1. w[1].c \notin Taken(E, t)
    BY <1>7 DEF FreePlan, Balance
  <2> QED BY <1>6, <2>1
<1>8. CASE FillPlan(E, t, w, k)
  <2>1. PICK c \in Data, o \in Props(E) :
          E[o].start # 0 /\ c = EndIn(t, E[o].start) /\ Filling(E[o], c, w, k)
    BY <1>8 DEF FillPlan
  <2>2. w[1] = Mark(c)
    BY <2>1, RestParts DEF Fills
  <2>3. w[1].c = c /\ w[1].v = EOC
    BY <2>2, KindsOfWrite DEF Mark
  <2>4. t[c] \in {0, EOC}
    BY <2>1, EndHas
  <2>5. \A x \in Taken(E, t) : u[x] = t[x] \/ (u[x] \in {0, EOC} /\ t[x] \notin Data)
    BY <1>4, <1>5, <2>3, <2>4, KindsOfWrite
  <2> QED BY <1>4, <2>5, ChainsKept
<1>9. CASE LinkPlan(E, t, w, k)
  BY <1>9, LinkKeeps
<1>10. CASE FirstPlan(E, t, w, k)
  <2>1. PICK c \in Data :
          /\ c \notin Taken(E, t)
          /\ w[Len(w)] = EntryWrite(k.loc, [E[k.loc] EXCEPT !.start = c])
          /\ \A j \in 1 .. Len(w) - 1 : w[j].to = "fat2" \/ w[j] = Mark(c)
    BY <1>10 DEF FirstPlan
  <2>2. Len(w) # 1
    BY <2>1, KindsOfWrite
  <2>3. w[1] = Mark(c)
    <3> DEFINE n == Len(w)
    <3>1. n \in Nat \ {0} /\ n # 1
      BY <2>2, Rest
    <3> HIDE DEF n
    <3>2. 1 \in 1 .. n - 1
      BY <3>1
    <3>3. 1 \in 1 .. Len(w) - 1
      BY <3>2 DEF n
    <3> QED BY <2>1, <3>3, KindsOfWrite
  <2>4. w[1].c \notin Taken(E, t)
    BY <2>1, <2>3, KindsOfWrite DEF Mark
  <2> QED BY <1>6, <2>4
<1> QED BY <1>1, <1>2, <1>3, <1>7, <1>8, <1>9, <1>10 DEF Plan

\* A write of an entry.
LEMMA EntryKeeps ==
  ASSUME NEW E \in Entries, NEW t \in Tables, NEW R, NEW P, Shape(E, t, R, P), NEW k,
         NEW w \in Seq(WriteSet), w # <<>>, w[1].to = "entry", Working(E, t, w, k, R, P),
         NEW F, OneEntry(E, F, w[1].loc)
  PROVE  Kept(E, t, R, F, t, k)
<1>1. Plan(E, t, w, k)
  BY DEF Working
<1>2. ~QuietPlan(E, t, w, k) /\ ~MkdirPlan(E, t, w, k) /\ ~FreePlan(E, t, w, k)
  <2>1. ~Inert(w[1])
    BY DEF Inert
  <2> QED BY <2>1, RestParts DEF QuietPlan, MkdirPlan, FreePlan
<1>3. ~FillPlan(E, t, w, k) /\ ~LinkPlan(E, t, w, k)
  <2>1. \A e, c : ~Filling(e, c, w, k)
    BY RestParts, KindsOfWrite DEF Mark, Fills
  <2>2. \A a, b : w[1] # FatWrite("fat1", a, b)
    BY KindsOfWrite
  <2> QED BY <2>1, <2>2 DEF FillPlan, LinkPlan
<1> DEFINE loc == w[1].loc
<1>4. loc \notin Props(E) \/ Aimed(E, t, k, loc)
  <2>1. ASSUME NEW l, NEW e, w[1] = EntryWrite(l, e), ~Proper(E[l]) \/ Aimed(E, t, k, l)
        PROVE  loc \notin Props(E) \/ Aimed(E, t, k, loc)
    <3>1. loc = l
      BY <2>1, KindsOfWrite
    <3> QED BY <2>1, <3>1 DEF Props
  <2>2. \A l : FreePlace(E, t, k, l) => ~Proper(E[l])
    BY DEF FreePlace, Proper, Special, Empty, Deleted
  <2>3. CASE DirPlan(E, t, w, k)
    BY <2>1, <2>2, <2>3 DEF DirPlan
  <2>4. CASE ErasePlan(E, t, w, k)
    <3>1. PICK l \in Props(E) : w = <<EntryWrite(l, Deleted)>> /\ Aimed(E, t, k, l)
      BY <2>4 DEF ErasePlan
    <3>2. w[1] = EntryWrite(l, Deleted)
      BY <3>1
    <3> QED BY <2>1, <3>1, <3>2
  <2>5. CASE OverPlan(E, t, w, k)
    <3>1. PICK l \in Props(E), e \in EntrySet : w = <<EntryWrite(l, e)>> /\ Aimed(E, t, k, l)
      BY <2>5 DEF OverPlan
    <3>2. w[1] = EntryWrite(l, e)
      BY <3>1
    <3> QED BY <2>1, <3>1, <3>2
  <2>6. CASE CreatePlan(E, t, w, k)
    <3>1. PICK l \in LocSet, e \in EntrySet : w = <<EntryWrite(l, e)>> /\ FreePlace(E, t, k, l)
      BY <2>6 DEF CreatePlan
    <3>2. w[1] = EntryWrite(l, e)
      BY <3>1
    <3> QED BY <2>1, <2>2, <3>1, <3>2
  <2>7. CASE FirstPlan(E, t, w, k)
    <3>1. PICK c \in Data :
            /\ Aimed(E, t, k, k.loc)
            /\ w[Len(w)] = EntryWrite(k.loc, [E[k.loc] EXCEPT !.start = c])
            /\ \A j \in 1 .. Len(w) - 1 : w[j].to = "fat2" \/ w[j] = Mark(c)
      BY <2>7 DEF FirstPlan
    <3> DEFINE n == Len(w)
    <3>2. n \in Nat \ {0} /\ (n = 1 \/ 1 \notin 1 .. n - 1)
      <4>1. n \in Nat \ {0}
        BY Rest
      <4>2. 1 \notin 1 .. n - 1
        BY <3>1, KindsOfWrite DEF Mark
      <4> QED BY <4>1, <4>2
    <3> HIDE DEF n
    <3>3. n = 1
      BY <3>2
    <3>4. w[1] = EntryWrite(k.loc, [E[k.loc] EXCEPT !.start = c])
      BY <3>1, <3>3 DEF n
    <3> QED BY <2>1, <3>1, <3>4
  <2> QED BY <1>1, <1>2, <1>3, <2>3, <2>4, <2>5, <2>6, <2>7 DEF Plan
<1> HIDE DEF loc
<1>5. ASSUME NEW l \in Props(E), ~Aimed(E, t, k, l) PROVE F[l] = E[l]
  BY <1>4, <1>5 DEF OneEntry, Props, loc
<1> QED BY <1>5 DEF Kept, SameChain

\* A write of a sector.
LEMMA SectorKeeps ==
  ASSUME NEW E \in Entries, NEW t \in Tables, NEW R, NEW P, Shape(E, t, R, P), NEW k,
         NEW w \in Seq(WriteSet), w # <<>>, w[1].to = "sector", Working(E, t, w, k, R, P),
         NEW F \in Entries,
         \A l \in LocSet : F[l] = IF l.c # Root /\ Sector(l.c, l.i \div ES) = w[1].s
                                    THEN w[1].x.entries[l.i % ES] ELSE E[l]
  PROVE  /\ Kept(E, t, R, F, t, k)
         /\ \A l \in Props(E) :
              \/ Aimed(E, t, k, l) \/ E[l].dir
              \/ \A j \in 0 .. LengthIn(t, E[l].start) - 1, p \in 0 .. SPC - 1 :
                   Sector(HopsIn(t, E[l].start)[j], p) # w[1].s
<1>1. FillPlan(E, t, w, k)
  BY SectorIsFill
<1>2. PICK c \in Data, o \in Props(E) :
       /\ E[o].start # 0 /\ c = EndIn(t, E[o].start)
       /\ ~E[o].dir => Aimed(E, t, k, o)
       /\ Filling(E[o], c, w, k)
       /\ \A l \in Props(E) : l.c # c
  BY <1>1 DEF FillPlan
<1>3. Fills(w[1], E[o], c, k)
  BY <1>2, RestParts, KindsOfWrite DEF Mark
<1>4. PICK s \in 0 .. SPC - 1 : w[1].s = Sector(c, s)
  BY <1>3 DEF Fills
<1>5. ASSUME NEW l \in Props(E) PROVE F[l] = E[l]
  <2>1. l \in LocSet /\ l.c # c
    BY <1>2 DEF Props
  <2>2. ASSUME l.c # Root PROVE Sector(l.c, l.i \div ES) # w[1].s
    BY <1>4, <2>1, <2>2, PlaceParts, OneSector
  <2> QED BY <2>1, <2>2
<1>6. ASSUME NEW l \in Props(E), NEW j \in 0 .. LengthIn(t, E[l].start) - 1, NEW p \in 0 .. SPC - 1,
             Sector(HopsIn(t, E[l].start)[j], p) = w[1].s
      PROVE  Aimed(E, t, k, l) \/ E[l].dir
  <2> DEFINE h == HopsIn(t, E[l].start)[j]
  <2>1. h \in ChainIn(t, E[l].start) /\ ChainIn(t, E[l].start) \subseteq Data
    BY EntryParts, ChainParts DEF ChainIn, Props
  <2> HIDE DEF h
  <2>2. h = c
    BY <1>4, <1>6, <2>1, OneSector DEF h
  <2>3. c \in ChainIn(t, E[o].start)
    BY <1>2, EndHas
  <2>4. l = o
    BY <2>1, <2>2, <2>3, OneOwner
  <2> QED BY <1>2, <2>4
<1> QED BY <1>5, <1>6 DEF Kept, SameChain


-----------------------------------------------------------------------------
(* The tree before and after a write.                                      *)

\* The operators of the driver, in terms of the table and the entries.  It is
\* said of a state here, so that it can be said of the next one too.
HopsFit ==
  \A c, k : Hop(c, k) = HopsIn(fat1, c)[k] /\ ChainLength(c) = LengthIn(fat1, c)
Placed ==
  \A R, P : Shape(Es, fat1, R, P) =>
    \A k \in 0 .. MaxDepth : \A n \in Level[k] :
      \E d \in Dirs(R), l \in LocSet :
        n.e = Es[l] /\ l \in In(fat1, d) /\ (Proper(Es[l]) \/ Es[l] = Garbage)
Reaches ==
  \A R, P : Shape(Es, fat1, R, P) =>
    \A d \in Dirs(R) : \A l \in In(fat1, d) : Proper(Es[l]) =>
      /\ d = Root => [path |-> <<Es[l].name>>, e |-> Es[l]] \in Level[0]
      /\ \A k \in 1 .. MaxDepth : \A m \in Level[k - 1] :
           m.e.dir /\ m.e.start = d /\ d # Root
           => [path |-> Append(m.path, Es[l].name), e |-> Es[l]] \in Level[k]
InLevels == Nodes = UNION {Level[k] : k \in 0 .. MaxDepth}
TreeFits == HopsFit /\ Placed /\ Reaches /\ InLevels

\* The lemmas about the tree, of a state.
LEMMA FitsNow == DiskHas => TreeFits
<1> SUFFICES ASSUME DiskHas PROVE TreeFits
  OBVIOUS
<1>1. HopsFit
  BY HopIs DEF HopsFit
<1>2. Placed
  <2> SUFFICES ASSUME NEW R, NEW P, Shape(Es, fat1, R, P),
                      NEW k \in 0 .. MaxDepth, NEW n \in Level[k]
               PROVE  \E d \in Dirs(R), l \in LocSet :
                        n.e = Es[l] /\ l \in In(fat1, d) /\ (Proper(Es[l]) \/ Es[l] = Garbage)
    BY DEF Placed
  <2> QED BY NodeIs
<1>3. Reaches
  <2> SUFFICES ASSUME NEW R, NEW P, Shape(Es, fat1, R, P), NEW d \in Dirs(R),
                      NEW l \in In(fat1, d), Proper(Es[l])
               PROVE  /\ d = Root => [path |-> <<Es[l].name>>, e |-> Es[l]] \in Level[0]
                      /\ \A k \in 1 .. MaxDepth : \A m \in Level[k - 1] :
                           m.e.dir /\ m.e.start = d /\ d # Root
                           => [path |-> Append(m.path, Es[l].name), e |-> Es[l]] \in Level[k]
    BY DEF Reaches
  <2>0. R \subseteq Data /\ Es \in Entries /\ fat1 \in Tables
    BY EsHas DEF Shape, DepthsAre
  <2>1. d \in Starts /\ (d # Root => Ended(fat1, d)) /\ (d # Root => d \in Data)
    BY <2>0, DirTaken DEF Dirs, Starts
  <2>2. \A m \in In(fat1, d) : Earlier(fat1, d, m, l) => Es[m] # Empty
    BY DEF Shape, Ordered
  <2>3. Es[l] \notin {Empty, Deleted} /\ Es[l].name \notin {".", ".."}
    BY DEF Proper, Special, Empty, Deleted
  <2>4. Es[l] \in Live(d)
    BY <2>1, <2>2, <2>3, LiveIs
  <2>5. \A p : [path |-> Append(p, Es[l].name), e |-> Es[l]] \in Below(p, d)
    BY <2>3, <2>4 DEF Below
  <2>6. ASSUME d = Root PROVE [path |-> <<Es[l].name>>, e |-> Es[l]] \in Level[0]
    <3>1. [path |-> Append(<<>>, Es[l].name), e |-> Es[l]] \in Level[0]
      BY <2>5, <2>6, NodesAre
    <3>2. Append(<<>>, Es[l].name) = <<Es[l].name>>
      OBVIOUS
    <3> QED BY <3>1, <3>2
  <2>7. ASSUME NEW k \in 1 .. MaxDepth, NEW m \in Level[k - 1],
               m.e.dir, m.e.start = d, d # Root
        PROVE  [path |-> Append(m.path, Es[l].name), e |-> Es[l]] \in Level[k]
    <3>1. Below(m.path, d) \subseteq Level[k]
      BY <2>1, <2>7, NodesAre DEF NextLevel
    <3> QED BY <2>5, <3>1
  <2> QED BY <2>6, <2>7
<1>4. InLevels
  BY NodesAre DEF InLevels
<1> QED BY <1>1, <1>2, <1>3, <1>4 DEF TreeFits

\* The same of the next state.
LEMMA FitsNext == DiskHas' => TreeFits'
BY FitsNow, PTL

\* A file whose chain and sectors are as they were has the contents it had.
SameUnits(s) ==
  \A j \in 0 .. LengthIn(fat1, s) - 1, p \in 0 .. SPC - 1 :
    sector'[Sector(HopsIn(fat1, s)[j], p)].units = sector[Sector(HopsIn(fat1, s)[j], p)].units

\* The sectors of a chain are on the volume.
LEMMA ChainSectors ==
  ASSUME fat1 \in Tables, NEW s \in 0 .. EOC, NEW j \in 0 .. LengthIn(fat1, s) - 1,
         NEW p \in 0 .. SPC - 1
  PROVE  Sector(HopsIn(fat1, s)[j], p) \in Sectors
<1> DEFINE c == HopsIn(fat1, s)[j]
           b == c - 2
<1>1. c \in Data
  BY ChainParts DEF ChainIn
<1>2. b \in 0 .. Clusters - 1
  BY <1>1, Sizes
<1>3. Sector(c, p) = b * SPC + p
  BY DEF Sector
<1> HIDE DEF c, b
<1>4. b * SPC <= (Clusters - 1) * SPC /\ b * SPC \in Nat
  BY <1>2, Sizes, Multiples
<1>5. (Clusters - 1) * SPC = Clusters * SPC - SPC /\ Clusters * SPC \in Nat
  BY Sizes
<1>6. Sector(c, p) \in 0 .. Clusters * SPC - 1
  BY <1>3, <1>4, <1>5, Sizes
<1> QED BY <1>6 DEF Sectors, c

\* It is enough to look at the sectors of the volume.
LEMMA UnitsSame ==
  ASSUME DiskHas, NEW s \in 0 .. EOC,
         \A j \in 0 .. LengthIn(fat1, s) - 1, p \in 0 .. SPC - 1 :
           LET z == Sector(HopsIn(fat1, s)[j], p)
           IN  z \in Sectors => sector'[z].units = sector[z].units
  PROVE  SameUnits(s)
<1>1. fat1 \in Tables
  BY EsHas
<1> QED BY <1>1, ChainSectors DEF SameUnits

\* A file with the same chain and the same units has the same contents.
LEMMA ContentsKept ==
  ASSUME DiskHas, DiskHas', NEW e \in EntrySet, SameChain(fat1, fat1', e.start),
         SameUnits(e.start)
  PROVE  Contents(e)' = Contents(e)
<1> DEFINE s == e.start
           L == LengthIn(fat1, s)
           n == e.len
           q(k) == (k - 1) \div CU
           p(k) == ((k - 1) % CU) \div SU
<1>1. HopsFit /\ HopsFit'
  BY FitsNow, FitsNext DEF TreeFits
<1>2. /\ ChainLength(s) = L /\ ChainLength(s)' = L
      /\ \A k : Hop(s, k) = HopsIn(fat1, s)[k]
      /\ \A j \in 0 .. L - 1 : Hop(s, j)' = HopsIn(fat1, s)[j]
  BY <1>1 DEF HopsFit, SameChain
<1>3. n \in Nat /\ s \in 0 .. EOC /\ fat1 \in Tables
  <2>1. e.len \in Nat /\ e.start \in Starts
    BY Zenon DEF EntrySet
  <2>2. fat1 \in Tables
    BY EsHas
  <2> QED BY <2>1, <2>2, Sizes DEF Starts
<1>4. L \in Nat
  BY <1>3, ChainParts
<1>5. CASE n = 0
  BY <1>5 DEF Contents
<1>6. CASE n # 0 /\ (s \notin Data \/ L * CU < n)
  BY <1>2, <1>6 DEF Contents
<1>7. CASE n # 0 /\ s \in Data /\ ~(L * CU < n)
  <2>1. /\ Contents(e) = [k \in 1 .. n |-> sector[Sector(Hop(s, q(k)), p(k))].units[(k - 1) % SU]]
        /\ Contents(e)' = [k \in 1 .. n |-> sector'[Sector(Hop(s, q(k))', p(k))].units[(k - 1) % SU]]
    BY <1>2, <1>7 DEF Contents
  <2>2. ASSUME NEW k \in 1 .. n
        PROVE  sector'[Sector(Hop(s, q(k))', p(k))].units[(k - 1) % SU]
                 = sector[Sector(Hop(s, q(k)), p(k))].units[(k - 1) % SU]
    <3>0. k - 1 \in Nat
      BY <1>3
    <3>1. q(k) \in 0 .. L - 1
      <4>1. q(k) \in Nat /\ q(k) * CU <= k - 1
        BY <3>0, Sizes, Divided
      <4>2. L * CU \in Nat /\ q(k) * CU \in Nat
        BY <1>4, <4>1, Sizes
      <4>3. q(k) * CU < L * CU
        BY <1>3, <1>7, <4>1, <4>2
      <4>4. q(k) < L
        BY <1>4, <4>1, <4>3, Sizes, Multiples
      <4> QED BY <1>4, <4>1, <4>4
    <3>2. p(k) \in 0 .. SPC - 1
      <4> DEFINE a == (k - 1) % CU
      <4>1. a \in 0 .. CU - 1 /\ a \in Nat
        <5> DEFINE b == k - 1
        <5>1. b \in Nat
          BY <3>0
        <5> HIDE DEF b
        <5>2. b % CU \in 0 .. CU - 1
          BY <5>1, Sizes, Divided
        <5>3. b % CU \in Nat
          BY <5>2, Sizes
        <5> QED BY <5>2, <5>3 DEF b
      <4> HIDE DEF a
      <4>2. a \div SU \in Nat /\ (a \div SU) * SU <= a
        BY <4>1, Sizes, Divided
      <4>3. CU = SPC * SU /\ SPC * SU \in Nat /\ (a \div SU) * SU \in Nat
        BY <4>2, Sizes DEF CU
      <4>4. (a \div SU) * SU < SPC * SU
        BY <4>1, <4>2, <4>3
      <4>5. a \div SU < SPC
        BY <4>2, <4>4, Sizes, Multiples
      <4> QED BY <4>2, <4>5, Sizes DEF a
    <3> HIDE DEF q, p, L
    <3>3. Hop(s, q(k))' = HopsIn(fat1, s)[q(k)] /\ Hop(s, q(k)) = HopsIn(fat1, s)[q(k)]
      BY <1>2, <3>1
    <3>4. sector'[Sector(HopsIn(fat1, s)[q(k)], p(k))].units
            = sector[Sector(HopsIn(fat1, s)[q(k)], p(k))].units
      BY <3>1, <3>2 DEF SameUnits, L
    <3> QED BY <3>3, <3>4
  <2> QED BY <2>1, <2>2
<1> QED BY <1>5, <1>6, <1>7

\* What is not below a path does not become so by being shorter.
LEMMA PrefixParts ==
  ASSUME NEW S, NEW t \in Seq(S), NEW p \in Seq(S), NEW x \in S
  PROVE  IsPrefix(p, p) /\ (IsPrefix(t, p) => IsPrefix(t, Append(p, x)))
<1>1. IsPrefix(p, p)
  BY DEF IsPrefix
<1>2. ASSUME IsPrefix(t, p) PROVE IsPrefix(t, Append(p, x))
  <2> DEFINE a == Append(p, x)
  <2>1. Len(t) <= Len(p) /\ SubSeq(t, 1, Len(t)) = SubSeq(p, 1, Len(t)) /\ Len(t) \in Nat
    BY <1>2 DEF IsPrefix
  <2>2. Len(a) = Len(p) + 1 /\ a \in Seq(S) /\ \A k \in 1 .. Len(p) : a[k] = p[k]
    OBVIOUS
  <2>3. SubSeq(a, 1, Len(t)) = SubSeq(p, 1, Len(t))
    <3>1. /\ SubSeq(a, 1, Len(t)) = [k \in 1 .. Len(t) |-> a[k]]
          /\ SubSeq(p, 1, Len(t)) = [k \in 1 .. Len(t) |-> p[k]]
      BY <2>1, <2>2
    <3> QED BY <2>1, <2>2, <3>1
  <2> QED BY <2>1, <2>2, <2>3 DEF IsPrefix
<1> QED BY <1>1, <1>2


-----------------------------------------------------------------------------
(* What a command is not about stays where it is.                          *)

\* The current directory is in the tree, at the path of the history.
Here ==
  \/ cur = Root /\ cwd = <<>>
  \/ cur # Root /\ \E n \in Nodes : n.e.dir /\ n.e.start = cur /\ n.path = cwd

\* The path of the file or directory of the request.
Mine  == Append(cwd, req.name)
Texts == AllNames \cup {""}

\* Paths are sequences of names.
LEMMA MineIs ==
  ASSUME FatInv, NEW R, NEW P, Shape(Es, fat1, R, P), Here
  PROVE  req.name \in Texts /\ cwd \in Seq(Texts) /\ Mine \in Seq(Texts)
         /\ \A n \in Nodes : n.path \in Seq(Texts)
<1>1. req.name \in Texts
  BY DEF FatInv, CommandHas, ReqSet, Texts, AllNames
<1>2. ASSUME NEW n \in Nodes PROVE n.path \in Seq(Texts)
  <2>1. PICK k \in 0 .. MaxDepth : n \in Level[k]
    BY NodesAre
  <2>2. n.path \in Seq(AllNames)
    BY <2>1, NodeIs DEF FatInv
  <2>3. AllNames \subseteq Texts
    BY DEF Texts
  <2> DEFINE p == n.path
  <2> HIDE DEF p
  <2>4. p \in Seq(AllNames)
    BY <2>2 DEF p
  <2>5. Len(p) \in Nat /\ DOMAIN p = 1 .. Len(p) /\ \A i \in 1 .. Len(p) : p[i] \in Texts
    BY <2>3, <2>4
  <2>6. p \in Seq(Texts)
    BY <2>3, <2>4, <2>5
  <2> QED BY <2>6 DEF p
<1>3. cwd \in Seq(Texts)
  <2>1. <<>> \in Seq(Texts)
    OBVIOUS
  <2> QED BY <1>2, <2>1 DEF Here
<1>4. Mine \in Seq(Texts)
  BY <1>1, <1>3 DEF Mine
<1> QED BY <1>1, <1>2, <1>3, <1>4

\* A place in the current directory with the name of the request has its path.
LEMMA AimedIsMine ==
  ASSUME FatInv, NEW R, NEW P, Shape(Es, fat1, R, P), cur \in Dirs(R), Here,
         NEW d \in Dirs(R), NEW l \in In(fat1, d), Aimed(Es, fat1, Cmd, l)
  PROVE  /\ d = Root => <<Es[l].name>> = Mine
         /\ \A m \in Nodes : m.e.dir /\ m.e.start = d /\ d # Root
                             => Append(m.path, Es[l].name) = Mine
<1>1. l \in In(fat1, cur) /\ Es[l].name = req.name
  BY DEF Aimed, Cmd
<1>2. Es \in Entries /\ fat1 \in Tables
  BY EsHas DEF FatInv
<1>3. d = cur
  BY <1>1, <1>2, OneDirectory
<1>4. ASSUME d = Root PROVE <<Es[l].name>> = Mine
  <2>1. cwd = <<>>
    BY <1>3, <1>4 DEF Here
  <2>2. Append(<<>>, req.name) = <<req.name>>
    OBVIOUS
  <2> QED BY <1>1, <2>1, <2>2 DEF Mine
<1>5. ASSUME NEW m \in Nodes, m.e.dir, m.e.start = d, d # Root
      PROVE  Append(m.path, Es[l].name) = Mine
  <2>1. PICK n \in Nodes : n.e.dir /\ n.e.start = cur /\ n.path = cwd
    BY <1>3, <1>5 DEF Here
  <2>2. cur \in ChainIn(fat1, cur)
    BY <1>2, <1>3, <1>5, DirTaken DEF Dirs
  <2>3. m = n
    BY <1>3, <1>5, <2>1, <2>2, OneNode DEF FatInv
  <2> QED BY <1>1, <2>1, <2>3 DEF Mine
<1> QED BY <1>4, <1>5

\* A node that is neither the one of the request nor below it stays.
LEMMA NodesStay ==
  ASSUME FatInv, FatInv', NEW R, NEW P, Shape(Es, fat1, R, P), cur \in Dirs(R), Here,
         NEW Q, NEW O, Shape(Es', fat1', Q, O),
         Kept(Es, fat1, R, Es', fat1', Cmd),
         NEW k \in 0 .. MaxDepth, NEW n \in Level[k], Proper(n.e), ~IsPrefix(Mine, n.path)
  PROVE  n \in Level'[k] /\ \E l \in Props(Es) : n.e = Es[l] /\ ~Aimed(Es, fat1, Cmd, l)
<1> DEFINE Stays(j, x) ==
             x \in Level'[j] /\ \E l \in Props(Es) : x.e = Es[l] /\ ~Aimed(Es, fat1, Cmd, l)
           S == {j \in Nat : j <= MaxDepth =>
                   \A x \in Level[j] : Proper(x.e) /\ ~IsPrefix(Mine, x.path) => Stays(j, x)}
<1>1. DiskHas /\ Es \in Entries /\ fat1 \in Tables
  BY EsHas DEF FatInv
<1>2. TreeFits' /\ Es' \in Entries
  BY FitsNext, EsType DEF FatInv, EsTyped
<1>3. req.name \in Texts /\ Mine \in Seq(Texts) /\ \A x \in Nodes : x.path \in Seq(Texts)
  BY MineIs
<1>4. ASSUME NEW d \in Dirs(R), NEW l \in In(fat1, d), Proper(Es[l]), ~Aimed(Es, fat1, Cmd, l)
      PROVE  l \in In(fat1', d) /\ Es'[l] = Es[l] /\ Proper(Es'[l]) /\ l \in Props(Es)
  <2>1. l \in Props(Es)
    BY <1>4 DEF Props, In
  <2> QED BY <1>4, <2>1 DEF Kept
<1>5. 0 \in S
  <2> SUFFICES ASSUME NEW x \in Level[0], Proper(x.e), ~IsPrefix(Mine, x.path)
               PROVE  Stays(0, x)
    OBVIOUS
  <2>1. 0 \in 0 .. MaxDepth /\ x \in Nodes
    BY NodesAre
  <2>2. PICK l \in In(fat1, Root) : x.e = Es[l] /\ x = [path |-> <<Es[l].name>>, e |-> Es[l]]
    BY <1>1, <2>1, NodeIs
  <2>3. Root \in Dirs(R) /\ Root \in Dirs(Q)
    BY DEF Dirs
  <2>4. ~Aimed(Es, fat1, Cmd, l)
    <3> SUFFICES ASSUME Aimed(Es, fat1, Cmd, l) PROVE FALSE
      OBVIOUS
    <3>1. x.path = Mine
      BY <2>2, <2>3, AimedIsMine
    <3> QED BY <1>3, <2>1, <3>1, PrefixParts
  <2>5. l \in In(fat1', Root) /\ Es'[l] = Es[l] /\ Proper(Es'[l]) /\ l \in Props(Es)
    BY <1>4, <2>2, <2>3, <2>4
  <2>6. [path |-> <<Es'[l].name>>, e |-> Es'[l]] \in Level'[0]
    BY <1>2, <2>3, <2>5 DEF TreeFits, Reaches
  <2> QED BY <2>2, <2>4, <2>5, <2>6
<1>6. ASSUME NEW j \in Nat, j \in S PROVE j + 1 \in S
  <2> SUFFICES ASSUME j + 1 <= MaxDepth,
                      NEW x \in Level[j + 1], Proper(x.e), ~IsPrefix(Mine, x.path)
               PROVE  Stays(j + 1, x)
    OBVIOUS
  <2>1. /\ j + 1 \in 1 .. MaxDepth /\ j + 1 \in 0 .. MaxDepth /\ (j + 1) - 1 = j
        /\ j <= MaxDepth /\ j \in 0 .. MaxDepth /\ j + 1 > 0
    BY NodesAre
  <2>2. x \in Nodes
    BY <2>1, NodesAre
  <2>3. PICK d \in Dirs(R), l \in LocSet :
          /\ x.e = Es[l] /\ l \in In(fat1, d)
          /\ \E m \in Level[j] :
               /\ m.e.dir /\ m.e.start = d /\ d # Root
               /\ x = [path |-> Append(m.path, Es[l].name), e |-> Es[l]]
    <3> DEFINE i == j + 1
    <3>1. i \in 0 .. MaxDepth /\ x \in Level[i] /\ i > 0 /\ i - 1 = j
      BY <2>1
    <3> HIDE DEF i
    <3>2. \E d \in Dirs(R), l \in LocSet :
            /\ x.e = Es[l] /\ l \in In(fat1, d)
            /\ \E m \in Level[i - 1] :
                 /\ m.e.dir /\ m.e.start = d /\ d # Root
                 /\ x = [path |-> Append(m.path, Es[l].name), e |-> Es[l]]
      BY <1>1, <3>1, NodeIs
    <3> QED BY <3>1, <3>2
  <2>4. PICK m \in Level[j] : /\ m.e.dir /\ m.e.start = d /\ d # Root
                              /\ x = [path |-> Append(m.path, Es[l].name), e |-> Es[l]]
    BY <2>3
  <2>5. m \in Nodes
    BY <2>1, NodesAre
  <2>6. Es[l].name \in Texts /\ m.path \in Seq(Texts)
    BY <1>1, <1>3, <2>5, EntryParts DEF EntrySet, Texts
  <2>7. ~IsPrefix(Mine, m.path)
    BY <1>3, <2>4, <2>6, PrefixParts
  <2>8. Proper(m.e)
    <3>1. PICK y \in LocSet : m.e = Es[y] /\ (Proper(Es[y]) \/ Es[y] = Garbage)
      BY <1>1, <2>1, NodeIs
    <3> QED BY <2>4, <3>1 DEF Garbage
  <2>9. m \in Level'[j]
    BY <1>6, <2>1, <2>7, <2>8
  <2>10. ~Aimed(Es, fat1, Cmd, l)
    <3> SUFFICES ASSUME Aimed(Es, fat1, Cmd, l) PROVE FALSE
      OBVIOUS
    <3>1. x.path = Mine
      BY <2>3, <2>4, <2>5, AimedIsMine
    <3> QED BY <1>3, <2>2, <3>1, PrefixParts
  <2>11. l \in In(fat1', d) /\ Es'[l] = Es[l] /\ Proper(Es'[l]) /\ l \in Props(Es)
    BY <1>4, <2>3, <2>10
  <2>12. d \in Dirs(Q)
    <3>1. PICK b \in Dirs(Q), y \in LocSet :
            m.e = Es'[y] /\ y \in In(fat1', b) /\ (Proper(Es'[y]) \/ Es'[y] = Garbage)
      BY <1>2, <2>1, <2>9 DEF TreeFits, Placed
    <3>2. y \in Props(Es')
      BY <2>8, <3>1 DEF Props
    <3>3. Es'[y].start \in Q
      BY <2>4, <3>1, <3>2 DEF Shape, Lies
    <3> QED BY <2>4, <3>1, <3>3 DEF Dirs
  <2>13. [path |-> Append(m.path, Es'[l].name), e |-> Es'[l]] \in Level'[j + 1]
    BY <1>2, <2>1, <2>4, <2>9, <2>11, <2>12 DEF TreeFits, Reaches
  <2> QED BY <2>4, <2>10, <2>11, <2>13
<1> HIDE DEF S
<1>7. Nat \subseteq S
  BY <1>5, <1>6, Induct
<1>8. k \in S /\ k <= MaxDepth
  BY <1>7, NodesAre
<1> QED BY <1>8 DEF S


-----------------------------------------------------------------------------
(* A sector write changes only the file or directory of the request.       *)

KeptFiles ==
  \A f \in Untouched(files) : \E n \in Nodes : Proper(n.e) /\ f = Node(n.path, n.e)
\* The sectors that the tables would share with the data area.
NothingBehind == \A t \in {"fat1", "fat2"} : Beyond[t] \notin Sectors

\* The current directory is not under the file of the request.
LEMMA MineIsLonger ==
  ASSUME cwd \in Seq(Texts), req.name \in Texts
  PROVE  ~IsPrefix(Mine, cwd)
<1>1. Len(Mine) = Len(cwd) + 1 /\ Len(cwd) \in Nat
  BY DEF Mine
<1> QED BY <1>1 DEF IsPrefix

\* A write that keeps the entries, and the units of files.
LEMMA WriteKeeps ==
  ASSUME FatInv, FatInv', TreeInv', NEW R, NEW P, Shape(Es, fat1, R, P), cur \in Dirs(R),
         Here, KeptFiles, UNCHANGED <<cur, req, files, cwd>>,
         Kept(Es, fat1, R, Es', fat1', Cmd),
         \A l \in Props(Es) : Aimed(Es, fat1, Cmd, l) \/ Es[l].dir \/ SameUnits(Es[l].start)
  PROVE  Here' /\ KeptFiles'
<1>1. PICK Q, O : Shape(Es', fat1', Q, O)
  BY DEF TreeInv
<1>2. TreeFits' /\ Es \in Entries
  BY FitsNext, EsHas DEF FatInv
<1>3. ASSUME NEW n \in Nodes, Proper(n.e), ~IsPrefix(Mine, n.path)
      PROVE  n \in Nodes' /\ \E l \in Props(Es) : n.e = Es[l] /\ ~Aimed(Es, fat1, Cmd, l)
  <2>1. PICK k \in 0 .. MaxDepth : n \in Level[k]
    BY NodesAre
  <2>2. n \in Level'[k] /\ \E l \in Props(Es) : n.e = Es[l] /\ ~Aimed(Es, fat1, Cmd, l)
    BY <1>1, <1>3, <2>1, NodesStay
  <2> QED BY <1>2, <2>2 DEF TreeFits, InLevels
<1>4. Here'
  <2>1. CASE cur = Root
    BY <2>1 DEF Here
  <2>2. CASE cur # Root
    <3>1. PICK n \in Nodes : n.e.dir /\ n.e.start = cur /\ n.path = cwd
      BY <2>2 DEF Here
    <3>2. PICK k \in 0 .. MaxDepth : n \in Level[k]
      BY NodesAre
    <3>3. PICK l \in LocSet : n.e = Es[l] /\ (Proper(Es[l]) \/ Es[l] = Garbage)
      BY <3>2, NodeIs DEF FatInv
    <3>4. Proper(n.e)
      BY <3>1, <3>3 DEF Garbage
    <3>5. ~IsPrefix(Mine, n.path)
      BY <3>1, MineIs, MineIsLonger
    <3>6. n \in Nodes'
      BY <1>3, <3>4, <3>5
    <3> QED BY <2>2, <3>1, <3>6 DEF Here
  <2> QED BY <2>1, <2>2
<1>5. KeptFiles'
  <2> SUFFICES ASSUME NEW f \in Untouched(files)'
               PROVE  \E n \in Nodes' : Proper(n.e) /\ f = Node(n.path, n.e)'
    BY DEF KeptFiles
  <2>1. f \in Untouched(files) /\ ~IsPrefix(Mine, f.path)
    BY DEF Untouched, Target, Mine
  <2>2. PICK n \in Nodes : Proper(n.e) /\ f = Node(n.path, n.e)
    BY <2>1 DEF KeptFiles
  <2>3. f.path = n.path
    BY <2>2 DEF Node
  <2>4. n \in Nodes'
    BY <1>3, <2>1, <2>2, <2>3
  <2>5. PICK l \in Props(Es) : n.e = Es[l] /\ ~Aimed(Es, fat1, Cmd, l)
    BY <1>3, <2>1, <2>2, <2>3
  <2>6. ~n.e.dir => Contents(n.e)' = Contents(n.e)
    <3> SUFFICES ASSUME ~n.e.dir PROVE Contents(n.e)' = Contents(n.e)
      OBVIOUS
    <3> DEFINE e == n.e
    <3>1. e \in EntrySet
      BY <1>2, <2>5, EntryParts DEF Props
    <3>2. SameUnits(e.start) /\ SameChain(fat1, fat1', e.start)
      BY <2>5 DEF Kept
    <3>3. DiskHas /\ DiskHas'
      BY DEF FatInv
    <3> HIDE DEF e
    <3>4. Contents(e)' = Contents(e)
      BY <3>1, <3>2, <3>3, ContentsKept
    <3> QED BY <3>4 DEF e
  <2>7. Node(n.path, n.e)' = Node(n.path, n.e)
    BY <2>6 DEF Node
  <2> QED BY <2>2, <2>4, <2>7
<1> QED BY <1>4, <1>5

\* Each of the five sector writes.
LEMMA WritesKeep ==
  ASSUME NothingBehind, FatInv, FatInv', TreeInv, TreeInv', Here, KeptFiles, DiskWrite
  PROVE  Here' /\ KeptFiles'
<1>1. PICK to : Write(to)
  BY DEF DiskWrite, WriteFat1, WriteFat2, StrayWrite, WriteEntry, WriteSector
<1>2. UNCHANGED <<cur, req, files, cwd>>
  BY <1>1 DEF Write
<1>3. /\ Es \in Entries /\ fat1 \in Tables /\ Es' \in Entries /\ fat1' \in Tables
      /\ todo \in Seq(WriteSet) /\ todo # <<>> /\ todo[1] = Head(todo) /\ todo[1] \in WriteSet
      /\ \E R, P : Shape(Es, fat1, R, P) /\ Working(Es, fat1, todo, Cmd, R, P)
  BY <1>1, WriteBegins
<1>4. PICK R, P : Shape(Es, fat1, R, P) /\ Working(Es, fat1, todo, Cmd, R, P)
  BY <1>3
<1>5. cur \in Dirs(R)
  BY <1>4 DEF Working, Cmd
<1>6. sector' = sector => \A s : SameUnits(s)
  BY DEF SameUnits
<1>7. ASSUME NEW l \in Props(Es),
             \A j \in 0 .. LengthIn(fat1, Es[l].start) - 1, p \in 0 .. SPC - 1 :
               LET z == Sector(HopsIn(fat1, Es[l].start)[j], p)
               IN  z \in Sectors => sector'[z].units = sector[z].units
      PROVE  SameUnits(Es[l].start)
  <2>1. Es[l].start \in 0 .. EOC
    BY <1>3, EntryParts DEF Props
  <2> QED BY <1>7, <2>1, UnitsSame DEF FatInv
<1>8. Kept(Es, fat1, R, Es', fat1', Cmd) /\
      \A l \in Props(Es) : Aimed(Es, fat1, Cmd, l) \/ Es[l].dir \/ SameUnits(Es[l].start)
  <2> HIDE DEF Cmd
  <2>1. CASE WriteFat1
    <3>1. Es' = Es /\ sector' = sector
      BY <2>1, SameEntries DEF WriteFat1
    <3>2. todo[1].to = "fat1" /\ todo[1].c \in Table
      BY <1>3, <2>1 DEF WriteFat1, Write
    <3>3. PutIn(fat1, fat1', todo[1].c, todo[1].v)
      BY <1>3, <2>1 DEF WriteFat1, PutIn, Tables
    <3>4. Kept(Es, fat1, R, Es, fat1', Cmd)
      BY <1>3, <1>4, <3>2, <3>3, FatKeeps
    <3> QED BY <1>6, <3>1, <3>4
  <2>2. CASE WriteFat2 \/ StrayWrite
    <3>1. root' = root /\ sector' = sector /\ fat1' = fat1
      BY <2>2 DEF WriteFat2, StrayWrite, NothingBehind
    <3>2. Es' = Es
      BY <3>1, SameEntries
    <3> QED BY <1>6, <3>1, <3>2 DEF Kept, SameChain
  <2>3. CASE WriteEntry
    <3> DEFINE loc == todo[1].loc
    <3>1. todo[1].to = "entry" /\ fat1' = fat1
      BY <1>3, <2>3 DEF WriteEntry, Write
    <3>2. loc \in LocSet
      BY <1>3, <3>1 DEF WriteSet, FatWrites
    <3>3. OneEntry(Es, Es', loc)
      <4> DEFINE e == todo[1].e
      <4>1. DiskHas /\ DiskHas'
        BY DEF FatInv
      <4>2. IF loc.c = Root
              THEN root' = [root EXCEPT ![loc.i] = e] /\ sector' = sector
              ELSE /\ sector' = [sector EXCEPT
                         ![Sector(loc.c, loc.i \div ES)].entries[loc.i % ES] = e]
                   /\ root' = root
        BY <1>3, <2>3 DEF WriteEntry
      <4> HIDE DEF loc, e
      <4> QED BY <3>1, <3>2, <4>1, <4>2, EntryWritten
    <3>4. Kept(Es, fat1, R, Es', fat1, Cmd)
      BY <1>3, <1>4, <3>1, <3>3, EntryKeeps
    <3>5. \A z \in Sectors : sector'[z].units = sector[z].units
      <4>1. CASE loc.c = Root
        BY <1>3, <1>6, <2>3, <4>1 DEF WriteEntry
      <4>2. CASE loc.c # Root
        <5> DEFINE x == Sector(loc.c, loc.i \div ES)
                   i == loc.i % ES
        <5>1. sector' = [sector EXCEPT ![x].entries[i] = todo[1].e]
          BY <1>3, <2>3, <4>2 DEF WriteEntry
        <5> HIDE DEF x, i
        <5>2. sector \in [Sectors -> SectorSet]
          BY DEF FatInv, DiskHas
        <5>3. ASSUME NEW z \in Sectors PROVE sector'[z].units = sector[z].units
          <6>1. CASE z = x
            <7>1. sector'[x] = [sector[x] EXCEPT !.entries[i] = todo[1].e]
              BY <5>1, <5>2, <6>1
            <7>2. sector[x] \in SectorSet
              BY <5>2, <6>1
            <7> QED BY <6>1, <7>1, <7>2 DEF SectorSet
          <6>2. CASE z # x
            BY <5>1, <5>2, <6>2
          <6> QED BY <6>1, <6>2
        <5> QED BY <5>3
      <4> QED BY <4>1, <4>2
    <3>6. \A l \in Props(Es) : SameUnits(Es[l].start)
      BY <1>7, <3>5
    <3> QED BY <3>1, <3>4, <3>6
  <2>4. CASE WriteSector
    <3>1. /\ todo[1].to = "sector" /\ root' = root /\ fat1' = fat1
          /\ sector' = IF todo[1].s \in Sectors THEN [sector EXCEPT ![todo[1].s] = todo[1].x] ELSE sector
      BY <1>3, <2>4 DEF WriteSector, Write
    <3>2. \A l \in LocSet :
            Es'[l] = IF l.c # Root /\ Sector(l.c, l.i \div ES) = todo[1].s
                       THEN todo[1].x.entries[l.i % ES] ELSE Es[l]
      BY <3>1, SectorWritten DEF FatInv
    <3>3. /\ Kept(Es, fat1, R, Es', fat1, Cmd)
          /\ \A l \in Props(Es) :
               \/ Aimed(Es, fat1, Cmd, l) \/ Es[l].dir
               \/ \A j \in 0 .. LengthIn(fat1, Es[l].start) - 1, p \in 0 .. SPC - 1 :
                    Sector(HopsIn(fat1, Es[l].start)[j], p) # todo[1].s
      BY <1>3, <1>4, <3>1, <3>2, SectorKeeps
    <3>4. \A z \in Sectors : z # todo[1].s => sector'[z] = sector[z]
      BY <3>1 DEF FatInv, DiskHas
    <3>5. ASSUME NEW l \in Props(Es),
                 \A j \in 0 .. LengthIn(fat1, Es[l].start) - 1, p \in 0 .. SPC - 1 :
                   Sector(HopsIn(fat1, Es[l].start)[j], p) # todo[1].s
          PROVE  SameUnits(Es[l].start)
      BY <1>7, <3>4, <3>5
    <3> QED BY <3>1, <3>3, <3>5
  <2> QED BY <2>1, <2>2, <2>3, <2>4 DEF DiskWrite
<1> QED BY <1>2, <1>4, <1>5, <1>8, WriteKeeps


-----------------------------------------------------------------------------
(* The files others have, over all steps.                                  *)

OthersInv ==
  /\ ~failed => Here
  /\ Ready => files = Tree
  /\ ~Idle => ~failed /\ KeptFiles

\* What a reader of the disk finds depends on nothing else.
LEMMA SameTree ==
  ASSUME DiskHas, DiskHas', UNCHANGED disk
  PROVE  Nodes' = Nodes /\ Tree' = Tree /\ \A p, e : Node(p, e)' = Node(p, e)
<1>0. fat1' = fat1 /\ root' = root /\ sector' = sector
  BY DEF disk
<1>1. Follow' = Follow
  BY <1>0 DEF Follow
<1>2. \A c, k : Hop(c, k)' = Hop(c, k)
  BY <1>1 DEF Hop
<1>3. \A c : ChainLength(c)' = ChainLength(c)
  BY <1>2 DEF ChainLength
<1>4. \A d : Positions(d)' = Positions(d)
  BY <1>3 DEF Positions
<1>5. \A d, k : EntryAt(d, k)' = EntryAt(d, k)
  <2>1. \A d, k : Slot(d, k)' = Slot(d, k)
    BY <1>2 DEF Slot
  <2> QED BY <1>0, <2>1 DEF EntryAt, Entry
<1>6. \A d : Live(d)' = Live(d)
  <2>1. \A d : Used(d)' = Used(d)
    BY <1>4, <1>5 DEF Used
  <2> QED BY <1>5, <2>1 DEF Live
<1>7. \A p, d : Below(p, d)' = Below(p, d)
  BY <1>6 DEF Below
<1>8. Level' = Level
  <2>1. \A S : NextLevel(S)' = NextLevel(S)
    BY <1>7 DEF NextLevel
  <2>2. \A f : AreLevels(MaxDepth, f)' <=> AreLevels(MaxDepth, f)
    BY <1>7, <2>1 DEF AreLevels
  <2> QED BY <2>2 DEF Level
<1>9. Nodes' = Nodes
  <2>1. InLevels /\ InLevels'
    BY FitsNow, FitsNext DEF TreeFits
  <2> QED BY <1>8, <2>1 DEF InLevels
<1>10. \A e : Contents(e)' = Contents(e)
  BY <1>0, <1>2, <1>3 DEF Contents
<1>11. \A p, e : Node(p, e)' = Node(p, e)
  BY <1>10 DEF Node
<1> QED BY <1>9, <1>11 DEF Tree

\* The current directory stays.
LEMMA SameHere ==
  ASSUME DiskHas, DiskHas', UNCHANGED disk, UNCHANGED <<cur, cwd>>, Here
  PROVE  Here'
BY SameTree DEF Here

\* The files of others stay.
LEMMA SameFiles ==
  ASSUME DiskHas, DiskHas', UNCHANGED disk, UNCHANGED <<cwd, req, files>>, KeptFiles
  PROVE  KeptFiles'
<1>1. Nodes' = Nodes /\ \A p, e : Node(p, e)' = Node(p, e)
  BY SameTree
<1>2. Untouched(files)' = Untouched(files)
  BY DEF Untouched, Target
<1> QED BY <1>1, <1>2 DEF KeptFiles

\* At the beginning every file is in the tree.
LEMMA BeginKeeps ==
  ASSUME FatInv, FatInv', TreeInv, OthersInv,
         NEW q, NEW stage, NEW w, NEW g, Begin(q, stage, w, g), stage # "idle"
  PROVE  OthersInv'
<1>1. /\ Ready /\ ~failed /\ pc' = stage /\ files' = files /\ failed' = failed
      /\ UNCHANGED disk /\ UNCHANGED <<cur, cwd>>
  BY DEF Begin, Ready
<1>2. DiskHas /\ DiskHas'
  BY DEF FatInv
<1>3. Here'
  BY <1>1, <1>2, SameHere DEF OthersInv
<1>4. PICK R, P : AtRest(R, P)
  BY <1>1, ReadyHas
<1>5. ASSUME NEW n \in Nodes PROVE Proper(n.e)
  <2>1. PICK k \in 0 .. MaxDepth : n \in Level[k]
    BY NodesAre
  <2>2. PICK d \in Dirs(R), l \in LocSet :
          n.e = Es[l] /\ l \in In(fat1, d) /\ (Proper(Es[l]) \/ Es[l] = Garbage)
    BY <1>2, <1>4, <2>1, NodeIs DEF AtRest
  <2>3. Clean(Es, fat1, R, d, l)
    <3>1. ~Pending(l, <<>>)
      BY DEF Pending
    <3> QED BY <1>4, <2>2, <3>1 DEF AtRest, AllClean
  <2> QED BY <2>2, <2>3 DEF Clean, Garbage, Empty, Deleted, Proper, Special
<1>6. KeptFiles'
  <2> SUFFICES ASSUME NEW f \in Untouched(files)'
               PROVE  \E n \in Nodes' : Proper(n.e) /\ f = Node(n.path, n.e)'
    BY DEF KeptFiles
  <2>1. f \in Tree
    BY <1>1 DEF Untouched, OthersInv
  <2>2. PICK n \in Nodes : f = Node(n.path, n.e)
    BY <2>1 DEF Tree
  <2> QED BY <1>1, <1>2, <1>5, <2>2, SameTree
<1> QED BY <1>1, <1>3, <1>6 DEF OthersInv, Ready, Idle

\* A stage that queues writes.
LEMMA ContinueKeeps ==
  ASSUME FatInv, FatInv', OthersInv, ~Idle,
         NEW stage, NEW w, NEW g, Continue(stage, w, g), stage # "idle"
  PROVE  OthersInv'
<1>1. /\ pc' = stage /\ failed' = failed
      /\ UNCHANGED disk /\ UNCHANGED <<cur, cwd>> /\ UNCHANGED <<cwd, req, files>>
  BY DEF Continue
<1>2. DiskHas /\ DiskHas'
  BY DEF FatInv
<1>3. Here' /\ KeptFiles'
  BY <1>1, <1>2, SameHere, SameFiles DEF OthersInv
<1> QED BY <1>1, <1>3 DEF OthersInv, Ready, Idle

\* A command that ends.
LEMMA FinishKeeps ==
  ASSUME FatInv, FatInv', OthersInv, NEW err, Finish(err)
  PROVE  OthersInv'
<1>1. /\ pc' = "idle" /\ failed' = failed /\ files' = Tree
      /\ UNCHANGED disk /\ UNCHANGED <<cur, cwd>>
  BY DEF Finish, Return
<1>2. DiskHas /\ DiskHas'
  BY DEF FatInv
<1>3. (~failed => Here') /\ Tree' = Tree
  BY <1>1, <1>2, SameHere, SameTree DEF OthersInv
<1> QED BY <1>1, <1>3 DEF OthersInv, Ready, Idle

\* A command that writes nothing.
LEMMA AnswerKeeps ==
  ASSUME FatInv, FatInv', OthersInv, NEW q, NEW err, NEW out, Answer(q, err, out)
  PROVE  OthersInv'
<1>1. /\ Ready /\ pc' = "idle" /\ failed' = failed /\ files' = files
      /\ UNCHANGED disk /\ UNCHANGED <<cur, cwd>>
  BY DEF Answer, Return
<1>2. DiskHas /\ DiskHas'
  BY DEF FatInv
<1>3. (~failed => Here') /\ Tree' = Tree
  BY <1>1, <1>2, SameHere, SameTree DEF OthersInv
<1> QED BY <1>1, <1>3 DEF OthersInv, Ready, Idle

\* A command that moves to another directory.
LEMMA MoveKeeps ==
  ASSUME FatInv, FatInv', OthersInv, NEW q, NEW d, MoveTo(q, d),
         NEW R, NEW P, AtRest(R, P), d \in Dirs(R)
  PROVE  OthersInv'
<1>1. /\ Ready /\ pc' = "idle" /\ failed' = failed /\ files' = files
      /\ UNCHANGED disk /\ cur' = d /\ cwd' = PathOf(d)
  BY DEF MoveTo, Return
<1>2. DiskHas /\ DiskHas'
  BY DEF FatInv
<1>3. Nodes' = Nodes /\ Tree' = Tree
  BY <1>1, <1>2, SameTree
<1>4. Here'
  <2>1. CASE d = Root
    BY <1>1, <2>1 DEF Here, PathOf
  <2>2. CASE d # Root
    <3>1. PICK m \in Props(Es) : Es[m].dir /\ Es[m].start = d
      BY <2>2 DEF AtRest, Shape, Named, Dirs
    <3>2. PICK x \in Dirs(R) : m \in In(fat1, x)
      BY <3>1 DEF AtRest, Shape, Lies
    <3>3. \E n \in Nodes : n.e.dir /\ n.e.start = d
      BY <1>2, <3>1, <3>2, HasNode DEF AtRest, Props
    <3> DEFINE y == CHOOSE n \in Nodes : n.e.dir /\ n.e.start = d
    <3>4. y \in Nodes /\ y.e.dir /\ y.e.start = d
      BY <3>3
    <3>5. PathOf(d) = y.path
      BY <2>2 DEF PathOf
    <3> HIDE DEF y
    <3>6. \E n \in Nodes' : n.e.dir /\ n.e.start = cur' /\ n.path = cwd'
      BY <1>1, <1>3, <3>4, <3>5
    <3> QED BY <1>1, <2>2, <3>6 DEF Here
  <2> QED BY <2>1, <2>2
<1> QED BY <1>1, <1>3, <1>4 DEF OthersInv, Ready, Idle

\* A sector write.
LEMMA WriteOthers ==
  ASSUME NothingBehind, FatInv, FatInv', TreeInv, TreeInv', OthersInv, DiskWrite
  PROVE  OthersInv'
<1>1. PICK to : Write(to)
  BY DEF DiskWrite, WriteFat1, WriteFat2, StrayWrite, WriteEntry, WriteSector
<1>2. pc' = pc /\ failed' = failed /\ ~Idle
  BY <1>1 DEF Write, FatInv, StageHas, Needs, Idle
<1>3. Here' /\ KeptFiles'
  BY <1>2, WritesKeep DEF OthersInv
<1> QED BY <1>2, <1>3 DEF OthersInv, Ready, Idle

\* A failed access.
LEMMA FailKeeps ==
  ASSUME Fail
  PROVE  OthersInv'
<1>1. failed' /\ pc' = "idle"
  BY DEF Fail, Return
<1> QED BY <1>1 DEF OthersInv, Ready, Idle

\* A step that changes nothing.
LEMMA StutterKeeps ==
  ASSUME FatInv, FatInv', OthersInv, UNCHANGED vars
  PROVE  OthersInv'
<1>1. /\ UNCHANGED disk /\ UNCHANGED <<cur, cwd>> /\ UNCHANGED <<cwd, req, files>>
      /\ failed' = failed /\ pc' = pc
  BY DEF vars
<1>2. DiskHas /\ DiskHas'
  BY DEF FatInv
<1>3. (~failed => Here') /\ (~Idle => KeptFiles') /\ Tree' = Tree
  BY <1>1, <1>2, SameHere, SameFiles, SameTree DEF OthersInv
<1> QED BY <1>1, <1>3 DEF OthersInv, Ready, Idle


-----------------------------------------------------------------------------
(* The disk is sound.                                                      *)

\* Every command.
LEMMA CommandKeeps ==
  ASSUME FatInv, FatInv', TreeInv, OthersInv, DirCommand \/ FileCommand
  PROVE  OthersInv'
<1>1. CASE \E q, err, out : Answer(q, err, out)
  BY <1>1, AnswerKeeps
<1>2. CASE \E q, stage, w, g : Begin(q, stage, w, g) /\ stage # "idle"
  BY <1>2, BeginKeeps
<1>3. CASE ParentDir \/ RootDir \/ \E n \in Names : ChangeDir(n)
  <2>1. CASE \E q, d, R, P : MoveTo(q, d) /\ AtRest(R, P) /\ d \in Dirs(R)
    BY <2>1, MoveKeeps
  <2>2. CASE \E q, err : Refuse(q, err)
    BY <1>1, <2>2 DEF Refuse
  <2> QED BY <1>3, <2>1, <2>2, MovesWithin
<1>4. ASSUME NEW n \in Names, CreateFile(n) \/ MakeDir(n)
      PROVE  OthersInv'
  <2>1. \/ \E q, err : Refuse(q, err)
        \/ \E q, w, g : Begin(q, "slot", w, g)
    BY <1>4 DEF CreateFile, MakeDir
  <2>2. "slot" # "idle"
    OBVIOUS
  <2> QED BY <1>1, <1>2, <2>1, <2>2 DEF Refuse
<1>5. ASSUME NEW q, NEW loc, Delete(q, loc) PROVE OthersInv'
  <2> DEFINE stage == IF Entry(loc).start = 0 THEN "end" ELSE "free"
  <2>1. \E w, g : Begin(q, stage, w, g)
    BY <1>5 DEF Delete
  <2>2. stage # "idle"
    OBVIOUS
  <2> HIDE DEF stage
  <2> QED BY <1>2, <2>1, <2>2
<1>6. ASSUME NEW n \in Names, EraseFile(n) \/ DeleteDir(n)
      PROVE  OthersInv'
  BY <1>1, <1>5, <1>6 DEF EraseFile, DeleteDir, Refuse
<1>7. ASSUME NEW n \in Names, NEW new \in Names, Rename(n, new)
      PROVE  OthersInv'
  <2>1. \/ \E q, err : Refuse(q, err)
        \/ \E q, w, g : Begin(q, "end", w, g)
    BY <1>7 DEF Rename
  <2>2. "end" # "idle"
    OBVIOUS
  <2> QED BY <1>1, <1>2, <2>1, <2>2 DEF Refuse
<1>8. ASSUME NEW n \in Names, NEW data \in AppendData, AppendTo(n, data)
      PROVE  OthersInv'
  <2>1. CASE \E q, err : Refuse(q, err)
    BY <1>1, <2>1 DEF Refuse
  <2>2. CASE ~\E q, err : Refuse(q, err)
    <3> DEFINE S(loc) == IF Entry(loc).start = 0 THEN "first" ELSE "walk"
    <3>1. PICK q, loc, w, g : Begin(q, S(loc), w, g)
      BY <1>8, <2>2 DEF AppendTo
    <3>2. S(loc) # "idle"
      OBVIOUS
    <3> HIDE DEF S
    <3> QED BY <1>2, <3>1, <3>2
  <2> QED BY <2>1, <2>2
<1>9. ASSUME NEW n \in Names, LoadFile(n) PROVE OthersInv'
  BY <1>1, <1>9 DEF LoadFile, Refuse
<1> QED BY <1>3, <1>4, <1>6, <1>7, <1>8, <1>9 DEF DirCommand, FileCommand

\* Every stage.
LEMMA StageKeeps ==
  ASSUME FatInv, FatInv', OthersInv, Stage
  PROVE  OthersInv'
<1>1. CASE \E err : Finish(err)
  BY <1>1, FinishKeeps
<1>2. ASSUME NEW stage, NEW w, NEW g, Continue(stage, w, g), stage # "idle", ~Idle
      PROVE  OthersInv'
  BY <1>2, ContinueKeeps
<1>3. ASSUME NEW now, now # "idle", At(now) PROVE ~Idle
  BY <1>3 DEF At, Idle
<1>4. CASE EnterName \/ ExtendDir \/ FreeNextCluster
  <2>1. At("slot") \/ At("free")
    BY <1>4 DEF EnterName, ExtendDir, FreeNextCluster
  <2>2. ~Idle
    BY <1>3, <2>1
  <2>3. PICK stage, w, g : Continue(stage, w, g) /\ stage \in {"end", "slot", "free"}
    <3>1. CASE EnterName
      BY <3>1 DEF EnterName
    <3>2. CASE ExtendDir
      BY <3>2 DEF ExtendDir
    <3>3. CASE FreeNextCluster
      <4> DEFINE s == IF r.clu >= EOC THEN "end" ELSE "free"
      <4>1. \E w, g : Continue(s, w, g)
        BY <3>3 DEF FreeNextCluster
      <4>2. s \in {"end", "slot", "free"}
        OBVIOUS
      <4> HIDE DEF s
      <4> QED BY <4>1, <4>2
    <3> QED BY <1>4, <3>1, <3>2, <3>3
  <2> QED BY <1>2, <2>2, <2>3
<1>5. CASE NoSlot \/ OutOfMemory \/ End
  BY <1>1, <1>5 DEF NoSlot, OutOfMemory, End
<1>6. CASE FirstCluster
  <2>1. ~Idle
    BY <1>3, <1>6 DEF FirstCluster
  <2> QED BY <1>1, <1>2, <1>6, <2>1 DEF FirstCluster
<1>7. CASE FindEnd
  <2>1. ~Idle
    BY <1>3, <1>7 DEF FindEnd
  <2> DEFINE c == (SPC - (((r.have - (ChainLength(r.clu) - 1) * CU) \div SU) % (ByteRange \div 2)))
                    % ByteRange
             s == IF c = 0 THEN "link" ELSE "fill"
  <2>2. \E w, g : Continue(s, w, g)
    BY <1>7 DEF FindEnd
  <2>3. s # "idle"
    OBVIOUS
  <2> HIDE DEF s
  <2> QED BY <1>2, <2>1, <2>2, <2>3
<1>8. CASE FillSector
  <2>1. ~Idle
    BY <1>3, <1>8 DEF FillSector
  <2> DEFINE n == IF r.left < SU - r.off THEN r.left ELSE SU - r.off
             s == IF r.left = n THEN "end" ELSE IF (r.cnt - 1) % ByteRange = 0 THEN "link" ELSE "fill"
  <2>2. \E w, g : Continue(s, w, g)
    BY <1>8 DEF FillSector
  <2>3. s # "idle"
    OBVIOUS
  <2> HIDE DEF s
  <2> QED BY <1>2, <2>1, <2>2, <2>3
<1>9. CASE LinkCluster
  <2>1. ~Idle
    BY <1>3, <1>9 DEF LinkCluster
  <2> QED BY <1>1, <1>2, <1>9, <2>1 DEF LinkCluster
<1> QED BY <1>4, <1>5, <1>6, <1>7, <1>8, <1>9 DEF Stage

\* A formatted volume has no files.
LEMMA InitOthers ==
  ASSUME Init
  PROVE  OthersInv
<1>1. FatInv /\ TreeInv /\ Ready
  BY InitFatInv, InitTree DEF Init, Ready, Idle
<1>2. PICK R, P : AtRest(R, P)
  BY <1>1, ReadyHas
<1>3. ASSUME NEW n \in Nodes PROVE FALSE
  <2>1. PICK k \in 0 .. MaxDepth : n \in Level[k]
    BY NodesAre
  <2>2. PICK d \in Dirs(R), l \in LocSet :
          n.e = Es[l] /\ l \in In(fat1, d) /\ (Proper(Es[l]) \/ Es[l] = Garbage)
    BY <1>1, <1>2, <2>1, NodeIs DEF AtRest, FatInv
  <2>3. Es[l] = Garbage
    BY <2>2, InitEntries
  <2>4. Clean(Es, fat1, R, d, l)
    <3>1. ~Pending(l, <<>>)
      BY DEF Pending
    <3> QED BY <1>2, <2>2, <3>1 DEF AtRest, AllClean
  <2> QED BY <2>3, <2>4 DEF Clean, Garbage, Empty, Deleted, Proper, Special
<1>4. Tree = {}
  BY <1>3 DEF Tree
<1> QED BY <1>1, <1>4 DEF OthersInv, Here, Init, Ready, Idle

\* Every step.
LEMMA OthersStep ==
  ASSUME NothingBehind
  PROVE  /\ FatInv /\ FatInv' /\ TreeInv /\ TreeInv' /\ OthersInv /\ [Next]_vars => OthersInv'
BY CommandKeeps, StageKeeps, WriteOthers, FailKeeps, StutterKeeps DEF Next

\* The three invariants hold in every state.
LEMMA OthersInvHolds ==
  ASSUME NothingBehind, ~MkdirInFullDir, ~AppendToDamaged
  PROVE  Spec => [](FatInv /\ TreeInv /\ OthersInv)
<1>1. Init => OthersInv
  BY InitOthers
<1>2. FatInv /\ FatInv' /\ TreeInv /\ TreeInv' /\ OthersInv /\ [Next]_vars => OthersInv'
  BY OthersStep
<1>3. Spec => [](FatInv /\ TreeInv)
  BY TreeInvHolds
<1> QED BY <1>1, <1>2, <1>3, PTL DEF Spec

\* OthersIntact: after every sector write of a command, the files it is not about can
\* be read back as they were, so a command cut short damages nothing but its own file.
THEOREM OthersAreKept ==
  ASSUME NothingBehind, ~MkdirInFullDir, ~AppendToDamaged
  PROVE  Spec => []OthersIntact
<1>1. OthersInv => OthersIntact
  <2> SUFFICES ASSUME OthersInv, ~Idle PROVE Untouched(files) \subseteq Tree
    BY DEF OthersIntact
  <2>1. KeptFiles
    BY DEF OthersInv
  <2> QED BY <2>1 DEF KeptFiles, Tree
<1>2. Spec => [](FatInv /\ TreeInv /\ OthersInv)
  BY OthersInvHolds
<1> QED BY <1>1, <1>2, PTL

\* DiskSound: after every sector write of every command, wherever the device or the
\* power fails, every cluster belongs to one file or to none, is in use just when it
\* belongs to one, is the same in both tables, and the files of others are as they were.
THEOREM DiskIsSound ==
  ASSUME NothingBehind, ~MkdirInFullDir, ~AppendToDamaged
  PROVE  Spec => []DiskSound
<1>1. Spec => []NoCrossLinks
  BY ChainsAreApart
<1>2. Spec => []NoLostClusters
  BY ClustersAreFound
<1>3. Spec => []FatsAgree
  BY TablesAgree
<1>4. Spec => []OthersIntact
  BY OthersAreKept
<1>5. NoCrossLinks /\ NoLostClusters /\ FatsAgree /\ OthersIntact => DiskSound
  BY DEF DiskSound
<1> QED BY <1>1, <1>2, <1>3, <1>4, <1>5, PTL


-----------------------------------------------------------------------------
(* The writes of a new directory.                                          *)

\* The entry of the new directory c is written: what is left to write is in
\* its cluster, or in the tables.
MadeAs(E, t, w, k, c, l) ==
  /\ l \in In(t, k.cur) /\ E[l] = DirEntry(k.name, c) /\ k.name \in Names
  /\ t[c] \in {0, EOC}
  /\ Filling(DirEntry(k.name, c), c, w, k)
  /\ \A m \in LocSet : m.c = c => Pending(m, w) \/ E[m].name \in {"$00", "$e5", ".", ".."}
Made(E, t, w, k) == \E c \in Data, l \in LocSet : MadeAs(E, t, w, k, c, l)

Making(E, t, w, k) ==
  k.op = "mkdir" /\ k.pc = "end" => DirPlan(E, t, w, k) \/ Made(E, t, w, k)

\* In any order but that of the entry first.
LEMMA MadeWrites ==
  ASSUME NEW E, NEW t, NEW w \in Seq(WriteSet), w # <<>>, NEW k, NEW c \in Data, NEW l,
         MadeAs(E, t, w, k, c, l)
  PROVE  /\ w[1].to = "fat2" \/ w[1] = Mark(c) \/ Fills(w[1], DirEntry(k.name, c), c, k)
         /\ w[1].to # "sector" => MadeAs(E, t, Tail(w), k, c, l)
         /\ w[1].to # "entry"
<1>1. /\ w[1].to = "fat2" \/ w[1] = Mark(c) \/ Fills(w[1], DirEntry(k.name, c), c, k)
      /\ Filling(DirEntry(k.name, c), c, Tail(w), k)
  BY RestParts DEF MadeAs
<1>2. ASSUME w[1].to # "sector", NEW m \in LocSet, Pending(m, w) PROVE Pending(m, Tail(w))
  BY <1>2, RestParts
<1>3. w[1].to # "entry"
  BY <1>1, KindsOfWrite DEF Mark, Fills
<1>4. w[1].to # "sector" => MadeAs(E, t, Tail(w), k, c, l)
  BY <1>1, <1>2 DEF MadeAs
<1> QED BY <1>1, <1>3, <1>4

\* The cluster of the new directory is marked in the first table.
LEMMA MadeMarked ==
  ASSUME NEW E \in Entries, NEW t \in Tables, NEW R, NEW P, Shape(E, t, R, P), NEW k,
         k.cur \in Dirs(R), NEW w \in Seq(WriteSet), w # <<>>, w[1].to = "fat1",
         Made(E, t, w, k), NEW u, PutIn(t, u, w[1].c, w[1].v)
  PROVE  Made(E, u, Tail(w), k)
<1>1. PICK c \in Data, l \in LocSet : MadeAs(E, t, w, k, c, l)
  BY DEF Made
<1>2. MadeAs(E, t, Tail(w), k, c, l) /\ w[1] = Mark(c)
  <2>1. w[1].to # "sector" /\ w[1].to # "fat2"
    OBVIOUS
  <2>2. ~Fills(w[1], DirEntry(k.name, c), c, k)
    BY <2>1 DEF Fills
  <2> QED BY <1>1, <2>1, <2>2, MadeWrites
<1>3. w[1].c = c /\ w[1].v = EOC
  BY <1>2, KindsOfWrite DEF Mark
<1>4. u \in Tables /\ u[c] = EOC /\ \A y \in Table : y # c => u[y] = t[y]
  BY <1>3, KindsOfWrite DEF PutIn
<1>5. \A x \in Taken(E, t) : u[x] = t[x] \/ (u[x] \in {0, EOC} /\ t[x] \notin Data)
  <2>1. t[c] \notin Data
    BY <1>1, KindsOfWrite DEF MadeAs
  <2>2. Taken(E, t) \subseteq Table
    BY ChainParts, EntryParts, KindsOfWrite DEF Taken, Props
  <2> QED BY <1>4, <2>1, <2>2
<1>6. In(u, k.cur) = In(t, k.cur)
  BY <1>4, <1>5, SameChains
<1>7. MadeAs(E, u, Tail(w), k, c, l)
  BY <1>2, <1>4, <1>6 DEF MadeAs
<1> QED BY <1>7 DEF Made

\* The entry goes where a directory has room for it.
LEMMA DirIsMade ==
  ASSUME NEW E \in Entries, NEW t \in Tables, NEW k, NEW w \in Seq(WriteSet), DirPlan(E, t, w, k),
         NEW F, OneEntry(E, F, w[1].loc), F[w[1].loc] = w[1].e
  PROVE  Made(F, t, Tail(w), k)
<1>1. PICK c \in Data, loc \in LocSet :
        /\ k.name \in Names /\ t[c] = 0 /\ FreePlace(E, t, k, loc)
        /\ w # <<>> /\ w[1] = EntryWrite(loc, DirEntry(k.name, c))
        /\ Filling(DirEntry(k.name, c), c, Tail(w), k) /\ Covers(c, Tail(w))
  BY DEF DirPlan
<1>2. F[loc] = DirEntry(k.name, c)
  BY <1>1, KindsOfWrite
<1>3. MadeAs(F, t, Tail(w), k, c, loc)
  BY <1>1, <1>2 DEF MadeAs, FreePlace, Covers
<1> QED BY <1>3 DEF Made

\* The sectors of the new directory are not those its entry is in.
LEMMA MadeFilled ==
  ASSUME NEW E \in Entries, NEW t \in Tables, NEW R, NEW P, Shape(E, t, R, P), NEW k,
         k.cur \in Dirs(R), NEW w \in Seq(WriteSet), w # <<>>, w[1].to = "sector",
         Made(E, t, w, k), NEW F \in Entries,
         \A l \in LocSet : F[l] = IF l.c # Root /\ Sector(l.c, l.i \div ES) = w[1].s
                                    THEN w[1].x.entries[l.i % ES] ELSE E[l]
  PROVE  Made(F, t, Tail(w), k)
<1>1. PICK c \in Data, l \in LocSet : MadeAs(E, t, w, k, c, l)
  BY DEF Made
<1> DEFINE e == DirEntry(k.name, c)
<1>2. Fills(w[1], e, c, k) /\ Filling(e, c, Tail(w), k)
  <2>1. w[1] # Mark(c)
    BY KindsOfWrite DEF Mark
  <2>2. Filling(e, c, Tail(w), k)
    BY <1>1, RestParts DEF MadeAs
  <2> QED BY <1>1, <2>1, <2>2, MadeWrites
<1>3. E[l] = e /\ e.dir /\ e.start = c /\ Proper(e) /\ l \in In(t, k.cur)
  BY <1>1, NamesAreNames DEF MadeAs, DirEntry, Proper, Special
<1> HIDE DEF e
<1>4. PICK q \in 0 .. SPC - 1 : w[1].s = Sector(c, q)
  BY <1>2 DEF Fills
<1>5. l.c # c
  <2> SUFFICES ASSUME l.c = c PROVE FALSE
    OBVIOUS
  <2>1. PICK d \in Dirs(R) : l \in In(t, d) /\ c \in R /\ P[c] = P[d] + 1
    BY <1>3 DEF Shape, Lies, Props
  <2>2. l \in In(t, c) /\ c \in Dirs(R)
    <3>1. c \in ChainIn(t, c) /\ c # Root
      BY <2>1, DirTaken
    <3> QED BY <2>1, <3>1 DEF In, ClustersOf, Dirs
  <2>3. c = d
    BY <2>1, <2>2, OneDirectory
  <2>4. P[c] \in Nat
    BY <2>2, Sizes DEF Shape, DepthsAre
  <2> QED BY <2>1, <2>3, <2>4
<1>6. F[l] = e
  <2>1. ~(l.c # Root /\ Sector(l.c, l.i \div ES) = w[1].s)
    BY <1>4, <1>5, PlaceParts, OneSector
  <2> QED BY <1>3, <2>1
<1>7. ASSUME NEW m \in LocSet, m.c = c
      PROVE  Pending(m, Tail(w)) \/ F[m].name \in {"$00", "$e5", ".", ".."}
  <2>1. c # Root
    BY KindsOfWrite DEF Root
  <2>2. CASE Sector(m.c, m.i \div ES) = w[1].s
    <3>1. F[m] = w[1].x.entries[m.i % ES] /\ m.i % ES \in 0 .. ES - 1
      BY <1>7, <2>1, <2>2, PlaceParts
    <3>2. F[m] \in Stuff(e, c, k)
      BY <1>2, <3>1 DEF Fills
    <3> QED BY <1>3, <3>2 DEF Stuff, Empty, DirEntry
  <2>3. CASE Sector(m.c, m.i \div ES) # w[1].s
    <3>1. F[m] = E[m]
      BY <2>3
    <3>2. Pending(m, w) => Pending(m, Tail(w))
      BY <2>3, RestParts
    <3> QED BY <1>1, <1>7, <3>1, <3>2 DEF MadeAs
  <2> QED BY <2>2, <2>3
<1>8. MadeAs(F, t, Tail(w), k, c, l)
  BY <1>1, <1>2, <1>3, <1>6, <1>7 DEF MadeAs, e
<1> QED BY <1>8 DEF Made

\* Each of the five sector writes.
LEMMA WritesMake ==
  ASSUME FatInv, FatInv', TreeInv, DiskWrite, Making(Es, fat1, todo, Cmd)
  PROVE  Making(Es', fat1', todo', Cmd')
<1>1. PICK to : Write(to)
  BY DEF DiskWrite, WriteFat1, WriteFat2, StrayWrite, WriteEntry, WriteSector
<1>2. /\ Es \in Entries /\ fat1 \in Tables /\ Es' \in Entries /\ fat1' \in Tables
      /\ todo \in Seq(WriteSet) /\ todo # <<>> /\ todo[1] = Head(todo) /\ todo[1] \in WriteSet
      /\ todo' = Tail(todo) /\ Cmd' = Cmd /\ todo[1].to = to
      /\ \E R, P : Shape(Es, fat1, R, P) /\ Working(Es, fat1, todo, Cmd, R, P)
  BY <1>1, WriteBegins
<1>3. PICK R, P : Shape(Es, fat1, R, P) /\ Working(Es, fat1, todo, Cmd, R, P)
  BY <1>2
<1>4. Cmd.cur \in Dirs(R)
  BY <1>3 DEF Working
<1> HIDE DEF Cmd
<1> SUFFICES ASSUME Cmd.op = "mkdir", Cmd.pc = "end",
                    DirPlan(Es, fat1, todo, Cmd) \/ Made(Es, fat1, todo, Cmd)
             PROVE  Made(Es', fat1', Tail(todo), Cmd)
  BY <1>2 DEF Making
<1>5. DirPlan(Es, fat1, todo, Cmd) => todo[1].to = "entry"
  BY KindsOfWrite DEF DirPlan
<1>6. CASE WriteFat1
  <2>1. /\ Head(todo).c \in Table /\ fat1' = [fat1 EXCEPT ![Head(todo).c] = Head(todo).v]
        /\ todo[1].to = "fat1" /\ Es' = Es
    BY <1>2, <1>6, SameEntries DEF WriteFat1, Write
  <2>2. PutIn(fat1, fat1', todo[1].c, todo[1].v)
    BY <1>2, <2>1 DEF PutIn, Tables
  <2> QED BY <1>2, <1>3, <1>4, <1>5, <2>1, <2>2, MadeMarked
<1>7. CASE WriteFat2 \/ StrayWrite
  <2>1. Es' = Es /\ fat1' = fat1 /\ todo[1].to \in {"fat1", "fat2"}
    <3>1. CASE WriteFat2
      BY <1>2, <3>1, SameEntries DEF WriteFat2, Write
    <3>2. CASE StrayWrite
      BY <1>2, <3>2, StrayKeeps DEF StrayWrite, Write, FatInv
    <3> QED BY <1>7, <3>1, <3>2
  <2>2. Made(Es, fat1, todo, Cmd)
    BY <1>5, <2>1
  <2>3. PICK c \in Data, l \in LocSet : MadeAs(Es, fat1, todo, Cmd, c, l)
    BY <2>2 DEF Made
  <2>4. MadeAs(Es, fat1, Tail(todo), Cmd, c, l)
    BY <1>2, <2>1, <2>3, MadeWrites
  <2> QED BY <2>1, <2>4 DEF Made
<1>8. CASE WriteEntry
  <2> DEFINE loc == todo[1].loc
             e   == todo[1].e
  <2>1. /\ fat1' = fat1 /\ todo[1].to = "entry"
        /\ IF loc.c = Root
             THEN root' = [root EXCEPT ![loc.i] = e] /\ sector' = sector
             ELSE /\ sector' = [sector EXCEPT
                        ![Sector(loc.c, loc.i \div ES)].entries[loc.i % ES] = e]
                  /\ root' = root
    BY <1>2, <1>8 DEF WriteEntry, Write
  <2>2. loc \in LocSet
    BY <1>2, <2>1, KindsAre
  <2>3. OneEntry(Es, Es', loc) /\ Es'[loc] = e
    <3> HIDE DEF loc, e
    <3> QED BY <2>1, <2>2, EntryWritten DEF FatInv
  <2>4. DirPlan(Es, fat1, todo, Cmd)
    BY <1>2, <2>1, MadeWrites DEF Made
  <2>5. Made(Es', fat1, Tail(todo), Cmd)
    BY <1>2, <2>3, <2>4, DirIsMade
  <2> QED BY <2>1, <2>5
<1>9. CASE WriteSector
  <2>1. /\ fat1' = fat1 /\ root' = root /\ todo[1].to = "sector"
        /\ sector' = IF todo[1].s \in Sectors
                       THEN [sector EXCEPT ![todo[1].s] = todo[1].x] ELSE sector
    BY <1>2, <1>9 DEF WriteSector, Write
  <2>2. \A l \in LocSet :
           Es'[l] = IF l.c # Root /\ Sector(l.c, l.i \div ES) = todo[1].s
                      THEN todo[1].x.entries[l.i % ES] ELSE Es[l]
    <3> DEFINE s == todo[1].s
               x == todo[1].x
    <3>1. sector' = IF s \in Sectors THEN [sector EXCEPT ![s] = x] ELSE sector
      BY <2>1
    <3> HIDE DEF s, x
    <3>2. \A l \in LocSet : Es'[l] = IF l.c # Root /\ Sector(l.c, l.i \div ES) = s
                                      THEN x.entries[l.i % ES] ELSE Es[l]
      BY <2>1, <3>1, SectorWritten DEF FatInv
    <3> QED BY <3>2 DEF s, x
  <2>3. Made(Es, fat1, todo, Cmd)
    BY <1>5, <2>1
  <2>4. Made(Es', fat1, Tail(todo), Cmd)
    BY <1>2, <1>3, <1>4, <2>1, <2>2, <2>3, MadeFilled
  <2> QED BY <2>1, <2>4
<1> QED BY <1>6, <1>7, <1>8, <1>9 DEF DiskWrite

-----------------------------------------------------------------------------
(* What a caller is told.                                                  *)

Fitting == req.op = "mkdir" => pc \in {"slot", "end"}
HidesInv ==
  /\ Fitting
  /\ ~failed => Making(Es, fat1, todo, Cmd)
  /\ OnlyMakeDirHidesErrors

\* Nothing is promised until an access fails.
LEMMA NothingHidden ==
  ASSUME ~failed', Fitting', Making(Es', fat1', todo', Cmd')
  PROVE  HidesInv'
BY DEF HidesInv, OnlyMakeDirHidesErrors

\* The parts of a command.
LEMMA CmdIs ==
  Cmd.pc = pc /\ Cmd.op = req.op /\ Cmd.name = req.name /\ Cmd.cur = cur
BY DEF Cmd

\* The command of the next state.
LEMMA CmdWillBe ==
  /\ Cmd'.pc = pc' /\ Cmd'.op = req'.op
  /\ Cmd' = [pc |-> pc', op |-> req'.op, name |-> req'.name, loc |-> r'.loc, clu |-> r'.clu,
             nfc |-> r'.nfc, cur |-> cur', depth |-> Len(cwd')]
BY DEF Cmd

\* A call that is over makes no directory.
LEMMA ReturnHides ==
  ASSUME NEW q, NEW err, NEW out, Return(q, err, out), ~failed'
  PROVE  HidesInv'
<1>1. pc' = "idle" /\ req'.op = "none"
  BY DEF Return, NoReq
<1>2. Fitting' /\ Making(Es', fat1', todo', Cmd')
  BY <1>1, CmdWillBe DEF Fitting, Making
<1> QED BY <1>2, NothingHidden

\* A command that begins.
LEMMA BeginHides ==
  ASSUME NEW q, NEW stage, NEW w, NEW g, Begin(q, stage, w, g),
         q.op = "mkdir" => stage = "slot"
  PROVE  HidesInv'
<1>1. pc' = stage /\ req' = q /\ ~failed'
  BY DEF Begin, Ready
<1>2. Fitting' /\ Making(Es', fat1', todo', Cmd')
  BY <1>1, CmdWillBe DEF Fitting, Making
<1> QED BY <1>1, <1>2, NothingHidden

\* A stage that queues writes, but for the last one of a new directory.
LEMMA ContinueHides ==
  ASSUME Fitting, ~failed, NEW stage, NEW w, NEW g, Continue(stage, w, g),
         req.op = "mkdir" => stage = "slot"
  PROVE  HidesInv'
<1>1. pc' = stage /\ req' = req /\ ~failed'
  BY DEF Continue
<1>2. Fitting' /\ Making(Es', fat1', todo', Cmd')
  BY <1>1, CmdWillBe DEF Fitting, Making
<1> QED BY <1>1, <1>2, NothingHidden

\* Every command.
LEMMA CommandHides ==
  ASSUME DirCommand \/ FileCommand
  PROVE  HidesInv'
<1>1. ASSUME NEW q, NEW err, NEW out, Answer(q, err, out) PROVE HidesInv'
  BY <1>1, ReturnHides DEF Answer, Ready
<1>2. ASSUME NEW q, NEW err, Refuse(q, err) PROVE HidesInv'
  BY <1>1, <1>2 DEF Refuse
<1>3. ASSUME NEW q, NEW d, MoveTo(q, d) PROVE HidesInv'
  BY <1>3, ReturnHides DEF MoveTo, Ready
<1>4. ASSUME NEW q, NEW loc, Delete(q, loc), q.op # "mkdir" PROVE HidesInv'
  BY <1>4, BeginHides DEF Delete
<1>5. ASSUME NEW op, NEW n
      PROVE  /\ Req(op, n).op = op
             /\ \A x : [Req(op, n) EXCEPT !.new = x].op = op
             /\ \A x : [Req(op, n) EXCEPT !.data = x].op = op
  BY DEF Req, NoReq
<1>6. CASE DirCommand
  <2>1. CASE ParentDir \/ RootDir
    BY <1>2, <1>3, <2>1 DEF ParentDir, RootDir
  <2>2. ASSUME NEW n \in Names, ChangeDir(n) PROVE HidesInv'
    BY <1>2, <1>3, <2>2 DEF ChangeDir
  <2>3. ASSUME NEW n \in Names, MakeDir(n) PROVE HidesInv'
    BY <1>2, <2>3, BeginHides DEF MakeDir
  <2>4. ASSUME NEW n \in Names, DeleteDir(n) PROVE HidesInv'
    BY <1>2, <1>4, <1>5, <2>4 DEF DeleteDir
  <2> QED BY <1>6, <2>1, <2>2, <2>3, <2>4 DEF DirCommand
<1>7. CASE FileCommand
  <2>1. ASSUME NEW n \in Names, CreateFile(n) PROVE HidesInv'
    BY <1>2, <2>1, BeginHides DEF CreateFile
  <2>2. ASSUME NEW n \in Names, EraseFile(n) PROVE HidesInv'
    BY <1>2, <1>4, <1>5, <2>2 DEF EraseFile
  <2>3. ASSUME NEW n \in Names, LoadFile(n) PROVE HidesInv'
    BY <1>1, <1>2, <2>3 DEF LoadFile
  <2>4. ASSUME NEW n \in Names, NEW data \in AppendData, AppendTo(n, data) PROVE HidesInv'
    <3> DEFINE q == [Req("append", n) EXCEPT !.data = data]
    <3>1. \/ \E err : Refuse(q, err)
          \/ \E stage, w, g : Begin(q, stage, w, g)
      BY <2>4 DEF AppendTo
    <3>2. q.op # "mkdir"
      BY <1>5
    <3> HIDE DEF q
    <3> QED BY <1>2, <3>1, <3>2, BeginHides
  <2>5. ASSUME NEW n \in Names, NEW new \in Names, Rename(n, new) PROVE HidesInv'
    <3> DEFINE q == [Req("rename", n) EXCEPT !.new = new]
    <3>1. \/ \E err : Refuse(q, err)
          \/ \E stage, w, g : Begin(q, stage, w, g)
      BY <2>5 DEF Rename
    <3>2. q.op # "mkdir"
      BY <1>5
    <3> HIDE DEF q
    <3> QED BY <1>2, <3>1, <3>2, BeginHides
  <2> QED BY <1>7, <2>1, <2>2, <2>3, <2>4, <2>5 DEF FileCommand
<1> QED BY <1>6, <1>7

\* Every stage.
LEMMA StageHides ==
  ASSUME FatInv, TreeInv, HidesInv, Stage
  PROVE  HidesInv'
<1>1. ASSUME NEW stage, At(stage), stage # "idle" PROVE ~failed /\ pc = stage
  BY <1>1 DEF At, TreeInv
<1>2. ASSUME NEW err, Finish(err), ~failed PROVE HidesInv'
  BY <1>2, ReturnHides DEF Finish
<1>3. Fitting
  BY DEF HidesInv
<1>4. CASE EnterName
  <2>1. ~failed /\ pc = "slot"
    BY <1>1, <1>4 DEF EnterName
  <2>2. CASE req.op = "create"
    <3>1. req' = req /\ failed' = failed /\ pc' = "end"
      BY <1>4 DEF EnterName, Continue
    <3>2. Fitting' /\ Making(Es', fat1', todo', Cmd')
      BY <2>2, <3>1, CmdWillBe DEF Fitting, Making
    <3> QED BY <2>1, <3>1, <3>2, NothingHidden
  <2>3. CASE req.op # "create"
    <3>1. /\ DirPlan(Es, fat1, todo', After("end", req, NoRegs))
          /\ pc' = "end" /\ r' = NoRegs /\ req' = req /\ UNCHANGED <<disk, cur, cwd, failed>>
      BY <1>4, <2>3, EnterDirPlans
    <3>2. Cmd' = After("end", req, NoRegs)
      BY <3>1, CmdWillBe DEF After
    <3>3. Es' = Es /\ fat1' = fat1
      BY <3>1, SameEntries DEF disk
    <3>4. Fitting' /\ Making(Es', fat1', todo', Cmd')
      BY <3>1, <3>2, <3>3 DEF Fitting, Making
    <3> QED BY <2>1, <3>1, <3>4, NothingHidden
  <2> QED BY <2>2, <2>3
<1>5. CASE NoSlot
  BY <1>1, <1>2, <1>5 DEF NoSlot
<1>6. CASE ExtendDir
  BY <1>1, <1>3, <1>6, ContinueHides DEF ExtendDir
<1>7. CASE FreeNextCluster
  <2>1. ~failed /\ req.op # "mkdir"
    <3>1. At("free")
      BY <1>7 DEF FreeNextCluster
    <3> QED BY <1>1, <1>3, <3>1 DEF Fitting
  <2> QED BY <1>3, <1>7, <2>1, ContinueHides DEF FreeNextCluster
<1>8. CASE FirstCluster
  <2>1. ~failed /\ req.op # "mkdir"
    <3>1. At("first")
      BY <1>8 DEF FirstCluster
    <3> QED BY <1>1, <1>3, <3>1 DEF Fitting
  <2> QED BY <1>2, <1>3, <1>8, <2>1, ContinueHides DEF FirstCluster
<1>9. CASE FindEnd
  <2>1. ~failed /\ req.op # "mkdir"
    <3>1. At("walk")
      BY <1>9 DEF FindEnd
    <3> QED BY <1>1, <1>3, <3>1 DEF Fitting
  <2> QED BY <1>3, <1>9, <2>1, ContinueHides DEF FindEnd
<1>10. CASE FillSector
  <2>1. ~failed /\ req.op # "mkdir"
    <3>1. At("fill")
      BY <1>10 DEF FillSector
    <3> QED BY <1>1, <1>3, <3>1 DEF Fitting
  <2> QED BY <1>3, <1>10, <2>1, ContinueHides DEF FillSector
<1>11. CASE LinkCluster
  <2>1. ~failed /\ req.op # "mkdir"
    <3>1. At("link")
      BY <1>11 DEF LinkCluster
    <3> QED BY <1>1, <1>3, <3>1 DEF Fitting
  <2> QED BY <1>2, <1>3, <1>11, <2>1, ContinueHides DEF LinkCluster
<1>12. CASE OutOfMemory
  BY <1>1, <1>2, <1>12 DEF OutOfMemory
<1>13. CASE End
  BY <1>1, <1>2, <1>13 DEF End
<1> QED BY <1>4, <1>5, <1>6, <1>7, <1>8, <1>9, <1>10, <1>11, <1>12, <1>13 DEF Stage

\* Every sector write.
LEMMA WriteHides ==
  ASSUME FatInv, FatInv', TreeInv, HidesInv, DiskWrite
  PROVE  HidesInv'
<1>1. PICK to : Write(to)
  BY DEF DiskWrite, WriteFat1, WriteFat2, StrayWrite, WriteEntry, WriteSector
<1>2. ~failed /\ failed' = failed /\ pc' = pc /\ req' = req
  BY <1>1, WriteBegins DEF Write
<1>3. Making(Es', fat1', todo', Cmd')
  BY <1>2, WritesMake DEF HidesInv
<1>4. Fitting'
  BY <1>2 DEF HidesInv, Fitting
<1> QED BY <1>2, <1>3, <1>4, NothingHidden

\* A directory that nothing is written to stays empty.
LEMMA SameEmpty ==
  ASSUME UNCHANGED disk
  PROVE  \A d : DirIsEmpty(d)' <=> DirIsEmpty(d)
<1>0. fat1' = fat1 /\ root' = root /\ sector' = sector
  BY DEF disk
<1>1. Follow' = Follow
  BY <1>0 DEF Follow
<1>2. \A c, k : Hop(c, k)' = Hop(c, k)
  BY <1>1 DEF Hop
<1>3. \A c : ChainLength(c)' = ChainLength(c)
  BY <1>2 DEF ChainLength
<1>4. \A d : Positions(d)' = Positions(d)
  BY <1>3 DEF Positions
<1>5. \A d, k : Slot(d, k)' = Slot(d, k)
  BY <1>2 DEF Slot
<1>6. \A d, k : EntryAt(d, k)' = EntryAt(d, k)
  BY <1>0, <1>5 DEF EntryAt, Entry
<1> QED BY <1>4, <1>6 DEF DirIsEmpty

\* The access that fails.
MadeHere == \E n \in Nodes : /\ n.e.dir /\ n.path = Append(cwd, req.name)
                             /\ DirIsEmpty(n.e.start)

\* When only the tables are left to write, the directory is there, and empty.
LEMMA MadeIsThere ==
  ASSUME FatInv, Here, NEW R, NEW P, Shape(Es, fat1, R, P), cur \in Dirs(R),
         NEW c \in Data, NEW l \in LocSet, MadeAs(Es, fat1, todo, Cmd, c, l),
         \A k \in 1 .. Len(todo) : todo[k].to \in {"fat1", "fat2"}
  PROVE  MadeHere
<1>1. DiskHas /\ Es \in Entries /\ fat1 \in Tables
  BY EsHas DEF FatInv
<1>2. /\ l \in In(fat1, cur) /\ Es[l] = DirEntry(req.name, c) /\ req.name \in Names
      /\ fat1[c] \in {0, EOC}
      /\ \A m \in LocSet : m.c = c => Pending(m, todo) \/ Es[m].name \in {"$00", "$e5", ".", ".."}
  <2> HIDE DEF Cmd
  <2> QED BY CmdIs DEF MadeAs
<1>3. Proper(Es[l]) /\ Es[l].dir /\ Es[l].start = c /\ Es[l].name = req.name
  BY <1>2, NamesAreNames DEF DirEntry, Proper, Special
<1>4. \A m : ~Pending(m, todo)
  BY DEF Pending
<1>5. Reaches /\ InLevels
  BY <1>1, FitsNow DEF TreeFits
<1>6. \E n \in Nodes : n = [path |-> Append(cwd, req.name), e |-> Es[l]]
  <2>1. CASE cur = Root /\ cwd = <<>>
    <3>1. [path |-> <<req.name>>, e |-> Es[l]] \in Level[0]
      BY <1>2, <1>3, <1>5, <2>1 DEF Reaches
    <3>2. Append(cwd, req.name) = <<req.name>>
      BY <2>1
    <3>3. 0 \in 0 .. MaxDepth
      BY NodesAre
    <3> QED BY <1>5, <3>1, <3>2, <3>3 DEF InLevels
  <2>2. CASE cur # Root
    <3>1. PICK m \in Nodes : m.e.dir /\ m.e.start = cur /\ m.path = cwd
      BY <2>2 DEF Here
    <3>2. PICK j \in 0 .. MaxDepth : m \in Level[j]
      BY <1>5, <3>1 DEF InLevels
    <3>3. j + 1 = P[cur]
      <4>1. PICK d \in Dirs(R), y \in LocSet :
              /\ m.e = Es[y] /\ y \in In(fat1, d) /\ P[d] = j
              /\ Proper(Es[y]) \/ Es[y] = Garbage
        BY <1>1, <3>2, NodeIs
      <4>2. Proper(Es[y])
        BY <3>1, <4>1 DEF Garbage
      <4>3. PICK x \in Dirs(R) : y \in In(fat1, x) /\ P[Es[y].start] = P[x] + 1
        BY <3>1, <4>1, <4>2 DEF Shape, Lies, Props
      <4>4. x = d
        BY <1>1, <4>1, <4>3, OneDirectory
      <4> QED BY <3>1, <4>1, <4>3, <4>4
    <3>4. P[cur] \in 0 .. MaxDepth /\ MaxDepth \in Nat
      BY NodesAre DEF Shape, DepthsAre
    <3> DEFINE i == P[cur]
    <3>5. i \in 1 .. MaxDepth /\ i - 1 = j
      BY <3>2, <3>3, <3>4
    <3> HIDE DEF i
    <3>6. m \in Level[i - 1]
      BY <3>2, <3>5
    <3>7. [path |-> Append(m.path, Es[l].name), e |-> Es[l]] \in Level[i]
      BY <1>2, <1>3, <1>5, <2>2, <3>1, <3>5, <3>6 DEF Reaches
    <3>8. i \in 0 .. MaxDepth
      BY <3>5
    <3> QED BY <1>3, <1>5, <3>1, <3>7, <3>8 DEF InLevels
  <2> QED BY <2>1, <2>2 DEF Here
<1>7. DirIsEmpty(c)
  <2>1. In(fat1, c) = {m \in LocSet : m.c = c}
    <3>1. fat1[c] \notin Data /\ c # Root
      BY <1>2, KindsOfWrite DEF Root
    <3> QED BY <1>1, <3>1, ChainOfOne DEF In, ClustersOf
  <2>2. ASSUME NEW k \in Positions(c)
        PROVE  EntryAt(c, k).name \in {"$00", "$e5", ".", ".."}
    <3>1. c \in Starts
      BY DEF Starts
    <3>2. EntryAt(c, k) = Es[Slot(c, k)] /\ Slot(c, k) \in In(fat1, c)
      BY <1>1, <3>1, AtSlot
    <3> QED BY <1>2, <1>4, <2>1, <3>2
  <2> QED BY <2>2 DEF DirIsEmpty
<1> QED BY <1>3, <1>6, <1>7 DEF MadeHere

\* The access that fails.
LEMMA FailHides ==
  ASSUME FatInv, FatInv', TreeInv, OthersInv, HidesInv, Fail
  PROVE  HidesInv'
<1> DEFINE unseen == /\ req.op = "mkdir" /\ pc = "end"
                     /\ \A k \in 1 .. Len(todo) : todo[k].to \in {"fat1", "fat2"}
<1>1. /\ ~Idle /\ Return(req, IF unseen THEN Ok ELSE ErrHardware, <<>>)
      /\ failed' = TRUE /\ UNCHANGED <<cur, cwd>>
  BY DEF Fail
<1>2. ~failed /\ Here
  BY <1>1 DEF OthersInv
<1>3. pc' = "idle" /\ req'.op = "none" /\ UNCHANGED disk /\ done'.req = req
      /\ done'.err = IF unseen THEN Ok ELSE ErrHardware
  <2> HIDE DEF unseen
  <2> QED BY <1>1 DEF Return, NoReq
<1>4. Fitting'
  BY <1>3 DEF Fitting
<1>5. OnlyMakeDirHidesErrors'
  <2>1. CASE ~unseen
    <3>1. done'.err # Ok
      BY <1>3, <2>1 DEF Ok, ErrHardware
    <3> QED BY <3>1 DEF OnlyMakeDirHidesErrors, Ok
  <2>2. CASE unseen
    <3>1. PICK R, P : Shape(Es, fat1, R, P) /\ Working(Es, fat1, todo, Cmd, R, P)
      BY <1>2 DEF TreeInv
    <3>2. cur \in Dirs(R)
      <4> HIDE DEF Cmd
      <4> QED BY <3>1, CmdIs DEF Working
    <3>3. ~DirPlan(Es, fat1, todo, Cmd)
      <4> HIDE DEF Cmd
      <4>1. todo # <<>> => 1 \in 1 .. Len(todo)
        BY DEF FatInv, CommandHas
      <4> QED BY <2>2, <4>1, KindsOfWrite DEF DirPlan
    <3>4. Made(Es, fat1, todo, Cmd)
      <4> HIDE DEF Cmd
      <4> QED BY <1>2, <2>2, <3>3, CmdIs DEF HidesInv, Making
    <3>5. MadeHere
      <4>1. PICK c \in Data, l \in LocSet : MadeAs(Es, fat1, todo, Cmd, c, l)
        BY <3>4 DEF Made
      <4> QED BY <1>2, <2>2, <3>1, <3>2, <4>1, MadeIsThere
    <3>6. DiskHas /\ DiskHas'
      BY DEF FatInv
    <3>7. Nodes' = Nodes /\ \A d : DirIsEmpty(d)' <=> DirIsEmpty(d)
      BY <1>3, <3>6, SameTree, SameEmpty
    <3>8. cwd' = cwd
      BY <1>1
    <3> QED BY <1>3, <2>2, <3>5, <3>7, <3>8 DEF OnlyMakeDirHidesErrors, MadeHere
  <2> QED BY <2>1, <2>2
<1>6. failed'
  BY <1>1
<1> QED BY <1>4, <1>5, <1>6 DEF HidesInv

\* A step that changes nothing.
LEMMA StutterHides ==
  ASSUME FatInv, FatInv', HidesInv, UNCHANGED vars
  PROVE  HidesInv'
<1>1. /\ UNCHANGED disk /\ UNCHANGED <<cwd, done>> /\ failed' = failed /\ pc' = pc /\ req' = req
      /\ fat1' = fat1 /\ todo' = todo
  BY DEF vars, disk
<1>2. DiskHas /\ DiskHas'
  BY DEF FatInv
<1>3. Es' = Es /\ Cmd' = Cmd
  <2>1. Es' = Es
    BY <1>1, SameEntries DEF disk
  <2> QED BY <2>1 DEF Cmd, vars
<1>4. Nodes' = Nodes /\ \A d : DirIsEmpty(d)' <=> DirIsEmpty(d)
  BY <1>1, <1>2, SameTree, SameEmpty
<1>5. OnlyMakeDirHidesErrors'
  BY <1>1, <1>4 DEF HidesInv, OnlyMakeDirHidesErrors
<1>6. Fitting' /\ (~failed' => Making(Es', fat1', todo', Cmd'))
  BY <1>1, <1>3 DEF HidesInv, Fitting
<1> QED BY <1>5, <1>6 DEF HidesInv

\* At first nothing has failed.
LEMMA InitHides ==
  ASSUME Init
  PROVE  HidesInv
<1>1. pc = "idle" /\ req.op = "none" /\ ~failed
  BY DEF Init, NoReq
<1>2. Making(Es, fat1, todo, Cmd)
  <2> HIDE DEF Cmd
  <2> QED BY <1>1, CmdIs DEF Making
<1> QED BY <1>1, <1>2 DEF HidesInv, Fitting, OnlyMakeDirHidesErrors

\* Every step.
LEMMA HidesStep ==
  FatInv /\ FatInv' /\ TreeInv /\ OthersInv /\ HidesInv /\ [Next]_vars => HidesInv'
BY CommandHides, StageHides, WriteHides, FailHides, StutterHides DEF Next

\* OnlyMakeDirHidesErrors: a command that returns no error after a failed access made
\* a directory, and the directory is in the tree, and empty.
THEOREM ErrorsAreSeen ==
  ASSUME NothingBehind, ~MkdirInFullDir, ~AppendToDamaged
  PROVE  Spec => []OnlyMakeDirHidesErrors
<1>1. Init => HidesInv
  BY InitHides
<1>2. FatInv /\ FatInv' /\ TreeInv /\ OthersInv /\ HidesInv /\ [Next]_vars => HidesInv'
  BY HidesStep
<1>3. Spec => [](FatInv /\ TreeInv /\ OthersInv)
  BY OthersInvHolds
<1>4. HidesInv => OnlyMakeDirHidesErrors
  BY DEF HidesInv
<1> QED BY <1>1, <1>2, <1>3, <1>4, PTL DEF Spec
=============================================================================
