---------------------------- MODULE Fat16Proofs -----------------------------
(***************************************************************************)
(* Proofs about the FAT16 driver, for all volumes, all names and all data. *)
(*                                                                         *)
(* The chains of a table are a recursive function, and the lemmas about    *)
(* them (HopsAre, ChainIsAPrefix, ChainHas) are by induction: from the     *)
(* least number at which a statement fails (Least).  Fat16TreeProofs goes  *)
(* on with the tree of files; what it needs of chains, directories and     *)
(* entries is at the end of this module.                                   *)
(***************************************************************************)
EXTENDS Fat16, FiniteSetTheorems, SequenceTheorems, Induction, TLAPS

(* What the disk, a queued write, a register and a request may be.         *)
Starts    == {Root} \cup Data
AllNames  == Names \cup {"$00", "$e5", "?", ".", ".."}
EntrySet  == [name : AllNames, dir : BOOLEAN, start : Starts, len : Nat]
UnitSet   == {Zero, Junk} \cup UNION {Range(d) : d \in AppendData}
SectorSet == [entries : [0 .. ES - 1 -> EntrySet], units : [0 .. SU - 1 -> UnitSet]]
LocSet    == {l \in [c : Starts, i : Nat] : l.i \in Slots(l.c)}
FatWrites == [to : {"fat1", "fat2"}, c : 0 .. EOC, v : 0 .. EOC]
WriteSet  == FatWrites \cup [to : {"entry"}, loc : LocSet, e : EntrySet]
                       \cup [to : {"sector"}, s : Int, x : SectorSet]
RegSet    == [loc : LocSet \cup {NoLoc}, nfc : Starts, clu : 0 .. EOC, pos : 0 .. SPC,
              cnt : 0 .. ByteRange - 1, off : 0 .. SU - 1, have : Nat, left : Nat]
Ops       == {"none", "chdir", "parent", "root", "create", "mkdir", "erase", "rmdir",
              "rename", "append", "load"}
ReqSet    == [op : Ops, name : Names \cup {"", ".."}, new : Names \cup {""},
              data : AppendData \cup {<<>>}]

(* The chain from c in table t.                                            *)
FollowIn(t) == [c \in 0 .. EOC |-> IF c \in Data THEN t[c] ELSE EOC]
HopsIn(t, c) ==
  LET hop[j \in 0 .. Clusters] == IF j = 0 THEN c ELSE FollowIn(t)[hop[j - 1]]
  IN  hop
LengthIn(t, c) == Cardinality({k \in 0 .. Clusters - 1 : HopsIn(t, c)[k] \in Data})

-----------------------------------------------------------------------------
DiskHas ==
  /\ fat1 \in [Table -> 0 .. EOC] /\ fat2 \in [Table -> 0 .. EOC]
  /\ root \in [Slots(Root) -> EntrySet]
  /\ sector \in [Sectors -> SectorSet]

CommandHas ==
  /\ cur \in Starts
  /\ pc \in {"idle", "slot", "free", "first", "walk", "fill", "link", "end"}
  /\ todo \in Seq(WriteSet)
  /\ r \in RegSet /\ req \in ReqSet
  /\ failed \in BOOLEAN

(* What a stage with writes w, registers g and request q relies on.        *)
(* Whoever walks to the end of a chain has the length of a file that needs *)
(* exactly the clusters of the chain, or has still to mark the first       *)
(* cluster of a file as its end.                                           *)
Marking(w, g) ==
  /\ g.have = 0 /\ w # <<>> /\ w[1] = FatWrite("fat1", g.clu, EOC)
  /\ \A k \in 2 .. Len(w) : w[k].to # "fat1"
Fits(w, g) ==
  /\ (LengthIn(fat1, g.clu) - 1) * CU <= g.have /\ g.have <= LengthIn(fat1, g.clu) * CU
  /\ \A k \in 1 .. Len(w) : w[k].to # "fat1"

Needs(stage, w, g, q) ==
  /\ stage = "idle" => w = <<>>
  /\ stage = "slot" => q.name \in Names /\ (q.op = "create" \/ g.nfc \in Data)
  /\ stage \in {"first", "walk", "fill", "link"} =>
       g.left \in 1 .. Len(q.data) /\ g.loc \in LocSet /\ q.data \in AppendData
  /\ stage = "first" => g.have = 0
  /\ stage = "walk" => g.clu \in Data /\ (Marking(w, g) \/ Fits(w, g))
  /\ stage = "fill" => g.pos < SPC /\ g.pos + g.cnt = SPC
StageHas == Needs(pc, todo, r, req)

(* The writes to the two tables come in pairs.  Between the two of a pair  *)
(* the tables differ by what the second has still to write.                *)
Pairs(s) ==
  /\ \A k \in 1 .. Len(s) : s[k].to = "fat1" =>
       k < Len(s) /\ s[k + 1] = FatWrite("fat2", s[k].c, s[k].v)
  /\ \A k \in 1 .. Len(s) : s[k].to = "fat2" => k > 1 /\ s[k - 1].to = "fat1"
SameBut(c) == \A d \in Table : d # c => fat1[d] = fat2[d]

Halfway ==
  /\ todo # <<>> /\ todo[1].to = "fat2"
  /\ SameBut(todo[1].c)
  /\ todo[1].c \in Table => fat1[todo[1].c] = todo[1].v
  /\ Pairs(Tail(todo))

TablesInv ==
  \/ fat1 = fat2 /\ Pairs(todo)
  \/ Halfway
  \/ failed /\ pc = "idle" /\ \E c \in 0 .. EOC : SameBut(c)

FatInv == DiskHas /\ CommandHas /\ StageHas /\ TablesInv

-----------------------------------------------------------------------------
(* Chains                                                                  *)

LEMMA Sizes ==
  /\ Clusters \in Nat \ {0} /\ SPC \in Nat \ {0} /\ SU \in Nat \ {0} /\ ES \in Nat \ {0}
  /\ RootSectors \in Nat \ {0} /\ CU \in Nat \ {0} /\ SPC * ES \in Nat \ {0}
  /\ ByteRange \in Nat /\ ByteRange \div 2 \in Nat /\ ByteRange \div 2 > SPC
  /\ MaxCluster = Clusters + 1 /\ EOC = Clusters + 2
  /\ Data = 2 .. Clusters + 1 /\ Table = 0 .. Clusters + 1 /\ Root = 0
<1>1. /\ Clusters \in Nat \ {0} /\ SPC \in Nat \ {0} /\ SU \in Nat \ {0} /\ ES \in Nat \ {0}
      /\ RootSectors \in Nat \ {0} /\ ByteRange \in Nat /\ ByteRange \div 2 > SPC
  BY Fat16Assumption
<1>2. CU \in Nat \ {0} /\ SPC * ES \in Nat \ {0}
  BY <1>1 DEF CU
<1>3. ByteRange \div 2 \in Nat
  BY <1>1
<1> QED BY <1>1, <1>2, <1>3 DEF MaxCluster, EOC, Data, Table, Root

IsRun(F, c, n, f) == f = [j \in 0 .. n |-> IF j = 0 THEN c ELSE F[f[j - 1]]]

\* There is a function that begins with c and goes on by F, of any length.
LEMMA RunExists ==
  ASSUME NEW F, NEW c, NEW n \in Nat
  PROVE  \E f : IsRun(F, c, n, f)
<1> USE DEF IsRun
<1> DEFINE Has(m) == \E f : IsRun(F, c, m, f)
           T == {m \in Nat : ~ Has(m)}
<1>1. Has(0)
  <2> DEFINE f == [j \in 0 .. 0 |-> c]
  <2>1. f = [j \in 0 .. 0 |-> IF j = 0 THEN c ELSE F[f[j - 1]]]
    OBVIOUS
  <2> QED BY <2>1
<1>2. ASSUME NEW m \in Nat, Has(m) PROVE Has(m + 1)
  <2>1. PICK g : g = [j \in 0 .. m |-> IF j = 0 THEN c ELSE F[g[j - 1]]]
    BY <1>2
  <2>a. \A i \in 0 .. m : g[i] = IF i = 0 THEN c ELSE F[g[i - 1]]
    BY <2>1
  <2> DEFINE f == [j \in 0 .. m + 1 |-> IF j = m + 1 THEN F[g[m]] ELSE g[j]]
  <2>2. ASSUME NEW j \in 0 .. m + 1
        PROVE  f[j] = IF j = 0 THEN c ELSE F[f[j - 1]]
    <3>1. CASE j = 0
      BY <2>1, <3>1
    <3>2. CASE j \in 1 .. m
      <4>1. g[j] = F[g[j - 1]]
        BY <2>a, <3>2
      <4>2. f[j] = g[j] /\ f[j - 1] = g[j - 1]
        BY <3>2
      <4> QED BY <3>2, <4>1, <4>2
    <3>3. CASE j = m + 1
      <4>1. f[j] = F[g[m]] /\ f[j - 1] = g[m]
        BY <3>3
      <4> QED BY <3>3, <4>1
    <3> QED BY <3>1, <3>2, <3>3
  <2>3. f = [j \in 0 .. m + 1 |-> IF j = 0 THEN c ELSE F[f[j - 1]]]
    BY <2>2
  <2> QED BY <2>3
<1> HIDE DEF Has
<1>3. T = {}
  <2> SUFFICES ASSUME T # {} PROVE FALSE
    OBVIOUS
  <2>1. PICK m \in T : \A k \in T : m <= k
    BY Least
  <2>2. m \in Nat /\ ~ Has(m) /\ m # 0
    BY <1>1
  <2>3. m - 1 \in Nat /\ m - 1 \notin T
    BY <2>1, <2>2
  <2>4. Has(m - 1) /\ (m - 1) + 1 = m
    BY <2>2, <2>3
  <2> QED BY <1>2, <2>2, <2>3, <2>4
<1>4. Has(n)
  BY <1>3
<1> QED BY <1>4 DEF Has

LEMMA HopsAre ==
  ASSUME NEW t, NEW c
  PROVE  /\ HopsIn(t, c)[0] = c
         /\ \A j \in 1 .. Clusters : HopsIn(t, c)[j] = FollowIn(t)[HopsIn(t, c)[j - 1]]
<1> DEFINE F == FollowIn(t)
           h == CHOOSE hop : IsRun(F, c, Clusters, hop)
<1>1. HopsIn(t, c) = h
  BY DEF HopsIn, IsRun
<1> HIDE DEF F
<1>2. \E hop : IsRun(F, c, Clusters, hop)
  BY RunExists, Sizes
<1>3. IsRun(F, c, Clusters, h)
  BY <1>2
<1> HIDE DEF h
<1>4. h[0] = c /\ \A j \in 1 .. Clusters : h[j] = F[h[j - 1]]
  BY <1>3, Sizes DEF IsRun
<1> QED BY <1>1, <1>4 DEF F

LEMMA HopIs ==
  ASSUME NEW c, NEW k
  PROVE  Hop(c, k) = HopsIn(fat1, c)[k] /\ ChainLength(c) = LengthIn(fat1, c)
<1>1. Follow = FollowIn(fat1)
  BY DEF Follow, FollowIn
<1>2. \A j : Hop(c, j) = HopsIn(fat1, c)[j]
  BY <1>1 DEF Hop, HopsIn
<1>3. {j \in 0 .. Clusters - 1 : Hop(c, j) \in Data}
        = {j \in 0 .. Clusters - 1 : HopsIn(fat1, c)[j] \in Data}
  BY <1>2
<1>4. ChainLength(c) = LengthIn(fat1, c)
  BY <1>3 DEF ChainLength, LengthIn
<1> QED BY <1>2, <1>4

Tables == [Table -> 0 .. EOC]

LEMMA HopType ==
  ASSUME NEW t \in Tables, NEW c \in 0 .. EOC, NEW j \in 0 .. Clusters
  PROVE  HopsIn(t, c)[j] \in 0 .. EOC
<1> DEFINE h == HopsIn(t, c)
           S == {i \in Nat : i <= Clusters => h[i] \in 0 .. EOC}
<1>1. \A e \in 0 .. EOC : FollowIn(t)[e] \in 0 .. EOC
  BY Sizes DEF FollowIn, Tables
<1>2. h[0] = c /\ \A i \in 1 .. Clusters : h[i] = FollowIn(t)[h[i - 1]]
  BY HopsAre
<1> HIDE DEF h
<1>3. 0 \in S
  BY <1>2
<1>4. ASSUME NEW i \in Nat, i \in S PROVE i + 1 \in S
  <2> SUFFICES ASSUME i + 1 <= Clusters PROVE h[i + 1] \in 0 .. EOC
    OBVIOUS
  <2>1. i + 1 \in 1 .. Clusters /\ i <= Clusters /\ (i + 1) - 1 = i
    BY Sizes
  <2>2. h[i + 1] = FollowIn(t)[h[i]] /\ h[i] \in 0 .. EOC
    BY <1>2, <1>4, <2>1
  <2> QED BY <1>1, <2>2
<1>5. j \in Nat /\ j \in S
  <2> HIDE DEF S
  <2> QED BY <1>3, <1>4, Induct, Sizes
<1> QED BY <1>5, Sizes DEF h

\* The clusters of a chain come first; LengthIn says how many they are.
LEMMA ChainIsAPrefix ==
  ASSUME NEW t \in Tables, NEW c \in 0 .. EOC
  PROVE  /\ LengthIn(t, c) \in 0 .. Clusters
         /\ \A k \in 0 .. Clusters - 1 : HopsIn(t, c)[k] \in Data <=> k < LengthIn(t, c)
<1> DEFINE h == HopsIn(t, c)
           T == {k \in 0 .. Clusters : k = Clusters \/ h[k] \notin Data}
<1>1. /\ \A i \in 1 .. Clusters : h[i] = FollowIn(t)[h[i - 1]]
      /\ \A i \in 0 .. Clusters : h[i] \in 0 .. EOC
  BY HopsAre, HopType
<1> HIDE DEF h
<1>2. Clusters \in T /\ T \subseteq Nat
  BY Sizes
<1>3. PICK m \in T : \A k \in T : m <= k
  BY <1>2, Least
<1>4. m \in 0 .. Clusters /\ (m = Clusters \/ h[m] \notin Data)
  OBVIOUS
<1>5. \A k \in 0 .. m - 1 : h[k] \in Data
  BY <1>3, <1>4, Sizes
<1>6. \A k \in Nat : m <= k /\ k < Clusters => h[k] \notin Data
  <2> DEFINE S == {k \in Nat : m <= k /\ k < Clusters => h[k] \notin Data}
  <2>1. 0 \in S
    BY <1>4, Sizes
  <2>2. ASSUME NEW k \in Nat, k \in S PROVE k + 1 \in S
    <3> SUFFICES ASSUME m <= k + 1, k + 1 < Clusters PROVE h[k + 1] \notin Data
      OBVIOUS
    <3>1. CASE m = k + 1
      BY <1>4, <3>1
    <3>2. CASE m # k + 1
      <4>1. m <= k /\ k < Clusters /\ k + 1 \in 1 .. Clusters /\ (k + 1) - 1 = k
        BY <1>4, <3>2, Sizes
      <4>2. h[k] \notin Data /\ h[k] \in 0 .. EOC
        BY <1>1, <2>2, <4>1, Sizes
      <4>3. FollowIn(t)[h[k]] = EOC
        BY <4>2 DEF FollowIn
      <4> QED BY <1>1, <4>1, <4>3, Sizes
    <3> QED BY <3>1, <3>2
  <2>3. Nat \subseteq S
    <3> HIDE DEF S
    <3> QED BY <2>1, <2>2, Induct
  <2> QED BY <2>3
<1>7. {k \in 0 .. Clusters - 1 : h[k] \in Data} = 0 .. m - 1
  BY <1>4, <1>5, <1>6, Sizes
<1>8. Cardinality(0 .. m - 1) = m
  BY <1>4, FS_Interval, Sizes
<1>9. LengthIn(t, c) = m
  BY <1>7, <1>8 DEF LengthIn, h
<1> QED BY <1>4, <1>5, <1>6, <1>9, Sizes DEF h

LEMMA ChainHas ==
  ASSUME NEW t \in Tables, NEW c \in Data
  PROVE  /\ LengthIn(t, c) \in 1 .. Clusters
         /\ \A k \in 0 .. LengthIn(t, c) - 1 : HopsIn(t, c)[k] \in Data
         /\ t[c] \notin Data => LengthIn(t, c) = 1
<1>1. c \in 0 .. EOC
  BY Sizes
<1>2. /\ LengthIn(t, c) \in 0 .. Clusters
      /\ \A k \in 0 .. Clusters - 1 : HopsIn(t, c)[k] \in Data <=> k < LengthIn(t, c)
  BY <1>1, ChainIsAPrefix
<1>3. HopsIn(t, c)[0] \in Data
  BY HopsAre
<1>4. 0 < LengthIn(t, c)
  BY <1>2, <1>3, Sizes
<1>5. ASSUME t[c] \notin Data PROVE LengthIn(t, c) = 1
  <2> SUFFICES ASSUME LengthIn(t, c) > 1 PROVE FALSE
    BY <1>2, <1>4, Sizes
  <2>1. 1 \in 0 .. Clusters - 1 /\ 1 \in 1 .. Clusters
    BY <1>2, Sizes
  <2>2. HopsIn(t, c)[1] = FollowIn(t)[c]
    BY <2>1, HopsAre
  <2>3. FollowIn(t)[c] = t[c]
    BY <1>1 DEF FollowIn
  <2>4. HopsIn(t, c)[1] \in Data
    BY <1>2, <2>1
  <2> QED BY <1>5, <2>2, <2>3, <2>4
<1> QED BY <1>2, <1>4, <1>5, Sizes

-----------------------------------------------------------------------------
(* Arithmetic of directories and sectors                                   *)

LEMMA Divided ==
  ASSUME NEW a \in Nat, NEW n \in Nat \ {0}
  PROVE  /\ a \div n \in Nat /\ a % n \in 0 .. n - 1
         /\ (a \div n) * n <= a /\ a < (a \div n) * n + n
OBVIOUS

LEMMA Multiples ==
  ASSUME NEW p \in Int, NEW q \in Int, NEW n \in Nat \ {0}
  PROVE  /\ p * n < q * n => p < q
         /\ p * n <= q * n => p <= q
         /\ p <= q => p * n <= q * n
         /\ p * n < q * n + n => p <= q
<1>1. p <= q => p * n <= q * n
  <2> SUFFICES ASSUME p <= q PROVE p * n <= q * n
    OBVIOUS
  <2>1. q - p \in Nat
    OBVIOUS
  <2>2. (q - p) * n \in Nat
    BY <2>1
  <2> QED BY <2>2
<1>2. q < p => q * n + n <= p * n
  <2> SUFFICES ASSUME q < p PROVE q * n + n <= p * n
    OBVIOUS
  <2>1. p - q - 1 \in Nat
    OBVIOUS
  <2>2. (p - q - 1) * n \in Nat
    BY <2>1
  <2> QED BY <2>2
<1> QED BY <1>1, <1>2

\* The slots of a directory are slots of its clusters.
LEMMA SlotIsLoc ==
  ASSUME fat1 \in Tables, NEW d \in Starts, NEW k \in Positions(d)
  PROVE  Slot(d, k) \in LocSet
<1>1. CASE d = Root
  <2>1. Slot(d, k) = [c |-> Root, i |-> k] /\ k \in 0 .. RootSectors * ES - 1
    BY <1>1 DEF Slot, Positions
  <2>2. k \in Slots(Root) /\ k \in Nat
    BY <2>1, Sizes DEF Slots
  <2> QED BY <2>1, <2>2 DEF LocSet, Starts
<1>2. CASE d # Root
  <2> DEFINE L == LengthIn(fat1, d)
             n == SPC * ES
             q == k \div n
  <2>1. d \in Data
    BY <1>2 DEF Starts
  <2>2. L \in 1 .. Clusters /\ \A j \in 0 .. L - 1 : HopsIn(fat1, d)[j] \in Data
    BY <2>1, ChainHas
  <2>3. k \in 0 .. (L * SPC) * ES - 1
    BY <1>2, HopIs DEF Positions
  <2> HIDE DEF L
  <2>4. n \in Nat \ {0} /\ SPC \in Nat /\ ES \in Nat /\ L \in Nat
    BY <2>2, Sizes
  <2>5. (L * SPC) * ES = L * n
    BY <2>4
  <2>6. k \in Nat /\ k < L * n
    <3>1. L * n \in Nat
      BY <2>4
    <3> QED BY <2>3, <2>5, <3>1
  <2> HIDE DEF n
  <2>7. q \in Nat /\ k % n \in 0 .. n - 1 /\ q * n <= k
    BY <2>4, <2>6, Divided
  <2>8. q * n < L * n
    <3>1. q * n \in Int /\ L * n \in Int
      BY <2>4, <2>7
    <3> QED BY <2>6, <2>7, <3>1
  <2>9. q \in 0 .. L - 1
    BY <2>4, <2>7, <2>8, Multiples
  <2>10. HopsIn(fat1, d)[q] \in Data
    BY <2>2, <2>9
  <2>11. Slot(d, k) = [c |-> HopsIn(fat1, d)[q], i |-> k % n]
    BY <1>2, HopIs DEF Slot, n, q
  <2> HIDE DEF q
  <2>12. Slots(HopsIn(fat1, d)[q]) = 0 .. n - 1
    BY <2>10, Sizes DEF Slots, n
  <2>13. k % n \in Nat
    BY <2>7, <2>4
  <2>14. /\ Slot(d, k) \in [c : Starts, i : Nat]
         /\ Slot(d, k).c = HopsIn(fat1, d)[q] /\ Slot(d, k).i = k % n
    BY <2>10, <2>11, <2>13 DEF Starts
  <2>15. Slot(d, k).i \in Slots(Slot(d, k).c)
    BY <2>7, <2>12, <2>14
  <2> QED BY <2>14, <2>15 DEF LocSet
<1> QED BY <1>1, <1>2

LEMMA EntryHas ==
  ASSUME DiskHas, NEW loc \in LocSet
  PROVE  Entry(loc) \in EntrySet
<1>1. loc.c \in Starts /\ loc.i \in Slots(loc.c) /\ loc.i \in Nat
  BY DEF LocSet
<1>2. CASE loc.c = Root
  BY <1>1, <1>2 DEF Entry, DiskHas
<1>3. CASE loc.c # Root
  <2> DEFINE q == loc.i \div ES
             s == Sector(loc.c, q)
  <2>1. loc.c \in Data /\ loc.i \in 0 .. SPC * ES - 1
    BY <1>1, <1>3 DEF Slots, Starts
  <2>2. q \in Nat /\ q * ES <= loc.i /\ loc.i % ES \in 0 .. ES - 1
    BY <1>1, Sizes, Divided
  <2>3. q * ES < SPC * ES
    <3>1. q * ES \in Int /\ SPC * ES \in Int
      BY <2>2, Sizes
    <3> QED BY <2>1, <2>2, <3>1
  <2>4. q < SPC
    BY <2>2, <2>3, Sizes, Multiples
  <2>5. s \in Sectors
    <3> HIDE DEF q
    <3> DEFINE b == loc.c - 2
    <3>1. b \in 0 .. Clusters - 1
      BY <2>1, Sizes
    <3> HIDE DEF b
    <3>2. s = b * SPC + q
      BY DEF Sector, b
    <3>3. b * SPC <= (Clusters - 1) * SPC /\ b * SPC \in Nat
      BY <3>1, Sizes, Multiples
    <3>4. (Clusters - 1) * SPC = Clusters * SPC - SPC /\ Clusters * SPC \in Nat
      BY Sizes
    <3>5. s \in 0 .. Clusters * SPC - 1
      BY <2>2, <2>4, <3>2, <3>3, <3>4, Sizes
    <3> QED BY <3>5 DEF Sectors
  <2>6. sector[s] \in SectorSet
    BY <2>5 DEF DiskHas
  <2>7. sector[s].entries[loc.i % ES] \in EntrySet
    BY <2>2, <2>6 DEF SectorSet
  <2> QED BY <1>3, <2>7 DEF Entry
<1> QED BY <1>2, <1>3

\* What the searches find are slots.
LEMMA FoundIsLoc ==
  ASSUME fat1 \in Tables, cur \in Starts, NEW n
  PROVE  Found(n) \subseteq LocSet
BY SlotIsLoc DEF Found

LEMMA FreeIsLoc ==
  ASSUME fat1 \in Tables, cur \in Starts
  PROVE  FreeSlot \subseteq LocSet
BY SlotIsLoc DEF FreeSlot

LEMMA FreeClusterIsData ==
  ASSUME NEW c \in FreeCluster
  PROVE  c \in Data /\ c \in 0 .. EOC /\ c \in Starts
BY Sizes DEF FreeCluster, Starts

-----------------------------------------------------------------------------
(* Queued writes                                                           *)

LEMMA FatWriteHas ==
  ASSUME NEW to \in {"fat1", "fat2"}, NEW c \in 0 .. EOC, NEW v \in 0 .. EOC
  PROVE  FatWrite(to, c, v) \in WriteSet
BY DEF FatWrite, WriteSet, FatWrites

LEMMA EntryWriteHas ==
  ASSUME NEW loc \in LocSet, NEW e \in EntrySet
  PROVE  EntryWrite(loc, e) \in WriteSet /\ EntryWrite(loc, e).to = "entry"
BY DEF EntryWrite, WriteSet

LEMMA SectorWriteHas ==
  ASSUME NEW s \in Int, NEW x \in SectorSet
  PROVE  SectorWrite(s, x) \in WriteSet /\ SectorWrite(s, x).to = "sector"
BY DEF SectorWrite, WriteSet

\* A sequence of writes the driver may queue.
Queued(w) == w \in Seq(WriteSet) /\ Pairs(w)
NoTables(w) == \A k \in 1 .. Len(w) : w[k].to \notin {"fat1", "fat2"}

LEMMA PlainIsQueued ==
  ASSUME NEW w \in Seq(WriteSet), NoTables(w)
  PROVE  Queued(w)
BY DEF Queued, NoTables, Pairs

LEMMA NothingIsQueued == Queued(<<>>) /\ NoTables(<<>>)
<1>1. <<>> \in Seq(WriteSet) /\ NoTables(<<>>)
  BY DEF NoTables
<1> QED BY <1>1, PlainIsQueued

LEMMA OneIsQueued ==
  ASSUME NEW x \in WriteSet, x.to \notin {"fat1", "fat2"}
  PROVE  Queued(<<x>>) /\ NoTables(<<x>>) /\ Len(<<x>>) = 1
<1>1. <<x>> \in Seq(WriteSet) /\ Len(<<x>>) = 1 /\ <<x>>[1] = x
  OBVIOUS
<1>2. NoTables(<<x>>)
  BY <1>1 DEF NoTables
<1> QED BY <1>1, <1>2, PlainIsQueued

LEMMA UpdateIsQueued ==
  ASSUME NEW c \in 0 .. EOC, NEW v \in 0 .. EOC
  PROVE  /\ Queued(UpdateFat(c, v)) /\ Len(UpdateFat(c, v)) = 2
         /\ UpdateFat(c, v)[1] = FatWrite("fat1", c, v)
         /\ UpdateFat(c, v)[2] = FatWrite("fat2", c, v)
<1> DEFINE a == FatWrite("fat1", c, v)
           b == FatWrite("fat2", c, v)
           w == <<a, b>>
<1>1. a \in WriteSet /\ b \in WriteSet
  BY FatWriteHas
<1>2. a.to = "fat1" /\ b.to = "fat2" /\ a.c = c /\ a.v = v
  BY DEF FatWrite
<1> HIDE DEF a, b
<1>3. w \in Seq(WriteSet) /\ Len(w) = 2 /\ w[1] = a /\ w[2] = b
  BY <1>1
<1> HIDE DEF w
<1>4. \A k \in 1 .. Len(w) : k = 1 \/ k = 2
  BY <1>3
<1>5. b = FatWrite("fat2", a.c, a.v)
  BY <1>2 DEF b
<1>6. Pairs(w)
  BY <1>2, <1>3, <1>4, <1>5 DEF Pairs
<1>7. w = UpdateFat(c, v)
  BY DEF UpdateFat, w, a, b
<1> QED BY <1>3, <1>6, <1>7 DEF Queued, a, b

LEMMA JoinIsQueued ==
  ASSUME NEW s, NEW t, Queued(s), Queued(t)
  PROVE  /\ Queued(s \o t) /\ Len(s \o t) = Len(s) + Len(t)
         /\ \A k \in 1 .. Len(s) : (s \o t)[k] = s[k]
         /\ \A k \in 1 .. Len(t) : (s \o t)[Len(s) + k] = t[k]
<1> DEFINE w == s \o t
<1>1. s \in Seq(WriteSet) /\ t \in Seq(WriteSet) /\ Len(s) \in Nat /\ Len(t) \in Nat
  BY DEF Queued
<1>2. /\ w \in Seq(WriteSet) /\ Len(w) = Len(s) + Len(t)
      /\ \A k \in 1 .. Len(s) : w[k] = s[k]
      /\ \A k \in 1 .. Len(t) : w[Len(s) + k] = t[k]
  BY <1>1
<1> HIDE DEF w
<1>3. ASSUME NEW k \in 1 .. Len(w), w[k].to = "fat1"
      PROVE  k < Len(w) /\ w[k + 1] = FatWrite("fat2", w[k].c, w[k].v)
  <2>1. CASE k <= Len(s)
    <3>1. k \in 1 .. Len(s) /\ w[k] = s[k]
      BY <1>1, <1>2, <2>1
    <3>2. k < Len(s) /\ s[k + 1] = FatWrite("fat2", s[k].c, s[k].v)
      BY <1>3, <3>1 DEF Queued, Pairs
    <3>3. k + 1 \in 1 .. Len(s) /\ w[k + 1] = s[k + 1]
      BY <1>1, <1>2, <3>1, <3>2
    <3> QED BY <1>1, <1>2, <3>1, <3>2, <3>3
  <2>2. CASE ~(k <= Len(s))
    <3> DEFINE j == k - Len(s)
    <3>1. j \in 1 .. Len(t) /\ Len(s) + j = k
      BY <1>1, <1>2, <2>2
    <3>2. w[k] = t[j]
      BY <1>2, <3>1
    <3>3. j < Len(t) /\ t[j + 1] = FatWrite("fat2", t[j].c, t[j].v)
      BY <1>3, <3>1, <3>2 DEF Queued, Pairs
    <3>4. j + 1 \in 1 .. Len(t) /\ Len(s) + (j + 1) = k + 1
      BY <1>1, <3>1, <3>3
    <3>5. w[k + 1] = t[j + 1]
      BY <1>2, <3>4
    <3> QED BY <1>1, <1>2, <3>1, <3>2, <3>3, <3>5
  <2> QED BY <2>1, <2>2
<1>4. ASSUME NEW k \in 1 .. Len(w), w[k].to = "fat2"
      PROVE  k > 1 /\ w[k - 1].to = "fat1"
  <2>1. CASE k <= Len(s)
    <3>1. k \in 1 .. Len(s) /\ w[k] = s[k]
      BY <1>1, <1>2, <2>1
    <3>2. k > 1 /\ s[k - 1].to = "fat1"
      BY <1>4, <3>1 DEF Queued, Pairs
    <3>3. k - 1 \in 1 .. Len(s) /\ w[k - 1] = s[k - 1]
      BY <1>1, <1>2, <3>1, <3>2
    <3> QED BY <3>2, <3>3
  <2>2. CASE ~(k <= Len(s))
    <3> DEFINE j == k - Len(s)
    <3>1. j \in 1 .. Len(t) /\ Len(s) + j = k
      BY <1>1, <1>2, <2>2
    <3>2. w[k] = t[j]
      BY <1>2, <3>1
    <3>3. j > 1 /\ t[j - 1].to = "fat1"
      BY <1>4, <3>1, <3>2 DEF Queued, Pairs
    <3>4. j - 1 \in 1 .. Len(t) /\ Len(s) + (j - 1) = k - 1
      BY <1>1, <3>1, <3>3
    <3>5. w[k - 1] = t[j - 1]
      BY <1>2, <3>4
    <3> QED BY <1>1, <3>1, <3>3, <3>5
  <2> QED BY <2>1, <2>2
<1>5. Pairs(w)
  BY <1>3, <1>4 DEF Pairs
<1> QED BY <1>2, <1>5 DEF Queued, w

\* The first write of a queue, and what stands behind it.
LEMMA FirstWrite ==
  ASSUME NEW w \in Seq(WriteSet), w # <<>>
  PROVE  /\ Head(w) = w[1] /\ Head(w) \in WriteSet /\ Len(w) \in Nat \ {0}
         /\ Tail(w) \in Seq(WriteSet) /\ Len(Tail(w)) = Len(w) - 1
         /\ \A k \in 1 .. Len(w) - 1 : Tail(w)[k] = w[k + 1]
BY HeadTailProperties

LEMMA PairsAfter ==
  ASSUME NEW w \in Seq(WriteSet), w # <<>>, Pairs(w)
  PROVE  /\ w[1].to # "fat2"
         /\ w[1].to # "fat1" => Pairs(Tail(w))
         /\ w[1].to = "fat1" =>
              /\ Tail(w) # <<>> /\ Tail(w)[1] = FatWrite("fat2", w[1].c, w[1].v)
              /\ Pairs(Tail(Tail(w)))
<1> DEFINE t == Tail(w)
           u == Tail(t)
<1>1. /\ Len(w) \in Nat \ {0} /\ t \in Seq(WriteSet) /\ Len(t) = Len(w) - 1
      /\ \A k \in 1 .. Len(t) : t[k] = w[k + 1]
  BY FirstWrite
<1>2. 1 \in 1 .. Len(w)
  BY <1>1
<1>3. w[1].to # "fat2"
  BY <1>2 DEF Pairs
<1> HIDE DEF t
<1>4. ASSUME NEW k \in 1 .. Len(t), t[k].to = "fat1"
      PROVE  k < Len(t) /\ t[k + 1] = FatWrite("fat2", t[k].c, t[k].v)
  <2>1. k + 1 \in 1 .. Len(w) /\ t[k] = w[k + 1]
    BY <1>1
  <2>2. k + 1 < Len(w) /\ w[(k + 1) + 1] = FatWrite("fat2", w[k + 1].c, w[k + 1].v)
    BY <1>4, <2>1 DEF Pairs
  <2>3. k + 1 \in 1 .. Len(t)
    BY <1>1, <2>1, <2>2
  <2> QED BY <1>1, <2>1, <2>2, <2>3
<1>5. ASSUME NEW k \in 1 .. Len(t), t[k].to = "fat2", k > 1 \/ w[1].to # "fat1"
      PROVE  k > 1 /\ t[k - 1].to = "fat1"
  <2>1. k + 1 \in 1 .. Len(w) /\ t[k] = w[k + 1] /\ (k + 1) - 1 = k
    BY <1>1
  <2>2. w[k].to = "fat1"
    BY <1>5, <2>1 DEF Pairs
  <2>3. k # 1
    BY <1>5, <2>2
  <2>4. k - 1 \in 1 .. Len(t) /\ (k - 1) + 1 = k
    BY <1>1, <2>1, <2>3
  <2>5. t[k - 1] = w[k]
    BY <1>1, <2>4
  <2> QED BY <2>2, <2>3, <2>4, <2>5
<1>6. w[1].to # "fat1" => Pairs(t)
  BY <1>4, <1>5 DEF Pairs
<1>7. ASSUME w[1].to = "fat1"
      PROVE  t # <<>> /\ t[1] = FatWrite("fat2", w[1].c, w[1].v) /\ Pairs(u)
  <2>1. 1 < Len(w) /\ w[2] = FatWrite("fat2", w[1].c, w[1].v)
    BY <1>2, <1>7 DEF Pairs
  <2>2. 1 \in 1 .. Len(t) /\ t[1] = w[2] /\ t # <<>>
    BY <1>1, <2>1
  <2>3. /\ Len(u) \in Nat /\ Len(u) = Len(t) - 1
        /\ \A k \in 1 .. Len(u) : u[k] = t[k + 1]
    BY <1>1, <2>2, FirstWrite
  <2>4. t[1].to = "fat2"
    BY <2>1, <2>2 DEF FatWrite
  <2> HIDE DEF u
  <2>5. ASSUME NEW k \in 1 .. Len(u), u[k].to = "fat1"
        PROVE  k < Len(u) /\ u[k + 1] = FatWrite("fat2", u[k].c, u[k].v)
    <3>1. k + 1 \in 1 .. Len(t) /\ u[k] = t[k + 1]
      BY <1>1, <2>3
    <3>2. k + 1 < Len(t) /\ t[(k + 1) + 1] = FatWrite("fat2", t[k + 1].c, t[k + 1].v)
      BY <1>4, <2>5, <3>1
    <3>3. k + 1 \in 1 .. Len(u)
      BY <1>1, <2>3, <3>1, <3>2
    <3> QED BY <2>3, <3>1, <3>2, <3>3
  <2>6. ASSUME NEW k \in 1 .. Len(u), u[k].to = "fat2"
        PROVE  k > 1 /\ u[k - 1].to = "fat1"
    <3>1. k + 1 \in 1 .. Len(t) /\ u[k] = t[k + 1] /\ k + 1 > 1 /\ (k + 1) - 1 = k
      BY <1>1, <2>3
    <3>2. t[k].to = "fat1"
      BY <1>5, <2>6, <3>1
    <3>3. k # 1
      BY <2>4, <3>2
    <3>4. k - 1 \in 1 .. Len(u) /\ (k - 1) + 1 = k
      BY <2>3, <3>3
    <3>5. u[k - 1] = t[k]
      BY <2>3, <3>4
    <3> QED BY <3>2, <3>3, <3>4, <3>5
  <2> QED BY <2>1, <2>2, <2>5, <2>6 DEF Pairs
<1> QED BY <1>3, <1>6, <1>7 DEF t, u

-----------------------------------------------------------------------------
(* Entries, sectors, registers and requests                                *)

LEMMA EntriesAre ==
  /\ Empty \in EntrySet /\ Deleted \in EntrySet /\ Garbage \in EntrySet
  /\ \A n \in AllNames, c \in Starts : DirEntry(n, c) \in EntrySet
  /\ \A e \in EntrySet, n \in Names : [e EXCEPT !.name = n] \in EntrySet
  /\ \A e \in EntrySet, m \in Nat : [e EXCEPT !.len = @ + m] \in EntrySet
  /\ \A e \in EntrySet, c \in Starts : [e EXCEPT !.start = c] \in EntrySet
BY DEF Empty, Deleted, Garbage, DirEntry, EntrySet, AllNames, Starts, Root

LEMMA EntrySectorHas ==
  ASSUME NEW f \in [0 .. ES - 1 -> EntrySet]
  PROVE  DirSector(f) \in SectorSet
BY DEF DirSector, SectorSet, UnitSet

LEMMA DataSectorHas ==
  ASSUME NEW u \in [0 .. SU - 1 -> UnitSet]
  PROVE  DataSector(u) \in SectorSet
BY EntriesAre DEF DataSector, SectorSet

LEMMA SectorsAre ==
  /\ Cleared \in SectorSet /\ NeverUsed \in SectorSet
  /\ \A c \in Data : cur \in Starts => NewDirSector(c) \in SectorSet
<1>1. Cleared \in SectorSet
  BY EntriesAre, EntrySectorHas DEF Cleared
<1>2. NeverUsed \in SectorSet
  BY DataSectorHas DEF NeverUsed, UnitSet
<1>3. ASSUME NEW c \in Data, cur \in Starts PROVE NewDirSector(c) \in SectorSet
  <2>1. /\ DirEntry(".", c) \in EntrySet /\ DirEntry("..", cur) \in EntrySet /\ Empty \in EntrySet
    BY <1>3, EntriesAre DEF AllNames, Starts
  <2> QED BY <2>1, EntrySectorHas DEF NewDirSector
<1> QED BY <1>1, <1>2, <1>3

LEMMA SectorIsInt ==
  ASSUME NEW c \in Int, NEW s \in Int
  PROVE  Sector(c, s) \in Int
BY Sizes DEF Sector

LEMMA ClearIsQueued ==
  ASSUME NEW c \in Data, NEW from \in 0 .. SPC
  PROVE  /\ Queued(ClearCluster(c, from)) /\ NoTables(ClearCluster(c, from))
<1> DEFINE w == ClearCluster(c, from)
<1>1. SPC - from \in Nat /\ c \in Int
  BY Sizes
<1>2. \A k \in 1 .. SPC - from : /\ SectorWrite(Sector(c, from + k - 1), Cleared) \in WriteSet
                                 /\ SectorWrite(Sector(c, from + k - 1), Cleared).to = "sector"
  <2> TAKE k \in 1 .. SPC - from
  <2>1. from + k - 1 \in Int
    BY <1>1, Sizes
  <2>2. Sector(c, from + k - 1) \in Int /\ Cleared \in SectorSet
    BY <1>1, <2>1, SectorIsInt, SectorsAre
  <2> QED BY <2>2, SectorWriteHas
<1>3. /\ w \in Seq(WriteSet) /\ Len(w) = SPC - from
      /\ \A k \in 1 .. Len(w) : w[k].to = "sector"
  BY <1>1, <1>2 DEF ClearCluster
<1> HIDE DEF w
<1>4. NoTables(w)
  BY <1>3 DEF NoTables
<1> QED BY <1>3, <1>4, PlainIsQueued DEF w

LEMMA RegsAre ==
  /\ NoRegs \in RegSet
  /\ \A c \in Starts : [NoRegs EXCEPT !.nfc = c] \in RegSet
  /\ \A c \in 0 .. EOC : [NoRegs EXCEPT !.clu = c] \in RegSet
  /\ \A loc \in LocSet, c \in 0 .. EOC, have \in Nat, left \in Nat :
       [NoRegs EXCEPT !.loc = loc, !.clu = c, !.have = have, !.left = left] \in RegSet
<1> USE DEF RegSet
<1>1. NoRegs \in RegSet
  BY Sizes DEF NoRegs, Starts
<1>2. \A g \in RegSet, c \in Starts : [g EXCEPT !.nfc = c] \in RegSet
  OBVIOUS
<1>3. \A g \in RegSet, c \in 0 .. EOC : [g EXCEPT !.clu = c] \in RegSet
  OBVIOUS
<1>4. \A g \in RegSet, loc \in LocSet : [g EXCEPT !.loc = loc] \in RegSet
  OBVIOUS
<1>5. \A g \in RegSet, m \in Nat : [g EXCEPT !.have = m] \in RegSet /\ [g EXCEPT !.left = m] \in RegSet
  OBVIOUS
<1> HIDE DEF RegSet
<1>6. ASSUME NEW loc \in LocSet, NEW c \in 0 .. EOC, NEW have \in Nat, NEW left \in Nat
      PROVE  [NoRegs EXCEPT !.loc = loc, !.clu = c, !.have = have, !.left = left] \in RegSet
  <2> DEFINE g1 == [NoRegs EXCEPT !.loc = loc]
             g2 == [g1 EXCEPT !.clu = c]
             g3 == [g2 EXCEPT !.have = have]
             g4 == [g3 EXCEPT !.left = left]
  <2>1. g1 \in RegSet
    BY <1>1, <1>4
  <2>2. g2 \in RegSet
    BY <1>3, <2>1
  <2>3. g3 \in RegSet
    BY <1>5, <2>2
  <2>4. g4 \in RegSet
    BY <1>5, <2>3
  <2>5. g4 = [NoRegs EXCEPT !.loc = loc, !.clu = c, !.have = have, !.left = left]
    BY DEF NoRegs
  <2> QED BY <2>4, <2>5
<1> QED BY <1>1, <1>2, <1>3, <1>6

LEMMA RequestsAre ==
  /\ NoReq \in ReqSet
  /\ \A op \in Ops, n \in Names \cup {"", ".."} : Req(op, n) \in ReqSet
  /\ \A op \in Ops, n \in Names, new \in Names : [Req(op, n) EXCEPT !.new = new] \in ReqSet
  /\ \A op \in Ops, n \in Names, d \in AppendData : [Req(op, n) EXCEPT !.data = d] \in ReqSet
<1>1. NoReq \in ReqSet
  <2>1. "none" \in Ops /\ "" \in Names \cup {"", ".."} /\ "" \in Names \cup {""}
    BY DEF Ops
  <2>2. <<>> \in AppendData \cup {<<>>}
    OBVIOUS
  <2> QED BY <2>1, <2>2 DEF NoReq, ReqSet
<1>2. \A op \in Ops, n \in Names \cup {"", ".."} : Req(op, n) \in ReqSet
  BY DEF NoReq, Req, ReqSet
<1>3. \A q \in ReqSet, new \in Names : [q EXCEPT !.new = new] \in ReqSet
  BY DEF ReqSet
<1>4. \A q \in ReqSet, d \in AppendData : [q EXCEPT !.data = d] \in ReqSet
  BY DEF ReqSet
<1> QED BY <1>1, <1>2, <1>3, <1>4

-----------------------------------------------------------------------------
(* How a command begins, goes on and returns                               *)

\* At a stage and between commands the two tables are the same.
LEMMA SameTables ==
  ASSUME FatInv, todo = <<>>, pc # "idle" \/ ~failed
  PROVE  fat1 = fat2
<1>1. ~Halfway
  BY DEF Halfway
<1> QED BY <1>1 DEF FatInv, TablesInv

LEMMA Returns ==
  ASSUME FatInv, NEW q, NEW err, NEW out, Return(q, err, out),
         cur' \in Starts, failed' \in BOOLEAN,
         fat1 = fat2 \/ (failed' /\ \E c \in 0 .. EOC : SameBut(c))
  PROVE  FatInv'
<1>1. DiskHas'
  BY DEF Return, disk, FatInv, DiskHas
<1>2. todo' = <<>> /\ pc' = "idle" /\ r' = NoRegs /\ req' = NoReq /\ fat1' = fat1 /\ fat2' = fat2
  BY DEF Return, disk
<1>3. CommandHas'
  BY <1>2, NothingIsQueued, RegsAre, RequestsAre DEF CommandHas, Queued
<1>4. StageHas'
  BY <1>2 DEF StageHas, Needs
<1>5. TablesInv'
  <2>1. Pairs(<<>>)
    BY NothingIsQueued DEF Queued
  <2>2. CASE fat1 = fat2
    BY <1>2, <2>1, <2>2 DEF TablesInv
  <2>3. CASE failed' /\ \E c \in 0 .. EOC : SameBut(c)
    BY <1>2, <2>3 DEF TablesInv, SameBut
  <2> QED BY <2>2, <2>3
<1> QED BY <1>1, <1>3, <1>4, <1>5 DEF FatInv

LEMMA Queues ==
  ASSUME FatInv, fat1 = fat2, UNCHANGED <<disk, cur, failed>>,
         pc' \in {"slot", "free", "first", "walk", "fill", "link", "end"},
         Queued(todo'), r' \in RegSet, req' \in ReqSet, Needs(pc', todo', r', req')
  PROVE  FatInv'
<1>1. DiskHas'
  BY DEF disk, FatInv, DiskHas
<1>2. CommandHas'
  BY DEF FatInv, CommandHas, Queued
<1>3. StageHas'
  BY DEF StageHas, Needs, Fits, Marking, disk
<1>4. TablesInv'
  BY DEF TablesInv, Queued, disk
<1> QED BY <1>1, <1>2, <1>3, <1>4 DEF FatInv

LEMMA Begins ==
  ASSUME FatInv, NEW q \in ReqSet, NEW w, NEW g \in RegSet,
         NEW stage \in {"slot", "free", "first", "walk", "fill", "link", "end"},
         Queued(w), Needs(stage, w, g, q), Begin(q, stage, w, g)
  PROVE  FatInv'
<1>1. todo = <<>> /\ ~failed
  BY DEF Begin, Ready, Idle, FatInv, StageHas, Needs
<1>2. fat1 = fat2
  BY <1>1, SameTables
<1> QED BY <1>2, Queues DEF Begin

LEMMA Continues ==
  ASSUME FatInv, NEW now, now # "idle", At(now), NEW w, NEW g \in RegSet,
         NEW stage \in {"slot", "free", "first", "walk", "fill", "link", "end"},
         Queued(w), Needs(stage, w, g, req), Continue(stage, w, g)
  PROVE  FatInv'
<1>1. todo = <<>> /\ pc # "idle"
  BY DEF At
<1>2. fat1 = fat2
  BY <1>1, SameTables
<1> QED BY <1>2, Queues DEF Continue, FatInv, CommandHas

LEMMA Finishes ==
  ASSUME FatInv, NEW now, now # "idle", At(now), NEW err, Finish(err)
  PROVE  FatInv'
<1>1. fat1 = fat2
  BY SameTables DEF At
<1>2. Return(req, err, <<>>) /\ cur' \in Starts /\ failed' \in BOOLEAN
  BY DEF Finish, FatInv, CommandHas
<1> QED BY <1>1, <1>2, Returns

LEMMA Answers ==
  ASSUME FatInv, NEW q, NEW err, NEW out, Answer(q, err, out)
  PROVE  FatInv'
<1>1. fat1 = fat2
  BY SameTables DEF Answer, Ready, Idle, FatInv, StageHas, Needs
<1>2. Return(q, err, out) /\ cur' \in Starts /\ failed' \in BOOLEAN
  BY DEF Answer, FatInv, CommandHas
<1> QED BY <1>1, <1>2, Returns

LEMMA Refuses ==
  ASSUME FatInv, NEW q, NEW err, Refuse(q, err)
  PROVE  FatInv'
BY Answers DEF Refuse

-----------------------------------------------------------------------------
(* Commands                                                                *)

LEMMA Moves ==
  ASSUME FatInv, NEW q, NEW d \in Starts, MoveTo(q, d)
  PROVE  FatInv'
<1>1. fat1 = fat2
  BY SameTables DEF MoveTo, Ready, Idle, FatInv, StageHas, Needs
<1>2. Return(q, Ok, <<>>) /\ cur' \in Starts /\ failed' \in BOOLEAN
  BY DEF MoveTo, FatInv, CommandHas
<1> QED BY <1>1, <1>2, Returns

\* What FatInv says of entries and of slots that are found.
LEMMA FoundHas ==
  ASSUME FatInv, NEW n, NEW loc \in Found(n)
  PROVE  loc \in LocSet /\ Entry(loc) \in EntrySet /\ Entry(loc).start \in Starts
<1>1. loc \in LocSet
  BY FoundIsLoc DEF FatInv, DiskHas, CommandHas, Tables
<1>2. Entry(loc) \in EntrySet
  BY <1>1, EntryHas DEF FatInv
<1> QED BY <1>1, <1>2 DEF EntrySet

LEMMA DirectoriesStep ==
  ASSUME FatInv, ParentDir \/ RootDir \/ \E n \in Names : ChangeDir(n)
  PROVE  FatInv'
<1>1. CASE ParentDir
  <2> DEFINE q == Req("parent", "..")
  <2>1. CASE Refuse(q, ErrAtRoot)
    BY <2>1, Refuses
  <2>2. ASSUME NEW loc \in Found(".."), MoveTo(q, Entry(loc).start) PROVE FatInv'
    BY <2>2, FoundHas, Moves
  <2> QED BY <1>1, <2>1, <2>2 DEF ParentDir
<1>2. CASE RootDir
  <2>1. Root \in Starts
    BY DEF Starts
  <2> QED BY <1>2, <2>1, Moves DEF RootDir
<1>3. ASSUME NEW n \in Names, ChangeDir(n) PROVE FatInv'
  <2> DEFINE q == Req("chdir", n)
  <2>1. ASSUME NEW err, Refuse(q, err) PROVE FatInv'
    BY <2>1, Refuses
  <2>2. ASSUME NEW loc \in Found(n), MoveTo(q, Entry(loc).start) PROVE FatInv'
    BY <2>2, FoundHas, Moves
  <2> QED BY <1>3, <2>1, <2>2 DEF ChangeDir
<1> QED BY <1>1, <1>2, <1>3

LEMMA NamesStep ==
  ASSUME FatInv, NEW n \in Names, CreateFile(n) \/ MakeDir(n)
  PROVE  FatInv'
<1>1. CASE CreateFile(n)
  <2> DEFINE q == Req("create", n)
  <2>1. CASE Refuse(q, ErrExists)
    BY <2>1, Refuses
  <2>2. CASE Begin(q, "slot", <<>>, NoRegs)
    <3>1. q \in ReqSet /\ q.name = n /\ q.op = "create"
      <4>1. q \in ReqSet
        BY RequestsAre DEF Ops
      <4> QED BY <4>1 DEF Req, NoReq
    <3>2. Needs("slot", <<>>, NoRegs, q)
      BY <3>1 DEF Needs
    <3> HIDE DEF q
    <3> QED BY <2>2, <3>1, <3>2, Begins, NothingIsQueued, RegsAre
  <2> QED BY <1>1, <2>1, <2>2 DEF CreateFile
<1>2. CASE MakeDir(n)
  <2> DEFINE q == Req("mkdir", n)
  <2>1. ASSUME NEW err, Refuse(q, err) PROVE FatInv'
    BY <2>1, Refuses
  <2>2. ASSUME NEW c \in FreeCluster, Begin(q, "slot", <<>>, [NoRegs EXCEPT !.nfc = c])
        PROVE  FatInv'
    <3> DEFINE g == [NoRegs EXCEPT !.nfc = c]
    <3>1. q \in ReqSet /\ q.name = n
      <4>1. q \in ReqSet
        BY RequestsAre DEF Ops
      <4> QED BY <4>1 DEF Req, NoReq
    <3>2. g \in RegSet /\ g.nfc = c /\ c \in Data
      BY FreeClusterIsData, RegsAre DEF NoRegs
    <3>3. Needs("slot", <<>>, g, q)
      BY <3>1, <3>2 DEF Needs
    <3> HIDE DEF q
    <3>4. Begin(q, "slot", <<>>, g)
      BY <2>2
    <3> HIDE DEF g
    <3> QED BY <3>1, <3>2, <3>3, <3>4, Begins, NothingIsQueued
  <2> QED BY <1>2, <2>1, <2>2 DEF MakeDir
<1> QED BY <1>1, <1>2

LEMMA DeleteStep ==
  ASSUME FatInv, NEW n, NEW loc \in Found(n), NEW q \in ReqSet, Delete(q, loc)
  PROVE  FatInv'
<1> DEFINE w == <<EntryWrite(loc, Deleted)>>
           g == [NoRegs EXCEPT !.clu = Entry(loc).start]
           stage == IF Entry(loc).start = 0 THEN "end" ELSE "free"
<1>1. loc \in LocSet /\ Entry(loc).start \in 0 .. EOC
  BY FoundHas, Sizes DEF Starts
<1>2. Queued(w)
  <2>1. EntryWrite(loc, Deleted) \in WriteSet /\ EntryWrite(loc, Deleted).to = "entry"
    BY <1>1, EntryWriteHas, EntriesAre
  <2> QED BY <2>1, OneIsQueued
<1>3. g \in RegSet
  BY <1>1, RegsAre
<1>4. stage \in {"free", "end"} /\ Needs(stage, w, g, q)
  BY DEF Needs
<1>5. Begin(q, stage, w, g)
  BY DEF Delete
<1> HIDE DEF w, g, stage
<1> QED BY <1>2, <1>3, <1>4, <1>5, Begins

LEMMA ErasesStep ==
  ASSUME FatInv, NEW n \in Names, EraseFile(n) \/ DeleteDir(n)
  PROVE  FatInv'
<1>1. CASE EraseFile(n)
  <2> DEFINE q == Req("erase", n)
  <2>1. ASSUME NEW err, Refuse(q, err) PROVE FatInv'
    BY <2>1, Refuses
  <2>2. ASSUME NEW loc \in Found(n), Delete(q, loc) PROVE FatInv'
    <3>1. q \in ReqSet
      BY RequestsAre DEF Ops
    <3> QED BY <2>2, <3>1, DeleteStep
  <2> QED BY <1>1, <2>1, <2>2 DEF EraseFile
<1>2. CASE DeleteDir(n)
  <2> DEFINE q == Req("rmdir", n)
  <2>1. ASSUME NEW err, Refuse(q, err) PROVE FatInv'
    BY <2>1, Refuses
  <2>2. ASSUME NEW loc \in Found(n), Delete(q, loc) PROVE FatInv'
    <3>1. q \in ReqSet
      BY RequestsAre DEF Ops
    <3> QED BY <2>2, <3>1, DeleteStep
  <2> QED BY <1>2, <2>1, <2>2 DEF DeleteDir
<1> QED BY <1>1, <1>2

LEMMA RenameStep ==
  ASSUME FatInv, NEW n \in Names, NEW new \in Names, Rename(n, new)
  PROVE  FatInv'
<1> DEFINE q == [Req("rename", n) EXCEPT !.new = new]
<1>1. ASSUME NEW err, Refuse(q, err) PROVE FatInv'
  BY <1>1, Refuses
<1>2. ASSUME NEW loc \in Found(n),
             Begin(q, "end", <<EntryWrite(loc, [Entry(loc) EXCEPT !.name = new])>>, NoRegs)
      PROVE  FatInv'
  <2> DEFINE e == [Entry(loc) EXCEPT !.name = new]
             w == <<EntryWrite(loc, e)>>
  <2>1. q \in ReqSet
    BY RequestsAre DEF Ops
  <2>2. loc \in LocSet /\ e \in EntrySet
    BY FoundHas, EntriesAre
  <2> HIDE DEF e
  <2>3. EntryWrite(loc, e) \in WriteSet /\ EntryWrite(loc, e).to = "entry"
    BY <2>2, EntryWriteHas
  <2>4. Queued(w)
    BY <2>3, OneIsQueued
  <2>5. Needs("end", w, NoRegs, q)
    BY DEF Needs
  <2>6. Begin(q, "end", w, NoRegs)
    BY <1>2 DEF e
  <2> HIDE DEF w, q
  <2> QED BY <2>1, <2>4, <2>5, <2>6, Begins, RegsAre
<1> QED BY <1>1, <1>2 DEF Rename

LEMMA LoadStep ==
  ASSUME FatInv, NEW n \in Names, LoadFile(n)
  PROVE  FatInv'
<1>1. ASSUME NEW q, NEW err, Refuse(q, err) PROVE FatInv'
  BY <1>1, Refuses
<1>2. ASSUME NEW q, NEW err, NEW out, Answer(q, err, out) PROVE FatInv'
  BY <1>2, Answers
<1> QED BY <1>1, <1>2 DEF LoadFile

-----------------------------------------------------------------------------
(* Append.  A file that is sound has the clusters its length needs.        *)

LEMMA Rounded ==
  ASSUME NEW len \in Nat, NEW k \in Int, k = (len + CU - 1) \div CU
  PROVE  /\ (k - 1) * CU <= len /\ len <= k * CU
         /\ k = 0 => len = 0
<1> DEFINE a == len + CU - 1
<1>1. CU \in Nat \ {0} /\ a \in Nat
  BY Sizes
<1> HIDE DEF a
<1>2. k * CU <= a /\ a < k * CU + CU
  BY <1>1, Divided DEF a
<1>3. (k - 1) * CU = k * CU - CU /\ k * CU \in Int
  BY <1>1
<1> QED BY <1>1, <1>2, <1>3 DEF a

LEMMA AppendStep ==
  ASSUME ~AppendToDamaged, FatInv, NEW n \in Names, NEW data \in AppendData, AppendTo(n, data)
  PROVE  FatInv'
<1> DEFINE q == [Req("append", n) EXCEPT !.data = data]
<1>1. ASSUME NEW err, Refuse(q, err) PROVE FatInv'
  BY <1>1, Refuses
<1>2. ASSUME data # <<>>, NEW loc \in Found(n), Sound(Entry(loc)),
             Begin(q, IF Entry(loc).start = 0 THEN "first" ELSE "walk",
                   <<EntryWrite(loc, [Entry(loc) EXCEPT !.len = @ + Len(data)])>>,
                   [NoRegs EXCEPT !.loc = loc, !.clu = Entry(loc).start,
                                  !.have = Entry(loc).len, !.left = Len(data)])
      PROVE  FatInv'
  <2> DEFINE old == Entry(loc)
             e == [old EXCEPT !.len = @ + Len(data)]
             w == <<EntryWrite(loc, e)>>
             g == [NoRegs EXCEPT !.loc = loc, !.clu = old.start,
                                 !.have = old.len, !.left = Len(data)]
             stage == IF old.start = 0 THEN "first" ELSE "walk"
  <2>1. loc \in LocSet /\ old \in EntrySet
    BY FoundHas
  <2>2. Len(data) \in Nat \ {0}
    BY <1>2, Fat16Assumption
  <2>3. q \in ReqSet /\ q.data = data
    <3>1. q \in ReqSet
      BY RequestsAre DEF Ops
    <3> QED BY <3>1 DEF Req, NoReq
  <2>4. (IF old.start = 0 THEN 0 ELSE LengthIn(fat1, old.start)) = (old.len + CU - 1) \div CU
    BY <1>2, HopIs DEF Sound
  <2>5. Begin(q, stage, w, g)
    BY <1>2
  <2> HIDE DEF q, old
  <2>6. old.start \in Starts /\ old.start \in 0 .. EOC /\ old.len \in Nat
    BY <2>1, Sizes DEF EntrySet, Starts
  <2>7. e \in EntrySet
    BY <2>1, <2>2, EntriesAre
  <2> HIDE DEF e
  <2>8. EntryWrite(loc, e) \in WriteSet /\ EntryWrite(loc, e).to = "entry"
    BY <2>1, <2>7, EntryWriteHas
  <2>9. Queued(w) /\ NoTables(w) /\ Len(w) = 1
    BY <2>8, OneIsQueued
  <2> HIDE DEF w
  <2>10. g \in RegSet
    BY <2>1, <2>2, <2>6, RegsAre
  <2>11. g.loc = loc /\ g.clu = old.start /\ g.have = old.len /\ g.left = Len(data)
    BY DEF NoRegs
  <2> HIDE DEF g
  <2>12. CASE old.start = 0
    <3>1. old.len = 0
      BY <2>4, <2>6, <2>12, Rounded
    <3>2. Needs("first", w, g, q)
      BY <2>1, <2>2, <2>3, <2>11, <3>1 DEF Needs
    <3> QED BY <2>3, <2>5, <2>9, <2>10, <2>12, <3>2, Begins
  <2>13. CASE old.start # 0
    <3>1. old.start \in Data
      BY <2>6, <2>13 DEF Starts, Root
    <3>2. LengthIn(fat1, old.start) \in Int
      BY <3>1, ChainHas DEF FatInv, DiskHas, Tables
    <3>3. Fits(w, g)
      BY <2>4, <2>6, <2>9, <2>11, <2>13, <3>2, Rounded DEF Fits, NoTables
    <3>4. Needs("walk", w, g, q)
      BY <2>1, <2>2, <2>3, <2>11, <3>1, <3>3 DEF Needs
    <3> QED BY <2>3, <2>5, <2>9, <2>10, <2>13, <3>4, Begins
  <2> QED BY <2>12, <2>13
<1> QED BY <1>1, <1>2 DEF AppendTo

-----------------------------------------------------------------------------
(* Stages                                                                  *)

LEMMA EnterNameStep ==
  ASSUME FatInv, EnterName
  PROVE  FatInv'
<1>1. PICK loc \in FreeSlot :
        Continue("end",
          IF req.op = "create"
            THEN <<EntryWrite(loc, [Empty EXCEPT !.name = req.name])>>
            ELSE <<EntryWrite(loc, DirEntry(req.name, r.nfc)),
                   SectorWrite(Sector(r.nfc, 0), NewDirSector(r.nfc))>>
                 \o ClearCluster(r.nfc, 1) \o UpdateFat(r.nfc, EOC),
          NoRegs)
  BY DEF EnterName
<1>2. At("slot") /\ pc = "slot"
  BY DEF EnterName, At
<1>3. loc \in LocSet /\ cur \in Starts
  BY FreeIsLoc DEF FatInv, DiskHas, CommandHas, Tables
<1>4. req.name \in Names /\ (req.op = "create" \/ r.nfc \in Data)
  BY <1>2 DEF FatInv, StageHas, Needs
<1>5. ASSUME NEW w, Queued(w), Continue("end", w, NoRegs) PROVE FatInv'
  <2>1. Needs("end", w, NoRegs, req)
    BY DEF Needs
  <2> QED BY <1>2, <1>5, <2>1, Continues, RegsAre
<1>6. CASE req.op = "create"
  <2> DEFINE e == [Empty EXCEPT !.name = req.name]
  <2>1. e \in EntrySet
    BY <1>4, EntriesAre
  <2> HIDE DEF e
  <2>2. Queued(<<EntryWrite(loc, e)>>)
    BY <1>3, <2>1, EntryWriteHas, OneIsQueued
  <2> QED BY <1>1, <1>5, <1>6, <2>2 DEF e
<1>7. CASE req.op # "create"
  <2> DEFINE c == r.nfc
             a == EntryWrite(loc, DirEntry(req.name, c))
             b == SectorWrite(Sector(c, 0), NewDirSector(c))
             s == <<a, b>>
             t == ClearCluster(c, 1)
             u == UpdateFat(c, EOC)
  <2>1. c \in Data /\ c \in Int /\ c \in Starts /\ c \in 0 .. EOC /\ EOC \in 0 .. EOC
    BY <1>4, <1>7, Sizes DEF Starts
  <2>2. Continue("end", (s \o t) \o u, NoRegs)
    BY <1>1, <1>7
  <2> HIDE DEF c
  <2>3. a \in WriteSet /\ a.to = "entry"
    BY <1>3, <1>4, <2>1, EntriesAre, EntryWriteHas DEF AllNames
  <2>4. b \in WriteSet /\ b.to = "sector"
    <3>1. Sector(c, 0) \in Int
      BY <2>1, SectorIsInt
    <3>2. NewDirSector(c) \in SectorSet
      BY <1>3, <2>1, SectorsAre
    <3> QED BY <3>1, <3>2, SectorWriteHas
  <2> HIDE DEF a, b
  <2>5. Queued(s)
    <3>1. s \in Seq(WriteSet) /\ Len(s) = 2 /\ s[1] = a /\ s[2] = b
      BY <2>3, <2>4
    <3>2. \A k \in 1 .. Len(s) : k = 1 \/ k = 2
      BY <3>1
    <3>3. NoTables(s)
      BY <2>3, <2>4, <3>1, <3>2 DEF NoTables
    <3> QED BY <3>1, <3>3, PlainIsQueued
  <2>6. Queued(t)
    BY <2>1, Sizes, ClearIsQueued
  <2>7. Queued(u)
    BY <2>1, UpdateIsQueued
  <2> HIDE DEF s, t, u
  <2>8. Queued((s \o t) \o u)
    BY <2>5, <2>6, <2>7, JoinIsQueued
  <2> QED BY <1>5, <2>2, <2>8
<1> QED BY <1>6, <1>7

LEMMA NoSlotStep ==
  ASSUME FatInv, NoSlot
  PROVE  FatInv'
<1>1. At("slot") /\ \E err : Finish(err)
  BY DEF NoSlot
<1> QED BY <1>1, Finishes

LEMMA EndsStep ==
  ASSUME FatInv, End \/ OutOfMemory
  PROVE  FatInv'
<1>1. CASE End
  BY <1>1, Finishes DEF End
<1>2. CASE OutOfMemory
  BY <1>2, Finishes DEF OutOfMemory
<1> QED BY <1>1, <1>2

\* The last cluster of a chain is a cluster.
LEMMA ChainEndIsData ==
  ASSUME fat1 \in Tables, NEW c \in Data
  PROVE  ChainEnd(c) \in Data /\ ChainEnd(c) \in 0 .. EOC
<1>1. LengthIn(fat1, c) \in 1 .. Clusters
      /\ \A k \in 0 .. LengthIn(fat1, c) - 1 : HopsIn(fat1, c)[k] \in Data
  BY ChainHas
<1>2. ChainEnd(c) = HopsIn(fat1, c)[LengthIn(fat1, c) - 1]
  BY HopIs DEF ChainEnd
<1>3. LengthIn(fat1, c) - 1 \in 0 .. LengthIn(fat1, c) - 1
  BY <1>1, Sizes
<1>4. ChainEnd(c) \in Data
  BY <1>1, <1>2, <1>3
<1> QED BY <1>4, Sizes

LEMMA ExtendDirStep ==
  ASSUME FatInv, ExtendDir
  PROVE  FatInv'
<1>1. PICK c \in FreeCluster :
        Continue("slot",
          UpdateFat(ChainEnd(cur), c) \o UpdateFat(c, EOC) \o ClearCluster(c, 0), r)
  BY DEF ExtendDir
<1>2. At("slot") /\ pc = "slot"
  BY DEF ExtendDir, At
<1>3. cur \in Data /\ fat1 \in Tables /\ r \in RegSet
  BY DEF ExtendDir, FatInv, CommandHas, DiskHas, Tables, Starts
<1>4. c \in Data /\ c \in 0 .. EOC /\ EOC \in 0 .. EOC /\ ChainEnd(cur) \in 0 .. EOC
  BY <1>3, ChainEndIsData, FreeClusterIsData, Sizes
<1> DEFINE s == UpdateFat(ChainEnd(cur), c)
           t == UpdateFat(c, EOC)
           u == ClearCluster(c, 0)
           w == (s \o t) \o u
<1>5. Queued(s) /\ Queued(t) /\ Queued(u)
  BY <1>4, UpdateIsQueued, ClearIsQueued, Sizes
<1>6. Continue("slot", w, r)
  BY <1>1
<1> HIDE DEF s, t, u
<1>7. Queued(w)
  BY <1>5, JoinIsQueued
<1> HIDE DEF w
<1>8. Needs("slot", w, r, req)
  BY <1>2 DEF FatInv, StageHas, Needs
<1> QED BY <1>2, <1>3, <1>6, <1>7, <1>8, Continues

LEMMA FreeNextStep ==
  ASSUME FatInv, FreeNextCluster
  PROVE  FatInv'
<1> DEFINE stage == IF r.clu >= EOC THEN "end" ELSE "free"
           w == UpdateFat(r.clu, 0)
           n == IF r.clu \in Table THEN fat1[r.clu] ELSE 0
           g == [r EXCEPT !.clu = n]
<1>1. At("free") /\ Continue(stage, w, g)
  BY DEF FreeNextCluster
<1>2. r \in RegSet /\ r.clu \in 0 .. EOC /\ 0 \in 0 .. EOC
  BY Sizes DEF FatInv, CommandHas, RegSet
<1>3. n \in 0 .. EOC
  BY <1>2 DEF FatInv, DiskHas
<1> HIDE DEF n
<1>4. g \in RegSet
  BY <1>2, <1>3 DEF RegSet
<1>5. Queued(w)
  BY <1>2, UpdateIsQueued
<1>6. stage \in {"free", "end"} /\ Needs(stage, w, g, req)
  BY DEF Needs
<1> HIDE DEF stage, w, g
<1> QED BY <1>1, <1>4, <1>5, <1>6, Continues

LEMMA FirstClusterStep ==
  ASSUME FatInv, FirstCluster
  PROVE  FatInv'
<1>1. At("first") /\ pc = "first"
  BY DEF FirstCluster, At
<1>2. ASSUME NEW err, Finish(err) PROVE FatInv'
  BY <1>1, <1>2, Finishes
<1>3. ASSUME NEW c \in FreeCluster,
             Continue("walk",
               UpdateFat(c, EOC) \o <<EntryWrite(r.loc, [Entry(r.loc) EXCEPT !.start = c])>>,
               [r EXCEPT !.clu = c])
      PROVE  FatInv'
  <2> DEFINE e == [Entry(r.loc) EXCEPT !.start = c]
             x == EntryWrite(r.loc, e)
             t == <<x>>
             w == UpdateFat(c, EOC) \o t
             g == [r EXCEPT !.clu = c]
  <2>1. c \in Data /\ c \in 0 .. EOC /\ c \in Starts /\ EOC \in 0 .. EOC
    BY FreeClusterIsData, Sizes
  <2>2. /\ r.left \in 1 .. Len(req.data) /\ r.loc \in LocSet /\ req.data \in AppendData
        /\ r.have = 0 /\ r \in RegSet
    BY <1>1 DEF FatInv, StageHas, Needs, CommandHas
  <2>3. e \in EntrySet
    BY <2>1, <2>2, EntryHas, EntriesAre DEF FatInv
  <2> HIDE DEF e
  <2>4. x \in WriteSet /\ x.to = "entry"
    BY <2>2, <2>3, EntryWriteHas
  <2> HIDE DEF x
  <2>5. Queued(t) /\ Len(t) = 1 /\ t[1] = x
    BY <2>4, OneIsQueued
  <2>6. /\ Queued(UpdateFat(c, EOC)) /\ Len(UpdateFat(c, EOC)) = 2
        /\ UpdateFat(c, EOC)[1] = FatWrite("fat1", c, EOC)
        /\ UpdateFat(c, EOC)[2] = FatWrite("fat2", c, EOC)
    BY <2>1, UpdateIsQueued
  <2> HIDE DEF t
  <2>7. /\ Queued(w) /\ Len(w) = 3
        /\ w[1] = FatWrite("fat1", c, EOC) /\ w[2] = FatWrite("fat2", c, EOC) /\ w[3] = x
    <3> DEFINE s == UpdateFat(c, EOC)
    <3>1. Queued(s) /\ Len(s) = 2 /\ w = s \o t
      BY <2>6
    <3>2. s[1] = FatWrite("fat1", c, EOC) /\ s[2] = FatWrite("fat2", c, EOC)
      BY <2>6
    <3> HIDE DEF s, w
    <3>3. /\ Queued(s \o t) /\ Len(s \o t) = Len(s) + Len(t)
          /\ \A k \in 1 .. Len(s) : (s \o t)[k] = s[k]
          /\ \A k \in 1 .. Len(t) : (s \o t)[Len(s) + k] = t[k]
      <4>1. Queued(s) /\ Queued(t)
        BY <2>5, <3>1
      <4> QED BY ONLY <4>1, JoinIsQueued
    <3>4. /\ Queued(w) /\ Len(w) = 3
          /\ \A k \in 1 .. 2 : w[k] = s[k]
          /\ \A k \in 1 .. 1 : w[2 + k] = t[k]
      BY <2>5, <3>1, <3>3
    <3>5. w[1] = s[1] /\ w[2] = s[2] /\ w[3] = t[1]
      BY <3>4
    <3> QED BY <2>5, <3>2, <3>4, <3>5
  <2>8. g \in RegSet /\ g.clu = c /\ g.have = 0 /\ g.left = r.left /\ g.loc = r.loc
    BY <2>1, <2>2 DEF RegSet
  <2>9. Continue("walk", w, g)
    BY <1>3 DEF e, x, t
  <2> HIDE DEF w, g
  <2>10. Marking(w, g)
    <3>1. \A k \in 2 .. Len(w) : k = 2 \/ k = 3
      BY <2>7
    <3>2. w[2].to = "fat2" /\ w[3].to = "entry"
      BY <2>4, <2>7 DEF FatWrite
    <3>3. w # <<>>
      BY <2>7
    <3> QED BY <2>7, <2>8, <3>1, <3>2, <3>3 DEF Marking
  <2>11. Needs("walk", w, g, req)
    BY <2>1, <2>2, <2>8, <2>10 DEF Needs
  <2> QED BY <1>1, <2>7, <2>8, <2>9, <2>11, Continues
<1> QED BY <1>2, <1>3 DEF FirstCluster

\* What is left of a length behind all clusters but the last fills that one at most.
LEMMA LastCluster ==
  ASSUME NEW have \in 0 .. CU
  PROVE  /\ have \div SU \in 0 .. SPC /\ have % SU \in 0 .. SU - 1
         /\ (have \div SU) % (ByteRange \div 2) = have \div SU
         /\ (SPC - have \div SU) % ByteRange = SPC - have \div SU
         /\ SPC - have \div SU \in 0 .. ByteRange - 1
<1> DEFINE p == have \div SU
<1>1. have \in Nat /\ SU \in Nat \ {0} /\ SPC \in Nat /\ CU = SPC * SU
  BY Sizes DEF CU
<1>2. p \in Nat /\ p * SU <= have /\ have % SU \in 0 .. SU - 1
  BY <1>1, Divided
<1>3. p * SU <= SPC * SU
  <2>1. p * SU \in Int /\ SPC * SU \in Int
    BY <1>1, <1>2
  <2> QED BY <1>1, <1>2, <2>1
<1>4. p <= SPC
  BY <1>1, <1>2, <1>3, Multiples
<1> HIDE DEF p
<1>5. ByteRange \in Nat /\ ByteRange \div 2 \in Nat /\ ByteRange \div 2 > SPC /\ ByteRange > SPC
  BY Sizes
<1>6. p % (ByteRange \div 2) = p
  BY <1>1, <1>2, <1>4, <1>5
<1>7. SPC - p \in 0 .. ByteRange - 1 /\ (SPC - p) % ByteRange = SPC - p
  BY <1>1, <1>2, <1>4, <1>5
<1> QED BY <1>1, <1>2, <1>4, <1>6, <1>7 DEF p

LEMMA FindEndStep ==
  ASSUME FatInv, FindEnd
  PROVE  FatInv'
<1> DEFINE L == LengthIn(fat1, r.clu)
           have == r.have - (L - 1) * CU
           p == have \div SU
           cnt == SPC - p
           stage == IF cnt = 0 THEN "link" ELSE "fill"
           g == [r EXCEPT !.clu = ChainEnd(@), !.have = 0, !.pos = p, !.cnt = cnt,
                          !.off = have % SU]
<1>1. At("walk") /\ pc = "walk" /\ todo = <<>>
  BY DEF FindEnd, At
<1>2. /\ r.left \in 1 .. Len(req.data) /\ r.loc \in LocSet /\ req.data \in AppendData
      /\ r.clu \in Data /\ Fits(todo, r) /\ r \in RegSet /\ r.have \in Nat
  BY <1>1 DEF FatInv, StageHas, Needs, Marking, CommandHas, RegSet
<1>3. fat1 \in Tables
  BY DEF FatInv, DiskHas, Tables
<1>4. ChainEnd(r.clu) \in 0 .. EOC /\ L \in 1 .. Clusters
  BY <1>2, <1>3, ChainEndIsData, ChainHas
<1>5. (L - 1) * CU <= r.have /\ r.have <= L * CU
  BY <1>2 DEF Fits
<1>6. Continue(IF (SPC - ((have \div SU) % (ByteRange \div 2))) % ByteRange = 0 THEN "link" ELSE "fill", <<>>,
        [r EXCEPT !.clu = ChainEnd(@), !.have = 0, !.pos = (have \div SU) % (ByteRange \div 2),
                  !.cnt = (SPC - ((have \div SU) % (ByteRange \div 2))) % ByteRange,
                  !.off = have % SU])
  <2>1. ChainLength(r.clu) = L
    BY HopIs
  <2> QED BY <2>1 DEF FindEnd
<1> HIDE DEF L
<1>7. have \in 0 .. CU
  <2>1. L \in Nat /\ CU \in Nat /\ (L - 1) * CU = L * CU - CU
    BY <1>4, Sizes
  <2>2. (L - 1) * CU \in Int /\ L * CU \in Int
    BY <2>1
  <2> QED BY <1>2, <1>5, <2>1, <2>2
<1> HIDE DEF have
<1>8. /\ p \in 0 .. SPC /\ have % SU \in 0 .. SU - 1
      /\ p % (ByteRange \div 2) = p /\ cnt % ByteRange = cnt /\ cnt \in 0 .. ByteRange - 1
  BY <1>7, LastCluster
<1>9. Continue(stage, <<>>, g)
  BY <1>6, <1>8
<1> HIDE DEF p
<1>10. g \in RegSet /\ g.pos = p /\ g.cnt = cnt /\ g.left = r.left /\ g.loc = r.loc
  BY <1>2, <1>4, <1>8 DEF RegSet
<1>11. p + cnt = SPC /\ (cnt # 0 => p < SPC)
  BY <1>8, Sizes
<1> HIDE DEF cnt, g
<1>12. stage \in {"link", "fill"} /\ Needs(stage, <<>>, g, req)
  BY <1>2, <1>10, <1>11 DEF Needs
<1> HIDE DEF stage
<1> QED BY <1>1, <1>9, <1>10, <1>12, Continues, NothingIsQueued

\* A sector that is filled from the data that is left.
LEMMA FilledHas ==
  ASSUME NEW old \in [0 .. SU - 1 -> UnitSet], req.data \in AppendData,
         r.off \in 0 .. SU - 1, r.left \in 1 .. Len(req.data),
         NEW n \in 1 .. SU - r.off, n <= r.left
  PROVE  Filled(old, Len(req.data) - r.left, n) \in SectorSet
<1> DEFINE from == Len(req.data) - r.left
           u == [i \in 0 .. SU - 1 |->
                  IF i \in r.off .. r.off + n - 1 THEN req.data[from + i - r.off + 1] ELSE old[i]]
<1>1. req.data \in Seq(Range(req.data)) /\ Len(req.data) \in Nat
  BY Fat16Assumption
<1>2. \A j \in 1 .. Len(req.data) : req.data[j] \in UnitSet
  <2> TAKE j \in 1 .. Len(req.data)
  <2>1. req.data[j] \in Range(req.data)
    BY <1>1
  <2> QED BY <2>1 DEF UnitSet
<1>3. ASSUME NEW i \in 0 .. SU - 1, i \in r.off .. r.off + n - 1
      PROVE  from + i - r.off + 1 \in 1 .. Len(req.data)
  <2> DEFINE m == Len(req.data)
             left == r.left
             off == r.off
  <2>1. m \in Nat /\ left \in 1 .. m /\ off \in Int /\ n \in Int /\ n <= left
    BY <1>1
  <2>2. i \in Int /\ off <= i /\ i <= off + n - 1
    BY <1>3, <2>1
  <2> HIDE DEF m, left, off
  <2>3. m - left + i - off + 1 \in 1 .. m
    BY <2>1, <2>2
  <2> QED BY <2>3 DEF m, left, off
<1>4. u \in [0 .. SU - 1 -> UnitSet]
  BY <1>2, <1>3
<1> QED BY <1>4, DataSectorHas DEF Filled

LEMMA FillSectorStep ==
  ASSUME FatInv, FillSector
  PROVE  FatInv'
<1> DEFINE s   == Sector(r.clu, r.pos)
           n   == IF r.left < SU - r.off THEN r.left ELSE SU - r.off
           old == IF r.off = 0 \/ s \notin Sectors THEN Cleared.units ELSE sector[s].units
           cnt == r.cnt - 1
           stage == IF r.left = n THEN "end" ELSE IF cnt = 0 THEN "link" ELSE "fill"
           x == Filled(old, Len(req.data) - r.left, n)
           w == <<SectorWrite(s, x)>>
           g == [r EXCEPT !.pos = @ + 1, !.cnt = cnt, !.off = 0, !.left = @ - n]
<1>1. At("fill") /\ pc = "fill"
  BY DEF FillSector, At
<1>2. /\ r.left \in 1 .. Len(req.data) /\ r.loc \in LocSet /\ req.data \in AppendData
      /\ r.pos < SPC /\ r.pos + r.cnt = SPC
  BY <1>1 DEF FatInv, StageHas, Needs
<1>3. /\ r \in RegSet /\ r.pos \in 0 .. SPC /\ r.cnt \in 0 .. ByteRange - 1
      /\ r.off \in 0 .. SU - 1 /\ r.clu \in 0 .. EOC
  BY DEF FatInv, CommandHas, RegSet
<1>4. Len(req.data) \in Nat
  BY <1>2, Fat16Assumption
<1>5. /\ cnt % ByteRange = cnt /\ cnt \in 0 .. ByteRange - 1
      /\ r.pos + 1 \in 0 .. SPC /\ (r.pos + 1) + cnt = SPC
      /\ cnt # 0 => r.pos + 1 < SPC
      /\ n \in 1 .. SU - r.off /\ n <= r.left /\ r.left - n \in Nat
      /\ r.left # n => r.left - n \in 1 .. Len(req.data)
      /\ 0 \in 0 .. SU - 1
  <2> DEFINE left == r.left
             len  == Len(req.data)
             off  == r.off
             pos  == r.pos
             c    == r.cnt
  <2>1. /\ len \in Nat /\ left \in 1 .. len /\ off \in 0 .. SU - 1
        /\ pos \in Nat /\ c \in Nat /\ pos < SPC /\ pos + c = SPC
    BY <1>2, <1>3, <1>4
  <2>2. n = IF left < SU - off THEN left ELSE SU - off
    OBVIOUS
  <2> HIDE DEF n, left, len, off, pos, c
  <2>3. /\ SPC \in Nat /\ SU \in Nat \ {0} /\ ByteRange \in Nat
        /\ ByteRange \div 2 \in Nat /\ ByteRange \div 2 > SPC
    BY Sizes
  <2>4. ByteRange > SPC
    BY <2>3
  <2>5. c - 1 \in 0 .. ByteRange - 1 /\ pos + 1 \in 0 .. SPC /\ (pos + 1) + (c - 1) = SPC
    BY <2>1, <2>3, <2>4
  <2>6. (c - 1) % ByteRange = c - 1
    BY <2>3, <2>5
  <2>7. n \in 1 .. SU - off /\ n <= left /\ left - n \in Nat
    BY <2>1, <2>2, <2>3
  <2>8. left # n => left - n \in 1 .. len
    BY <2>1, <2>7
  <2>9. c - 1 # 0 => pos + 1 < SPC
    BY <2>1
  <2>10. 0 \in 0 .. SU - 1
    BY <2>3
  <2> QED BY <2>5, <2>6, <2>7, <2>8, <2>9, <2>10 DEF left, len, off, pos, c
<1>7. Continue(stage, w, g)
  BY <1>5 DEF FillSector
<1>8. old \in [0 .. SU - 1 -> UnitSet]
  BY SectorsAre DEF FatInv, DiskHas, SectorSet
<1>9. s \in Int
  <2>1. r.clu \in Int /\ r.pos \in Int
    BY <1>3
  <2> QED BY <2>1, SectorIsInt
<1> HIDE DEF old, s
<1>10. x \in SectorSet
  BY <1>2, <1>3, <1>5, <1>8, FilledHas
<1> HIDE DEF x
<1>11. Queued(w)
  BY <1>9, <1>10, SectorWriteHas, OneIsQueued
<1> HIDE DEF w, n
<1>12. /\ g \in RegSet /\ g.pos = r.pos + 1 /\ g.cnt = cnt /\ g.left = r.left - n /\ g.loc = r.loc
  <2> HIDE DEF cnt
  <2> DEFINE pos == r.pos + 1
             left == r.left - n
  <2>1. pos \in 0 .. SPC /\ left \in Nat /\ cnt \in 0 .. ByteRange - 1 /\ 0 \in 0 .. SU - 1
    BY <1>5
  <2>2. g = [r EXCEPT !.pos = pos, !.cnt = cnt, !.off = 0, !.left = left]
    BY <1>3 DEF RegSet
  <2> HIDE DEF pos, left, g
  <2>3. /\ g \in RegSet /\ g.pos = pos /\ g.cnt = cnt /\ g.left = left /\ g.loc = r.loc
    BY <1>3, <2>1, <2>2 DEF RegSet
  <2> QED BY <2>3 DEF pos, left
<1> HIDE DEF cnt, g
<1>14. stage \in {"end", "link", "fill"} /\ Needs(stage, w, g, req)
  BY <1>2, <1>5, <1>12 DEF Needs
<1> HIDE DEF stage
<1> QED BY <1>1, <1>7, <1>11, <1>12, <1>14, Continues

LEMMA LinkClusterStep ==
  ASSUME FatInv, LinkCluster
  PROVE  FatInv'
<1>1. At("link") /\ pc = "link"
  BY DEF LinkCluster, At
<1>2. ASSUME NEW err, Finish(err) PROVE FatInv'
  BY <1>1, <1>2, Finishes
<1>3. ASSUME NEW c \in FreeCluster,
             Continue("fill", UpdateFat(r.clu, c) \o UpdateFat(c, EOC),
               [r EXCEPT !.clu = c, !.pos = 0, !.cnt = SPC])
      PROVE  FatInv'
  <2> DEFINE w == UpdateFat(r.clu, c) \o UpdateFat(c, EOC)
             g == [r EXCEPT !.clu = c, !.pos = 0, !.cnt = SPC]
  <2>1. c \in 0 .. EOC /\ EOC \in 0 .. EOC /\ SPC \in 0 .. ByteRange - 1
    BY FreeClusterIsData, Sizes
  <2>2. /\ r.left \in 1 .. Len(req.data) /\ r.loc \in LocSet /\ req.data \in AppendData
        /\ r \in RegSet /\ r.clu \in 0 .. EOC
    BY <1>1 DEF FatInv, StageHas, Needs, CommandHas, RegSet
  <2>3. Queued(UpdateFat(r.clu, c)) /\ Queued(UpdateFat(c, EOC))
    BY <2>1, <2>2, UpdateIsQueued
  <2>4. Queued(w)
    BY <2>3, JoinIsQueued
  <2>5. g \in RegSet /\ g.pos = 0 /\ g.cnt = SPC /\ g.left = r.left /\ g.loc = r.loc
    <3>1. 0 \in 0 .. SPC
      BY Sizes
    <3> QED BY <2>1, <2>2, <3>1 DEF RegSet
  <2>6. Continue("fill", w, g)
    BY <1>3
  <2> HIDE DEF w, g
  <2>7. Needs("fill", w, g, req)
    BY <2>2, <2>5, Sizes DEF Needs
  <2> QED BY <1>1, <2>4, <2>5, <2>6, <2>7, Continues
<1> QED BY <1>2, <1>3 DEF LinkCluster

-----------------------------------------------------------------------------
(* Sector writes                                                           *)

LEMMA KindsAre ==
  ASSUME NEW x \in WriteSet
  PROVE  /\ x.to \in {"fat1", "fat2"} => x.c \in 0 .. EOC /\ x.v \in 0 .. EOC
         /\ x.to = "entry" => x.loc \in LocSet /\ x.e \in EntrySet
         /\ x.to = "sector" => x.s \in Int /\ x.x \in SectorSet
BY DEF WriteSet, FatWrites

LEMMA WriteTakes ==
  ASSUME FatInv, NEW to, Write(to)
  PROVE  /\ CommandHas' /\ todo # <<>> /\ todo' = Tail(todo) /\ todo' \in Seq(WriteSet)
         /\ Head(todo) = todo[1] /\ todo[1] \in WriteSet /\ todo[1].to = to /\ pc # "idle"
         /\ Len(todo) \in Nat \ {0} /\ Len(todo') = Len(todo) - 1
         /\ \A k \in 1 .. Len(todo') : todo'[k] = todo[k + 1] /\ k + 1 \in 2 .. Len(todo)
<1>1. todo # <<>> /\ todo' = Tail(todo) /\ Head(todo).to = to
      /\ UNCHANGED <<cur, pc, r, req, failed>>
  BY DEF Write
<1>2. todo \in Seq(WriteSet)
  BY DEF FatInv, CommandHas
<1>3. /\ Head(todo) = todo[1] /\ Head(todo) \in WriteSet /\ Len(todo) \in Nat \ {0}
      /\ Tail(todo) \in Seq(WriteSet) /\ Len(Tail(todo)) = Len(todo) - 1
      /\ \A k \in 1 .. Len(todo) - 1 : Tail(todo)[k] = todo[k + 1]
  BY <1>1, <1>2, FirstWrite
<1>4. CommandHas'
  BY <1>1, <1>3 DEF FatInv, CommandHas
<1>5. pc # "idle"
  BY <1>1 DEF FatInv, StageHas, Needs
<1>6. \A k \in 1 .. Len(todo') : todo'[k] = todo[k + 1] /\ k + 1 \in 2 .. Len(todo)
  BY <1>1, <1>3
<1> QED BY <1>1, <1>3, <1>4, <1>5, <1>6

\* A write that is not to FAT 1 leaves what the stage needs, as does one to FAT 1
\* that marks the end of the chain.
LEMMA OtherKeepsStage ==
  ASSUME FatInv, NEW to, Write(to),
         fat1' = fat1, pc = "walk" /\ Marking(todo, r) => to # "fat1"
  PROVE  StageHas'
<1>1. /\ todo # <<>> /\ pc # "idle" /\ todo[1].to = to
      /\ \A k \in 1 .. Len(todo') : todo'[k] = todo[k + 1] /\ k + 1 \in 2 .. Len(todo)
      /\ Len(todo) \in Nat
  BY WriteTakes
<1>2. pc' = pc /\ r' = r /\ req' = req
  BY DEF Write
<1>3. ASSUME pc = "walk" PROVE r.clu \in Data /\ Fits(todo, r)'
  <2>1. r.clu \in Data /\ (Marking(todo, r) \/ Fits(todo, r))
    BY <1>3 DEF FatInv, StageHas, Needs
  <2>2. ~Marking(todo, r)
    BY <1>1, <1>3 DEF Marking, FatWrite
  <2>3. \A k \in 1 .. Len(todo') : todo'[k].to # "fat1"
    BY <1>1, <2>1, <2>2 DEF Fits
  <2> QED BY <1>2, <2>1, <2>2, <2>3 DEF Fits
<1> QED BY <1>1, <1>2, <1>3 DEF FatInv, StageHas, Needs

LEMMA MarkKeepsStage ==
  ASSUME FatInv, WriteFat1
  PROVE  StageHas'
<1>1. Write("fat1") /\ fat1' = [fat1 EXCEPT ![Head(todo).c] = Head(todo).v]
  BY DEF WriteFat1
<1>2. /\ todo # <<>> /\ pc # "idle" /\ todo[1].to = "fat1" /\ Head(todo) = todo[1]
      /\ todo[1] \in WriteSet
      /\ \A k \in 1 .. Len(todo') : todo'[k] = todo[k + 1] /\ k + 1 \in 2 .. Len(todo)
      /\ Len(todo) \in Nat \ {0}
  BY <1>1, WriteTakes
<1>3. pc' = pc /\ r' = r /\ req' = req
  BY <1>1 DEF Write
<1>4. ASSUME pc = "walk" PROVE r.clu \in Data /\ Fits(todo, r)'
  <2>1. r.clu \in Data /\ (Marking(todo, r) \/ Fits(todo, r))
    BY <1>4 DEF FatInv, StageHas, Needs
  <2>2. ~Fits(todo, r)
    <3>1. 1 \in 1 .. Len(todo)
      BY <1>2
    <3> QED BY <1>2, <3>1 DEF Fits
  <2>3. /\ todo[1].c = r.clu /\ todo[1].v = EOC /\ r.have = 0
        /\ \A k \in 2 .. Len(todo) : todo[k].to # "fat1"
    BY <2>1, <2>2 DEF Marking, FatWrite
  <2>4. fat1' \in Tables /\ fat1'[r.clu] = EOC /\ EOC \notin Data
    <3>1. r.clu \in Table /\ EOC \in 0 .. EOC /\ EOC \notin Data
      BY <2>1, Sizes
    <3>2. fat1' = [fat1 EXCEPT ![r.clu] = EOC]
      BY <1>1, <1>2, <2>3
    <3>3. fat1 \in [Table -> 0 .. EOC]
      BY DEF FatInv, DiskHas, Tables
    <3> QED BY <3>1, <3>2, <3>3 DEF Tables
  <2>5. LengthIn(fat1', r.clu) = 1
    BY <2>1, <2>4, ChainHas
  <2>6. \A k \in 1 .. Len(todo') : todo'[k].to # "fat1"
    BY <1>2, <2>3
  <2>7. (1 - 1) * CU <= 0 /\ 0 <= 1 * CU
    BY Sizes
  <2> QED BY <1>3, <2>1, <2>3, <2>5, <2>6, <2>7 DEF Fits
<1> QED BY <1>2, <1>3, <1>4 DEF FatInv, StageHas, Needs

\* What the two tables are before a write, and after it.
LEMMA BeforeWrite ==
  ASSUME FatInv, NEW to, Write(to)
  PROVE  /\ to # "fat2" => fat1 = fat2 /\ Pairs(todo)
         /\ to = "fat2" => Halfway
<1>1. todo[1].to = to /\ pc # "idle" /\ todo # <<>> /\ todo \in Seq(WriteSet)
  BY WriteTakes DEF FatInv, CommandHas
<1>2. Pairs(todo) => to # "fat2"
  BY <1>1, PairsAfter
<1> QED BY <1>1, <1>2 DEF FatInv, TablesInv, Halfway

LEMMA OtherKeepsTables ==
  ASSUME FatInv, NEW to, to \notin {"fat1", "fat2"}, Write(to), fat1' = fat1, fat2' = fat2
  PROVE  TablesInv'
<1>1. todo[1].to = to /\ todo # <<>> /\ todo \in Seq(WriteSet) /\ todo' = Tail(todo)
  BY WriteTakes DEF FatInv, CommandHas
<1>2. fat1 = fat2 /\ Pairs(todo)
  BY BeforeWrite
<1>3. Pairs(Tail(todo))
  BY <1>1, <1>2, PairsAfter
<1> QED BY <1>1, <1>2, <1>3 DEF TablesInv

\* After the first write of a pair the tables differ where the second will write.
LEMMA FirstOfPair ==
  ASSUME FatInv, Write("fat1"), fat2' = fat2,
         fat1' = IF todo[1].c \in Table THEN [fat1 EXCEPT ![todo[1].c] = todo[1].v] ELSE fat1
  PROVE  TablesInv'
<1> DEFINE x == todo[1]
<1>1. x.to = "fat1" /\ todo # <<>> /\ todo \in Seq(WriteSet) /\ todo' = Tail(todo)
  BY WriteTakes DEF FatInv, CommandHas
<1>2. fat1 = fat2 /\ Pairs(todo)
  BY BeforeWrite
<1>3. Tail(todo) # <<>> /\ Tail(todo)[1] = FatWrite("fat2", x.c, x.v) /\ Pairs(Tail(Tail(todo)))
  BY <1>1, <1>2, PairsAfter
<1>4. todo' # <<>> /\ Pairs(Tail(todo')) /\ todo'[1].to = "fat2" /\ todo'[1].c = x.c /\ todo'[1].v = x.v
  BY <1>1, <1>3 DEF FatWrite
<1> HIDE DEF x
<1>5. fat1' = IF x.c \in Table THEN [fat1 EXCEPT ![x.c] = x.v] ELSE fat1
  BY DEF x
<1>6. /\ \A d \in Table : d # x.c => fat1'[d] = fat2'[d]
      /\ x.c \in Table => fat1'[x.c] = x.v
  BY <1>2, <1>5 DEF FatInv, DiskHas
<1>7. Halfway'
  BY <1>4, <1>6 DEF Halfway, SameBut
<1> QED BY <1>7 DEF TablesInv

LEMMA SecondOfPair ==
  ASSUME FatInv, Write("fat2"), fat1' = fat1,
         fat2' = IF todo[1].c \in Table THEN [fat2 EXCEPT ![todo[1].c] = todo[1].v] ELSE fat2
  PROVE  TablesInv'
<1> DEFINE x == todo[1]
<1>1. todo' = Tail(todo)
  BY WriteTakes
<1>2. /\ \A d \in Table : d # x.c => fat1[d] = fat2[d]
      /\ x.c \in Table => fat1[x.c] = x.v
      /\ Pairs(Tail(todo))
  BY BeforeWrite DEF Halfway, SameBut
<1> HIDE DEF x
<1>3. fat2' = IF x.c \in Table THEN [fat2 EXCEPT ![x.c] = x.v] ELSE fat2
  BY DEF x
<1>4. \A d \in Table : fat1[d] = fat2'[d]
  BY <1>2, <1>3 DEF FatInv, DiskHas
<1>5. fat2' \in [Table -> 0 .. EOC] /\ fat1 \in [Table -> 0 .. EOC]
  <2>1. x.c \in Table => x.v \in 0 .. EOC
    BY <1>2 DEF FatInv, DiskHas
  <2> QED BY <1>3, <2>1 DEF FatInv, DiskHas
<1>6. fat1' = fat2'
  BY <1>4, <1>5
<1> QED BY <1>1, <1>2, <1>6 DEF TablesInv

LEMMA WriteFat1Step ==
  ASSUME FatInv, WriteFat1
  PROVE  FatInv'
<1>1. Write("fat1") /\ UNCHANGED <<fat2, root, sector>> /\ Head(todo).c \in Table
      /\ fat1' = [fat1 EXCEPT ![Head(todo).c] = Head(todo).v]
  BY DEF WriteFat1
<1>2. CommandHas' /\ Head(todo) = todo[1] /\ todo[1] \in WriteSet /\ todo[1].to = "fat1"
  BY <1>1, WriteTakes
<1>3. todo[1].v \in 0 .. EOC
  BY <1>2, KindsAre
<1>4. DiskHas'
  BY <1>1, <1>2, <1>3 DEF FatInv, DiskHas
<1>5. StageHas'
  BY MarkKeepsStage
<1>6. TablesInv'
  BY <1>1, <1>2, FirstOfPair
<1> QED BY <1>2, <1>4, <1>5, <1>6 DEF FatInv

LEMMA WriteFat2Step ==
  ASSUME FatInv, WriteFat2
  PROVE  FatInv'
<1>1. Write("fat2") /\ UNCHANGED <<fat1, root, sector>> /\ Head(todo).c \in Table
      /\ fat2' = [fat2 EXCEPT ![Head(todo).c] = Head(todo).v]
  BY DEF WriteFat2
<1>2. CommandHas' /\ Head(todo) = todo[1] /\ todo[1] \in WriteSet /\ todo[1].to = "fat2"
  BY <1>1, WriteTakes
<1>3. todo[1].v \in 0 .. EOC
  BY <1>2, KindsAre
<1>4. DiskHas'
  BY <1>1, <1>2, <1>3 DEF FatInv, DiskHas
<1>5. StageHas'
  BY <1>1, OtherKeepsStage
<1>6. TablesInv'
  BY <1>1, <1>2, SecondOfPair
<1> QED BY <1>2, <1>4, <1>5, <1>6 DEF FatInv

LEMMA StrayWriteStep ==
  ASSUME FatInv, StrayWrite
  PROVE  FatInv'
<1>1. PICK t \in {"fat1", "fat2"} :
        /\ Write(t) /\ Head(todo).c \notin Table
        /\ sector' = IF Beyond[t] \in Sectors
                       THEN [sector EXCEPT ![Beyond[t]].units[SU - 1] = Zero]
                       ELSE sector
        /\ UNCHANGED <<fat1, fat2, root>>
  BY DEF StrayWrite
<1>2. CommandHas' /\ Head(todo) = todo[1] /\ todo[1] \in WriteSet /\ todo[1].to = t
  BY <1>1, WriteTakes
<1>3. DiskHas'
  <2>1. sector' \in [Sectors -> SectorSet]
    <3>1. sector \in [Sectors -> SectorSet] /\ Zero \in UnitSet
      BY DEF FatInv, DiskHas, UnitSet
    <3>2. ASSUME NEW s \in Sectors
          PROVE  [sector[s] EXCEPT !.units = [@ EXCEPT ![SU - 1] = Zero]] \in SectorSet
      BY <3>1 DEF SectorSet
    <3> QED BY <1>1, <3>1, <3>2
  <2> QED BY <1>1, <2>1 DEF FatInv, DiskHas
<1>4. StageHas'
  <2>1. ASSUME pc = "walk" /\ Marking(todo, r) PROVE FALSE
    <3>1. todo[1].c = r.clu /\ r.clu \in Data
      BY <2>1 DEF Marking, FatWrite, FatInv, StageHas, Needs
    <3> QED BY <1>1, <1>2, <3>1, Sizes, SMTT(30)
  <2> QED BY <1>1, <2>1, OtherKeepsStage
<1>5. TablesInv'
  <2>1. CASE t = "fat1"
    BY <1>1, <1>2, <2>1, FirstOfPair
  <2>2. CASE t = "fat2"
    BY <1>1, <1>2, <2>2, SecondOfPair
  <2> QED BY <2>1, <2>2
<1> QED BY <1>2, <1>3, <1>4, <1>5 DEF FatInv

LEMMA WriteEntryStep ==
  ASSUME FatInv, WriteEntry
  PROVE  FatInv'
<1> DEFINE loc == Head(todo).loc
           e == Head(todo).e
<1>1. Write("entry") /\ UNCHANGED <<fat1, fat2>>
  BY DEF WriteEntry
<1>2. CommandHas' /\ Head(todo) = todo[1] /\ todo[1] \in WriteSet /\ todo[1].to = "entry"
  BY <1>1, WriteTakes
<1>3. loc \in LocSet /\ e \in EntrySet
  BY <1>2, KindsAre
<1>4. IF loc.c = Root
        THEN root' = [root EXCEPT ![loc.i] = e] /\ UNCHANGED sector
        ELSE /\ sector' = [sector EXCEPT
                  ![Sector(loc.c, loc.i \div ES)].entries[loc.i % ES] = e]
             /\ UNCHANGED root
  BY DEF WriteEntry
<1> HIDE DEF loc, e
<1>5. DiskHas'
  <2>1. CASE loc.c = Root
    BY <1>1, <1>3, <1>4, <2>1 DEF FatInv, DiskHas
  <2>2. CASE loc.c # Root
    <3> DEFINE i == loc.i % ES
               S == Sector(loc.c, loc.i \div ES)
    <3>1. sector \in [Sectors -> SectorSet]
      BY DEF FatInv, DiskHas
    <3>2. sector' = [sector EXCEPT ![S].entries[i] = e]
      BY <1>4, <2>2
    <3> HIDE DEF i, S
    <3>3. ASSUME NEW s \in Sectors
          PROVE  [sector[s] EXCEPT !.entries = [@ EXCEPT ![i] = e]] \in SectorSet
      BY <1>3, <3>1 DEF SectorSet
    <3>4. sector' \in [Sectors -> SectorSet]
      BY <3>1, <3>2, <3>3
    <3> QED BY <1>1, <1>4, <2>2, <3>4 DEF FatInv, DiskHas
  <2> QED BY <2>1, <2>2
<1>6. StageHas'
  BY <1>1, OtherKeepsStage
<1>7. TablesInv'
  BY <1>1, OtherKeepsTables
<1> QED BY <1>2, <1>5, <1>6, <1>7 DEF FatInv

LEMMA WriteSectorStep ==
  ASSUME FatInv, WriteSector
  PROVE  FatInv'
<1>1. Write("sector") /\ UNCHANGED <<fat1, fat2, root>>
      /\ sector' = IF Head(todo).s \in Sectors
                     THEN [sector EXCEPT ![Head(todo).s] = Head(todo).x] ELSE sector
  BY DEF WriteSector
<1>2. CommandHas' /\ Head(todo) = todo[1] /\ todo[1] \in WriteSet /\ todo[1].to = "sector"
  BY <1>1, WriteTakes
<1>3. todo[1].x \in SectorSet
  BY <1>2, KindsAre
<1>4. DiskHas'
  BY <1>1, <1>2, <1>3 DEF FatInv, DiskHas
<1>5. StageHas'
  BY <1>1, OtherKeepsStage
<1>6. TablesInv'
  BY <1>1, OtherKeepsTables
<1> QED BY <1>2, <1>4, <1>5, <1>6 DEF FatInv

LEMMA FailStep ==
  ASSUME FatInv, Fail
  PROVE  FatInv'
<1>1. PICK err : Return(req, err, <<>>)
  BY DEF Fail
<1>2. cur' \in Starts /\ failed' \in BOOLEAN /\ failed'
  BY DEF Fail, FatInv, CommandHas
<1>3. fat1 = fat2 \/ \E c \in 0 .. EOC : SameBut(c)
  <2>1. Halfway => todo[1].c \in 0 .. EOC
    <3> SUFFICES ASSUME Halfway PROVE todo[1].c \in 0 .. EOC
      OBVIOUS
    <3>1. todo # <<>> /\ todo \in Seq(WriteSet) /\ todo[1].to = "fat2"
      BY DEF Halfway, FatInv, CommandHas
    <3>2. todo[1] \in WriteSet
      BY <3>1, FirstWrite
    <3> QED BY <3>1, <3>2, KindsAre
  <2> QED BY <2>1 DEF FatInv, TablesInv, Halfway
<1> QED BY <1>1, <1>2, <1>3, Returns

-----------------------------------------------------------------------------
(* The invariant                                                           *)

LEMMA InitFatInv == Init => FatInv
<1> SUFFICES ASSUME Init PROVE FatInv
  OBVIOUS
<1>1. DiskHas
  <2>1. fat1 \in [Table -> 0 .. EOC] /\ fat2 \in [Table -> 0 .. EOC]
    BY Sizes DEF Init
  <2>2. root \in [Slots(Root) -> EntrySet] /\ sector \in [Sectors -> SectorSet]
    BY EntriesAre, SectorsAre DEF Init
  <2> QED BY <2>1, <2>2 DEF DiskHas
<1>2. CommandHas
  BY NothingIsQueued, RegsAre, RequestsAre DEF Init, CommandHas, Queued, Starts
<1>3. StageHas
  BY DEF Init, StageHas, Needs
<1>4. TablesInv
  BY NothingIsQueued DEF Init, TablesInv, Queued
<1> QED BY <1>1, <1>2, <1>3, <1>4 DEF FatInv

LEMMA FatStep ==
  ASSUME ~AppendToDamaged
  PROVE  FatInv /\ [Next]_vars => FatInv'
<1> SUFFICES ASSUME FatInv, [Next]_vars PROVE FatInv'
  OBVIOUS
<1>1. CASE DirCommand
  BY <1>1, DirectoriesStep, NamesStep, ErasesStep DEF DirCommand
<1>2. CASE FileCommand
  BY <1>2, NamesStep, ErasesStep, LoadStep, AppendStep, RenameStep DEF FileCommand
<1>3. CASE Stage
  BY <1>3, EnterNameStep, NoSlotStep, ExtendDirStep, FreeNextStep, FirstClusterStep,
     FindEndStep, FillSectorStep, EndsStep, LinkClusterStep DEF Stage
<1>4. CASE DiskWrite
  BY <1>4, WriteFat1Step, WriteFat2Step, StrayWriteStep, WriteEntryStep, WriteSectorStep
     DEF DiskWrite
<1>5. CASE Fail
  BY <1>5, FailStep
<1>6. CASE UNCHANGED vars
  BY <1>6 DEF vars, disk, FatInv, DiskHas, CommandHas, StageHas, Needs, Fits, Marking,
     TablesInv, Halfway, SameBut
<1> QED BY <1>1, <1>2, <1>3, <1>4, <1>5, <1>6 DEF Next

LEMMA FatInvHolds == ASSUME ~AppendToDamaged PROVE Spec => []FatInv
BY InitFatInv, FatStep, PTL DEF Spec

\* The driver keeps the types of its variables, and of everything on the disk, when no
\* append is made to a file an append that failed has left damaged.
THEOREM TypeCorrect == ASSUME ~AppendToDamaged PROVE Spec => []TypeOK
<1>1. FatInv => TypeOK
  <2> SUFFICES ASSUME FatInv PROVE TypeOK
    OBVIOUS
  <2>1. Table \cup {EOC} = 0 .. EOC
    BY Sizes
  <2>2. r.cnt \in 0 .. ByteRange - 1 /\ r.pos \in 0 .. SPC
    BY DEF FatInv, CommandHas, RegSet
  <2> QED BY <2>1, <2>2 DEF FatInv, DiskHas, CommandHas, Starts, TypeOK
<1> QED BY <1>1, FatInvHolds, PTL

\* The comments of fs_append on its registers hold: the sector that is filled is one
\* of the cluster, and the countdown says how many are left in it.
THEOREM AppendInCluster == ASSUME ~AppendToDamaged PROVE Spec => []AppendStaysInCluster
<1>1. FatInv => AppendStaysInCluster
  BY DEF FatInv, StageHas, Needs, AppendStaysInCluster
<1> QED BY <1>1, FatInvHolds, PTL

\* The two tables are the same between commands and never differ in more than one
\* cluster, wherever the device fails.
THEOREM TablesAgree == ASSUME ~AppendToDamaged PROVE Spec => []FatsAgree
<1>1. FatInv => FatsAgree
  <2> SUFFICES ASSUME FatInv PROVE FatsAgree
    OBVIOUS
  <2> DEFINE differ == {c \in Table : fat1[c] # fat2[c]}
  <2>1. ASSUME Ready PROVE differ = {}
    <3>1. fat1 = fat2
      BY <2>1, SameTables DEF Ready, Idle, FatInv, StageHas, Needs
    <3> QED BY <3>1
  <2>2. \E c : differ \subseteq {c}
    BY DEF FatInv, TablesInv, Halfway, SameBut
  <2>3. Cardinality(differ) <= 1
    <3>1. PICK c : differ \subseteq {c}
      BY <2>2
    <3>2. differ = {} \/ differ = {c}
      BY <3>1
    <3> HIDE DEF differ
    <3>3. Cardinality({}) = 0 /\ Cardinality({c}) = 1
      BY FS_EmptySet, FS_Singleton, Zenon
    <3>4. CASE differ = {}
      BY <3>3, <3>4
    <3>5. CASE differ = {c}
      BY <3>3, <3>5
    <3> QED BY <3>2, <3>4, <3>5
  <2> QED BY <2>1, <2>3 DEF FatsAgree
<1> QED BY <1>1, FatInvHolds, PTL

-----------------------------------------------------------------------------
(* The clusters of a chain, its last one, and a chain that has an end.     *)
ChainIn(t, c) == {HopsIn(t, c)[k] : k \in 0 .. LengthIn(t, c) - 1}
EndIn(t, c)   == HopsIn(t, c)[LengthIn(t, c) - 1]
Ended(t, c)   ==
  /\ t[EndIn(t, c)] \in {0, EOC}
  /\ \A j, k \in 0 .. LengthIn(t, c) - 1 : HopsIn(t, c)[j] = HopsIn(t, c)[k] => j = k

\* A chain is in the data area; it is empty just when it begins outside.
LEMMA ChainParts ==
  ASSUME NEW t \in Tables, NEW c \in 0 .. EOC
  PROVE  /\ LengthIn(t, c) \in 0 .. Clusters /\ ChainIn(t, c) \subseteq Data
         /\ c \notin Data => LengthIn(t, c) = 0 /\ ChainIn(t, c) = {}
         /\ c \in Data => /\ LengthIn(t, c) \in 1 .. Clusters
                          /\ c \in ChainIn(t, c) /\ EndIn(t, c) \in ChainIn(t, c)
<1> DEFINE L == LengthIn(t, c)
           h == HopsIn(t, c)
<1>1. L \in 0 .. Clusters /\ \A k \in 0 .. Clusters - 1 : h[k] \in Data <=> k < L
  BY ChainIsAPrefix
<1>2. h[0] = c
  BY HopsAre
<1>3. ChainIn(t, c) = {h[k] : k \in 0 .. L - 1} /\ EndIn(t, c) = h[L - 1]
  BY DEF ChainIn, EndIn
<1> HIDE DEF L, h
<1>4. \A k \in 0 .. L - 1 : h[k] \in Data
  BY <1>1, Sizes
<1>5. ASSUME c \notin Data PROVE L = 0 /\ ChainIn(t, c) = {}
  <2>1. L = 0
    BY <1>1, <1>2, <1>5, Sizes
  <2> QED BY <1>3, <2>1
<1>6. ASSUME c \in Data PROVE L \in 1 .. Clusters /\ c \in ChainIn(t, c) /\ EndIn(t, c) \in ChainIn(t, c)
  <2>1. L \in 1 .. Clusters
    BY <1>1, <1>2, <1>6, Sizes
  <2>2. 0 \in 0 .. L - 1 /\ L - 1 \in 0 .. L - 1
    BY <2>1, Sizes
  <2> QED BY <1>2, <1>3, <2>1, <2>2
<1>7. ChainIn(t, c) \subseteq Data
  BY <1>3, <1>4
<1> QED BY <1>1, <1>5, <1>6, <1>7 DEF L

\* The length of a chain, from where it leaves the data area.
LEMMA LengthIs ==
  ASSUME NEW t \in Tables, NEW c \in 0 .. EOC, NEW m \in 0 .. Clusters,
         \A k \in 0 .. m - 1 : HopsIn(t, c)[k] \in Data,
         m < Clusters => HopsIn(t, c)[m] \notin Data
  PROVE  LengthIn(t, c) = m
<1> DEFINE L == LengthIn(t, c)
           h == HopsIn(t, c)
<1>1. L \in 0 .. Clusters /\ \A k \in 0 .. Clusters - 1 : h[k] \in Data <=> k < L
  BY ChainIsAPrefix
<1>2. /\ \A k \in 0 .. m - 1 : h[k] \in Data
      /\ m < Clusters => h[m] \notin Data
  OBVIOUS
<1> HIDE DEF L, h
<1>3. ~(L < m)
  <2> SUFFICES ASSUME L < m PROVE FALSE
    OBVIOUS
  <2>1. L \in 0 .. Clusters - 1 /\ L \in 0 .. m - 1
    BY <1>1, Sizes
  <2>2. h[L] \in Data
    BY <1>2, <2>1
  <2> QED BY <1>1, <2>1, <2>2
<1>4. ~(m < L)
  <2> SUFFICES ASSUME m < L PROVE FALSE
    OBVIOUS
  <2>1. m \in 0 .. Clusters - 1
    BY <1>1, Sizes
  <2> QED BY <1>1, <1>2, <2>1, Sizes
<1> QED BY <1>1, <1>3, <1>4, Sizes DEF L

\* Tables that agree on the clusters passed give the same hops.
LEMMA SameHops ==
  ASSUME NEW t \in Tables, NEW u \in Tables, NEW c \in 0 .. EOC, NEW m \in 0 .. Clusters,
         \A k \in 0 .. m - 1 : FollowIn(u)[HopsIn(t, c)[k]] = FollowIn(t)[HopsIn(t, c)[k]]
  PROVE  \A k \in 0 .. m : HopsIn(u, c)[k] = HopsIn(t, c)[k]
<1> DEFINE h == HopsIn(t, c)
           g == HopsIn(u, c)
           F == FollowIn(t)
           G == FollowIn(u)
           S == {k \in Nat : k <= m => g[k] = h[k]}
<1>1. /\ h[0] = c /\ \A j \in 1 .. Clusters : h[j] = F[h[j - 1]]
      /\ g[0] = c /\ \A j \in 1 .. Clusters : g[j] = G[g[j - 1]]
  BY HopsAre
<1>2. \A k \in 0 .. m - 1 : G[h[k]] = F[h[k]]
  OBVIOUS
<1> HIDE DEF h, g, F, G
<1>3. 0 \in S
  BY <1>1
<1>4. ASSUME NEW k \in Nat, k \in S PROVE k + 1 \in S
  <2> SUFFICES ASSUME k + 1 <= m PROVE g[k + 1] = h[k + 1]
    OBVIOUS
  <2>1. k + 1 \in 1 .. Clusters /\ (k + 1) - 1 = k /\ k \in 0 .. m - 1 /\ k <= m
    BY Sizes
  <2>2. g[k] = h[k]
    BY <1>4, <2>1
  <2> QED BY <1>1, <1>2, <2>1, <2>2
<1>5. Nat \subseteq S
  <2> HIDE DEF S
  <2> QED BY <1>3, <1>4, Induct
<1> QED BY <1>5, Sizes DEF h, g

\* A step along a chain.
LEMMA FollowIs ==
  ASSUME NEW t \in Tables, NEW x \in Data
  PROVE  FollowIn(t)[x] = t[x] /\ t[x] \in 0 .. EOC
BY Sizes DEF FollowIn, Tables

\* A chain on which two tables agree, but for what is no cluster.
LEMMA ChainKept ==
  ASSUME NEW t \in Tables, NEW u \in Tables, NEW c \in 0 .. EOC,
         \A x \in ChainIn(t, c) : u[x] = t[x] \/ (u[x] \notin Data /\ t[x] \notin Data)
  PROVE  /\ LengthIn(u, c) = LengthIn(t, c) /\ ChainIn(u, c) = ChainIn(t, c)
         /\ \A k \in 0 .. LengthIn(t, c) - 1 : HopsIn(u, c)[k] = HopsIn(t, c)[k]
         /\ c \in Data => EndIn(u, c) = EndIn(t, c)
<1> DEFINE L == LengthIn(t, c)
           h == HopsIn(t, c)
           g == HopsIn(u, c)
<1>1. /\ L \in 0 .. Clusters /\ \A k \in 0 .. Clusters - 1 : h[k] \in Data <=> k < L
      /\ h[0] = c /\ \A j \in 1 .. Clusters : h[j] = FollowIn(t)[h[j - 1]]
  BY ChainIsAPrefix, HopsAre
<1>2. \A k \in 0 .. L - 1 : h[k] \in ChainIn(t, c) /\ h[k] \in Data
  BY <1>1, Sizes DEF ChainIn
<1>3. g[0] = c /\ \A j \in 1 .. Clusters : g[j] = FollowIn(u)[g[j - 1]]
  BY HopsAre
<1>4. CASE c \notin Data
  <2>1. LengthIn(u, c) = 0 /\ LengthIn(t, c) = 0 /\ ChainIn(t, c) = {} /\ ChainIn(u, c) = {}
    BY <1>4, ChainParts
  <2> QED BY <1>4, <2>1
<1>5. CASE c \in Data
  <2>1. L \in 1 .. Clusters
    BY <1>5, ChainParts
  <2>2. \A k \in 0 .. (L - 1) - 1 : FollowIn(u)[h[k]] = FollowIn(t)[h[k]]
    <3> TAKE k \in 0 .. (L - 1) - 1
    <3> HIDE DEF L, h
    <3>1. k \in 0 .. L - 1 /\ k + 1 \in 0 .. L - 1 /\ k + 1 \in 1 .. Clusters /\ (k + 1) - 1 = k
      BY <2>1, Sizes
    <3>2. h[k] \in Data /\ h[k] \in ChainIn(t, c) /\ h[k + 1] \in Data /\ h[k + 1] = FollowIn(t)[h[k]]
      BY <1>1, <1>2, <3>1
    <3>3. FollowIn(t)[h[k]] = t[h[k]] /\ FollowIn(u)[h[k]] = u[h[k]]
      BY <3>2, FollowIs
    <3> QED BY <3>2, <3>3
  <2>3. L - 1 \in 0 .. Clusters
    BY <2>1, Sizes
  <2>4. \A k \in 0 .. L - 1 : g[k] = h[k]
    <3> HIDE DEF L
    <3> QED BY <2>2, <2>3, SameHops
  <2>5. ASSUME L < Clusters PROVE g[L] \notin Data
    <3> HIDE DEF L, h, g
    <3>1. L - 1 \in 0 .. L - 1 /\ L \in 1 .. Clusters /\ L \in 0 .. Clusters - 1
      BY <2>1, <2>5, Sizes
    <3>2. h[L - 1] \in Data /\ h[L - 1] \in ChainIn(t, c)
      BY <1>2, <3>1
    <3>3. FollowIn(t)[h[L - 1]] = t[h[L - 1]] /\ FollowIn(u)[h[L - 1]] = u[h[L - 1]]
      BY <3>2, FollowIs
    <3>4. h[L] = t[h[L - 1]] /\ h[L] \notin Data
      BY <1>1, <3>1, <3>3, Sizes
    <3>5. g[L] = u[h[L - 1]]
      BY <1>3, <2>4, <3>1, <3>3
    <3> QED BY <3>2, <3>4, <3>5
  <2>6. LengthIn(u, c) = L
    <3>1. \A k \in 0 .. L - 1 : g[k] \in Data
      BY <1>2, <2>4
    <3> HIDE DEF L
    <3> QED BY <1>1, <2>5, <3>1, LengthIs
  <2>7. ChainIn(u, c) = ChainIn(t, c)
    <3>1. ChainIn(u, c) = {g[k] : k \in 0 .. L - 1} /\ ChainIn(t, c) = {h[k] : k \in 0 .. L - 1}
      BY <2>6 DEF ChainIn
    <3> HIDE DEF L, h, g
    <3> QED BY <2>4, <3>1
  <2>8. EndIn(u, c) = EndIn(t, c)
    <3>1. L - 1 \in 0 .. L - 1
      BY <2>1, Sizes
    <3> QED BY <2>4, <2>6, <3>1 DEF EndIn
  <2> QED BY <2>4, <2>6, <2>7, <2>8
<1> QED BY <1>4, <1>5


\* A chain that has an end keeps it when a write leaves its links alone.
LEMMA EndedKept ==
  ASSUME NEW t \in Tables, NEW u \in Tables, NEW c \in Data, Ended(t, c),
         \A x \in ChainIn(t, c) : u[x] = t[x] \/ (u[x] \in {0, EOC} /\ t[x] \notin Data)
  PROVE  Ended(u, c)
<1>1. c \in 0 .. EOC /\ 0 \notin Data /\ EOC \notin Data
  BY Sizes
<1>2. /\ LengthIn(u, c) = LengthIn(t, c) /\ EndIn(u, c) = EndIn(t, c)
      /\ \A k \in 0 .. LengthIn(t, c) - 1 : HopsIn(u, c)[k] = HopsIn(t, c)[k]
  BY <1>1, ChainKept
<1>3. EndIn(t, c) \in ChainIn(t, c)
  BY <1>1, ChainParts
<1> QED BY <1>2, <1>3 DEF Ended

\* A cluster that is followed by none is a chain of its own.
LEMMA ChainOfOne ==
  ASSUME NEW t \in Tables, NEW c \in Data, t[c] \notin Data
  PROVE  /\ LengthIn(t, c) = 1 /\ ChainIn(t, c) = {c} /\ EndIn(t, c) = c
         /\ t[c] \in {0, EOC} => Ended(t, c)
<1>1. LengthIn(t, c) = 1 /\ HopsIn(t, c)[0] = c
  BY ChainHas, HopsAre
<1>2. ChainIn(t, c) = {HopsIn(t, c)[k] : k \in 0 .. 0} /\ EndIn(t, c) = HopsIn(t, c)[0]
  BY <1>1 DEF ChainIn, EndIn
<1>3. ChainIn(t, c) = {c}
  BY <1>1, <1>2
<1> QED BY <1>1, <1>2, <1>3 DEF Ended

\* A chain with an end has room for a cluster that is not in it.
LEMMA ChainHasRoom ==
  ASSUME NEW t \in Tables, NEW s \in Data, Ended(t, s), NEW c \in Data, c \notin ChainIn(t, s)
  PROVE  LengthIn(t, s) + 1 \in 1 .. Clusters
<1> DEFINE L == LengthIn(t, s)
           h == HopsIn(t, s)
           f == [k \in 0 .. L |-> IF k = L THEN c ELSE h[k]]
<1>1. s \in 0 .. EOC /\ L \in 1 .. Clusters /\ ChainIn(t, s) \subseteq Data
  <2>1. s \in 0 .. EOC
    BY Sizes
  <2> QED BY <2>1, ChainParts
<1>2. \A k \in 0 .. L - 1 : h[k] \in ChainIn(t, s)
  BY DEF ChainIn
<1>3. \A j, k \in 0 .. L - 1 : h[j] = h[k] => j = k
  BY DEF Ended
<1> HIDE DEF L, h
<1>4. f \in Injection(0 .. L, Data)
  <2>1. \A k \in 0 .. L : k = L \/ k \in 0 .. L - 1
    BY <1>1
  <2>2. f \in [0 .. L -> Data]
    BY <1>1, <1>2, <2>1
  <2>3. ASSUME NEW j \in 0 .. L, NEW k \in 0 .. L, f[j] = f[k] PROVE j = k
    <3>1. L \notin 0 .. L - 1
      BY <1>1, Sizes
    <3>2. CASE j = L /\ k \in 0 .. L - 1
      BY <1>2, <2>3, <3>1, <3>2
    <3>3. CASE k = L /\ j \in 0 .. L - 1
      BY <1>2, <2>3, <3>1, <3>3
    <3>4. CASE j \in 0 .. L - 1 /\ k \in 0 .. L - 1
      BY <1>3, <2>3, <3>1, <3>4
    <3> QED BY <2>1, <3>2, <3>3, <3>4
  <2> QED BY <2>2, <2>3 DEF Injection, IsInjective
<1> HIDE DEF f
<1>5. IsFiniteSet(Data) /\ Cardinality(Data) = Clusters
  <2>1. Data = 2 .. Clusters + 1 /\ Clusters \in Nat
    BY Sizes
  <2>2. IsFiniteSet(2 .. Clusters + 1) /\ Cardinality(2 .. Clusters + 1) = Clusters
    BY <2>1, FS_Interval
  <2> QED BY <2>1, <2>2
<1>6. Cardinality(0 .. L) <= Cardinality(Data)
  BY <1>4, <1>5, FS_Injection
<1>7. Cardinality(0 .. L) = L + 1
  BY <1>1, FS_Interval
<1> QED BY <1>1, <1>5, <1>6, <1>7 DEF L

\* A chain grows by the cluster its end is made to point to.
LEMMA ChainGrows ==
  ASSUME NEW t \in Tables, NEW s \in Data, Ended(t, s), NEW c \in Data, c \notin ChainIn(t, s),
         t[c] \in {0, EOC}
  PROVE  LET u == [t EXCEPT ![EndIn(t, s)] = c]
         IN  /\ u \in Tables /\ LengthIn(u, s) = LengthIn(t, s) + 1
             /\ \A k \in 0 .. LengthIn(t, s) - 1 : HopsIn(u, s)[k] = HopsIn(t, s)[k]
             /\ HopsIn(u, s)[LengthIn(t, s)] = c
             /\ ChainIn(u, s) = ChainIn(t, s) \cup {c} /\ EndIn(u, s) = c /\ Ended(u, s)
<1> DEFINE L == LengthIn(t, s)
           h == HopsIn(t, s)
           x == EndIn(t, s)
           u == [t EXCEPT ![x] = c]
           g == HopsIn(u, s)
<1>1. s \in 0 .. EOC /\ L \in 1 .. Clusters /\ x \in ChainIn(t, s) /\ ChainIn(t, s) \subseteq Data
  <2>1. s \in 0 .. EOC
    BY Sizes
  <2> QED BY <2>1, ChainParts
<1>2. L + 1 \in 1 .. Clusters
  BY ChainHasRoom
<1>3. /\ \A k \in 0 .. L - 1 : h[k] \in ChainIn(t, s)
      /\ \A j, k \in 0 .. L - 1 : h[j] = h[k] => j = k
      /\ x = h[L - 1] /\ t[x] \in {0, EOC}
      /\ ChainIn(t, s) = {h[k] : k \in 0 .. L - 1}
  BY DEF ChainIn, Ended, EndIn
<1>4. h[0] = s /\ \A j \in 1 .. Clusters : h[j] = FollowIn(t)[h[j - 1]]
  BY HopsAre
<1>5. u \in Tables /\ u[x] = c /\ \A y \in Data : y # x => u[y] = t[y]
  <2>1. x \in Table /\ c \in 0 .. EOC /\ Data \subseteq Table
    BY <1>1, Sizes
  <2> HIDE DEF x
  <2> QED BY <2>1 DEF Tables
<1>6. g[0] = s /\ \A j \in 1 .. Clusters : g[j] = FollowIn(u)[g[j - 1]]
  BY HopsAre
<1>7. c # x /\ u[c] = t[c] /\ u[c] \notin Data /\ u[c] \in {0, EOC}
  <2>1. 0 \notin Data /\ EOC \notin Data
    BY Sizes
  <2>2. c # x
    BY <1>1
  <2> QED BY <1>5, <2>1, <2>2
<1> HIDE DEF L, h, x, u
<1>8. \A k \in 0 .. (L - 1) - 1 : FollowIn(u)[h[k]] = FollowIn(t)[h[k]]
  <2> TAKE k \in 0 .. (L - 1) - 1
  <2>1. k \in 0 .. L - 1 /\ k # L - 1 /\ L - 1 \in 0 .. L - 1
    BY <1>1, Sizes
  <2>2. h[k] # x /\ h[k] \in Data
    BY <1>1, <1>3, <2>1
  <2> QED BY <1>5, <2>2, FollowIs
<1>9. \A k \in 0 .. L - 1 : g[k] = h[k]
  <2>1. L - 1 \in 0 .. Clusters
    BY <1>1, Sizes
  <2>2. \A k \in 0 .. (L - 1) - 1 : FollowIn(u)[HopsIn(t, s)[k]] = FollowIn(t)[HopsIn(t, s)[k]]
    BY <1>8 DEF h
  <2>3. \A k \in 0 .. L - 1 : HopsIn(u, s)[k] = HopsIn(t, s)[k]
    BY <1>1, <1>5, <2>1, <2>2, SameHops
  <2> QED BY <2>3 DEF h
<1>10. g[L] = c
  <2>1. L \in 1 .. Clusters /\ L - 1 \in 0 .. L - 1
    BY <1>1, Sizes
  <2>2. g[L] = FollowIn(u)[x]
    BY <1>3, <1>6, <1>9, <2>1
  <2> QED BY <1>1, <1>5, <2>2, FollowIs
<1>11. L + 1 < Clusters => g[L + 1] \notin Data
  <2> SUFFICES ASSUME L + 1 < Clusters PROVE g[L + 1] \notin Data
    OBVIOUS
  <2>1. L + 1 \in 1 .. Clusters /\ (L + 1) - 1 = L
    BY <1>1, <1>2, Sizes
  <2>2. g[L + 1] = FollowIn(u)[c]
    BY <1>6, <1>10, <2>1
  <2> QED BY <1>5, <1>7, <2>2, FollowIs
<1>12. \A k \in 0 .. (L + 1) - 1 : k \in 0 .. L - 1 \/ k = L
  BY <1>1, Sizes
<1>13. LengthIn(u, s) = L + 1
  <2>1. \A k \in 0 .. (L + 1) - 1 : g[k] \in Data
    BY <1>1, <1>3, <1>9, <1>10, <1>12
  <2>2. L + 1 \in 0 .. Clusters
    BY <1>2, Sizes
  <2> HIDE DEF g
  <2>3. (\A k \in 0 .. (L + 1) - 1 : HopsIn(u, s)[k] \in Data) /\ (L + 1 < Clusters => HopsIn(u, s)[L + 1] \notin Data)
    BY <1>11, <2>1 DEF g
  <2> QED BY <1>1, <1>5, <2>2, <2>3, LengthIs
<1>14. (L + 1) - 1 = L /\ L \in 0 .. L /\ \A k \in 0 .. L - 1 : k \in 0 .. L
  BY <1>1, Sizes
<1>15. ChainIn(u, s) = {g[k] : k \in 0 .. (L + 1) - 1} /\ EndIn(u, s) = g[(L + 1) - 1]
  BY <1>13 DEF ChainIn, EndIn
<1> HIDE DEF g
<1>16. ChainIn(u, s) = ChainIn(t, s) \cup {c} /\ EndIn(u, s) = c
  BY <1>3, <1>9, <1>10, <1>12, <1>14, <1>15
<1>17. Ended(u, s)
  <2>1. \A j, k \in 0 .. (L + 1) - 1 : g[j] = g[k] => j = k
    <3> TAKE j, k \in 0 .. (L + 1) - 1
    <3>1. \A i \in 0 .. L - 1 : g[i] = h[i] /\ g[i] \in ChainIn(t, s)
      BY <1>3, <1>9
    <3>2. g[L] \notin ChainIn(t, s)
      BY <1>10
    <3> QED BY <1>3, <1>9, <1>12, <3>1, <3>2
  <2> QED BY <1>7, <1>13, <1>16, <2>1 DEF Ended, g
<1> QED BY <1>5, <1>9, <1>10, <1>13, <1>16, <1>17 DEF L, h, x, u, g

\* What is behind the first cluster of a chain.
LEMMA ChainBehind ==
  ASSUME NEW t \in Tables, NEW s \in Data, Ended(t, s)
  PROVE  /\ ChainIn(t, s) = {s} \cup ChainIn(t, t[s]) /\ s \notin ChainIn(t, t[s])
         /\ t[s] \in Data => Ended(t, t[s])
         /\ t[s] \notin Data => t[s] \in {0, EOC}
<1> DEFINE L == LengthIn(t, s)
           h == HopsIn(t, s)
           n == t[s]
           g == HopsIn(t, n)
<1>1. s \in 0 .. EOC /\ L \in 1 .. Clusters /\ ChainIn(t, s) \subseteq Data
  <2>1. s \in 0 .. EOC
    BY Sizes
  <2> QED BY <2>1, ChainParts
<1>2. /\ \A j, k \in 0 .. L - 1 : h[j] = h[k] => j = k
      /\ t[h[L - 1]] \in {0, EOC}
      /\ ChainIn(t, s) = {h[k] : k \in 0 .. L - 1}
  BY DEF ChainIn, Ended, EndIn
<1>3. h[0] = s /\ \A j \in 1 .. Clusters : h[j] = FollowIn(t)[h[j - 1]]
  BY HopsAre
<1>4. g[0] = n /\ \A j \in 1 .. Clusters : g[j] = FollowIn(t)[g[j - 1]]
  BY HopsAre
<1>5. n \in 0 .. EOC /\ FollowIn(t)[s] = n
  BY FollowIs
<1>6. CASE n \notin Data
  <2>1. ChainIn(t, s) = {s}
    BY <1>6, ChainOfOne
  <2>2. ChainIn(t, n) = {}
    BY <1>5, <1>6, ChainParts
  <2>3. L = 1
    BY <1>6, ChainOfOne
  <2>4. t[s] \in {0, EOC}
    BY <1>2, <1>3, <2>3
  <2> QED BY <1>6, <2>1, <2>2, <2>4
<1>7. CASE n \in Data
  <2> HIDE DEF L, h, g
  <2>1. h[1] = n /\ L >= 2
    <3>1. 1 \in 1 .. Clusters
      BY Sizes
    <3>2. h[1] = n
      BY <1>3, <1>5, <3>1
    <3>3. ASSUME L = 1 PROVE FALSE
      <4>1. t[s] \in {0, EOC}
        BY <1>2, <1>3, <3>3
      <4> QED BY <1>7, <4>1, Sizes
    <3> QED BY <1>1, <3>2, <3>3, Sizes
  <2>2. \A k \in Nat : k <= Clusters - 1 => g[k] = h[k + 1]
    <3> DEFINE S == {k \in Nat : k <= Clusters - 1 => g[k] = h[k + 1]}
    <3>1. 0 \in S
      BY <1>4, <2>1
    <3>2. ASSUME NEW k \in Nat, k \in S PROVE k + 1 \in S
      <4> SUFFICES ASSUME k + 1 <= Clusters - 1 PROVE g[k + 1] = h[(k + 1) + 1]
        OBVIOUS
      <4>1. k + 1 \in 1 .. Clusters /\ (k + 1) + 1 \in 1 .. Clusters /\ k <= Clusters - 1
            /\ (k + 1) - 1 = k /\ ((k + 1) + 1) - 1 = k + 1
        BY Sizes
      <4>2. g[k] = h[k + 1]
        BY <3>2, <4>1
      <4> QED BY <1>3, <1>4, <4>1, <4>2
    <3>3. Nat \subseteq S
      <4> HIDE DEF S
      <4> QED BY <3>1, <3>2, Induct
    <3> QED BY <3>3
  <2>3. \A k \in 0 .. (L - 1) - 1 : k \in Nat /\ k <= Clusters - 1 /\ k + 1 \in 0 .. L - 1 /\ g[k] = h[k + 1]
    <3> TAKE k \in 0 .. (L - 1) - 1
    <3>1. k \in Nat /\ k <= Clusters - 1 /\ k + 1 \in 0 .. L - 1
      BY <1>1, Sizes
    <3> QED BY <2>2, <3>1
  <2>4. \A k \in 0 .. L - 1 : h[k] \in Data
    BY <1>1, <1>2
  <2>5. L - 1 \in 0 .. Clusters
    BY <1>1, Sizes
  <2>6. L - 1 < Clusters => g[L - 1] \notin Data
    <3>1. L - 1 \in Nat /\ L - 1 <= Clusters - 1 /\ (L - 1) + 1 = L /\ L \in 1 .. Clusters /\ L - 1 \in 0 .. L - 1
      BY <1>1, Sizes
    <3>2. g[L - 1] = h[L]
      BY <2>2, <3>1
    <3>3. h[L] = t[h[L - 1]]
      BY <1>3, <2>4, <3>1, FollowIs
    <3> QED BY <1>2, <3>2, <3>3, Sizes
  <2>7. LengthIn(t, n) = L - 1
    <3>1. (\A k \in 0 .. (L - 1) - 1 : HopsIn(t, n)[k] \in Data) /\ (L - 1 < Clusters => HopsIn(t, n)[L - 1] \notin Data)
      BY <2>3, <2>4, <2>6 DEF g
    <3> HIDE DEF n
    <3> QED BY <1>5, <2>5, <3>1, LengthIs
  <2>8. ChainIn(t, n) = {g[k] : k \in 0 .. (L - 1) - 1} /\ EndIn(t, n) = g[(L - 1) - 1]
    BY <2>7 DEF ChainIn, EndIn, g
  <2>9. ChainIn(t, s) = {s} \cup ChainIn(t, n)
    <3>1. \A k \in 0 .. L - 1 : k = 0 \/ (k - 1 \in 0 .. (L - 1) - 1 /\ h[k] = g[k - 1])
      <4> TAKE k \in 0 .. L - 1
      <4>1. CASE k # 0
        <5>1. k - 1 \in 0 .. (L - 1) - 1 /\ (k - 1) + 1 = k
          BY <1>1, <4>1, Sizes
        <5> QED BY <2>3, <5>1
      <4> QED BY <4>1
    <3>2. 0 \in 0 .. L - 1
      BY <1>1, Sizes
    <3> QED BY <1>2, <1>3, <2>3, <2>8, <3>1, <3>2
  <2>10. s \notin ChainIn(t, n)
    <3> SUFFICES ASSUME NEW k \in 0 .. (L - 1) - 1, g[k] = s PROVE FALSE
      BY <2>8
    <3>1. k + 1 \in 0 .. L - 1 /\ h[k + 1] = h[0] /\ 0 \in 0 .. L - 1
      BY <1>1, <1>3, <2>3, Sizes
    <3>2. k + 1 = 0
      BY <1>2, <3>1
    <3> QED BY <3>2
  <2>11. Ended(t, n)
    <3>1. (L - 1) - 1 \in 0 .. (L - 1) - 1 /\ ((L - 1) - 1) + 1 = L - 1
      BY <1>1, <2>1, Sizes
    <3>2. EndIn(t, n) = h[L - 1]
      BY <2>3, <2>8, <3>1
    <3>3. ASSUME NEW j \in 0 .. (L - 1) - 1, NEW k \in 0 .. (L - 1) - 1, g[j] = g[k] PROVE j = k
      <4>1. j + 1 \in 0 .. L - 1 /\ k + 1 \in 0 .. L - 1 /\ h[j + 1] = h[k + 1]
        BY <2>3, <3>3
      <4>2. j + 1 = k + 1
        BY <1>2, <4>1
      <4> QED BY <4>2, <1>1, Sizes
    <3> QED BY <1>2, <2>7, <3>2, <3>3 DEF Ended, g
  <2> QED BY <1>7, <2>9, <2>10, <2>11
<1> QED BY <1>6, <1>7


-----------------------------------------------------------------------------
(* The tree of directories, for entries E and a table t: R are the first   *)
(* clusters of the directories below the root, P how deep they are.        *)
Special      == {"$00", "$e5", "?", ".", ".."}
Proper(e)    == e.name \notin Special
Entries      == [LocSet -> EntrySet]
Props(E)     == {l \in LocSet : Proper(E[l])}
ClustersOf(t, d) == IF d = Root THEN {Root} ELSE ChainIn(t, d)
In(t, d)     == {l \in LocSet : l.c \in ClustersOf(t, d)}
Dirs(R)      == R \cup {Root}
Taken(E, t)  == UNION {ChainIn(t, E[l].start) : l \in Props(E)}

\* Place m of directory d is searched before place l.
Earlier(t, d, m, l) ==
  IF d = Root THEN m.i < l.i
  ELSE \E j, k \in 0 .. LengthIn(t, d) - 1 :
         /\ HopsIn(t, d)[j] = m.c /\ HopsIn(t, d)[k] = l.c
         /\ j < k \/ (j = k /\ m.i < l.i)

DepthsAre(R, P) == R \subseteq Data /\ P \in [Dirs(R) -> 0 .. MaxDepth] /\ P[Root] = 0
Named(E, R)     == \A c \in R : \E l \in Props(E) : E[l].dir /\ E[l].start = c
Blank(E) ==
  \A l \in LocSet : E[l].name \in {"$00", "$e5", "?"} => E[l] \in {Empty, Deleted, Garbage}
\* An entry that was never used has none behind it.
Ordered(E, t, R) ==
  \A d \in Dirs(R) : \A l, m \in In(t, d) :
    Proper(E[l]) /\ Earlier(t, d, m, l) => E[m] # Empty
\* An entry is in a directory, and one of a directory leads a level down.
Lies(E, t, R, P, l) ==
  /\ \E d \in Dirs(R) : /\ l \in In(t, d)
                        /\ E[l].dir => E[l].start \in R /\ P[E[l].start] = P[d] + 1
  /\ E[l].start # 0 => Ended(t, E[l].start)
Apart(E, t, l, m) == ChainIn(t, E[l].start) \cap ChainIn(t, E[m].start) = {}

Shape(E, t, R, P) ==
  /\ DepthsAre(R, P) /\ Named(E, R) /\ Blank(E) /\ Ordered(E, t, R)
  /\ \A l \in Props(E) : Lies(E, t, R, P, l)
  /\ \A l, m \in Props(E) : l # m => Apart(E, t, l, m)

\* What an entry may hold.
LEMMA EntryParts ==
  ASSUME NEW E \in Entries, NEW l \in LocSet
  PROVE  /\ E[l] \in EntrySet /\ E[l].start \in Starts /\ E[l].start \in 0 .. EOC
         /\ E[l].start # 0 => E[l].start \in Data
         /\ E[l].dir \in BOOLEAN /\ (Proper(E[l]) => E[l].name \in Names)
<1>1. E[l] \in EntrySet
  BY DEF Entries
<1>2. E[l].start \in Starts /\ E[l].dir \in BOOLEAN /\ E[l].name \in AllNames
  BY <1>1 DEF EntrySet
<1>3. Proper(E[l]) => E[l].name \in Names
  BY <1>2 DEF AllNames, Proper, Special
<1>4. E[l].start # 0 => E[l].start \in Data
  BY <1>2 DEF Starts, Root
<1>5. E[l].start \in 0 .. EOC
  BY <1>2, Sizes DEF Starts
<1> QED BY <1>1, <1>2, <1>3, <1>4, <1>5

\* The clusters of a directory are taken.
LEMMA DirTaken ==
  ASSUME NEW E \in Entries, NEW t \in Tables, NEW R, NEW P, Shape(E, t, R, P), NEW d \in R
  PROVE  /\ d \in Data /\ ChainIn(t, d) \subseteq Taken(E, t) /\ Ended(t, d) /\ d # Root
         /\ d \in ChainIn(t, d)
<1>1. d \in Data /\ d # Root
  BY Sizes DEF Shape, DepthsAre
<1>2. PICK l \in Props(E) : E[l].dir /\ E[l].start = d
  BY DEF Shape, Named
<1>3. Ended(t, d)
  <2>1. Lies(E, t, R, P, l) /\ d # 0
    BY <1>1, <1>2 DEF Shape, Root
  <2> QED BY <1>2, <2>1 DEF Lies
<1>4. ChainIn(t, d) \subseteq Taken(E, t)
  BY <1>2 DEF Taken
<1>5. d \in ChainIn(t, d)
  <2>1. d \in 0 .. EOC
    BY <1>1, Sizes
  <2> QED BY <1>1, <2>1, ChainParts
<1> QED BY <1>1, <1>3, <1>4, <1>5

\* A place is in one directory.
LEMMA OneDirectory ==
  ASSUME NEW E \in Entries, NEW t \in Tables, NEW R, NEW P, Shape(E, t, R, P),
         NEW c \in Dirs(R), NEW d \in Dirs(R), NEW l, l \in In(t, c), l \in In(t, d)
  PROVE  c = d
<1>1. \A x \in R : Root \notin ChainIn(t, x)
  <2> TAKE x \in R
  <2>1. x \in Data /\ x \in 0 .. EOC
    BY DirTaken, Sizes
  <2>2. ChainIn(t, x) \subseteq Data
    BY <2>1, ChainParts
  <2> QED BY <2>2, Sizes
<1>2. CASE c = Root \/ d = Root
  BY <1>1, <1>2 DEF In, ClustersOf, Dirs
<1>3. CASE c # Root /\ d # Root
  <2>1. c \in R /\ d \in R /\ l.c \in ChainIn(t, c) /\ l.c \in ChainIn(t, d)
    BY <1>3 DEF In, ClustersOf, Dirs
  <2>2. PICK m \in Props(E) : E[m].dir /\ E[m].start = c
    BY <2>1 DEF Shape, Named
  <2>3. PICK n \in Props(E) : E[n].dir /\ E[n].start = d
    BY <2>1 DEF Shape, Named
  <2>4. m = n
    BY <2>1, <2>2, <2>3 DEF Shape, Apart
  <2> QED BY <2>2, <2>3, <2>4
<1> QED BY <1>2, <1>3

\* A table that differs where nothing is taken, or where a chain ends, gives
\* the same tree.
LEMMA SameChains ==
  ASSUME NEW E \in Entries, NEW t \in Tables, NEW u \in Tables, NEW R, NEW P, Shape(E, t, R, P),
         \A x \in Taken(E, t) : u[x] = t[x] \/ (u[x] \in {0, EOC} /\ t[x] \notin Data)
  PROVE  /\ \A l \in Props(E) :
              /\ ChainIn(u, E[l].start) = ChainIn(t, E[l].start)
              /\ LengthIn(u, E[l].start) = LengthIn(t, E[l].start)
              /\ \A k \in 0 .. LengthIn(t, E[l].start) - 1 :
                   HopsIn(u, E[l].start)[k] = HopsIn(t, E[l].start)[k]
              /\ E[l].start # 0 => /\ EndIn(u, E[l].start) = EndIn(t, E[l].start)
                                   /\ Ended(u, E[l].start)
         /\ Taken(E, u) = Taken(E, t) /\ \A d \in Dirs(R) : In(u, d) = In(t, d)
         /\ \A d \in Dirs(R), l, m \in LocSet : Earlier(u, d, m, l) <=> Earlier(t, d, m, l)
         /\ Shape(E, u, R, P)
<1>1. 0 \notin Data /\ EOC \notin Data
  BY Sizes
<1>2. ASSUME NEW l \in Props(E)
      PROVE  /\ ChainIn(u, E[l].start) = ChainIn(t, E[l].start)
             /\ LengthIn(u, E[l].start) = LengthIn(t, E[l].start)
             /\ \A k \in 0 .. LengthIn(t, E[l].start) - 1 :
                  HopsIn(u, E[l].start)[k] = HopsIn(t, E[l].start)[k]
             /\ E[l].start # 0 => /\ EndIn(u, E[l].start) = EndIn(t, E[l].start)
                                  /\ Ended(u, E[l].start)
  <2> DEFINE s == E[l].start
  <2>1. s \in 0 .. EOC /\ (s # 0 => s \in Data)
    BY EntryParts DEF Props
  <2>2. ChainIn(t, s) \subseteq Taken(E, t)
    BY DEF Taken
  <2>3. s # 0 => Ended(t, s)
    BY DEF Shape, Lies
  <2> HIDE DEF s
  <2>4. \A x \in ChainIn(t, s) : u[x] = t[x] \/ (u[x] \in {0, EOC} /\ t[x] \notin Data)
    BY <2>2
  <2>5. \A x \in ChainIn(t, s) : u[x] = t[x] \/ (u[x] \notin Data /\ t[x] \notin Data)
    BY <1>1, <2>4
  <2>6. /\ LengthIn(u, s) = LengthIn(t, s) /\ ChainIn(u, s) = ChainIn(t, s)
        /\ \A k \in 0 .. LengthIn(t, s) - 1 : HopsIn(u, s)[k] = HopsIn(t, s)[k]
        /\ s \in Data => EndIn(u, s) = EndIn(t, s)
    BY <2>1, <2>5, ChainKept
  <2>7. s # 0 => Ended(u, s)
    BY <2>1, <2>3, <2>4, EndedKept
  <2> QED BY <2>1, <2>6, <2>7 DEF s
<1>3. Taken(E, u) = Taken(E, t)
  BY <1>2 DEF Taken
<1>4. ASSUME NEW d \in R
      PROVE  /\ ChainIn(u, d) = ChainIn(t, d) /\ LengthIn(u, d) = LengthIn(t, d)
             /\ \A k \in 0 .. LengthIn(t, d) - 1 : HopsIn(u, d)[k] = HopsIn(t, d)[k]
  <2>1. PICK l \in Props(E) : E[l].dir /\ E[l].start = d
    BY DEF Shape, Named
  <2> QED BY <1>2, <2>1
<1>5. \A d \in Dirs(R) : In(u, d) = In(t, d)
  BY <1>4 DEF In, ClustersOf, Dirs
<1>6. ASSUME NEW d \in Dirs(R), NEW l \in LocSet, NEW m \in LocSet
      PROVE  Earlier(u, d, m, l) <=> Earlier(t, d, m, l)
  BY <1>4 DEF Earlier, Dirs
<1>7. Shape(E, u, R, P)
  <2>1. DepthsAre(R, P) /\ Named(E, R) /\ Blank(E)
    BY DEF Shape
  <2>2. Ordered(E, u, R)
    <3>1. Ordered(E, t, R) /\ \A d \in Dirs(R) : In(t, d) \subseteq LocSet
      BY DEF Shape, In
    <3> QED BY <1>5, <1>6, <3>1 DEF Ordered
  <2>3. \A l \in Props(E) : Lies(E, u, R, P, l)
    <3>1. \A l \in Props(E) : Lies(E, t, R, P, l)
      BY DEF Shape
    <3> QED BY <1>2, <1>5, <3>1 DEF Lies
  <2>4. \A l, m \in Props(E) : l # m => Apart(E, u, l, m)
    <3>1. \A l, m \in Props(E) : l # m => Apart(E, t, l, m)
      BY DEF Shape
    <3> QED BY <1>2, <1>5, <3>1 DEF Apart
  <2> QED BY <2>1, <2>2, <2>3, <2>4 DEF Shape
<1> QED BY <1>2, <1>3, <1>5, <1>6, <1>7


\* An entry that is in a place is in a cluster that is taken, or in the root.
LEMMA PropTaken ==
  ASSUME NEW E \in Entries, NEW t \in Tables, NEW R, NEW P, Shape(E, t, R, P), NEW l \in Props(E)
  PROVE  l.c = Root \/ l.c \in Taken(E, t)
<1>1. PICK d \in Dirs(R) : l \in In(t, d)
  BY DEF Shape, Lies
<1>2. CASE d = Root
  BY <1>1, <1>2 DEF In, ClustersOf
<1>3. CASE d # Root
  <2>1. d \in R /\ l.c \in ChainIn(t, d)
    BY <1>1, <1>3 DEF In, ClustersOf, Dirs
  <2> QED BY <2>1, DirTaken
<1> QED BY <1>2, <1>3

\* Two entries with a cluster in common are one.
LEMMA OneOwner ==
  ASSUME NEW E \in Entries, NEW t \in Tables, NEW R, NEW P, Shape(E, t, R, P),
         NEW l \in Props(E), NEW m \in Props(E), NEW x,
         x \in ChainIn(t, E[l].start), x \in ChainIn(t, E[m].start)
  PROVE  l = m
BY DEF Shape, Apart

\* A new cluster behind the last one of a file or directory: its chain has one
\* cluster more, all others are as they were.
LEMMA LinkGrows ==
  ASSUME NEW E \in Entries, NEW t \in Tables, NEW R, NEW P, Shape(E, t, R, P),
         NEW o \in Props(E), E[o].start # 0, NEW c \in Data, c \notin Taken(E, t), t[c] \in {0, EOC},
         NEW u \in Tables, \A y \in Table : u[y] = IF y = EndIn(t, E[o].start) THEN c ELSE t[y]
  PROVE  /\ Shape(E, u, R, P) /\ Taken(E, u) = Taken(E, t) \cup {c}
         /\ ChainIn(u, E[o].start) = ChainIn(t, E[o].start) \cup {c} /\ EndIn(u, E[o].start) = c
         /\ LengthIn(u, E[o].start) = LengthIn(t, E[o].start) + 1
         /\ HopsIn(u, E[o].start)[LengthIn(t, E[o].start)] = c
         /\ \A k \in 0 .. LengthIn(t, E[o].start) - 1 :
              HopsIn(u, E[o].start)[k] = HopsIn(t, E[o].start)[k]
         /\ \A l \in Props(E) \ {o} :
              /\ ChainIn(u, E[l].start) = ChainIn(t, E[l].start)
              /\ LengthIn(u, E[l].start) = LengthIn(t, E[l].start)
              /\ \A k \in 0 .. LengthIn(t, E[l].start) - 1 :
                   HopsIn(u, E[l].start)[k] = HopsIn(t, E[l].start)[k]
         /\ \A d \in Dirs(R) : In(u, d) = IF d = E[o].start THEN In(t, d) \cup {l \in LocSet : l.c = c}
                                          ELSE In(t, d)
         /\ \A l \in Props(E) : l.c # c
<1> DEFINE s == E[o].start
           x == EndIn(t, s)
           L == LengthIn(t, s)
<1>1. s \in Data /\ s \in 0 .. EOC /\ Ended(t, s) /\ ChainIn(t, s) \subseteq Taken(E, t)
      /\ x \in ChainIn(t, s) /\ c \notin ChainIn(t, s) /\ L \in 1 .. Clusters
      /\ x \in Data /\ s \in ChainIn(t, s)
  <2>1. s \in Data /\ s \in 0 .. EOC
    BY EntryParts DEF Props
  <2>2. Ended(t, s)
    BY DEF Shape, Lies
  <2>3. ChainIn(t, s) \subseteq Taken(E, t)
    BY DEF Taken
  <2> QED BY <2>1, <2>2, <2>3, ChainParts
<1>2. /\ u \in Tables /\ LengthIn(u, s) = L + 1
      /\ \A k \in 0 .. L - 1 : HopsIn(u, s)[k] = HopsIn(t, s)[k]
      /\ HopsIn(u, s)[L] = c
      /\ ChainIn(u, s) = ChainIn(t, s) \cup {c} /\ EndIn(u, s) = c /\ Ended(u, s)
  <2>1. u = [t EXCEPT ![EndIn(t, s)] = c]
    <3>1. EndIn(t, s) \in Table
      BY <1>1, Sizes
    <3> HIDE DEF s
    <3> QED BY <3>1 DEF Tables, s
  <2> HIDE DEF s
  <2>2. LET w == [t EXCEPT ![EndIn(t, s)] = c]
        IN  /\ w \in Tables /\ LengthIn(w, s) = LengthIn(t, s) + 1
            /\ \A k \in 0 .. LengthIn(t, s) - 1 : HopsIn(w, s)[k] = HopsIn(t, s)[k]
            /\ HopsIn(w, s)[LengthIn(t, s)] = c
            /\ ChainIn(w, s) = ChainIn(t, s) \cup {c} /\ EndIn(w, s) = c /\ Ended(w, s)
    BY <1>1, ChainGrows
  <2> QED BY <2>1, <2>2
<1>3. \A y \in Data : y # x => u[y] = t[y]
  BY Sizes
<1> HIDE DEF s, x, L
<1>4. ASSUME NEW l \in Props(E), l # o
      PROVE  /\ ChainIn(u, E[l].start) = ChainIn(t, E[l].start)
             /\ LengthIn(u, E[l].start) = LengthIn(t, E[l].start)
             /\ \A k \in 0 .. LengthIn(t, E[l].start) - 1 :
                  HopsIn(u, E[l].start)[k] = HopsIn(t, E[l].start)[k]
             /\ E[l].start # 0 => Ended(u, E[l].start)
  <2> DEFINE q == E[l].start
  <2>1. q \in 0 .. EOC /\ (q # 0 => q \in Data)
    BY EntryParts DEF Props
  <2>2. x \notin ChainIn(t, q)
    BY <1>1, <1>4, OneOwner DEF s
  <2>3. ChainIn(t, q) \subseteq Data
    BY <2>1, ChainParts
  <2>4. q # 0 => Ended(t, q)
    BY DEF Shape, Lies
  <2> HIDE DEF q
  <2>5. \A y \in ChainIn(t, q) : u[y] = t[y]
    BY <1>3, <2>2, <2>3
  <2>51. \A y \in ChainIn(t, q) : u[y] = t[y] \/ (u[y] \notin Data /\ t[y] \notin Data)
    BY <2>5
  <2>6. /\ LengthIn(u, q) = LengthIn(t, q) /\ ChainIn(u, q) = ChainIn(t, q)
        /\ \A k \in 0 .. LengthIn(t, q) - 1 : HopsIn(u, q)[k] = HopsIn(t, q)[k]
    BY <1>2, <2>1, <2>51, ChainKept
  <2>7. q # 0 => Ended(u, q)
    BY <1>2, <2>1, <2>4, <2>5, EndedKept
  <2> QED BY <2>6, <2>7 DEF q
<1>5. Taken(E, u) = Taken(E, t) \cup {c}
  <2>1. \A l \in Props(E) : ChainIn(u, E[l].start) =
           IF l = o THEN ChainIn(t, E[l].start) \cup {c} ELSE ChainIn(t, E[l].start)
    BY <1>2, <1>4 DEF s
  <2>2. ASSUME NEW v \in Taken(E, u) PROVE v \in Taken(E, t) \cup {c}
    <3>1. PICK l \in Props(E) : v \in ChainIn(u, E[l].start)
      BY DEF Taken
    <3>2. v \in ChainIn(t, E[l].start) \/ v = c
      BY <2>1, <3>1
    <3> QED BY <3>2 DEF Taken
  <2>3. ASSUME NEW v \in Taken(E, t) PROVE v \in Taken(E, u)
    <3>1. PICK l \in Props(E) : v \in ChainIn(t, E[l].start)
      BY DEF Taken
    <3>2. v \in ChainIn(u, E[l].start)
      BY <2>1, <3>1
    <3> QED BY <3>2 DEF Taken
  <2>4. c \in Taken(E, u)
    BY <2>1 DEF Taken
  <2> QED BY <2>2, <2>3, <2>4
<1>6. ASSUME NEW d \in R, d # s
      PROVE  /\ ChainIn(u, d) = ChainIn(t, d) /\ LengthIn(u, d) = LengthIn(t, d)
             /\ \A k \in 0 .. LengthIn(t, d) - 1 : HopsIn(u, d)[k] = HopsIn(t, d)[k]
  <2>1. PICK l \in Props(E) : E[l].dir /\ E[l].start = d
    BY DEF Shape, Named
  <2>2. l # o
    BY <1>6, <2>1 DEF s
  <2> QED BY <1>4, <2>1, <2>2
<1>7. ASSUME NEW d \in Dirs(R)
      PROVE  In(u, d) = IF d = s THEN In(t, d) \cup {l \in LocSet : l.c = c} ELSE In(t, d)
  <2>1. s # Root
    BY <1>1, Sizes
  <2>2. CASE d = s
    BY <1>2, <2>1, <2>2 DEF In, ClustersOf
  <2>3. CASE d # s
    BY <1>6, <2>3 DEF In, ClustersOf, Dirs
  <2> QED BY <2>2, <2>3
<1>8. \A l \in Props(E) : l.c # c
  <2>1. c # Root
    BY Sizes
  <2> QED BY <2>1, PropTaken
<1>9. ASSUME NEW d \in Dirs(R), NEW l \in Props(E) PROVE l \in In(u, d) <=> l \in In(t, d)
  BY <1>7, <1>8
<1>10. ASSUME NEW d \in Dirs(R), NEW l \in LocSet, l.c # c, NEW m \in LocSet, Earlier(u, d, m, l)
       PROVE  Earlier(t, d, m, l) /\ (m \in In(u, d) => m \in In(t, d))
  <2>1. CASE d = Root
    <3>1. Root # s
      BY <1>1, Sizes
    <3>2. In(u, Root) = In(t, Root)
      BY <1>7, <3>1 DEF Dirs
    <3>3. m.i < l.i
      BY <1>10, <2>1 DEF Earlier
    <3> QED BY <2>1, <3>2, <3>3 DEF Earlier
  <2>2. CASE d # Root /\ d # s
    BY <1>6, <1>7, <1>10, <2>2 DEF Earlier, Dirs
  <2>3. CASE d # Root /\ d = s
    <3>1. PICK j \in 0 .. L, k \in 0 .. L :
            /\ HopsIn(u, s)[j] = m.c /\ HopsIn(u, s)[k] = l.c
            /\ j < k \/ (j = k /\ m.i < l.i)
      <4>1. (L + 1) - 1 = L
        BY <1>1, Sizes
      <4> QED BY <1>2, <1>10, <2>3, <4>1 DEF Earlier
    <3>2. k # L
      BY <1>2, <1>10, <3>1
    <3>3. j \in 0 .. L - 1 /\ k \in 0 .. L - 1
      BY <1>1, <3>1, <3>2, Sizes
    <3>4. HopsIn(t, s)[j] = m.c /\ HopsIn(t, s)[k] = l.c
      BY <1>2, <3>1, <3>3
    <3>5. Earlier(t, d, m, l)
      BY <2>3, <3>1, <3>3, <3>4 DEF Earlier, L
    <3>6. m.c \in ChainIn(t, s)
      BY <3>3, <3>4 DEF ChainIn, L
    <3> QED BY <2>3, <3>5, <3>6 DEF In, ClustersOf
  <2> QED BY <2>1, <2>2, <2>3
<1>11. Shape(E, u, R, P)
  <2>1. DepthsAre(R, P) /\ Named(E, R) /\ Blank(E)
    BY DEF Shape
  <2>2. Ordered(E, u, R)
    <3> SUFFICES ASSUME NEW d \in Dirs(R), NEW l \in In(u, d), NEW m \in In(u, d), Proper(E[l]),
                        Earlier(u, d, m, l)
                 PROVE  E[m] # Empty
      BY DEF Ordered
    <3>1. l \in LocSet /\ m \in LocSet /\ l \in Props(E)
      BY DEF In, Props
    <3>2. Earlier(t, d, m, l) /\ m \in In(t, d) /\ l \in In(t, d)
      BY <1>8, <1>9, <1>10, <3>1
    <3> QED BY <3>2 DEF Shape, Ordered
  <2>3. \A l \in Props(E) : Lies(E, u, R, P, l)
    <3> TAKE l \in Props(E)
    <3>1. Lies(E, t, R, P, l)
      BY DEF Shape
    <3>2. E[l].start # 0 => Ended(u, E[l].start)
      BY <1>2, <1>4 DEF s
    <3> QED BY <1>9, <3>1, <3>2 DEF Lies
  <2>4. \A l, m \in Props(E) : l # m => Apart(E, u, l, m)
    <3> TAKE l, m \in Props(E)
    <3> SUFFICES ASSUME l # m PROVE Apart(E, u, l, m)
      OBVIOUS
    <3>1. Apart(E, t, l, m)
      BY DEF Shape
    <3>2. \A y \in Props(E) : c \notin ChainIn(t, E[y].start)
      BY DEF Taken
    <3>3. ChainIn(u, E[l].start) \cap ChainIn(u, E[m].start) = {}
      <4>1. CASE l = o
        BY <1>2, <1>4, <3>1, <3>2, <4>1 DEF s, Apart
      <4>2. CASE m = o
        BY <1>2, <1>4, <3>1, <3>2, <4>2 DEF s, Apart
      <4>3. CASE l # o /\ m # o
        BY <1>4, <3>1, <4>3 DEF Apart
      <4> QED BY <4>1, <4>2, <4>3
    <3> QED BY <1>9, <3>1, <3>3 DEF Apart
  <2> QED BY <2>1, <2>2, <2>3, <2>4 DEF Shape
<1> QED BY <1>2, <1>4, <1>5, <1>7, <1>8, <1>11 DEF s, L, x


\* Entries that are none, at the places Q, are written over others that are none,
\* and no entry gets behind one that was never used.
Over(E, F, Q) ==
  /\ \A l \in LocSet : l \notin Q => F[l] = E[l]
  /\ \A l \in Q : /\ ~Proper(E[l]) /\ ~Proper(F[l])
                  /\ F[l].name \in {"$00", "$e5", "?"} => F[l] \in {Empty, Deleted, Garbage}
Hides(E, t, R, F, Q) ==
  \E d \in Dirs(R), l \in Props(E), m \in Q :
    l \in In(t, d) /\ m \in In(t, d) /\ Earlier(t, d, m, l) /\ F[m] = Empty

\* Entries of nothing may be written over, unless that hides one behind them.
LEMMA OthersOver ==
  ASSUME NEW E \in Entries, NEW t \in Tables, NEW R, NEW P, Shape(E, t, R, P),
         NEW F \in Entries, NEW Q \in SUBSET LocSet, Over(E, F, Q), ~Hides(E, t, R, F, Q)
  PROVE  Shape(F, t, R, P) /\ Props(F) = Props(E) /\ (\A l \in Props(E) : F[l] = E[l])
         /\ Taken(F, t) = Taken(E, t)
<1> USE DEF Over, Hides
<1>1. Props(F) = Props(E) /\ \A l \in Props(E) : F[l] = E[l]
  BY DEF Props
<1>2. Taken(F, t) = Taken(E, t)
  BY <1>1 DEF Taken
<1>3. DepthsAre(R, P) /\ Named(F, R) /\ Blank(F)
  <2>1. DepthsAre(R, P) /\ Named(F, R)
    BY <1>1 DEF Shape, Named
  <2>2. Blank(F)
    BY DEF Shape, Blank
  <2> QED BY <2>1, <2>2
<1>4. Ordered(F, t, R)
  <2> SUFFICES ASSUME NEW d \in Dirs(R), NEW l \in In(t, d), NEW m \in In(t, d), Proper(F[l]),
                      Earlier(t, d, m, l)
               PROVE  F[m] # Empty
    BY DEF Ordered
  <2>1. l \in LocSet /\ m \in LocSet
    BY DEF In
  <2>2. l \in Props(E)
    BY <1>1, <2>1 DEF Props
  <2>3. CASE m \in Q
    BY <2>2, <2>3
  <2>4. CASE m \notin Q
    <3>1. F[m] = E[m] /\ Proper(E[l])
      BY <2>1, <2>2, <2>4 DEF Props
    <3> QED BY <3>1 DEF Shape, Ordered
  <2> QED BY <2>3, <2>4
<1>5. \A l \in Props(F) : Lies(F, t, R, P, l)
  BY <1>1 DEF Shape, Lies
<1>6. \A l, m \in Props(F) : l # m => Apart(F, t, l, m)
  BY <1>1 DEF Shape, Apart
<1> QED BY <1>1, <1>2, <1>3, <1>4, <1>5, <1>6 DEF Shape


\* Entries that differ in one place.
OneEntry(E, F, loc) == F \in Entries /\ \A l \in LocSet : l # loc => F[l] = E[l]

\* The directories without the one the entry at loc led to, and with the one it
\* leads to, which is one deeper than directory d.
Without(E, R, loc)  == IF E[loc].dir THEN R \ {E[loc].start} ELSE R
Within(P, Q)        == [d \in Dirs(Q) |-> P[d]]
With(F, R, loc, c)  == IF F[loc].dir THEN R \cup {c} ELSE R
Deeper(F, P, loc, c, d, Q) ==
  [x \in Dirs(Q) |-> IF F[loc].dir /\ x = c THEN P[d] + 1 ELSE P[x]]

\* An entry is written over: its name or its length changes.
LEMMA EntryOver ==
  ASSUME NEW E \in Entries, NEW t \in Tables, NEW R, NEW P, Shape(E, t, R, P),
         NEW loc \in Props(E), NEW F, OneEntry(E, F, loc), Proper(F[loc]),
         F[loc].start = E[loc].start, F[loc].dir = E[loc].dir
  PROVE  /\ Shape(F, t, R, P) /\ Props(F) = Props(E) /\ Taken(F, t) = Taken(E, t)
         /\ \A l \in Props(E) : F[l].start = E[l].start /\ F[l].dir = E[l].dir
<1>1. Props(F) = Props(E)
  BY DEF Props, OneEntry
<1>2. \A l \in Props(E) : F[l].start = E[l].start /\ F[l].dir = E[l].dir
  BY DEF Props, OneEntry
<1>3. Taken(F, t) = Taken(E, t)
  BY <1>1, <1>2 DEF Taken
<1>4. Named(F, R) /\ DepthsAre(R, P)
  BY <1>1, <1>2 DEF Shape, Named
<1>5. Blank(F)
  <2> SUFFICES ASSUME NEW l \in LocSet, F[l].name \in {"$00", "$e5", "?"}
               PROVE  F[l] \in {Empty, Deleted, Garbage}
    BY DEF Blank
  <2>1. l # loc
    BY DEF Proper, Special
  <2> QED BY <2>1 DEF Shape, Blank, OneEntry
<1>6. Ordered(F, t, R)
  <2> SUFFICES ASSUME NEW d \in Dirs(R), NEW l \in In(t, d), NEW m \in In(t, d), Proper(F[l]),
                      Earlier(t, d, m, l)
               PROVE  F[m] # Empty
    BY DEF Ordered
  <2>1. l \in Props(E) /\ m \in LocSet
    BY <1>1 DEF In, Props
  <2>2. E[m] # Empty
    BY <2>1 DEF Shape, Ordered, Props
  <2>3. F[loc] # Empty
    BY DEF Proper, Special, Empty
  <2> QED BY <2>1, <2>2, <2>3 DEF OneEntry
<1>7. \A l \in Props(F) : Lies(F, t, R, P, l)
  BY <1>1, <1>2 DEF Shape, Lies
<1>8. \A l, m \in Props(F) : l # m => Apart(F, t, l, m)
  BY <1>1, <1>2 DEF Shape, Apart
<1> QED BY <1>1, <1>2, <1>3, <1>4, <1>5, <1>6, <1>7, <1>8 DEF Shape

\* An entry is deleted: the directories below the root are one less if it was
\* of a directory, which has no entries.
LEMMA EntryGone ==
  ASSUME NEW E \in Entries, NEW t \in Tables, NEW R, NEW P, Shape(E, t, R, P),
         NEW loc \in Props(E), NEW F, OneEntry(E, F, loc), F[loc] = Deleted,
         NEW Q, Q = Without(E, R, loc),
         E[loc].dir => \A l \in In(t, E[loc].start) : ~Proper(E[l])
  PROVE  /\ Shape(F, t, Q, Within(P, Q))
         /\ Props(F) = Props(E) \ {loc}
         /\ Taken(F, t) = Taken(E, t) \ ChainIn(t, E[loc].start)
<1> USE DEF Without, Within
<1> DEFINE s == E[loc].start
           O == [d \in Dirs(Q) |-> P[d]]
<1>1. Props(F) = Props(E) \ {loc} /\ \A l \in Props(F) : F[l] = E[l]
  BY DEF Props, OneEntry, Deleted, Proper, Special
<1>2. Taken(F, t) = Taken(E, t) \ ChainIn(t, s)
  <2>1. \A l \in Props(F) : ChainIn(t, F[l].start) = ChainIn(t, E[l].start)
                            /\ ChainIn(t, E[l].start) \cap ChainIn(t, s) = {}
    BY <1>1 DEF Shape, Apart
  <2>2. Taken(F, t) \subseteq Taken(E, t) \ ChainIn(t, s)
    BY <1>1, <2>1 DEF Taken
  <2>3. Taken(E, t) \ ChainIn(t, s) \subseteq Taken(F, t)
    BY <1>1, <2>1 DEF Taken
  <2> QED BY <2>2, <2>3
<1>3. Q \subseteq R /\ Dirs(Q) \subseteq Dirs(R) /\ \A d \in Dirs(R) : d \notin Dirs(Q) => E[loc].dir /\ d = s
  BY DEF Dirs
<1>4. DepthsAre(Q, O)
  <2>1. R \subseteq Data /\ P \in [Dirs(R) -> 0 .. MaxDepth] /\ P[Root] = 0
    BY DEF Shape, DepthsAre
  <2>2. Root \in Dirs(Q)
    BY DEF Dirs
  <2> QED BY <1>3, <2>1, <2>2 DEF DepthsAre
<1>5. Named(F, Q)
  <2> SUFFICES ASSUME NEW c \in Q PROVE \E l \in Props(F) : F[l].dir /\ F[l].start = c
    BY DEF Named
  <2>1. PICK l \in Props(E) : E[l].dir /\ E[l].start = c
    BY <1>3 DEF Shape, Named
  <2>2. l # loc
    BY <2>1
  <2> QED BY <1>1, <2>1, <2>2
<1>6. Blank(F)
  BY DEF Shape, Blank, OneEntry
<1>7. Ordered(F, t, Q)
  <2> SUFFICES ASSUME NEW d \in Dirs(Q), NEW l \in In(t, d), NEW m \in In(t, d), Proper(F[l]),
                      Earlier(t, d, m, l)
               PROVE  F[m] # Empty
    BY DEF Ordered
  <2>1. d \in Dirs(R) /\ l \in LocSet /\ m \in LocSet
    BY <1>3 DEF In
  <2>2. l \in Props(F)
    BY <2>1 DEF Props
  <2>3. Proper(E[l])
    BY <1>1, <2>2
  <2>4. E[m] # Empty
    BY <2>1, <2>3 DEF Shape, Ordered
  <2>5. Deleted # Empty
    BY DEF Deleted, Empty
  <2> QED BY <2>1, <2>4, <2>5 DEF OneEntry
<1>8. ASSUME NEW l \in Props(F) PROVE Lies(F, t, Q, O, l)
  <2>1. l \in Props(E) /\ l # loc /\ F[l] = E[l] /\ l \in LocSet
    BY <1>1 DEF Props
  <2>2. PICK d \in Dirs(R) : l \in In(t, d) /\ (E[l].dir => E[l].start \in R /\ P[E[l].start] = P[d] + 1)
    BY <2>1 DEF Shape, Lies
  <2>3. d \in Dirs(Q)
    <3>1. Proper(E[l])
      BY <2>1 DEF Props
    <3> QED BY <1>3, <2>2, <3>1
  <2>4. E[l].dir => E[l].start \in Q
    <3> SUFFICES ASSUME E[l].dir PROVE E[l].start \in Q
      OBVIOUS
    <3>1. E[l].start \in R /\ E[l].start \in ChainIn(t, E[l].start)
      BY <2>2, DirTaken
    <3>2. E[l].start # s
      BY <2>1, <3>1, OneOwner
    <3> QED BY <3>1, <3>2
  <2>5. E[l].dir => O[E[l].start] = O[d] + 1
    BY <2>2, <2>3, <2>4 DEF Dirs
  <2>6. E[l].start # 0 => Ended(t, E[l].start)
    BY <2>1 DEF Shape, Lies
  <2> QED BY <2>1, <2>2, <2>3, <2>4, <2>5, <2>6 DEF Lies
<1>9. \A l, m \in Props(F) : l # m => Apart(F, t, l, m)
  BY <1>1 DEF Shape, Apart
<1> QED BY <1>1, <1>2, <1>4, <1>5, <1>6, <1>7, <1>8, <1>9 DEF Shape

\* An entry without a chain, or a place without an entry, gets an entry: with
\* no chain, or with one that is a free cluster.
LEMMA EntryGets ==
  ASSUME NEW E \in Entries, NEW t \in Tables, NEW R, NEW P, Shape(E, t, R, P),
         NEW d \in Dirs(R), NEW loc \in In(t, d), NEW F, OneEntry(E, F, loc), Proper(F[loc]),
         Proper(E[loc]) => E[loc].start = 0 /\ ~E[loc].dir,
         ~Proper(E[loc]) => \A m \in In(t, d) : Earlier(t, d, m, loc) => E[m] # Empty,
         NEW c, c = F[loc].start,
         c # 0 => c \notin Taken(E, t) /\ t[c] \in {0, EOC},
         F[loc].dir => c # 0 /\ P[d] < MaxDepth,
         NEW Q, Q = With(F, R, loc, c), NEW O, O = Deeper(F, P, loc, c, d, Q)
  PROVE  /\ Shape(F, t, Q, O)
         /\ Props(F) = Props(E) \cup {loc}
         /\ Taken(F, t) = Taken(E, t) \cup ChainIn(t, c)
         /\ ChainIn(t, c) = (IF c = 0 THEN {} ELSE {c})
         /\ c # 0 => EndIn(t, c) = c /\ c \in Data
         /\ \A l \in LocSet : l.c = c /\ c # 0 => ~Proper(E[l]) /\ l # loc
         /\ \A x \in Dirs(R) : O[x] = P[x] /\ x \in Dirs(Q)
         /\ c # 0 => c \notin Dirs(R)
<1> USE DEF With, Deeper
<1>1. loc \in LocSet /\ Props(F) = Props(E) \cup {loc} /\ \A l \in LocSet : l # loc => F[l] = E[l]
  BY DEF Props, OneEntry, In
<1>2. /\ c \in 0 .. EOC /\ (c # 0 => c \in Data)
      /\ ChainIn(t, c) = (IF c = 0 THEN {} ELSE {c})
      /\ c # 0 => EndIn(t, c) = c /\ Ended(t, c)
  <2>1. F \in Entries
    BY DEF OneEntry
  <2>2. c \in 0 .. EOC /\ (c # 0 => c \in Data) /\ 0 \notin Data /\ EOC \notin Data
    BY <1>1, <2>1, EntryParts, Sizes
  <2>3. CASE c = 0
    BY <2>2, <2>3, ChainParts
  <2>4. CASE c # 0
    BY <2>2, <2>4, ChainOfOne
  <2> QED BY <2>2, <2>3, <2>4
<1>3. /\ \A l \in Props(E) : ChainIn(t, F[l].start) = (IF l = loc THEN ChainIn(t, c) ELSE ChainIn(t, E[l].start))
      /\ loc \in Props(E) => ChainIn(t, E[loc].start) = {}
  <2>1. ASSUME loc \in Props(E) PROVE ChainIn(t, E[loc].start) = {}
    <3>1. E[loc].start = 0 /\ 0 \in 0 .. EOC /\ 0 \notin Data
      BY <2>1, Sizes DEF Props
    <3> QED BY <3>1, ChainParts
  <2> QED BY <1>1, <2>1 DEF Props
<1>4. Taken(F, t) = Taken(E, t) \cup ChainIn(t, c)
  <2>1. Taken(F, t) \subseteq Taken(E, t) \cup ChainIn(t, c)
    BY <1>1, <1>3 DEF Taken
  <2>2. ChainIn(t, c) \subseteq Taken(F, t)
    BY <1>1 DEF Taken
  <2>3. ASSUME NEW x \in Taken(E, t) PROVE x \in Taken(F, t)
    <3>1. PICK l \in Props(E) : x \in ChainIn(t, E[l].start)
      BY DEF Taken
    <3>2. l # loc
      BY <1>3, <3>1
    <3> QED BY <1>1, <1>3, <3>1, <3>2 DEF Taken
  <2> QED BY <2>1, <2>2, <2>3
<1>5. \A l \in LocSet : l.c = c /\ c # 0 => ~Proper(E[l]) /\ l # loc
  <2> SUFFICES ASSUME NEW l \in LocSet, l.c = c, c # 0 PROVE ~Proper(E[l]) /\ l # loc
    OBVIOUS
  <2>1. c # Root
    BY Sizes
  <2>2. ~Proper(E[l])
    BY <2>1, PropTaken DEF Props
  <2>3. l # loc
    <3>1. CASE d = Root
      BY <2>1, <3>1 DEF In, ClustersOf
    <3>2. CASE d # Root
      <4>1. d \in R /\ loc.c \in ChainIn(t, d)
        BY <3>2 DEF In, ClustersOf, Dirs
      <4> QED BY <4>1, DirTaken
    <3> QED BY <3>1, <3>2
  <2> QED BY <2>2, <2>3
<1>6. c # 0 => c \notin Dirs(R)
  <2>1. c # 0 => c # Root
    BY Sizes
  <2> QED BY <2>1, DirTaken DEF Dirs
<1>7. \A x \in Dirs(R) : O[x] = P[x] /\ x \in Dirs(Q)
  BY <1>6 DEF Dirs
<1>8. DepthsAre(Q, O)
  <2>1. R \subseteq Data /\ P \in [Dirs(R) -> 0 .. MaxDepth] /\ P[Root] = 0 /\ Root \in Dirs(R)
    BY DEF Shape, DepthsAre, Dirs
  <2>2. P[d] \in 0 .. MaxDepth /\ MaxDepth \in Nat
    BY <2>1, Fat16Assumption
  <2>3. Q \subseteq Data
    BY <1>2, <2>1
  <2>4. ASSUME NEW x \in Dirs(Q) PROVE O[x] \in 0 .. MaxDepth
    <3>1. CASE x \in Dirs(R)
      BY <1>7, <2>1, <3>1
    <3>2. CASE x \notin Dirs(R)
      <4>1. F[loc].dir /\ x = c
        BY <3>2 DEF Dirs
      <4>2. O[x] = P[d] + 1 /\ P[d] < MaxDepth
        BY <4>1
      <4> QED BY <2>2, <4>2
    <3> QED BY <3>1, <3>2
  <2>5. O[Root] = 0
    BY <1>7, <2>1
  <2> QED BY <2>3, <2>4, <2>5 DEF DepthsAre
<1>9. Named(F, Q)
  <2> SUFFICES ASSUME NEW x \in Q PROVE \E l \in Props(F) : F[l].dir /\ F[l].start = x
    BY DEF Named
  <2>1. CASE x \in R
    <3>1. PICK l \in Props(E) : E[l].dir /\ E[l].start = x
      BY <2>1 DEF Shape, Named
    <3>2. l # loc
      BY <3>1 DEF Props
    <3> QED BY <1>1, <3>1, <3>2 DEF Props
  <2>2. CASE x \notin R
    BY <1>1, <2>2
  <2> QED BY <2>1, <2>2
<1>10. Blank(F)
  <2> SUFFICES ASSUME NEW l \in LocSet, F[l].name \in {"$00", "$e5", "?"}
               PROVE  F[l] \in {Empty, Deleted, Garbage}
    BY DEF Blank
  <2>1. l # loc
    BY DEF Proper, Special
  <2> QED BY <2>1 DEF Shape, Blank, OneEntry
<1>11. \A x \in Dirs(R) : loc \in In(t, x) => x = d
  BY OneDirectory
<1>12. Ordered(F, t, Q)
  <2> SUFFICES ASSUME NEW x \in Dirs(Q), NEW l \in In(t, x), NEW m \in In(t, x), Proper(F[l]),
                      Earlier(t, x, m, l)
               PROVE  F[m] # Empty
    BY DEF Ordered
  <2>1. l \in LocSet /\ m \in LocSet /\ F[loc] # Empty
    BY DEF In, Proper, Special, Empty
  <2>2. CASE x \in Dirs(R)
    <3>1. CASE l = loc /\ ~Proper(E[loc])
      <4>1. x = d
        BY <1>11, <2>2, <3>1
      <4>2. E[m] # Empty
        BY <3>1, <4>1
      <4> QED BY <1>1, <2>1, <4>2
    <3>2. CASE l # loc \/ Proper(E[loc])
      <4>1. Proper(E[l])
        BY <1>1, <2>1, <3>2
      <4>2. E[m] # Empty
        BY <2>2, <4>1 DEF Shape, Ordered
      <4> QED BY <1>1, <2>1, <4>2
    <3> QED BY <3>1, <3>2
  <2>3. CASE x \notin Dirs(R)
    <3>1. x = c /\ F[loc].dir
      BY <2>3 DEF Dirs
    <3>2. c # 0 /\ c # Root
      BY <3>1, Sizes
    <3>3. l.c = c
      BY <1>2, <3>1, <3>2 DEF In, ClustersOf
    <3> QED BY <1>1, <1>5, <2>1, <3>2, <3>3
  <2> QED BY <2>2, <2>3
<1>13. ASSUME NEW l \in Props(F) PROVE Lies(F, t, Q, O, l)
  <2>1. l \in LocSet
    BY DEF Props
  <2>2. CASE l = loc
    <3>1. d \in Dirs(Q) /\ O[d] = P[d]
      BY <1>7
    <3>2. F[loc].dir => c \in Q /\ O[c] = P[d] + 1
      BY DEF Dirs
    <3> QED BY <1>2, <2>2, <3>1, <3>2 DEF Lies
  <2>3. CASE l # loc
    <3>1. l \in Props(E) /\ F[l] = E[l]
      BY <1>1, <2>1, <2>3
    <3>2. PICK x \in Dirs(R) : l \in In(t, x) /\ (E[l].dir => E[l].start \in R /\ P[E[l].start] = P[x] + 1)
      BY <3>1 DEF Shape, Lies
    <3>3. E[l].start # 0 => Ended(t, E[l].start)
      BY <3>1 DEF Shape, Lies
    <3>4. x \in Dirs(Q) /\ O[x] = P[x] /\ (E[l].dir => E[l].start \in Q /\ O[E[l].start] = P[E[l].start])
      BY <1>7, <3>2 DEF Dirs
    <3>5. E[l].dir => O[E[l].start] = O[x] + 1
      BY <3>2, <3>4
    <3> QED BY <3>1, <3>2, <3>3, <3>4, <3>5 DEF Lies
  <2> QED BY <2>2, <2>3
<1>14. ASSUME NEW l \in Props(F), NEW m \in Props(F), l # m PROVE Apart(F, t, l, m)
  <2>1. \A y \in Props(E) : ChainIn(t, c) \cap ChainIn(t, E[y].start) = {}
    <3>1. \A y \in Props(E) : ChainIn(t, E[y].start) \subseteq Taken(E, t)
      BY DEF Taken
    <3> QED BY <1>2, <3>1
  <2>5. \A y \in Props(F) : y # loc => y \in Props(E) /\ F[y] = E[y]
    BY <1>1 DEF Props
  <2>2. CASE l = loc
    BY <1>14, <2>1, <2>2, <2>5 DEF Apart
  <2>3. CASE m = loc
    BY <1>14, <2>1, <2>3, <2>5 DEF Apart
  <2>4. CASE l # loc /\ m # loc
    <3>1. Apart(E, t, l, m)
      BY <1>14, <2>4, <2>5 DEF Shape
    <3> QED BY <1>14, <2>4, <2>5, <3>1 DEF Apart
  <2> QED BY <2>2, <2>3, <2>4
<1> QED BY <1>1, <1>2, <1>4, <1>5, <1>6, <1>7, <1>8, <1>9, <1>10, <1>12, <1>13, <1>14 DEF Shape


-----------------------------------------------------------------------------
(* The entries of the disk, and the slots that the driver searches.        *)
Es == [l \in LocSet |-> Entry(l)]

\* The entries of the disk, by their places.
LEMMA EsHas ==
  ASSUME DiskHas
  PROVE  Es \in Entries /\ fat1 \in Tables /\ \A l \in LocSet : Es[l] = Entry(l)
BY EntryHas DEF Es, Entries, DiskHas, Tables

\* A slot of a directory in the data area is a place in a cluster of its chain.
LEMMA SlotParts ==
  ASSUME fat1 \in Tables, NEW d \in Data, NEW k \in Positions(d), NEW n, n = SPC * ES
  PROVE  /\ k \div n \in 0 .. LengthIn(fat1, d) - 1 /\ k % n \in 0 .. n - 1 /\ k \in Nat
         /\ Slot(d, k) = [c |-> HopsIn(fat1, d)[k \div n], i |-> k % n]
<1> DEFINE L == LengthIn(fat1, d)
           q == k \div n
<1>1. d # Root /\ L \in 1 .. Clusters
  <2>1. d # Root
    BY Sizes
  <2> QED BY <2>1, ChainHas
<1>2. k \in 0 .. (L * SPC) * ES - 1
  BY <1>1, HopIs DEF Positions
<1> HIDE DEF L
<1>3. n \in Nat \ {0} /\ SPC \in Nat /\ ES \in Nat /\ L \in Nat
  BY <1>1, Sizes
<1>4. (L * SPC) * ES = L * n
  BY <1>3
<1>5. k \in Nat /\ k < L * n
  <2>1. L * n \in Nat
    BY <1>3
  <2> QED BY <1>2, <1>4, <2>1
<1>6. q \in Nat /\ k % n \in 0 .. n - 1 /\ q * n <= k
  BY <1>3, <1>5, Divided
<1>7. q * n < L * n
  <2>1. q * n \in Int /\ L * n \in Int
    BY <1>3, <1>6
  <2> QED BY <1>5, <1>6, <2>1
<1>8. q \in 0 .. L - 1
  BY <1>3, <1>6, <1>7, Multiples
<1>9. Slot(d, k) = [c |-> HopsIn(fat1, d)[q], i |-> k % n]
  BY <1>1, HopIs DEF Slot, q
<1> QED BY <1>5, <1>6, <1>8, <1>9 DEF L, q

\* The slots of the root directory are its places.
LEMMA RootSlots ==
  ASSUME NEW k
  PROVE  /\ k \in Positions(Root) <=> k \in Slots(Root)
         /\ Slot(Root, k) = [c |-> Root, i |-> k]
         /\ \A i \in Slots(Root) : i \in Nat
         /\ \A t : In(t, Root) = {l \in LocSet : l.c = Root}
<1>1. Positions(Root) = 0 .. RootSectors * ES - 1 /\ Slots(Root) = 0 .. RootSectors * ES - 1
  BY DEF Positions, Slots
<1>2. \A t : In(t, Root) = {l \in LocSet : l.c = Root}
  BY DEF In, ClustersOf
<1> QED BY <1>1, <1>2, Sizes DEF Slot

\* A slot is a place in the directory.
LEMMA SlotIn ==
  ASSUME fat1 \in Tables, NEW d \in Starts, NEW k \in Positions(d)
  PROVE  Slot(d, k) \in In(fat1, d) /\ Slot(d, k) \in LocSet
<1>1. Slot(d, k) \in LocSet
  BY SlotIsLoc
<1>2. CASE d = Root
  BY <1>1, <1>2, RootSlots
<1>3. CASE d # Root
  <2>1. d \in Data
    BY <1>3 DEF Starts
  <2>2. Slot(d, k).c \in ChainIn(fat1, d)
    BY <2>1, SlotParts DEF ChainIn
  <2> QED BY <1>1, <1>3, <2>2 DEF In, ClustersOf
<1> QED BY <1>2, <1>3

\* Every place of a directory is a slot.
LEMMA InIsSlot ==
  ASSUME fat1 \in Tables, NEW d \in Starts, NEW l \in In(fat1, d)
  PROVE  \E k \in Positions(d) : Slot(d, k) = l
<1>1. l \in LocSet /\ l = [c |-> l.c, i |-> l.i] /\ l.i \in Nat /\ l.i \in Slots(l.c)
  BY DEF In, LocSet
<1>2. CASE d = Root
  <2>1. l.c = Root
    BY <1>2, RootSlots
  <2> QED BY <1>1, <1>2, <2>1, RootSlots
<1>3. CASE d # Root
  <2> DEFINE L == LengthIn(fat1, d)
             n == SPC * ES
  <2>1. d \in Data
    BY <1>3 DEF Starts
  <2>2. L \in 1 .. Clusters /\ \A j \in 0 .. L - 1 : HopsIn(fat1, d)[j] \in Data
    BY <2>1, ChainHas
  <2>3. PICK q \in 0 .. L - 1 : HopsIn(fat1, d)[q] = l.c
    BY <1>3 DEF In, ClustersOf, ChainIn
  <2>4. l.c # Root
    BY <2>2, <2>3, Sizes
  <2>5. l.i \in 0 .. n - 1 /\ n \in Nat \ {0}
    BY <1>1, <2>4, Sizes DEF Slots
  <2>6. Positions(d) = 0 .. (L * SPC) * ES - 1
    BY <1>3, HopIs DEF Positions
  <2> HIDE DEF L
  <2>7. (L * SPC) * ES = L * n
    BY <2>2, Sizes
  <2> HIDE DEF n
  <2> DEFINE k == q * n + l.i
  <2>8. k \in Nat /\ k \div n = q /\ k % n = l.i /\ k < L * n
    <3>1. q \in Nat /\ L \in Nat /\ q + 1 <= L
      BY <2>2, <2>3
    <3>2. q * n \in Nat /\ L * n \in Nat /\ (q + 1) * n = q * n + n /\ (q + 1) * n <= L * n
      BY <2>5, <3>1, Multiples
    <3> DEFINE p == q * n
    <3> HIDE DEF p
    <3>3. k \in Nat /\ k < L * n
      BY <2>5, <3>2
    <3> DEFINE x == k \div n
    <3>4. x \in Nat /\ k % n \in 0 .. n - 1 /\ x * n <= k /\ k < x * n + n /\ k = x * n + (k % n)
      <4>1. k \in Nat /\ n \in Nat \ {0}
        BY <2>5, <3>3
      <4> HIDE DEF k
      <4>2. x \in Nat /\ k % n \in 0 .. n - 1 /\ x * n <= k /\ k < x * n + n
        BY <4>1, Divided
      <4>3. k = (k \div n) * n + (k % n)
        BY <4>1
      <4> QED BY <4>2, <4>3
    <3> HIDE DEF x
    <3>5. x = q
      <4>1. x * n \in Nat /\ q * n <= k /\ k < q * n + n /\ k \in Int
        BY <2>5, <3>2, <3>3, <3>4
      <4> HIDE DEF k
      <4> DEFINE v == x * n
                 w == q * n
      <4>2. v < w + n /\ w < v + n
        <5>1. v \in Nat /\ w \in Nat /\ v <= k /\ k < v + n /\ w <= k /\ k < w + n /\ n \in Nat
          BY <2>5, <3>2, <3>4, <4>1
        <5> HIDE DEF v, w
        <5> QED BY <4>1, <5>1
      <4>3. x <= q /\ q <= x
        BY <2>5, <3>1, <3>4, <4>2, Multiples
      <4> QED BY <3>1, <3>4, <4>3
    <3>6. k % n = l.i
      <4>1. k = p + l.i /\ k = p + (k % n)
        BY <3>4, <3>5 DEF p
      <4>2. p \in Nat /\ k % n \in Nat
        BY <2>5, <3>2, <3>4 DEF p
      <4> DEFINE y == k % n
      <4> HIDE DEF k, y
      <4> QED BY <2>5, <4>1, <4>2 DEF y
    <3> QED BY <3>3, <3>5, <3>6 DEF x
  <2>9. k \in Positions(d)
    <3>1. L * n \in Nat
      BY <2>2, <2>5
    <3> HIDE DEF k
    <3> QED BY <2>6, <2>7, <2>8, <3>1
  <2>10. Slot(d, k) = [c |-> HopsIn(fat1, d)[q], i |-> l.i]
    <3> HIDE DEF k
    <3>1. n = SPC * ES
      BY DEF n
    <3> QED BY <2>1, <2>8, <2>9, <3>1, SlotParts
  <2> QED BY <1>1, <2>3, <2>9, <2>10
<1> QED BY <1>2, <1>3

\* The slots are in the order of the search.
LEMMA SlotOrder ==
  ASSUME fat1 \in Tables, NEW d \in Starts, d # Root => Ended(fat1, d),
         NEW j \in Positions(d), NEW k \in Positions(d)
  PROVE  /\ j \in Nat /\ k \in Nat
         /\ Earlier(fat1, d, Slot(d, j), Slot(d, k)) <=> j < k
<1>1. CASE d = Root
  BY <1>1, RootSlots DEF Earlier
<1>2. CASE d # Root
  <2> DEFINE L == LengthIn(fat1, d)
             n == SPC * ES
             h == HopsIn(fat1, d)
  <2>1. d \in Data /\ n = SPC * ES /\ n \in Nat \ {0}
    BY <1>2, Sizes DEF Starts
  <2>2. /\ j \div n \in 0 .. L - 1 /\ j % n \in 0 .. n - 1 /\ j \in Nat
        /\ Slot(d, j) = [c |-> h[j \div n], i |-> j % n]
        /\ k \div n \in 0 .. L - 1 /\ k % n \in 0 .. n - 1 /\ k \in Nat
        /\ Slot(d, k) = [c |-> h[k \div n], i |-> k % n]
    BY <2>1, SlotParts
  <2>3. \A x, y \in 0 .. L - 1 : h[x] = h[y] => x = y
    BY <1>2 DEF Ended
  <2> DEFINE p == j \div n
             q == k \div n
  <2>4. j = p * n + (j % n) /\ k = q * n + (k % n)
    <3> HIDE DEF n, L, h
    <3> QED BY <2>1, <2>2
  <2>5. Earlier(fat1, d, Slot(d, j), Slot(d, k)) <=> (p < q \/ (p = q /\ (j % n) < (k % n)))
    <3>1. Earlier(fat1, d, Slot(d, j), Slot(d, k)) <=>
            \E x, y \in 0 .. L - 1 :
              /\ h[x] = h[p] /\ h[y] = h[q]
              /\ x < y \/ (x = y /\ (j % n) < (k % n))
      <4>1. /\ Slot(d, j).c = h[p] /\ Slot(d, j).i = j % n
            /\ Slot(d, k).c = h[q] /\ Slot(d, k).i = k % n
        BY <2>2
      <4> HIDE DEF n, p, q
      <4> QED BY <1>2, <4>1 DEF Earlier
    <3>2. p \in 0 .. L - 1 /\ q \in 0 .. L - 1
      BY <2>2
    <3> HIDE DEF h, L, n, p, q
    <3> QED BY <2>3, <3>1, <3>2
  <2> DEFINE a == j % n
             b == k % n
  <2>6. p \in Nat /\ q \in Nat /\ a \in 0 .. n - 1 /\ b \in 0 .. n - 1
    <3>1. L \in Int
      <4>1. L \in 1 .. Clusters
        BY <2>1, ChainHas
      <4> QED BY <4>1
    <3> HIDE DEF L, n
    <3> QED BY <2>2, <3>1
  <2>41. /\ j = p * n + a /\ k = q * n + b
         /\ Earlier(fat1, d, Slot(d, j), Slot(d, k)) <=> (p < q \/ (p = q /\ a < b))
    BY <2>4, <2>5
  <2> HIDE DEF p, q, a, b, n, L, h
  <2>7. p < q => j < k
    <3> SUFFICES ASSUME p < q PROVE j < k
      OBVIOUS
    <3>1. (p + 1) * n <= q * n /\ (p + 1) * n = p * n + n /\ p * n \in Nat /\ q * n \in Nat
      BY <2>1, <2>6, Multiples
    <3> DEFINE v == p * n
               w == q * n
    <3>2. v + n <= w /\ j = v + a /\ k = w + b /\ v \in Nat /\ w \in Nat /\ n \in Nat
      BY <2>1, <2>41, <3>1
    <3> HIDE DEF v, w
    <3> QED BY <2>6, <3>2
  <2>8. q < p => k < j
    <3> SUFFICES ASSUME q < p PROVE k < j
      OBVIOUS
    <3>1. (q + 1) * n <= p * n /\ (q + 1) * n = q * n + n /\ p * n \in Nat /\ q * n \in Nat
      BY <2>1, <2>6, Multiples
    <3> DEFINE v == p * n
               w == q * n
    <3>2. w + n <= v /\ j = v + a /\ k = w + b /\ v \in Nat /\ w \in Nat /\ n \in Nat
      BY <2>1, <2>41, <3>1
    <3> HIDE DEF v, w
    <3> QED BY <2>6, <3>2
  <2>9. p = q => (j < k <=> a < b)
    <3> SUFFICES ASSUME p = q PROVE j < k <=> a < b
      OBVIOUS
    <3> DEFINE v == p * n
    <3>1. v \in Nat /\ j = v + a /\ k = v + b
      BY <2>1, <2>41, <2>6
    <3> HIDE DEF v
    <3> QED BY <2>1, <2>6, <3>1
  <2> QED BY <2>2, <2>41, <2>6, <2>7, <2>8, <2>9
<1> QED BY <1>1, <1>2


\* The entry in a slot.
LEMMA AtSlot ==
  ASSUME DiskHas, NEW d \in Starts, NEW k \in Positions(d)
  PROVE  EntryAt(d, k) = Es[Slot(d, k)] /\ Slot(d, k) \in In(fat1, d) /\ Slot(d, k) \in LocSet
BY EsHas, SlotIn DEF EntryAt

\* The positions of a directory are an interval.
LEMMA PositionsAre ==
  ASSUME fat1 \in Tables, NEW d \in Starts
  PROVE  \E n \in Int : Positions(d) = 0 .. n
<1> DEFINE x == IF d = Root THEN RootSectors ELSE LengthIn(fat1, d) * SPC
<1>1. x \in Int
  <2>1. CASE d = Root
    BY <2>1, Sizes
  <2>2. CASE d # Root
    <3>1. LengthIn(fat1, d) \in 1 .. Clusters
      BY <2>2, ChainHas DEF Starts
    <3> DEFINE L == LengthIn(fat1, d)
    <3>2. L \in Int
      BY <3>1
    <3> HIDE DEF L
    <3>3. L * SPC \in Int
      BY <3>2, Sizes
    <3> QED BY <2>2, <3>3 DEF L
  <2> QED BY <2>1, <2>2
<1>2. Positions(d) = 0 .. x * ES - 1
  BY HopIs DEF Positions
<1> HIDE DEF x
<1>3. x * ES - 1 \in Int
  BY <1>1, Sizes
<1> QED BY <1>2, <1>3

\* The slot that is found has the name.
LEMMA FoundIs ==
  ASSUME DiskHas, cur \in Starts, NEW n, NEW loc \in Found(n)
  PROVE  loc \in In(fat1, cur) /\ loc \in LocSet /\ Es[loc].name = n /\ Entry(loc) = Es[loc]
<1>1. PICK k \in Positions(cur) : loc = Slot(cur, k) /\ EntryAt(cur, k).name = n
  BY DEF Found
<1> QED BY <1>1, AtSlot, EsHas

\* The free slot is the first one of its kind.
LEMMA FreeIs ==
  ASSUME DiskHas, cur \in Starts, cur # Root => Ended(fat1, cur), NEW loc \in FreeSlot
  PROVE  /\ loc \in In(fat1, cur) /\ loc \in LocSet /\ Es[loc] \in {Empty, Deleted}
         /\ \A m \in In(fat1, cur) : Earlier(fat1, cur, m, loc) => Es[m] \notin {Empty, Deleted}
<1>1. PICK k \in Positions(cur) :
        /\ loc = Slot(cur, k) /\ EntryAt(cur, k) \in {Empty, Deleted}
        /\ \A j \in 0 .. k - 1 : EntryAt(cur, j) \notin {Empty, Deleted}
  BY DEF FreeSlot
<1>2. ASSUME NEW m \in In(fat1, cur), Earlier(fat1, cur, m, loc)
      PROVE  Es[m] \notin {Empty, Deleted}
  <2>1. PICK j \in Positions(cur) : Slot(cur, j) = m
    BY InIsSlot, EsHas
  <2>2. j \in Nat /\ k \in Nat /\ j < k
    BY <1>1, <1>2, <2>1, SlotOrder, EsHas
  <2>3. EntryAt(cur, j) = Es[m]
    BY <2>1, AtSlot
  <2> QED BY <1>1, <2>2, <2>3
<1> QED BY <1>1, <1>2, AtSlot

\* The entries a search of a directory passes.
LEMMA LiveIs ==
  ASSUME DiskHas, NEW d \in Starts, d # Root => Ended(fat1, d)
  PROVE  /\ \A e \in Live(d) : \E l \in In(fat1, d) : e = Es[l] /\ e \notin {Empty, Deleted}
         /\ \A l \in In(fat1, d) :
              /\ Es[l] \notin {Empty, Deleted}
              /\ \A m \in In(fat1, d) : Earlier(fat1, d, m, l) => Es[m] # Empty
              => Es[l] \in Live(d)
<1>1. ASSUME NEW e \in Live(d)
      PROVE  \E l \in In(fat1, d) : e = Es[l] /\ e \notin {Empty, Deleted}
  <2>1. PICK k \in Used(d) : e = EntryAt(d, k) /\ e # Deleted
    BY DEF Live
  <2>2. k \in Positions(d) /\ \A j \in 0 .. k : EntryAt(d, j) # Empty
    BY DEF Used
  <2>3. k \in Nat
    BY <2>2, SlotOrder, EsHas
  <2>4. EntryAt(d, k) # Empty
    BY <2>2, <2>3
  <2> QED BY <2>1, <2>2, <2>4, AtSlot
<1>2. ASSUME NEW l \in In(fat1, d), Es[l] \notin {Empty, Deleted},
             \A m \in In(fat1, d) : Earlier(fat1, d, m, l) => Es[m] # Empty
      PROVE  Es[l] \in Live(d)
  <2>1. PICK k \in Positions(d) : Slot(d, k) = l
    BY InIsSlot, EsHas
  <2>2. EntryAt(d, k) = Es[l] /\ k \in Nat
    BY <2>1, AtSlot, SlotOrder, EsHas
  <2>3. ASSUME NEW j \in 0 .. k PROVE EntryAt(d, j) # Empty
    <3>1. CASE j = k
      BY <1>2, <2>2, <3>1
    <3>2. CASE j # k
      <4>1. j \in Positions(d) /\ j < k
        <5>1. PICK n \in Int : Positions(d) = 0 .. n
          BY PositionsAre, EsHas
        <5> QED BY <2>1, <2>2, <3>2, <5>1
      <4>2. Earlier(fat1, d, Slot(d, j), l) /\ Slot(d, j) \in In(fat1, d)
        BY <2>1, <4>1, SlotOrder, SlotIn, EsHas
      <4>3. EntryAt(d, j) = Es[Slot(d, j)]
        BY <4>1, AtSlot
      <4> QED BY <1>2, <4>2, <4>3
    <3> QED BY <3>1, <3>2
  <2>4. k \in Used(d)
    BY <2>1, <2>3 DEF Used
  <2> QED BY <1>2, <2>2, <2>4 DEF Live
<1> QED BY <1>1, <1>2

\* A directory that looks empty to the driver has no entry of a file in it.
LEMMA EmptyIs ==
  ASSUME DiskHas, NEW d \in Starts, DirIsEmpty(d)
  PROVE  \A l \in In(fat1, d) : ~Proper(Es[l])
<1> TAKE l \in In(fat1, d)
<1>1. PICK k \in Positions(d) : Slot(d, k) = l
  BY InIsSlot, EsHas
<1> QED BY <1>1, AtSlot DEF DirIsEmpty, Proper, Special


-----------------------------------------------------------------------------
(* The levels of the tree.                                                 *)
NextLevel(S) ==
  UNION {Below(n.path, n.e.start) : n \in {m \in S : m.e.dir /\ m.e.start \in Data}}
AreLevels(n, f) ==
  f = [k \in 0 .. n |-> IF k = 0 THEN Below(<<>>, Root) ELSE NextLevel(f[k - 1])]
Level == CHOOSE f : AreLevels(MaxDepth, f)

\* The recursive function of Nodes exists, by induction over the depth.
LEMMA LevelsExist ==
  ASSUME NEW n \in Nat
  PROVE  \E f : AreLevels(n, f)
<1> DEFINE B == Below(<<>>, Root)
           S == {m \in Nat : \E f : AreLevels(m, f)}
<1>1. 0 \in S
  <2> DEFINE f == [j \in 0 .. 0 |-> B]
  <2>1. f = [j \in 0 .. 0 |-> IF j = 0 THEN B ELSE NextLevel(f[j - 1])]
    OBVIOUS
  <2> QED BY <2>1 DEF AreLevels
<1>2. ASSUME NEW m \in Nat, m \in S PROVE m + 1 \in S
  <2>1. PICK g : g = [j \in 0 .. m |-> IF j = 0 THEN B ELSE NextLevel(g[j - 1])]
    BY <1>2 DEF AreLevels
  <2>2. \A i \in 0 .. m : g[i] = IF i = 0 THEN B ELSE NextLevel(g[i - 1])
    BY <2>1
  <2> HIDE DEF B
  <2> DEFINE f == [j \in 0 .. m + 1 |-> IF j = m + 1 THEN NextLevel(g[m]) ELSE g[j]]
  <2>3. ASSUME NEW j \in 0 .. m + 1
        PROVE  f[j] = IF j = 0 THEN B ELSE NextLevel(f[j - 1])
    <3>1. CASE j = 0
      BY <2>2, <3>1
    <3>2. CASE j \in 1 .. m
      <4>1. g[j] = NextLevel(g[j - 1])
        BY <2>2, <3>2
      <4>2. f[j] = g[j] /\ f[j - 1] = g[j - 1]
        BY <3>2
      <4> QED BY <3>2, <4>1, <4>2
    <3>3. CASE j = m + 1
      <4>1. f[j] = NextLevel(g[m]) /\ f[j - 1] = g[m]
        BY <3>3
      <4> QED BY <3>3, <4>1
    <3> QED BY <3>1, <3>2, <3>3
  <2>4. f = [j \in 0 .. m + 1 |-> IF j = 0 THEN B ELSE NextLevel(f[j - 1])]
    BY <2>3
  <2> HIDE DEF f
  <2>5. AreLevels(m + 1, f)
    BY <2>4 DEF AreLevels, B
  <2> QED BY <2>5
<1> HIDE DEF S
<1>3. Nat \subseteq S
  BY <1>1, <1>2, Induct
<1> QED BY <1>3 DEF S

\* The nodes, level by level.
LEMMA NodesAre ==
  /\ Nodes = UNION {Level[k] : k \in 0 .. MaxDepth}
  /\ Level[0] = Below(<<>>, Root)
  /\ \A k \in 1 .. MaxDepth : Level[k] = NextLevel(Level[k - 1])
  /\ MaxDepth \in Nat
<1>1. MaxDepth \in Nat
  BY Fat16Assumption
<1>2. AreLevels(MaxDepth, Level)
  BY <1>1, LevelsExist DEF Level
<1>3. Level[0] = Below(<<>>, Root) /\ \A k \in 1 .. MaxDepth : Level[k] = NextLevel(Level[k - 1])
  BY <1>1, <1>2 DEF AreLevels
<1>4. Nodes = UNION {Level[k] : k \in 0 .. MaxDepth}
  BY DEF Nodes, Level, AreLevels, NextLevel
<1> QED BY <1>1, <1>3, <1>4

\* The clusters of a chain, as the driver follows it.
LEMMA ChainIs ==
  ASSUME fat1 \in Tables, NEW c \in 0 .. EOC
  PROVE  Chain(c) = ChainIn(fat1, c)
<1> DEFINE L == LengthIn(fat1, c)
           h == HopsIn(fat1, c)
<1>1. Chain(c) = {h[k] : k \in 0 .. Clusters - 1} \cap Data
  BY HopIs DEF Chain
<1>2. ChainIn(fat1, c) = {h[k] : k \in 0 .. L - 1}
  BY DEF ChainIn
<1>3. L \in 0 .. Clusters /\ \A k \in 0 .. Clusters - 1 : h[k] \in Data <=> k < L
  BY ChainIsAPrefix
<1> HIDE DEF L, h
<1> QED BY <1>1, <1>2, <1>3, Sizes

\* A node is the entry of a place in a directory at its level.
LEMMA NodeIs ==
  ASSUME DiskHas, NEW R, NEW P, Shape(Es, fat1, R, P),
         NEW k \in 0 .. MaxDepth, NEW n \in Level[k]
  PROVE  /\ \E d \in Dirs(R), l \in LocSet :
              /\ n.e = Es[l] /\ l \in In(fat1, d) /\ P[d] = k
              /\ k = 0 => d = Root /\ n = [path |-> <<Es[l].name>>, e |-> Es[l]]
              /\ k > 0 => \E m \in Level[k - 1] :
                            /\ m.e.dir /\ m.e.start = d /\ d # Root
                            /\ n = [path |-> Append(m.path, Es[l].name), e |-> Es[l]]
              /\ Proper(Es[l]) \/ Es[l] = Garbage
         /\ \E p : p \in Seq(AllNames) /\ n.path = p /\ Len(p) = k + 1
<1> DEFINE Is(j, x) ==
      /\ \E d \in Dirs(R), l \in LocSet :
              /\ x.e = Es[l] /\ l \in In(fat1, d) /\ P[d] = j
              /\ j = 0 => d = Root /\ x = [path |-> <<Es[l].name>>, e |-> Es[l]]
              /\ j > 0 => \E m \in Level[j - 1] :
                            /\ m.e.dir /\ m.e.start = d /\ d # Root
                            /\ x = [path |-> Append(m.path, Es[l].name), e |-> Es[l]]
              /\ Proper(Es[l]) \/ Es[l] = Garbage
      /\ \E p : p \in Seq(AllNames) /\ x.path = p /\ Len(p) = j + 1
           S == {j \in Nat : j <= MaxDepth => \A x \in Level[j] : Is(j, x)}
<1>0. R \subseteq Data /\ P \in [Dirs(R) -> 0 .. MaxDepth] /\ P[Root] = 0 /\ Es \in Entries /\ fat1 \in Tables
  BY EsHas DEF Shape, DepthsAre
<1>1. ASSUME NEW d \in Dirs(R), NEW p \in Seq(AllNames), NEW x \in Below(p, d)
      PROVE  \E l \in In(fat1, d) :
               /\ x = [path |-> Append(p, Es[l].name), e |-> Es[l]] /\ l \in LocSet
               /\ Es[l].name \in AllNames /\ Es[l] \in EntrySet
               /\ Proper(Es[l]) \/ Es[l] = Garbage
  <2>1. d \in Starts /\ (d # Root => Ended(fat1, d))
    BY <1>0, DirTaken DEF Dirs, Starts
  <2>2. PICK y \in Live(d) : y.name \notin {".", ".."} /\ x = [path |-> Append(p, y.name), e |-> y]
    BY DEF Below
  <2>3. PICK l \in In(fat1, d) : y = Es[l] /\ y \notin {Empty, Deleted}
    BY <2>1, LiveIs
  <2>4. l \in LocSet
    BY DEF In
  <2>5. Proper(Es[l]) \/ Es[l] = Garbage
    BY <2>2, <2>3, <2>4 DEF Shape, Blank, Proper, Special
  <2>6. Es[l] \in EntrySet
    BY <1>0, <2>4, EntryParts
  <2>7. Es[l].name \in AllNames
    BY <2>6 DEF EntrySet
  <2> QED BY <2>2, <2>3, <2>4, <2>5, <2>6, <2>7
<1>2. 0 \in S
  <2> SUFFICES ASSUME NEW x \in Level[0] PROVE Is(0, x)
    OBVIOUS
  <2>1. Root \in Dirs(R) /\ <<>> \in Seq(AllNames) /\ x \in Below(<<>>, Root)
    BY NodesAre DEF Dirs
  <2>2. PICK l \in In(fat1, Root) :
          /\ x = [path |-> Append(<<>>, Es[l].name), e |-> Es[l]] /\ l \in LocSet
          /\ Es[l].name \in AllNames /\ Es[l] \in EntrySet
          /\ Proper(Es[l]) \/ Es[l] = Garbage
    BY <1>1, <2>1
  <2>3. Append(<<>>, Es[l].name) = <<Es[l].name>> /\ Len(<<Es[l].name>>) = 1
        /\ <<Es[l].name>> \in Seq(AllNames)
    BY <2>2
  <2>4. x.e = Es[l] /\ x.path = <<Es[l].name>> /\ x = [path |-> <<Es[l].name>>, e |-> Es[l]]
    BY <2>2, <2>3
  <2>5. \E p : p \in Seq(AllNames) /\ x.path = p /\ Len(p) = 0 + 1
    BY <2>3, <2>4
  <2>6. \E d \in Dirs(R), y \in LocSet :
          /\ x.e = Es[y] /\ y \in In(fat1, d) /\ P[d] = 0
          /\ d = Root /\ x = [path |-> <<Es[y].name>>, e |-> Es[y]]
          /\ Proper(Es[y]) \/ Es[y] = Garbage
    BY <1>0, <2>1, <2>2, <2>4
  <2> QED BY <2>5, <2>6
<1>3. ASSUME NEW j \in Nat, j \in S PROVE j + 1 \in S
  <2> SUFFICES ASSUME j + 1 <= MaxDepth, NEW x \in Level[j + 1] PROVE Is(j + 1, x)
    OBVIOUS
  <2>1. j + 1 \in 1 .. MaxDepth /\ (j + 1) - 1 = j /\ j <= MaxDepth /\ j \in 0 .. MaxDepth
    BY NodesAre
  <2>2. PICK m \in Level[j] : m.e.dir /\ m.e.start \in Data /\ x \in Below(m.path, m.e.start)
    BY <2>1, NodesAre DEF NextLevel
  <2>3. Is(j, m)
    BY <1>3, <2>1
  <2>4. PICK d \in Dirs(R), l \in LocSet :
          m.e = Es[l] /\ l \in In(fat1, d) /\ P[d] = j /\ (Proper(Es[l]) \/ Es[l] = Garbage)
    BY <2>3
  <2>5. PICK p : p \in Seq(AllNames) /\ m.path = p /\ Len(p) = j + 1
    BY <2>3
  <2>6. Proper(Es[l])
    BY <2>2, <2>4 DEF Garbage
  <2>7. PICK z \in Dirs(R) : l \in In(fat1, z) /\ (Es[l].dir => Es[l].start \in R /\ P[Es[l].start] = P[z] + 1)
    BY <2>4, <2>6 DEF Shape, Lies, Props
  <2>8. z = d
    BY <1>0, <2>4, <2>7, OneDirectory
  <2> DEFINE b == Es[l].start
  <2>9. b \in R /\ b \in Dirs(R) /\ P[b] = j + 1 /\ b # Root /\ m.e.start = b
    <3>1. b \in R /\ P[b] = P[d] + 1
      BY <2>2, <2>4, <2>7, <2>8
    <3> QED BY <1>0, <2>4, <3>1, Sizes DEF Dirs
  <2> HIDE DEF b
  <2>10. PICK q \in In(fat1, b) :
          /\ x = [path |-> Append(p, Es[q].name), e |-> Es[q]] /\ q \in LocSet
          /\ Es[q].name \in AllNames /\ Es[q] \in EntrySet
          /\ Proper(Es[q]) \/ Es[q] = Garbage
    BY <1>1, <2>2, <2>5, <2>9
  <2>11. Append(p, Es[q].name) \in Seq(AllNames) /\ Len(Append(p, Es[q].name)) = (j + 1) + 1
    BY <2>5, <2>10
  <2>12. x.e = Es[q] /\ x.path = Append(p, Es[q].name) /\ x = [path |-> Append(m.path, Es[q].name), e |-> Es[q]]
    BY <2>5, <2>10
  <2>13. \E s : s \in Seq(AllNames) /\ x.path = s /\ Len(s) = (j + 1) + 1
    BY <2>11, <2>12
  <2>14. \E s \in Dirs(R), y \in LocSet :
          /\ x.e = Es[y] /\ y \in In(fat1, s) /\ P[s] = j + 1
          /\ \E w \in Level[(j + 1) - 1] :
                /\ w.e.dir /\ w.e.start = s /\ s # Root
                /\ x = [path |-> Append(w.path, Es[y].name), e |-> Es[y]]
          /\ Proper(Es[y]) \/ Es[y] = Garbage
    BY <2>1, <2>2, <2>9, <2>10, <2>12
  <2>15. j + 1 # 0
    OBVIOUS
  <2> QED BY <2>13, <2>14, <2>15
<1> HIDE DEF S
<1>4. Nat \subseteq S
  BY <1>2, <1>3, Induct
<1>5. k \in S /\ k <= MaxDepth
  BY <1>4, NodesAre
<1> QED BY <1>5 DEF S


\* Two nodes with a cluster in common are at the same place.
LEMMA OnePlace ==
  ASSUME DiskHas, NEW R, NEW P, Shape(Es, fat1, R, P),
         NEW l \in LocSet, NEW m \in LocSet, NEW c \in Dirs(R), NEW d \in Dirs(R),
         l \in In(fat1, c), m \in In(fat1, d),
         Proper(Es[l]) \/ Es[l] = Garbage, Proper(Es[m]) \/ Es[m] = Garbage,
         NEW x, x \in ChainIn(fat1, Es[l].start), x \in ChainIn(fat1, Es[m].start)
  PROVE  l = m /\ c = d
<1>1. ChainIn(fat1, 0) = {}
  <2>1. 0 \in 0 .. EOC /\ 0 \notin Data
    BY Sizes
  <2> QED BY <2>1, ChainParts, EsHas
<1>2. l \in Props(Es) /\ m \in Props(Es)
  BY <1>1 DEF Props, Garbage
<1>3. l = m
  BY <1>2, OneOwner, EsHas
<1> QED BY <1>3, OneDirectory, EsHas

\* No two nodes have a cluster in common.
LEMMA OneNode ==
  ASSUME DiskHas, NEW R, NEW P, Shape(Es, fat1, R, P),
         NEW m \in Nodes, NEW n \in Nodes,
         NEW x, x \in ChainIn(fat1, m.e.start), x \in ChainIn(fat1, n.e.start)
  PROVE  m = n
<1> DEFINE S == {k \in Nat : k <= MaxDepth =>
                   \A a, b \in Level[k] :
                     (\E y : y \in ChainIn(fat1, a.e.start) /\ y \in ChainIn(fat1, b.e.start)) => a = b}
<1>1. 0 \in S
  <2> SUFFICES ASSUME NEW a \in Level[0], NEW b \in Level[0],
                      NEW y, y \in ChainIn(fat1, a.e.start), y \in ChainIn(fat1, b.e.start)
               PROVE  a = b
    OBVIOUS
  <2>0. 0 \in 0 .. MaxDepth
    BY NodesAre
  <2>1. PICK d \in Dirs(R), l \in LocSet :
          /\ a.e = Es[l] /\ l \in In(fat1, d) /\ a = [path |-> <<Es[l].name>>, e |-> Es[l]]
          /\ Proper(Es[l]) \/ Es[l] = Garbage
    BY <2>0, NodeIs
  <2>2. PICK z \in Dirs(R), q \in LocSet :
          /\ b.e = Es[q] /\ q \in In(fat1, z) /\ b = [path |-> <<Es[q].name>>, e |-> Es[q]]
          /\ Proper(Es[q]) \/ Es[q] = Garbage
    BY <2>0, NodeIs
  <2>3. l = q
    BY <2>1, <2>2, OnePlace
  <2> QED BY <2>1, <2>2, <2>3
<1>2. ASSUME NEW k \in Nat, k \in S PROVE k + 1 \in S
  <2> SUFFICES ASSUME k + 1 <= MaxDepth, NEW a \in Level[k + 1], NEW b \in Level[k + 1],
                      NEW y, y \in ChainIn(fat1, a.e.start), y \in ChainIn(fat1, b.e.start)
               PROVE  a = b
    OBVIOUS
  <2>0. k + 1 \in 0 .. MaxDepth /\ k + 1 > 0 /\ (k + 1) - 1 = k /\ k <= MaxDepth
    BY NodesAre
  <2>10. ASSUME NEW w \in Level[k + 1]
         PROVE  \E d \in Dirs(R), l \in LocSet :
                  /\ w.e = Es[l] /\ l \in In(fat1, d)
                  /\ \E v \in Level[k] : /\ v.e.dir /\ v.e.start = d /\ d # Root
                                         /\ w = [path |-> Append(v.path, Es[l].name), e |-> Es[l]]
                  /\ Proper(Es[l]) \/ Es[l] = Garbage
    <3> DEFINE i == k + 1
    <3>1. i \in 0 .. MaxDepth /\ w \in Level[i] /\ i > 0 /\ i - 1 = k
      BY <2>0
    <3> HIDE DEF i
    <3>2. \E d \in Dirs(R), l \in LocSet :
            /\ w.e = Es[l] /\ l \in In(fat1, d)
            /\ \E v \in Level[i - 1] : /\ v.e.dir /\ v.e.start = d /\ d # Root
                                       /\ w = [path |-> Append(v.path, Es[l].name), e |-> Es[l]]
            /\ Proper(Es[l]) \/ Es[l] = Garbage
      BY <3>1, NodeIs, SMTT(20)
    <3> QED BY <3>1, <3>2
  <2>1. PICK d \in Dirs(R), l \in LocSet :
          /\ a.e = Es[l] /\ l \in In(fat1, d)
          /\ \E v \in Level[k] : /\ v.e.dir /\ v.e.start = d /\ d # Root
                                 /\ a = [path |-> Append(v.path, Es[l].name), e |-> Es[l]]
          /\ Proper(Es[l]) \/ Es[l] = Garbage
    BY <2>10
  <2>2. PICK z \in Dirs(R), q \in LocSet :
          /\ b.e = Es[q] /\ q \in In(fat1, z)
          /\ \E v \in Level[k] : /\ v.e.dir /\ v.e.start = z /\ z # Root
                                 /\ b = [path |-> Append(v.path, Es[q].name), e |-> Es[q]]
          /\ Proper(Es[q]) \/ Es[q] = Garbage
    BY <2>10
  <2>3. l = q /\ d = z
    <3>1. y \in ChainIn(fat1, Es[l].start) /\ y \in ChainIn(fat1, Es[q].start)
      BY <2>1, <2>2
    <3>2. l \in In(fat1, d) /\ q \in In(fat1, z)
      BY <2>1, <2>2
    <3>3. Proper(Es[l]) \/ Es[l] = Garbage
      BY <2>1
    <3>4. Proper(Es[q]) \/ Es[q] = Garbage
      BY <2>2
    <3> QED BY <3>1, <3>2, <3>3, <3>4, OnePlace
  <2>4. PICK v \in Level[k] : /\ v.e.start = d /\ d # Root
                              /\ a = [path |-> Append(v.path, Es[l].name), e |-> Es[l]]
    BY <2>1
  <2>5. PICK w \in Level[k] : /\ w.e.start = z
                              /\ b = [path |-> Append(w.path, Es[q].name), e |-> Es[q]]
    BY <2>2
  <2>6. d \in ChainIn(fat1, d)
    BY <2>4, DirTaken, EsHas DEF Dirs
  <2>7. v = w
    BY <1>2, <2>0, <2>3, <2>4, <2>5, <2>6
  <2> QED BY <2>3, <2>4, <2>5, <2>7
<1>3. Nat \subseteq S
  <2> HIDE DEF S
  <2> QED BY <1>1, <1>2, Induct
<1>4. PICK i \in 0 .. MaxDepth : m \in Level[i]
  BY NodesAre
<1>5. PICK j \in 0 .. MaxDepth : n \in Level[j]
  BY NodesAre
<1>6. i = j
  <2>1. PICK d \in Dirs(R), l \in LocSet :
          m.e = Es[l] /\ l \in In(fat1, d) /\ P[d] = i /\ (Proper(Es[l]) \/ Es[l] = Garbage)
    BY <1>4, NodeIs
  <2>2. PICK z \in Dirs(R), q \in LocSet :
          n.e = Es[q] /\ q \in In(fat1, z) /\ P[z] = j /\ (Proper(Es[q]) \/ Es[q] = Garbage)
    BY <1>5, NodeIs
  <2>3. d = z
    BY <2>1, <2>2, OnePlace
  <2> QED BY <2>1, <2>2, <2>3
<1>7. i \in S /\ i <= MaxDepth
  <2> HIDE DEF S
  <2> QED BY <1>3, NodesAre
<1> QED BY <1>4, <1>5, <1>6, <1>7

\* Every entry is a node, at the level of its directory.
LEMMA HasNode ==
  ASSUME DiskHas, NEW R, NEW P, Shape(Es, fat1, R, P),
         NEW d \in Dirs(R), NEW l \in In(fat1, d), Proper(Es[l])
  PROVE  P[d] \in 0 .. MaxDepth /\ \E n \in Level[P[d]] : n.e = Es[l] /\ n \in Nodes
<1>0. R \subseteq Data /\ P \in [Dirs(R) -> 0 .. MaxDepth] /\ P[Root] = 0 /\ Es \in Entries /\ fat1 \in Tables
  BY EsHas DEF Shape, DepthsAre
<1> DEFINE S == {k \in Nat : \A z \in Dirs(R) : P[z] = k =>
                   \A q \in In(fat1, z) : Proper(Es[q]) => \E n \in Level[k] : n.e = Es[q]}
<1>1. ASSUME NEW z \in Dirs(R), NEW q \in In(fat1, z), Proper(Es[q]), NEW p
      PROVE  \E n \in Below(p, z) : n.e = Es[q]
  <2>1. z \in Starts /\ (z # Root => Ended(fat1, z))
    BY <1>0, DirTaken DEF Dirs, Starts
  <2>2. \A m \in In(fat1, z) : Earlier(fat1, z, m, q) => Es[m] # Empty
    BY <1>1 DEF Shape, Ordered
  <2>3. Es[q] \notin {Empty, Deleted} /\ Es[q].name \notin {".", ".."}
    BY <1>1 DEF Proper, Special, Empty, Deleted
  <2>4. Es[q] \in Live(z)
    BY <2>1, <2>2, <2>3, LiveIs
  <2>5. [path |-> Append(p, Es[q].name), e |-> Es[q]] \in Below(p, z)
    BY <2>3, <2>4 DEF Below
  <2> QED BY <2>5
<1>2. ASSUME NEW z \in R
      PROVE  \E m \in Props(Es), x \in Dirs(R) :
               Es[m].dir /\ Es[m].start = z /\ m \in In(fat1, x) /\ P[z] = P[x] + 1
  <2>1. PICK m \in Props(Es) : Es[m].dir /\ Es[m].start = z
    BY DEF Shape, Named
  <2> QED BY <2>1 DEF Shape, Lies
<1>3. 0 \in S
  <2> SUFFICES ASSUME NEW z \in Dirs(R), P[z] = 0, NEW q \in In(fat1, z), Proper(Es[q])
               PROVE  \E n \in Level[0] : n.e = Es[q]
    OBVIOUS
  <2>1. z = Root
    <3> SUFFICES ASSUME z \in R PROVE FALSE
      BY DEF Dirs
    <3>1. PICK x \in Dirs(R) : P[z] = P[x] + 1
      BY <1>2
    <3>2. P[x] \in 0 .. MaxDepth
      BY <1>0
    <3> QED BY <3>1, <3>2
  <2> QED BY <1>1, <2>1, NodesAre
<1>4. ASSUME NEW k \in Nat, k \in S PROVE k + 1 \in S
  <2> SUFFICES ASSUME NEW z \in Dirs(R), P[z] = k + 1, NEW q \in In(fat1, z), Proper(Es[q])
               PROVE  \E n \in Level[k + 1] : n.e = Es[q]
    OBVIOUS
  <2>1. z \in R
    BY <1>0 DEF Dirs
  <2>2. PICK m \in Props(Es), x \in Dirs(R) :
          Es[m].dir /\ Es[m].start = z /\ m \in In(fat1, x) /\ P[z] = P[x] + 1
    BY <1>2, <2>1
  <2>3. P[x] = k /\ k + 1 \in 1 .. MaxDepth /\ (k + 1) - 1 = k
    <3>1. P[x] \in 0 .. MaxDepth /\ P[z] \in 0 .. MaxDepth
      BY <1>0
    <3> QED BY <2>2, <3>1, NodesAre
  <2>4. PICK n \in Level[k] : n.e = Es[m]
    BY <1>4, <2>2, <2>3 DEF Props
  <2>5. n.e.dir /\ n.e.start = z /\ z \in Data
    BY <1>0, <2>1, <2>2, <2>4
  <2>6. Below(n.path, z) \subseteq Level[k + 1]
    BY <2>3, <2>5, NodesAre DEF NextLevel
  <2> QED BY <1>1, <2>6
<1>5. Nat \subseteq S
  <2> HIDE DEF S
  <2> QED BY <1>3, <1>4, Induct
<1>6. P[d] \in 0 .. MaxDepth /\ P[d] \in S
  BY <1>0, <1>5, NodesAre
<1> QED BY <1>6, NodesAre

\* No two nodes share a cluster, and the clusters of the nodes are those of the
\* entries.
LEMMA ShapeIsSound ==
  ASSUME DiskHas, NEW R, NEW P, Shape(Es, fat1, R, P)
  PROVE  /\ NoCrossLinks
         /\ UNION {Owned(n) : n \in Owners} = Taken(Es, fat1)
         /\ \A d \in Dirs(R) : Len(PathOf(d)) = P[d]
<1>0. R \subseteq Data /\ P \in [Dirs(R) -> 0 .. MaxDepth] /\ P[Root] = 0 /\ Es \in Entries /\ fat1 \in Tables
  BY EsHas DEF Shape, DepthsAre
<1>1. ASSUME NEW n \in Nodes
      PROVE  \E k \in 0 .. MaxDepth : \E d \in Dirs(R), l \in LocSet :
               /\ n.e = Es[l] /\ l \in In(fat1, d) /\ P[d] = k
               /\ Proper(Es[l]) \/ Es[l] = Garbage
               /\ Len(n.path) = k + 1
  <2>1. PICK k \in 0 .. MaxDepth : n \in Level[k]
    BY NodesAre
  <2> QED BY <2>1, NodeIs
<1>2. ASSUME NEW n \in Nodes PROVE n.e.start \in 0 .. EOC /\ Owned(n) = ChainIn(fat1, n.e.start)
  <2>1. PICK l \in LocSet : n.e = Es[l]
    BY <1>1
  <2>2. n.e.start \in 0 .. EOC
    BY <1>0, <2>1, EntryParts
  <2> QED BY <1>0, <2>2, ChainIs DEF Owned
<1>3. NoCrossLinks
  <2> SUFFICES ASSUME NEW m \in Owners, NEW n \in Owners, m # n, NEW x, x \in Owned(m), x \in Owned(n)
               PROVE  FALSE
    BY DEF NoCrossLinks
  <2>1. m \in Nodes /\ n \in Nodes
    BY DEF Owners
  <2> QED BY <1>2, <2>1, OneNode
<1>4. UNION {Owned(n) : n \in Owners} = Taken(Es, fat1)
  <2>1. ASSUME NEW n \in Owners PROVE Owned(n) \subseteq Taken(Es, fat1)
    <3>1. n \in Nodes /\ n.e.start # 0
      BY DEF Owners
    <3>2. PICK l \in LocSet : n.e = Es[l] /\ (Proper(Es[l]) \/ Es[l] = Garbage)
      BY <1>1, <3>1
    <3>3. l \in Props(Es)
      BY <3>1, <3>2 DEF Props, Garbage
    <3> QED BY <1>2, <3>1, <3>2, <3>3 DEF Taken
  <2>2. ASSUME NEW x \in Taken(Es, fat1) PROVE \E n \in Owners : x \in Owned(n)
    <3>1. PICK l \in Props(Es) : x \in ChainIn(fat1, Es[l].start)
      BY DEF Taken
    <3>2. PICK d \in Dirs(R) : l \in In(fat1, d)
      BY DEF Shape, Lies
    <3>3. PICK n \in Nodes : n.e = Es[l]
      BY <3>2, HasNode DEF Props
    <3>4. Es[l].start # 0
      <4>1. 0 \in 0 .. EOC /\ 0 \notin Data
        BY Sizes
      <4> QED BY <1>0, <3>1, <4>1, ChainParts
    <3>5. n \in Owners
      BY <3>3, <3>4 DEF Owners
    <3> QED BY <1>2, <3>1, <3>3, <3>5
  <2> QED BY <2>1, <2>2
<1>5. ASSUME NEW d \in Dirs(R) PROVE Len(PathOf(d)) = P[d]
  <2>1. CASE d = Root
    BY <1>0, <2>1 DEF PathOf
  <2>2. CASE d # Root
    <3>1. d \in R
      BY <2>2 DEF Dirs
    <3>2. PICK m \in Props(Es) : Es[m].dir /\ Es[m].start = d
      BY <3>1 DEF Shape, Named
    <3>3. PICK x \in Dirs(R) : m \in In(fat1, x) /\ P[d] = P[x] + 1
      BY <3>2 DEF Shape, Lies
    <3>4. PICK n \in Nodes : n.e = Es[m]
      BY <3>2, <3>3, HasNode DEF Props
    <3> DEFINE y == CHOOSE z \in Nodes : z.e.dir /\ z.e.start = d
    <3>5. y \in Nodes /\ y.e.dir /\ y.e.start = d
      BY <3>2, <3>4
    <3>6. PathOf(d) = y.path
      BY <2>2 DEF PathOf
    <3> HIDE DEF y
    <3>7. PICK k \in 0 .. MaxDepth : \E z \in Dirs(R), l \in LocSet :
               /\ y.e = Es[l] /\ l \in In(fat1, z) /\ P[z] = k
               /\ Proper(Es[l]) \/ Es[l] = Garbage
               /\ Len(y.path) = k + 1
      BY <1>1, <3>5
    <3>8. PICK z \in Dirs(R), l \in LocSet :
               /\ y.e = Es[l] /\ l \in In(fat1, z) /\ P[z] = k
               /\ Proper(Es[l]) \/ Es[l] = Garbage
      BY <3>7
    <3>9. d \in ChainIn(fat1, d)
      BY <3>1, <1>0, DirTaken
    <3>10. z = x
      BY <3>2, <3>3, <3>5, <3>8, <3>9, OnePlace DEF Props
    <3> QED BY <3>3, <3>6, <3>7, <3>8, <3>10
  <2> QED BY <2>1, <2>2
<1> QED BY <1>3, <1>4, <1>5


-----------------------------------------------------------------------------
(* What a sector write does to the entries.                                *)

\* The sector of a place, and that no other place has the same.
LEMMA PlaceParts ==
  ASSUME NEW l \in LocSet, l.c # Root
  PROVE  /\ l.c \in Data /\ l.i \in Nat
         /\ l.i \div ES \in 0 .. SPC - 1 /\ l.i % ES \in 0 .. ES - 1
         /\ Sector(l.c, l.i \div ES) \in Sectors
         /\ l.i = (l.i \div ES) * ES + (l.i % ES)
<1> DEFINE q == l.i \div ES
           s == Sector(l.c, q)
<1>1. l.c \in Data /\ l.i \in Nat /\ l.i \in 0 .. SPC * ES - 1
  BY DEF LocSet, Slots, Starts
<1>2. q \in Nat /\ q * ES <= l.i /\ l.i % ES \in 0 .. ES - 1
  BY <1>1, Sizes, Divided
<1>3. q * ES < SPC * ES
  <2>1. q * ES \in Int /\ SPC * ES \in Int
    BY <1>2, Sizes
  <2> QED BY <1>1, <1>2, <2>1
<1>4. q < SPC
  BY <1>2, <1>3, Sizes, Multiples
<1>5. s \in Sectors
  <2> HIDE DEF q
  <2> DEFINE b == l.c - 2
  <2>1. b \in 0 .. Clusters - 1
    BY <1>1, Sizes
  <2> HIDE DEF b
  <2>2. s = b * SPC + q
    BY DEF Sector, b
  <2>3. b * SPC <= (Clusters - 1) * SPC /\ b * SPC \in Nat
    BY <2>1, Sizes, Multiples
  <2>4. (Clusters - 1) * SPC = Clusters * SPC - SPC /\ Clusters * SPC \in Nat
    BY Sizes
  <2>5. s \in 0 .. Clusters * SPC - 1
    BY <1>2, <1>4, <2>2, <2>3, <2>4, Sizes
  <2> QED BY <2>5 DEF Sectors
<1>6. l.i = q * ES + (l.i % ES)
  <2> DEFINE i == l.i
             n == ES
  <2>1. i \in Nat /\ n \in Nat \ {0}
    BY <1>1, Sizes
  <2> HIDE DEF i, n
  <2>2. i = (i \div n) * n + (i % n)
    BY <2>1
  <2> QED BY <2>2 DEF i, n
<1>7. q \in 0 .. SPC - 1
  BY <1>2, <1>4, Sizes
<1> QED BY <1>1, <1>2, <1>5, <1>6, <1>7

\* A sector is in one cluster.
LEMMA OneSector ==
  ASSUME NEW c \in Data, NEW d \in Data, NEW p \in 0 .. SPC - 1, NEW q \in 0 .. SPC - 1,
         Sector(c, p) = Sector(d, q)
  PROVE  c = d /\ p = q
<1> DEFINE a == c - 2
           b == d - 2
<1>1. a \in Nat /\ b \in Nat /\ SPC \in Nat \ {0}
  BY Sizes
<1>2. a * SPC + p = b * SPC + q
  BY DEF Sector
<1> DEFINE v == a * SPC
           w == b * SPC
<1>3. v \in Nat /\ w \in Nat /\ v + p = w + q
  BY <1>1, <1>2
<1>4. a = b
  <2>1. v < w + SPC /\ w < v + SPC
    <3> HIDE DEF v, w
    <3> QED BY <1>1, <1>3
  <2>2. a * SPC < b * SPC + SPC /\ b * SPC < a * SPC + SPC
    BY <2>1
  <2> HIDE DEF a, b
  <2>3. a <= b /\ b <= a
    BY <1>1, <2>2, Multiples
  <2> QED BY <1>1, <2>3
<1>5. c = d
  BY <1>4, Sizes
<1>6. v = w
  BY <1>4
<1> HIDE DEF v, w
<1> QED BY <1>3, <1>5, <1>6

\* A place is in one sector.
LEMMA OnePlaceOnDisk ==
  ASSUME NEW l \in LocSet, NEW m \in LocSet, l.c # Root, m.c # Root,
         Sector(l.c, l.i \div ES) = Sector(m.c, m.i \div ES), l.i % ES = m.i % ES
  PROVE  l = m
<1> DEFINE p == l.i \div ES
           q == m.i \div ES
<1>1. /\ l.c \in Data /\ m.c \in Data /\ p \in 0 .. SPC - 1 /\ q \in 0 .. SPC - 1
      /\ l.i = p * ES + (l.i % ES) /\ m.i = q * ES + (m.i % ES)
  BY PlaceParts
<1>2. l.c = m.c /\ p = q
  <2> HIDE DEF p, q
  <2>1. Sector(l.c, p) = Sector(m.c, q)
    BY DEF p, q
  <2> QED BY <1>1, <2>1, OneSector
<1>3. l.i = m.i
  <2> HIDE DEF p, q
  <2> QED BY <1>1, <1>2
<1> QED BY <1>2, <1>3 DEF LocSet

\* A write that changes no entry.
LEMMA SameEntries ==
  ASSUME root' = root, \A s \in Sectors : sector'[s].entries = sector[s].entries
  PROVE  Es' = Es
<1>1. ASSUME NEW l \in LocSet PROVE Entry(l)' = Entry(l)
  <2>1. CASE l.c = Root
    BY <2>1 DEF Entry
  <2>2. CASE l.c # Root
    <3>1. Sector(l.c, l.i \div ES) \in Sectors
      BY <2>2, PlaceParts
    <3> DEFINE s == Sector(l.c, l.i \div ES)
    <3>2. Entry(l) = sector[s].entries[l.i % ES] /\ Entry(l)' = sector'[s].entries[l.i % ES]
      BY <2>2 DEF Entry
    <3> HIDE DEF s
    <3>3. s \in Sectors
      BY <3>1 DEF s
    <3> QED BY <3>2, <3>3
  <2> QED BY <2>1, <2>2
<1>2. Es = [l \in LocSet |-> Entry(l)] /\ Es' = [l \in LocSet |-> Entry(l)']
  BY DEF Es
<1> QED BY <1>1, <1>2

\* The write behind the tables changes no entry.
LEMMA StrayKeeps ==
  ASSUME DiskHas, StrayWrite
  PROVE  Es' = Es /\ fat1' = fat1
<1>1. root' = root /\ fat1' = fat1
  BY DEF StrayWrite
<1>2. PICK t \in {"fat1", "fat2"} :
        sector' = IF Beyond[t] \in Sectors
                    THEN [sector EXCEPT ![Beyond[t]].units[SU - 1] = Zero] ELSE sector
  BY DEF StrayWrite
<1>3. ASSUME NEW s \in Sectors PROVE sector'[s].entries = sector[s].entries
  <2>1. CASE Beyond[t] \notin Sectors
    BY <1>2, <2>1
  <2>2. CASE Beyond[t] \in Sectors /\ s # Beyond[t]
    <3>1. sector'[s] = sector[s]
      BY <1>2, <2>2 DEF DiskHas
    <3> QED BY <3>1
  <2>3. CASE Beyond[t] \in Sectors /\ s = Beyond[t]
    <3>1. sector'[s] = [sector[s] EXCEPT !.units[SU - 1] = Zero]
      BY <1>2, <2>3 DEF DiskHas
    <3>2. sector[s] \in SectorSet
      BY DEF DiskHas
    <3> QED BY <3>1, <3>2 DEF SectorSet
  <2> QED BY <2>1, <2>2, <2>3
<1> QED BY <1>1, <1>3, SameEntries

EsTyped == Es \in Entries

\* It is said of a state, so that it can be said of the next one.
LEMMA EsNow == DiskHas => EsTyped
BY EsHas DEF EsTyped

LEMMA EsType == DiskHas' => EsTyped'
BY EsNow, PTL

\* A write of an entry changes that entry.
LEMMA EntryWritten ==
  ASSUME DiskHas, DiskHas', NEW loc \in LocSet, NEW e, fat1' = fat1,
         IF loc.c = Root
           THEN root' = [root EXCEPT ![loc.i] = e] /\ sector' = sector
           ELSE /\ sector' = [sector EXCEPT
                      ![Sector(loc.c, loc.i \div ES)].entries[loc.i % ES] = e]
                /\ root' = root
  PROVE  OneEntry(Es, Es', loc) /\ Es'[loc] = e
<1>1. /\ Es = [l \in LocSet |-> Entry(l)] /\ Es' = [l \in LocSet |-> Entry(l)']
      /\ Es' \in Entries
  <2>1. Es' \in Entries
    BY EsType DEF EsTyped
  <2> QED BY <2>1 DEF Es
<1>2. CASE loc.c = Root
  <2>1. loc.i \in Slots(Root) /\ DOMAIN root = Slots(Root)
    BY <1>2 DEF LocSet, DiskHas
  <2>2. root' = [root EXCEPT ![loc.i] = e] /\ sector' = sector
    BY <1>2
  <2>3. Entry(loc)' = e
    BY <1>2, <2>1, <2>2 DEF Entry
  <2>4. ASSUME NEW l \in LocSet, l # loc PROVE Entry(l)' = Entry(l)
    <3>1. CASE l.c = Root
      <4>1. l.i # loc.i /\ l.i \in Slots(Root)
        BY <1>2, <2>4, <3>1 DEF LocSet
      <4> QED BY <2>1, <2>2, <3>1, <4>1 DEF Entry
    <3>2. CASE l.c # Root
      BY <2>2, <3>2 DEF Entry
    <3> QED BY <3>1, <3>2
  <2> QED BY <1>1, <2>3, <2>4 DEF OneEntry
<1>3. CASE loc.c # Root
  <2> DEFINE s == Sector(loc.c, loc.i \div ES)
             k == loc.i % ES
  <2>1. s \in Sectors /\ k \in 0 .. ES - 1
    BY <1>3, PlaceParts
  <2>2. sector' = [sector EXCEPT ![s].entries[k] = e] /\ root' = root
    BY <1>3
  <2> HIDE DEF s, k
  <2>3. /\ sector'[s].entries = [sector[s].entries EXCEPT ![k] = e]
        /\ \A x \in Sectors : x # s => sector'[x] = sector[x]
        /\ sector[s].entries \in [0 .. ES - 1 -> EntrySet]
    <3>1. sector \in [Sectors -> SectorSet] /\ sector[s] \in SectorSet
      BY <2>1 DEF DiskHas
    <3>2. sector'[s] = [sector[s] EXCEPT !.entries[k] = e]
      BY <2>1, <2>2, <3>1
    <3> QED BY <2>1, <2>2, <3>1, <3>2 DEF SectorSet
  <2>4. Entry(loc)' = e
    <3>1. Entry(loc)' = sector'[s].entries[k]
      BY <1>3 DEF Entry, s, k
    <3> QED BY <2>1, <2>3, <3>1
  <2>5. ASSUME NEW l \in LocSet, l # loc PROVE Entry(l)' = Entry(l)
    <3>1. CASE l.c = Root
      BY <2>2, <3>1 DEF Entry
    <3>2. CASE l.c # Root
      <4> DEFINE x == Sector(l.c, l.i \div ES)
                 j == l.i % ES
      <4>1. x \in Sectors /\ j \in 0 .. ES - 1
        BY <3>2, PlaceParts
      <4>2. Entry(l)' = sector'[x].entries[j] /\ Entry(l) = sector[x].entries[j]
        BY <3>2 DEF Entry
      <4>3. x # s \/ j # k
        BY <1>3, <2>5, <3>2, OnePlaceOnDisk DEF s, k
      <4> HIDE DEF x, j
      <4> QED BY <2>1, <2>3, <4>1, <4>2, <4>3
    <3> QED BY <3>1, <3>2
  <2> QED BY <1>1, <2>4, <2>5 DEF OneEntry
<1> QED BY <1>2, <1>3

\* A write of a sector changes the entries that are in it.
LEMMA SectorWritten ==
  ASSUME DiskHas, NEW s, NEW x, root' = root,
         sector' = IF s \in Sectors THEN [sector EXCEPT ![s] = x] ELSE sector
  PROVE  \A l \in LocSet :
           Es'[l] = IF l.c # Root /\ Sector(l.c, l.i \div ES) = s
                      THEN x.entries[l.i % ES] ELSE Es[l]
<1> TAKE l \in LocSet
<1>1. Es[l] = Entry(l) /\ Es'[l] = Entry(l)'
  BY DEF Es
<1>2. CASE l.c = Root
  BY <1>1, <1>2 DEF Entry
<1>3. CASE l.c # Root
  <2> DEFINE z == Sector(l.c, l.i \div ES)
  <2>1. z \in Sectors
    BY <1>3, PlaceParts
  <2>2. Entry(l)' = sector'[z].entries[l.i % ES] /\ Entry(l) = sector[z].entries[l.i % ES]
    BY <1>3 DEF Entry
  <2> HIDE DEF z
  <2>3. sector'[z] = IF z = s THEN x ELSE sector[z]
    BY <2>1 DEF DiskHas
  <2> QED BY <1>1, <1>3, <2>2, <2>3 DEF z
<1> QED BY <1>2, <1>3
=============================================================================
