------------------------------ MODULE BulkFile ------------------------------
(***************************************************************************)
(* The data file of the C programs (c_support/base_lib/resource.c) and the  *)
(* chunk loader of PONG (src/pong/disk_io.c, background.c, sprites.c).      *)
(* All the files of a program stand one after the other behind an index; a  *)
(* file is read through a buffer of one chunk, and the whole buffer is      *)
(* copied to video or sprite memory each time, the tail of an earlier chunk *)
(* with it.                                                                 *)
(* A byte is <<file, offset>>.                                              *)
(***************************************************************************)
EXTENDS Integers, Sequences

CONSTANTS
  Index,     \* the files of the bulk file: a sequence of [name, size]
  IndexSize, \* length of the index in bytes
  Entries,   \* INDEX_AREA_MAX_FILES, entry 0 included
  Chunk,     \* 0x1000
  Loads      \* what the data loader may load: a set of [name, at], at in memory

VARIABLE bulk

ASSUME BulkAssumption ==
  /\ {IndexSize, Entries, Chunk} \subseteq Nat \ {0}
  /\ Len(Index) \in Nat /\ DOMAIN Index = 1 .. Len(Index)
  /\ \A i \in DOMAIN Index : Index[i].size \in Nat
  /\ \A l \in Loads : l.at \in Nat

FileNames == {Index[i].name : i \in DOMAIN Index}
SizeOf(n) == Index[CHOOSE i \in DOMAIN Index : Index[i].name = n].size
NoByte == <<"none", 0>>

-----------------------------------------------------------------------------
(* resource.c *)

\* A slip: the file itself is counted with what lies before it.
EntryOffsetPast(n) ==
  LET sum[i \in 0..Len(Index)] == IF i = 0 THEN 0 ELSE sum[i - 1] + Index[i].size
      at == {i \in DOMAIN Index : i < Entries /\ Index[i].name = n}
  IN IF at = {} THEN -1 ELSE sum[CHOOSE i \in at : TRUE]

\* Where the file starts behind the index; -1 when the index, searched from
\* entry 1 to the last it has room for, does not name it.
EntryOffset(n) ==
  LET sum[i \in 0..Len(Index)] == IF i = 0 THEN 0 ELSE sum[i - 1] + Index[i].size
      at == {i \in DOMAIN Index : i < Entries /\ Index[i].name = n}
  IN IF at = {} THEN -1 ELSE sum[(CHOOSE i \in at : \A j \in at : i <= j) - 1]

\* The bytes of the bulk file, as the program that made it wrote them.
BulkByte(p) ==
  LET start[i \in 1..(Len(Index) + 1)] ==
        IF i = 1 THEN IndexSize ELSE start[i - 1] + Index[i - 1].size
      in == {i \in DOMAIN Index : start[i] <= p /\ p < start[i + 1]}
  IN IF in = {} THEN NoByte
     ELSE LET i == CHOOSE i \in in : TRUE IN <<Index[i].name, p - start[i]>>

\* len bytes of the file from off, put at the start of buf.
Resource_LoadFileToBuffer(n, off, len, buf) ==
  [i \in DOMAIN buf |->
     IF i < len THEN BulkByte(IndexSize + EntryOffset(n) + off + i) ELSE buf[i]]

-----------------------------------------------------------------------------
(* disk_io.c, background.c, sprites.c *)

EmptyBuffer == [i \in 0..(Chunk - 1) |-> NoByte]

BulkInit == bulk = [name |-> "none", at |-> 0, off |-> 0, size |-> 0, buf |-> EmptyBuffer,
                    mem |-> [a \in {} |-> NoByte], whole |-> {}]

\* ChunkLoader_Init: a file the index does not name is an error of the loader.
\* The file loaded at the same place before is given up.
ChunkLoader_Init(l) ==
  /\ bulk.name = "none" /\ EntryOffset(l.name) # -1
  /\ bulk' = [bulk EXCEPT !.name = l.name, !.at = l.at, !.off = 0, !.size = SizeOf(l.name),
                           !.whole = @ \ {k.name : k \in {k \in Loads : k.at = l.at}}]

NumBytes(off, size) == IF off + Chunk < size THEN Chunk ELSE size - off

\* ChunkLoader_LoadChunk and the copy of Background_LoadTiles or Sprites_LoadSprites.
LoadChunk ==
  /\ bulk.name # "none" /\ bulk.off < bulk.size
  /\ LET n   == NumBytes(bulk.off, bulk.size)
         buf == Resource_LoadFileToBuffer(bulk.name, bulk.off, n, bulk.buf)
         to  == bulk.at..(bulk.at + Chunk - 1)
     IN bulk' = [bulk EXCEPT !.off = @ + n, !.buf = buf, !.at = @ + Chunk,
                             !.mem = [a \in DOMAIN @ \cup to |->
                                        IF a \in to THEN buf[a - bulk.at] ELSE @[a]]]

ChunkLoader_IsDone ==
  /\ bulk.name # "none" /\ bulk.off >= bulk.size
  /\ bulk' = [bulk EXCEPT !.name = "none", !.whole = @ \cup {bulk.name}]

BulkNext == (\E l \in Loads : ChunkLoader_Init(l)) \/ LoadChunk \/ ChunkLoader_IsDone

BulkSpec == BulkInit /\ [][BulkNext]_bulk

-----------------------------------------------------------------------------
(* Properties *)

\* A file that has been loaded stands whole in memory, whatever was loaded
\* before or after it: the offset in the bulk file is that of the file, and
\* the last chunk, which is copied whole, does not reach the next file's place.
LoadedFilesIntact ==
  \A l \in Loads : l.name \in bulk.whole =>
    \A i \in 0..(SizeOf(l.name) - 1) : bulk.mem[l.at + i] = <<l.name, i>>
=============================================================================
