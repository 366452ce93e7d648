------------------------------- MODULE Stdio --------------------------------
(***************************************************************************)
(* Standard files of the C programs (Contributions/Valen/c_programs,        *)
(* c_support/stdio_v6z80p) over the one open file of FLOS: the position a   *)
(* stream keeps for itself beside the pointer, the length and the place in  *)
(* the cluster chain that the FAT16 driver keeps, and which every other     *)
(* disk call of the program disturbs.                                       *)
(* A byte is a number that names it; a file is a sequence of bytes.         *)
(***************************************************************************)
EXTENDS Integers, Sequences, FiniteSets

CONSTANTS
  Names,     \* file names
  Contents,  \* what is on the disk at first: [Names -> sequences]; Absent for none
  Modes,     \* modes given to fopen: sequences of one letter strings
  Chunks,    \* what fwrite is given: a set of sequences
  Sizes,     \* how much fread is asked for
  Offsets,   \* how far fseek is asked to go
  MaxLength  \* bound: no write makes a file or the pointer of FLOS greater

VARIABLE io

Absent == <<-1>>
NoFile == "no file"
Lost == [file |-> NoFile, off |-> 0]

ASSUME StdioAssumption ==
  /\ Contents \in [Names -> Seq(Nat) \cup {Absent}] /\ NoFile \notin Names
  /\ Modes \subseteq Seq(STRING) \ {<<>>} /\ Chunks \subseteq Seq(Nat)
  /\ MaxLength \in Nat /\ Sizes \subseteq Nat /\ Offsets \subseteq Int

-----------------------------------------------------------------------------
(* The FAT16 driver, as far as these programs see it: f.file and f.len are  *)
(* set by opening, f.ptr is the pointer, f.at the place that a read goes on *)
(* from as long as f.valid holds.                                           *)

FileLength(w, n) == Len(w.disk[n])

\* fs_open_file_command
FindFile(w, n) ==
  [w EXCEPT !.f = [file |-> n, len |-> FileLength(w, n), ptr |-> 0, valid |-> FALSE, at |-> Lost]]

\* os_set_file_pointer
SetFilePointer(w, p) == [w EXCEPT !.f.ptr = p, !.f.valid = FALSE]

\* The byte a read delivers for its i-th: that of the place it goes on from.
ByteAt(w, at, i) ==
  IF at.file \in Names /\ w.disk[at.file] # Absent /\ at.off + i <= Len(w.disk[at.file])
  THEN w.disk[at.file][at.off + i] ELSE 0

\* os_force_load of n bytes: up to the end of the file, where it is an error to
\* be asked for more.  A card that fails delivers nothing that counts.
ForceLoad(w, n, works) ==
  LET from == IF w.f.valid THEN w.f.at ELSE [file |-> w.f.file, off |-> w.f.ptr]
      k    == IF w.f.ptr + n <= w.f.len THEN n ELSE IF w.f.ptr < w.f.len THEN w.f.len - w.f.ptr ELSE 0
      next == IF from = Lost THEN Lost ELSE [from EXCEPT !.off = @ + k]
  IN IF ~works THEN [w EXCEPT !.f.valid = TRUE, !.f.at = Lost, !.ok = FALSE, !.got = <<>>, !.from = 0]
     ELSE [w EXCEPT !.f.ptr = @ + k, !.f.valid = TRUE, !.f.at = next,
                    !.ok = (k = n), !.got = [i \in 1..k |-> ByteAt(w, from, i)]]

\* os_write_bytes_to_file appends.  It counts in the same variables as a read:
\* the length becomes that of the data, the pointer advances, the place is lost.
WriteBytes(w, n, data, works) ==
  IF ~works \/ w.disk[n] = Absent THEN [w EXCEPT !.ok = FALSE, !.f.at = Lost, !.f.len = Len(data)]
  ELSE [w EXCEPT !.disk[n] = @ \o data, !.ok = TRUE,
                 !.f.len = Len(data), !.f.ptr = @ + Len(data), !.f.at = Lost]

-----------------------------------------------------------------------------
(* sysapi.c *)

WRITE_BINARY == {"WRONLY", "CREAT", "TRUNC", "BINARY"}
READ_BINARY == {"BINARY"}

\* open: what the mode is good for; anything else opens nothing.  A file to be
\* written is erased before it is made, which may fail.
Open(w, n, flags, works) ==
  LET erased == [w EXCEPT !.disk[n] = Absent, !.f.at = Lost]
      made   == [erased EXCEPT !.disk[n] = <<>>]
  IN CASE WRITE_BINARY \subseteq flags -> IF works THEN [made EXCEPT !.ok = TRUE] ELSE [erased EXCEPT !.ok = FALSE]
       [] ~(WRITE_BINARY \subseteq flags) /\ READ_BINARY \subseteq flags /\ w.disk[n] # Absent ->
            [FindFile(w, n) EXCEPT !.ok = TRUE]
       [] OTHER -> [w EXCEPT !.ok = FALSE]

-----------------------------------------------------------------------------
(* stdio_v6z80p.c *)

BadMode == [flags |-> {"bad"}, stream |-> {}]

\* The first letter of a mode.
FirstLetter(c) ==
  CASE c = "r" -> [flags |-> {}, stream |-> {"RD"}]
    [] c = "w" -> [flags |-> {"WRONLY", "CREAT", "TRUNC"}, stream |-> {"WR"}]
    [] c = "a" -> [flags |-> {"WRONLY", "CREAT", "APPEND"}, stream |-> {"WR"}]
    [] OTHER -> BadMode

\* Each letter after it.
NextLetter(m, c) ==
  CASE c = "+" -> [flags |-> (m.flags \cup {"RDWR"}) \ {"WRONLY"}, stream |-> (m.stream \cup {"RW"}) \ {"RD", "WR"}]
    [] c = "t" -> [m EXCEPT !.flags = (@ \ {"BINARY"}) \cup {"TEXT"}]
    [] c = "b" -> [m EXCEPT !.flags = (@ \ {"TEXT"}) \cup {"BINARY"}]
    [] c \in {"c", "n", " "} -> m
    [] c \in {"S", "R", "T", "D"} -> [m EXCEPT !.flags = @ \cup {c}]
    [] OTHER -> BadMode

ModeOf(mode) ==
  LET after[i \in 1..Len(mode)] ==
        IF i = 1 THEN FirstLetter(mode[1])
        ELSE IF after[i - 1] = BadMode THEN BadMode ELSE NextLetter(after[i - 1], mode[i])
  IN after[Len(mode)]

FreshStream(n, m, size) ==
  [allocated |-> TRUE, name |-> n, pos |-> 0, size |-> size, flag |-> m.stream]

freeMemoryForFILE(w) == [w EXCEPT !.s.allocated = FALSE]

allocateMemoryForFILE(w) == [w EXCEPT !.s.allocated = TRUE]

\* open_file, with the slot allocated: the size is what opening found.
open_file(w, n, mode, works) ==
  LET m == ModeOf(mode)
      o == Open(w, n, m.flags, works)
  IN IF m = BadMode THEN [w EXCEPT !.ok = FALSE]
     ELSE IF ~o.ok THEN o
     ELSE [o EXCEPT !.s = FreshStream(n, m, IF WRITE_BINARY \subseteq m.flags THEN 0 ELSE o.f.len)]

\* fopen.  held: the program has a stream; clean: it has done nothing since
\* opening or seeking that moves what FLOS reads from; written: what it wrote.
fopen(w, n, mode, works) ==
  IF w.s.allocated THEN w
  ELSE LET o == open_file(allocateMemoryForFILE(w), n, mode, works)
       IN IF o.ok THEN [o EXCEPT !.held = "held", !.clean = TRUE, !.wrote = FALSE, !.written = <<>>,
                               !.got = <<>>, !.from = 0]
          ELSE [freeMemoryForFILE(o) EXCEPT !.held = "none", !.got = <<>>, !.from = 0]

\* fclose says EOF always.
fclose(w) == [freeMemoryForFILE(w) EXCEPT !.held = "none", !.got = <<>>, !.from = 0]

\* A slip: the position moves on at the end and after an error.
freadAsked(w, n, works) ==
  LET r == ForceLoad(w, n, works)
      asked == [r EXCEPT !.from = IF r.got = <<>> THEN 0 ELSE w.s.pos, !.clean = @ /\ works]
  IN [asked EXCEPT !.s.pos = @ + n]

\* fread of n bytes.  At the end the position stays where it was, and fread says
\* that it has read what lies behind it.
fread(w, n, works) ==
  LET r == ForceLoad(w, n, works)
      asked == [r EXCEPT !.from = IF r.got = <<>> THEN 0 ELSE w.s.pos, !.clean = @ /\ works]
  IN IF w.s.pos + n > w.s.size
     THEN [asked EXCEPT !.s.flag = @ \cup {"EOF"}]
     ELSE IF ~r.ok THEN [asked EXCEPT !.s.flag = @ \cup {"ERR"}]
     ELSE [asked EXCEPT !.s.pos = @ + n]

fwrite(w, data, works) ==
  LET r == [WriteBytes(w, w.s.name, data, works) EXCEPT !.clean = FALSE, !.wrote = TRUE, !.got = <<>>, !.from = 0]
  IN IF r.ok THEN [r EXCEPT !.s.pos = @ + Len(data), !.written = @ \o data]
     ELSE [r EXCEPT !.s.flag = @ \cup {"ERR"}]

\* The place fseek is asked for.
SeekTo(w, offset, whence) ==
  CASE whence = "SET" -> offset
    [] whence = "CUR" -> w.s.pos + offset
    [] whence = "END" -> w.s.size + offset

\* fseek: a place before the start is refused, when the end of file flag is gone.
fseek(w, offset, whence) ==
  LET to == SeekTo(w, offset, whence)
      c  == [w EXCEPT !.s.flag = (@ \ {"EOF"}) \ (IF "RW" \in @ THEN {"WR", "RD"} ELSE {}), !.got = <<>>, !.from = 0]
  IN IF to < 0 THEN c
     ELSE [SetFilePointer(c, to) EXCEPT !.s.pos = to, !.clean = ~w.wrote]

-----------------------------------------------------------------------------
(* A program *)

NoStream == [allocated |-> FALSE, name |-> NoFile, pos |-> 0, size |-> 0, flag |-> {}]

IoStart ==
  [disk |-> Contents, f |-> [file |-> NoFile, len |-> 0, ptr |-> 0, valid |-> FALSE, at |-> Lost],
   s |-> NoStream, ok |-> TRUE, got |-> <<>>, from |-> 0,
   held |-> "none", clean |-> TRUE, wrote |-> FALSE, written |-> <<>>]

IoInit == io = IoStart

IoOpen(n, mode, works) == io.held = "none" /\ io' = fopen(io, n, mode, works)

IoOpenSecond(n, mode) == io.held = "held" /\ io' = fopen(io, n, mode, TRUE)

IoClose == io.held = "held" /\ io' = fclose(io)

IoRead(n, works) ==
  /\ io.held = "held" /\ n > 0 /\ io.s.flag \cap {"WR"} = {}
  /\ io' = fread(io, n, works)

\* A stream of mode "a" or "w" is written, one with "+" is either.
IoWrite(data, works) ==
  /\ io.held = "held" /\ io.s.flag \cap {"RD"} = {} /\ io.disk[io.s.name] # Absent
  /\ Len(io.disk[io.s.name]) + Len(data) <= MaxLength /\ io.f.ptr + Len(data) <= MaxLength
  /\ io' = fwrite(io, data, works)

IoSeek(offset, whence) ==
  /\ io.held = "held" /\ SeekTo(io, offset, whence) <= MaxLength
  /\ io' = fseek(io, offset, whence)

\* Any other disk call of the program, a directory listed say: the driver's place
\* in the chain and its sector are used for it.
OtherDiskCall == io' = [io EXCEPT !.f.at = Lost, !.clean = FALSE, !.got = <<>>, !.from = 0]

IoNext ==
  \/ IoClose \/ OtherDiskCall
  \/ \E n \in Names, mode \in Modes : IoOpenSecond(n, mode)
  \/ \E offset \in Offsets, whence \in {"SET", "CUR", "END"} : IoSeek(offset, whence)
  \/ \E works \in BOOLEAN :
       \/ \E n \in Names, mode \in Modes : IoOpen(n, mode, works)
       \/ \E n \in Sizes : IoRead(n, works)
       \/ \E data \in Chunks : IoWrite(data, works)

IoSpec == IoInit /\ [][IoNext]_io

-----------------------------------------------------------------------------
(* Properties *)

\* The slot is taken exactly while the program has a stream: an fopen that fails,
\* for whatever reason, gives it back.
SlotFollowsProgram == io.s.allocated = (io.held = "held")

\* As long as a stream is read and not written and nothing failed, its size is
\* the length and its own position the pointer of FLOS, or behind it when a read
\* has met the end of the file, where the pointer is.
StreamFollowsFlos ==
  io.held = "held" /\ "RD" \in io.s.flag /\ "ERR" \notin io.s.flag =>
    /\ io.s.size = io.f.len
    /\ (io.s.pos = io.f.ptr \/ (io.s.pos < io.f.ptr /\ io.f.ptr = io.f.len))

\* What fread delivers are the bytes of the file behind the position it began at,
\* when the program made no other disk call and no read failed since it opened
\* the file or sought in it.
ReadsAreRight ==
  io.got # <<>> /\ io.clean /\ "ERR" \notin io.s.flag =>
    \A i \in DOMAIN io.got : io.from + i \in DOMAIN io.disk[io.s.name]
                              /\ io.got[i] = io.disk[io.s.name][io.from + i]

\* A file opened for writing holds all that was written to it since, in order,
\* wherever the program sought in between.
WritesAppend ==
  io.held = "held" /\ "WR" \in io.s.flag /\ io.s.size = 0 =>
    io.disk[io.s.name] = io.written

\* A stream is the file behind it: the library's own size and position, the
\* pointer FLOS keeps, the data read and written, and the slot all agree.
StreamSound == SlotFollowsProgram /\ StreamFollowsFlos /\ ReadsAreRight /\ WritesAppend
=============================================================================
