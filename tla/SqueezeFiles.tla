---------------------------- MODULE SqueezeFiles ----------------------------
(***************************************************************************)
(* Which files sq1.c and usq1.c read and write: their arguments, the walk   *)
(* over the directory for a name with wildcards, which goes on while the    *)
(* files it makes enter that directory, and the names of the output files.  *)
(* What a file holds is an id, or what was squeezed and the name in the     *)
(* head; the translation itself is module Squeeze.  A name is its letters,  *)
(* no more than FNM_LEN, as a directory of FLOS has them.                   *)
(***************************************************************************)
EXTENDS Integers, Sequences, FiniteSets, SequencesExt

CONSTANTS
  DirSlots,     \* entries of the directory
  SqzDirs,      \* the directories at the start: sequences of names, <<>> for a free entry
  SqzPatterns,  \* names that are typed, with ? and * in them or not
  Counts,       \* counts given in the option of usq, 0 for one that is no number
  DiskFull,     \* whether the disk is full when a file is written: a subset of BOOLEAN
  SqzCommands   \* bound: arguments given, in all runs of the programs

VARIABLE sqz

Free == [name |-> <<>>, data |-> [is |-> "free"]]
LostData == [is |-> "lost"]

-----------------------------------------------------------------------------
(* Names *)

\* Behind the first dot, or nothing.
PastDot(s) == LET d == {k \in DOMAIN s : s[k] = "."}
              IN IF d = {} THEN <<>> ELSE SubSeq(s, 1 + CHOOSE k \in d : \A j \in d : k <= j, Len(s))

RECURSIVE wildmatch(_, _)
wildmatch(wildnam, filnam) ==
  IF wildnam = <<>> THEN filnam = <<>>
  ELSE IF Head(wildnam) = "*" THEN wildmatch(PastDot(Tail(wildnam)), PastDot(filnam))
  ELSE /\ filnam # <<>>
       /\ IF Head(wildnam) = "?" THEN Head(filnam) # "." ELSE Head(filnam) = Head(wildnam)
       /\ wildmatch(Tail(wildnam), Tail(filnam))

Ambiguous(p) == \E k \in DOMAIN p : p[k] \in {"*", "?"}

\* obey of sq1.c: the suffix .SQ, or Q for the second letter of the one there is.
SqueezedName(p) ==
  LET dots == {k \in DOMAIN p : p[k] = "."}
      d == CHOOSE k \in dots : \A j \in dots : j <= k
  IN IF dots = {} THEN p \o <<".", "S", "Q">>
     ELSE CASE d = Len(p) -> p \o <<"S", "Q">>
            [] d = Len(p) - 1 -> Append(p, "Q")
            [] OTHER -> [p EXCEPT ![d + 2] = "Q"]

-----------------------------------------------------------------------------
(* The directory.  Opening a file with "wb" erases the one of this name and *)
(* takes the first free entry; there may be none.                           *)

SlotsOf(dir, n) == {k \in DOMAIN dir : dir[k].name = n}
SlotOf(dir, n) == CHOOSE k \in SlotsOf(dir, n) : \A j \in SlotsOf(dir, n) : k <= j
Exists(dir, n) == n # <<>> /\ SlotsOf(dir, n) # {}
Erased(dir, n) == [k \in DOMAIN dir |-> IF dir[k].name = n THEN Free ELSE dir[k]]

Written(s, n, data) ==
  LET d == Erased(s.dir, n)
  IN [s EXCEPT !.dir = IF SlotsOf(d, <<>>) = {} THEN d
                       ELSE [d EXCEPT ![SlotOf(d, <<>>)] = [name |-> n, data |-> data]]]

\* A slip: the head has the name of the squeezed file.
SqueezeOwnName(s, p, full) ==
  LET out == SqueezedName(p)
  IN IF ~Exists(s.dir, p) THEN s
     ELSE Written(s, out, IF out = p \/ full THEN LostData
                          ELSE [is |-> "squeezed", of |-> s.dir[SlotOf(s.dir, p)].data, head |-> out])

\* squeeze: the input is open while the output erases a file of its name, which
\* may be the input itself.  A full disk ends the program.
SqueezeFile(s, p, full) ==
  LET out == SqueezedName(p)
      s1 == Written(s, out, IF out = p \/ full THEN LostData
                            ELSE [is |-> "squeezed", of |-> s.dir[SlotOf(s.dir, p)].data, head |-> p])
  IN IF ~Exists(s.dir, p) THEN s
     ELSE IF full /\ Exists(s1.dir, out) THEN [s1 EXCEPT !.at = "exit"] ELSE s1

\* unsqueeze: to the name in the head, whatever is there; not for a preview.  A
\* full disk is a message.
UnsqueezeFile(s, p, full) ==
  LET f == s.dir[SlotOf(s.dir, p)].data
  IN IF ~Exists(s.dir, p) \/ f.is # "squeezed" \/ s.dispcnt # 0 THEN s
     ELSE Written(s, f.head, IF full THEN LostData ELSE f.of)

OneFile(s, p, full) == IF s.program = "sq" THEN SqueezeFile(s, p, full) ELSE UnsqueezeFile(s, p, full)

\* dir_move_first and dir_move_next: the first entry in use from k on; past the end, the walk ends.
MoveTo(s, k) ==
  LET used == {j \in k .. DirSlots : s.dir[j] # Free}
  IN IF s.at = "exit" THEN s
     ELSE IF used = {} THEN [s EXCEPT !.at = "args", !.cursor = 0]
     ELSE [s EXCEPT !.at = "walk", !.cursor = CHOOSE j \in used : \A i \in used : j <= i]

-----------------------------------------------------------------------------
NameIds(names) == [k \in 1 .. DirSlots |->
  IF k \in DOMAIN names /\ names[k] # <<>> THEN [name |-> names[k], data |-> [is |-> "plain", id |-> names[k]]] ELSE Free]

SqzStart(names) == [dir |-> NameIds(names), program |-> "sq", at |-> "exit", dispcnt |-> 0, pattern |-> <<>>,
                    cursor |-> 0, given |-> 0, first |-> names]

SqzInit == \E names \in SqzDirs : sqz = SqzStart(names)

\* main, once more: the option of an earlier run is forgotten.
RunOf(program) ==
  /\ sqz.at \in {"args", "exit"} /\ sqz.given < SqzCommands
  /\ sqz' = [sqz EXCEPT !.program = program, !.at = "args", !.dispcnt = 0]

\* An option of usq; one of sq shows more messages.
Option(n) ==
  /\ sqz.at = "args" /\ sqz.program = "usq" /\ sqz.given < SqzCommands
  /\ sqz' = [sqz EXCEPT !.dispcnt = n, !.given = @ + 1]

obey(p, full) ==
  /\ sqz.at = "args" /\ sqz.given < SqzCommands
  /\ LET s == [sqz EXCEPT !.given = @ + 1]
     IN sqz' = IF Ambiguous(p) THEN MoveTo([s EXCEPT !.pattern = p], 1) ELSE OneFile(s, p, full)

\* One entry of the walk; the file it makes may be an entry still to come.
WalkOn(full) ==
  /\ sqz.at = "walk"
  /\ LET n == sqz.dir[sqz.cursor].name
         s == IF wildmatch(sqz.pattern, n) THEN OneFile(sqz, n, full) ELSE sqz
     IN sqz' = MoveTo(s, s.cursor + 1)

SqzNext ==
  \/ \E program \in {"sq", "usq"} : RunOf(program)
  \/ \E n \in Counts : Option(n)
  \/ \E p \in SqzPatterns, full \in DiskFull : obey(p, full)
  \/ \E full \in DiskFull : WalkOn(full)

SqzSpec == SqzInit /\ [][SqzNext]_sqz /\ WF_sqz(\E full \in DiskFull : WalkOn(full))

-----------------------------------------------------------------------------
\* What was in a file is, as long as it is plain, under the name it always had,
\* and squeezed under the name made from that, which its head still tells: no
\* order of the two programs gives one file the contents of another.
DataKeepsItsName ==
  \A k \in DOMAIN sqz.dir :
    LET f == sqz.dir[k]
    IN /\ f.data.is = "plain" => f.data.id = f.name
       /\ f.data.is = "squeezed" => /\ f.data.of.is # "squeezed"
                                    /\ f.data.of.is = "plain" => f.data.of.id = f.data.head
                                    /\ f.name = SqueezedName(f.data.head)

\* A walk comes to its end, although the files it makes enter the directory it
\* walks, and one that is erased and made again may enter it further on.
WalkEnds == (sqz.at = "walk") ~> (sqz.at # "walk")

Inner(data) == IF data.is = "squeezed" THEN data.of ELSE data

\* sq1.c, 2: "This program compresses a file without loosing information": what
\* was in a file at the start is in some file, plain or squeezed.
NothingLost ==
  \A k \in DOMAIN sqz.first : sqz.first[k] # <<>> =>
    \E j \in DOMAIN sqz.dir : Inner(sqz.dir[j].data) = [is |-> "plain", id |-> sqz.first[k]]
=============================================================================
