----------------------------- MODULE FileStore ------------------------------
(***************************************************************************)
(* What the disk calls of the kernal promise a program: a tree of files    *)
(* and directories, and calls that either do all of their work or report   *)
(* an error and leave the tree alone.  The one exception is a write that   *)
(* fails half way (the disk or the memory ends): the file it was writing   *)
(* keeps its name, and nothing is promised of its contents.                *)
(***************************************************************************)
EXTENDS Naturals, Sequences, SequencesExt

CONSTANTS Names, AppendData

VARIABLES tree,   \* the nodes, each with its path and, for a file, its data
          cwd,    \* path of the current directory
          done    \* the last call and what it returned

fvars == <<tree, cwd, done>>

Dir(p)     == [path |-> p, dir |-> TRUE, data |-> <<>>]
File(p, d) == [path |-> p, dir |-> FALSE, data |-> d]

At(n)     == Append(cwd, n)
Node(n)   == {f \in tree : f.path = At(n)}
Exists(n) == Node(n) # {}
IsDir(n)  == \E f \in Node(n) : f.dir
IsFile(n) == \E f \in Node(n) : ~f.dir
Data(n)   == (CHOOSE f \in Node(n) : TRUE).data
Under(n)  == {f \in tree : IsStrictPrefix(At(n), f.path)}

Returns(op, n, new, data, err, out) ==
  done' = [req |-> [op |-> op, name |-> n, new |-> new, data |-> data],
           err |-> err, out |-> out]

Init == tree = {} /\ cwd = <<>>
        /\ done = [req |-> [op |-> "none", name |-> "", new |-> "", data |-> <<>>],
                   err |-> 0, out |-> <<>>]

\* The result of a call is forgotten.
Forget ==
  /\ Returns("none", "", "", <<>>, 0, <<>>)
  /\ UNCHANGED <<tree, cwd>>

Create(n) ==
  /\ UNCHANGED cwd
  /\ \/ ~Exists(n) /\ tree' = tree \cup {File(At(n), <<>>)} /\ Returns("create", n, "", <<>>, 0, <<>>)
     \/ /\ Exists(n) /\ UNCHANGED tree /\ Returns("create", n, "", <<>>, 9, <<>>)
     \/ /\ ~Exists(n) /\ UNCHANGED tree
        /\ \E err \in {1, 3} : Returns("create", n, "", <<>>, err, <<>>)

MakeDir(n) ==
  /\ UNCHANGED cwd
  /\ \/ ~Exists(n) /\ tree' = tree \cup {Dir(At(n))} /\ Returns("mkdir", n, "", <<>>, 0, <<>>)
     \/ Exists(n) /\ UNCHANGED tree /\ Returns("mkdir", n, "", <<>>, 9, <<>>)
     \/ /\ ~Exists(n) /\ UNCHANGED tree
        /\ \E err \in {1, 3} : Returns("mkdir", n, "", <<>>, err, <<>>)

Delete(op, n) ==
  /\ tree' = tree \ Node(n)
  /\ Returns(op, n, "", <<>>, 0, <<>>)

Erase(n) ==
  /\ UNCHANGED cwd
  /\ \/ IsFile(n) /\ Delete("erase", n)
     \/ ~Exists(n) /\ UNCHANGED tree /\ Returns("erase", n, "", <<>>, 2, <<>>)
     \/ IsDir(n) /\ UNCHANGED tree /\ Returns("erase", n, "", <<>>, 6, <<>>)

DeleteDir(n) ==
  /\ UNCHANGED cwd
  /\ \/ IsDir(n) /\ Under(n) = {} /\ Delete("rmdir", n)
     \/ IsDir(n) /\ Under(n) # {} /\ UNCHANGED tree /\ Returns("rmdir", n, "", <<>>, 5, <<>>)
     \/ IsFile(n) /\ UNCHANGED tree /\ Returns("rmdir", n, "", <<>>, 4, <<>>)
     \/ ~Exists(n) /\ UNCHANGED tree /\ Returns("rmdir", n, "", <<>>, 35, <<>>)

(* A directory takes everything in it along.                               *)
Renamed(f, n, new) ==
  IF f \in Node(n) \cup Under(n)
    THEN [f EXCEPT !.path = At(new) \o SubSeq(@, Len(cwd) + 2, Len(@))] ELSE f

Rename(n, new) ==
  /\ UNCHANGED cwd
  /\ \/ /\ Exists(n) /\ ~Exists(new)
        /\ tree' = {Renamed(f, n, new) : f \in tree}
        /\ Returns("rename", n, new, <<>>, 0, <<>>)
     \/ Exists(new) /\ UNCHANGED tree /\ Returns("rename", n, new, <<>>, 9, <<>>)
     \/ /\ ~Exists(n) /\ ~Exists(new) /\ UNCHANGED tree
        /\ Returns("rename", n, new, <<>>, 2, <<>>)

AppendTo(n, data) ==
  /\ UNCHANGED cwd
  /\ \/ /\ IsFile(n) /\ data # <<>>
        /\ tree' = (tree \ Node(n)) \cup {File(At(n), Data(n) \o data)}
        /\ Returns("append", n, "", data, 0, <<>>)
     \/ /\ IsFile(n) /\ data # <<>>
        /\ \E f \in tree' :
             f.path = At(n) /\ ~f.dir /\ tree' = (tree \ Node(n)) \cup {f}
        /\ \E err \in {1, 8} : Returns("append", n, "", data, err, <<>>)
     \/ data = <<>> /\ UNCHANGED tree /\ Returns("append", n, "", data, 7, <<>>)
     \/ ~Exists(n) /\ UNCHANGED tree /\ Returns("append", n, "", data, 2, <<>>)
     \/ IsDir(n) /\ UNCHANGED tree /\ Returns("append", n, "", data, 6, <<>>)

Load(n) ==
  /\ UNCHANGED <<tree, cwd>>
  /\ \/ IsFile(n) /\ Data(n) # <<>> /\ Returns("load", n, "", <<>>, 0, Data(n))
     \/ IsFile(n) /\ Data(n) = <<>> /\ Returns("load", n, "", <<>>, 7, <<>>)
     \/ IsFile(n) /\ Data(n) = <<"damaged">> /\ Returns("load", n, "", <<>>, 27, <<>>)
     \/ ~Exists(n) /\ Returns("load", n, "", <<>>, 2, <<>>)
     \/ IsDir(n) /\ Returns("load", n, "", <<>>, 6, <<>>)

ChangeDir(n) ==
  /\ UNCHANGED tree
  /\ \/ IsDir(n) /\ cwd' = At(n) /\ Returns("chdir", n, "", <<>>, 0, <<>>)
     \/ IsFile(n) /\ UNCHANGED cwd /\ Returns("chdir", n, "", <<>>, 4, <<>>)
     \/ ~Exists(n) /\ UNCHANGED cwd /\ Returns("chdir", n, "", <<>>, 35, <<>>)

ParentDir ==
  /\ UNCHANGED tree
  /\ \/ /\ cwd # <<>> /\ cwd' = SubSeq(cwd, 1, Len(cwd) - 1)
        /\ Returns("parent", "..", "", <<>>, 0, <<>>)
     \/ cwd = <<>> /\ UNCHANGED cwd /\ Returns("parent", "..", "", <<>>, 10, <<>>)

RootDir ==
  UNCHANGED tree /\ cwd' = <<>> /\ Returns("root", "", "", <<>>, 0, <<>>)

(* The device fails during a call: the nodes the call is not about are     *)
(* still there.                                                            *)
HardwareError(op, n, new, data) ==
  /\ UNCHANGED cwd
  /\ {f \in tree : ~IsPrefix(At(n), f.path) /\ ~IsPrefix(At(new), f.path)} \subseteq tree'
  /\ Returns(op, n, new, data, 255, <<>>)

Next ==
  \/ Forget \/ ParentDir \/ RootDir
  \/ \E n \in Names :
       \/ Create(n) \/ MakeDir(n) \/ Erase(n) \/ DeleteDir(n) \/ Load(n) \/ ChangeDir(n)
       \/ \E new \in Names : Rename(n, new) \/ HardwareError("rename", n, new, <<>>)
       \/ \E data \in AppendData : AppendTo(n, data) \/ HardwareError("append", n, "", data)
       \/ \E op \in {"create", "mkdir", "erase", "rmdir"} : HardwareError(op, n, "", <<>>)

Spec == Init /\ [][Next]_fvars
=============================================================================
