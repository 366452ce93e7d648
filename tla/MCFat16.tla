------------------------------ MODULE MCFat16 -------------------------------
(* Small volumes for TLC.                                                  *)
EXTENDS Fat16, TLC

\* The first table entry past both FATs is in an unused sector of the FATs:
\* a FAT of 256 sectors.
LargeFat == [t \in {"fat1", "fat2"} |-> -1]

\* A FAT of 129 sectors, as fs_format_device_command lays out: the entry that
\* would be in the second one is in the data area.
SmallFat == [t \in {"fat1", "fat2"} |-> IF t = "fat2" THEN 0 ELSE -1]

\* Appended data: one unit, nothing, or more than a cluster of two units.
One    == {<<"x">>}
None   == {<<>>}
Long   == {<<>>, <<"x", "y", "z">>}

\* One unit, and more than a sector of two.
Stretches == {<<"x">>, <<"x", "y", "z">>}

\* The names are interchangeable.
NameSymmetry == Permutations(Names)

\* "done" is only written: a step's effect on everything else, and the calls
\* the file store allows, do not depend on the result of the call before.
WithoutResult == <<disk, cur, pc, todo, r, req, files, cwd, failed>>
=============================================================================
