------------------------------- MODULE FsWalk -------------------------------
(***************************************************************************)
(* The file browser FS (Contributions/Valen/c_programs/src/fs), its older   *)
(* form FSWALK (Contributions/Daniel/fswalk_mod), and the loop of FLOS that *)
(* runs them, the command they leave behind and FS again after it           *)
(* (FLOS_command_launch_code.asm).                                          *)
(* The screen is the rows of the list: blank, part of a message box, or an  *)
(* item with or without the selection.  A step is a key and all its handler *)
(* does, up to the next wait for a key.                                     *)
(***************************************************************************)
EXTENDS Integers, Sequences

CONSTANTS
  Disk,        \* what the directories hold: [directory -> sequence of [name, dir]]
  Parent,      \* the parent of each directory; a root is its own
  NameLen,     \* the length of each directory's name
  Extension,   \* what follows the first dot of a file's name, if it has one
  CutNames,    \* names with a space, and what stands before it
  ExPath,      \* the directory of %EX0, searched for commands after the current one
  Configs,     \* the texts FS.CFG may have: sequences of lines, each split at "="
  EolLen,      \* 2 for CR LF, 1 for LF or CR
  MaxActions,  \* CONFIG_FILE_MAX_EXT_ACTIONS
  OldActions,  \* the commands FSWALK has for extensions
  Slots,       \* items that fit the work buffer of DIRBUF_LEN bytes
  Height,      \* rows of the list, 23
  PageStep,    \* 5
  Words,       \* 2^16, the words an index is counted in
  NameRoom     \* room for the full name of the directory, SCREEN_WIDTH/8 - 2

VARIABLE fw

FsPrograms == {"FS", "FSWALK"}
Entry(n, d) == [name |-> n, dir |-> d]
Dots == {"..", "."}
Blank3 == "blank"
BoxRow == "box"
NoSpawn == <<>>
Has(t, d, n) == \E i \in DOMAIN t[d] : t[d][i] = Entry(n, FALSE)
Cut(n) == IF n \in DOMAIN CutNames THEN CutNames[n] ELSE n
Dec(n) == (n + Words - 1) % Words
Least(a, b) == IF a < b THEN a ELSE b

ASSUME FsAssumption ==
  /\ {Height, PageStep, Slots, MaxActions} \subseteq Nat \ {0}
  /\ EolLen \in 1..2
  /\ Words \in Nat /\ Words > Slots + PageStep + Height
  /\ DOMAIN Parent = DOMAIN Disk

-----------------------------------------------------------------------------
(* config.c.  The text is a sequence of pieces between zero bytes: NUL for *)
(* a zero, or the parts between the equal signs of a line.                    *)

NUL == <<>>

\* replace_new_lines_with_zero_bytes, and the zeros behind the text.
ConfigText(lines) ==
  LET t[i \in 0..Len(lines)] ==
        IF i = 0 THEN <<>>
        ELSE t[i - 1] \o (IF lines[i] = <<"">> THEN <<>> ELSE <<lines[i]>>)
                      \o [k \in 1..EolLen |-> NUL]
  IN t[Len(lines)] \o <<NUL, NUL, NUL>>

\* A full table keeps its last slot for whatever comes.
add_user_action(table, e, at) ==
  IF Len(table) < MaxActions THEN Append(table, <<e, at>>)
  ELSE [table EXCEPT ![MaxActions] = <<e, at>>]

\* One or two zeros are skipped after a text.
Zeros(t, p) == LET q == IF t[p] = NUL THEN p + 1 ELSE p IN IF t[q] = NUL THEN q + 1 ELSE q

\* iterate_trough_extensions from p.  The zero put over the equal sign makes the
\* action a line of its own, which is looked at next.
RECURSIVE Iterate(_, _, _, _)
Iterate(t, p, in, table) ==
  LET ext == in \/ t[p] = <<"[Ext]">>
      q   == Zeros(t, IF t[p] = NUL THEN p ELSE p + 1)
  IN CASE t[q] = NUL -> [text |-> t, table |-> table]
       [] t[q] # NUL /\ ext /\ Len(t[q]) > 1 ->
            LET rest == Tail(t[q])
                cut  == SubSeq(t, 1, q - 1) \o <<<<Head(t[q])>>, NUL>>
                        \o (IF rest = <<"">> THEN <<>> ELSE <<rest>>) \o SubSeq(t, q + 1, Len(t))
            IN Iterate(cut, q, ext, add_user_action(table, Head(t[q]), q + 2))
       [] OTHER -> Iterate(t, q, ext, table)

\* load_config_file: extensions and actions; an action is what stands at its
\* place when all is done.
LoadConfig(lines) ==
  LET r == Iterate(ConfigText(lines), 1, FALSE, <<>>)
  IN [i \in DOMAIN r.table |->
        <<r.table[i][1], LET x == r.text[r.table[i][2]] IN IF x = NUL THEN "" ELSE x[1]>>]

\* The first entry of the table, "none" without one.
get_user_action(table, e) ==
  LET at == {i \in DOMAIN table : table[i][1] = e}
  IN IF at = {} THEN "none" ELSE table[CHOOSE i \in at : \A j \in at : i <= j][2]

-----------------------------------------------------------------------------
(* list_view.c, os_cmd.c *)

\* What both forms list: all but the entry ".".
Listable(t, d) == SelectSeq(t[d], LAMBDA e : e # Entry(".", TRUE))
ThatFit(s) == SubSeq(s, 1, Least(Len(s), Slots))

\* FillListView: the listing ends where the work buffer refuses an item.
FillListView(t, d) == ThatFit(Listable(t, d))

\* do_dir of FSWALK: one text of lines up to the length of the buffer, cut into
\* items at its LFCRs when it is complete.
do_dir(t, d) == ThatFit(Listable(t, d))

check_visible_part(v) ==
  IF v.sel >= v.first + Height THEN [v EXCEPT !.first = v.sel - Height + 1]
  ELSE IF v.sel < v.first THEN [v EXCEPT !.first = v.sel] ELSE v

\* Only the rows that have an item are drawn over.
ListView_Update(w) ==
  LET v == check_visible_part(w.view)
  IN [w EXCEPT !.view = v,
        !.rows = [r \in 1..Height |->
                    IF v.first + r <= Len(v.items)
                    THEN [item |-> v.items[v.first + r], marked |-> v.first + r - 1 = v.sel]
                    ELSE w.rows[r]]]

ClearArea(w) == [w EXCEPT !.rows = [r \in 1..Height |-> Blank3]]

\* print_box: six rows of text over the list.
PrintBox(w) == [w EXCEPT !.rows = [r \in 1..Height |-> IF r <= 6 THEN BoxRow ELSE @[r]]]

\* A slip: items are counted from one.
SelectedItemsBefore(v) ==
  IF v.sel < Len(v.items) THEN {v.items[IF v.sel = 0 THEN 1 ELSE v.sel]}
  ELSE IF v.sel = 0 THEN {} ELSE {Entry("junk", FALSE)}

\* ListView_GetSelectedItem: past the items there are the bytes behind the
\* buffer, whatever they are; an empty list has an empty text at 0.
SelectedItems(v) ==
  IF v.sel < Len(v.items) THEN {v.items[v.sel + 1]}
  ELSE IF v.sel = 0 THEN {} ELSE {Entry("junk", FALSE)}

-----------------------------------------------------------------------------
(* current_dir_full_name.c: the names upward from d that fit in room. *)
RECURSIVE NamesUp(_, _)
NamesUp(d, room) ==
  IF NameLen[d] + 1 > room THEN <<>>
  ELSE IF Parent[d] = d THEN <<d>>
  ELSE Append(NamesUp(Parent[d], room - NameLen[d] - 1), d)

\* Where the walk upward ends.
RECURSIVE WalkedTo(_, _)
WalkedTo(d, room) ==
  IF NameLen[d] + 1 > room \/ Parent[d] = d THEN d
  ELSE WalkedTo(Parent[d], room - NameLen[d] - 1)

\* CurrentDirFullName_Setup: the position is stored, the parents are walked, and
\* the position is restored.
FullName_Setup(w) ==
  LET up == [w EXCEPT !.stored = w.cwd, !.full = NamesUp(w.cwd, NameRoom),
                      !.cwd = WalkedTo(w.cwd, NameRoom)]
  IN [up EXCEPT !.cwd = up.stored]

-----------------------------------------------------------------------------
(* fs_walk.c *)

Listed(w, items) ==
  ListView_Update(ClearArea([w EXCEPT !.view = [items |-> items, sel |-> 0, first |-> 0]]))

OldFill(w) == Listed(w, do_dir(w.tree, w.cwd))

\* fill_ListView_by_entries_from_current_dir
Fill(w) ==
  IF w.program = "FSWALK" THEN OldFill(w)
  ELSE FullName_Setup(Listed(w, FillListView(w.tree, w.cwd)))

Select(w, i) == ListView_Update([w EXCEPT !.view.sel = i])

\* The keys that move the selection, in main_loop.
Down(w, step) ==
  LET n == Len(w.view.items)
  IN Select(w, IF w.view.sel + step < n THEN w.view.sel + step ELSE Dec(n))

Up(w, step) == Select(w, IF w.view.sel >= step THEN w.view.sel - step ELSE 0)

Moved(w, key) ==
  CASE key = "DOWN"   -> Down(w, 1)
    [] key = "PGDOWN" -> Down(w, PageStep)
    [] key = "UP"     -> Up(w, 1)
    [] key = "PGUP"   -> Up(w, PageStep)
    [] key = "HOME"   -> Select(w, 0)
    [] key = "END"    -> Select(w, Dec(Len(w.view.items)))

\* RequestToExitAndExecuteCommandString: the screen is cleared, and main returns
\* SPAWN_COMMAND at the end of this turn of the loop.
Spawn(w, command, file) ==
  [ClearArea(w) EXCEPT !.phase = "command", !.spawn = <<command, file>>]

\* DiskService_GotoSourceDirAndVolume and FLOS_StoreDirPosition.
GotoSource(w, from) == [w EXCEPT !.cwd = from, !.stored = from]

OldStart(w) == OldFill([w EXCEPT !.phase = "browse"])

\* main up to the loop.  from is the directory the program was loaded from; the
\* configuration is read there.  A failure returns from there.
Start(w, from) ==
  IF w.program = "FSWALK" THEN OldStart(w)
  ELSE LET src == GotoSource(w, from)
       IN IF ~Has(src.tree, src.cwd, "FS.CFG") THEN [src EXCEPT !.phase = "failed"]
          ELSE Fill([src EXCEPT !.table = LoadConfig(w.config), !.cwd = w.cwd,
                                !.phase = "browse", !.commander = "FS.EXE"])

-----------------------------------------------------------------------------
(* user_actions.c *)

enter_dir(w, e) ==
  Fill([w EXCEPT !.cwd = IF e.name \in Dots THEN Parent[w.cwd]
                         ELSE IF e.name \in DOMAIN Parent THEN e.name ELSE w.cwd])

ExtensionOf(name) == IF name \in DOMAIN Extension THEN Extension[name] ELSE "none"

\* do_action_based_on_file_extension of FSWALK: the extensions are in the code.
OldAction(w, name) ==
  LET ext == ExtensionOf(name) IN
  IF ext = "EXE" THEN Spawn(w, "", name)
  ELSE IF ext \in DOMAIN OldActions THEN Spawn(w, OldActions[ext], name) ELSE w

\* do_action_based_on_file_extension of FS; a name without a dot has no
\* extension the table knows.
FileAction(w, name) ==
  LET ext == ExtensionOf(name)
      act == get_user_action(w.table, ext)
  IN IF ext = "EXE" THEN Spawn(w, "", name)
     ELSE IF ext = "none" \/ act = "none" THEN w ELSE Spawn(w, act, name)

\* The name is cut at its first space.
enter_pressed(w, e) ==
  IF e.dir THEN enter_dir(w, e)
  ELSE IF w.program = "FS" THEN FileAction(w, Cut(e.name)) ELSE OldAction(w, Cut(e.name))

\* f3_pressed and f4_pressed.
WithTool(w, e, tool) == IF e.dir THEN w ELSE Spawn(w, tool, Cut(e.name))

\* A slip: the area is cleared and the directory is not read again.
delete_dir_entryStale(w, e) ==
  LET gone == IF e.dir /\ \E i \in DOMAIN w.tree[e.name] : w.tree[e.name][i].name \notin Dots
              THEN w.tree[w.cwd]
              ELSE SelectSeq(w.tree[w.cwd], LAMBDA x : x # Entry(Cut(e.name), e.dir))
  IN ListView_Update(ClearArea([w EXCEPT !.tree[w.cwd] = gone]))

\* The Y of delete_dir_entry: FLOS deletes no directory that holds anything.
delete_dir_entry(w, e) ==
  LET gone == IF e.dir /\ \E i \in DOMAIN w.tree[e.name] : w.tree[e.name][i].name \notin Dots
              THEN w.tree[w.cwd]
              ELSE SelectSeq(w.tree[w.cwd], LAMBDA x : x # Entry(Cut(e.name), e.dir))
  IN ListView_Update(Fill([w EXCEPT !.tree[w.cwd] = gone]))

-----------------------------------------------------------------------------
(* The loop of FLOS *)

\* os_parse_cmd_chk_ps after a command that asks for no other: the commander is
\* run, unless there is none or CTRL is held.
chk_cmdr(w, ctrl) ==
  IF w.commander = "" \/ ctrl THEN [w EXCEPT !.phase = "prompt", !.commander = ""]
  ELSE [w EXCEPT !.phase = "run"]

\* The program is looked for here, then in the assigned directory.
FoundIn(w) ==
  LET exe == IF w.program = "FS" THEN "FS.EXE" ELSE "FSWALK.EXE"
  IN IF Has(w.tree, w.cwd, exe) THEN {w.cwd} ELSE IF Has(w.tree, ExPath, exe) THEN {ExPath} ELSE {}

-----------------------------------------------------------------------------
FsStart(p, d, c) ==
  [program |-> p, phase |-> "prompt", cwd |-> d, stored |-> d, tree |-> Disk, config |-> c,
   table |-> <<>>, view |-> [items |-> <<>>, sel |-> 0, first |-> 0],
   rows |-> [r \in 1..Height |-> Blank3], full |-> <<>>, commander |-> "", spawn |-> NoSpawn]

FsInit == \E p \in FsPrograms, d \in DOMAIN Disk, c \in Configs : fw = FsStart(p, d, c)

\* The user types the name of the program, or a CD.
TypeName == fw.phase = "prompt" /\ fw' = [fw EXCEPT !.phase = "run", !.spawn = NoSpawn]
TypeCd(d) == fw.phase = "prompt" /\ d # fw.cwd /\ fw' = [fw EXCEPT !.cwd = d]

\* A program that is not found is an error, and FLOS asks for the commander again.
Launch(ctrl) ==
  /\ fw.phase = "run"
  /\ IF FoundIn(fw) = {} THEN fw' = chk_cmdr([fw EXCEPT !.phase = "failed"], ctrl)
     ELSE \E from \in FoundIn(fw) : fw' = Start([fw EXCEPT !.spawn = NoSpawn], from)

StartFailed(ctrl) == fw.phase = "failed" /\ fw' = chk_cmdr(fw, ctrl)

\* The spawned command, which leaves the disk and the directory alone.
CommandDone(ctrl) == fw.phase = "command" /\ fw' = chk_cmdr(fw, ctrl)

Navigate(key) == fw.phase = "browse" /\ fw' = Moved(fw, key)

Enter == fw.phase = "browse" /\ \E e \in SelectedItems(fw.view) : fw' = enter_pressed(fw, e)

Tool(key) ==
  /\ fw.phase = "browse" /\ (key = "F3" => fw.program = "FS")
  /\ \E e \in SelectedItems(fw.view) :
       fw' = WithTool(fw, e, CASE fw.program = "FSWALK" -> "TEXTEDIT"
                               [] key = "F3" -> "HEXOR" [] OTHER -> "EDIT")

Info == fw.phase = "browse" /\ fw.program = "FS" /\ fw' = [PrintBox(fw) EXCEPT !.phase = "info"]

AnyKey == fw.phase = "info" /\ fw' = ListView_Update([fw EXCEPT !.phase = "browse"])

AskDelete ==
  /\ fw.phase = "browse" /\ fw.program = "FS"
  /\ \E e \in SelectedItems(fw.view) :
       e.name # ".." /\ fw' = [PrintBox(fw) EXCEPT !.phase = "confirm"]

Yes ==
  /\ fw.phase = "confirm"
  /\ \E e \in SelectedItems(fw.view) : fw' = delete_dir_entry([fw EXCEPT !.phase = "browse"], e)

No == fw.phase = "confirm" /\ fw' = ListView_Update(ClearArea([fw EXCEPT !.phase = "browse"]))

\* FSWALK leaves the commander alone.
Escape(ctrl) ==
  /\ fw.phase = "browse"
  /\ fw' = chk_cmdr([ClearArea(fw) EXCEPT !.commander = IF fw.program = "FS" THEN "" ELSE @], ctrl)

FsNext ==
  \/ TypeName \/ Enter \/ Info \/ AnyKey \/ AskDelete \/ Yes \/ No
  \/ \E d \in DOMAIN Disk : TypeCd(d)
  \/ \E ctrl \in BOOLEAN : Launch(ctrl) \/ StartFailed(ctrl) \/ CommandDone(ctrl) \/ Escape(ctrl)
  \/ \E key \in {"DOWN", "PGDOWN", "UP", "PGUP", "HOME", "END"} : Navigate(key)
  \/ \E key \in {"F3", "F4"} : Tool(key)

FsSpec == FsInit /\ [][FsNext]_fw

-----------------------------------------------------------------------------
(* Properties *)

\* Whatever was entered, left or deleted, the list is that of the current
\* directory as it is on the disk, cut only by the buffer, and the full name over
\* it is that directory's: walking the parents to spell it has moved nothing.
ShowsWhereItIs ==
  fw.phase \in {"browse", "confirm", "info"} =>
    /\ fw.view.items = FillListView(fw.tree, fw.cwd)
    /\ fw.program = "FS" => fw.full = NamesUp(fw.cwd, NameRoom)

\* A list that is not empty has its selection on an item and inside the window,
\* and each row that has an item shows it, marked when it is the selected one.
WindowHoldsSelection ==
  LET v == fw.view IN
  fw.phase = "browse" /\ v.items # <<>> =>
    /\ v.sel < Len(v.items) /\ v.first <= v.sel /\ v.sel < v.first + Height
    /\ \A r \in 1..Height : v.first + r <= Len(v.items) =>
         fw.rows[r] = [item |-> v.items[v.first + r], marked |-> v.first + r - 1 = v.sel]

\* The file a command is left to work on is in the directory FLOS will run it
\* in: no stale list names a file that has been deleted.  A name with a space is
\* cut, and what lies behind an empty list is no file.
SpawnedFileExists ==
  fw.phase = "command" /\ fw.view.items # <<>> =>
    \E i \in DOMAIN fw.tree[fw.cwd] :
      ~fw.tree[fw.cwd][i].dir /\ Cut(fw.tree[fw.cwd][i].name) = fw.spawn[2]

\* The browser that fails to start has lost its program or its configuration to
\* a deletion: whatever directory the user has walked to, it reads the one it was
\* loaded from.
FailsOnlyWhenGone ==
  fw.phase = "failed" =>
    \E d \in DOMAIN Disk : \E n \in {"FS.CFG", "FS.EXE"} : Has(Disk, d, n) /\ ~Has(fw.tree, d, n)

\* A text of lines "extension = action", none of them empty, gives each extension
\* its action, the first if there are two, as long as the table has room.
ConfigMeansLines ==
  LET c == fw.config
      good == /\ Len(c) \in 1..MaxActions /\ c[1] = <<"[Ext]">>
              /\ \A i \in 2..Len(c) : Len(c[i]) = 2 /\ c[i][1] # "" /\ c[i][2] \notin {"", "[Ext]"}
  IN fw.phase = "browse" /\ fw.program = "FS" /\ good =>
       \A i \in 2..Len(c) : (\A j \in 2..(i - 1) : c[j][1] # c[i][1]) =>
         get_user_action(fw.table, c[i][1]) = c[i][2]

\* Only the Y of the question changes the disk, and it takes away nothing but
\* the entry that was asked about, which is still the selected one.
OnlyConfirmedIsDeleted ==
  [][fw'.tree # fw.tree =>
       /\ fw.phase = "confirm" /\ fw.view.sel < Len(fw.view.items)
       /\ \A d \in DOMAIN Disk : \A i \in DOMAIN fw.tree[d] :
            \/ \E j \in DOMAIN fw'.tree[d] : fw'.tree[d][j] = fw.tree[d][i]
            \/ d = fw.cwd /\ fw.tree[d][i] = fw.view.items[fw.view.sel + 1]]_fw

\* What the browser shows, and what it leaves to FLOS, is what is on the disk;
\* what it does for a file is what its configuration says.
BrowserSound ==
    ShowsWhereItIs /\ WindowHoldsSelection /\ SpawnedFileExists /\ FailsOnlyWhenGone /\ ConfigMeansLines
=============================================================================
